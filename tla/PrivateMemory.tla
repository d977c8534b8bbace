--------------------------- MODULE PrivateMemory ---------------------------
(***************************************************************************)
(* What the memory of processes promises: each has its own, which only its *)
(* own writes change, with the values they write; a fork gives the child   *)
(* what its parent has.  How frames are shared and copied does not show.   *)
(* Module Paging implements it.                                            *)
(***************************************************************************)
CONSTANTS Procs, Pages, Values, Nothing, Loads, Stores, NoAccess

VARIABLES
  mem,   \* mem[p][g]: what process p reads from page g, Nothing before its first use
  want   \* want[p]: the access p has asked for

vars == <<mem, want>>

Empty == [g \in Pages |-> Nothing]
NoWant == [p \in Procs |-> NoAccess]

Ask(p, access) ==
  /\ want[p] = NoAccess
  /\ want' = [want EXCEPT ![p] = access]
  /\ UNCHANGED mem

(* A page is first used: its contents are what the frame held before.      *)
Fill(p, v) ==
  /\ want[p] # NoAccess
  /\ mem[p][want[p].page] = Nothing
  /\ mem' = [mem EXCEPT ![p][want[p].page] = v]
  /\ UNCHANGED want

Perform(p) ==
  /\ want[p] # NoAccess
  /\ mem[p][want[p].page] # Nothing
  /\ mem' = IF want[p] \in Stores
            THEN [mem EXCEPT ![p][want[p].page] = want[p].value]
            ELSE mem
  /\ want' = [want EXCEPT ![p] = NoAccess]

Drop(p, g) ==
  /\ want[p] = NoAccess
  /\ mem' = [mem EXCEPT ![p][g] = Nothing]
  /\ UNCHANGED want

(* Of the pages of the parent the child has some, with their contents.     *)
Fork(p, child, S) ==
  /\ want[p] = NoAccess
  /\ mem[child] = Empty
  /\ mem' = [mem EXCEPT ![child] = [g \in Pages |-> IF g \in S THEN mem[p][g] ELSE Nothing]]
  /\ UNCHANGED want

Exit(p) ==
  /\ mem' = [mem EXCEPT ![p] = Empty]
  /\ want' = [want EXCEPT ![p] = NoAccess]

Init ==
  /\ \E p \in Procs, first \in [Pages -> Values \cup {Nothing}] :
       mem = [r \in Procs |-> IF r = p THEN first ELSE Empty]
  /\ want = NoWant

Next ==
  \E p \in Procs :
    \/ \E access \in Loads \cup Stores : Ask(p, access)
    \/ \E v \in Values : Fill(p, v)
    \/ Perform(p)
    \/ \E g \in Pages : Drop(p, g)
    \/ \E child \in Procs \ {p}, S \in SUBSET Pages : Fork(p, child, S)
    \/ Exit(p)

Spec == Init /\ [][Next]_vars
=============================================================================
