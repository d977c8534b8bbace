------------------------------- MODULE AddrMap -------------------------------
(***************************************************************************)
(* What mmap, munmap, mprotect and cfork promise, with no list of areas in *)
(* sight: every page of the mmap region of a process is free (0) or has a  *)
(* protection.  mmap takes free pages only, munmap frees pages it was      *)
(* asked to free and no other, and is over only when all of them are free, *)
(* mprotect changes the protection of mapped pages only, a child starts    *)
(* with the map of its parent, and nothing one process does shows in the   *)
(* map of another.                                                         *)
(***************************************************************************)
EXTENDS Integers

CONSTANTS
  Procs,
  FirstPage, LastPage   \* the pages mmap may hand out

Pages == FirstPage .. LastPage
Prots == {1, 3}

VARIABLES
  alive,     \* processes that exist
  prot,      \* prot[p][g]: protection of page g of process p
  clearing   \* clearing[p]: pages a running munmap of p has still to free

vars == <<alive, prot, clearing>>

Idle(p) == p \in alive /\ clearing[p] = {}

(* The map of p with the pages of S given protection q                     *)
With(p, S, q) == [prot EXCEPT ![p] = [g \in Pages |-> IF g \in S THEN q ELSE prot[p][g]]]

Init ==
  /\ \E p \in Procs : alive = {p}
  /\ prot = [p \in Procs |-> [g \in Pages |-> 0]]
  /\ clearing = [p \in Procs |-> {}]

Map(p, first, last, q) ==
  /\ Idle(p)
  /\ \A g \in first .. last : prot[p][g] = 0
  /\ prot' = With(p, first .. last, q)
  /\ UNCHANGED <<alive, clearing>>

Protect(p, first, last, q) ==
  /\ Idle(p)
  /\ \A g \in first .. last : prot[p][g] # 0
  /\ prot' = With(p, first .. last, q)
  /\ UNCHANGED <<alive, clearing>>

StartUnmap(p, first, last) ==
  /\ Idle(p)
  /\ clearing' = [clearing EXCEPT ![p] = first .. last]
  /\ UNCHANGED <<alive, prot>>

(* A step of munmap frees the pages of S; what it leaves out of the rest   *)
(* it has still to do must be free by then.                                *)
Clear(p, S, rest) ==
  /\ clearing[p] # {}
  /\ S \subseteq clearing[p] /\ rest \subseteq clearing[p]
  /\ prot' = With(p, S, 0)
  /\ \A g \in clearing[p] \ rest : prot'[p][g] = 0
  /\ clearing' = [clearing EXCEPT ![p] = rest]
  /\ UNCHANGED alive

Fork(p, child) ==
  /\ Idle(p)
  /\ child \in Procs \ alive
  /\ alive' = alive \cup {child}
  /\ prot' = [prot EXCEPT ![child] = prot[p]]
  /\ UNCHANGED clearing

Exit(p) ==
  /\ Idle(p)
  /\ alive' = alive \ {p}
  /\ prot' = With(p, Pages, 0)
  /\ UNCHANGED clearing

Next ==
  \E p \in Procs :
    \/ \E first, last \in Pages, q \in Prots :
         Map(p, first, last, q) \/ Protect(p, first, last, q)
    \/ \E first, last \in Pages : StartUnmap(p, first, last)
    \/ \E S \in SUBSET clearing[p], rest \in SUBSET clearing[p] : Clear(p, S, rest)
    \/ \E child \in Procs : Fork(p, child)
    \/ Exit(p)

Spec == Init /\ [][Next]_vars
=============================================================================
