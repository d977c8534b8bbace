---------------------------- MODULE RecordQueue ----------------------------
(***************************************************************************)
(* What system call tracing promises whoever reads a trace buffer: a queue *)
(* of records, each the number and the arguments of one call, whole and in *)
(* the order of the calls.  The promise holds for a buffer until it is     *)
(* broken: until a record did not fit, or had the delimiter among its      *)
(* bytes, or a read found the buffer empty.                                *)
(***************************************************************************)
EXTENDS Integers, Sequences, SequencesExt, FiniteSetsExt

CONSTANTS
  Files,
  Counts     \* numbers of records asked for

VARIABLES
  request,   \* bytes of the call being made, <<>> between calls
  records,   \* of each buffer, oldest first; none of a broken one
  broken,    \* the buffers of which nothing is promised
  out        \* bytes the last read gave its caller

vars == <<request, records, broken, out>>

Init ==
  /\ request = <<>>
  /\ records = [f \in Files |-> <<>>]
  /\ broken = {}
  /\ out = <<>>

(* A call is made: it is recorded in one buffer, or in none, or breaks one.*)
Request ==
  /\ request = <<>> /\ request' # <<>>
  /\ \/ UNCHANGED <<records, broken>>
     \/ \E f \in Files \ broken :
          /\ records' = [records EXCEPT ![f] = Append(@, request')]
          /\ UNCHANGED broken
     \/ \E f \in Files :
          /\ records' = [records EXCEPT ![f] = <<>>]
          /\ broken' = broken \cup {f}
  /\ out' = <<>>

(* A call that reads the oldest n records of f, or all of them             *)
Take(f, n) ==
  LET k == Min({n, Len(records[f])})
  IN /\ f \notin broken /\ records[f] # <<>>
     /\ out' = FlattenSeq(SubSeq(records[f], 1, k))
     /\ records' = [records EXCEPT ![f] = SubSeq(@, k + 1, Len(@))]
     /\ UNCHANGED broken

ReadBroken(f) ==
  /\ f \in broken \/ records[f] = <<>>
  /\ broken' = broken \cup {f}
  /\ UNCHANGED records

(* Buffers are made or closed.                                             *)
Renew(some) ==
  /\ records' = [f \in Files |-> IF f \in some THEN <<>> ELSE records[f]]
  /\ broken' = broken \ some
  /\ out' = <<>>

Serve ==
  /\ request # <<>> /\ request' = <<>>
  /\ \/ \E f \in Files, n \in Counts : Take(f, n)
     \/ \E f \in Files : ReadBroken(f)
     \/ \E some \in SUBSET Files : Renew(some)

Next == Request \/ Serve

Spec == Init /\ [][Next]_vars
=============================================================================
