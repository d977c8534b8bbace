------------------------------ MODULE MCStrace ------------------------------
(* Instances of Strace for model checking                                  *)
EXTENDS Strace

CONSTANTS f1

TwoProcs == {1, 2}
OneFile == {f1}
Getpid == <<2>>
Blank1 == <<14, 32>>       \* dump_page_table of an address with a blank among its bytes
SomeCalls == {Getpid, Blank1}
Three == {2, 14, 29}
WrongAndRight == {-1, 0}
OneOrMany == {1, 9}
JustZero == {0}

ASSUME CallsAreComplete == CallsComplete

(* What tells states apart: of a whole buffer, where it starts and what is *)
(* in it; of a broken or closed one, nothing; of a head, nothing that no   *)
(* process reads again.  Bytes a buffer has given out, and what the last   *)
(* read returned, are of no consequence.                                   *)
Unused(h) == \A p \in alive : base[p] # h
HeadInUse(h) ==
  IF Unused(h) THEN "unused"
  ELSE IF head[h].is_traced = 0 THEN <<head[h].where, head[h].calls>>
  ELSE head[h]

Used ==
  <<alive, files, held, [p \in alive |-> base[p]], [h \in Procs |-> HeadInUse(h)],
    low8 = NULL, call, wild, broken, shared,
    [f \in held \ broken |-> <<Contents(ring[f]), ring[f].rear>>]>>

(* Two heads in use know nothing of each other: one is enough.             *)
OneHead == \E h \in Procs : Unused(h)
=============================================================================
