---------------------------- MODULE BoundedFifo ----------------------------
(***************************************************************************)
(* What a trace buffer promises its users: a queue of at most Capacity     *)
(* bytes.  A write appends the first bytes of what it is given, as many as *)
(* fit; a read takes the oldest bytes, as many as it asks for and there    *)
(* are; each returns how many bytes it moved.                              *)
(***************************************************************************)
EXTENDS Integers, Sequences

CONSTANTS
  Byte,
  Capacity,
  Counts,    \* counts callers pass
  Errors     \* results of a refused call, no numbers of bytes

VARIABLES
  queue,   \* bytes in the buffer, oldest first
  op,      \* call in progress: "idle", "read" or "write"
  want,    \* how many bytes it is to move
  buff,    \* bytes it has moved
  ret      \* result of the last call

vars == <<queue, op, want, buff, ret>>

Full == Len(queue) = Capacity

Init ==
  /\ queue = <<>>
  /\ op = "idle"
  /\ want = 0
  /\ buff = <<>>
  /\ ret = 0

Begin(kind, n) ==
  /\ op = "idle"
  /\ op' = kind
  /\ want' = n
  /\ buff' = <<>>
  /\ UNCHANGED <<queue, ret>>

(* A call that moves nothing: refused, or with nothing it could move       *)
Refuse(error) ==
  /\ op = "idle"
  /\ ret' = error
  /\ UNCHANGED <<queue, op, want, buff>>

Nothing ==
  /\ op = "idle"
  /\ queue = <<>> \/ Full
  /\ ret' = 0
  /\ UNCHANGED <<queue, op, want, buff>>

Put(b) ==
  /\ op = "write"
  /\ Len(buff) < want
  /\ ~Full
  /\ queue' = Append(queue, b)
  /\ buff' = Append(buff, b)
  /\ UNCHANGED <<op, want, ret>>

Take ==
  /\ op = "read"
  /\ Len(buff) < want
  /\ queue # <<>>
  /\ queue' = Tail(queue)
  /\ buff' = Append(buff, Head(queue))
  /\ UNCHANGED <<op, want, ret>>

(* A call ends short of its count only when the queue stops it.            *)
End ==
  /\ \/ op = "read" /\ (Len(buff) >= want \/ queue = <<>>)
     \/ op = "write" /\ (Len(buff) >= want \/ Full)
  /\ ret' = Len(buff)
  /\ op' = "idle"
  /\ UNCHANGED <<queue, want, buff>>

Next ==
  \/ \E kind \in {"read", "write"}, n \in Counts : Begin(kind, n)
  \/ \E error \in Errors : Refuse(error)
  \/ Nothing
  \/ \E b \in Byte : Put(b)
  \/ Take
  \/ End

Spec == Init /\ [][Next]_vars
=============================================================================
