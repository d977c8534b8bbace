----------------------------- MODULE CallTrace -----------------------------
(***************************************************************************)
(* What function tracing promises: the program runs as if nobody watched   *)
(* it, every function returning to where it was called from; and the trace *)
(* buffer is a queue of records, each of one call: the function, its first *)
(* arguments and, with a backtrace, the function again and the addresses   *)
(* the calls in progress return to, the innermost first.                   *)
(***************************************************************************)
EXTENDS Integers, Sequences, SequencesExt, FiniteSetsExt

CONSTANTS
  Main,
  Funcs,     \* addresses of the other functions
  ArgLists,  \* arguments they are called with
  Counts,    \* numbers of records asked for
  Bytes(_)   \* of a sequence of words

VARIABLES
  at,        \* function running; "entry" before its first instruction
  frames,    \* where the calls in progress return to
  records, broken, out   \* as in RecordQueue

vars == <<at, frames, records, broken, out>>

Body(f) == [fn |-> f, place |-> "body", args |-> <<>>]

Init ==
  /\ at = Body(Main)
  /\ frames = <<>>
  /\ records = <<>> /\ broken = FALSE /\ out = <<>>

Call ==
  /\ at.place = "body"
  /\ \E f \in Funcs, args \in ArgLists : at' = [fn |-> f, place |-> "entry", args |-> args]
  /\ frames' = Append(frames, at.fn)
  /\ out' = <<>>
  /\ UNCHANGED <<records, broken>>

Return ==
  /\ at.place = "body" /\ frames # <<>>
  /\ at' = Body(Last(frames))
  /\ frames' = Front(frames)
  /\ out' = <<>>
  /\ UNCHANGED <<records, broken>>

Entry(n, backtrace) ==
  <<at.fn>> \o SubSeq(at.args, 1, n)
    \o (IF backtrace THEN <<at.fn>> \o Reverse(frames) ELSE <<>>)

Enter ==
  /\ at.place = "entry"
  /\ at' = Body(at.fn)
  /\ \/ UNCHANGED <<records, broken>>
     \/ /\ ~broken
        /\ \E n \in 0 .. Len(at.args), backtrace \in BOOLEAN :
             records' = Append(records, Bytes(Entry(n, backtrace)))
        /\ UNCHANGED broken
     \/ broken' = TRUE /\ records' = <<>>
  /\ out' = <<>>
  /\ UNCHANGED frames

(* The buffer is read, or made anew; the functions to trace are chosen.    *)
Other ==
  /\ at.place = "body"
  /\ \/ \E n \in Counts :
          LET k == Min({n, Len(records)})
          IN /\ ~broken /\ records # <<>>
             /\ out' = FlattenSeq(SubSeq(records, 1, k))
             /\ records' = SubSeq(records, k + 1, Len(records))
             /\ UNCHANGED broken
     \/ broken /\ UNCHANGED <<records, broken>>
     \/ records' = <<>> /\ broken' = FALSE /\ out' = <<>>
     \/ out' = <<>> /\ UNCHANGED <<records, broken>>
  /\ UNCHANGED <<at, frames>>

Next == Call \/ Return \/ Enter \/ Other

Spec == Init /\ [][Next]_vars
=============================================================================
