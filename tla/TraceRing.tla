----------------------------- MODULE TraceRing -----------------------------
(***************************************************************************)
(* The ring of a trace buffer as the kernel's own calls use it             *)
(* (Assignment2/gemOS/src/tracer.c): write_to_buffer, and the loops of     *)
(* sys_read_strace and sys_read_ftrace.  Each runs to its end before       *)
(* anything else runs, so a call is a function from ring to ring;          *)
(* TraceBuffer has the same ring with a step per byte.                     *)
(***************************************************************************)
EXTENDS Integers, Sequences, SequencesExt, FiniteSetsExt

CONSTANTS
  Size,       \* TRACE_BUFFER_MAX_SIZE
  WordSize    \* bytes of a u64

ASSUME RingAssumption == Size \in Nat \ {0, 1} /\ WordSize \in Nat \ {0}

Delimiter == 32    \* ' '

Index == 0 .. (Size - 1)
Rings == [bytes : [Index -> Nat], front : Index \cup {-1}, rear : Index \cup {-1}]

Isempty(r) == r.front = -1 /\ r.rear = -1
Isfull(r) == (r.front + 1) % Size = r.rear

(* A number as its bytes, the lowest first; only that one is not zero here *)
Word(n) == <<n>> \o [i \in 1 .. (WordSize - 1) |-> 0]

Room(r) ==
  IF Isempty(r) THEN Size ELSE IF Isfull(r) THEN 0 ELSE (r.rear - r.front - 1) % Size

(* write_to_buffer(filep, data, Len(data)): as many bytes as there is room *)
(* for, behind front                                                       *)
write_to_buffer(r, data) ==
  LET moved == Min({Len(data), Room(r)})
      place(i) == ((i - r.front - 1) % Size) + 1
  IN IF moved = 0
     THEN r
     ELSE [bytes |-> [i \in Index |-> IF place(i) <= moved THEN data[place(i)] ELSE r.bytes[i]],
           front |-> (r.front + moved) % Size,
           rear  |-> IF Isempty(r) THEN 0 ELSE r.rear]

(* A record: its words, then the delimiter, each with a call of its own.   *)
(* None of the results is looked at: what follows a piece that did not fit *)
(* is written all the same (and the delimiter, too, may be lost).          *)
Record(words) == Append([i \in DOMAIN words |-> Word(words[i])], <<Delimiter>>)

(* The ring after each of the calls                                        *)
Written(r, pieces) ==
  LET after[n \in 0 .. Len(pieces)] ==
        IF n = 0 THEN r ELSE write_to_buffer(after[n - 1], pieces[n])
  IN after

(* Mutant of WriteRecord: no delimiter behind the last word                *)
WriteRecord_Open(r, words) == Written(r, Record(words))[Len(words)]

WriteRecord(r, words) == Written(r, Record(words))[Len(words) + 1]

-----------------------------------------------------------------------------
(* One turn of the reader's outer loop: bytes up to the next delimiter go  *)
(* to out.  Neither front nor the emptiness of the ring is looked at on    *)
(* the way, so an empty ring is read from buffer[-1] on (before is what is *)
(* there), and a ring with no delimiter for ever.                          *)
Reader(r) == [bytes |-> r.bytes, front |-> r.front, rear |-> r.rear,
              out |-> <<>>, state |-> "reads"]

(* Mutants of ReadTurn: the delimiter is not skipped; rear is not taken    *)
(* around the ring.                                                        *)
ReadTurn_KeepsDelimiter(s, before) ==
  LET pos(k) == IF k = 0 THEN s.rear ELSE (s.rear + k) % Size
      at(k) == IF pos(k) = -1 THEN before ELSE s.bytes[pos(k)]
      ends == {k \in 0 .. Size : at(k) = Delimiter}
      d == Min(ends)
      read == [s EXCEPT !.out = @ \o [k \in 1 .. d |-> at(k - 1)]]
  IN IF s.state # "reads" THEN s
     ELSE IF ends = {} THEN [s EXCEPT !.state = "hangs"]
     ELSE IF pos(d) = s.front THEN [read EXCEPT !.front = -1, !.rear = -1, !.state = "stopped"]
     ELSE [read EXCEPT !.rear = pos(d)]
ReadTurn_NoWrap(s, before) ==
  LET pos(k) == IF k = 0 THEN s.rear ELSE (s.rear + k) % Size
      at(k) == IF pos(k) = -1 THEN before ELSE s.bytes[pos(k)]
      ends == {k \in 0 .. Size : at(k) = Delimiter}
      d == Min(ends)
      read == [s EXCEPT !.out = @ \o [k \in 1 .. d |-> at(k - 1)]]
  IN IF s.state # "reads" THEN s
     ELSE IF ends = {} THEN [s EXCEPT !.state = "hangs"]
     ELSE IF pos(d) = s.front THEN [read EXCEPT !.front = -1, !.rear = -1, !.state = "stopped"]
     ELSE [read EXCEPT !.rear = pos(d) + 1]

ReadTurn(s, before) ==
  LET pos(k) == IF k = 0 THEN s.rear ELSE (s.rear + k) % Size
      at(k) == IF pos(k) = -1 THEN before ELSE s.bytes[pos(k)]
      ends == {k \in 0 .. Size : at(k) = Delimiter}
      d == Min(ends)
      read == [s EXCEPT !.out = @ \o [k \in 1 .. d |-> at(k - 1)]]
  IN IF s.state # "reads" THEN s
     ELSE IF ends = {} THEN [s EXCEPT !.state = "hangs"]
     ELSE IF pos(d) = s.front THEN [read EXCEPT !.front = -1, !.rear = -1, !.state = "stopped"]
     ELSE [read EXCEPT !.rear = (pos(d) + 1) % Size]

(* The reader after each turn, and in the end                              *)
Turns(r, count, before) ==
  LET after[n \in 0 .. count] == IF n = 0 THEN Reader(r) ELSE ReadTurn(after[n - 1], before)
  IN after

ReadRecords(r, count, before) == Turns(r, count, before)[count]

RingOf(s) == [bytes |-> s.bytes, front |-> s.front, rear |-> s.rear]

-----------------------------------------------------------------------------
(* What is in the ring, oldest first, and the records it makes up          *)
Contents(r) ==
  [i \in 1 .. (IF r.front = -1 THEN 0 ELSE ((r.front - r.rear) % Size) + 1) |->
     r.bytes[(r.rear + i - 1) % Size]]

(* The n-th member of a set of numbers, by size                            *)
Nth(S, n) == CHOOSE i \in S : Cardinality({j \in S : j <= i}) = n

Ends(bytes) == {i \in DOMAIN bytes : bytes[i] = Delimiter}
Split(bytes) ==
  LET start(n) == IF n = 1 THEN 1 ELSE Nth(Ends(bytes), n - 1) + 1
  IN [n \in 1 .. Cardinality(Ends(bytes)) |-> SubSeq(bytes, start(n), Nth(Ends(bytes), n) - 1)]

(* The words of a record, as bytes; it can be told from its neighbours     *)
(* when none of them is a delimiter.                                       *)
Flat(words) == FlattenSeq([i \in DOMAIN words |-> Word(words[i])])
Plain(words) == Delimiter \notin ToSet(Flat(words))
Whole(r, words) == Len(words) * WordSize + 1 <= Room(r)
=============================================================================
