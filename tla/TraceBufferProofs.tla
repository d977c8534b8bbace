------------------------- MODULE TraceBufferProofs -------------------------
(***************************************************************************)
(* Proofs about TraceBuffer, for every size of the ring and every set of   *)
(* bytes and counts.                                                       *)
(***************************************************************************)
EXTENDS TraceBuffer, SequenceTheorems, TLAPS

Inv == TypeOK /\ RingConsistent

(* Stepping around the ring without a division                             *)
LEMMA NextIndex ==
  ASSUME NEW i \in Index
  PROVE  /\ (i + 1) % Size = IF i + 1 = Size THEN 0 ELSE i + 1
         /\ (i + 1) % Size \in Index
BY BufferAssumption DEF Index

(* An empty ring is not a full one: (front + 1) % SIZE is 0, rear is -1.   *)
LEMMA EmptyNotFull ==
  ASSUME NEW f, NEW r, Isempty(f, r)
  PROVE  ~Isfull(f, r)
BY BufferAssumption, 0 % Size = 0 DEF Isempty, Isfull

LEMMA InvInit == Init => Inv
<1> SUFFICES ASSUME Init PROVE Inv
  OBVIOUS
<1>1. TypeOK
  BY BufferAssumption DEF Init, TypeOK, Index
<1>2. RingConsistent
  BY DEF Init, RingConsistent
<1> QED
  BY <1>1, <1>2 DEF Inv

(* Entering a loop and leaving without one keep the invariant.             *)
LEMMA EnterKeepsInv ==
  ASSUME Inv, NEW n \in Counts, NEW loop \in {"read", "write"},
         pc = "idle", Enter(loop, n),
         loop = "read" => ~Isempty(write_offset, read_offset),
         loop = "write" => ~Isfull(write_offset, read_offset)
  PROVE  Inv'
<1>1. TypeOK'
  BY BufferAssumption DEF Inv, TypeOK, Enter, Index
<1>2. RingConsistent'
  BY DEF Inv, TypeOK, RingConsistent, Enter, Index, Isempty, Isfull
<1> QED
  BY <1>1, <1>2 DEF Inv

LEMMA LeaveKeepsInv ==
  ASSUME Inv, NEW value \in {0, -EBADMEM}, pc = "idle", Leave(value)
  PROVE  Inv'
<1>1. TypeOK'
  BY DEF Inv, TypeOK, Leave, Return, EBADMEM
<1>2. RingConsistent'
  BY DEF Inv, RingConsistent, Leave, Return, Isfull
<1> QED
  BY <1>1, <1>2 DEF Inv

LEMMA InvNext == Inv /\ [Next]_vars => Inv'
<1> SUFFICES ASSUME Inv, [Next]_vars PROVE Inv'
  OBVIOUS
<1> USE DEF Inv
<1>1. CASE \E n \in Counts, valid \in BOOLEAN : trace_buffer_read(n, valid)
  BY <1>1, EnterKeepsInv, LeaveKeepsInv DEF trace_buffer_read
<1>2. CASE \E n \in Counts, valid \in BOOLEAN : trace_buffer_write(n, valid)
  BY <1>2, EnterKeepsInv, LeaveKeepsInv DEF trace_buffer_write
<1>3. CASE \E n \in Counts : write_to_buffer(n)
  BY <1>3, EnterKeepsInv, LeaveKeepsInv DEF write_to_buffer
<1>4. CASE ReadByte
  <2>1. front \in Index /\ rear \in Index
    BY <1>4 DEF ReadByte, TypeOK, RingConsistent
  <2>2. (rear + 1) % Size \in Index
    BY <2>1, NextIndex
  <2>3. TypeOK'
    <3>1. buffer[rear] \in Byte
      BY <2>1 DEF TypeOK
    <3> QED
      BY <1>4, <2>1, <2>2, <3>1 DEF ReadByte, TypeOK
  <2>4. RingConsistent'
    BY <1>4, <2>1, <2>2 DEF ReadByte, TypeOK, RingConsistent, Index
  <2> QED
    BY <2>3, <2>4
<1>5. CASE ReadEnd
  <2>1. TypeOK'
    BY <1>5 DEF ReadEnd, Return, TypeOK
  <2>2. RingConsistent'
    BY <1>5 DEF ReadEnd, Return, TypeOK, RingConsistent
  <2> QED
    BY <2>1, <2>2
<1>6. CASE \E b \in Byte : WriteByte(b)
  <2> PICK b \in Byte : WriteByte(b)
    BY <1>6
  <2>1. front' \in Index /\ rear' \in Index
    BY NextIndex, BufferAssumption DEF WriteByte, Isempty, TypeOK, RingConsistent, Index
  <2>2. TypeOK'
    BY <2>1, BufferAssumption DEF WriteByte, TypeOK, Index
  <2>3. RingConsistent'
    BY <2>1 DEF WriteByte, TypeOK, RingConsistent, Index
  <2> QED
    BY <2>2, <2>3
<1>7. CASE WriteEnd
  <2>1. TypeOK'
    BY <1>7 DEF WriteEnd, Return, TypeOK
  <2>2. RingConsistent'
    BY <1>7 DEF WriteEnd, Return, TypeOK, RingConsistent
  <2> QED
    BY <2>1, <2>2
<1>8. CASE UNCHANGED vars
  BY <1>8 DEF vars, TypeOK, RingConsistent, Isfull
<1> QED
  BY <1>1, <1>2, <1>3, <1>4, <1>5, <1>6, <1>7, <1>8 DEF Next

(* Types hold in every reachable state of a trace buffer of any size.      *)
THEOREM Typed == Spec => []TypeOK
<1>1. Inv => TypeOK
  BY DEF Inv
<1> QED
  BY InvInit, InvNext, <1>1, PTL DEF Spec

(* The offsets and a call's copies of them agree, in every reachable       *)
(* state: trace_buffer_read never reads an empty ring, and the writers     *)
(* never write into a full one.                                            *)
THEOREM Consistent == Spec => []RingConsistent
<1>1. Inv => RingConsistent
  BY DEF Inv
<1> QED
  BY InvInit, InvNext, <1>1, PTL DEF Spec

-----------------------------------------------------------------------------
(* The ring as a sequence                                                  *)

LEMMA ContentsType ==
  ASSUME NEW bytes \in [Index -> Byte], NEW f \in Index, NEW r \in Index
  PROVE  /\ Length(f, r) \in 1 .. Size
         /\ \A i \in 1 .. Length(f, r) : At(r, i) \in Index
         /\ Contents(bytes, f, r) \in Seq(Byte)
         /\ Len(Contents(bytes, f, r)) = Length(f, r)
<1>1. Length(f, r) \in 1 .. Size
  BY BufferAssumption DEF Length, Index
<1>2. \A i \in 1 .. Length(f, r) : At(r, i) \in Index
  BY BufferAssumption DEF Length, At, Index
<1>3. Contents(bytes, f, r) \in [1 .. Length(f, r) -> Byte]
  BY <1>2 DEF Contents
<1> QED
  BY <1>1, <1>2, <1>3

(* A ring is full when it holds Size bytes.                                *)
LEMMA FullLength ==
  ASSUME NEW f \in Index, NEW r \in Index
  PROVE  Isfull(f, r) <=> Length(f, r) = Size
<1>1. (f + 1) % Size = IF f + 1 = Size THEN 0 ELSE f + 1
  BY NextIndex
<1> QED
  BY <1>1, BufferAssumption DEF Isfull, Length, Index

(* Reading a byte takes the head of the sequence.                          *)
LEMMA ReadTakesHead ==
  ASSUME NEW bytes \in [Index -> Byte], NEW f \in Index, NEW r \in Index, f # r
  PROVE  /\ Head(Contents(bytes, f, r)) = bytes[r]
         /\ Contents(bytes, f, (r + 1) % Size) = Tail(Contents(bytes, f, r))
<1> DEFINE s == Contents(bytes, f, r)
           t == Contents(bytes, f, (r + 1) % Size)
<1>1. (r + 1) % Size = IF r + 1 = Size THEN 0 ELSE r + 1
  BY NextIndex
<1>2. Length(f, (r + 1) % Size) = Length(f, r) - 1
  BY <1>1, BufferAssumption DEF Length, Index
<1>3. \A i \in 1 .. (Length(f, r) - 1) : At((r + 1) % Size, i) = At(r, i + 1)
  BY <1>1, BufferAssumption DEF Length, At, Index
<1>4. s \in Seq(Byte) /\ Len(s) = Length(f, r) /\ Length(f, r) \in 1 .. Size
  BY ContentsType
<1>5. s[1] = bytes[r]
  BY <1>4, BufferAssumption DEF Contents, At, Index
<1>6. t \in Seq(Byte) /\ Len(t) = Length(f, r) - 1
  BY <1>2, NextIndex, ContentsType
<1>7. \A i \in 1 .. Len(t) : t[i] = s[i + 1]
  BY <1>2, <1>3, <1>4, <1>6, BufferAssumption DEF Contents
<1>8. s # <<>> /\ Head(s) = s[1]
  BY <1>4
<1> HIDE DEF s, t
<1>9. /\ Tail(s) \in Seq(Byte) /\ Len(Tail(s)) = Len(s) - 1
      /\ \A i \in 1 .. Len(Tail(s)) : Tail(s)[i] = s[i + 1]
  BY <1>4, <1>8, HeadTailProperties
<1>10. t = Tail(s)
  BY <1>4, <1>6, <1>7, <1>9, SeqEqual
<1> QED
  BY <1>5, <1>8, <1>10 DEF s, t

(* Writing a byte appends it.                                              *)
LEMMA WriteAppends ==
  ASSUME NEW bytes \in [Index -> Byte], NEW f \in Index, NEW r \in Index,
         NEW b \in Byte, ~Isfull(f, r)
  PROVE  Contents([bytes EXCEPT ![(f + 1) % Size] = b], (f + 1) % Size, r)
           = Append(Contents(bytes, f, r), b)
<1> DEFINE g == (f + 1) % Size
           s == Contents(bytes, f, r)
           t == Contents([bytes EXCEPT ![g] = b], g, r)
<1>1. g = IF f + 1 = Size THEN 0 ELSE f + 1
  BY NextIndex
<1>2. g \in Index /\ g # r
  BY NextIndex DEF Isfull
<1>3. Length(g, r) = Length(f, r) + 1
  BY <1>1, <1>2, BufferAssumption DEF Length, Index
<1>4. s \in Seq(Byte) /\ Len(s) = Length(f, r) /\ Length(f, r) \in 1 .. Size
  BY ContentsType
<1>5. /\ At(r, Length(f, r) + 1) = g
      /\ \A i \in 1 .. Length(f, r) : At(r, i) # g /\ At(r, i) \in Index
  BY <1>1, <1>2, BufferAssumption DEF Length, At, Index
<1>6. t \in Seq(Byte) /\ Len(t) = Length(f, r) + 1
  <2>1. [bytes EXCEPT ![g] = b] \in [Index -> Byte]
    BY <1>2
  <2> QED
    BY <1>2, <1>3, <2>1, ContentsType
<1>7. \A i \in 1 .. Len(t) : t[i] = IF i = Len(s) + 1 THEN b ELSE s[i]
  BY <1>2, <1>3, <1>4, <1>5, <1>6 DEF Contents
<1> HIDE DEF s, t
<1>8. /\ Append(s, b) \in Seq(Byte) /\ Len(Append(s, b)) = Len(s) + 1
      /\ \A i \in 1 .. Len(s) + 1 : Append(s, b)[i] = IF i = Len(s) + 1 THEN b ELSE s[i]
  BY <1>4, AppendProperties
<1>9. t = Append(s, b)
  BY <1>4, <1>6, <1>7, <1>8, SeqEqual
<1> QED
  BY <1>9 DEF s, t

-----------------------------------------------------------------------------
(* The ring implements the bounded queue                                   *)

LEMMA SpanType ==
  ASSUME Inv
  PROVE  (Front = -1 /\ Rear = -1) \/ (Front \in Index /\ Rear \in Index)
BY DEF Inv, TypeOK, RingConsistent, Front, Rear

LEMMA QueueEmpty ==
  ASSUME Inv
  PROVE  queue = <<>> <=> Front = -1
<1>1. Front = -1 => queue = <<>>
  BY DEF queue, Contents, Length
<1>2. Front # -1 => queue # <<>>
  <2> SUFFICES ASSUME Front # -1 PROVE Len(queue) # 0
    OBVIOUS
  <2> QED
    <3>1. Front \in Index /\ Rear \in Index /\ buffer \in [Index -> Byte]
      BY SpanType DEF Inv, TypeOK
    <3>2. Length(Front, Rear) \in 1 .. Size /\ Len(queue) = Length(Front, Rear)
      BY <3>1, ContentsType DEF queue
    <3> QED
      BY <3>2, BufferAssumption
<1> QED
  BY <1>1, <1>2

LEMMA QueueFull ==
  ASSUME Inv
  PROVE  Len(queue) = Size <=> Isfull(Front, Rear)
<1>1. CASE Front = -1
  <2>1. ~Isfull(Front, Rear)
    BY <1>1, SpanType, EmptyNotFull DEF Isempty, Index
  <2>2. Len(queue) = 0
    BY <1>1, QueueEmpty
  <2> QED
    BY <2>1, <2>2, BufferAssumption
<1>2. CASE Front # -1
  <2>1. Len(queue) = Length(Front, Rear)
    BY <1>2, SpanType, ContentsType DEF Inv, TypeOK, queue
  <2> QED
    BY <1>2, <2>1, SpanType, FullLength
<1> QED
  BY <1>1, <1>2

LEMMA EnterBegins ==
  ASSUME Inv, NEW n \in Counts, NEW loop \in {"read", "write"},
         pc = "idle", Enter(loop, n)
  PROVE  Fifo!Begin(loop, n)
<1>1. queue' = queue
  BY DEF queue, Front, Rear, Enter, Contents
<1> QED
  BY <1>1 DEF Fifo!Begin, Enter, op

LEMMA LeaveStays ==
  ASSUME Inv, NEW value, pc = "idle", Leave(value)
  PROVE  op = "idle" /\ ret' = value /\ UNCHANGED <<queue, op, count, buff>>
BY DEF queue, Front, Rear, Contents, op, Leave, Return

LEMMA RefinesInit == Init => Fifo!Init
<1> SUFFICES ASSUME Init PROVE Fifo!Init
  OBVIOUS
<1>1. queue = <<>>
  BY DEF Init, queue, Front, Contents, Length
<1> QED
  BY <1>1 DEF Init, Fifo!Init, op

LEMMA RefinesNext == Inv /\ [Next]_vars => [Fifo!Next]_(Fifo!vars)
<1> SUFFICES ASSUME Inv, [Next]_vars PROVE [Fifo!Next]_(Fifo!vars)
  OBVIOUS
<1>1. CASE \E n \in Counts, valid \in BOOLEAN : trace_buffer_read(n, valid)
  <2> PICK n \in Counts, valid \in BOOLEAN : trace_buffer_read(n, valid)
    BY <1>1
  <2>1. CASE Leave(-EBADMEM)
    BY <2>1, LeaveStays DEF trace_buffer_read, Fifo!Next, Fifo!Refuse
  <2>2. CASE Isempty(write_offset, read_offset) /\ Leave(0)
    <3>1. queue = <<>>
      BY <2>2, QueueEmpty DEF trace_buffer_read, Front, Isempty
    <3> QED
      BY <2>2, <3>1, LeaveStays DEF trace_buffer_read, Fifo!Next, Fifo!Nothing
  <2>3. CASE Enter("read", n)
    BY <2>3, EnterBegins DEF trace_buffer_read, Fifo!Next
  <2> QED
    BY <2>1, <2>2, <2>3 DEF trace_buffer_read
<1>2. CASE \E n \in Counts, valid \in BOOLEAN : trace_buffer_write(n, valid)
  <2> PICK n \in Counts, valid \in BOOLEAN : trace_buffer_write(n, valid)
    BY <1>2
  <2>1. CASE Leave(-EBADMEM)
    BY <2>1, LeaveStays DEF trace_buffer_write, Fifo!Next, Fifo!Refuse
  <2>2. CASE Isfull(write_offset, read_offset) /\ Leave(0)
    <3>1. Len(queue) = Size
      BY <2>2, QueueFull DEF trace_buffer_write, Front, Rear
    <3> QED
      BY <2>2, <3>1, LeaveStays DEF trace_buffer_write, Fifo!Next, Fifo!Nothing, Fifo!Full
  <2>3. CASE Enter("write", n)
    BY <2>3, EnterBegins DEF trace_buffer_write, Fifo!Next
  <2> QED
    BY <2>1, <2>2, <2>3 DEF trace_buffer_write
<1>3. CASE \E n \in Counts : write_to_buffer(n)
  <2> PICK n \in Counts : write_to_buffer(n)
    BY <1>3
  <2>1. CASE Isfull(write_offset, read_offset) /\ Leave(0)
    <3>1. Len(queue) = Size
      BY <2>1, QueueFull DEF write_to_buffer, Front, Rear
    <3> QED
      BY <2>1, <3>1, LeaveStays DEF write_to_buffer, Fifo!Next, Fifo!Nothing, Fifo!Full
  <2>2. CASE Enter("write", n)
    BY <2>2, EnterBegins DEF write_to_buffer, Fifo!Next
  <2> QED
    BY <2>1, <2>2 DEF write_to_buffer
<1>4. CASE ReadByte
  <2>1. front \in Index /\ rear \in Index
    BY <1>4 DEF ReadByte, Inv, TypeOK, RingConsistent
  <2>2. queue = Contents(buffer, front, rear)
    BY <1>4 DEF ReadByte, queue, Front, Rear
  <2>3. queue # <<>>
    BY <1>4, <2>1, QueueEmpty DEF ReadByte, Front, Index
  <2>4. Head(queue) = buffer[rear] /\ queue' = Tail(queue)
    <3>1. CASE rear = front
      <4>1. queue \in Seq(Byte) /\ Len(queue) = 1
        <5>1. Length(front, rear) = 1
          BY <2>1, <3>1 DEF Length, Index
        <5> QED
          BY <2>1, <2>2, <5>1, ContentsType DEF Inv, TypeOK
      <4>2. Head(queue) = buffer[rear]
        BY <2>1, <2>2, <3>1, <4>1, BufferAssumption DEF Contents, At, Index, Length
      <4>3. Tail(queue) = <<>>
        <5>1. Tail(queue) \in Seq(Byte) /\ Len(Tail(queue)) = 0
          BY <2>3, <4>1, HeadTailProperties
        <5> QED
          BY <5>1, EmptySeq
      <4>4. queue' = <<>>
        BY <1>4, <3>1 DEF ReadByte, queue, Front, Rear, Contents, Length
      <4> QED
        BY <4>2, <4>3, <4>4
    <3>2. CASE rear # front
      <4>1. queue' = Contents(buffer, front, (rear + 1) % Size)
        BY <1>4, <3>2 DEF ReadByte, queue, Front, Rear, Contents
      <4> QED
        BY <2>1, <2>2, <3>2, <4>1, ReadTakesHead DEF Inv, TypeOK
    <3> QED
      BY <3>1, <3>2
  <2>5. Fifo!Take
    BY <1>4, <2>3, <2>4 DEF ReadByte, Fifo!Take, op
  <2> QED
    BY <2>5 DEF Fifo!Next
<1>5. CASE ReadEnd
  <2>1. queue' = queue
    BY <1>5 DEF ReadEnd, Return, Inv, RingConsistent, queue, Front, Rear, Contents
  <2>2. pc = "read_end" => queue = <<>>
    BY QueueEmpty DEF Inv, RingConsistent, Front
  <2>3. Fifo!End
    BY <1>5, <2>1, <2>2 DEF ReadEnd, Return, Fifo!End, op
  <2> QED
    BY <2>3 DEF Fifo!Next
<1>6. CASE \E b \in Byte : WriteByte(b)
  <2> PICK b \in Byte : WriteByte(b)
    BY <1>6
  <2>1. ~Isfull(front, rear) /\ Front = front /\ Rear = rear
    BY DEF WriteByte, Inv, RingConsistent, Front, Rear
  <2>2. Len(queue) # Size
    BY <2>1, QueueFull
  <2>3. queue' = Contents(buffer', front', rear')
    BY DEF WriteByte, queue, Front, Rear, Contents
  <2>4. queue' = Append(queue, b)
    <3>1. CASE Isempty(front, rear)
      <4>1. queue = <<>>
        BY <2>1, <3>1, QueueEmpty DEF Isempty
      <4>2. front' = 0 /\ rear' = 0 /\ buffer'[0] = b
        BY <3>1, BufferAssumption DEF WriteByte, Inv, TypeOK, Index
      <4>3. queue' = [i \in 1 .. 1 |-> b]
        BY <2>3, <4>2, BufferAssumption DEF Contents, Length, At
      <4> QED
        BY <4>1, <4>3
    <3>2. CASE ~Isempty(front, rear)
      <4>1. front \in Index /\ rear \in Index
        BY <2>1, <3>2, SpanType DEF Isempty
      <4>2. queue = Contents(buffer, front, rear)
        BY <2>1 DEF queue
      <4>3. queue' = Contents([buffer EXCEPT ![(front + 1) % Size] = b], (front + 1) % Size, rear)
        BY <2>3, <3>2 DEF WriteByte
      <4> QED
        BY <2>1, <4>1, <4>2, <4>3, WriteAppends DEF Inv, TypeOK
    <3> QED
      BY <3>1, <3>2
  <2>5. Fifo!Put(b)
    BY <2>2, <2>4 DEF WriteByte, Fifo!Put, Fifo!Full, op
  <2> QED
    BY <2>5 DEF Fifo!Next
<1>7. CASE WriteEnd
  <2>1. queue' = queue
    BY <1>7 DEF WriteEnd, Return, Inv, RingConsistent, queue, Front, Rear, Contents
  <2>2. pc = "write_end" => Len(queue) = Size
    BY QueueFull DEF Inv, RingConsistent, Front, Rear
  <2>3. Fifo!End
    BY <1>7, <2>1, <2>2 DEF WriteEnd, Return, Fifo!End, Fifo!Full, op
  <2> QED
    BY <2>3 DEF Fifo!Next
<1>8. CASE UNCHANGED vars
  BY <1>8 DEF vars, Fifo!vars, queue, Front, Rear, Contents, op
<1> QED
  BY <1>1, <1>2, <1>3, <1>4, <1>5, <1>6, <1>7, <1>8 DEF Next

(* A trace buffer of any size is a bounded queue: what reads return is     *)
(* what writes put in, in order, nothing lost, doubled or overwritten, and *)
(* a call moves fewer bytes than it was asked to only when the queue is    *)
(* empty or full.                                                          *)
THEOREM RingIsFifo == Spec => IsFifo
BY InvInit, InvNext, RefinesInit, RefinesNext, PTL DEF Spec, IsFifo, Fifo!Spec
=============================================================================
