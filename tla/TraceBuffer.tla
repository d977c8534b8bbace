---------------------------- MODULE TraceBuffer ----------------------------
(***************************************************************************)
(* A trace buffer (Assignment2/gemOS/src/tracer.c): a ring of bytes that a *)
(* process reads and writes through its file descriptor, and to which the  *)
(* kernel appends trace records with write_to_buffer.  A call copies byte  *)
(* by byte, on local copies front and rear of the two offsets; here one    *)
(* turn of its loop is one action.  Calls do not overlap: the kernel is    *)
(* not preempted.                                                          *)
(***************************************************************************)
EXTENDS Integers, Sequences

CONSTANTS
  Size,     \* TRACE_BUFFER_MAX_SIZE
  Byte,     \* values of a byte
  Counts    \* counts the callers pass

ASSUME BufferAssumption == Size \in Nat \ {0} /\ Counts \subseteq Nat

EBADMEM == 6                          \* include/entry.h; calls return -EBADMEM

VARIABLES
  buffer,                      \* the page of bytes
  read_offset, write_offset,   \* of the oldest and the newest byte, -1 when empty
  pc,                          \* where the call in progress is
  count,                       \* its count
  buff,                        \* the bytes it has moved: the start of the caller's buff
  front, rear,                 \* its copies of write_offset and read_offset
  ret                          \* result of the last call

vars == <<buffer, read_offset, write_offset, pc, count, buff, front, rear, ret>>

Index == 0 .. (Size - 1)

(* Init: sys_create_trace_buffer leaves both offsets at -1; the page holds *)
(* whatever it held before.                                                *)
Init ==
  /\ buffer \in [Index -> Byte]
  /\ read_offset = -1 /\ write_offset = -1
  /\ pc = "idle"
  /\ count = 0
  /\ buff = <<>>
  /\ front = -1 /\ rear = -1
  /\ ret = 0

Isempty(f, r) == f = -1 /\ r = -1
Isfull(f, r) == (f + 1) % Size = r

Return(value) ==
  /\ pc' = "idle"
  /\ ret' = value

(* A call goes on to its loop when the queue has something to offer.       *)
Enter(loop, n) ==
  /\ pc' = loop
  /\ count' = n
  /\ buff' = <<>>
  /\ front' = write_offset
  /\ rear' = read_offset
  /\ UNCHANGED <<buffer, read_offset, write_offset, ret>>

Leave(value) ==
  /\ Return(value)
  /\ UNCHANGED <<buffer, read_offset, write_offset, count, buff, front, rear>>

-----------------------------------------------------------------------------
(* trace_buffer_read(filep, buff, n); valid is what is_valid_mem_range     *)
(* says of buff.  The test of the access mode that follows never refuses:  *)
(* == binds tighter than &, and `filep->mode & O_READ == 0` is             *)
(* `filep->mode & 0`; so for O_WRITE in trace_buffer_write.                *)
trace_buffer_read(n, valid) ==
  /\ pc = "idle"
  /\ \/ ~valid /\ Leave(-EBADMEM)
     \/ valid /\ Isempty(write_offset, read_offset) /\ Leave(0)
     \/ valid /\ ~Isempty(write_offset, read_offset) /\ Enter("read", n)

(* Mutants of ReadByte: rear is not taken around the ring; the offsets are *)
(* not set to -1 when the last byte is taken.                              *)
ReadByte_NoWrap ==
  /\ pc = "read"
  /\ Len(buff) < count
  /\ buff' = Append(buff, buffer[rear])
  /\ rear' = rear + 1
  /\ pc' = IF rear = front THEN "read_end" ELSE pc
  /\ UNCHANGED <<buffer, read_offset, write_offset, count, front, ret>>
ReadByte_NoReset ==
  /\ pc = "read"
  /\ Len(buff) < count
  /\ buff' = Append(buff, buffer[rear])
  /\ rear' = (rear + 1) % Size
  /\ pc' = IF rear = front THEN "read_end" ELSE pc
  /\ UNCHANGED <<buffer, read_offset, write_offset, count, front, ret>>

ReadByte ==
  /\ pc = "read"
  /\ Len(buff) < count
  /\ buff' = Append(buff, buffer[rear])
  /\ IF rear = front
     THEN /\ write_offset' = -1 /\ read_offset' = -1
          /\ front' = -1 /\ rear' = -1
          /\ pc' = "read_end"
     ELSE /\ rear' = (rear + 1) % Size
          /\ UNCHANGED <<read_offset, write_offset, front, pc>>
  /\ UNCHANGED <<buffer, count, ret>>

(* Mutant of ReadEnd: the next read starts where this one did.             *)
ReadEnd_KeepsOffset ==
  /\ pc = "read_end" \/ (pc = "read" /\ Len(buff) >= count)
  /\ Return(Len(buff))
  /\ UNCHANGED <<buffer, read_offset, write_offset, count, buff, front, rear>>

ReadEnd ==
  /\ pc = "read_end" \/ (pc = "read" /\ Len(buff) >= count)
  /\ read_offset' = rear
  /\ Return(Len(buff))
  /\ UNCHANGED <<buffer, write_offset, count, buff, front, rear>>

-----------------------------------------------------------------------------
(* trace_buffer_write(filep, buff, n)                                      *)
trace_buffer_write(n, valid) ==
  /\ pc = "idle"
  /\ \/ ~valid /\ Leave(-EBADMEM)
     \/ valid /\ Isfull(write_offset, read_offset) /\ Leave(0)
     \/ valid /\ ~Isfull(write_offset, read_offset) /\ Enter("write", n)

(* write_to_buffer(filep, buff, n): the kernel's own write                 *)
write_to_buffer(n) ==
  /\ pc = "idle"
  /\ \/ Isfull(write_offset, read_offset) /\ Leave(0)
     \/ ~Isfull(write_offset, read_offset) /\ Enter("write", n)

WriteByte(b) ==
  /\ pc = "write"
  /\ Len(buff) < count
  /\ IF Isempty(front, rear)
     THEN /\ write_offset' = 0 /\ read_offset' = 0
          /\ front' = 0 /\ rear' = 0
     ELSE /\ front' = (front + 1) % Size
          /\ UNCHANGED <<read_offset, write_offset, rear>>
  /\ buffer' = [buffer EXCEPT ![front'] = b]
  /\ buff' = Append(buff, b)
  /\ pc' = IF Isfull(front', rear') THEN "write_end" ELSE "write"
  /\ UNCHANGED <<count, ret>>

(* Mutant of WriteEnd: the loop is not left.                               *)
WriteEnd_NoReturn ==
  /\ pc = "write_end" \/ (pc = "write" /\ Len(buff) >= count)
  /\ write_offset' = front
  /\ UNCHANGED <<buffer, read_offset, pc, count, buff, front, rear, ret>>

WriteEnd ==
  /\ pc = "write_end" \/ (pc = "write" /\ Len(buff) >= count)
  /\ write_offset' = front
  /\ Return(Len(buff))
  /\ UNCHANGED <<buffer, read_offset, count, buff, front, rear>>

-----------------------------------------------------------------------------
Next ==
  \/ \E n \in Counts, valid \in BOOLEAN : trace_buffer_read(n, valid)
  \/ \E n \in Counts, valid \in BOOLEAN : trace_buffer_write(n, valid)
  \/ \E n \in Counts : write_to_buffer(n)
  \/ ReadByte
  \/ ReadEnd
  \/ \E b \in Byte : WriteByte(b)
  \/ WriteEnd

Spec == Init /\ [][Next]_vars

(* A call in progress keeps running: the kernel is not preempted in it.    *)
Running == ReadByte \/ ReadEnd \/ (\E b \in Byte : WriteByte(b)) \/ WriteEnd

FairSpec == Spec /\ WF_vars(Running)

-----------------------------------------------------------------------------
(* Properties                                                              *)

TypeOK ==
  /\ buffer \in [Index -> Byte]
  /\ read_offset \in Index \cup {-1} /\ write_offset \in Index \cup {-1}
  /\ pc \in {"idle", "read", "read_end", "write", "write_end"}
  /\ count \in Nat
  /\ buff \in Seq(Byte)
  /\ front \in Index \cup {-1} /\ rear \in Index \cup {-1}
  /\ ret \in Nat \cup {-EBADMEM}

(* The offsets a call works on: its copies, or the fields between calls    *)
Front == IF pc = "idle" THEN write_offset ELSE front
Rear == IF pc = "idle" THEN read_offset ELSE rear

(* The bytes from rear to front, around the ring                           *)
Length(f, r) == IF f = -1 THEN 0 ELSE IF r <= f THEN f - r + 1 ELSE f - r + 1 + Size
At(r, i) == IF r + i - 1 < Size THEN r + i - 1 ELSE r + i - 1 - Size
Contents(bytes, f, r) == [i \in 1 .. Length(f, r) |-> bytes[At(r, i)]]
queue == Contents(buffer, Front, Rear)

(* The two offsets are -1 together, which the empty and full tests of      *)
(* trace_buffer_read and the two writers rely on; the field a running call *)
(* does not own is the one it started from; and a reader never looks at an *)
(* empty ring, nor a writer overwrites a full one.                         *)
RingConsistent ==
  /\ front = -1 <=> rear = -1
  /\ pc \in {"idle", "write", "write_end"} => (write_offset = -1 <=> read_offset = -1)
  /\ pc \in {"read", "read_end"} => write_offset = front
  /\ pc \in {"write", "write_end"} => read_offset = rear
  /\ pc = "read" => front # -1
  /\ pc = "write" => ~Isfull(front, rear)
  /\ pc = "write_end" => Isfull(front, rear)
  /\ pc = "read_end" => front = -1

op == CASE pc \in {"read", "read_end"} -> "read"
        [] pc \in {"write", "write_end"} -> "write"
        [] OTHER -> "idle"

Fifo == INSTANCE BoundedFifo WITH Capacity <- Size, Errors <- {-EBADMEM}, want <- count

(* The ring is a bounded queue: no byte is lost, duplicated or reordered   *)
(* by reads and writes that stop and resume anywhere in the ring           *)
(* (trace_buffer_read, trace_buffer_write, write_to_buffer).               *)
IsFifo == Fifo!Spec

(* Every call returns: its loop stops at the count, or when the ring is    *)
(* empty or full.                                                          *)
CallsReturn == pc # "idle" ~> pc = "idle"
=============================================================================
