---------------------------- MODULE TraceLemmas ----------------------------
(***************************************************************************)
(* What the proofs about Strace and Ftrace share: facts about the          *)
(* sequences that stand for the kernel's linked lists, about functions     *)
(* defined by counting up, and about the ring: what write_to_buffer and    *)
(* the readers' loops make of it, for every size of it and of a word.      *)
(***************************************************************************)
EXTENDS TraceRing, FiniteSetTheorems, SequenceTheorems, WellFoundedInduction, TLAPS

(* Unlinking the node in place i leaves the others, in their order.        *)
LEMMA RemoveAtFacts ==
  ASSUME NEW S, NEW s \in Seq(S), NEW i \in DOMAIN s
  PROVE  /\ RemoveAt(s, i) \in Seq(S)
         /\ Len(RemoveAt(s, i)) = Len(s) - 1
         /\ \A j \in 1 .. Len(s) - 1 :
              RemoveAt(s, i)[j] = IF j < i THEN s[j] ELSE s[j + 1]
  <1> i \in 1 .. Len(s) /\ Len(s) \in Nat
    OBVIOUS
  <1> DEFINE front == SubSeq(s, 1, i - 1)
             back == SubSeq(s, i + 1, Len(s))
  <1>1. front \in Seq(S) /\ Len(front) = i - 1 /\ \A j \in 1 .. i - 1 : front[j] = s[j]
    OBVIOUS
  <1>2. back \in Seq(S) /\ Len(back) = Len(s) - i /\ \A j \in 1 .. Len(s) - i : back[j] = s[i + j]
    OBVIOUS
  <1> HIDE DEF front, back
  <1>3. RemoveAt(s, i) = front \o back
    BY DEF RemoveAt, front, back
  <1>4. \A j \in 1 .. Len(s) - 1 :
          (front \o back)[j] = IF j < i THEN s[j] ELSE s[j + 1]
    <2> TAKE j \in 1 .. Len(s) - 1
    <2>1. CASE j < i
      BY <1>1, <1>2, <2>1
    <2>2. CASE ~(j < i)
      <3>1. (front \o back)[j] = back[j - (i - 1)]
        <4>1. j \in 1 .. Len(front) + Len(back) /\ ~(j <= Len(front)) /\ Len(front) = i - 1
          BY <1>1, <1>2, <2>2
        <4>2. front \in Seq(S) /\ back \in Seq(S)
          BY <1>1, <1>2
        <4>3. (front \o back)[j] = back[j - Len(front)]
          BY <4>1, <4>2
        <4> QED
          BY <4>1, <4>3
      <3>2. j - (i - 1) \in 1 .. Len(s) - i /\ i + (j - (i - 1)) = j + 1
        BY <2>2
      <3> QED
        BY <1>2, <2>2, <3>1, <3>2
    <2> QED
      BY <2>1, <2>2
  <1> QED
    BY <1>1, <1>2, <1>3, <1>4

(* The least element of a set of one is that one.                          *)
LEMMA MinOfOne ==
  ASSUME NEW i \in Int
  PROVE  Min({i}) = i
  BY DEF Min

(* A set of numbers that is not empty has a least one.                     *)
LEMMA LeastNumber ==
  ASSUME NEW S \in SUBSET Nat, S # {}
  PROVE  \E i \in S : \A j \in S : i <= j
  <1> DEFINE below == {0 .. i : i \in S}
  <1>1. below \subseteq FiniteSubsetsOf(Nat) /\ below # {}
    <2>1. ASSUME NEW i \in S PROVE 0 .. i \in FiniteSubsetsOf(Nat)
      <3>1. i \in Int /\ 0 .. i \subseteq Nat
        OBVIOUS
      <3>2. IsFiniteSet(0 .. i)
        BY <3>1, FS_Interval
      <3> QED
        BY <3>1, <3>2 DEF FiniteSubsetsOf
    <2> QED
      BY <2>1
  <1>2. PICK x \in below : \A y \in below : ~(<<y, x>> \in StrictSubsetOrdering(Nat))
    BY <1>1, FS_StrictSubsetOrderingWellFounded, WFMin
  <1>3. PICK i \in S : x = 0 .. i
    BY <1>2
  <1>4. \A j \in S : i <= j
    <2> SUFFICES ASSUME NEW j \in S, j < i PROVE FALSE
      OBVIOUS
    <2>1. 0 .. j \in below /\ 0 .. j \in SUBSET Nat /\ 0 .. i \in SUBSET Nat
      OBVIOUS
    <2>2. i \in 0 .. i /\ i \notin 0 .. j /\ 0 .. j \subseteq 0 .. i
      OBVIOUS
    <2>3. <<0 .. j, 0 .. i>> \in StrictSubsetOrdering(Nat)
      BY <2>1, <2>2 DEF StrictSubsetOrdering
    <2> QED
      BY <1>2, <1>3, <2>1, <2>3
  <1> QED
    BY <1>3, <1>4

(* Min of such a set is in it, and the least.                              *)
LEMMA MinLeast ==
  ASSUME NEW S \in SUBSET Nat, S # {}
  PROVE  Min(S) \in S /\ \A j \in S : Min(S) <= j
  BY LeastNumber DEF Min

-----------------------------------------------------------------------------
(* Counting up from 0 to N one meets every number on the way.              *)
LEMMA CountUp ==
  ASSUME NEW N \in Nat, NEW S, 0 \in S, \A n \in 0 .. N : n # N /\ n \in S => n + 1 \in S
  PROVE  0 .. N \subseteq S
  <1> SUFFICES ASSUME NEW m \in 0 .. N, m \notin S PROVE FALSE
    OBVIOUS
  <1> DEFINE M == {n \in 0 .. N : n \notin S}
  <1>1. M \in SUBSET Nat /\ M # {}
    OBVIOUS
  <1>2. PICK i \in M : \A j \in M : i <= j
    BY <1>1, LeastNumber
  <1>3. i \in 0 .. N /\ i \notin S /\ i # 0
    BY <1>2
  <1>4. i - 1 \in 0 .. N /\ i - 1 # N /\ i - 1 \notin M
    BY <1>2, <1>3
  <1>5. (i - 1) + 1 \in S
    BY <1>4
  <1> QED
    BY <1>3, <1>5

(* A function defined by counting up, each value from the one before.      *)
Counted(g, N, b, F) == g = [n \in 0 .. N |-> IF n = 0 THEN b ELSE F[n][g[n - 1]]]

(* There is such a function, as long as each step leads from D to D.       *)
LEMMA CountedExists ==
  ASSUME NEW N \in Nat, NEW D, NEW b \in D, NEW F, \A n \in 1 .. N : F[n] \in [D -> D]
  PROVE  \E g \in [0 .. N -> D] : Counted(g, N, b, F)
  <1> DEFINE S == {n \in 0 .. N : \E g \in [0 .. n -> D] : Counted(g, n, b, F)}
  <1>1. 0 \in S
    <2> DEFINE g == [n \in 0 .. 0 |-> b]
    <2>1. g \in [0 .. 0 -> D] /\ Counted(g, 0, b, F)
      BY DEF Counted
    <2> HIDE DEF g
    <2> QED
      BY <2>1
  <1>2. ASSUME NEW n \in 0 .. N, n # N, n \in S PROVE n + 1 \in S
    <2>1. PICK g \in [0 .. n -> D] : Counted(g, n, b, F)
      BY <1>2
    <2> DEFINE h == [m \in 0 .. n + 1 |-> IF m = n + 1 THEN F[n + 1][g[n]] ELSE g[m]]
    <2>2. F[n + 1] \in [D -> D] /\ g[n] \in D /\ n + 1 \in 0 .. N
      BY <1>2
    <2>3. h \in [0 .. n + 1 -> D]
      BY <2>2
    <2>4. \A m \in 0 .. n : h[m] = g[m]
      OBVIOUS
    <2>5. h[n + 1] = F[n + 1][g[n]]
      OBVIOUS
    <2>6. \A m \in 0 .. n : g[m] = IF m = 0 THEN b ELSE F[m][g[m - 1]]
      BY <2>1 DEF Counted
    <2>7. ASSUME NEW m \in 0 .. n + 1 PROVE h[m] = IF m = 0 THEN b ELSE F[m][h[m - 1]]
      <3>1. CASE m = n + 1
        <4>1. m - 1 = n /\ m # 0
          BY <3>1
        <4> HIDE DEF h
        <4> QED
          BY <2>4, <2>5, <3>1, <4>1
      <3>2. CASE m # n + 1
        <4>1. m \in 0 .. n /\ (m # 0 => m - 1 \in 0 .. n)
          BY <3>2
        <4> HIDE DEF h
        <4> QED
          BY <2>4, <2>6, <4>1
      <3> QED
        BY <3>1, <3>2
    <2> HIDE DEF h
    <2>8. Counted(h, n + 1, b, F)
      <3>1. h = [m \in 0 .. n + 1 |-> h[m]]
        BY <2>3
      <3> QED
        BY <2>7, <3>1 DEF Counted
    <2> QED
      BY <2>2, <2>3, <2>8
  <1>3. N \in S
    <2> HIDE DEF S
    <2>1. 0 .. N \subseteq S
      BY <1>1, <1>2, CountUp
    <2> QED
      BY <2>1
  <1> QED
    BY <1>3
-----------------------------------------------------------------------------
(* Writing                                                                 *)

(* A place in the ring a turn too far or too near is taken around it.      *)
LEMMA Wrapped ==
  ASSUME NEW x \in Int, -Size <= x, x < 2 * Size
  PROVE  /\ x % Size = IF x < 0 THEN x + Size ELSE IF x < Size THEN x ELSE x - Size
         /\ x % Size \in Index
  <1>1. Size \in Nat \ {0, 1}
    BY RingAssumption
  <1> QED
    BY <1>1 DEF Index

(* However far it is, it is a place in the ring.                           *)
LEMMA InRing ==
  ASSUME NEW x \in Int
  PROVE  x % Size \in Index
  <1>1. Size \in Nat \ {0, 1}
    BY RingAssumption
  <1> QED
    BY <1>1 DEF Index

(* The lesser of two numbers *)
LEMMA MinOfTwo ==
  ASSUME NEW a \in Nat, NEW b \in Nat
  PROVE  Min({a, b}) = IF a <= b THEN a ELSE b
  BY MinLeast

(* A ring with something in it has a first and a last byte.                *)
Orderly(r) == r \in Rings /\ (r.front = -1 <=> r.rear = -1)

(* And the last byte is the end of a record.                               *)
Closed(r) == Orderly(r) /\ (r.front # -1 => r.bytes[r.front] = Delimiter)

(* The parts of a ring                                                     *)
LEMMA RingParts ==
  ASSUME NEW r \in Rings
  PROVE  /\ r.bytes \in [Index -> Nat] /\ r.front \in Index \cup {-1} /\ r.rear \in Index \cup {-1}
         /\ r.front \in Int /\ r.rear \in Int /\ r.front >= -1 /\ r.rear >= -1
         /\ r.front < Size /\ r.rear < Size /\ Size \in Nat \ {0, 1}
  BY RingAssumption DEF Rings, Index

(* How much room there is *)
LEMMA RoomFacts ==
  ASSUME NEW r \in Rings
  PROVE  /\ Room(r) \in 0 .. Size
         /\ Isempty(r) => Room(r) = Size
         /\ Orderly(r) /\ ~Isempty(r) =>
              Room(r) = IF r.rear > r.front THEN r.rear - r.front - 1 ELSE r.rear - r.front - 1 + Size
  <1>1. /\ r.front \in Int /\ r.rear \in Int /\ r.front >= -1 /\ r.rear >= -1
        /\ r.front < Size /\ r.rear < Size /\ Size \in Nat \ {0, 1}
    BY RingParts
  <1> DEFINE a == r.front + 1
             b == r.rear - r.front - 1
  <1>2. /\ a \in Int /\ -Size <= a /\ a < 2 * Size
        /\ b \in Int /\ (r.rear >= 0 => -Size <= b /\ b < 2 * Size)
    BY <1>1
  <1>3. /\ a % Size = IF a < 0 THEN a + Size ELSE IF a < Size THEN a ELSE a - Size
        /\ b % Size \in Index
        /\ r.rear >= 0 => b % Size = IF b < 0 THEN b + Size ELSE IF b < Size THEN b ELSE b - Size
    BY <1>2, Wrapped, InRing
  <1>4. Room(r) = IF Isempty(r) THEN Size ELSE IF a % Size = r.rear THEN 0 ELSE b % Size
    BY DEF Room, Isfull
  <1>5. Room(r) \in 0 .. Size /\ (Isempty(r) => Room(r) = Size)
    BY <1>1, <1>3, <1>4 DEF Index
  <1>6. ASSUME Orderly(r), ~Isempty(r)
        PROVE  Room(r) = IF r.rear > r.front THEN r.rear - r.front - 1 ELSE r.rear - r.front - 1 + Size
    <2>1. r.front >= 0 /\ r.rear >= 0
      BY <1>1, <1>6 DEF Orderly, Isempty
    <2> QED
      BY <1>1, <1>3, <1>4, <1>6, <2>1
  <1> QED
    BY <1>5, <1>6

(* What a call of write_to_buffer leaves                                   *)
LEMMA WriteFacts ==
  ASSUME NEW r \in Rings, NEW data \in Seq(Nat)
  PROVE  LET moved == IF Len(data) <= Room(r) THEN Len(data) ELSE Room(r)
             w == write_to_buffer(r, data)
         IN /\ w \in Rings
            /\ moved = 0 => w = r
            /\ moved # 0 =>
                 /\ w.front = (r.front + moved) % Size
                 /\ w.rear = IF Isempty(r) THEN 0 ELSE r.rear
                 /\ \A i \in Index :
                      LET k == ((i - r.front - 1) % Size) + 1
                      IN w.bytes[i] = IF k <= moved THEN data[k] ELSE r.bytes[i]
  <1> DEFINE moved == IF Len(data) <= Room(r) THEN Len(data) ELSE Room(r)
             place(i) == ((i - r.front - 1) % Size) + 1
             w == write_to_buffer(r, data)
             bytes == [i \in Index |-> IF place(i) <= moved THEN data[place(i)] ELSE r.bytes[i]]
             front == (r.front + moved) % Size
             rear == IF Isempty(r) THEN 0 ELSE r.rear
  <1>1. /\ r.bytes \in [Index -> Nat] /\ r.rear \in Index \cup {-1}
        /\ r.front \in Int /\ r.front >= -1 /\ r.front < Size /\ Size \in Nat \ {0, 1}
    BY RingParts
  <1>2. Room(r) \in Nat /\ Room(r) <= Size /\ Len(data) \in Nat
    BY <1>1, RoomFacts
  <1>3. Min({Len(data), Room(r)}) = moved /\ moved \in 0 .. Size /\ moved <= Len(data)
    BY <1>1, <1>2, MinOfTwo
  <1>4. w = IF moved = 0 THEN r ELSE [bytes |-> bytes, front |-> front, rear |-> rear]
    BY <1>3 DEF write_to_buffer
  <1>5. \A i \in Index : place(i) \in Nat /\ place(i) >= 1
    <2> TAKE i \in Index
    <2> DEFINE x == (i - r.front - 1) % Size
    <2>1. i - r.front - 1 \in Int
      BY <1>1 DEF Index
    <2>2. x \in Index
      BY <2>1, InRing
    <2>3. place(i) = x + 1
      OBVIOUS
    <2> HIDE DEF x, place
    <2> QED
      BY <1>1, <2>2, <2>3 DEF Index
  <1>6. front \in Index
    <2>1. r.front + moved \in Int /\ -Size <= r.front + moved /\ r.front + moved < 2 * Size
      BY SMTT(30), <1>1, <1>3
    <2> QED
      BY <2>1, Wrapped
  <1>7. rear \in Index \cup {-1}
    BY <1>1 DEF Index
  <1> HIDE DEF moved, place, front, rear, w
  <1>8. bytes \in [Index -> Nat]
    <2> SUFFICES ASSUME NEW i \in Index PROVE (IF place(i) <= moved THEN data[place(i)] ELSE r.bytes[i]) \in Nat
      OBVIOUS
    <2>1. CASE place(i) <= moved
      <3>1. place(i) \in 1 .. Len(data)
        BY <1>2, <1>3, <1>5, <2>1
      <3> QED
        BY <2>1, <3>1
    <2>2. CASE ~(place(i) <= moved)
      BY <1>1, <2>2
    <2> QED
      BY <2>1, <2>2
  <1>9. \A i \in Index : bytes[i] = IF place(i) <= moved THEN data[place(i)] ELSE r.bytes[i]
    OBVIOUS
  <1> HIDE DEF bytes
  <1>10. w \in Rings
    BY <1>4, <1>6, <1>7, <1>8 DEF Rings
  <1>11. moved # 0 => w.front = front /\ w.rear = rear /\ w.bytes = bytes
    BY <1>4
  <1>12. moved = 0 => w = r
    BY <1>4
  <1> QED
    BY <1>9, <1>10, <1>11, <1>12 DEF moved, place, front, rear, w

(* Bytes that there is room for take that much of it.                      *)
LEMMA WriteTakesRoom ==
  ASSUME NEW r, Orderly(r), NEW data \in Seq(Nat), Len(data) <= Room(r)
  PROVE  LET w == write_to_buffer(r, data)
         IN Orderly(w) /\ Room(w) = Room(r) - Len(data)
  <1> DEFINE w == write_to_buffer(r, data)
             n == Len(data)
  <1>1. /\ r \in Rings /\ r.front \in Int /\ r.rear \in Int /\ r.front >= -1 /\ r.rear >= -1
        /\ r.front < Size /\ r.rear < Size /\ Size \in Nat \ {0, 1} /\ n \in Nat
    BY RingParts DEF Orderly
  <1>2. Room(r) \in 0 .. Size
    BY <1>1, RoomFacts
  <1>3. w \in Rings /\ (n = 0 => w = r)
    BY <1>1, WriteFacts
  <1>4. CASE n = 0
    BY <1>2, <1>3, <1>4
  <1>5. CASE n # 0
    <2>1. w.front = (r.front + n) % Size /\ w.rear = IF Isempty(r) THEN 0 ELSE r.rear
      BY <1>1, <1>5, WriteFacts
    <2> DEFINE x == r.front + n
    <2>2. /\ x \in Int /\ -Size <= x /\ x < 2 * Size /\ x >= 0
      BY <1>1, <1>2, <1>5
    <2>6. x % Size = IF x < 0 THEN x + Size ELSE IF x < Size THEN x ELSE x - Size
      BY <2>2, Wrapped
    <2>7. w.front = x % Size
      BY <2>1
    <2>8. x = r.front + n
      OBVIOUS
    <2> HIDE DEF x, w, n
    <2>9. w.front = IF x < Size THEN x ELSE x - Size
      BY <1>1, <2>2, <2>6, <2>7
    <2>3. w.front = IF r.front + n < Size THEN r.front + n ELSE r.front + n - Size
      BY <1>1, <2>2, <2>8, <2>9
    <2>4. CASE Isempty(r)
      <3>1. r.front = -1 /\ Room(r) = Size
        BY <1>1, <2>4, RoomFacts DEF Isempty
      <3>2. w.front = n - 1 /\ w.rear = 0 /\ n <= Size
        BY <1>1, <1>2, <2>1, <2>3, <2>4, <3>1 DEF n
      <3>3. Orderly(w) /\ ~Isempty(w)
        BY <1>1, <1>3, <1>5, <3>2 DEF Orderly, Isempty
      <3>4. Room(w) = IF w.rear > w.front THEN w.rear - w.front - 1 ELSE w.rear - w.front - 1 + Size
        BY <1>3, <3>3, RoomFacts
      <3> QED
        BY <1>1, <1>5, <3>1, <3>2, <3>3, <3>4 DEF w, n
    <2>5. CASE ~Isempty(r)
      <3>1. r.front >= 0 /\ r.rear >= 0
        BY <1>1, <2>5 DEF Orderly, Isempty
      <3>2. Room(r) = IF r.rear > r.front THEN r.rear - r.front - 1 ELSE r.rear - r.front - 1 + Size
        BY <1>1, <2>5, RoomFacts
      <3>3. w.rear = r.rear /\ w.front >= 0
        BY <1>1, <1>2, <2>1, <2>3, <2>5, <3>1
      <3>4. Orderly(w) /\ ~Isempty(w)
        BY <1>1, <1>3, <3>1, <3>3 DEF Orderly, Isempty
      <3>5. Room(w) = IF w.rear > w.front THEN w.rear - w.front - 1 ELSE w.rear - w.front - 1 + Size
        BY <1>3, <3>4, RoomFacts
      <3>6. n <= Room(r)
        BY DEF n
      <3>7. Room(w) = Room(r) - n
        BY SMTT(30), <1>1, <1>5, <2>3, <3>1, <3>2, <3>3, <3>5, <3>6
      <3> QED
        BY <3>4, <3>7 DEF w, n
    <2> QED
      BY <2>4, <2>5
  <1> QED
    BY <1>4, <1>5

(* A byte that there is room for becomes the last one of the ring.         *)
LEMMA WriteLast ==
  ASSUME NEW r, Orderly(r), NEW b \in Nat, Room(r) >= 1
  PROVE  LET w == write_to_buffer(r, <<b>>)
         IN Orderly(w) /\ w.front # -1 /\ w.bytes[w.front] = b
  <1> DEFINE w == write_to_buffer(r, <<b>>)
  <1>1. /\ r \in Rings /\ r.front \in Int /\ r.front >= -1 /\ r.front < Size /\ Size \in Nat \ {0, 1}
    BY RingParts DEF Orderly
  <1>2. <<b>> \in Seq(Nat) /\ Len(<<b>>) = 1 /\ <<b>>[1] = b
    OBVIOUS
  <1>3. Room(r) \in Nat
    BY <1>1, RoomFacts
  <1>4. Orderly(w)
    BY <1>2, WriteTakesRoom
  <1>5. /\ w.front = (r.front + 1) % Size
        /\ \A i \in Index :
             LET k == ((i - r.front - 1) % Size) + 1
             IN w.bytes[i] = IF k <= 1 THEN <<b>>[k] ELSE r.bytes[i]
    <2> DEFINE data == <<b>>
               moved == IF Len(data) <= Room(r) THEN Len(data) ELSE Room(r)
    <2>1. data \in Seq(Nat) /\ moved = 1 /\ moved # 0
      BY <1>2, <1>3
    <2> HIDE DEF data
    <2> QED
      BY <1>1, <2>1, WriteFacts DEF data
  <1> HIDE DEF w
  <1>6. /\ w.front = IF r.front + 1 < Size THEN r.front + 1 ELSE r.front + 1 - Size
        /\ w.front \in Index
    <2>1. r.front + 1 \in Int /\ -Size <= r.front + 1 /\ r.front + 1 < 2 * Size
      BY <1>1
    <2> QED
      BY <1>1, <1>5, <2>1, Wrapped
  <1>7. (w.front - r.front - 1) % Size = 0
    <2> DEFINE x == w.front - r.front - 1
    <2>1. x = 0 \/ x = -Size
      BY <1>1, <1>6 DEF Index
    <2>2. x \in Int /\ -Size <= x /\ x < 2 * Size
      BY <1>1, <2>1
    <2>3. x % Size = IF x < 0 THEN x + Size ELSE IF x < Size THEN x ELSE x - Size
      BY <2>2, Wrapped
    <2> HIDE DEF x
    <2>4. x % Size = 0
      BY <1>1, <2>1, <2>3
    <2> QED
      BY <2>4 DEF x
  <1>8. w.bytes[w.front] = b
    BY <1>2, <1>5, <1>6, <1>7
  <1> QED
    BY <1>1, <1>4, <1>6, <1>8 DEF w, Index

(* The rings a sequence of calls of write_to_buffer goes through           *)
LEMMA WrittenFacts ==
  ASSUME NEW r \in Rings, NEW pieces \in Seq(Seq(Nat))
  PROVE  /\ Written(r, pieces) \in [0 .. Len(pieces) -> Rings]
         /\ Written(r, pieces)[0] = r
         /\ \A n \in 1 .. Len(pieces) :
              Written(r, pieces)[n] = write_to_buffer(Written(r, pieces)[n - 1], pieces[n])
  <1> DEFINE F == [n \in 1 .. Len(pieces) |-> [x \in Rings |-> write_to_buffer(x, pieces[n])]]
             N == Len(pieces)
             Is(g) == g = [n \in 0 .. N |-> IF n = 0 THEN r ELSE write_to_buffer(g[n - 1], pieces[n])]
             w == Written(r, pieces)
             S == {n \in 0 .. N : w[n] \in Rings}
  <1>1. N \in Nat /\ \A n \in 1 .. N : pieces[n] \in Seq(Nat)
    OBVIOUS
  <1>2. \A n \in 1 .. N : F[n] \in [Rings -> Rings]
    BY WriteFacts
  <1>3. \A n \in 1 .. N, x \in Rings : F[n][x] = write_to_buffer(x, pieces[n])
    OBVIOUS
  <1>4. w = CHOOSE g : Is(g)
    BY DEF Written
  <1>5. N = Len(pieces)
    OBVIOUS
  <1> HIDE DEF F, N, w
  <1>6. PICK g \in [0 .. N -> Rings] : Counted(g, N, r, F)
    BY <1>1, <1>2, CountedExists
  <1>7. Is(g)
    BY <1>1, <1>3, <1>6 DEF Counted
  <1>8. w = [n \in 0 .. N |-> IF n = 0 THEN r ELSE write_to_buffer(w[n - 1], pieces[n])]
    <2> HIDE DEF Is
    <2>1. Is(w)
      BY <1>4, <1>7
    <2> QED
      BY <2>1 DEF Is
  <1>9. DOMAIN w = 0 .. N /\ w[0] = r /\ \A n \in 1 .. N : w[n] = write_to_buffer(w[n - 1], pieces[n])
    BY <1>1, <1>8
  <1>10. w = [n \in 0 .. N |-> w[n]]
    BY <1>8
  <1>11. 0 .. N \subseteq S
    <2>1. 0 \in S
      BY <1>1, <1>9
    <2>2. ASSUME NEW n \in 0 .. N, n # N, n \in S PROVE n + 1 \in S
      <3>1. n + 1 \in 1 .. N /\ w[n] \in Rings /\ (n + 1) - 1 = n
        BY <1>1, <2>2
      <3>2. w[n + 1] = write_to_buffer(w[n], pieces[n + 1]) /\ pieces[n + 1] \in Seq(Nat)
        BY <1>1, <1>9, <3>1
      <3>3. w[n + 1] \in Rings
        BY <3>1, <3>2, WriteFacts
      <3> QED
        BY <3>1, <3>3
    <2> HIDE DEF S
    <2> QED
      BY <1>1, <2>1, <2>2, CountUp
  <1>12. w \in [0 .. N -> Rings]
    BY <1>10, <1>11
  <1> QED
    BY <1>5, <1>9, <1>12 DEF w

(* A number has as many bytes as a word.                                   *)
LEMMA WordBytes ==
  ASSUME NEW n \in Nat
  PROVE  Word(n) \in Seq(Nat) /\ Len(Word(n)) = WordSize
  <1> DEFINE tail == [i \in 1 .. (WordSize - 1) |-> 0]
  <1>1. WordSize \in Nat \ {0}
    BY RingAssumption
  <1>2. tail \in Seq(Nat) /\ Len(tail) = WordSize - 1
    BY <1>1
  <1>3. <<n>> \in Seq(Nat) /\ Len(<<n>>) = 1
    OBVIOUS
  <1>4. Word(n) = <<n>> \o tail
    BY DEF Word
  <1> HIDE DEF tail
  <1> QED
    BY <1>1, <1>2, <1>3, <1>4

(* The pieces a record is written in                                       *)
LEMMA RecordPieces ==
  ASSUME NEW words \in Seq(Nat)
  PROVE  /\ Record(words) \in Seq(Seq(Nat))
         /\ Len(Record(words)) = Len(words) + 1
         /\ \A n \in 1 .. Len(words) : Len(Record(words)[n]) = WordSize
         /\ Record(words)[Len(words) + 1] = <<Delimiter>>
  <1> DEFINE body == [i \in DOMAIN words |-> Word(words[i])]
             last == <<Delimiter>>
  <1>1. Len(words) \in Nat /\ DOMAIN words = 1 .. Len(words) /\ \A i \in 1 .. Len(words) : words[i] \in Nat
    OBVIOUS
  <1>2. body \in Seq(Seq(Nat)) /\ Len(body) = Len(words) /\ \A i \in 1 .. Len(words) : Len(body[i]) = WordSize
    <2>1. \A i \in 1 .. Len(words) : Word(words[i]) \in Seq(Nat) /\ Len(Word(words[i])) = WordSize
      BY <1>1, WordBytes
    <2>2. body = [i \in 1 .. Len(words) |-> Word(words[i])]
      BY <1>1
    <2>3. body \in [1 .. Len(words) -> Seq(Nat)]
      BY <2>1, <2>2
    <2>4. body \in Seq(Seq(Nat)) /\ Len(body) = Len(words)
      <3> HIDE DEF body
      <3> QED
        BY <1>1, <2>3
    <2> QED
      BY <2>1, <2>2, <2>4
  <1>3. last \in Seq(Nat)
    BY DEF Delimiter
  <1>4. Record(words) = Append(body, last)
    BY DEF Record
  <1> HIDE DEF body, last
  <1>5. /\ Append(body, last) \in Seq(Seq(Nat)) /\ Len(Append(body, last)) = Len(words) + 1
        /\ Append(body, last)[Len(words) + 1] = last
        /\ \A i \in 1 .. Len(words) : Append(body, last)[i] = body[i]
    BY <1>1, <1>2, <1>3
  <1> QED
    BY <1>1, <1>2, <1>4, <1>5 DEF last

(* A record leaves a ring a ring.                                          *)
LEMMA RecordKeepsRing ==
  ASSUME NEW r \in Rings, NEW words \in Seq(Nat)
  PROVE  WriteRecord(r, words) \in Rings
  <1> DEFINE pieces == Record(words)
             n == Len(words) + 1
  <1>1. pieces \in Seq(Seq(Nat)) /\ Len(pieces) = n /\ n \in 0 .. n
    BY RecordPieces
  <1>2. WriteRecord(r, words) = Written(r, pieces)[n]
    BY DEF WriteRecord
  <1> HIDE DEF pieces, n
  <1>3. Written(r, pieces) \in [0 .. n -> Rings]
    BY <1>1, WrittenFacts
  <1> QED
    BY <1>1, <1>2, <1>3

(* After its words there is that much less room.                           *)
LEMMA WordsTakeRoom ==
  ASSUME NEW r, Orderly(r), NEW words \in Seq(Nat), Whole(r, words)
  PROVE  LET w == Written(r, Record(words))
         IN \A n \in 0 .. Len(words) : Orderly(w[n]) /\ Room(w[n]) = Room(r) - n * WordSize
  <1> DEFINE pieces == Record(words)
             N == Len(words)
             w == Written(r, pieces)
             S == {n \in 0 .. N : Orderly(w[n]) /\ Room(w[n]) = Room(r) - n * WordSize}
  <1>1. r \in Rings /\ N \in Nat /\ WordSize \in Nat /\ Room(r) \in Nat
    BY RingAssumption, RoomFacts DEF Orderly
  <1>2. /\ pieces \in Seq(Seq(Nat)) /\ Len(pieces) = N + 1
        /\ \A n \in 1 .. N : Len(pieces[n]) = WordSize
    BY RecordPieces
  <1>3. N * WordSize + 1 <= Room(r)
    BY DEF Whole
  <1> HIDE DEF pieces, N
  <1>4. w[0] = r /\ \A n \in 1 .. N : w[n] = write_to_buffer(w[n - 1], pieces[n])
    <2>1. /\ w[0] = r
          /\ \A n \in 1 .. Len(pieces) : w[n] = write_to_buffer(w[n - 1], pieces[n])
      BY <1>1, <1>2, WrittenFacts
    <2>2. \A n \in 1 .. N : n \in 1 .. Len(pieces)
      BY <1>1, <1>2
    <2> HIDE DEF w
    <2> QED
      BY <2>1, <2>2
  <1> HIDE DEF w
  <1>5. 0 \in S
    <2>1. 0 * WordSize = 0
      BY <1>1
    <2> QED
      BY <1>1, <1>4, <2>1
  <1>6. ASSUME NEW n \in 0 .. N, n # N, n \in S PROVE n + 1 \in S
    <2> DEFINE v == w[n]
               data == pieces[n + 1]
    <2>1. n + 1 \in 1 .. N /\ n + 1 \in 0 .. N /\ n + 1 \in 1 .. N + 1 /\ (n + 1) - 1 = n /\ n \in Nat
      BY <1>1, <1>6
    <2>2. data \in Seq(Nat) /\ Len(data) = WordSize
      BY <1>2, <2>1
    <2>3. Orderly(v) /\ Room(v) = Room(r) - n * WordSize
      BY <1>6
    <2>4. w[n + 1] = write_to_buffer(v, data)
      BY <1>4, <2>1
    <2>5. n * WordSize \in Nat /\ (n + 1) * WordSize = n * WordSize + WordSize /\ (n + 1) * WordSize <= N * WordSize
      <3>1. n * WordSize \in Nat
        BY <1>1, <2>1
      <3>2. (n + 1) * WordSize = n * WordSize + WordSize
        BY <1>1, <2>1
      <3>3. PICK k \in Nat : N = (n + 1) + k
        BY <1>1, <2>1
      <3>4. N * WordSize = (n + 1) * WordSize + k * WordSize
        BY <1>1, <2>1, <3>3
      <3>5. k * WordSize \in Nat /\ (n + 1) * WordSize \in Nat
        BY <1>1, <2>1
      <3> DEFINE a == (n + 1) * WordSize
                 b == k * WordSize
      <3>6. a <= N * WordSize
        <4>1. a \in Nat /\ b \in Nat /\ N * WordSize = a + b
          BY <3>4, <3>5
        <4> HIDE DEF a, b
        <4> QED
          BY <4>1
      <3> QED
        BY <3>1, <3>2, <3>6
    <2> HIDE DEF v, data
    <2>6. Len(data) <= Room(v)
      <3> DEFINE x == n * WordSize
                 y == (n + 1) * WordSize
                 z == N * WordSize
      <3>1. z \in Nat
        BY <1>1
      <3>2. x \in Nat /\ y = x + WordSize /\ y <= z /\ z + 1 <= Room(r) /\ Room(v) = Room(r) - x
        BY <1>3, <2>3, <2>5
      <3> HIDE DEF x, y, z
      <3> QED
        BY <1>1, <2>2, <3>1, <3>2
    <2>7. Orderly(write_to_buffer(v, data)) /\ Room(write_to_buffer(v, data)) = Room(v) - Len(data)
      BY <2>2, <2>3, <2>6, WriteTakesRoom
    <2>8. Room(w[n + 1]) = Room(r) - (n + 1) * WordSize
      <3> DEFINE x == n * WordSize
                 y == (n + 1) * WordSize
      <3>1. x \in Nat /\ y = x + WordSize /\ Room(w[n + 1]) = (Room(r) - x) - WordSize
        BY <2>2, <2>3, <2>4, <2>5, <2>7
      <3>2. Room(w[n + 1]) = Room(r) - y
        <4> HIDE DEF x, y
        <4> QED
          BY <1>1, <3>1
      <3> QED
        BY <3>2
    <2> QED
      BY <2>1, <2>4, <2>7, <2>8
  <1>7. 0 .. N \subseteq S
    <2> HIDE DEF S
    <2> QED
      BY <1>1, <1>5, <1>6, CountUp
  <1>8. \A n \in 0 .. N : Orderly(w[n]) /\ Room(w[n]) = Room(r) - n * WordSize
    BY <1>7
  <1> QED
    BY <1>8 DEF w, N, pieces

(* A record that fits in whole ends the ring with its delimiter.           *)
LEMMA RecordCloses ==
  ASSUME NEW r, Orderly(r), NEW words \in Seq(Nat), Whole(r, words)
  PROVE  Closed(WriteRecord(r, words)) /\ ~Isempty(WriteRecord(r, words))
  <1> DEFINE pieces == Record(words)
             N == Len(words)
             w == Written(r, pieces)
             v == w[N]
  <1>1. r \in Rings /\ N \in Nat /\ WordSize \in Nat /\ Room(r) \in Nat
    BY RingAssumption, RoomFacts DEF Orderly
  <1>2. /\ pieces \in Seq(Seq(Nat)) /\ Len(pieces) = N + 1 /\ pieces[N + 1] = <<Delimiter>>
    BY RecordPieces
  <1>3. Orderly(v) /\ Room(v) = Room(r) - N * WordSize
    BY <1>1, WordsTakeRoom
  <1>4. Room(v) >= 1
    <2> DEFINE x == N * WordSize
    <2>1. x \in Nat /\ x + 1 <= Room(r) /\ Room(v) = Room(r) - x
      BY <1>1, <1>3 DEF Whole
    <2> HIDE DEF x, v
    <2> QED
      BY <1>1, <2>1
  <1>5. WriteRecord(r, words) = w[N + 1]
    BY DEF WriteRecord
  <1> HIDE DEF pieces, N
  <1>6. w[N + 1] = write_to_buffer(w[N], pieces[N + 1])
    <2>1. N + 1 \in 1 .. Len(pieces) /\ (N + 1) - 1 = N
      BY <1>1, <1>2
    <2>2. \A n \in 1 .. Len(pieces) : w[n] = write_to_buffer(w[n - 1], pieces[n])
      BY <1>1, <1>2, WrittenFacts
    <2> HIDE DEF w
    <2> QED
      BY <2>1, <2>2
  <1>7. Delimiter \in Nat
    BY DEF Delimiter
  <1> HIDE DEF v, w
  <1> DEFINE u == write_to_buffer(v, <<Delimiter>>)
  <1>8. Orderly(u) /\ u.front # -1 /\ u.bytes[u.front] = Delimiter
    BY <1>3, <1>4, <1>7, WriteLast
  <1>9. WriteRecord(r, words) = u
    BY <1>2, <1>5, <1>6 DEF v
  <1> HIDE DEF u
  <1> QED
    BY <1>8, <1>9 DEF Closed, Isempty

-----------------------------------------------------------------------------
(* Reading                                                                 *)

Readers ==
  [bytes : [Index -> Nat], front : Index \cup {-1}, rear : Index \cup {-1},
   out : Seq(Nat), state : {"reads", "hangs", "stopped"}]

(* A reader whose ring ends with a delimiter                               *)
InRecord(s) ==
  /\ s \in Readers
  /\ s.state # "hangs"
  /\ s.state = "reads" => s.front \in Index /\ s.rear \in Index /\ s.bytes[s.front] = Delimiter
  /\ s.state = "stopped" => s.front = -1 /\ s.rear = -1

(* The byte a turn looks at k bytes on from rear, and where it is          *)
Pos(s, k) == IF k = 0 THEN s.rear ELSE (s.rear + k) % Size
At(s, k, before) == IF Pos(s, k) = -1 THEN before ELSE s.bytes[Pos(s, k)]
EndsAhead(s, before) == {k \in 0 .. Size : At(s, k, before) = Delimiter}

LEMMA PosFacts ==
  ASSUME NEW s \in Readers, NEW k \in 0 .. Size, NEW before \in Nat
  PROVE  Pos(s, k) \in Index \cup {-1} /\ At(s, k, before) \in Nat
  <1>1. s.bytes \in [Index -> Nat] /\ s.rear \in Index \cup {-1}
    BY DEF Readers
  <1>2. -1 \notin Index /\ s.rear + k \in Int
    BY <1>1, RingAssumption DEF Index
  <1>3. (s.rear + k) % Size \in Index
    BY <1>2, InRing
  <1> QED
    BY <1>1, <1>2, <1>3 DEF Pos, At

(* What a turn leaves                                                      *)
LEMMA TurnFacts ==
  ASSUME NEW s \in Readers, NEW before \in Nat
  PROVE  LET t == ReadTurn(s, before)
             ends == EndsAhead(s, before)
         IN /\ t \in Readers /\ t.bytes = s.bytes
            /\ s.state # "reads" => t = s
            /\ s.state = "reads" /\ ends = {} => t.state = "hangs"
            /\ s.state = "reads" /\ ends # {} =>
                 \/ t.state = "stopped" /\ t.front = -1 /\ t.rear = -1
                 \/ t.state = "reads" /\ t.front = s.front /\ t.rear \in Index
  <1> DEFINE t == ReadTurn(s, before)
             ends == EndsAhead(s, before)
             d == Min(ends)
             seen == [k \in 1 .. d |-> At(s, k - 1, before)]
             out == s.out \o seen
  <1>1. /\ s.bytes \in [Index -> Nat] /\ s.front \in Index \cup {-1} /\ s.rear \in Index \cup {-1}
        /\ s.out \in Seq(Nat) /\ s.state \in {"reads", "hangs", "stopped"}
    BY DEF Readers
  <1>2. t = IF s.state # "reads" THEN s
            ELSE IF ends = {} THEN [s EXCEPT !.state = "hangs"]
            ELSE IF Pos(s, d) = s.front
                 THEN [s EXCEPT !.out = out, !.front = -1, !.rear = -1, !.state = "stopped"]
                 ELSE [s EXCEPT !.out = out, !.rear = (Pos(s, d) + 1) % Size]
    BY DEF ReadTurn, EndsAhead, Pos, At
  <1>3. ends \in SUBSET (0 .. Size) /\ 0 .. Size \subseteq Nat
    BY DEF EndsAhead
  <1> HIDE DEF t, ends, d, out
  <1>4. CASE s.state # "reads"
    <2>1. t = s
      BY <1>2, <1>4
    <2> QED
      BY <1>4, <2>1 DEF t, ends
  <1>5. CASE s.state = "reads" /\ ends = {}
    <2>1. t = [s EXCEPT !.state = "hangs"]
      BY <1>2, <1>5
    <2>2. t \in Readers /\ t.bytes = s.bytes /\ t.state = "hangs"
      BY <2>1 DEF Readers
    <2> QED
      BY <1>5, <2>2 DEF t, ends
  <1>6. CASE s.state = "reads" /\ ends # {}
    <2>1. d \in 0 .. Size /\ d \in Nat
      BY <1>3, <1>6, MinLeast DEF d
    <2>2. \A k \in 0 .. Size : Pos(s, k) \in Index \cup {-1} /\ At(s, k, before) \in Nat
      BY PosFacts
    <2>3. out \in Seq(Nat)
      <3>1. \A k \in 1 .. d : k - 1 \in 0 .. Size
        BY <2>1, RingAssumption
      <3>2. seen \in [1 .. d -> Nat]
        BY <2>2, <3>1
      <3> HIDE DEF seen
      <3>3. seen \in Seq(Nat)
        BY <2>1, <3>2
      <3> QED
        BY <1>1, <3>3 DEF out
    <2> DEFINE next == (Pos(s, d) + 1) % Size
    <2>4. next \in Index
      <3>1. Pos(s, d) + 1 \in Int
        BY <2>1, <2>2, RingAssumption DEF Index
      <3> QED
        BY <3>1, InRing
    <2>5. CASE Pos(s, d) = s.front
      <3>1. t = [s EXCEPT !.out = out, !.front = -1, !.rear = -1, !.state = "stopped"]
        BY <1>2, <1>6, <2>5
      <3>2. t \in Readers /\ t.bytes = s.bytes /\ t.state = "stopped" /\ t.front = -1 /\ t.rear = -1
        BY <2>3, <3>1 DEF Readers
      <3> QED
        BY <1>6, <3>2 DEF t, ends
    <2>6. CASE Pos(s, d) # s.front
      <3>1. t = [s EXCEPT !.out = out, !.rear = next]
        BY <1>2, <1>6, <2>6
      <3> HIDE DEF next
      <3>2. t \in Readers /\ t.bytes = s.bytes /\ t.state = s.state /\ t.front = s.front /\ t.rear = next
        BY <2>3, <2>4, <3>1 DEF Readers
      <3> QED
        BY <1>6, <2>4, <3>2 DEF t, ends
    <2> QED
      BY <2>5, <2>6
  <1> QED
    BY <1>1, <1>4, <1>5, <1>6

(* A reader whose ring ends with a delimiter meets one.                    *)
LEMMA TurnEnds ==
  ASSUME NEW s, InRecord(s), NEW before \in Nat
  PROVE  InRecord(ReadTurn(s, before))
  <1> DEFINE t == ReadTurn(s, before)
  <1>1. s \in Readers /\ s.state \in {"reads", "stopped"}
    BY DEF InRecord, Readers
  <1>2. CASE s.state = "stopped"
    <2>1. t = s
      BY <1>1, <1>2, TurnFacts
    <2> QED
      BY <2>1
  <1>3. CASE s.state = "reads"
    <2>1. s.front \in Index /\ s.rear \in Index /\ s.bytes[s.front] = Delimiter
      BY <1>3 DEF InRecord
    <2>2. /\ Size \in Nat \ {0, 1} /\ s.front \in Nat /\ s.rear \in Nat
          /\ s.front < Size /\ s.rear < Size
      BY <2>1, RingAssumption DEF Index
    <2> DEFINE x == s.front - s.rear
               k == IF x < 0 THEN x + Size ELSE x
               y == s.rear + k
    <2>3. /\ k \in 0 .. Size /\ y \in Int /\ -Size <= y /\ y < 2 * Size /\ y >= 0
          /\ (IF y < Size THEN y ELSE y - Size) = s.front /\ (k = 0 => s.rear = s.front)
      BY <2>2
    <2> HIDE DEF k
    <2>4. y % Size = s.front
      <3>1. y % Size = IF y < 0 THEN y + Size ELSE IF y < Size THEN y ELSE y - Size
        BY <2>3, Wrapped
      <3> HIDE DEF y
      <3> QED
        BY <2>2, <2>3, <3>1
    <2>5. Pos(s, k) = s.front
      BY <2>3, <2>4 DEF Pos
    <2>6. At(s, k, before) = Delimiter
      BY <2>1, <2>2, <2>5 DEF At
    <2>7. EndsAhead(s, before) # {}
      BY <2>3, <2>6 DEF EndsAhead
    <2>8. /\ t \in Readers /\ t.bytes = s.bytes
          /\ \/ t.state = "stopped" /\ t.front = -1 /\ t.rear = -1
             \/ t.state = "reads" /\ t.front = s.front /\ t.rear \in Index
      BY <1>1, <1>3, <2>7, TurnFacts
    <2> HIDE DEF t
    <2>9. InRecord(t)
      BY <2>1, <2>8 DEF InRecord
    <2> QED
      BY <2>9 DEF t
  <1> QED
    BY <1>1, <1>2, <1>3

(* The readers the turns go through                                        *)
LEMMA TurnsFacts ==
  ASSUME NEW r \in Rings, NEW count \in Nat, NEW before \in Nat
  PROVE  /\ Turns(r, count, before) \in [0 .. count -> Readers]
         /\ Turns(r, count, before)[0] = Reader(r)
         /\ \A n \in 1 .. count :
              Turns(r, count, before)[n] = ReadTurn(Turns(r, count, before)[n - 1], before)
  <1> DEFINE F == [n \in 1 .. count |-> [s \in Readers |-> ReadTurn(s, before)]]
             Is(g) == g = [n \in 0 .. count |-> IF n = 0 THEN Reader(r) ELSE ReadTurn(g[n - 1], before)]
             w == Turns(r, count, before)
             S == {n \in 0 .. count : w[n] \in Readers}
  <1>1. Reader(r) \in Readers
    <2>1. r.bytes \in [Index -> Nat] /\ r.front \in Index \cup {-1} /\ r.rear \in Index \cup {-1}
      BY RingParts
    <2> QED
      BY <2>1 DEF Reader, Readers
  <1>2. \A s \in Readers : ReadTurn(s, before) \in Readers
    BY TurnFacts
  <1>3. \A n \in 1 .. count : F[n] \in [Readers -> Readers]
    BY <1>2
  <1>4. \A n \in 1 .. count, s \in Readers : F[n][s] = ReadTurn(s, before)
    OBVIOUS
  <1>5. w = CHOOSE g : Is(g)
    BY DEF Turns
  <1> HIDE DEF F, w
  <1>6. PICK g \in [0 .. count -> Readers] : Counted(g, count, Reader(r), F)
    BY <1>1, <1>3, CountedExists
  <1>7. Is(g)
    BY <1>4, <1>6 DEF Counted
  <1>8. w = [n \in 0 .. count |-> IF n = 0 THEN Reader(r) ELSE ReadTurn(w[n - 1], before)]
    <2> HIDE DEF Is
    <2>1. Is(w)
      BY <1>5, <1>7
    <2> QED
      BY <2>1 DEF Is
  <1>9. DOMAIN w = 0 .. count /\ w[0] = Reader(r) /\ \A n \in 1 .. count : w[n] = ReadTurn(w[n - 1], before)
    BY <1>8
  <1>10. w = [n \in 0 .. count |-> w[n]]
    BY <1>8
  <1>11. 0 .. count \subseteq S
    <2>1. 0 \in S
      BY <1>1, <1>9
    <2>2. ASSUME NEW n \in 0 .. count, n # count, n \in S PROVE n + 1 \in S
      <3>1. n + 1 \in 1 .. count /\ w[n] \in Readers /\ (n + 1) - 1 = n
        BY <2>2
      <3>2. w[n + 1] = ReadTurn(w[n], before)
        BY <1>9, <3>1
      <3> QED
        BY <1>2, <3>1, <3>2
    <2> HIDE DEF S
    <2> QED
      BY <2>1, <2>2, CountUp
  <1>12. w \in [0 .. count -> Readers]
    BY <1>10, <1>11
  <1> QED
    BY <1>9, <1>12 DEF w

(* Reading leaves a ring a ring.                                           *)
LEMMA ReadKeepsRing ==
  ASSUME NEW r \in Rings, NEW count \in Nat, NEW before \in Nat
  PROVE  RingOf(ReadRecords(r, count, before)) \in Rings
  <1>1. ReadRecords(r, count, before) \in Readers
    BY TurnsFacts DEF ReadRecords
  <1> QED
    BY <1>1 DEF Readers, Rings, RingOf

(* Reading from a ring that ends with a delimiter ends, and leaves such a  *)
(* ring or an empty one.                                                   *)
LEMMA ReadKeepsClosed ==
  ASSUME NEW r, Closed(r), ~Isempty(r), NEW count \in Nat, NEW before \in Nat
  PROVE  /\ ReadRecords(r, count, before).state # "hangs"
         /\ Closed(RingOf(ReadRecords(r, count, before)))
  <1> DEFINE w == Turns(r, count, before)
             S == {n \in 0 .. count : InRecord(w[n])}
  <1>1. r \in Rings /\ r.front \in Index /\ r.rear \in Index /\ r.bytes[r.front] = Delimiter
    BY RingParts DEF Closed, Orderly, Isempty
  <1>2. /\ w \in [0 .. count -> Readers]
        /\ w[0] = Reader(r)
        /\ \A n \in 1 .. count : w[n] = ReadTurn(w[n - 1], before)
    BY <1>1, TurnsFacts
  <1>3. ReadRecords(r, count, before) = w[count]
    BY DEF ReadRecords
  <1> HIDE DEF w
  <1>4. 0 \in S
    <2>1. Reader(r) \in Readers
      BY <1>2
    <2> QED
      BY <1>1, <1>2, <2>1 DEF InRecord, Reader
  <1>5. ASSUME NEW n \in 0 .. count, n # count, n \in S PROVE n + 1 \in S
    <2>1. n + 1 \in 1 .. count /\ InRecord(w[n]) /\ (n + 1) - 1 = n /\ n + 1 \in 0 .. count
      BY <1>5
    <2>2. w[n + 1] = ReadTurn(w[n], before)
      BY <1>2, <2>1
    <2> QED
      BY <2>1, <2>2, TurnEnds
  <1>6. InRecord(w[count])
    <2>1. 0 .. count \subseteq S
      <3> HIDE DEF S
      <3> QED
        BY <1>4, <1>5, CountUp
    <2> QED
      BY <2>1
  <1> DEFINE s == w[count]
  <1>7. s \in Readers /\ InRecord(s)
    BY <1>6 DEF InRecord
  <1> HIDE DEF s
  <1>8. s.state # "hangs" /\ s.front \in Index \cup {-1} /\ s.rear \in Index \cup {-1} /\ -1 \notin Index
    BY <1>7, RingAssumption DEF InRecord, Readers, Index
  <1>9. (s.front = -1 <=> s.rear = -1) /\ (s.front # -1 => s.bytes[s.front] = Delimiter)
    BY <1>7, <1>8 DEF InRecord, Readers
  <1>10. RingOf(s) \in Rings /\ RingOf(s).front = s.front /\ RingOf(s).rear = s.rear /\ RingOf(s).bytes = s.bytes
    BY <1>7 DEF Readers, Rings, RingOf
  <1>11. Closed(RingOf(s))
    BY <1>9, <1>10 DEF Closed, Orderly
  <1> QED
    BY <1>3, <1>8, <1>11 DEF s

-----------------------------------------------------------------------------
(* What is in a ring: the bytes in order, and the records they make up     *)

(* Where the delimiters are, in order; bytes ends with one, or is empty    *)
Marks(bytes, e) ==
  /\ e \in Seq(Nat \ {0})
  /\ \A i, j \in 1 .. Len(e) : i < j => e[i] < e[j]
  /\ \A x : x \in Ends(bytes) <=> \E i \in 1 .. Len(e) : e[i] = x
  /\ Len(bytes) = IF e = <<>> THEN 0 ELSE e[Len(e)]

(* e lists the members of S, each once.                                    *)
Lists(e, n, S) ==
  /\ \A i \in 1 .. n : e[i] \in S
  /\ \A i, j \in 1 .. n : e[i] = e[j] => i = j
  /\ \A x \in S : \E i \in 1 .. n : e[i] = x

(* As many members of S are in an initial part of its enumeration as that  *)
(* is long.                                                                *)
LEMMA CountedOut ==
  ASSUME NEW S, NEW n \in Nat, NEW e, Lists(e, n, S)
  PROVE  Cardinality(S) = n
  <1> DEFINE f == [i \in 1 .. n |-> e[i]]
  <1>1. f \in [1 .. n -> S] /\ \A i \in 1 .. n : f[i] = e[i]
    BY DEF Lists
  <1> HIDE DEF f
  <1>2. f \in Injection(1 .. n, S)
    BY <1>1 DEF Injection, IsInjective, Lists
  <1>3. f \in Surjection(1 .. n, S)
    BY <1>1 DEF Surjection, Lists
  <1>4. ExistsBijection(1 .. n, S)
    BY <1>2, <1>3 DEF ExistsBijection, Bijection
  <1> QED
    BY <1>4, FS_CountingElements

(* The members of S, the smallest first                                    *)
InOrder(e, S) ==
  /\ e \in Seq(Nat)
  /\ \A i, j \in 1 .. Len(e) : i < j => e[i] < e[j]
  /\ \A x : x \in S <=> \E i \in 1 .. Len(e) : e[i] = x

(* Counting its members finds the n-th in the n-th place.                  *)
LEMMA NthInOrder ==
  ASSUME NEW S, NEW e, InOrder(e, S)
  PROVE  /\ Cardinality(S) = Len(e)
         /\ \A n \in 1 .. Len(e) : Nth(S, n) = e[n]
  <1> DEFINE upto(i) == {j \in S : j <= i}
  <1>1. /\ Len(e) \in Nat /\ \A i \in 1 .. Len(e) : e[i] \in S /\ e[i] \in Nat
        /\ \A x \in S : \E i \in 1 .. Len(e) : e[i] = x
        /\ \A i, j \in 1 .. Len(e) : i < j => e[i] < e[j]
    BY DEF InOrder
  <1>2. \A i, j \in 1 .. Len(e) : (e[i] = e[j] => i = j) /\ (e[i] <= e[j] <=> i <= j)
    <2> TAKE i, j \in 1 .. Len(e)
    <2>1. i \in Nat /\ j \in Nat /\ (i < j \/ i = j \/ j < i) /\ e[i] \in Nat /\ e[j] \in Nat
      BY <1>1
    <2> QED
      BY <1>1, <2>1
  <1>6. \A i, j \in 1 .. Len(e) : e[i] = e[j] => i = j
    BY <1>2
  <1>3. Cardinality(S) = Len(e)
    <2>1. \A i \in 1 .. Len(e) : e[i] \in S
      BY <1>1
    <2>2. Lists(e, Len(e), S)
      BY <1>1, <1>6, <2>1 DEF Lists
    <2> QED
      BY ONLY <1>1, <2>2, CountedOut
  <1>4. ASSUME NEW n \in 1 .. Len(e) PROVE Cardinality(upto(e[n])) = n
    <2>1. n \in Nat /\ \A i \in 1 .. n : i \in 1 .. Len(e) /\ i <= n
      BY <1>1
    <2>2. \A i \in 1 .. n : e[i] \in upto(e[n])
      BY <1>1, <1>2, <2>1
    <2>3. \A x \in upto(e[n]) : \E i \in 1 .. n : e[i] = x
      <3> TAKE x \in upto(e[n])
      <3>1. PICK i \in 1 .. Len(e) : e[i] = x
        BY <1>1
      <3>2. i <= n
        BY <1>2, <3>1
      <3> QED
        BY <2>1, <3>1, <3>2
    <2>4. \A i, j \in 1 .. n : e[i] = e[j] => i = j
      BY <1>6, <2>1
    <2> HIDE DEF upto
    <2>5. Lists(e, n, upto(e[n]))
      BY <2>2, <2>3, <2>4 DEF Lists
    <2> QED
      BY ONLY <2>1, <2>5, CountedOut
  <1>5. ASSUME NEW n \in 1 .. Len(e) PROVE Nth(S, n) = e[n]
    <2> DEFINE P(x) == Cardinality(upto(x)) = n
    <2>1. e[n] \in S /\ P(e[n])
      BY <1>1, <1>4
    <2>2. ASSUME NEW x \in S, P(x) PROVE x = e[n]
      <3>1. PICK i \in 1 .. Len(e) : e[i] = x
        BY <1>1
      <3>2. Cardinality(upto(e[i])) = i
        BY <1>4
      <3> HIDE DEF upto
      <3> QED
        BY <2>2, <3>1, <3>2
    <2>3. Nth(S, n) = CHOOSE x \in S : P(x)
      BY DEF Nth
    <2> HIDE DEF P
    <2> QED
      BY <2>1, <2>2, <2>3
  <1> QED
    BY <1>3, <1>5

(* The n-th delimiter is where the n-th mark is.                           *)
LEMMA EndMarked ==
  ASSUME NEW bytes \in Seq(Nat), NEW e, Marks(bytes, e)
  PROVE  /\ Cardinality(Ends(bytes)) = Len(e)
         /\ \A n \in 1 .. Len(e) : Nth(Ends(bytes), n) = e[n]
  <1>1. InOrder(e, Ends(bytes))
    <2>1. e \in Seq(Nat \ {0}) /\ Nat \ {0} \subseteq Nat
      BY DEF Marks
    <2>2. e \in Seq(Nat)
      BY <2>1
    <2> QED
      BY <2>2 DEF Marks, InOrder
  <1> QED
    BY <1>1, NthInOrder

(* Where the n-th record starts                                            *)
Start(e, n) == IF n = 1 THEN 1 ELSE e[n - 1] + 1

(* What Split makes of bytes whose delimiters are known: a record up to each*)
LEMMA SplitMarked ==
  ASSUME NEW bytes \in Seq(Nat), NEW e, Marks(bytes, e)
  PROVE  Split(bytes) = [n \in 1 .. Len(e) |-> SubSeq(bytes, Start(e, n), e[n] - 1)]
  <1> DEFINE start(n) == IF n = 1 THEN 1 ELSE Nth(Ends(bytes), n - 1) + 1
  <1>1. Cardinality(Ends(bytes)) = Len(e) /\ \A n \in 1 .. Len(e) : Nth(Ends(bytes), n) = e[n]
    BY EndMarked
  <1>2. Split(bytes) = [n \in 1 .. Len(e) |-> SubSeq(bytes, start(n), Nth(Ends(bytes), n) - 1)]
    BY <1>1 DEF Split
  <1>3. \A n \in 1 .. Len(e) : start(n) = Start(e, n) /\ Nth(Ends(bytes), n) = e[n]
    <2> TAKE n \in 1 .. Len(e)
    <2>1. n # 1 => n - 1 \in 1 .. Len(e)
      BY DEF Marks
    <2> QED
      BY <1>1, <2>1 DEF Start
  <1> HIDE DEF start
  <1> QED
    BY <1>2, <1>3

(* Bytes that are whole records, each with its delimiter                   *)
Splittable(bytes) == bytes \in Seq(Nat) /\ \E e : Marks(bytes, e)

(* No bytes are no records.                                                *)
LEMMA SplitNothing ==
  ASSUME NEW bytes, bytes = <<>>
  PROVE  Splittable(bytes) /\ Split(bytes) = <<>>
  <1>1. Ends(bytes) = {} /\ bytes \in Seq(Nat) /\ Len(bytes) = 0
    BY DEF Ends
  <1>2. Marks(bytes, <<>>)
    BY <1>1 DEF Marks
  <1>3. Split(bytes) = [n \in 1 .. 0 |-> SubSeq(bytes, Start(<<>>, n), <<>>[n] - 1)]
    <2>1. Len(<<>>) = 0
      OBVIOUS
    <2> QED
      BY <1>1, <1>2, <2>1, SplitMarked
  <1>4. Split(bytes) = <<>>
    BY <1>3
  <1> QED
    BY <1>1, <1>2, <1>4 DEF Splittable


(* What is where in a sequence with a record behind it                     *)
LEMMA BehindFacts ==
  ASSUME NEW S, NEW b \in Seq(S), NEW rec \in Seq(S), NEW d \in S
  PROVE  LET new == (b \o rec) \o <<d>>
         IN /\ new \in Seq(S) /\ Len(new) = Len(b) + Len(rec) + 1
            /\ \A i \in 1 .. Len(b) : new[i] = b[i]
            /\ \A i \in 1 .. Len(rec) : new[Len(b) + i] = rec[i]
            /\ new[Len(b) + Len(rec) + 1] = d
  <1> DEFINE mid == b \o rec
             new == mid \o <<d>>
  <1>1. Len(b) \in Nat /\ Len(rec) \in Nat /\ <<d>> \in Seq(S) /\ Len(<<d>>) = 1 /\ <<d>>[1] = d
    OBVIOUS
  <1>2. mid \in Seq(S) /\ Len(mid) = Len(b) + Len(rec)
    OBVIOUS
  <1>3. \A i \in 1 .. Len(b) : mid[i] = b[i]
    OBVIOUS
  <1>4. \A i \in 1 .. Len(rec) : mid[Len(b) + i] = rec[i]
    <2> TAKE i \in 1 .. Len(rec)
    <2>1. Len(b) + i \in 1 .. Len(b) + Len(rec) /\ ~(Len(b) + i <= Len(b)) /\ (Len(b) + i) - Len(b) = i
      BY <1>1
    <2>2. mid[Len(b) + i] = rec[(Len(b) + i) - Len(b)]
      BY <2>1
    <2> QED
      BY <2>1, <2>2
  <1> HIDE DEF mid
  <1>5. new \in Seq(S) /\ Len(new) = Len(b) + Len(rec) + 1
    BY <1>1, <1>2
  <1>6. \A i \in 1 .. Len(mid) : new[i] = mid[i]
    BY <1>1, <1>2
  <1>7. new[Len(mid) + 1] = d
    BY <1>1, <1>2
  <1> HIDE DEF new
  <1>8. \A i \in 1 .. Len(b) : i \in 1 .. Len(mid)
    BY <1>1, <1>2
  <1>9. \A i \in 1 .. Len(rec) : Len(b) + i \in 1 .. Len(mid)
    BY <1>1, <1>2
  <1> QED
    BY <1>2, <1>3, <1>4, <1>5, <1>6, <1>7, <1>8, <1>9 DEF new, mid

(* Where the delimiters are with a record behind                           *)
LEMMA MarksBehind ==
  ASSUME NEW b \in Seq(Nat), NEW e, Marks(b, e), NEW rec \in Seq(Nat), Delimiter \notin ToSet(rec)
  PROVE  Marks((b \o rec) \o <<Delimiter>>, Append(e, Len(b) + Len(rec) + 1))
  <1> DEFINE new == (b \o rec) \o <<Delimiter>>
             x == Len(b) + Len(rec) + 1
             g == Append(e, x)
             N == Len(e)
  <1>1. /\ new \in Seq(Nat) /\ Len(new) = x
        /\ \A i \in 1 .. Len(b) : new[i] = b[i]
        /\ \A i \in 1 .. Len(rec) : new[Len(b) + i] = rec[i]
        /\ new[x] = Delimiter
    <2>1. Delimiter \in Nat
      BY DEF Delimiter
    <2> QED
      BY <2>1, BehindFacts
  <1>2. /\ e \in Seq(Nat \ {0}) /\ N \in Nat
        /\ \A i, j \in 1 .. N : i < j => e[i] < e[j]
        /\ \A i \in 1 .. N : e[i] \in Ends(b)
        /\ \A y \in Ends(b) : \E i \in 1 .. N : e[i] = y
    BY DEF Marks
  <1>3. Len(b) \in Nat /\ Len(rec) \in Nat /\ x \in Nat \ {0}
    OBVIOUS
  <1>4. \A i \in 1 .. Len(rec) : rec[i] # Delimiter
    BY DEF ToSet
  <1>5. Ends(new) = Ends(b) \cup {x}
    <2>1. ASSUME NEW i \in 1 .. x PROVE new[i] = Delimiter <=> i \in Ends(b) \cup {x}
      <3>1. CASE i \in 1 .. Len(b)
        <4>1. i # x
          BY <1>3, <3>1
        <4> QED
          BY <1>1, <3>1, <4>1 DEF Ends
      <3>2. CASE i = x
        BY <1>1, <3>2
      <3>3. CASE i \notin 1 .. Len(b) /\ i # x
        <4>1. i - Len(b) \in 1 .. Len(rec) /\ Len(b) + (i - Len(b)) = i
          BY <1>3, <3>3
        <4>2. new[i] # Delimiter
          BY <1>1, <1>4, <4>1
        <4>3. i \notin Ends(b)
          BY <3>3 DEF Ends
        <4> QED
          BY <3>3, <4>2, <4>3
      <3> QED
        BY <3>1, <3>2, <3>3
    <2>2. DOMAIN new = 1 .. x /\ Ends(b) \subseteq 1 .. x /\ x \in 1 .. x
      <3>1. DOMAIN new = 1 .. x /\ x \in 1 .. x
        BY <1>1, <1>3
      <3>2. Ends(b) \subseteq 1 .. Len(b)
        BY DEF Ends
      <3> QED
        BY <1>3, <3>1, <3>2
    <2> HIDE DEF new, x
    <2> QED
      BY <2>1, <2>2 DEF Ends
  <1> HIDE DEF new
  <1>6. /\ g \in Seq(Nat \ {0}) /\ Len(g) = N + 1 /\ g[N + 1] = x
        /\ \A i \in 1 .. N : g[i] = e[i]
    BY <1>2, <1>3
  <1>7. \A i \in 1 .. N : e[i] \in Nat /\ e[i] < x
    <2> TAKE i \in 1 .. N
    <2>1. e[i] \in 1 .. Len(b)
      BY <1>2 DEF Ends
    <2> QED
      BY <1>3, <2>1
  <1> HIDE DEF g, x, N
  <1>8. \A i, j \in 1 .. N + 1 : i < j => g[i] < g[j]
    <2> SUFFICES ASSUME NEW i \in 1 .. N + 1, NEW j \in 1 .. N + 1, i < j PROVE g[i] < g[j]
      OBVIOUS
    <2>1. i \in 1 .. N /\ (j \in 1 .. N \/ j = N + 1)
      BY <1>2
    <2> QED
      BY <1>2, <1>6, <1>7, <2>1
  <1>9. \A y : y \in Ends(new) <=> \E i \in 1 .. N + 1 : g[i] = y
    <2>1. \A i \in 1 .. N + 1 : i \in 1 .. N \/ i = N + 1
      BY <1>2
    <2>2. \A i \in 1 .. N + 1 : g[i] \in Ends(new)
      BY <1>2, <1>5, <1>6, <2>1
    <2>3. ASSUME NEW y \in Ends(new) PROVE \E i \in 1 .. N + 1 : g[i] = y
      <3>1. CASE y = x
        <4>1. N + 1 \in 1 .. N + 1
          BY <1>2
        <4> QED
          BY <1>6, <3>1, <4>1
      <3>2. CASE y \in Ends(b)
        <4>1. PICK i \in 1 .. N : e[i] = y
          BY <1>2, <3>2
        <4>2. i \in 1 .. N + 1 /\ g[i] = y
          BY <1>2, <1>6, <4>1
        <4> QED
          BY <4>2
      <3> QED
        BY <1>5, <3>1, <3>2
    <2> QED
      BY <2>2, <2>3
  <1>10. g # <<>>
    BY <1>2, <1>6
  <1>11. Marks(new, g)
    BY <1>1, <1>6, <1>8, <1>9, <1>10 DEF Marks
  <1> QED
    BY <1>11 DEF new, g, x

(* What appending is                                                       *)
LEMMA AppendIs ==
  ASSUME NEW S, NEW s \in Seq(S), NEW x \in S
  PROVE  Append(s, x) = [n \in 1 .. Len(s) + 1 |-> IF n <= Len(s) THEN s[n] ELSE x]
  <1> DEFINE t == Append(s, x)
  <1>1. Len(s) \in Nat /\ t \in Seq(S) /\ Len(t) = Len(s) + 1 /\ t[Len(s) + 1] = x
    OBVIOUS
  <1>2. \A n \in 1 .. Len(s) : t[n] = s[n]
    OBVIOUS
  <1> HIDE DEF t
  <1>3. t = [n \in 1 .. Len(s) + 1 |-> t[n]]
    BY <1>1
  <1>4. \A n \in 1 .. Len(s) + 1 : t[n] = IF n <= Len(s) THEN s[n] ELSE x
    <2> TAKE n \in 1 .. Len(s) + 1
    <2>1. n \in 1 .. Len(s) \/ n = Len(s) + 1
      BY <1>1
    <2> QED
      BY <1>1, <1>2, <2>1
  <1>5. t = [n \in 1 .. Len(s) + 1 |-> IF n <= Len(s) THEN s[n] ELSE x]
    BY <1>3, <1>4
  <1> QED
    BY <1>5 DEF t

(* A record behind whole records is one more.                              *)
LEMMA SplitBehind ==
  ASSUME NEW b, Splittable(b), NEW rec \in Seq(Nat), Delimiter \notin ToSet(rec)
  PROVE  LET new == (b \o rec) \o <<Delimiter>>
         IN Splittable(new) /\ Split(new) = Append(Split(b), rec)
  <1> DEFINE new == (b \o rec) \o <<Delimiter>>
             x == Len(b) + Len(rec) + 1
  <1>1. PICK e : Marks(b, e)
    BY DEF Splittable
  <1> DEFINE g == Append(e, x)
             N == Len(e)
  <1>2. b \in Seq(Nat) /\ Len(b) \in Nat /\ Len(rec) \in Nat /\ x \in Nat \ {0}
    BY DEF Splittable
  <1>3. Marks(new, g)
    BY <1>1, <1>2, MarksBehind
  <1>4. /\ new \in Seq(Nat) /\ Len(new) = x
        /\ \A i \in 1 .. Len(b) : new[i] = b[i]
        /\ \A i \in 1 .. Len(rec) : new[Len(b) + i] = rec[i]
    <2>1. Delimiter \in Nat
      BY DEF Delimiter
    <2> QED
      BY <1>2, <2>1, BehindFacts
  <1>5. Splittable(new)
    BY <1>3, <1>4 DEF Splittable
  <1>6. e \in Seq(Nat \ {0}) /\ N \in Nat /\ Len(b) = IF e = <<>> THEN 0 ELSE e[Len(e)]
    BY <1>1 DEF Marks
  <1>7. /\ g \in Seq(Nat \ {0}) /\ Len(g) = N + 1 /\ g[N + 1] = x
        /\ \A i \in 1 .. N : g[i] = e[i]
    BY <1>2, <1>6
  <1>9. Split(b) = [n \in 1 .. N |-> SubSeq(b, Start(e, n), e[n] - 1)]
    BY <1>1, <1>2, SplitMarked
  <1>10. x - 1 = Len(b) + Len(rec) /\ x = Len(b) + Len(rec) + 1
    BY <1>2
  <1> HIDE DEF new, x, g, N
  <1>8. Split(new) = [n \in 1 .. N + 1 |-> SubSeq(new, Start(g, n), g[n] - 1)]
    <2>1. new \in Seq(Nat) /\ Marks(new, g) /\ Len(g) = N + 1
      BY <1>3, <1>4, <1>7
    <2>2. Split(new) = [n \in 1 .. Len(g) |-> SubSeq(new, Start(g, n), g[n] - 1)]
      BY ONLY <2>1, SplitMarked
    <2> QED
      BY ONLY <2>1, <2>2
  <1>11. ASSUME NEW n \in 1 .. N PROVE SubSeq(new, Start(g, n), g[n] - 1) = SubSeq(b, Start(e, n), e[n] - 1)
    <2>1. e[n] \in 1 .. Len(b) /\ g[n] = e[n]
      <3>1. e[n] \in Ends(b)
        BY <1>1, <1>6 DEF Marks, N
      <3> QED
        BY <1>2, <1>7, <3>1 DEF Ends
    <2>2. Start(g, n) = Start(e, n) /\ Start(e, n) \in Nat /\ Start(e, n) >= 1
      <3>1. CASE n = 1
        BY <3>1 DEF Start
      <3>2. CASE n # 1
        <4>1. n - 1 \in 1 .. N /\ n - 1 \in 1 .. Len(e)
          BY <1>6, <3>2 DEF N
        <4>2. e[n - 1] \in Nat
          BY <1>6, <4>1
        <4>3. g[n - 1] = e[n - 1]
          BY <1>7, <4>1
        <4> QED
          BY <3>2, <4>2, <4>3 DEF Start
      <3> QED
        BY <3>1, <3>2
    <2> DEFINE s == Start(e, n)
               t == e[n] - 1
    <2>9. s \in Nat /\ s >= 1
      BY <2>2
    <2> HIDE DEF s
    <2>10. Len(b) <= Len(new) /\ Len(b) \in Nat /\ Len(new) \in Nat
      BY <1>2, <1>4, <1>10
    <2>3. s \in Nat /\ s >= 1 /\ t \in Nat /\ t <= Len(b) /\ t <= Len(new)
      BY <2>1, <2>9, <2>10
    <2> HIDE DEF t
    <2>4. SubSeq(new, s, t) = [i \in 1 .. (t - s + 1) |-> new[s + i - 1]]
      BY <1>4, <2>3
    <2>5. SubSeq(b, s, t) = [i \in 1 .. (t - s + 1) |-> b[s + i - 1]]
      BY <1>2, <2>3
    <2>6. \A i \in 1 .. (t - s + 1) : new[s + i - 1] = b[s + i - 1]
      <3> TAKE i \in 1 .. (t - s + 1)
      <3>1. s + i - 1 \in 1 .. Len(b)
        BY <1>2, <2>3
      <3> QED
        BY <1>4, <3>1
    <2>7. SubSeq(new, s, t) = SubSeq(b, s, t)
      BY <2>4, <2>5, <2>6
    <2> QED
      BY <2>1, <2>2, <2>7 DEF s, t
  <1>12. SubSeq(new, Start(g, N + 1), g[N + 1] - 1) = rec
    <2>1. Start(g, N + 1) = Len(b) + 1
      <3>1. CASE N = 0
        <4>1. e = <<>> /\ Len(b) = 0
          BY <1>6, <3>1 DEF N
        <4> QED
          BY <3>1, <4>1 DEF Start
      <3>2. CASE N # 0
        <4>1. N \in 1 .. N /\ N + 1 # 1 /\ (N + 1) - 1 = N /\ e # <<>>
          BY <1>6, <3>2 DEF N
        <4>2. g[N] = Len(b)
          BY <1>6, <1>7, <4>1 DEF N
        <4> QED
          BY <4>1, <4>2 DEF Start
      <3> QED
        BY <3>1, <3>2
    <2>2. SubSeq(new, Len(b) + 1, Len(b) + Len(rec)) = [i \in 1 .. Len(rec) |-> new[Len(b) + 1 + i - 1]]
      <3>1. (Len(b) + Len(rec)) - (Len(b) + 1) + 1 = Len(rec) /\ Len(b) + 1 \in Nat /\ Len(b) + Len(rec) \in Nat
        BY <1>2
      <3> DEFINE s == Len(b) + 1
                 t == Len(b) + Len(rec)
      <3>2. SubSeq(new, s, t) = [i \in 1 .. (t - s + 1) |-> new[s + i - 1]]
        <4>1. s \in Nat /\ s >= 1 /\ t \in Nat /\ t <= Len(new)
          BY <1>2, <1>4, <1>10
        <4> HIDE DEF s, t
        <4> QED
          BY <1>4, <4>1
      <3> QED
        BY <3>1, <3>2
    <2>3. \A i \in 1 .. Len(rec) : new[Len(b) + 1 + i - 1] = rec[i]
      <3> TAKE i \in 1 .. Len(rec)
      <3>1. Len(b) + 1 + i - 1 = Len(b) + i
        BY <1>2
      <3> QED
        BY <1>4, <3>1
    <2>4. rec = [i \in 1 .. Len(rec) |-> rec[i]]
      OBVIOUS
    <2>5. SubSeq(new, Len(b) + 1, Len(b) + Len(rec)) = rec
      BY <2>2, <2>3, <2>4
    <2> QED
      BY <1>7, <1>10, <2>1, <2>5
  <1> DEFINE old == Split(b)
             piece(n) == SubSeq(b, Start(e, n), e[n] - 1)
  <1>13. old = [n \in 1 .. N |-> piece(n)]
    BY <1>9
  <1> HIDE DEF old, piece
  <1>17. Len(old) = N /\ \A n \in 1 .. N : old[n] = piece(n)
    BY <1>6, <1>13 DEF N
  <1>14. Append(old, rec) = [n \in 1 .. N + 1 |-> IF n <= N THEN old[n] ELSE rec]
    <2> DEFINE S == {piece(n) : n \in 1 .. N} \cup {rec}
    <2>1. \A n \in 1 .. N : piece(n) \in S
      OBVIOUS
    <2>2. rec \in S
      OBVIOUS
    <2> HIDE DEF S
    <2>3. old \in [1 .. N -> S] /\ N \in Nat
      BY <1>6, <1>13, <2>1 DEF N
    <2>4. old \in Seq(S)
      BY <2>3
    <2>5. Append(old, rec) = [n \in 1 .. Len(old) + 1 |-> IF n <= Len(old) THEN old[n] ELSE rec]
      BY ONLY <2>2, <2>4, AppendIs
    <2> QED
      BY ONLY <1>17, <2>5
  <1>15. \A n \in 1 .. N + 1 : SubSeq(new, Start(g, n), g[n] - 1) = IF n <= N THEN old[n] ELSE rec
    <2> TAKE n \in 1 .. N + 1
    <2>1. CASE n <= N
      <3>1. n \in 1 .. N
        BY <1>6, <2>1
      <3> QED
        BY <1>11, <1>17, <2>1, <3>1 DEF piece
    <2>2. CASE ~(n <= N)
      <3>1. n = N + 1
        BY <1>6, <2>2
      <3> QED
        BY <1>12, <2>2, <3>1
    <2> QED
      BY <2>1, <2>2
  <1>16. Split(new) = Append(old, rec)
    BY <1>8, <1>14, <1>15
  <1> QED
    BY <1>5, <1>16 DEF new, old

(* What is behind the first d, and a part of that                          *)
LEMMA PartBehind ==
  ASSUME NEW S, NEW s \in Seq(S), NEW d \in 0 .. Len(s)
  PROVE  LET rest == SubSeq(s, d + 1, Len(s))
         IN /\ rest \in Seq(S) /\ Len(rest) = Len(s) - d
            /\ \A i \in 1 .. Len(s) - d : rest[i] = s[d + i]
            /\ \A a, c \in Nat : a >= 1 /\ c <= Len(s) - d => SubSeq(rest, a, c) = SubSeq(s, d + a, d + c)
  <1> DEFINE rest == SubSeq(s, d + 1, Len(s))
             L == Len(s)
  <1>1. L \in Nat /\ d \in Nat /\ d <= L /\ d + 1 \in Nat /\ L - (d + 1) + 1 = L - d
    OBVIOUS
  <1>2. rest = [i \in 1 .. (L - d) |-> s[(d + 1) + i - 1]]
    <2>1. SubSeq(s, d + 1, L) = [i \in 1 .. (L - (d + 1) + 1) |-> s[(d + 1) + i - 1]]
      BY <1>1
    <2> QED
      BY <1>1, <2>1
  <1>3. \A i \in 1 .. L - d : (d + 1) + i - 1 = d + i /\ d + i \in 1 .. L
    BY <1>1
  <1>4. rest \in Seq(S)
    BY <1>1
  <1>5. Len(rest) = L - d
    <2>1. L - d \in Nat
      BY <1>1
    <2> HIDE DEF rest
    <2> QED
      BY <1>2, <2>1
  <1> HIDE DEF rest
  <1>6. \A i \in 1 .. L - d : rest[i] = s[d + i]
    BY <1>2, <1>3
  <1>7. ASSUME NEW a \in Nat, NEW c \in Nat, a >= 1, c <= L - d
        PROVE  SubSeq(rest, a, c) = SubSeq(s, d + a, d + c)
    <2>1. SubSeq(rest, a, c) = [i \in 1 .. (c - a + 1) |-> rest[a + i - 1]]
      BY <1>1, <1>4, <1>5, <1>7
    <2>2. SubSeq(s, d + a, d + c) = [i \in 1 .. (c - a + 1) |-> s[d + a + i - 1]]
      <3> DEFINE x == d + a
                 y == d + c
      <3>1. x \in Nat /\ y \in Nat /\ x >= 1 /\ y <= Len(s) /\ y - x + 1 = c - a + 1
        BY <1>1, <1>7
      <3>2. SubSeq(s, x, y) = [i \in 1 .. (y - x + 1) |-> s[x + i - 1]]
        <4> HIDE DEF x, y
        <4> QED
          BY <3>1
      <3> QED
        BY <3>1, <3>2
    <2>3. \A i \in 1 .. (c - a + 1) : rest[a + i - 1] = s[d + a + i - 1]
      <3> TAKE i \in 1 .. (c - a + 1)
      <3>1. a + i - 1 \in 1 .. L - d /\ d + (a + i - 1) = d + a + i - 1
        BY <1>1, <1>7
      <3> QED
        BY <1>6, <3>1
    <2> QED
      BY <2>1, <2>2, <2>3
  <1> QED
    BY <1>4, <1>5, <1>6, <1>7 DEF rest

(* The marks behind the first                                              *)
LEMMA MarksAhead ==
  ASSUME NEW b \in Seq(Nat), NEW e, Marks(b, e), e # <<>>
  PROVE  /\ e[1] \in 1 .. Len(b)
         /\ Marks(SubSeq(b, e[1] + 1, Len(b)), [i \in 1 .. Len(e) - 1 |-> e[i + 1] - e[1]])
  <1> DEFINE d == e[1]
             N == Len(e)
             rest == SubSeq(b, d + 1, Len(b))
             g == [i \in 1 .. N - 1 |-> e[i + 1] - d]
  <1>1. /\ e \in Seq(Nat \ {0}) /\ N \in Nat \ {0}
        /\ \A i, j \in 1 .. N : i < j => e[i] < e[j]
        /\ \A i \in 1 .. N : e[i] \in Ends(b)
        /\ \A y \in Ends(b) : \E i \in 1 .. N : e[i] = y
        /\ Len(b) = e[N]
    BY DEF Marks
  <1>2. Ends(b) = {i \in 1 .. Len(b) : b[i] = Delimiter}
    BY DEF Ends
  <1>3. 1 \in 1 .. N /\ N \in 1 .. N
    BY <1>1
  <1>4. d \in 1 .. Len(b) /\ Len(b) \in Nat
    BY <1>1, <1>2, <1>3
  <1>5. /\ rest \in Seq(Nat) /\ Len(rest) = Len(b) - d
        /\ \A i \in 1 .. Len(b) - d : rest[i] = b[d + i]
    <2>1. d \in 0 .. Len(b)
      BY <1>4
    <2> HIDE DEF d
    <2> QED
      BY <2>1, PartBehind
  <1>6. d = e[1]
    OBVIOUS
  <1> HIDE DEF rest, d, N
  <1>7. ASSUME NEW i \in 1 .. N - 1
        PROVE  i \in 1 .. N /\ i + 1 \in 1 .. N /\ e[i + 1] \in 1 .. Len(b) /\ d < e[i + 1] /\ e[i + 1] - d \in Nat \ {0}
    <2>1. i \in 1 .. N /\ i + 1 \in 1 .. N /\ 1 < i + 1
      BY <1>1
    <2>2. e[i + 1] \in 1 .. Len(b) /\ d < e[i + 1]
      BY <1>1, <1>2, <1>3, <1>6, <2>1
    <2> QED
      BY <1>4, <2>1, <2>2
  <1>8. g \in Seq(Nat \ {0}) /\ Len(g) = N - 1 /\ \A i \in 1 .. N - 1 : g[i] = e[i + 1] - d
    <2>1. g \in [1 .. N - 1 -> Nat \ {0}] /\ N - 1 \in Nat
      BY <1>1, <1>7
    <2>2. \A i \in 1 .. N - 1 : g[i] = e[i + 1] - d
      OBVIOUS
    <2> HIDE DEF g
    <2> QED
      BY <2>1, <2>2
  <1> HIDE DEF g
  <1>9. \A i, j \in 1 .. N - 1 : i < j => g[i] < g[j]
    <2> SUFFICES ASSUME NEW i \in 1 .. N - 1, NEW j \in 1 .. N - 1, i < j PROVE g[i] < g[j]
      OBVIOUS
    <2>1. /\ i + 1 \in 1 .. N /\ j + 1 \in 1 .. N /\ i + 1 < j + 1
          /\ e[i + 1] \in 1 .. Len(b) /\ e[j + 1] \in 1 .. Len(b)
      BY <1>7
    <2>2. e[i + 1] < e[j + 1]
      BY <1>1, <2>1
    <2>3. g[i] = e[i + 1] - d /\ g[j] = e[j + 1] - d
      BY <1>8
    <2> QED
      BY <1>4, <2>1, <2>2, <2>3
  <1>10. \A x : x \in Ends(rest) <=> \E i \in 1 .. N - 1 : g[i] = x
    <2>1. Ends(rest) = {i \in 1 .. Len(b) - d : rest[i] = Delimiter}
      BY <1>5 DEF Ends
    <2>2. ASSUME NEW x \in Ends(rest) PROVE \E i \in 1 .. N - 1 : g[i] = x
      <3>7. x \in 1 .. Len(b) - d /\ rest[x] = Delimiter
        BY <2>1
      <3>8. d + x \in 1 .. Len(b) /\ d + x # d
        BY <1>4, <3>7
      <3>1. x \in 1 .. Len(b) - d /\ b[d + x] = Delimiter /\ d + x \in 1 .. Len(b) /\ d + x # d
        BY <1>5, <3>7, <3>8
      <3>2. PICK j \in 1 .. N : e[j] = d + x
        BY <1>1, <1>2, <3>1
      <3>3. j # 1
        BY <1>6, <3>1, <3>2
      <3>4. j - 1 \in 1 .. N - 1 /\ (j - 1) + 1 = j
        BY <1>1, <3>3
      <3>5. g[j - 1] = (d + x) - d
        BY <1>8, <3>2, <3>4
      <3>6. g[j - 1] = x
        BY <1>4, <3>1, <3>5
      <3> QED
        BY <3>4, <3>6
    <2>3. ASSUME NEW i \in 1 .. N - 1 PROVE g[i] \in Ends(rest)
      <3>1. g[i] = e[i + 1] - d /\ e[i + 1] \in 1 .. Len(b) /\ d < e[i + 1] /\ i + 1 \in 1 .. N
        BY <1>7, <1>8
      <3>2. b[e[i + 1]] = Delimiter
        BY <1>1, <1>2, <3>1
      <3>3. g[i] \in 1 .. Len(b) - d /\ d + g[i] = e[i + 1]
        <4> DEFINE x == e[i + 1]
                   y == g[i]
                   z == Len(b)
        <4>1. d \in Nat /\ z \in Nat /\ x \in 1 .. z /\ d < x /\ y = x - d
          BY <1>4, <3>1
        <4> HIDE DEF x, y, z
        <4>2. y \in 1 .. z - d /\ d + y = x
          BY ONLY <4>1
        <4> QED
          BY <4>2 DEF x, y, z
      <3> QED
        BY <1>5, <2>1, <3>2, <3>3
    <2> QED
      BY <2>2, <2>3
  <1>11. Len(rest) = IF g = <<>> THEN 0 ELSE g[N - 1]
    <2>1. CASE N = 1
      <3>1. g = <<>> /\ Len(b) = d
        BY <1>1, <1>6, <1>8, <2>1
      <3> QED
        BY <1>4, <1>5, <3>1
    <2>2. CASE N # 1
      <3>1. N - 1 \in 1 .. N - 1 /\ (N - 1) + 1 = N
        BY <1>1, <2>2
      <3>2. g # <<>> /\ g[N - 1] = e[N] - d
        BY <1>8, <3>1
      <3> QED
        BY <1>1, <1>5, <3>2
    <2> QED
      BY <2>1, <2>2
  <1>12. Marks(rest, g)
    BY <1>8, <1>9, <1>10, <1>11 DEF Marks
  <1> QED
    BY <1>4, <1>12 DEF rest, g, d, N

(* The first of whole records, and the others                              *)
Firsts(b, d) ==
  LET rest == SubSeq(b, d + 1, Len(b))
  IN /\ d \in 1 .. Len(b)
     /\ b[d] = Delimiter
     /\ \A i \in 1 .. d - 1 : b[i] # Delimiter
     /\ Splittable(rest)
     /\ Split(b) # <<>> /\ Split(b)[1] = SubSeq(b, 1, d - 1)
     /\ Split(b) \in Seq(Seq(Nat)) /\ Split(rest) = Tail(Split(b))

(* The first record, and what is behind its delimiter                      *)
LEMMA SplitAhead ==
  ASSUME NEW b, Splittable(b), b # <<>>
  PROVE  \E d \in 1 .. Len(b) : Firsts(b, d)
  <1>1. PICK e : Marks(b, e)
    BY DEF Splittable
  <1> DEFINE d == e[1]
             N == Len(e)
             rest == SubSeq(b, d + 1, Len(b))
             g == [i \in 1 .. N - 1 |-> e[i + 1] - d]
             piece(n) == SubSeq(b, Start(e, n), e[n] - 1)
             back(n) == SubSeq(rest, Start(g, n), g[n] - 1)
  <1>2. b \in Seq(Nat) /\ Len(b) \in Nat /\ Len(b) # 0
    BY DEF Splittable
  <1>3. /\ e \in Seq(Nat \ {0}) /\ N \in Nat \ {0} /\ e # <<>>
        /\ \A i, j \in 1 .. N : i < j => e[i] < e[j]
        /\ \A i \in 1 .. N : e[i] \in Ends(b)
        /\ \A y \in Ends(b) : \E i \in 1 .. N : e[i] = y
    BY <1>1, <1>2 DEF Marks
  <1>4. Ends(b) = {i \in 1 .. Len(b) : b[i] = Delimiter}
    BY <1>2 DEF Ends
  <1>5. d \in 1 .. Len(b) /\ Marks(rest, g)
    BY <1>1, <1>2, <1>3, MarksAhead
  <1>6. /\ rest \in Seq(Nat) /\ Len(rest) = Len(b) - d
        /\ \A a, c \in Nat : a >= 1 /\ c <= Len(b) - d => SubSeq(rest, a, c) = SubSeq(b, d + a, d + c)
    <2>1. d \in 0 .. Len(b)
      BY <1>2, <1>5
    <2> HIDE DEF d
    <2> QED
      BY <1>2, <2>1, PartBehind
  <1>7. Splittable(rest)
    BY <1>5, <1>6 DEF Splittable
  <1>8. Split(b) = [n \in 1 .. N |-> piece(n)]
    BY <1>1, <1>2, SplitMarked
  <1>9. Len(g) = N - 1 /\ \A i \in 1 .. N - 1 : g[i] = e[i + 1] - d
    <2>1. N - 1 \in Nat
      BY <1>3
    <2> HIDE DEF N
    <2> QED
      BY <2>1
  <1>17. d = e[1] /\ N = Len(e) /\ 1 \in 1 .. N
    BY <1>3
  <1> HIDE DEF rest, d, N, g
  <1>10. Split(rest) = [n \in 1 .. N - 1 |-> back(n)]
    BY <1>5, <1>6, <1>9, SplitMarked
  <1>11. ASSUME NEW n \in 1 .. N
         PROVE  /\ e[n] \in 1 .. Len(b)
                /\ Start(e, n) \in Nat /\ Start(e, n) >= 1
    <2>1. e[n] \in 1 .. Len(b)
      BY <1>3, <1>4
    <2>2. CASE n = 1
      BY <2>1, <2>2 DEF Start
    <2>3. CASE n # 1
      <3>1. n - 1 \in 1 .. N
        BY <1>3, <2>3
      <3>2. e[n - 1] \in 1 .. Len(b)
        BY <1>3, <1>4, <3>1
      <3> QED
        BY <1>2, <2>1, <2>3, <3>2 DEF Start
    <2> QED
      BY <2>2, <2>3
  <1>12. ASSUME NEW n \in 1 .. N - 1 PROVE back(n) = piece(n + 1)
    <2>1. n \in 1 .. N /\ n + 1 \in 1 .. N /\ n + 1 # 1 /\ (n + 1) - 1 = n /\ 1 < n + 1
      BY <1>3
    <2>2. e[n] \in 1 .. Len(b) /\ e[n + 1] \in 1 .. Len(b) /\ Start(e, n + 1) = e[n] + 1
      BY <1>11, <2>1 DEF Start
    <2>8. g[n] = e[n + 1] - d /\ d < e[n + 1]
      BY <1>3, <1>9, <1>17, <2>1
    <2>3. Start(g, n) = Start(e, n + 1) - d /\ Start(g, n) \in Nat /\ Start(g, n) >= 1
      <3>1. CASE n = 1
        BY <1>2, <1>5, <1>17, <2>2, <3>1 DEF Start
      <3>2. CASE n # 1
        <4>1. n - 1 \in 1 .. N - 1 /\ (n - 1) + 1 = n /\ 1 < n
          BY <1>3, <3>2
        <4>2. g[n - 1] = e[n] - d /\ d < e[n]
          BY <1>3, <1>9, <1>17, <2>1, <4>1
        <4>3. Start(g, n) = (e[n] - d) + 1
          BY <3>2, <4>2 DEF Start
        <4>4. e[n] \in Int /\ d \in Int /\ e[n] > d
          BY <1>2, <1>5, <2>2, <4>2
        <4> QED
          BY <2>2, <4>3, <4>4
      <3> QED
        BY <3>1, <3>2
    <2> DEFINE x == Start(g, n)
               y == g[n] - 1
    <2>4. y = (e[n + 1] - d) - 1
      BY <2>8
    <2>9. /\ y \in Nat /\ y <= Len(b) - d
          /\ d + y = e[n + 1] - 1 /\ d + x = Start(e, n + 1)
      <3> DEFINE a == e[n + 1]
                 k == Len(b)
                 z == Start(e, n + 1)
      <3>1. a \in 1 .. k /\ k \in Nat /\ d \in 1 .. k /\ d < a /\ z \in Int /\ y = (a - d) - 1
        BY <1>2, <1>5, <2>2, <2>4, <2>8
      <3>2. x = z - d
        BY <2>3
      <3> HIDE DEF a, k, z, x, y
      <3>3. y \in Nat /\ y <= k - d /\ d + y = a - 1 /\ d + x = z
        BY ONLY <3>1, <3>2
      <3> QED
        BY <3>3 DEF a, k, z
    <2>5. y \in Nat /\ y <= Len(b) - d
      BY <2>9
    <2>6. d + y = e[n + 1] - 1 /\ d + x = Start(e, n + 1)
      BY <2>9
    <2>7. SubSeq(rest, x, y) = SubSeq(b, d + x, d + y)
      <3> HIDE DEF x, y
      <3>1. x \in Nat /\ x >= 1
        BY <2>3 DEF x
      <3> QED
        BY <1>6, <2>5, <3>1
    <2> QED
      BY <2>6, <2>7
  <1>13. \A n \in 1 .. N : piece(n) \in Seq(Nat)
    <2> TAKE n \in 1 .. N
    <2>1. e[n] \in 1 .. Len(b) /\ Start(e, n) \in Nat /\ Start(e, n) >= 1
      BY <1>11
    <2> DEFINE x == Start(e, n)
               y == e[n] - 1
    <2>2. x \in Nat /\ x >= 1 /\ y \in Nat /\ y <= Len(b)
      BY <1>2, <2>1
    <2>3. SubSeq(b, x, y) \in Seq(Nat)
      <3> HIDE DEF x, y
      <3>1. x \in Int /\ y \in Int /\ \A i \in x .. y : i \in 1 .. Len(b)
        BY <1>2, <2>2
      <3>2. \A i \in x .. y : b[i] \in Nat
        BY <1>2, <3>1
      <3> QED
        BY ONLY <3>1, <3>2, SubSeqProperties
    <2> QED
      BY <2>3
  <1>14. piece(1) = SubSeq(b, 1, d - 1)
    BY <1>17 DEF Start
  <1> HIDE DEF piece, back
  <1> DEFINE s == Split(b)
  <1>15. s \in Seq(Seq(Nat)) /\ Len(s) = N /\ s[1] = piece(1) /\ s # <<>> /\ \A n \in 1 .. N : s[n] = piece(n)
    <2>1. s \in [1 .. N -> Seq(Nat)] /\ \A n \in 1 .. N : s[n] = piece(n)
      BY <1>8, <1>13
    <2> HIDE DEF s
    <2>2. s \in Seq(Seq(Nat)) /\ Len(s) = N
      BY <1>3, <2>1
    <2> QED
      BY <1>3, <1>17, <2>1, <2>2
  <1>16. Split(rest) = Tail(s)
    <2> HIDE DEF s
    <2>3. Tail(s) \in Seq(Seq(Nat)) /\ Len(Tail(s)) = N - 1 /\ \A n \in 1 .. N - 1 : Tail(s)[n] = s[n + 1]
      BY ONLY <1>15, HeadTailProperties
    <2>1. Tail(s) = [n \in 1 .. N - 1 |-> s[n + 1]]
      <3> DEFINE t == Tail(s)
      <3>1. t \in Seq(Seq(Nat)) /\ Len(t) = N - 1 /\ \A n \in 1 .. N - 1 : t[n] = s[n + 1]
        BY <2>3
      <3> HIDE DEF t
      <3>2. t = [n \in 1 .. N - 1 |-> s[n + 1]]
        BY <3>1
      <3> QED
        BY <3>2 DEF t
    <2>2. \A n \in 1 .. N - 1 : s[n + 1] = piece(n + 1)
      BY <1>3, <1>15
    <2> QED
      BY <1>10, <1>12, <2>1, <2>2
  <1>18. \A i \in 1 .. d - 1 : b[i] # Delimiter
    <2> SUFFICES ASSUME NEW i \in 1 .. d - 1, b[i] = Delimiter PROVE FALSE
      OBVIOUS
    <2>1. i \in Ends(b) /\ i \in Nat /\ i < d /\ d \in Nat
      BY <1>2, <1>4, <1>5
    <2>2. PICK j \in 1 .. N : e[j] = i
      BY <1>3, <2>1
    <2>3. j = 1 \/ 1 < j
      BY <1>3
    <2>4. i = d \/ d < i
      BY <1>3, <1>17, <2>2, <2>3
    <2> QED
      BY <2>1, <2>4
  <1>19. b[d] = Delimiter
    BY <1>3, <1>4, <1>17
  <1> QED
    BY <1>5, <1>7, <1>14, <1>15, <1>16, <1>18, <1>19 DEF rest, Firsts

(* How many bytes are in a ring, and where the i-th of them is             *)
Amount(r) ==
  IF r.front = -1 THEN 0 ELSE IF r.front >= r.rear THEN r.front - r.rear + 1 ELSE r.front - r.rear + 1 + Size
Spot(rear, i) == IF rear + i - 1 < Size THEN rear + i - 1 ELSE rear + i - 1 - Size

(* Contents, and where each of its bytes is in the ring                    *)
LEMMA ContentsFacts ==
  ASSUME NEW r, Orderly(r)
  PROVE  /\ Contents(r) \in Seq(Nat)
         /\ Len(Contents(r)) = Amount(r)
         /\ Amount(r) \in 0 .. Size /\ Amount(r) + Room(r) = Size
         /\ Amount(r) = 0 <=> Isempty(r)
         /\ ~Isempty(r) => r.rear \in Index /\ r.front = Spot(r.rear, Amount(r))
         /\ \A i \in 1 .. Amount(r) :
              Spot(r.rear, i) \in Index /\ Contents(r)[i] = r.bytes[Spot(r.rear, i)]
  <1>1. /\ r \in Rings /\ r.bytes \in [Index -> Nat] /\ r.front \in Int /\ r.rear \in Int
        /\ r.front >= -1 /\ r.rear >= -1 /\ r.front < Size /\ r.rear < Size /\ Size \in Nat \ {0, 1}
        /\ (r.front = -1 <=> r.rear = -1)
    BY RingParts DEF Orderly
  <1> DEFINE n == IF r.front = -1 THEN 0 ELSE ((r.front - r.rear) % Size) + 1
             A == Amount(r)
             place(i) == (r.rear + i - 1) % Size
  <1>2. n = A /\ A \in 0 .. Size /\ (A = 0 <=> Isempty(r)) /\ A + Room(r) = Size
    <2>1. CASE r.front = -1
      <3>1. Isempty(r) /\ n = 0 /\ A = 0
        BY <1>1, <2>1 DEF Isempty, Amount
      <3> QED
        BY <1>1, <3>1, RoomFacts
    <2>2. CASE r.front # -1
      <3> DEFINE x == r.front - r.rear
      <3>1. x \in Int /\ -Size <= x /\ x < 2 * Size /\ x > -Size /\ x < Size
        BY <1>1, <2>2
      <3>2. x % Size = IF x < 0 THEN x + Size ELSE IF x < Size THEN x ELSE x - Size
        BY <3>1, Wrapped
      <3>3. n = (x % Size) + 1
        BY <2>2
      <3>4. A = IF x >= 0 THEN x + 1 ELSE x + 1 + Size
        BY <1>1, <2>2 DEF Amount
      <3>5. Room(r) = IF r.rear > r.front THEN r.rear - r.front - 1 ELSE r.rear - r.front - 1 + Size
        BY <1>1, <2>2, RoomFacts DEF Orderly, Isempty
      <3>6. Room(r) = IF x < 0 THEN 0 - x - 1 ELSE 0 - x - 1 + Size
        BY <1>1, <3>5
      <3>7. ~Isempty(r)
        BY <2>2 DEF Isempty
      <3> HIDE DEF x, n, A
      <3> QED
        BY <1>1, <3>1, <3>2, <3>3, <3>4, <3>6, <3>7
    <2> QED
      BY <2>1, <2>2
  <1>3. ASSUME NEW i \in 1 .. A
        PROVE  place(i) = Spot(r.rear, i) /\ place(i) \in Index
    <2> DEFINE x == r.rear + i - 1
    <2>1. r.front # -1 /\ r.rear >= 0
      BY <1>1, <1>2 DEF Isempty
    <2>2. x \in Int /\ x >= 0 /\ -Size <= x /\ x < 2 * Size
      BY <1>1, <1>2, <2>1
    <2>3. x % Size = IF x < 0 THEN x + Size ELSE IF x < Size THEN x ELSE x - Size
      BY <2>2, Wrapped
    <2>4. x % Size \in Index
      BY <2>2, InRing
    <2>6. place(i) = x % Size
      OBVIOUS
    <2>7. x = r.rear + i - 1
      OBVIOUS
    <2> HIDE DEF x, place
    <2>5. Spot(r.rear, i) = IF x < Size THEN x ELSE x - Size
      <3> DEFINE y == r.rear
      <3>1. y \in Int /\ i \in Int /\ Size \in Int /\ x = y + i - 1
        BY <1>1, <1>2, <2>1, <2>7
      <3> HIDE DEF y
      <3>2. Spot(y, i) = IF x < Size THEN x ELSE x - Size
        BY ONLY <3>1 DEF Spot
      <3> QED
        BY <3>2 DEF y
    <2> QED
      BY <2>2, <2>3, <2>4, <2>5, <2>6
  <1>4. Contents(r) = [i \in 1 .. n |-> r.bytes[place(i)]]
    BY DEF Contents
  <1> HIDE DEF n, A, place
  <1>5. Contents(r) \in [1 .. A -> Nat]
    BY <1>1, <1>2, <1>3, <1>4
  <1>6. Contents(r) \in Seq(Nat) /\ Len(Contents(r)) = A
    BY <1>2, <1>5
  <1>7. ASSUME ~Isempty(r) PROVE r.rear \in Index /\ r.front = Spot(r.rear, A)
    <2>1. r.front >= 0 /\ r.rear >= 0 /\ r.front # -1
      BY <1>1, <1>7 DEF Isempty
    <2>2. A = IF r.front >= r.rear THEN r.front - r.rear + 1 ELSE r.front - r.rear + 1 + Size
      BY <2>1 DEF A, Amount
    <2>3. r.rear + A - 1 = IF r.front >= r.rear THEN r.front ELSE r.front + Size
      BY <1>1, <2>1, <2>2
    <2> DEFINE x == r.rear + A - 1
    <2>4. r.front = IF x < Size THEN x ELSE x - Size
      <3> HIDE DEF x
      <3>1. x = IF r.front >= r.rear THEN r.front ELSE r.front + Size
        BY <2>3 DEF x
      <3> QED
        BY <1>1, <2>1, <3>1
    <2>5. r.front = Spot(r.rear, A)
      <3> DEFINE y == r.rear
                 f == r.front
      <3>1. y \in Int /\ A \in Int /\ Size \in Int /\ f = IF y + A - 1 < Size THEN y + A - 1 ELSE y + A - 1 - Size
        BY <1>1, <1>2, <2>4
      <3> HIDE DEF y, f
      <3>2. f = Spot(y, A)
        BY ONLY <3>1 DEF Spot
      <3> QED
        BY <3>2 DEF y, f
    <2> QED
      BY <1>1, <2>1, <2>5 DEF Index
  <1>8. \A i \in 1 .. A : Spot(r.rear, i) \in Index /\ Contents(r)[i] = r.bytes[Spot(r.rear, i)]
    BY <1>2, <1>3, <1>4
  <1> QED
    BY <1>2, <1>6, <1>7, <1>8 DEF A

(* A sequence behind another                                               *)
LEMMA ConcatIs ==
  ASSUME NEW S, NEW a \in Seq(S), NEW b \in Seq(S), NEW c \in Seq(S),
         Len(c) = Len(a) + Len(b),
         \A i \in 1 .. Len(a) : c[i] = a[i],
         \A i \in 1 .. Len(b) : c[Len(a) + i] = b[i]
  PROVE  c = a \o b
  <1> DEFINE d == a \o b
  <1>1. Len(a) \in Nat /\ Len(b) \in Nat
    OBVIOUS
  <1>2. d \in Seq(S) /\ Len(d) = Len(a) + Len(b)
    OBVIOUS
  <1>3. \A i \in 1 .. Len(a) + Len(b) : d[i] = IF i <= Len(a) THEN a[i] ELSE b[i - Len(a)]
    OBVIOUS
  <1> HIDE DEF d
  <1>4. \A i \in 1 .. Len(a) + Len(b) : d[i] = c[i]
    <2> TAKE i \in 1 .. Len(a) + Len(b)
    <2>1. CASE i <= Len(a)
      <3>1. i \in 1 .. Len(a)
        BY <1>1, <2>1
      <3> QED
        BY <1>3, <2>1, <3>1
    <2>2. CASE ~(i <= Len(a))
      <3>1. i - Len(a) \in 1 .. Len(b) /\ Len(a) + (i - Len(a)) = i
        BY <1>1, <2>2
      <3>2. c[Len(a) + (i - Len(a))] = b[i - Len(a)]
        BY <3>1
      <3> QED
        BY <1>3, <2>2, <3>1, <3>2
    <2> QED
      BY <2>1, <2>2
  <1>5. c = d
    BY <1>2, <1>4
  <1> QED
    BY <1>5 DEF d

(* What fits is behind what was there.                                     *)
LEMMA ContentsWritten ==
  ASSUME NEW r, Orderly(r), NEW data \in Seq(Nat), Len(data) <= Room(r)
  PROVE  Contents(write_to_buffer(r, data)) = Contents(r) \o data
  <1> DEFINE w == write_to_buffer(r, data)
             n == Len(data)
             A == Amount(r)
             rear == w.rear
  <1>1. /\ r \in Rings /\ r.bytes \in [Index -> Nat] /\ r.front \in Int /\ r.rear \in Int
        /\ r.front >= -1 /\ r.rear >= -1 /\ r.front < Size /\ r.rear < Size /\ Size \in Nat \ {0, 1}
        /\ (r.front = -1 <=> r.rear = -1) /\ n \in Nat
    BY RingParts DEF Orderly
  <1>2. /\ Contents(r) \in Seq(Nat) /\ Len(Contents(r)) = A /\ A \in 0 .. Size /\ A + Room(r) = Size
        /\ A = 0 <=> Isempty(r)
        /\ ~Isempty(r) => r.rear \in Index /\ r.front = Spot(r.rear, A)
        /\ \A i \in 1 .. A : Contents(r)[i] = r.bytes[Spot(r.rear, i)]
    BY ContentsFacts
  <1>3. Room(r) \in Nat
    BY <1>1, RoomFacts
  <1>4. CASE n = 0
    <2>1. w = r
      BY <1>1, <1>4, WriteFacts
    <2>2. data = <<>>
      BY <1>4
    <2> QED
      BY <1>2, <2>1, <2>2
  <1>5. CASE n # 0
    <2>1. /\ w.front = (r.front + n) % Size
          /\ w.rear = IF Isempty(r) THEN 0 ELSE r.rear
          /\ \A i \in Index :
               LET k == ((i - r.front - 1) % Size) + 1
               IN w.bytes[i] = IF k <= n THEN data[k] ELSE r.bytes[i]
      BY <1>1, <1>5, WriteFacts
    <2>2. Orderly(w) /\ Room(w) = Room(r) - n
      BY WriteTakesRoom
    <2>3. /\ Contents(w) \in Seq(Nat) /\ Len(Contents(w)) = Amount(w) /\ Amount(w) + Room(w) = Size
          /\ Amount(w) \in 0 .. Size
          /\ \A i \in 1 .. Amount(w) : Spot(w.rear, i) \in Index /\ Contents(w)[i] = w.bytes[Spot(w.rear, i)]
      BY <2>2, ContentsFacts
    <2>4. n <= Room(r)
      OBVIOUS
    <2> HIDE DEF w, n, A
    <2>5. Amount(w) = A + n
      <3> DEFINE x == Room(r)
                 y == Room(w)
                 z == Amount(w)
      <3>1. x \in Nat /\ A \in Nat /\ z \in Nat /\ A + x = Size /\ y = x - n /\ z + y = Size
        BY <1>1, <1>2, <1>3, <2>2, <2>3
      <3> HIDE DEF x, y, z
      <3>2. z = A + n
        BY <1>1, <3>1
      <3> QED
        BY <3>2 DEF z
    <2>6. rear \in Index /\ rear \in Nat /\ rear < Size /\ r.front \in {Spot(rear, A), rear + A - 1}
      <3>1. CASE Isempty(r)
        BY <1>1, <1>2, <2>1, <3>1 DEF Isempty, Index
      <3>2. CASE ~Isempty(r)
        BY <1>1, <1>2, <2>1, <3>2 DEF Index
      <3> QED
        BY <3>1, <3>2
    <2>7. rear = w.rear
      OBVIOUS
    <2> HIDE DEF rear
    <2>8. A \in Nat /\ A + n <= Size /\ A <= Size
      BY <1>1, <1>2, <1>3, <2>4
    <2>9. ASSUME NEW i \in 1 .. A + n
          PROVE  w.bytes[Spot(rear, i)] = IF i > A THEN data[i - A] ELSE r.bytes[Spot(rear, i)]
      <3> DEFINE p == Spot(rear, i)
                 x == p - r.front - 1
                 k == (x % Size) + 1
      <3>1. p \in Index
        BY <2>3, <2>5, <2>7
      <3>2. w.bytes[p] = IF k <= n THEN data[k] ELSE r.bytes[p]
        BY <2>1, <3>1
      <3>3. i \in Nat /\ i >= 1 /\ i <= A + n
        BY <1>1, <2>8
      <3>4. x \in {i - A - 1, i - A - 1 + Size, i - A - 1 - Size}
        <4>1. p = rear + i - 1 \/ p = rear + i - 1 - Size
          BY DEF Spot
        <4>2. r.front = rear + A - 1 \/ r.front = rear + A - 1 - Size
          BY <2>6 DEF Spot
        <4>3. p \in Int
          BY <3>1, RingAssumption DEF Index
        <4>4. x = p - r.front - 1
          OBVIOUS
        <4> DEFINE f == r.front
        <4>5. f \in Int /\ rear \in Int /\ A \in Int /\ i \in Int /\ p \in Int /\ Size \in Int
          BY <1>1, <2>6, <2>8, <3>3, <4>3
        <4>6. x = p - f - 1 /\ (p = rear + i - 1 \/ p = rear + i - 1 - Size) /\ (f = rear + A - 1 \/ f = rear + A - 1 - Size)
          BY <4>1, <4>2, <4>4
        <4> HIDE DEF p, x, f
        <4>7. x = i - A - 1 \/ x = i - A - 1 + Size \/ x = i - A - 1 - Size
          BY ONLY <4>5, <4>6
        <4> QED
          BY <4>7
      <3>5. x \in Int /\ -Size <= x /\ x < Size
        <4>1. p \in Int /\ p >= 0 /\ p < Size
          BY <3>1, RingAssumption DEF Index
        <4>2. x = p - r.front - 1
          OBVIOUS
        <4> HIDE DEF p, x
        <4> QED
          BY <1>1, <4>1, <4>2
      <3>6. x % Size = IF x < 0 THEN x + Size ELSE IF x < Size THEN x ELSE x - Size
        <4>1. x < 2 * Size
          BY <1>1, <3>5
        <4> HIDE DEF x
        <4> QED
          BY <3>5, <4>1, Wrapped
      <3>7. k = IF x < 0 THEN x + Size + 1 ELSE x + 1
        <4>1. k = (x % Size) + 1
          OBVIOUS
        <4> HIDE DEF x, k
        <4> QED
          BY <1>1, <3>5, <3>6, <4>1
      <3> HIDE DEF p, x, k
      <3>8. CASE i > A
        <4>1. k = i - A
          BY <1>1, <2>8, <3>3, <3>4, <3>5, <3>7, <3>8
        <4>2. k <= n
          BY <1>1, <2>8, <3>3, <4>1
        <4> QED
          BY <3>2, <3>8, <4>1, <4>2 DEF p
      <3>9. CASE ~(i > A)
        <4>1. k = i - A + Size
          BY <1>1, <2>8, <3>3, <3>4, <3>5, <3>7, <3>9
        <4>2. ~(k <= n)
          BY <1>1, <2>8, <3>3, <4>1
        <4> QED
          BY <3>2, <3>9, <4>2 DEF p
      <3> QED
        BY <3>8, <3>9
    <2>10. \A i \in 1 .. A : Contents(w)[i] = Contents(r)[i]
      <3> TAKE i \in 1 .. A
      <3>1. i \in 1 .. A + n /\ ~(i > A) /\ ~Isempty(r)
        BY <1>1, <1>2, <2>8
      <3>2. rear = r.rear
        BY <2>1, <2>7, <3>1
      <3> QED
        BY <1>2, <2>3, <2>5, <2>7, <2>9, <3>1, <3>2
    <2>11. \A i \in 1 .. n : Contents(w)[A + i] = data[i]
      <3> TAKE i \in 1 .. n
      <3>1. A + i \in 1 .. A + n /\ A + i > A /\ (A + i) - A = i
        BY <1>1, <2>8
      <3> QED
        BY <2>3, <2>5, <2>7, <2>9, <3>1
    <2>12. Contents(w) = Contents(r) \o data
      <3>1. data \in Seq(Nat) /\ n = Len(data)
        BY DEF n
      <3>2. /\ Contents(r) \in Seq(Nat) /\ Contents(w) \in Seq(Nat)
            /\ Len(Contents(w)) = Len(Contents(r)) + Len(data)
            /\ \A i \in 1 .. Len(Contents(r)) : Contents(w)[i] = Contents(r)[i]
            /\ \A i \in 1 .. Len(data) : Contents(w)[Len(Contents(r)) + i] = data[i]
        BY <1>2, <2>3, <2>5, <2>10, <2>11, <3>1
      <3> QED
        BY ONLY <3>1, <3>2, ConcatIs
    <2> QED
      BY <2>12 DEF w
  <1> QED
    BY <1>4, <1>5

(* g joins the members of s, one after the other.                          *)
Joins(g, s) == g[0] = <<>> /\ \A n \in 1 .. Len(s) : g[n] = g[n - 1] \o s[n]

(* There is such a function for every sequence of sequences.               *)
LEMMA JoinsExists ==
  ASSUME NEW S, NEW s \in Seq(Seq(S))
  PROVE  \E g \in [0 .. Len(s) -> Seq(S)] : Joins(g, s)
  <1> DEFINE N == Len(s)
             F == [n \in 1 .. N |-> [x \in Seq(S) |-> x \o s[n]]]
  <1>1. N \in Nat /\ <<>> \in Seq(S) /\ \A n \in 1 .. N : s[n] \in Seq(S)
    OBVIOUS
  <1>2. \A n \in 1 .. N : F[n] \in [Seq(S) -> Seq(S)]
    BY <1>1
  <1>3. \A n \in 1 .. N, x \in Seq(S) : F[n][x] = x \o s[n]
    OBVIOUS
  <1> HIDE DEF F
  <1>4. PICK g \in [0 .. N -> Seq(S)] : Counted(g, N, <<>>, F)
    <2> HIDE DEF N
    <2> QED
      BY <1>1, <1>2, CountedExists
  <1>5. \A n \in 0 .. N : g[n] = IF n = 0 THEN <<>> ELSE F[n][g[n - 1]]
    BY <1>4 DEF Counted
  <1>6. \A n \in 1 .. N : n \in 0 .. N /\ n # 0 /\ n - 1 \in 0 .. N
    BY <1>1
  <1>7. \A n \in 1 .. N : g[n] = g[n - 1] \o s[n]
    BY <1>3, <1>4, <1>5, <1>6
  <1>8. g[0] = <<>>
    <2>1. 0 \in 0 .. N
      BY <1>1
    <2>2. g[0] = IF 0 = 0 THEN <<>> ELSE F[0][g[0 - 1]]
      BY <1>5, <2>1
    <2> QED
      BY <2>2
  <1> QED
    BY <1>4, <1>7, <1>8 DEF Joins

(* It ends with what FlattenSeq makes of them.                             *)
LEMMA JoinsFlat ==
  ASSUME NEW S, NEW s \in Seq(Seq(S)), NEW g, Joins(g, s)
  PROVE  FlattenSeq(s) = g[Len(s)]
  <1> DEFINE N == Len(s)
             Is(f) == f = [i \in 1 .. N |-> IF i = 1 THEN s[i] ELSE f[i - 1] \o s[i]]
             h == CHOOSE f : Is(f)
             f0 == [i \in 1 .. N |-> g[i]]
  <1>1. N \in Nat
    OBVIOUS
  <1>2. CASE N = 0
    BY <1>2 DEF FlattenSeq, Joins
  <1>3. CASE N # 0
    <2>1. FlattenSeq(s) = h[N]
      BY <1>3 DEF FlattenSeq
    <2>2. \A n \in 1 .. N : g[n] = IF n = 1 THEN s[n] ELSE g[n - 1] \o s[n]
      <3> TAKE n \in 1 .. N
      <3>4. s[n] \in Seq(S)
        OBVIOUS
      <3>5. g[n] = g[n - 1] \o s[n]
        BY DEF Joins
      <3>1. g[n] = g[n - 1] \o s[n] /\ s[n] \in Seq(S)
        BY <3>4, <3>5
      <3>2. CASE n = 1
        <4>1. g[n - 1] = <<>>
          BY <3>2 DEF Joins
        <4>2. <<>> \o s[n] = s[n]
          BY <3>1
        <4> QED
          BY <3>1, <3>2, <4>1, <4>2
      <3>3. CASE n # 1
        BY <3>1, <3>3
      <3> QED
        BY <3>2, <3>3
    <2>3. \A n \in 1 .. N : n # 1 => n - 1 \in 1 .. N
      BY <1>1
    <2>4. \A n \in 1 .. N : f0[n] = g[n]
      OBVIOUS
    <2>5. f0 = [i \in 1 .. N |-> f0[i]]
      OBVIOUS
    <2>8. N = Len(s)
      OBVIOUS
    <2> HIDE DEF f0, N
    <2>6. Is(f0)
      <3> DEFINE E(i) == IF i = 1 THEN s[i] ELSE f0[i - 1] \o s[i]
      <3>1. \A i \in 1 .. N : f0[i] = E(i)
        BY <2>2, <2>3, <2>4
      <3> HIDE DEF E
      <3>2. f0 = [i \in 1 .. N |-> E(i)]
        BY <2>5, <3>1
      <3> QED
        BY <3>2 DEF E
    <2>7. Is(h)
      <3> HIDE DEF Is
      <3> QED
        BY <2>6
    <2> HIDE DEF h
    <2>9. \A n \in 1 .. N : h[n] = IF n = 1 THEN s[n] ELSE h[n - 1] \o s[n]
      BY <2>7
    <2> DEFINE T == {n \in 0 .. N : n = 0 \/ h[n] = g[n]}
    <2>10. 0 .. N \subseteq T
      <3>1. 0 \in T
        BY <1>1
      <3>2. ASSUME NEW n \in 0 .. N, n # N, n \in T PROVE n + 1 \in T
        <4>1. n + 1 \in 1 .. N /\ n + 1 \in 0 .. N /\ (n + 1) - 1 = n /\ (n + 1 = 1 <=> n = 0)
          BY <1>1, <3>2
        <4>2. CASE n = 0
          BY <2>2, <2>9, <4>1, <4>2
        <4>3. CASE n # 0
          <5>1. h[n] = g[n]
            BY <3>2, <4>3
          <5> QED
            BY <2>2, <2>9, <4>1, <4>3, <5>1
        <4> QED
          BY <4>2, <4>3
      <3> HIDE DEF T
      <3> QED
        BY <1>1, <3>1, <3>2, CountUp
    <2>11. h[N] = g[N]
      BY <1>1, <1>3, <2>10
    <2> QED
      BY <2>1, <2>8, <2>11
  <1> QED
    BY <1>2, <1>3

(* Joining one more                                                        *)
LEMMA FlattenMore ==
  ASSUME NEW S, NEW s \in Seq(Seq(S))
  PROVE  /\ FlattenSeq(SubSeq(s, 1, 0)) = <<>>
         /\ \A k \in 0 .. Len(s) :
              /\ FlattenSeq(SubSeq(s, 1, k)) \in Seq(S)
              /\ k # Len(s) => FlattenSeq(SubSeq(s, 1, k + 1)) = FlattenSeq(SubSeq(s, 1, k)) \o s[k + 1]
  <1>1. PICK g \in [0 .. Len(s) -> Seq(S)] : Joins(g, s)
    BY JoinsExists
  <1>2. Len(s) \in Nat
    OBVIOUS
  <1>3. ASSUME NEW k \in 0 .. Len(s) PROVE FlattenSeq(SubSeq(s, 1, k)) = g[k]
    <2> DEFINE t == SubSeq(s, 1, k)
    <2>1. k \in Nat /\ \A i \in 1 .. k : s[i] \in Seq(S)
      BY <1>2
    <2>2. t \in Seq(Seq(S)) /\ Len(t) = k /\ \A i \in 1 .. k : t[i] = s[i]
      BY <1>2
    <2> HIDE DEF t
    <2>3. \A i \in 1 .. k : i \in 1 .. Len(s)
      BY <1>2, <2>1
    <2>4. Joins(g, t)
      BY <1>1, <2>2, <2>3 DEF Joins
    <2>5. FlattenSeq(t) = g[k]
      BY <2>2, <2>4, JoinsFlat
    <2> QED
      BY <2>5 DEF t
  <1>4. FlattenSeq(SubSeq(s, 1, 0)) = <<>>
    <2>1. 0 \in 0 .. Len(s) /\ g[0] = <<>>
      BY <1>1, <1>2 DEF Joins
    <2> QED
      BY <1>3, <2>1
  <1>5. ASSUME NEW k \in 0 .. Len(s), k # Len(s)
        PROVE  FlattenSeq(SubSeq(s, 1, k + 1)) = FlattenSeq(SubSeq(s, 1, k)) \o s[k + 1]
    <2>1. k + 1 \in 0 .. Len(s) /\ k + 1 \in 1 .. Len(s) /\ (k + 1) - 1 = k
      BY <1>2, <1>5
    <2>2. g[k + 1] = g[k] \o s[k + 1]
      BY <1>1, <2>1 DEF Joins
    <2>3. FlattenSeq(SubSeq(s, 1, k + 1)) = g[k + 1]
      BY <1>3, <2>1
    <2> QED
      BY <1>3, <2>2, <2>3
  <1>6. \A k \in 0 .. Len(s) : FlattenSeq(SubSeq(s, 1, k)) \in Seq(S)
    BY <1>1, <1>3
  <1> QED
    BY <1>4, <1>5, <1>6

(* Bytes in three parts, either way                                        *)
LEMMA BytesAssociative ==
  ASSUME NEW a \in Seq(Nat), NEW b \in Seq(Nat), NEW c \in Seq(Nat)
  PROVE  (a \o b) \o c = a \o (b \o c)
  BY ConcatAssociative

(* What is in the ring with a record written                               *)
LEMMA RecordWritten ==
  ASSUME NEW r, Orderly(r), NEW words \in Seq(Nat), Whole(r, words)
  PROVE  /\ Contents(WriteRecord(r, words)) = (Contents(r) \o Flat(words)) \o <<Delimiter>>
         /\ Flat(words) \in Seq(Nat)
  <1> DEFINE pieces == Record(words)
             body == [i \in DOMAIN words |-> Word(words[i])]
             N == Len(words)
             w == Written(r, pieces)
  <1>1. r \in Rings /\ N \in Nat /\ WordSize \in Nat /\ Room(r) \in Nat
    BY RingAssumption, RoomFacts DEF Orderly
  <1>2. /\ pieces \in Seq(Seq(Nat)) /\ Len(pieces) = N + 1 /\ pieces[N + 1] = <<Delimiter>>
        /\ \A n \in 1 .. N : Len(pieces[n]) = WordSize
    BY RecordPieces
  <1>3. body \in Seq(Seq(Nat)) /\ Len(body) = N
    <2>1. \A i \in 1 .. N : words[i] \in Nat
      OBVIOUS
    <2>2. \A i \in 1 .. N : Word(words[i]) \in Seq(Nat)
      BY <2>1, WordBytes
    <2>3. DOMAIN words = 1 .. N
      OBVIOUS
    <2>4. body \in [1 .. N -> Seq(Nat)]
      BY <2>2, <2>3
    <2> HIDE DEF body, N
    <2> QED
      BY <1>1, <2>4
  <1>4. \A n \in 1 .. N : pieces[n] = body[n]
    <2>1. pieces = Append(body, <<Delimiter>>)
      BY DEF Record
    <2>2. <<Delimiter>> \in Seq(Nat)
      BY DEF Delimiter
    <2> HIDE DEF body, N, pieces
    <2> QED
      BY <1>3, <2>1, <2>2, AppendProperties
  <1>5. /\ \A n \in 0 .. N : Orderly(w[n]) /\ Room(w[n]) = Room(r) - n * WordSize
    BY WordsTakeRoom
  <1>6. w[0] = r /\ \A n \in 1 .. N + 1 : w[n] = write_to_buffer(w[n - 1], pieces[n])
    <2> HIDE DEF pieces, N
    <2>1. w[0] = r /\ \A n \in 1 .. Len(pieces) : w[n] = write_to_buffer(w[n - 1], pieces[n])
      BY <1>1, <1>2, WrittenFacts
    <2> QED
      BY ONLY <1>2, <2>1
  <1>7. PICK g \in [0 .. N -> Seq(Nat)] : Joins(g, body)
    BY <1>3, JoinsExists
  <1>8. N * WordSize + 1 <= Room(r)
    BY DEF Whole
  <1>9. WriteRecord(r, words) = w[N + 1]
    BY DEF WriteRecord
  <1>10. Flat(words) = FlattenSeq(body)
    BY DEF Flat
  <1> HIDE DEF pieces, body, N, w
  <1>11. Flat(words) = g[N] /\ g[N] \in Seq(Nat)
    <2>1. FlattenSeq(body) = g[Len(body)]
      BY <1>3, <1>7, JoinsFlat
    <2> QED
      BY <1>1, <1>3, <1>7, <1>10, <2>1
  <1>12. Contents(r) \in Seq(Nat)
    BY ContentsFacts
  <1>13. ASSUME NEW n \in 0 .. N
         PROVE  n * WordSize \in Nat /\ n * WordSize <= N * WordSize
                /\ (n # N => n * WordSize + WordSize <= N * WordSize)
    <2>1. n \in Nat /\ n <= N
      BY <1>1
    <2>2. PICK k \in Nat : N = n + k
      BY <1>1, <2>1
    <2>3. N * WordSize = n * WordSize + k * WordSize /\ n * WordSize \in Nat /\ k * WordSize \in Nat
      BY <1>1, <2>1, <2>2
    <2>4. k # 0 => k * WordSize >= WordSize
      <3> SUFFICES ASSUME k # 0 PROVE k * WordSize >= WordSize
        OBVIOUS
      <3>1. PICK m \in Nat : k = m + 1
        <4>1. k - 1 \in Nat /\ k = (k - 1) + 1
          OBVIOUS
        <4> QED
          BY <4>1
      <3>2. k * WordSize = m * WordSize + WordSize /\ m * WordSize \in Nat
        BY <1>1, <3>1
      <3> QED
        BY <1>1, <3>2
    <2> DEFINE x == n * WordSize
               y == N * WordSize
               z == k * WordSize
    <2>5. x \in Nat /\ z \in Nat /\ y = x + z /\ (k # 0 => z >= WordSize) /\ (n # N => k # 0)
      BY <2>1, <2>2, <2>3, <2>4
    <2> HIDE DEF x, y, z
    <2>6. x <= y /\ (n # N => x + WordSize <= y)
      BY <1>1, <2>5
    <2> QED
      BY <2>5, <2>6 DEF x, y
  <1> DEFINE T == {n \in 0 .. N : Contents(w[n]) = Contents(r) \o g[n]}
  <1>14. 0 .. N \subseteq T
    <2>1. 0 \in T
      <3>1. g[0] = <<>> /\ 0 \in 0 .. N
        BY <1>1, <1>7 DEF Joins
      <3>2. Contents(r) \o <<>> = Contents(r)
        BY <1>12
      <3> QED
        BY <1>6, <3>1, <3>2
    <2>2. ASSUME NEW n \in 0 .. N, n # N, n \in T PROVE n + 1 \in T
      <3>1. n + 1 \in 1 .. N /\ n + 1 \in 0 .. N /\ (n + 1) - 1 = n /\ n + 1 \in 1 .. N + 1
        BY <1>1, <2>2
      <3>2. Contents(w[n]) = Contents(r) \o g[n] /\ g[n] \in Seq(Nat)
        BY <1>7, <2>2
      <3>3. w[n + 1] = write_to_buffer(w[n], pieces[n + 1])
        BY <1>6, <3>1
      <3>4. pieces[n + 1] = body[n + 1] /\ body[n + 1] \in Seq(Nat) /\ Len(pieces[n + 1]) = WordSize
        BY <1>2, <1>3, <1>4, <3>1
      <3>5. Orderly(w[n]) /\ Room(w[n]) = Room(r) - n * WordSize
        BY <1>5
      <3>6. Len(pieces[n + 1]) <= Room(w[n])
        <4> DEFINE x == n * WordSize
                   y == N * WordSize
        <4>1. x \in Nat /\ x + WordSize <= y /\ y + 1 <= Room(r) /\ Room(w[n]) = Room(r) - x
          BY <1>8, <1>13, <2>2, <3>5
        <4>2. y \in Nat
          BY <1>1
        <4> HIDE DEF x, y
        <4> QED
          BY <1>1, <3>4, <4>1, <4>2
      <3>7. Contents(w[n + 1]) = Contents(w[n]) \o body[n + 1]
        BY <3>3, <3>4, <3>5, <3>6, ContentsWritten
      <3>8. g[n + 1] = g[n] \o body[n + 1]
        BY <1>3, <1>7, <3>1 DEF Joins
      <3>9. (Contents(r) \o g[n]) \o body[n + 1] = Contents(r) \o (g[n] \o body[n + 1])
        <4> DEFINE a == Contents(r)
                   x == g[n]
                   y == body[n + 1]
        <4>1. a \in Seq(Nat) /\ x \in Seq(Nat) /\ y \in Seq(Nat)
          BY <1>12, <3>2, <3>4
        <4> HIDE DEF a, x, y
        <4>2. (a \o x) \o y = a \o (x \o y)
          BY ONLY <4>1, BytesAssociative, Zenon
        <4> QED
          BY <4>2 DEF a, x, y
      <3> QED
        BY <3>1, <3>2, <3>7, <3>8, <3>9
    <2> HIDE DEF T
    <2> QED
      BY <1>1, <2>1, <2>2, CountUp
  <1>15. Contents(w[N]) = Contents(r) \o g[N]
    BY <1>1, <1>14
  <1>16. w[N + 1] = write_to_buffer(w[N], <<Delimiter>>)
    <2>1. N + 1 \in 1 .. N + 1 /\ (N + 1) - 1 = N
      BY <1>1
    <2> QED
      BY <1>2, <1>6, <2>1
  <1>17. Contents(w[N + 1]) = Contents(w[N]) \o <<Delimiter>>
    <2>1. Orderly(w[N]) /\ Room(w[N]) = Room(r) - N * WordSize
      BY <1>1, <1>5
    <2>2. <<Delimiter>> \in Seq(Nat) /\ Len(<<Delimiter>>) = 1
      BY DEF Delimiter
    <2>3. 1 <= Room(w[N])
      <3> DEFINE y == N * WordSize
      <3>1. y \in Nat /\ y + 1 <= Room(r) /\ Room(w[N]) = Room(r) - y
        BY <1>1, <1>8, <2>1
      <3> HIDE DEF y
      <3> QED
        BY <1>1, <3>1
    <2> DEFINE data == <<Delimiter>>
    <2>4. data \in Seq(Nat) /\ Len(data) <= Room(w[N])
      BY <2>2, <2>3
    <2> HIDE DEF data
    <2>5. Contents(write_to_buffer(w[N], data)) = Contents(w[N]) \o data
      BY <2>1, <2>4, ContentsWritten
    <2> QED
      BY <1>16, <2>5 DEF data
  <1> QED
    BY <1>9, <1>11, <1>15, <1>17

(* A reader with whole records to read                                     *)
Reading(s) ==
  /\ s \in Readers /\ s.state = "reads"
  /\ Orderly(RingOf(s)) /\ ~Isempty(RingOf(s))
  /\ Splittable(Contents(RingOf(s)))

(* What it reads in a turn: the first of the records                       *)
TakesFirst(s, t) ==
  LET recs == Split(Contents(RingOf(s)))
  IN /\ t \in Readers
     /\ t.out = s.out \o recs[1]
     /\ t.state = IF Isempty(RingOf(t)) THEN "stopped" ELSE "reads"
     /\ Orderly(RingOf(t))
     /\ Splittable(Contents(RingOf(t)))
     /\ recs # <<>> /\ recs \in Seq(Seq(Nat))
     /\ Split(Contents(RingOf(t))) = Tail(recs)

(* The parts of a reader                                                   *)
LEMMA ReaderParts ==
  ASSUME NEW s \in Readers
  PROVE  /\ s.bytes \in [Index -> Nat] /\ s.front \in Index \cup {-1} /\ s.rear \in Index \cup {-1}
         /\ s.out \in Seq(Nat)
         /\ RingOf(s) \in Rings
         /\ RingOf(s).bytes = s.bytes /\ RingOf(s).front = s.front /\ RingOf(s).rear = s.rear
  BY DEF Readers, RingOf, Rings

(* Where a turn finds the bytes of the ring                                *)
LEMMA PlacesAhead ==
  ASSUME NEW s, Reading(s), NEW before \in Nat, NEW j \in 1 .. Amount(RingOf(s))
  PROVE  /\ Pos(s, j - 1) = Spot(s.rear, j) /\ Pos(s, j - 1) \in Index
         /\ At(s, j - 1, before) = Contents(RingOf(s))[j]
         /\ j - 1 \in 0 .. Size
  <1> DEFINE r == RingOf(s)
             A == Amount(r)
  <1>1. s \in Readers /\ r.rear = s.rear /\ r.bytes = s.bytes
    BY ReaderParts DEF Reading
  <1>2. /\ A \in 0 .. Size /\ r.rear \in Index
        /\ \A i \in 1 .. A : Spot(r.rear, i) \in Index /\ Contents(r)[i] = r.bytes[Spot(r.rear, i)]
    BY ContentsFacts DEF Reading
  <1>3. Size \in Nat \ {0, 1} /\ s.rear \in Nat /\ s.rear < Size
    BY <1>1, <1>2, RingAssumption DEF Index
  <1>4. j \in Nat /\ j >= 1 /\ j <= Size /\ j - 1 \in 0 .. Size
    BY <1>2, <1>3
  <1> HIDE DEF r, A
  <1>5. Pos(s, j - 1) = Spot(s.rear, j)
    <2> DEFINE y == s.rear
    <2>1. y \in Nat /\ y < Size
      BY <1>3
    <2>2. Pos(s, j - 1) = IF j - 1 = 0 THEN y ELSE (y + (j - 1)) % Size
      BY DEF Pos
    <2> DEFINE x == y + (j - 1)
    <2>3. x \in Int /\ x >= 0 /\ -Size <= x /\ x < 2 * Size
      BY <1>3, <1>4, <2>1
    <2>4. x % Size = IF x < 0 THEN x + Size ELSE IF x < Size THEN x ELSE x - Size
      BY <2>3, Wrapped
    <2>5. x = y + j - 1 /\ (j - 1 = 0 => x = y)
      BY <1>4, <2>1
    <2>6. Pos(s, j - 1) = IF j - 1 = 0 THEN y ELSE x % Size
      BY <2>2
    <2> HIDE DEF x, y
    <2>7. Pos(s, j - 1) = IF x < Size THEN x ELSE x - Size
      BY <1>3, <1>4, <2>1, <2>3, <2>4, <2>5, <2>6
    <2>8. Spot(y, j) = IF x < Size THEN x ELSE x - Size
      BY ONLY <1>3, <1>4, <2>1, <2>5 DEF Spot
    <2> QED
      BY <2>7, <2>8 DEF y
  <1>6. Spot(s.rear, j) \in Index /\ Contents(r)[j] = s.bytes[Spot(s.rear, j)]
    BY <1>1, <1>2 DEF r, A
  <1>7. Pos(s, j - 1) # -1
    BY <1>5, <1>6, RingAssumption DEF Index
  <1> QED
    BY <1>4, <1>5, <1>6, <1>7 DEF At, r

(* The next spot, and spots from there                                     *)
LEMMA NextSpot ==
  ASSUME NEW rear \in Index, NEW A \in 1 .. Size, NEW d \in 1 .. A, d # A
  PROVE  /\ (Spot(rear, d) + 1) % Size = Spot(rear, d + 1)
         /\ Spot(rear, d + 1) \in Index
         /\ Spot(rear, d) # Spot(rear, A)
         /\ \A i \in 1 .. A - d : Spot(Spot(rear, d + 1), i) = Spot(rear, d + i)
         /\ LET f == Spot(rear, A)
                q == Spot(rear, d + 1)
            IN (IF f >= q THEN f - q + 1 ELSE f - q + 1 + Size) = A - d
  <1>1. Size \in Nat \ {0, 1} /\ rear \in Nat /\ rear < Size /\ A \in Nat /\ A <= Size /\ d \in Nat /\ d >= 1 /\ d < A
    BY RingAssumption DEF Index
  <1>2. Spot(rear, d + 1) \in Index
    BY <1>1 DEF Spot, Index
  <1>3. Spot(rear, d) # Spot(rear, A)
    BY <1>1 DEF Spot
  <1>4. (Spot(rear, d) + 1) % Size = Spot(rear, d + 1)
    <2> DEFINE x == Spot(rear, d) + 1
    <2>1. x \in Int /\ -Size <= x /\ x < 2 * Size /\ x >= 0
      BY <1>1 DEF Spot
    <2>2. x % Size = IF x < 0 THEN x + Size ELSE IF x < Size THEN x ELSE x - Size
      BY <2>1, Wrapped
    <2>3. Spot(rear, d + 1) = IF x < Size THEN x ELSE x - Size
      BY <1>1 DEF Spot
    <2> HIDE DEF x
    <2>4. x % Size = Spot(rear, d + 1)
      BY <1>1, <2>1, <2>2, <2>3
    <2> QED
      BY <2>4 DEF x
  <1>5. \A i \in 1 .. A - d : Spot(Spot(rear, d + 1), i) = Spot(rear, d + i)
    BY <1>1 DEF Spot
  <1>6. LET f == Spot(rear, A)
            q == Spot(rear, d + 1)
        IN (IF f >= q THEN f - q + 1 ELSE f - q + 1 + Size) = A - d
    BY <1>1 DEF Spot
  <1> QED
    BY <1>2, <1>3, <1>4, <1>5, <1>6

(* A turn of the loop reads the first record, and skips its delimiter.     *)
LEMMA TurnTakes ==
  ASSUME NEW s, Reading(s), NEW before \in Nat
  PROVE  TakesFirst(s, ReadTurn(s, before))
  <1> DEFINE t == ReadTurn(s, before)
             r == RingOf(s)
             q == RingOf(t)
             b == Contents(r)
             A == Amount(r)
             ends == EndsAhead(s, before)
             m == Min(ends)
             seen == [k \in 1 .. m |-> At(s, k - 1, before)]
             out == s.out \o seen
  <1>1. /\ s \in Readers /\ s.state = "reads" /\ Orderly(r) /\ ~Isempty(r) /\ Splittable(b)
        /\ r.rear = s.rear /\ r.front = s.front /\ r.bytes = s.bytes
    BY ReaderParts DEF Reading
  <1>2. /\ b \in Seq(Nat) /\ Len(b) = A /\ A \in 1 .. Size
        /\ s.rear \in Index /\ s.front = Spot(s.rear, A)
        /\ \A i \in 1 .. A : b[i] = s.bytes[Spot(s.rear, i)]
    <2>1. A \in 0 .. Size /\ A # 0
      BY <1>1, ContentsFacts
    <2>2. A \in 1 .. Size
      BY <2>1, RingAssumption
    <2> QED
      BY <1>1, <2>2, ContentsFacts
  <1>3. b # <<>>
    <2>1. A # 0
      BY <1>2
    <2> HIDE DEF A, b
    <2> QED
      BY <1>2, <2>1
  <1>4. PICK d \in 1 .. Len(b) : Firsts(b, d)
    BY <1>1, <1>3, SplitAhead
  <1> DEFINE recs == Split(b)
             rest == SubSeq(b, d + 1, Len(b))
  <1>5. /\ b[d] = Delimiter /\ \A i \in 1 .. d - 1 : b[i] # Delimiter
        /\ Splittable(rest) /\ recs # <<>> /\ recs[1] = SubSeq(b, 1, d - 1)
        /\ recs \in Seq(Seq(Nat)) /\ Split(rest) = Tail(recs)
    BY <1>4 DEF Firsts
  <1>6. \A j \in 1 .. A : /\ Pos(s, j - 1) = Spot(s.rear, j) /\ Pos(s, j - 1) \in Index
                          /\ At(s, j - 1, before) = b[j] /\ j - 1 \in 0 .. Size
    BY PlacesAhead
  <1>7. t = IF ends = {} THEN [s EXCEPT !.state = "hangs"]
            ELSE IF Pos(s, m) = s.front
                 THEN [s EXCEPT !.out = out, !.front = -1, !.rear = -1, !.state = "stopped"]
                 ELSE [s EXCEPT !.out = out, !.rear = (Pos(s, m) + 1) % Size]
    BY <1>1 DEF ReadTurn, EndsAhead, Pos, At
  <1>8. d \in 1 .. A /\ d \in Nat /\ A \in Nat /\ Size \in Nat
    BY <1>2, RingAssumption
  <1>9. ends # {} /\ m = d - 1
    <2>1. d - 1 \in ends
      BY <1>5, <1>6, <1>8 DEF EndsAhead
    <2>2. ends \in SUBSET Nat
      BY <1>8 DEF EndsAhead
    <2>3. m \in ends /\ \A k \in ends : m <= k
      <3> HIDE DEF ends
      <3> QED
        BY <2>1, <2>2, MinLeast
    <2>4. m \in Nat /\ m <= d - 1
      BY <1>8, <2>1, <2>2, <2>3
    <2>5. ~(m < d - 1)
      <3> SUFFICES ASSUME m < d - 1 PROVE FALSE
        OBVIOUS
      <3> HIDE DEF m
      <3>1. m + 1 \in 1 .. A /\ m + 1 \in 1 .. d - 1 /\ (m + 1) - 1 = m
        BY <1>8, <2>4
      <3>2. At(s, m, before) = b[m + 1]
        BY <1>6, <3>1
      <3>3. At(s, m, before) = Delimiter
        BY <2>3 DEF EndsAhead
      <3> QED
        BY <1>5, <3>1, <3>2, <3>3
    <2> HIDE DEF m, ends
    <2> QED
      BY <1>8, <2>1, <2>4, <2>5
  <1> HIDE DEF ends, m, t, r, b, A, rest, recs
  <1>10. seen = recs[1] /\ seen \in Seq(Nat)
    <2> DEFINE u == SubSeq(b, 1, d - 1)
    <2>1. \A i \in 1 .. d - 1 : i \in 1 .. Len(b) /\ b[i] \in Nat
      BY <1>2, <1>8
    <2>2. u \in Seq(Nat) /\ Len(u) = d - 1 /\ \A i \in 1 .. d - 1 : u[i] = b[i]
      <3>1. d - 1 \in Int /\ 1 \in Int /\ (d - 1) - 1 + 1 = d - 1 /\ (IF 1 <= d - 1 THEN (d - 1) - 1 + 1 ELSE 0) = d - 1
        BY <1>8
      <3>2. \A i \in 1 .. d - 1 : u[i] = b[1 + i - 1] /\ 1 + i - 1 = i
        BY <2>1, <3>1, SubSeqProperties
      <3> QED
        BY <2>1, <3>1, <3>2, SubSeqProperties
    <2> HIDE DEF u
    <2>3. u = [i \in 1 .. d - 1 |-> b[i]]
      BY <2>2
    <2>4. \A k \in 1 .. d - 1 : At(s, k - 1, before) = b[k]
      BY <1>6, <1>8
    <2>5. seen = u
      BY <1>9, <2>3, <2>4
    <2> QED
      BY <1>5, <2>2, <2>5 DEF u
  <1>11. out \in Seq(Nat) /\ out = s.out \o recs[1]
    <2>1. s.out \in Seq(Nat)
      BY <1>1, ReaderParts
    <2> HIDE DEF seen
    <2> QED
      BY <1>10, <2>1
  <1> HIDE DEF out, seen
  <1>12. Pos(s, m) = Spot(s.rear, d)
    BY <1>6, <1>8, <1>9
  <1>13. CASE d = A
    <2>1. t = [s EXCEPT !.out = out, !.front = -1, !.rear = -1, !.state = "stopped"]
      BY <1>2, <1>7, <1>9, <1>12, <1>13
    <2>2. /\ t \in Readers /\ t.out = out /\ t.state = "stopped"
          /\ t.front = -1 /\ t.rear = -1
      BY <1>1, <1>11, <2>1 DEF Readers
    <2>3. q \in Rings /\ q.front = -1 /\ q.rear = -1
      BY <2>2, ReaderParts
    <2> HIDE DEF q
    <2>4. Isempty(q) /\ Orderly(q)
      BY <2>3 DEF Isempty, Orderly
    <2>5. Contents(q) = <<>>
      BY <2>3 DEF Contents
    <2>6. rest = <<>>
      BY <1>2, <1>8, <1>13, SubSeqEmpty DEF rest
    <2>7. TakesFirst(s, t)
      BY <1>5, <1>11, <2>2, <2>4, <2>5, <2>6 DEF TakesFirst, q, recs, b, r
    <2> QED
      BY <2>7 DEF t
  <1>14. CASE d # A
    <2> DEFINE next == Spot(s.rear, d + 1)
    <2>1. /\ (Spot(s.rear, d) + 1) % Size = next
          /\ next \in Index
          /\ Spot(s.rear, d) # Spot(s.rear, A)
          /\ \A i \in 1 .. A - d : Spot(next, i) = Spot(s.rear, d + i)
          /\ (IF Spot(s.rear, A) >= next THEN Spot(s.rear, A) - next + 1 ELSE Spot(s.rear, A) - next + 1 + Size) = A - d
      <3>1. s.rear \in Index /\ A \in 1 .. Size /\ d \in 1 .. A /\ d # A
        BY <1>2, <1>8, <1>14
      <3> DEFINE rear == s.rear
      <3> HIDE DEF rear
      <3>2. rear \in Index
        BY <3>1 DEF rear
      <3>3. /\ (Spot(rear, d) + 1) % Size = Spot(rear, d + 1)
            /\ Spot(rear, d + 1) \in Index
            /\ Spot(rear, d) # Spot(rear, A)
            /\ \A i \in 1 .. A - d : Spot(Spot(rear, d + 1), i) = Spot(rear, d + i)
            /\ LET f == Spot(rear, A)
                   p == Spot(rear, d + 1)
               IN (IF f >= p THEN f - p + 1 ELSE f - p + 1 + Size) = A - d
        BY ONLY <3>1, <3>2, NextSpot
      <3> QED
        BY ONLY <3>3 DEF rear
    <2> HIDE DEF next
    <2>2. t = [s EXCEPT !.out = out, !.rear = next]
      BY <1>2, <1>7, <1>9, <1>12, <2>1
    <2>3. /\ t \in Readers /\ t.out = out /\ t.state = "reads" /\ t.bytes = s.bytes
          /\ t.front = s.front /\ t.rear = next
      BY <1>1, <1>11, <2>1, <2>2 DEF Readers
    <2>4. q \in Rings /\ q.front = s.front /\ q.rear = next /\ q.bytes = s.bytes
      BY <2>3, ReaderParts
    <2>5. s.front \in Index /\ -1 \notin Index
      <3>1. s.front # -1
        BY <1>1 DEF Isempty, Orderly
      <3> QED
        BY <1>1, <3>1, ReaderParts, RingAssumption DEF Index
    <2> HIDE DEF q
    <2>6. ~Isempty(q) /\ Orderly(q)
      BY <2>1, <2>4, <2>5 DEF Isempty, Orderly
    <2>7. Amount(q) = A - d
      BY <1>2, <2>1, <2>4, <2>5 DEF Amount
    <2>8. /\ Contents(q) \in Seq(Nat) /\ Len(Contents(q)) = A - d
          /\ \A i \in 1 .. A - d : Contents(q)[i] = s.bytes[Spot(next, i)]
      BY <2>4, <2>6, <2>7, ContentsFacts
    <2>9. /\ rest \in Seq(Nat) /\ Len(rest) = A - d
          /\ \A i \in 1 .. A - d : rest[i] = b[d + i]
      <3>1. d \in 0 .. Len(b)
        BY <1>2, <1>8
      <3> QED
        BY <1>2, <3>1, PartBehind DEF rest
    <2>10. \A i \in 1 .. A - d : Contents(q)[i] = rest[i]
      <3> TAKE i \in 1 .. A - d
      <3>1. d + i \in 1 .. A
        BY <1>8
      <3> QED
        BY <1>2, <2>1, <2>8, <2>9, <3>1
    <2>11. Contents(q) = rest
      BY <2>8, <2>9, <2>10
    <2>12. TakesFirst(s, t)
      BY <1>5, <1>11, <2>3, <2>6, <2>11 DEF TakesFirst, q, recs, b, r
    <2> QED
      BY <2>12 DEF t
  <1> QED
    BY <1>13, <1>14

(* A reader that has read the first m of recs                              *)
HasRead(s, recs, m) ==
  /\ s \in Readers
  /\ s.out = FlattenSeq(SubSeq(recs, 1, m))
  /\ s.state = IF m = Len(recs) THEN "stopped" ELSE "reads"
  /\ Orderly(RingOf(s))
  /\ Splittable(Contents(RingOf(s)))
  /\ Split(Contents(RingOf(s))) = SubSeq(recs, m + 1, Len(recs))

(* Whole records are none in an empty ring, and some in any other.         *)
LEMMA SomeRecords ==
  ASSUME NEW r, Orderly(r), Splittable(Contents(r))
  PROVE  Isempty(r) <=> Split(Contents(r)) = <<>>
  <1> DEFINE b == Contents(r)
  <1>1. b \in Seq(Nat) /\ Len(b) = Amount(r) /\ (Amount(r) = 0 <=> Isempty(r))
    BY ContentsFacts
  <1> HIDE DEF b
  <1>2. b = <<>> <=> Isempty(r)
    BY <1>1
  <1>3. b = <<>> => Split(b) = <<>>
    BY SplitNothing
  <1>4. b # <<>> => Split(b) # <<>>
    BY SplitAhead DEF Firsts, b
  <1> QED
    BY <1>2, <1>3, <1>4 DEF b

(* A turn reads the next record, or nothing when all are read.             *)
LEMMA TurnReads ==
  ASSUME NEW recs \in Seq(Seq(Nat)), NEW m \in 0 .. Len(recs), NEW s, HasRead(s, recs, m), NEW before \in Nat
  PROVE  HasRead(ReadTurn(s, before), recs, IF m = Len(recs) THEN m ELSE m + 1)
  <1> DEFINE t == ReadTurn(s, before)
             L == Len(recs)
  <1>1. L \in Nat /\ m \in Nat /\ m <= L
    OBVIOUS
  <1>2. CASE m = L
    <2>1. s \in Readers /\ s.state = "stopped"
      BY <1>2 DEF HasRead
    <2>2. t = s
      BY <2>1, TurnFacts
    <2> QED
      BY <1>2, <2>2
  <1>3. CASE m # L
    <2> DEFINE left == SubSeq(recs, m + 1, L)
               more == SubSeq(recs, m + 2, L)
    <2>1. m + 1 \in 1 .. L /\ L \in (m + 1) .. L /\ (m + 1) + 1 = m + 2
      BY <1>1, <1>3
    <2>2. Tail(left) = more /\ Head(left) = recs[m + 1]
      <3>1. Head(SubSeq(recs, m + 1, L)) = recs[m + 1] /\ Tail(SubSeq(recs, m + 1, L)) = SubSeq(recs, (m + 1) + 1, L)
        BY <2>1, HeadTailOfSubSeq
      <3> QED
        BY <2>1, <3>1
    <2>3. left \in Seq(Seq(Nat)) /\ Len(left) = L - m
      <3>1. m \in 0 .. L
        OBVIOUS
      <3> QED
        BY <3>1, PartBehind
    <2>4. more \in Seq(Seq(Nat)) /\ Len(more) = L - (m + 1)
      <3>1. m + 1 \in 0 .. L
        BY <2>1
      <3> QED
        BY <2>1, <3>1, PartBehind
    <2> HIDE DEF left, more
    <2>5. left # <<>> /\ left[1] = recs[m + 1]
      <3>1. Len(left) # 0
        BY <1>1, <1>3, <2>3
      <3> QED
        BY <2>2, <2>3, <3>1
    <2>6. Split(Contents(RingOf(s))) = left
      BY DEF HasRead, left, L
    <2>7. Reading(s)
      BY <1>3, <2>5, <2>6, SomeRecords DEF HasRead, Reading
    <2>8. /\ t \in Readers
          /\ t.out = s.out \o left[1]
          /\ t.state = IF Isempty(RingOf(t)) THEN "stopped" ELSE "reads"
          /\ Orderly(RingOf(t))
          /\ Splittable(Contents(RingOf(t)))
          /\ Split(Contents(RingOf(t))) = more
      BY <2>2, <2>6, <2>7, TurnTakes DEF TakesFirst
    <2> HIDE DEF t
    <2>9. t.out = FlattenSeq(SubSeq(recs, 1, m + 1))
      <3>1. s.out = FlattenSeq(SubSeq(recs, 1, m))
        BY DEF HasRead
      <3>2. FlattenSeq(SubSeq(recs, 1, m + 1)) = FlattenSeq(SubSeq(recs, 1, m)) \o recs[m + 1]
        BY <1>3, FlattenMore
      <3> QED
        BY <2>5, <2>8, <3>1, <3>2
    <2>10. Isempty(RingOf(t)) <=> m + 1 = L
      <3>1. Isempty(RingOf(t)) <=> more = <<>>
        BY <2>8, SomeRecords
      <3>2. more = <<>> <=> m + 1 = L
        BY <1>1, <2>1, <2>4
      <3> QED
        BY <3>1, <3>2
    <2>11. HasRead(t, recs, m + 1)
      <3>1. SubSeq(recs, (m + 1) + 1, L) = more
        BY <2>1 DEF more
      <3> QED
        BY <2>8, <2>9, <2>10, <3>1 DEF HasRead
    <2> QED
      BY <1>3, <2>11 DEF t
  <1> QED
    BY <1>2, <1>3

(* The loop reads as many records as asked for, or all there are, whole    *)
(* and in order, and leaves the others.                                    *)
LEMMA RecordsRead ==
  ASSUME NEW r, Orderly(r), ~Isempty(r), Splittable(Contents(r)), NEW count \in Nat, NEW before \in Nat
  PROVE  LET recs == Split(Contents(r))
         IN /\ recs # <<>> /\ recs \in Seq(Seq(Nat))
            /\ HasRead(ReadRecords(r, count, before), recs, IF count <= Len(recs) THEN count ELSE Len(recs))
  <1> DEFINE recs == Split(Contents(r))
             L == Len(recs)
             w == Turns(r, count, before)
             upto(n) == IF n <= L THEN n ELSE L
             T == {n \in 0 .. count : HasRead(w[n], recs, upto(n))}
  <1>1. r \in Rings
    BY DEF Orderly
  <1>2. /\ w \in [0 .. count -> Readers] /\ w[0] = Reader(r)
        /\ \A n \in 1 .. count : w[n] = ReadTurn(w[n - 1], before)
    BY <1>1, TurnsFacts
  <1>3. recs # <<>>
    BY SomeRecords
  <1>4. recs \in Seq(Seq(Nat))
    <2>1. Contents(r) # <<>>
      BY <1>3, SplitNothing
    <2> QED
      BY <2>1, SplitAhead DEF Firsts
  <1>5. ReadRecords(r, count, before) = w[count]
    BY DEF ReadRecords
  <1>6. RingOf(Reader(r)) = r
    BY <1>1 DEF RingOf, Reader, Rings
  <1>7. Reader(r).out = <<>> /\ Reader(r).state = "reads"
    BY DEF Reader
  <1>8. Splittable(Contents(r)) /\ Split(Contents(r)) = recs
    OBVIOUS
  <1> HIDE DEF w, recs
  <1>9. L \in Nat \ {0}
    BY <1>3, <1>4
  <1>10. 0 \in T
    <2>1. upto(0) = 0 /\ 0 # L /\ 0 \in 0 .. count
      BY <1>9
    <2>2. SubSeq(recs, 0 + 1, L) = recs
      BY <1>4, SubSeqFull
    <2>3. FlattenSeq(SubSeq(recs, 1, 0)) = <<>>
      BY <1>4, FlattenMore
    <2>4. w[0] \in Readers
      BY <1>2
    <2>5. HasRead(w[0], recs, 0)
      BY <1>2, <1>6, <1>7, <1>8, <2>1, <2>2, <2>3, <2>4 DEF HasRead
    <2> QED
      BY <2>1, <2>5
  <1>11. ASSUME NEW n \in 0 .. count, n # count, n \in T PROVE n + 1 \in T
    <2>1. n + 1 \in 1 .. count /\ n + 1 \in 0 .. count /\ (n + 1) - 1 = n /\ n \in Nat
      BY <1>11
    <2>2. w[n + 1] = ReadTurn(w[n], before)
      BY <1>2, <2>1
    <2>3. upto(n) \in 0 .. L /\ upto(n + 1) = IF upto(n) = L THEN upto(n) ELSE upto(n) + 1
      BY <1>9, <2>1
    <2>4. HasRead(w[n], recs, upto(n))
      BY <1>11
    <2> HIDE DEF upto
    <2>5. HasRead(w[n + 1], recs, upto(n + 1))
      BY <1>4, <2>2, <2>3, <2>4, TurnReads
    <2> QED
      BY <2>1, <2>5
  <1>12. count \in T
    <2>1. 0 .. count \subseteq T
      <3> HIDE DEF T
      <3> QED
        BY <1>10, <1>11, CountUp
    <2> QED
      BY <2>1
  <1>13. HasRead(w[count], recs, upto(count))
    BY <1>12
  <1> QED
    BY <1>3, <1>4, <1>5, <1>13 DEF recs
=============================================================================
