----------------------------- MODULE HeapProofs -----------------------------
(***************************************************************************)
(* Proofs about Heap, for every size of a unit, every amount of memory and *)
(* every set of requests: no memory is handed out twice, the free list is  *)
(* a list, and nothing is lost, up to the frees named in slips.            *)
(***************************************************************************)
EXTENDS Heap, FiniteSetTheorems, WellFoundedInduction, TLAPS

Values == {NULL, Junk} \cup Addr \cup (1 .. MaxWords)
Memories == [Addr -> Values]

(* What a size is written for, whether or not it is still in use, is       *)
(* memory of the program's.                                                *)
SizesMapped(m, mp) ==
  \A a \in Addr : m[a] \in 1 .. MaxWords => a .. (a + m[a] - 1) \subseteq mp

TypeInv == TypeOK /\ SizesMapped(mem, mapped)

-----------------------------------------------------------------------------
(* Numbers                                                                 *)

(* A set of numbers that is not empty has a least one.                     *)
LEMMA LeastNumber ==
  ASSUME NEW S \in SUBSET Nat, S # {}
  PROVE  \E i \in S : \A j \in S : i <= j
  <1> DEFINE below == {0 .. i : i \in S}
  <1>1. below \subseteq FiniteSubsetsOf(Nat) /\ below # {}
    <2>1. ASSUME NEW i \in S PROVE 0 .. i \in FiniteSubsetsOf(Nat)
      <3>1. i \in Int /\ 0 .. i \subseteq Nat
        OBVIOUS
      <3>2. IsFiniteSet(0 .. i)
        BY <3>1, FS_Interval
      <3> QED
        BY <3>1, <3>2 DEF FiniteSubsetsOf
    <2> QED
      BY <2>1
  <1>2. PICK x \in below : \A y \in below : ~(<<y, x>> \in StrictSubsetOrdering(Nat))
    BY <1>1, FS_StrictSubsetOrderingWellFounded, WFMin
  <1>3. PICK i \in S : x = 0 .. i
    BY <1>2
  <1>4. \A j \in S : i <= j
    <2> SUFFICES ASSUME NEW j \in S, j < i PROVE FALSE
      OBVIOUS
    <2>1. 0 .. j \in below /\ 0 .. j \in SUBSET Nat /\ 0 .. i \in SUBSET Nat
      OBVIOUS
    <2>2. i \in 0 .. i /\ i \notin 0 .. j /\ 0 .. j \subseteq 0 .. i
      OBVIOUS
    <2>3. <<0 .. j, 0 .. i>> \in StrictSubsetOrdering(Nat)
      BY <2>1, <2>2 DEF StrictSubsetOrdering
    <2> QED
      BY <1>2, <1>3, <2>1, <2>3
  <1> QED
    BY <1>3, <1>4

(* Min of such a set is in it, and the least.                              *)
LEMMA MinLeast ==
  ASSUME NEW S \in SUBSET Nat, S # {}
  PROVE  Min(S) \in S /\ \A j \in S : Min(S) <= j
  BY LeastNumber DEF Min


(* Counting up from 0 to N one meets every number on the way.              *)
LEMMA CountUp ==
  ASSUME NEW N \in Nat, NEW S, 0 \in S, \A n \in 0 .. N : n # N /\ n \in S => n + 1 \in S
  PROVE  0 .. N \subseteq S
  <1> SUFFICES ASSUME NEW m \in 0 .. N, m \notin S PROVE FALSE
    OBVIOUS
  <1> DEFINE M == {n \in 0 .. N : n \notin S}
  <1>1. M \in SUBSET Nat /\ M # {}
    OBVIOUS
  <1>2. PICK i \in M : \A j \in M : i <= j
    BY <1>1, LeastNumber
  <1>3. i \in 0 .. N /\ i \notin S /\ i # 0
    BY <1>2
  <1>4. i - 1 \in 0 .. N /\ i - 1 # N /\ i - 1 \notin M
    BY <1>2, <1>3
  <1>5. (i - 1) + 1 \in S
    BY <1>4
  <1> QED
    BY <1>3, <1>5

(* A function defined by counting up, each value from the one before.      *)
Counted(g, N, b, F) == g = [n \in 0 .. N |-> IF n = 0 THEN b ELSE F[n][g[n - 1]]]

(* There is such a function, as long as each step leads from D to D.       *)
LEMMA CountedExists ==
  ASSUME NEW N \in Nat, NEW D, NEW b \in D, NEW F, \A n \in 1 .. N : F[n] \in [D -> D]
  PROVE  \E g \in [0 .. N -> D] : Counted(g, N, b, F)
  <1> DEFINE S == {n \in 0 .. N : \E g \in [0 .. n -> D] : Counted(g, n, b, F)}
  <1>1. 0 \in S
    <2> DEFINE g == [n \in 0 .. 0 |-> b]
    <2>1. g \in [0 .. 0 -> D] /\ Counted(g, 0, b, F)
      BY DEF Counted
    <2> HIDE DEF g
    <2> QED
      BY <2>1
  <1>2. ASSUME NEW n \in 0 .. N, n # N, n \in S PROVE n + 1 \in S
    <2>1. PICK g \in [0 .. n -> D] : Counted(g, n, b, F)
      BY <1>2
    <2> DEFINE h == [m \in 0 .. n + 1 |-> IF m = n + 1 THEN F[n + 1][g[n]] ELSE g[m]]
    <2>2. F[n + 1] \in [D -> D] /\ g[n] \in D /\ n + 1 \in 0 .. N
      BY <1>2
    <2>3. h \in [0 .. n + 1 -> D]
      BY <2>2
    <2>4. \A m \in 0 .. n : h[m] = g[m]
      OBVIOUS
    <2>5. h[n + 1] = F[n + 1][g[n]]
      OBVIOUS
    <2>6. \A m \in 0 .. n : g[m] = IF m = 0 THEN b ELSE F[m][g[m - 1]]
      BY <2>1 DEF Counted
    <2>7. ASSUME NEW m \in 0 .. n + 1 PROVE h[m] = IF m = 0 THEN b ELSE F[m][h[m - 1]]
      <3>1. CASE m = n + 1
        <4>1. m - 1 = n /\ m # 0
          BY <3>1
        <4> HIDE DEF h
        <4> QED
          BY <2>4, <2>5, <3>1, <4>1
      <3>2. CASE m # n + 1
        <4>1. m \in 0 .. n /\ (m # 0 => m - 1 \in 0 .. n)
          BY <3>2
        <4> HIDE DEF h
        <4> QED
          BY <2>4, <2>6, <4>1
      <3> QED
        BY <3>1, <3>2
    <2> HIDE DEF h
    <2>8. Counted(h, n + 1, b, F)
      <3>1. h = [m \in 0 .. n + 1 |-> h[m]]
        BY <2>3
      <3> QED
        BY <2>7, <3>1 DEF Counted
    <2> QED
      BY <2>2, <2>3, <2>8
  <1>3. N \in S
    <2> HIDE DEF S
    <2>1. 0 .. N \subseteq S
      BY <1>1, <1>2, CountUp
    <2> QED
      BY <2>1
  <1> QED
    BY <1>3
(* The sizes and addresses there are                                       *)
LEMMA Numbers ==
  /\ MemWords \in Nat \ {0} /\ MaxWords \in Nat /\ MaxWords = 3 * MemWords
  /\ Base \in Nat /\ Base > MaxWords /\ Unit \in Nat \ {0}
  /\ Addr = Base .. (Base + MemWords - 1) /\ Addr \subseteq Nat
  /\ NULL = 0 /\ Junk = -1 /\ NULL \notin Addr /\ Junk \notin Addr
  /\ NULL \in Values /\ Junk \in Values /\ Addr \subseteq Values
  <1>1. MemWords \in Nat \ {0} /\ Unit \in Nat \ {0}
    BY HeapAssumption DEF MemWords
  <1>2. MaxWords \in Nat /\ MaxWords = 3 * MemWords
    BY <1>1 DEF MaxWords
  <1>3. Base \in Nat /\ Base > MaxWords
    BY <1>1, <1>2 DEF Base
  <1>4. Addr = Base .. (Base + MemWords - 1)
    BY DEF Addr
  <1>5. Addr \subseteq Nat /\ NULL \notin Addr /\ Junk \notin Addr
    BY <1>1, <1>2, <1>3, <1>4 DEF NULL, Junk
  <1> QED
    BY <1>1, <1>2, <1>3, <1>4, <1>5 DEF NULL, Junk, Values

(* The words there are for a request                                       *)
LEMMA NeededFacts ==
  ASSUME NEW bytes \in Nat
  PROVE  /\ Needed(bytes) \in Nat /\ Needed(bytes) >= 3
         /\ 8 * Needed(bytes) >= bytes + 8
         /\ (bytes + 7) \div 8 \in Nat /\ (bytes + 7) \div 8 < Needed(bytes)
         /\ \A s \in Nat : s >= 3 /\ 8 * s >= bytes + 8 => s >= Needed(bytes)
  <1> DEFINE k == (bytes + ALLOC_MEM_METADATA + 7) \div 8
             S == {MinWords, k}
  <1>1. /\ k \in Nat /\ 8 * k >= bytes + 8 /\ 8 * k <= bytes + 15
        /\ (bytes + 7) \div 8 \in Nat /\ (bytes + 7) \div 8 = k - 1
    BY DEF ALLOC_MEM_METADATA
  <1>2. MinWords = 3
    BY DEF MinWords
  <1>3. Needed(bytes) = Max(S)
    BY DEF Needed
  <1> HIDE DEF k
  <1>4. Max(S) \in S /\ \A y \in S : Max(S) >= y
    <2>1. \E x \in S : \A y \in S : x >= y
      BY <1>1, <1>2
    <2> QED
      BY <2>1 DEF Max
  <1>5. Needed(bytes) \in {3, k} /\ Needed(bytes) >= 3 /\ Needed(bytes) >= k
    BY <1>2, <1>3, <1>4
  <1> QED
    BY <1>1, <1>5

-----------------------------------------------------------------------------
(* Walks and searches                                                      *)

(* What can be read is in memory, with the two words behind it.            *)
LEMMA ReadableFacts ==
  ASSUME NEW m \in Memories, NEW a, Readable(m, a)
  PROVE  /\ a \in Addr /\ a + 1 \in Addr /\ a + 2 \in Addr /\ a \in Nat
         /\ m[a] \in Nat /\ m[a] <= MemWords /\ Next_of(m, a) \in Values
  <1>1. a \in Addr /\ a + 2 \in Addr /\ m[a] \in 0 .. MemWords
    BY DEF Readable
  <1>2. a \in Nat /\ a + 1 \in Addr
    BY <1>1, Numbers
  <1>3. Next_of(m, a) \in Values
    BY <1>2 DEF Next_of, Memories
  <1> QED
    BY <1>1, <1>2, <1>3, Numbers

(* A walk of at most n steps from one chunk to its successor, as far as    *)
(* memory can be read                                                      *)
IsWalk(m, first, w, n) ==
  /\ w \in Seq(Values) /\ Len(w) >= 1 /\ Len(w) <= n + 1 /\ w[1] = first
  /\ \A i \in 1 .. (Len(w) - 1) : Readable(m, w[i]) /\ w[i + 1] = Next_of(m, w[i])
  /\ Len(w) = n + 1 \/ ~Readable(m, w[Len(w)])

Further(m, p, n) ==
  IF Len(p) = n /\ Readable(m, p[Len(p)]) THEN Append(p, Next_of(m, p[Len(p)])) ELSE p

Routes == Seq(Values) \ {<<>>}

(* A step of a walk leads to a walk again.                                 *)
LEMMA FurtherStays ==
  ASSUME NEW m \in Memories, NEW p \in Routes, NEW n
  PROVE  Further(m, p, n) \in Routes
  <1>1. p \in Seq(Values) /\ p # <<>> /\ Len(p) \in Nat
    BY DEF Routes
  <1>2. CASE Len(p) = n /\ Readable(m, p[Len(p)])
    <2>1. Next_of(m, p[Len(p)]) \in Values
      BY <1>2, ReadableFacts
    <2> DEFINE v == Next_of(m, p[Len(p)])
    <2>2. Further(m, p, n) = Append(p, v)
      BY <1>2 DEF Further
    <2>3. v \in Values
      BY <2>1
    <2> HIDE DEF v
    <2>4. Append(p, v) \in Seq(Values) /\ Append(p, v) # <<>>
      BY <1>1, <2>3
    <2> QED
      BY <2>2, <2>4 DEF Routes
  <1>3. CASE ~(Len(p) = n /\ Readable(m, p[Len(p)]))
    BY <1>3 DEF Further
  <1> QED
    BY <1>2, <1>3

(* The walks one step longer each                                          *)
LEMMA PathsFacts ==
  ASSUME NEW m \in Memories, NEW first \in Values
  PROVE  /\ Paths(m, first)[0] = <<first>>
         /\ \A n \in 1 .. MemWords :
              Paths(m, first)[n] = Further(m, Paths(m, first)[n - 1], n)
  <1> DEFINE N == MemWords
             b == <<first>>
             F == [n \in 1 .. N |-> [p \in Routes |-> Further(m, p, n)]]
             Is(g) == g = [n \in 0 .. N |->
                             IF n = 0 THEN b
                             ELSE LET p == g[n - 1]
                                      a == p[Len(p)]
                                  IN IF Len(p) = n /\ Readable(m, a)
                                     THEN Append(p, Next_of(m, a)) ELSE p]
             w == Paths(m, first)
  <1>1. N \in Nat
    BY Numbers
  <1>2. \A n \in 1 .. N : F[n] \in [Routes -> Routes]
    BY FurtherStays
  <1>3. \A n \in 1 .. N, p \in Routes : F[n][p] = Further(m, p, n)
    OBVIOUS
  <1>4. w = CHOOSE g : Is(g)
    BY DEF Paths
  <1>5. N = MemWords /\ b = <<first>> /\ b \in Routes
    BY DEF Routes
  <1> HIDE DEF F, N, w, b
  <1>6. PICK g \in [0 .. N -> Routes] : Counted(g, N, b, F)
    BY <1>1, <1>2, <1>5, CountedExists
  <1>7. Is(g)
    <2>1. \A n \in 0 .. N : n # 0 => n \in 1 .. N /\ n - 1 \in 0 .. N
      BY <1>1
    <2>2. ASSUME NEW n \in 0 .. N, n # 0 PROVE F[n][g[n - 1]] = Further(m, g[n - 1], n)
      BY <1>3, <1>6, <2>1, <2>2
    <2>3. g = [n \in 0 .. N |-> IF n = 0 THEN b ELSE Further(m, g[n - 1], n)]
      BY <1>6, <2>2 DEF Counted
    <2> QED
      BY <2>3 DEF Further
  <1>8. w = [n \in 0 .. N |-> IF n = 0 THEN b ELSE Further(m, w[n - 1], n)]
    <2> HIDE DEF Is
    <2>1. Is(w)
      BY <1>4, <1>7
    <2> QED
      BY <2>1 DEF Is, Further
  <1>9. w[0] = b /\ \A n \in 1 .. N : w[n] = Further(m, w[n - 1], n)
    BY <1>1, <1>8
  <1> QED
    BY <1>5, <1>9 DEF w

(* Walk is a walk in that sense, of no more steps than there are words.    *)
LEMMA WalkFacts ==
  ASSUME NEW m \in Memories, NEW first \in Values
  PROVE  IsWalk(m, first, Walk(m, first), MemWords)
  <1> DEFINE w == Paths(m, first)
             N == MemWords
             S == {n \in 0 .. N : IsWalk(m, first, w[n], n)}
  <1>1. /\ N \in Nat /\ w[0] = <<first>>
        /\ \A n \in 1 .. N : w[n] = Further(m, w[n - 1], n)
    BY Numbers, PathsFacts
  <1>2. N = MemWords /\ Walk(m, first) = w[N]
    BY DEF Walk
  <1> HIDE DEF w, N
  <1>3. 0 \in S
    <2> DEFINE p == <<first>>
    <2>1. p \in Seq(Values) /\ Len(p) = 1 /\ p[1] = first
      OBVIOUS
    <2> HIDE DEF p
    <2>2. IsWalk(m, first, p, 0)
      BY <2>1 DEF IsWalk
    <2> QED
      BY <1>1, <2>2 DEF p
  <1>4. ASSUME NEW n \in 0 .. N, n # N, n \in S PROVE n + 1 \in S
    <2> DEFINE p == w[n]
               k == Len(p)
               v == Next_of(m, p[k])
    <2>1. /\ p \in Seq(Values) /\ k \in Nat /\ k >= 1 /\ k <= n + 1 /\ p[1] = first
          /\ \A i \in 1 .. (k - 1) : Readable(m, p[i]) /\ p[i + 1] = Next_of(m, p[i])
          /\ k = n + 1 \/ ~Readable(m, p[k])
      BY <1>4 DEF IsWalk
    <2>2. n + 1 \in 1 .. N /\ (n + 1) - 1 = n
      BY <1>1, <1>4
    <2>3. w[n + 1] = Further(m, p, n + 1)
      BY <1>1, <2>2
    <2>4. CASE k = n + 1 /\ Readable(m, p[k])
      <3>1. w[n + 1] = Append(p, v)
        BY <2>3, <2>4 DEF Further
      <3>2. v \in Values
        BY <2>4, ReadableFacts
      <3>3. Readable(m, p[k]) /\ v = Next_of(m, p[k])
        BY <2>4
      <3> HIDE DEF v
      <3> DEFINE q == Append(p, v)
      <3>4. /\ q \in Seq(Values) /\ Len(q) = k + 1 /\ q[k + 1] = v
            /\ \A i \in 1 .. k : q[i] = p[i]
        BY <2>1, <3>2
      <3> HIDE DEF q, k, p
      <3>5. \A i \in 1 .. k : Readable(m, q[i]) /\ q[i + 1] = Next_of(m, q[i])
        <4> TAKE i \in 1 .. k
        <4>1. CASE i = k
          BY <2>1, <3>3, <3>4, <4>1
        <4>2. CASE i # k
          <5>1. i \in 1 .. (k - 1) /\ i + 1 \in 1 .. k
            BY <2>1, <4>2
          <5> QED
            BY <2>1, <3>4, <5>1
        <4> QED
          BY <4>1, <4>2
      <3>6. q[1] = first /\ Len(q) >= 1 /\ Len(q) = (n + 1) + 1 /\ (k + 1) - 1 = k
        BY <2>1, <2>4, <3>4
      <3>7. IsWalk(m, first, q, n + 1)
        BY <2>1, <3>4, <3>5, <3>6 DEF IsWalk
      <3>8. w[n + 1] = q
        BY <3>1 DEF q
      <3>9. IsWalk(m, first, w[n + 1], n + 1)
        BY <3>7, <3>8
      <3> QED
        BY <2>2, <3>9
    <2>5. CASE ~(k = n + 1 /\ Readable(m, p[k]))
      <3>1. w[n + 1] = p
        BY <2>3, <2>5 DEF Further
      <3> HIDE DEF p, k
      <3>2. k <= (n + 1) + 1 /\ ~Readable(m, p[k])
        BY <2>1, <2>5
      <3>3. IsWalk(m, first, p, n + 1)
        BY <2>1, <3>2 DEF IsWalk, k
      <3> QED
        BY <2>2, <3>1, <3>3
    <2> QED
      BY <2>4, <2>5
  <1> HIDE DEF S
  <1>5. 0 .. N \subseteq S
    BY <1>1, <1>3, <1>4, CountUp
  <1> QED
    BY <1>1, <1>2, <1>5 DEF S

(* The place a search comes to is the first one wanted.                    *)
LEMMA SearchFacts ==
  ASSUME NEW w, Len(w) \in Nat \ {0}, NEW wanted
  PROVE  \/ /\ \E i \in 1 .. (Len(w) - 1) : w[i] \in wanted /\ Search(w, wanted) = w[i]
         \/ /\ \A i \in 1 .. (Len(w) - 1) : w[i] \notin wanted
            /\ Search(w, wanted) = IF w[Len(w)] = NULL THEN NULL ELSE Junk
  <1> DEFINE hits == {i \in 1 .. (Len(w) - 1) : w[i] \in wanted}
  <1>1. Search(w, wanted) = IF hits # {} THEN w[Min(hits)]
                            ELSE IF w[Len(w)] = NULL THEN NULL ELSE Junk
    BY DEF Search
  <1>2. CASE hits # {}
    <2>1. hits \in SUBSET Nat
      OBVIOUS
    <2>2. Min(hits) \in hits
      BY <1>2, <2>1, MinLeast
    <2> QED
      BY <1>1, <1>2, <2>2
  <1>3. CASE hits = {}
    BY <1>1, <1>3
  <1> QED
    BY <1>2, <1>3

-----------------------------------------------------------------------------
(* Writing to memory                                                       *)
Pointers == Addr \cup {NULL}

(* A pointer is not a size.                                                *)
LEMMA PointerFacts ==
  /\ Pointers \subseteq Values /\ Pointers \subseteq Nat
  /\ \A v \in Pointers \cup {Junk} : v \in Int /\ v \notin 1 .. MaxWords /\ v \in Values
  /\ \A v : Pointer(v) => v \in Pointers
  <1>1. Pointers \subseteq Values /\ Pointers \subseteq Nat
    BY Numbers DEF Pointers
  <1>2. \A v \in Pointers \cup {Junk} : v \in Int /\ v \notin 1 .. MaxWords /\ v \in Values
    BY Numbers DEF Pointers
  <1>3. \A v : Pointer(v) => v \in Pointers
    BY DEF Pointer, Pointers
  <1> QED
    BY <1>1, <1>2, <1>3

(* What each way of writing leaves in a word of memory                     *)
LEMMA SetNextAt ==
  ASSUME NEW m \in Memories, NEW p \in Pointers, NEW v \in Values
  PROVE  /\ SetNext(m, p, v) \in Memories
         /\ \A x \in Addr : SetNext(m, p, v)[x] = IF p # NULL /\ x = p + 1 THEN v ELSE m[x]
  BY DEF SetNext, Memories

(* The same for SetPrev                                                    *)
LEMMA SetPrevAt ==
  ASSUME NEW m \in Memories, NEW p \in Pointers, NEW v \in Values
  PROVE  /\ SetPrev(m, p, v) \in Memories
         /\ \A x \in Addr : SetPrev(m, p, v)[x] = IF p # NULL /\ x = p + 2 THEN v ELSE m[x]
  BY DEF SetPrev, Memories

(* The same for a size alone                                               *)
LEMMA SetSizeAt ==
  ASSUME NEW m \in Memories, NEW a \in Addr, NEW s \in Values
  PROVE  /\ [m EXCEPT ![a] = s] \in Memories
         /\ \A x \in Addr : [m EXCEPT ![a] = s][x] = IF x = a THEN s ELSE m[x]
  BY DEF Memories

(* The same for all three fields of a chunk                                *)
LEMMA ChunkAt ==
  ASSUME NEW m \in Memories, NEW a \in Addr, NEW s \in Values, NEW next \in Values, NEW prev \in Values
  PROVE  /\ Chunk(m, a, s, next, prev) \in Memories
         /\ \A x \in Addr : Chunk(m, a, s, next, prev)[x] =
              IF x = a THEN s ELSE IF x = a + 1 THEN next ELSE IF x = a + 2 THEN prev ELSE m[x]
  <1>1. a \in Nat /\ a # a + 1 /\ a # a + 2 /\ a + 1 # a + 2
    BY Numbers
  <1> QED
    BY <1>1 DEF Chunk, Memories

(* The program writes within what it was given.                            *)
LEMMA FillAt ==
  ASSUME NEW m \in Memories, NEW a \in Addr, NEW bytes \in Nat
  PROVE  /\ Fill(m, a, bytes) \in Memories
         /\ \A x \in Addr : Fill(m, a, bytes)[x] =
              IF x > a /\ x < a + Needed(bytes) /\ x <= a + (bytes + 7) \div 8 THEN Junk ELSE m[x]
  <1> DEFINE k == (bytes + 7) \div 8
  <1>1. k \in Nat /\ k < Needed(bytes) /\ Needed(bytes) \in Nat
    BY NeededFacts
  <1>2. \A x \in Addr : x \in Nat
    BY Numbers
  <1>3. a \in Nat /\ Junk \in Values
    BY Numbers
  <1>4. Fill(m, a, bytes) = [x \in Addr |-> IF x \in (a + 1) .. (a + k) THEN Junk ELSE m[x]]
    BY DEF Fill
  <1> HIDE DEF k
  <1>5. ASSUME NEW x \in Addr
        PROVE  x \in (a + 1) .. (a + k) <=> x > a /\ x < a + Needed(bytes) /\ x <= a + k
    BY <1>1, <1>2, <1>3
  <1>6. Fill(m, a, bytes) \in Memories
    BY <1>3, <1>4 DEF Memories
  <1> QED
    BY <1>4, <1>5, <1>6 DEF k

(* Memory of which the sizes are right                                     *)
GoodMem(m, mp) == m \in Memories /\ SizesMapped(m, mp)

(* It stays so when what is written is no size or a right one.             *)
LEMMA GoodWhenWritten ==
  ASSUME NEW mp, NEW m, GoodMem(m, mp), NEW n \in Memories,
         \A x \in Addr : n[x] = m[x] \/ n[x] \in Pointers \cup {Junk} \/ x .. (x + n[x] - 1) \subseteq mp
  PROVE  GoodMem(n, mp)
  <1> SUFFICES ASSUME NEW x \in Addr, n[x] \in 1 .. MaxWords
               PROVE  x .. (x + n[x] - 1) \subseteq mp
    BY DEF GoodMem, SizesMapped
  <1>1. n[x] \notin Pointers \cup {Junk}
    BY PointerFacts
  <1> QED
    BY <1>1 DEF GoodMem, SizesMapped

(* Each way of writing leaves every size within memory of the program's:   *)
(* SetNext writes a pointer.                                               *)
LEMMA SetNextGood ==
  ASSUME NEW mp, NEW m, GoodMem(m, mp), NEW p \in Pointers, NEW v \in Pointers
  PROVE  GoodMem(SetNext(m, p, v), mp)
  <1> DEFINE n == SetNext(m, p, v)
  <1>1. m \in Memories /\ v \in Values
    BY PointerFacts DEF GoodMem
  <1>2. n \in Memories /\ \A x \in Addr : n[x] = m[x] \/ n[x] \in Pointers
    BY <1>1, SetNextAt
  <1> HIDE DEF n
  <1>3. GoodMem(n, mp)
    BY <1>2, GoodWhenWritten
  <1> QED
    BY <1>3 DEF n

(* So does SetPrev.                                                        *)
LEMMA SetPrevGood ==
  ASSUME NEW mp, NEW m, GoodMem(m, mp), NEW p \in Pointers, NEW v \in Pointers
  PROVE  GoodMem(SetPrev(m, p, v), mp)
  <1> DEFINE n == SetPrev(m, p, v)
  <1>1. m \in Memories /\ v \in Values
    BY PointerFacts DEF GoodMem
  <1>2. n \in Memories /\ \A x \in Addr : n[x] = m[x] \/ n[x] \in Pointers
    BY <1>1, SetPrevAt
  <1> HIDE DEF n
  <1>3. GoodMem(n, mp)
    BY <1>2, GoodWhenWritten
  <1> QED
    BY <1>3 DEF n

(* A size that fits the memory the program has                             *)
FitsIn(a, s, mp) == s \in Nat /\ s <= MaxWords /\ a .. (a + s - 1) \subseteq mp

(* Such a size is a value a word may have.                                 *)
LEMMA FitsValue ==
  ASSUME NEW a, NEW s, NEW mp, FitsIn(a, s, mp)
  PROVE  s \in Values
  BY Numbers DEF FitsIn, Values

(* A size that fits does no harm.                                          *)
LEMMA SetSizeGood ==
  ASSUME NEW mp, NEW m, GoodMem(m, mp), NEW a \in Addr, NEW s, FitsIn(a, s, mp)
  PROVE  GoodMem([m EXCEPT ![a] = s], mp)
  <1> DEFINE n == [m EXCEPT ![a] = s]
  <1>1. m \in Memories /\ s \in Values
    BY FitsValue DEF GoodMem
  <1>2. n \in Memories /\ \A x \in Addr : n[x] = m[x] \/ x .. (x + n[x] - 1) \subseteq mp
    BY <1>1, SetSizeAt DEF FitsIn
  <1> HIDE DEF n
  <1>3. GoodMem(n, mp)
    BY <1>2, GoodWhenWritten
  <1> QED
    BY <1>3 DEF n

(* A chunk with such a size and pointers does none.                        *)
LEMMA ChunkGood ==
  ASSUME NEW mp, NEW m, GoodMem(m, mp), NEW a \in Addr, NEW s, FitsIn(a, s, mp),
         NEW next \in Pointers, NEW prev \in Pointers
  PROVE  GoodMem(Chunk(m, a, s, next, prev), mp)
  <1> DEFINE n == Chunk(m, a, s, next, prev)
  <1>1. m \in Memories /\ s \in Values /\ next \in Values /\ prev \in Values
    BY FitsValue, PointerFacts DEF GoodMem
  <1>2. n \in Memories /\ \A x \in Addr : \/ n[x] = m[x] \/ n[x] \in Pointers
                                          \/ x .. (x + n[x] - 1) \subseteq mp
    <2>1. n \in Memories /\ \A x \in Addr :
            n[x] = IF x = a THEN s ELSE IF x = a + 1 THEN next ELSE IF x = a + 2 THEN prev ELSE m[x]
      BY <1>1, ChunkAt
    <2>2. a .. (a + s - 1) \subseteq mp
      BY DEF FitsIn
    <2> HIDE DEF n
    <2> QED
      BY <2>1, <2>2
  <1> HIDE DEF n
  <1>3. GoodMem(n, mp)
    BY <1>2, GoodWhenWritten
  <1> QED
    BY <1>3 DEF n

(* What the program writes is junk, not a size.                            *)
LEMMA FillGood ==
  ASSUME NEW mp, NEW m, GoodMem(m, mp), NEW a \in Addr, NEW bytes \in Nat
  PROVE  GoodMem(Fill(m, a, bytes), mp)
  <1> DEFINE n == Fill(m, a, bytes)
  <1>1. m \in Memories
    BY DEF GoodMem
  <1>2. n \in Memories /\ \A x \in Addr : n[x] = m[x] \/ n[x] = Junk
    BY <1>1, FillAt
  <1> HIDE DEF n
  <1>3. GoodMem(n, mp)
    BY <1>2, GoodWhenWritten
  <1> QED
    BY <1>3 DEF n

(* What a walk meets can be read, and its size is right.                   *)
LEMMA MetFacts ==
  ASSUME NEW mp \in SUBSET Addr, NEW m, GoodMem(m, mp), NEW first \in Pointers,
         NEW i \in 1 .. (Len(Walk(m, first)) - 1)
  PROVE  LET a == Walk(m, first)[i]
         IN /\ a \in Addr /\ a + 1 \in Addr /\ a + 2 \in Addr /\ a \in Nat
            /\ m[a] \in Nat /\ m[a] <= MemWords /\ FitsIn(a, m[a], mp)
            /\ a \in Met(Walk(m, first)) /\ a \notin {NULL, Junk}
            /\ Next_of(m, a) \in Values
  <1> DEFINE w == Walk(m, first)
             a == w[i]
  <1>1. IsWalk(m, first, w, MemWords) /\ m \in Memories
    BY WalkFacts, PointerFacts DEF GoodMem
  <1>2. Readable(m, a)
    BY <1>1 DEF IsWalk
  <1>3. a \in Met(w)
    BY DEF Met
  <1> HIDE DEF w, a
  <1>4. /\ a \in Addr /\ a + 1 \in Addr /\ a + 2 \in Addr /\ a \in Nat
        /\ m[a] \in Nat /\ m[a] <= MemWords /\ Next_of(m, a) \in Values
    BY <1>1, <1>2, ReadableFacts
  <1>5. a .. (a + m[a] - 1) \subseteq mp
    <2>1. CASE m[a] = 0
      BY <1>4, <2>1
    <2>2. CASE m[a] # 0
      <3>1. m[a] \in 1 .. MaxWords
        BY <1>4, <2>2, Numbers
      <3> QED
        BY <1>4, <3>1 DEF GoodMem, SizesMapped
    <2> QED
      BY <2>1, <2>2
  <1>6. FitsIn(a, m[a], mp)
    BY <1>4, <1>5, Numbers DEF FitsIn
  <1> QED
    BY <1>3, <1>4, <1>6, Numbers DEF w, a

(* A search along a list comes to a chunk it meets, or to none.            *)
LEMMA SearchMeets ==
  ASSUME NEW m \in Memories, NEW first \in Pointers, NEW wanted,
         Search(Walk(m, first), wanted) \notin {NULL, Junk}
  PROVE  \E i \in 1 .. (Len(Walk(m, first)) - 1) :
           /\ Walk(m, first)[i] \in wanted
           /\ Search(Walk(m, first), wanted) = Walk(m, first)[i]
  <1> DEFINE w == Walk(m, first)
  <1>1. Len(w) \in Nat \ {0}
    BY WalkFacts, PointerFacts DEF IsWalk
  <1> HIDE DEF w
  <1>2. Search(w, wanted) \notin {NULL, Junk}
    BY DEF w
  <1>3. \E i \in 1 .. (Len(w) - 1) : w[i] \in wanted /\ Search(w, wanted) = w[i]
    BY <1>1, <1>2, SearchFacts
  <1> QED
    BY <1>3 DEF w

-----------------------------------------------------------------------------
(* Types                                                                   *)

(* What is known of memory and what is known to a search                   *)
LEMMA TypeParts ==
  ASSUME TypeInv
  PROVE  /\ GoodMem(mem, mapped) /\ mem \in Memories /\ mapped \in SUBSET Addr
         /\ FreeList \in Pointers
         /\ \A l \in live : l.at \in mapped /\ l.at \in Addr /\ l.bytes \in Requests \ {0}
  BY DEF TypeInv, TypeOK, GoodMem, Memories, Values, Pointers

(* The first chunk that is large enough                                    *)
LEMMA FitFacts ==
  ASSUME TypeInv, NEW bytes \in Nat, FirstFit(bytes) \notin {NULL, Junk}
  PROVE  LET a == FirstFit(bytes)
         IN /\ a \in Addr /\ a \in Nat /\ mem[a] \in Nat /\ mem[a] <= MemWords
            /\ FitsIn(a, mem[a], mapped)
            /\ mem[a] >= 3 /\ 8 * mem[a] >= bytes + 8 /\ mem[a] >= Needed(bytes)
            /\ \E i \in 1 .. (Len(Walked) - 1) : a = Walked[i]
  <1> DEFINE w == Walk(mem, FreeList)
             wanted == {a \in Met(w) : /\ 8 * Size(mem, a) >= bytes + ALLOC_MEM_METADATA
                                       /\ 8 * Size(mem, a) >= FREE_MEM_METADATA}
             a == FirstFit(bytes)
  <1>1. a = Search(w, wanted)
    BY DEF FirstFit
  <1>2. PICK i \in 1 .. (Len(w) - 1) : w[i] \in wanted /\ a = w[i]
    <2> HIDE DEF wanted
    <2> QED
      BY <1>1, TypeParts, SearchMeets
  <1>3. /\ a \in Addr /\ a \in Nat /\ mem[a] \in Nat /\ mem[a] <= MemWords
        /\ FitsIn(a, mem[a], mapped)
    BY <1>2, TypeParts, MetFacts
  <1>4. 8 * mem[a] >= bytes + 8 /\ 8 * mem[a] >= 24
    BY <1>2 DEF Size, ALLOC_MEM_METADATA, FREE_MEM_METADATA
  <1>5. mem[a] >= 3
    BY <1>3, <1>4
  <1>6. mem[a] >= Needed(bytes)
    BY <1>3, <1>4, <1>5, NeededFacts
  <1> HIDE DEF a
  <1> QED
    BY <1>2, <1>3, <1>4, <1>5, <1>6 DEF a, Walked

(* Unlinking a chunk leaves memory good.                                   *)
LEMMA UnlinkGood ==
  ASSUME NEW mp, NEW m, GoodMem(m, mp), NEW a, Linked(m, a)
  PROVE  /\ GoodMem(Unlink(m, a), mp)
         /\ Next_of(m, a) \in Pointers /\ Prev_of(m, a) \in Pointers
  <1>1. Next_of(m, a) \in Pointers /\ Prev_of(m, a) \in Pointers
    BY PointerFacts DEF Linked
  <1>2. GoodMem(SetNext(m, Prev_of(m, a), Next_of(m, a)), mp)
    BY <1>1, SetNextGood
  <1> QED
    BY <1>1, <1>2, SetPrevGood DEF Unlink

(* One more chunk is held.                                                 *)
LEMMA HeldType ==
  ASSUME TypeInv, NEW a \in mapped', mapped \subseteq mapped', NEW bytes \in Requests \ {0},
         live' = live \cup {[at |-> a, bytes |-> bytes]}
  PROVE  live' \subseteq [at : mapped', bytes : Requests \ {0}]
  BY DEF TypeInv, TypeOK

(* memalloc from the list keeps the types.                                 *)
LEMMA ListKeepsType ==
  ASSUME TypeInv, NEW bytes \in Requests \ {0}, alloc_from_list(bytes)
  PROVE  TypeInv'
  <1> DEFINE a == FirstFit(bytes)
             size == mem[a]
             needed == Needed(bytes)
             first == IF Prev_of(mem, a) = NULL THEN Next_of(mem, a) ELSE FreeList
             taken == Unlink(mem, a)
             rest == a + needed
             cut == [taken EXCEPT ![a] = needed]
             rested == Chunk(cut, rest, size - needed, first, NULL)
  <1>1. bytes \in Nat
    BY HeapAssumption
  <1>2. /\ a \notin {NULL, Junk} /\ Linked(mem, a) /\ mapped' = mapped
        /\ slips' = slips /\ wild' = wild
        /\ live' = live \cup {[at |-> a, bytes |-> bytes]}
        /\ \/ FreeList' = first /\ mem' = Fill(taken, a, bytes)
           \/ /\ size - needed >= 3
              /\ FreeList' = rest
              /\ mem' = Fill(SetPrev(rested, first, rest), a, bytes)
    BY DEF alloc_from_list, Split, Grant, Size, MinWords
  <1>3. /\ a \in Addr /\ a \in Nat /\ size \in Nat /\ size <= MemWords
        /\ FitsIn(a, size, mapped) /\ size >= 3 /\ size >= needed
    BY <1>1, <1>2, FitFacts
  <1>4. needed \in Nat /\ needed >= 3
    BY <1>1, NeededFacts
  <1> HIDE DEF a, size, needed
  <1>5. GoodMem(taken, mapped) /\ first \in Pointers
    BY <1>2, TypeParts, UnlinkGood
  <1>6. \A x \in a .. (a + size - 1) : x \in mapped /\ x \in Addr
    BY <1>3, TypeParts DEF FitsIn
  <1>7. a \in mapped
    BY <1>3, <1>6
  <1> HIDE DEF first, taken
  <1>8. CASE FreeList' = first /\ mem' = Fill(taken, a, bytes)
    <2>1. GoodMem(mem', mapped)
      BY <1>1, <1>3, <1>5, <1>8, FillGood
    <2>2. FreeList' \in Pointers
      BY <1>5, <1>8
    <2> QED
      BY <1>2, <1>7, <2>1, <2>2, HeldType
      DEF TypeInv, TypeOK, GoodMem, Memories, Values, Pointers
  <1>9. CASE /\ size - needed >= 3 /\ FreeList' = rest
             /\ mem' = Fill(SetPrev(rested, first, rest), a, bytes)
    <2>1. rest \in a .. (a + size - 1) /\ rest \in Nat
      BY <1>3, <1>4, <1>9
    <2>2. rest \in Addr /\ rest \in Pointers /\ NULL \in Pointers
      BY <1>6, <2>1 DEF Pointers
    <2>3. FitsIn(a, needed, mapped)
      BY <1>3, <1>4, Numbers DEF FitsIn
    <2>4. FitsIn(rest, size - needed, mapped)
      <3>1. size - needed \in Nat /\ size - needed <= MaxWords
        BY <1>3, <1>4, Numbers
      <3>2. rest .. (rest + (size - needed) - 1) \subseteq a .. (a + size - 1)
        BY <1>3, <1>4, <2>1
      <3> QED
        BY <1>3, <3>1, <3>2 DEF FitsIn
    <2> HIDE DEF rest
    <2>5. GoodMem(cut, mapped)
      BY <1>3, <1>5, <2>3, SetSizeGood
    <2> HIDE DEF cut
    <2>6. GoodMem(rested, mapped)
      BY <1>5, <2>2, <2>4, <2>5, ChunkGood
    <2> HIDE DEF rested
    <2>7. GoodMem(SetPrev(rested, first, rest), mapped)
      BY <1>5, <2>2, <2>6, SetPrevGood
    <2>8. GoodMem(mem', mapped)
      BY <1>1, <1>3, <1>9, <2>7, FillGood
    <2> QED
      BY <1>2, <1>7, <1>9, <2>2, <2>8, HeldType
      DEF TypeInv, TypeOK, GoodMem, Memories, Values, Pointers
  <1> QED
    BY <1>2, <1>8, <1>9

(* More memory, the sizes stay right.                                      *)
LEMMA MoreMapped ==
  ASSUME NEW mp, NEW m, GoodMem(m, mp), NEW more, mp \subseteq more
  PROVE  GoodMem(m, more)
  BY DEF GoodMem, SizesMapped

(* Whole units from the system                                             *)
LEMMA RegionFacts ==
  ASSUME NEW bytes \in Nat, NEW region \in Regions(bytes), Cardinality(region) - Needed(bytes) >= MinWords
  PROVE  /\ region \subseteq Addr \ mapped
         /\ Min(region) \in Addr /\ Min(region) \in Nat /\ Cardinality(region) \in Nat
         /\ Cardinality(region) <= MemWords
         /\ region = Min(region) .. (Min(region) + Cardinality(region) - 1)
         /\ \E u \in 0 .. (MemUnits - 1) : Min(region) = Base + Unit * u
         /\ Cardinality(region) = Unit * Units(bytes) /\ Units(bytes) \in Nat
  <1>1. PICK u \in 0 .. (MemUnits - 1) :
          /\ region = (Base + Unit * u) .. ((Base + Unit * u) + Unit * Units(bytes) - 1)
          /\ region \subseteq Addr \ mapped
    BY DEF Regions
  <1>2. Units(bytes) \in Nat /\ Unit \in Nat /\ MemUnits \in Nat
    <2>1. 8 * Unit \in Nat \ {0} /\ bytes + 8 + 8 * Unit - 1 \in Nat
      BY HeapAssumption
    <2>2. \A x \in Nat, d \in Nat \ {0} : x \div d \in Nat
      OBVIOUS
    <2> QED
      BY <2>1, <2>2, HeapAssumption DEF Units, ALLOC_MEM_METADATA
  <1> DEFINE a == Base + Unit * u
             k == Unit * Units(bytes)
  <1>3. a \in Nat /\ k \in Nat
    BY <1>2, Numbers
  <1>4. region = a .. (a + k - 1) /\ k = Unit * Units(bytes) /\ a = Base + Unit * u
    BY <1>1
  <1> HIDE DEF a, k
  <1>5. Cardinality(region) = k
    <2>1. Cardinality(a .. (a + k - 1)) = IF a > a + k - 1 THEN 0 ELSE (a + k - 1) - a + 1
      BY <1>3, FS_Interval
    <2> QED
      BY <1>3, <1>4, <2>1
  <1>6. k > 0
    BY <1>3, <1>5, NeededFacts DEF MinWords
  <1>7. Min(region) = a
    <2>1. a \in region /\ \A x \in region : x \in Nat /\ a <= x
      BY <1>3, <1>4, <1>6
    <2>2. \A x \in region : (\A y \in region : x <= y) => x = a
      BY <1>3, <2>1
    <2> QED
      BY <2>1, <2>2 DEF Min
  <1>8. a \in Addr /\ k <= MemWords
    <2>1. a \in region /\ a + k - 1 \in region
      BY <1>3, <1>4, <1>6
    <2>2. a \in Addr /\ a + k - 1 \in Addr
      BY <1>1, <2>1
    <2> QED
      BY <1>3, <2>2, Numbers
  <1> QED
    BY <1>1, <1>2, <1>3, <1>4, <1>5, <1>7, <1>8

(* memalloc from new memory keeps the types.                               *)
LEMMA SystemKeepsType ==
  ASSUME TypeInv, NEW bytes \in Requests \ {0}, alloc_from_system(bytes)
  PROVE  TypeInv'
  <1>1. bytes \in Nat
    BY HeapAssumption
  <1>2. PICK region \in Regions(bytes) :
          LET a == Min(region)
              rest == a + Needed(bytes)
              left == Cardinality(region) - Needed(bytes)
          IN /\ left >= MinWords
             /\ mapped' = mapped \cup region
             /\ FreeList' = rest
             /\ Grant(Push([mem EXCEPT ![a] = Needed(bytes)], rest, left), a, bytes)
    BY DEF alloc_from_system
  <1> DEFINE a == Min(region)
             k == Cardinality(region)
             needed == Needed(bytes)
             rest == a + needed
             sized == [mem EXCEPT ![a] = needed]
             rested == Chunk(sized, rest, k - needed, FreeList, NULL)
  <1>3. /\ k - needed >= 3 /\ mapped' = mapped \cup region /\ FreeList' = rest
        /\ mem' = Fill(SetPrev(rested, FreeList, rest), a, bytes)
        /\ slips' = slips /\ wild' = wild
        /\ live' = live \cup {[at |-> a, bytes |-> bytes]}
    BY <1>2 DEF Push, Grant, MinWords
  <1>4. /\ region \subseteq Addr \ mapped /\ a \in Addr /\ a \in Nat /\ k \in Nat /\ k <= MemWords
        /\ region = a .. (a + k - 1)
    BY <1>1, <1>2, RegionFacts
  <1>5. needed \in Nat /\ needed >= 3
    BY <1>1, NeededFacts
  <1> HIDE DEF a, k, needed
  <1>6. GoodMem(mem, mapped') /\ FreeList \in Pointers
    BY <1>3, TypeParts, MoreMapped
  <1>7. FitsIn(a, needed, mapped') /\ FitsIn(rest, k - needed, mapped')
    <2>1. needed <= MaxWords /\ k - needed \in Nat /\ k - needed <= MaxWords
      BY <1>3, <1>4, <1>5, Numbers
    <2>2. a .. (a + needed - 1) \subseteq region /\ rest .. (rest + (k - needed) - 1) \subseteq region
      BY <1>3, <1>4, <1>5
    <2> QED
      BY <1>3, <1>5, <2>1, <2>2 DEF FitsIn
  <1>8. rest \in region /\ a \in region
    BY <1>3, <1>4, <1>5
  <1>9. rest \in Addr /\ rest \in Pointers /\ NULL \in Pointers /\ a \in mapped'
    BY <1>3, <1>4, <1>8 DEF Pointers
  <1> HIDE DEF rest
  <1>10. GoodMem(sized, mapped')
    BY <1>4, <1>6, <1>7, SetSizeGood
  <1> HIDE DEF sized
  <1>11. GoodMem(rested, mapped')
    BY <1>6, <1>7, <1>9, <1>10, ChunkGood
  <1> HIDE DEF rested
  <1>12. GoodMem(SetPrev(rested, FreeList, rest), mapped')
    BY <1>6, <1>9, <1>11, SetPrevGood
  <1>13. GoodMem(mem', mapped')
    BY <1>1, <1>3, <1>4, <1>12, FillGood
  <1>14. mapped' \subseteq Addr
    BY <1>3, <1>4, TypeParts
  <1>15. live' \subseteq [at : mapped', bytes : Requests \ {0}]
    BY <1>3, <1>9, HeldType
  <1> QED
    BY <1>3, <1>9, <1>13, <1>14, <1>15
    DEF TypeInv, TypeOK, GoodMem, Memories, Values, Pointers

(* Two stretches of memory of which one begins where the other ends        *)
LEMMA FitsJoined ==
  ASSUME NEW mp, NEW a \in Nat, NEW s, NEW t, FitsIn(a, s, mp), FitsIn(a + s, t, mp), s + t <= MaxWords
  PROVE  FitsIn(a, s + t, mp)
  <1>1. s \in Nat /\ t \in Nat /\ s + t \in Nat
    BY DEF FitsIn
  <1>2. a .. (a + (s + t) - 1) \subseteq (a .. (a + s - 1)) \cup ((a + s) .. (a + s + t - 1))
    BY <1>1
  <1> QED
    BY <1>1, <1>2 DEF FitsIn

(* A chunk that is freed, with its neighbours                              *)
LEMMA LooseFacts ==
  ASSUME TypeInv, NEW l \in live, mem[l.at] \in 0 .. MemWords
  PROVE  LET a == l.at
             m == Loose(a)
         IN /\ a \in Addr /\ a \in Nat /\ GoodMem(m, mapped) /\ m \in Memories
            /\ m[a] = mem[a] /\ FitsIn(a, mem[a], mapped) /\ mem[a] \in Nat
            /\ \A x \in Addr : m[x] = IF x = a + 1 \/ x = a + 2 THEN NULL ELSE mem[x]
  <1> DEFINE a == l.at
             m == Loose(a)
  <1>1. a \in Addr /\ a \in Nat /\ mem[a] \in Nat /\ mem[a] <= MemWords
    BY TypeParts, Numbers
  <1>2. m = Chunk(mem, a, mem[a], NULL, NULL)
    BY DEF Loose, Size
  <1> HIDE DEF a, m
  <1>3. FitsIn(a, mem[a], mapped)
    <2>1. CASE mem[a] = 0
      BY <1>1, <2>1, Numbers DEF FitsIn
    <2>2. CASE mem[a] # 0
      <3>1. mem[a] \in 1 .. MaxWords
        BY <1>1, <2>2, Numbers
      <3> QED
        BY <1>1, <3>1, TypeParts DEF FitsIn, GoodMem, SizesMapped
    <2> QED
      BY <2>1, <2>2
  <1>4. GoodMem(m, mapped)
    <2>1. NULL \in Pointers
      BY DEF Pointers
    <2> QED
      BY <1>1, <1>2, <1>3, <2>1, TypeParts, ChunkGood
  <1>5. \A x \in Addr : m[x] = IF x = a + 1 \/ x = a + 2 THEN NULL ELSE mem[x]
    <2>1. mem[a] \in Values /\ NULL \in Values
      BY <1>3, FitsValue, Numbers
    <2>2. \A x \in Addr : m[x] =
            IF x = a THEN mem[a] ELSE IF x = a + 1 THEN NULL ELSE IF x = a + 2 THEN NULL ELSE mem[x]
      BY <1>1, <1>2, <2>1, TypeParts, ChunkAt
    <2> QED
      BY <1>1, <2>2
  <1>6. m[a] = mem[a] /\ m \in Memories
    BY <1>1, <1>4, <1>5 DEF GoodMem
  <1> QED
    BY <1>1, <1>3, <1>4, <1>5, <1>6 DEF a, m

(* What memfree finds on the right is where the chunk ends.                *)
LEMMA RightFacts ==
  ASSUME TypeInv, NEW l \in live, mem[l.at] \in 0 .. MemWords, RightOf(l.at) \notin {NULL, Junk}
  PROVE  LET a == l.at
             next == RightOf(a)
             m == Loose(a)
         IN /\ next = a + mem[a] /\ next \in Addr /\ m[next] <= MemWords
            /\ FitsIn(next, m[next], mapped)
  <1> DEFINE a == l.at
             m == Loose(a)
             w == Walk(m, FreeList)
             wanted == {a + mem[a]}
             next == RightOf(a)
  <1>1. m \in Memories /\ GoodMem(m, mapped) /\ FreeList \in Pointers /\ mapped \in SUBSET Addr
    BY LooseFacts, TypeParts
  <1>2. next = Search(w, wanted)
    BY DEF RightOf, Size
  <1> HIDE DEF m, a, wanted
  <1>3. PICK i \in 1 .. (Len(w) - 1) : w[i] \in wanted /\ next = w[i]
    BY <1>1, <1>2, SearchMeets DEF a
  <1>4. w[i] \in Addr /\ m[w[i]] <= MemWords /\ FitsIn(w[i], m[w[i]], mapped)
    BY <1>1, MetFacts
  <1> HIDE DEF next, w
  <1>5. next \in wanted /\ next \in Addr /\ m[next] <= MemWords /\ FitsIn(next, m[next], mapped)
    BY <1>3, <1>4
  <1> QED
    BY <1>5 DEF next, wanted, a, m

(* What memfree finds on the left ends where the chunk begins.             *)
LEMMA LeftFacts ==
  ASSUME TypeInv, NEW l \in live, mem[l.at] \in 0 .. MemWords, LeftOf(l.at) \notin {NULL, Junk}
  PROVE  LET a == l.at
             prev == LeftOf(a)
             m == Loose(a)
         IN /\ prev \in Addr /\ prev \in Nat /\ prev + m[prev] = a /\ m[prev] <= MemWords
            /\ m[prev] \in Nat /\ FitsIn(prev, m[prev], mapped)
  <1> DEFINE a == l.at
             m == Loose(a)
             w == Walk(m, FreeList)
             wanted == {p \in Met(w) : p + m[p] = a}
             prev == LeftOf(a)
  <1>1. m \in Memories /\ GoodMem(m, mapped) /\ FreeList \in Pointers /\ mapped \in SUBSET Addr
    BY LooseFacts, TypeParts
  <1>2. prev = Search(w, wanted)
    BY DEF LeftOf, Size
  <1> HIDE DEF m, a, wanted
  <1>3. PICK i \in 1 .. (Len(w) - 1) : w[i] \in wanted /\ prev = w[i]
    BY <1>1, <1>2, SearchMeets DEF a
  <1>4. /\ w[i] \in Addr /\ w[i] \in Nat /\ m[w[i]] <= MemWords /\ m[w[i]] \in Nat
        /\ FitsIn(w[i], m[w[i]], mapped)
    BY <1>1, MetFacts
  <1>5. w[i] + m[w[i]] = a
    BY <1>3 DEF wanted
  <1> HIDE DEF prev, w
  <1>6. /\ prev \in Addr /\ prev \in Nat /\ m[prev] <= MemWords /\ m[prev] \in Nat
        /\ FitsIn(prev, m[prev], mapped) /\ prev + m[prev] = a
    BY <1>3, <1>4, <1>5
  <1> QED
    BY <1>6 DEF prev, a, m

(* What is left of the type invariant once memory and list are right       *)
LEMMA ReleasedType ==
  ASSUME TypeInv, NEW a, NEW m, Released(a, m), GoodMem(m, mapped), FreeList' \in Pointers,
         slips' \subseteq {"predecessor", "rest", "order"}
  PROVE  TypeInv'
  <1>1. /\ mem' = m /\ live' \subseteq live /\ mapped' = mapped /\ wild' = wild
    BY DEF Released
  <1> QED
    BY <1>1 DEF TypeInv, TypeOK, GoodMem, Memories, Values, Pointers

(* Every free keeps the types, one that bends the list, too.               *)
LEMMA FreeKeepsType ==
  ASSUME TypeInv, NEW l \in live, memfree(l.at)
  PROVE  TypeInv'
  <1> DEFINE a == l.at
             m == Loose(a)
             size == mem[a]
             next == RightOf(a)
             prev == LeftOf(a)
  <1>1. CASE free_strays(a)
    BY <1>1 DEF free_strays, Strays, TypeInv, TypeOK
  <1>2. ASSUME mem[a] \in 0 .. MemWords,
               free_alone(a) \/ free_joins_right(a) \/ free_joins_left(a) \/ free_joins_both(a)
        PROVE  TypeInv'
    <2>1. /\ a \in Addr /\ a \in Nat /\ GoodMem(m, mapped)
          /\ m[a] = size /\ FitsIn(a, size, mapped) /\ size \in Nat /\ size <= MemWords
      BY <1>2, LooseFacts
    <2>2. /\ a \in Pointers /\ NULL \in Pointers /\ FreeList \in Pointers
          /\ slips \subseteq {"predecessor", "rest", "order"}
      BY <2>1, TypeParts DEF Pointers, TypeInv, TypeOK
    <2>3. next \notin {NULL, Junk} =>
            /\ next = a + size /\ next \in Addr /\ m[next] <= MemWords
            /\ FitsIn(next, m[next], mapped) /\ m[next] \in Nat
      BY <1>2, RightFacts DEF FitsIn
    <2>4. prev \notin {NULL, Junk} =>
            /\ prev \in Addr /\ prev \in Nat /\ prev + m[prev] = a /\ m[prev] <= MemWords
            /\ m[prev] \in Nat /\ FitsIn(prev, m[prev], mapped)
      BY <1>2, LeftFacts
    <2>5. \A s \in Nat : s <= 3 * MemWords => s <= MaxWords
      BY Numbers
    <2>6. MemWords \in Nat
      BY Numbers
    <2>7. CASE free_alone(a)
      <3>1. GoodMem(Chunk(m, a, size, FreeList, NULL), mapped)
        <4> HIDE DEF m, a, size
        <4> QED
          BY <2>1, <2>2, ChunkGood
      <3>2. GoodMem(Push(m, a, size), mapped)
        <4> HIDE DEF m, a, size
        <4> QED
          BY <2>2, <3>1, SetPrevGood DEF Push
      <3> QED
        BY <2>2, <2>7, <3>2, ReleasedType DEF free_alone, Size
    <2>8. CASE free_joins_right(a)
      <3> DEFINE after == Next_of(m, next)
                 whole == size + m[next]
                 new == SetPrev(Chunk(m, a, whole, after, NULL), after, a)
      <3>1. /\ next \notin {NULL, Junk} /\ Pointer(after)
            /\ FreeList' = IF FreeList = next THEN a ELSE FreeList
            /\ Released(a, new)
            /\ slips' = IF FreeList = next THEN slips ELSE slips \cup {"predecessor"}
        BY <2>1, <2>8 DEF free_joins_right, Size
      <3>2. after \in Pointers
        BY <3>1, PointerFacts
      <3>3. FitsIn(a, whole, mapped)
        <4> HIDE DEF m, a, size, next
        <4>1. size + m[next] <= MaxWords
          BY <2>1, <2>3, <2>5, <2>6, <3>1
        <4>2. FitsIn(a + size, m[next], mapped)
          BY <2>3, <3>1
        <4> QED
          BY <2>1, <4>1, <4>2, FitsJoined
      <3>4. GoodMem(new, mapped)
        <4> HIDE DEF m, a, size, next, whole, after
        <4>1. GoodMem(Chunk(m, a, whole, after, NULL), mapped)
          BY <2>1, <2>2, <3>2, <3>3, ChunkGood
        <4> QED
          BY <2>2, <3>2, <4>1, SetPrevGood
      <3> HIDE DEF new, m, next
      <3> QED
        BY <2>2, <3>1, <3>4, ReleasedType
    <2>9. CASE free_joins_left(a)
      <3> DEFINE sized == [m EXCEPT ![prev] = @ + m[a]]
                 new == SetNext(sized, prev, NULL)
      <3>1. /\ prev \notin {NULL, Junk} /\ FreeList' = FreeList
            /\ Released(a, new)
            /\ slips' = IF Next_of(m, prev) = NULL THEN slips ELSE slips \cup {"rest"}
        BY <2>9 DEF free_joins_left, Size
      <3>2. FitsIn(prev, m[prev] + m[a], mapped)
        <4> HIDE DEF m, a, size, prev
        <4>1. m[prev] + m[a] <= MaxWords
          BY <2>1, <2>4, <2>5, <2>6, <3>1
        <4>2. FitsIn(prev + m[prev], m[a], mapped)
          BY <2>1, <2>4, <3>1
        <4> QED
          BY <2>4, <3>1, <4>1, <4>2, FitsJoined
      <3>3. prev \in Addr /\ prev \in Pointers
        BY <2>4, <3>1 DEF Pointers
      <3> DEFINE s == m[prev] + m[a]
      <3>4. sized = [m EXCEPT ![prev] = s] /\ FitsIn(prev, s, mapped)
        BY <3>2
      <3>5. GoodMem(new, mapped)
        <4> HIDE DEF m, a, size, prev, s, sized
        <4>1. GoodMem(sized, mapped)
          BY <2>1, <3>3, <3>4, SetSizeGood
        <4> QED
          BY <2>2, <3>3, <4>1, SetNextGood
      <3> HIDE DEF new, m, prev
      <3> QED
        BY <2>2, <3>1, <3>5, ReleasedType
    <2>10. CASE free_joins_both(a)
      <3> DEFINE after == Next_of(m, next)
                 sized == [m EXCEPT ![prev] = @ + m[a] + m[next]]
                 new == SetPrev(SetNext(sized, prev, after), after, prev)
      <3>1. /\ prev \notin {NULL, Junk} /\ next \notin {NULL, Junk} /\ Pointer(after)
            /\ FreeList' = FreeList
            /\ Released(a, new)
            /\ slips' \subseteq slips \cup {"rest", "order"}
        BY <2>10 DEF free_joins_both, Size
      <3>2. FitsIn(prev, (m[prev] + m[a]) + m[next], mapped)
        <4> HIDE DEF m, a, size, prev, next
        <4>1. m[prev] + m[a] <= MaxWords /\ (m[prev] + m[a]) + m[next] <= MaxWords
          BY <2>1, <2>3, <2>4, <2>5, <2>6, <3>1
        <4>2. FitsIn(prev + m[prev], m[a], mapped)
          BY <2>1, <2>4, <3>1
        <4>3. FitsIn(prev, m[prev] + m[a], mapped)
          BY <2>4, <3>1, <4>1, <4>2, FitsJoined
        <4>4. prev + (m[prev] + m[a]) = next
          BY <2>1, <2>3, <2>4, <3>1
        <4>5. FitsIn(prev + (m[prev] + m[a]), m[next], mapped)
          BY <2>3, <3>1, <4>4
        <4> DEFINE s == m[prev] + m[a]
        <4> HIDE DEF s
        <4>6. FitsIn(prev, s + m[next], mapped)
          BY <2>4, <3>1, <4>1, <4>3, <4>5, FitsJoined DEF s
        <4> QED
          BY <4>6 DEF s
      <3>3. prev \in Addr /\ prev \in Pointers /\ after \in Pointers
        BY <2>4, <3>1, PointerFacts DEF Pointers
      <3> DEFINE s == (m[prev] + m[a]) + m[next]
      <3>4. sized = [m EXCEPT ![prev] = s] /\ FitsIn(prev, s, mapped)
        BY <3>2
      <3>5. GoodMem(new, mapped)
        <4> HIDE DEF m, a, size, prev, s, sized, next, after
        <4>1. GoodMem(sized, mapped)
          BY <2>1, <3>3, <3>4, SetSizeGood
        <4>2. GoodMem(SetNext(sized, prev, after), mapped)
          BY <3>3, <4>1, SetNextGood
        <4> QED
          BY <3>3, <4>2, SetPrevGood
      <3>6. FreeList' \in Pointers /\ slips' \subseteq {"predecessor", "rest", "order"}
        BY <2>2, <3>1
      <3> HIDE DEF new, m, prev
      <3> QED
        BY <3>1, <3>5, <3>6, ReleasedType
    <2> QED
      BY <1>2, <2>7, <2>8, <2>9, <2>10
  <1> QED
    BY <1>1, <1>2 DEF memfree

(* Every step does.                                                        *)
LEMMA TypeStep ==
  ASSUME TypeInv, [Next]_vars
  PROVE  TypeInv'
  <1>1. ASSUME NEW bytes \in Requests, memalloc(bytes) PROVE TypeInv'
    <2>1. bytes \in Nat
      BY HeapAssumption
    <2>2. CASE bytes > 0 /\ alloc_from_list(bytes)
      BY <2>1, <2>2, ListKeepsType
    <2>3. CASE bytes > 0 /\ alloc_from_system(bytes)
      BY <2>1, <2>3, SystemKeepsType
    <2>4. CASE alloc_refused(bytes)
      BY <2>4 DEF alloc_refused, vars, TypeInv, TypeOK
    <2>5. CASE alloc_overruns(bytes) \/ alloc_strays(bytes)
      BY <2>5 DEF alloc_overruns, alloc_strays, Strays, TypeInv, TypeOK
    <2> QED
      BY <1>1, <2>2, <2>3, <2>4, <2>5 DEF memalloc
  <1>2. ASSUME NEW l \in live, memfree(l.at) PROVE TypeInv'
    BY <1>2, FreeKeepsType
  <1>3. CASE UNCHANGED vars
    BY <1>3 DEF vars, TypeInv, TypeOK
  <1> QED
    BY <1>1, <1>2, <1>3 DEF Next

(* At the start there is no memory.                                        *)
LEMMA TypeInit ==
  ASSUME Init
  PROVE  TypeInv
  <1>1. mem \in Memories /\ \A a \in Addr : mem[a] \notin 1 .. MaxWords
    BY Numbers DEF Init, Memories
  <1> QED
    BY <1>1 DEF Init, TypeInv, TypeOK, SizesMapped, Memories, Values

(* Memory and the list are of their types, whatever the program frees and  *)
(* however bent the list.                                                  *)
THEOREM TypesHold == Spec => []TypeOK
  <1>1. Init => TypeInv
    BY TypeInit
  <1>2. TypeInv /\ [Next]_vars => TypeInv'
    BY TypeStep
  <1>3. TypeInv => TypeOK
    BY DEF TypeInv
  <1> QED
    BY <1>1, <1>2, <1>3, PTL DEF Spec

-----------------------------------------------------------------------------
(* Lists                                                                   *)

(* The neighbours of the k-th chunk of list c                              *)
Succ(c, k) == IF k < Len(c) THEN c[k + 1] ELSE NULL
Pred(c, k) == IF k > 1 THEN c[k - 1] ELSE NULL

(* The list that begins with first has the chunks of c.  Without the       *)
(* pointer back of its first chunk it is a tail.                           *)
IsTail(m, first, c) ==
  /\ first = Succ(c, 0)
  /\ \A k \in 1 .. Len(c) : m[c[k] + 1] = Succ(c, k)
  /\ \A k \in 2 .. Len(c) : m[c[k] + 2] = Pred(c, k)
IsList(m, first, c) == IsTail(m, first, c) /\ (Len(c) > 0 => m[c[1] + 2] = NULL)

(* Chunks with room for their fields                                       *)
Spread(c) ==
  /\ c \in Seq(Addr)
  /\ \A k \in 1 .. Len(c) : c[k] + 1 \in Addr /\ c[k] + 2 \in Addr
  /\ \A k, j \in 1 .. Len(c) : k # j => c[k] + 3 <= c[j] \/ c[j] + 3 <= c[k]

Listing(c) == {c[k] : k \in 1 .. Len(c)}

(* The list without its i-th to j-th chunk, and with one more before it    *)
Cut(c, i, j) == [k \in 1 .. (Len(c) - (j + 1 - i)) |-> IF k < i THEN c[k] ELSE c[k + (j + 1 - i)]]
Before(a, c) == [k \in 1 .. (Len(c) + 1) |-> IF k = 1 THEN a ELSE c[k - 1]]

(* A function on 1 .. n is a sequence.                                     *)
LEMMA SequenceOf ==
  ASSUME NEW S, NEW n \in Nat, NEW f, f = [k \in 1 .. n |-> f[k]], \A k \in 1 .. n : f[k] \in S
  PROVE  f \in Seq(S) /\ Len(f) = n
  <1>1. f \in [1 .. n -> S]
    OBVIOUS
  <1>2. f \in Seq(S)
    BY <1>1
  <1>3. DOMAIN f = 1 .. n
    BY <1>1
  <1> QED
    BY <1>2, <1>3

(* The fields of one chunk are not those of another.                       *)
LEMMA SpreadFacts ==
  ASSUME NEW c, Spread(c)
  PROVE  /\ Len(c) \in Nat /\ c \in Seq(Addr)
         /\ \A k \in 1 .. Len(c) : c[k] \in Addr /\ c[k] \in Nat /\ c[k] # NULL
         /\ \A k, j \in 1 .. Len(c) : c[k] = c[j] => k = j
         /\ \A k, j \in 1 .. Len(c) : c[k] + 1 # c[j] + 2 /\ c[k] # c[j] + 1 /\ c[k] # c[j] + 2
         /\ \A k, j \in 1 .. Len(c) : c[k] + 1 = c[j] + 1 => k = j
         /\ \A k, j \in 1 .. Len(c) : c[k] + 2 = c[j] + 2 => k = j
  <1>1. Len(c) \in Nat /\ c \in Seq(Addr)
    BY DEF Spread
  <1>2. \A k \in 1 .. Len(c) : c[k] \in Addr /\ c[k] \in Nat /\ c[k] # NULL
    BY <1>1, Numbers
  <1>3. ASSUME NEW k \in 1 .. Len(c), NEW j \in 1 .. Len(c)
        PROVE  /\ c[k] = c[j] => k = j
               /\ c[k] + 1 # c[j] + 2 /\ c[k] # c[j] + 1 /\ c[k] # c[j] + 2
               /\ c[k] + 1 = c[j] + 1 => k = j
               /\ c[k] + 2 = c[j] + 2 => k = j
    <2>1. k # j => c[k] + 3 <= c[j] \/ c[j] + 3 <= c[k]
      BY DEF Spread
    <2>2. c[k] \in Nat /\ c[j] \in Nat
      BY <1>2
    <2> QED
      BY <2>1, <2>2
  <1> QED
    BY <1>1, <1>2, <1>3

(* Where the chunks of a cut list were before                              *)
LEMMA CutFacts ==
  ASSUME NEW c, c \in Seq(Addr), NEW i \in 1 .. (Len(c) + 1), NEW j \in (i - 1) .. Len(c)
  PROVE  LET d == Cut(c, i, j)
             g == j + 1 - i
         IN /\ d \in Seq(Addr) /\ Len(d) = Len(c) - g /\ g \in Nat /\ Len(c) \in Nat
            /\ \A k \in 1 .. Len(d) : k < i => k \in 1 .. Len(c) /\ d[k] = c[k]
            /\ \A k \in 1 .. Len(d) : ~(k < i) => k + g \in 1 .. Len(c) /\ d[k] = c[k + g]
            /\ Listing(d) \subseteq Listing(c)
            /\ \A k \in 1 .. Len(c) : k < i \/ k > j => c[k] \in Listing(d)
  <1> DEFINE d == Cut(c, i, j)
             g == j + 1 - i
             n == Len(c) - g
  <1>1. g \in Nat /\ n \in Nat /\ Len(c) \in Nat /\ n + g = Len(c) /\ i - 1 <= n
    OBVIOUS
  <1>2. d = [k \in 1 .. n |-> IF k < i THEN c[k] ELSE c[k + g]]
    BY DEF Cut
  <1>3. g = j + 1 - i
    OBVIOUS
  <1> HIDE DEF d, g, n
  <1>4. \A k \in 1 .. n : k < i => k \in 1 .. Len(c) /\ d[k] = c[k]
    BY <1>1, <1>2
  <1>5. \A k \in 1 .. n : ~(k < i) => k + g \in 1 .. Len(c) /\ d[k] = c[k + g]
    BY <1>1, <1>2
  <1>6. \A k \in 1 .. Len(c) : c[k] \in Addr
    OBVIOUS
  <1>7. \A k \in 1 .. n : d[k] \in Addr
    BY <1>4, <1>5, <1>6
  <1>8. d = [k \in 1 .. n |-> d[k]]
    BY <1>2
  <1>9. d \in Seq(Addr) /\ Len(d) = n
    BY <1>1, <1>7, <1>8, SequenceOf
  <1>10. Listing(d) \subseteq Listing(c)
    <2>1. ASSUME NEW k \in 1 .. n PROVE d[k] \in Listing(c)
      <3>1. k < i => d[k] \in Listing(c)
        BY <1>4 DEF Listing
      <3>2. ~(k < i) => d[k] \in Listing(c)
        BY <1>5 DEF Listing
      <3> QED
        BY <3>1, <3>2
    <2> QED
      BY <1>9, <2>1 DEF Listing
  <1>11. ASSUME NEW k \in 1 .. Len(c), k < i \/ k > j PROVE c[k] \in Listing(d)
    <2>1. CASE k < i
      <3>1. k \in 1 .. n
        BY <1>1, <2>1
      <3> QED
        BY <1>4, <1>9, <2>1, <3>1 DEF Listing
    <2>2. CASE k > j
      <3>1. k - g \in 1 .. n /\ ~(k - g < i) /\ (k - g) + g = k
        BY <1>1, <1>3, <2>2
      <3> QED
        BY <1>5, <1>9, <3>1 DEF Listing
    <2> QED
      BY <1>11, <2>1, <2>2
  <1>12. n = Len(c) - g
    BY DEF n
  <1> QED
    BY <1>1, <1>4, <1>5, <1>9, <1>10, <1>11, <1>12 DEF d, g

(* Where those of a longer list were                                       *)
LEMMA BeforeFacts ==
  ASSUME NEW c, c \in Seq(Addr), NEW a \in Addr
  PROVE  LET d == Before(a, c)
         IN /\ d \in Seq(Addr) /\ Len(d) = Len(c) + 1 /\ Len(c) \in Nat /\ d[1] = a
            /\ \A k \in 2 .. Len(d) : k - 1 \in 1 .. Len(c) /\ d[k] = c[k - 1]
            /\ Listing(d) = Listing(c) \cup {a}
  <1> DEFINE d == Before(a, c)
             n == Len(c) + 1
  <1>1. Len(c) \in Nat /\ n \in Nat /\ n - 1 = Len(c)
    OBVIOUS
  <1>2. d = [k \in 1 .. n |-> IF k = 1 THEN a ELSE c[k - 1]]
    BY DEF Before
  <1> HIDE DEF d, n
  <1>3. 1 \in 1 .. n /\ d[1] = a
    BY <1>1, <1>2
  <1>4. \A k \in 2 .. n : k \in 1 .. n /\ k - 1 \in 1 .. Len(c) /\ d[k] = c[k - 1]
    BY <1>1, <1>2
  <1>5. \A k \in 1 .. n : k = 1 \/ k \in 2 .. n
    BY <1>1
  <1>6. \A k \in 1 .. Len(c) : c[k] \in Addr
    OBVIOUS
  <1>7. \A k \in 1 .. n : d[k] \in Addr
    BY <1>3, <1>4, <1>5, <1>6
  <1>8. d = [k \in 1 .. n |-> d[k]]
    BY <1>2
  <1>9. d \in Seq(Addr) /\ Len(d) = n
    BY <1>1, <1>7, <1>8, SequenceOf
  <1>10. Listing(d) \subseteq Listing(c) \cup {a}
    BY <1>3, <1>4, <1>5, <1>9 DEF Listing
  <1>11. \A k \in 1 .. Len(c) : k + 1 \in 2 .. n /\ (k + 1) - 1 = k
    BY <1>1
  <1>12. Listing(c) \cup {a} \subseteq Listing(d)
    BY <1>3, <1>4, <1>9, <1>11 DEF Listing
  <1>13. n = Len(c) + 1
    BY DEF n
  <1> QED
    BY <1>1, <1>3, <1>4, <1>9, <1>10, <1>12, <1>13 DEF d

(* What is left of a list with room for all fields has that room.          *)
LEMMA CutSpread ==
  ASSUME NEW c, Spread(c), NEW i \in 1 .. (Len(c) + 1), NEW j \in (i - 1) .. Len(c)
  PROVE  Spread(Cut(c, i, j))
  <1> DEFINE d == Cut(c, i, j)
             g == j + 1 - i
             At(k) == IF k < i THEN k ELSE k + g
  <1>1. c \in Seq(Addr)
    BY DEF Spread
  <1>2. /\ d \in Seq(Addr) /\ g \in Nat
        /\ \A k \in 1 .. Len(d) : k < i => k \in 1 .. Len(c) /\ d[k] = c[k]
        /\ \A k \in 1 .. Len(d) : ~(k < i) => k + g \in 1 .. Len(c) /\ d[k] = c[k + g]
    BY <1>1, CutFacts
  <1> HIDE DEF d, g
  <1>3. \A k \in 1 .. Len(d) : At(k) \in 1 .. Len(c) /\ d[k] = c[At(k)]
    BY <1>2
  <1>4. \A k, n \in 1 .. Len(d) : k # n => At(k) # At(n)
    BY <1>2
  <1> HIDE DEF At
  <1> QED
    BY <1>2, <1>3, <1>4 DEF Spread, d

(* A list is there as long as its pointers are.                            *)
LEMMA ListFrame ==
  ASSUME NEW m, NEW n, NEW first, NEW c,
         \A k \in 1 .. Len(c) : n[c[k] + 1] = m[c[k] + 1] /\ n[c[k] + 2] = m[c[k] + 2],
         Len(c) \in Nat
  PROVE  /\ IsList(m, first, c) => IsList(n, first, c)
         /\ IsTail(m, first, c) => IsTail(n, first, c)
  <1>1. \A k \in 2 .. Len(c) : k \in 1 .. Len(c)
    OBVIOUS
  <1>2. Len(c) > 0 => 1 \in 1 .. Len(c)
    OBVIOUS
  <1> QED
    BY <1>1, <1>2 DEF IsList, IsTail

(* The pointers of a cut that is made by linking what was before it with   *)
(* what was behind it                                                      *)
LEMMA CutLinks ==
  ASSUME NEW m \in Memories, NEW c, Spread(c), NEW first, IsList(m, first, c),
         NEW i \in 1 .. (Len(c) + 1), NEW j \in (i - 1) .. Len(c)
  PROVE  IsList(SetPrev(SetNext(m, Pred(c, i), Succ(c, j)), Succ(c, j), Pred(c, i)),
                IF i = 1 THEN Succ(c, j) ELSE first, Cut(c, i, j))
  <1> DEFINE d == Cut(c, i, j)
             g == j + 1 - i
             p == Pred(c, i)
             s == Succ(c, j)
             m1 == SetNext(m, p, s)
             n == SetPrev(m1, s, p)
             top == IF i = 1 THEN s ELSE first
  <1>1. /\ Len(c) \in Nat /\ c \in Seq(Addr)
        /\ \A k \in 1 .. Len(c) : c[k] \in Addr /\ c[k] \in Nat /\ c[k] # NULL
        /\ \A k \in 1 .. Len(c) : c[k] + 1 \in Addr /\ c[k] + 2 \in Addr
        /\ \A k, h \in 1 .. Len(c) : c[k] + 1 # c[h] + 2
        /\ \A k, h \in 1 .. Len(c) : c[k] + 1 = c[h] + 1 => k = h
        /\ \A k, h \in 1 .. Len(c) : c[k] + 2 = c[h] + 2 => k = h
    BY SpreadFacts DEF Spread
  <1>2. /\ Len(d) = Len(c) - g /\ g \in Nat /\ Len(d) \in Nat
        /\ \A k \in 1 .. Len(d) : k < i => k \in 1 .. Len(c) /\ d[k] = c[k]
        /\ \A k \in 1 .. Len(d) : ~(k < i) => k + g \in 1 .. Len(c) /\ d[k] = c[k + g]
    BY <1>1, CutFacts
  <1>3. i \in Nat /\ j \in Nat /\ g = j + 1 - i /\ i >= 1 /\ j <= Len(c) /\ j >= i - 1
    BY <1>1
  <1>4. /\ i = 1 => p = NULL
        /\ i # 1 => i - 1 \in 1 .. Len(c) /\ p = c[i - 1]
        /\ j = Len(c) => s = NULL
        /\ j # Len(c) => j + 1 \in 1 .. Len(c) /\ s = c[j + 1]
    BY <1>1, <1>3 DEF Pred, Succ
  <1>5. p \in Pointers /\ s \in Pointers /\ p \in Values /\ s \in Values
    BY <1>1, <1>4, PointerFacts DEF Pointers
  <1>6. /\ \A x \in Addr : m1[x] = IF p # NULL /\ x = p + 1 THEN s ELSE m[x]
        /\ \A x \in Addr : n[x] = IF s # NULL /\ x = s + 2 THEN p ELSE m1[x]
    <2> HIDE DEF p, s
    <2>1. m1 \in Memories /\ \A x \in Addr : m1[x] = IF p # NULL /\ x = p + 1 THEN s ELSE m[x]
      BY <1>5, SetNextAt
    <2> HIDE DEF m1
    <2>2. \A x \in Addr : n[x] = IF s # NULL /\ x = s + 2 THEN p ELSE m1[x]
      BY <1>5, <2>1, SetPrevAt
    <2> QED
      BY <2>1, <2>2
  <1> HIDE DEF d, g, p, s, m1, n
  <1>7. ASSUME NEW k \in 1 .. Len(c)
        PROVE  /\ n[c[k] + 1] = IF i # 1 /\ k = i - 1 THEN s ELSE m[c[k] + 1]
               /\ n[c[k] + 2] = IF j # Len(c) /\ k = j + 1 THEN p ELSE m[c[k] + 2]
    <2>1. /\ s # NULL /\ c[k] + 1 = s + 2 => FALSE
          /\ p # NULL /\ c[k] + 2 = p + 1 => FALSE
      BY <1>1, <1>4
    <2>2. p # NULL /\ c[k] + 1 = p + 1 <=> i # 1 /\ k = i - 1
      BY <1>1, <1>4
    <2>3. s # NULL /\ c[k] + 2 = s + 2 <=> j # Len(c) /\ k = j + 1
      BY <1>1, <1>4
    <2>4. c[k] + 1 \in Addr /\ c[k] + 2 \in Addr
      BY <1>1
    <2> QED
      BY <1>6, <2>1, <2>2, <2>3, <2>4
  <1>8. /\ first = Succ(c, 0)
        /\ \A k \in 1 .. Len(c) : m[c[k] + 1] = Succ(c, k)
        /\ \A k \in 2 .. Len(c) : m[c[k] + 2] = Pred(c, k)
        /\ Len(c) > 0 => m[c[1] + 2] = NULL
    BY DEF IsList, IsTail
  <1>9. \A k \in 1 .. Len(c) : m[c[k] + 2] = Pred(c, k)
    <2>1. \A k \in 1 .. Len(c) : k = 1 \/ k \in 2 .. Len(c)
      BY <1>1
    <2> QED
      BY <1>1, <1>8, <2>1 DEF Pred
  <1>10. ASSUME NEW k \in 1 .. Len(d) PROVE n[d[k] + 1] = Succ(d, k)
    <2>1. CASE k < i
      <3>1. k \in 1 .. Len(c) /\ d[k] = c[k]
        BY <1>2, <2>1
      <3>2. CASE k = i - 1
        <4>1. n[d[k] + 1] = s
          BY <1>3, <1>7, <2>1, <3>1, <3>2
        <4>2. CASE k < Len(d)
          <5>1. k + 1 \in 1 .. Len(d) /\ ~(k + 1 < i) /\ (k + 1) + g = j + 1 /\ j # Len(c)
            BY <1>2, <1>3, <3>2, <4>2
          <5>2. d[k + 1] = c[(k + 1) + g]
            BY <1>2, <5>1
          <5>3. d[k + 1] = c[j + 1]
            BY <5>1, <5>2
          <5> QED
            BY <1>4, <4>1, <4>2, <5>1, <5>3 DEF Succ
        <4>3. CASE ~(k < Len(d))
          <5>1. j = Len(c)
            BY <1>2, <1>3, <3>2, <4>3
          <5> QED
            BY <1>4, <4>1, <4>3, <5>1 DEF Succ
        <4> QED
          BY <4>2, <4>3
      <3>3. CASE k # i - 1
        <4>1. k < Len(c) /\ k + 1 \in 1 .. Len(d) /\ k + 1 < i /\ k < Len(d)
          BY <1>2, <1>3, <2>1, <3>1, <3>3
        <4>2. d[k + 1] = c[k + 1]
          BY <1>2, <4>1
        <4>3. n[c[k] + 1] = Succ(c, k)
          BY <1>7, <1>8, <3>1, <3>3
        <4> QED
          BY <3>1, <4>1, <4>2, <4>3 DEF Succ
      <3> QED
        BY <3>2, <3>3
    <2>2. CASE ~(k < i)
      <3>1. k + g \in 1 .. Len(c) /\ d[k] = c[k + g] /\ k + g # i - 1
        BY <1>2, <1>3, <2>2
      <3>2. n[c[k + g] + 1] = Succ(c, k + g)
        BY <1>7, <1>8, <3>1
      <3>3. CASE k < Len(d)
        <4>1. k + 1 \in 1 .. Len(d) /\ ~(k + 1 < i) /\ (k + 1) + g = (k + g) + 1 /\ k + g < Len(c)
          <5>1. k \in Nat /\ k >= 1 /\ k < Len(d) /\ Len(d) = Len(c) - g
            BY <1>2, <3>3
          <5>2. k + 1 \in 1 .. Len(d) /\ (k + 1) + g = (k + g) + 1 /\ k + g < Len(c)
            BY <1>1, <1>2, <5>1
          <5>3. ~(k + 1 < i)
            BY <1>3, <2>2, <5>1
          <5> QED
            BY <5>2, <5>3
        <4>2. d[k + 1] = c[(k + g) + 1]
          BY <1>2, <4>1
        <4> QED
          BY <3>1, <3>2, <3>3, <4>1, <4>2 DEF Succ
      <3>4. CASE ~(k < Len(d))
        <4>1. ~(k + g < Len(c))
          BY <1>1, <1>2, <3>4
        <4> QED
          BY <3>1, <3>2, <3>4, <4>1 DEF Succ
      <3> QED
        BY <3>3, <3>4
    <2> QED
      BY <2>1, <2>2
  <1>11. ASSUME NEW k \in 1 .. Len(d) PROVE n[d[k] + 2] = Pred(d, k)
    <2>1. CASE k < i
      <3>1. k \in 1 .. Len(c) /\ d[k] = c[k] /\ k # j + 1
        BY <1>2, <1>3, <2>1
      <3>2. n[c[k] + 2] = Pred(c, k)
        BY <1>7, <1>9, <3>1
      <3>3. k > 1 => k - 1 \in 1 .. Len(d) /\ k - 1 < i
        BY <1>2, <1>3, <2>1
      <3>4. k > 1 => d[k - 1] = c[k - 1]
        BY <1>2, <3>3
      <3> QED
        BY <3>1, <3>2, <3>4 DEF Pred
    <2>2. CASE ~(k < i)
      <3>1. k + g \in 1 .. Len(c) /\ d[k] = c[k + g]
        BY <1>2, <2>2
      <3>2. CASE k = i
        <4>1. k + g = j + 1 /\ j # Len(c)
          BY <1>1, <1>2, <1>3, <3>1, <3>2
        <4>2. n[d[k] + 2] = p
          BY <1>7, <3>1, <4>1
        <4>3. k > 1 => k - 1 \in 1 .. Len(d) /\ k - 1 < i
          BY <1>2, <1>3, <3>2
        <4>4. k > 1 => d[k - 1] = c[k - 1]
          BY <1>2, <4>3
        <4> QED
          BY <1>3, <1>4, <3>2, <4>2, <4>4 DEF Pred
      <3>3. CASE k # i
        <4>1. k + g # j + 1 /\ k > 1 /\ k - 1 \in 1 .. Len(d) /\ ~(k - 1 < i) /\ k + g > 1
              /\ (k - 1) + g = (k + g) - 1
          BY <1>2, <1>3, <2>2, <3>3
        <4>2. n[c[k + g] + 2] = Pred(c, k + g)
          BY <1>7, <1>9, <3>1, <4>1
        <4>3. d[k - 1] = c[(k + g) - 1]
          BY <1>2, <4>1
        <4> QED
          BY <3>1, <4>1, <4>2, <4>3 DEF Pred
      <3> QED
        BY <3>2, <3>3
    <2> QED
      BY <2>1, <2>2
  <1>12. top = Succ(d, 0)
    <2>1. CASE i = 1
      <3>1. CASE Len(d) > 0
        <4>1. 1 \in 1 .. Len(d) /\ ~(1 < i) /\ 1 + g = j + 1 /\ j # Len(c)
          BY <1>2, <1>3, <2>1, <3>1
        <4>2. d[1] = c[j + 1]
          BY <1>2, <4>1
        <4> QED
          BY <1>4, <2>1, <3>1, <4>1, <4>2 DEF Succ
      <3>2. CASE ~(Len(d) > 0)
        <4>1. j = Len(c)
          BY <1>2, <1>3, <2>1, <3>2
        <4> QED
          BY <1>4, <2>1, <3>2, <4>1 DEF Succ
      <3> QED
        BY <3>1, <3>2
    <2>2. CASE i # 1
      <3>1. 1 \in 1 .. Len(d) /\ 1 < i /\ 0 < Len(d) /\ 0 < Len(c)
        BY <1>1, <1>2, <1>3, <2>2
      <3>2. d[1] = c[1]
        BY <1>2, <3>1
      <3> QED
        BY <1>8, <2>2, <3>1, <3>2 DEF Succ
    <2> QED
      BY <2>1, <2>2
  <1> HIDE DEF top
  <1>13. \A k \in 2 .. Len(d) : k \in 1 .. Len(d)
    BY <1>2
  <1>14. Len(d) > 0 => n[d[1] + 2] = NULL
    <2>1. Len(d) > 0 => 1 \in 1 .. Len(d)
      BY <1>2
    <2>2. Pred(d, 1) = NULL
      BY DEF Pred
    <2> QED
      BY <1>11, <2>1, <2>2
  <1>15. IsList(n, top, d)
    BY <1>10, <1>11, <1>12, <1>13, <1>14 DEF IsList, IsTail
  <1> QED
    BY <1>15 DEF d, p, s, m1, n, top

(* The pointers of a list when a chunk is put before it, whatever its      *)
(* first chunk had for a predecessor                                       *)
LEMMA PushLinks ==
  ASSUME NEW m \in Memories, NEW c, Spread(c), NEW first, IsTail(m, first, c),
         NEW a \in Addr, NEW size \in Values, Spread(Before(a, c))
  PROVE  IsList(SetPrev(Chunk(m, a, size, first, NULL), first, a), a, Before(a, c))
  <1> DEFINE d == Before(a, c)
             m1 == Chunk(m, a, size, first, NULL)
             n == SetPrev(m1, first, a)
  <1>1. /\ Len(c) \in Nat /\ c \in Seq(Addr)
        /\ \A k \in 1 .. Len(c) : c[k] \in Addr /\ c[k] \in Nat /\ c[k] # NULL
        /\ \A k \in 1 .. Len(c) : c[k] + 1 \in Addr /\ c[k] + 2 \in Addr
    BY SpreadFacts DEF Spread
  <1>2. /\ Len(d) = Len(c) + 1 /\ d[1] = a
        /\ \A k \in 2 .. Len(d) : k - 1 \in 1 .. Len(c) /\ d[k] = c[k - 1]
    BY <1>1, BeforeFacts
  <1> HIDE DEF d
  <1>3. /\ Spread(d)
        /\ \A k, h \in 1 .. Len(d) : d[k] + 1 # d[h] + 2 /\ d[k] # d[h] + 1 /\ d[k] # d[h] + 2
        /\ \A k, h \in 1 .. Len(d) : d[k] + 1 = d[h] + 1 => k = h
        /\ \A k, h \in 1 .. Len(d) : d[k] + 2 = d[h] + 2 => k = h
        /\ \A k \in 1 .. Len(d) : d[k] + 1 \in Addr /\ d[k] + 2 \in Addr
    <2>1. Spread(d)
      BY DEF d
    <2> QED
      BY <2>1, SpreadFacts DEF Spread
  <1>4. /\ first = Succ(c, 0)
        /\ \A k \in 1 .. Len(c) : m[c[k] + 1] = Succ(c, k)
        /\ \A k \in 2 .. Len(c) : m[c[k] + 2] = Pred(c, k)
    BY DEF IsTail
  <1>5. /\ Len(c) = 0 => first = NULL
        /\ Len(c) # 0 => 1 \in 1 .. Len(c) /\ 2 \in 1 .. Len(d) /\ first = c[1] /\ first = d[2] /\ first # NULL
    <2>1. Len(c) = 0 => first = NULL
      BY <1>4 DEF Succ
    <2>2. ASSUME Len(c) # 0
          PROVE  1 \in 1 .. Len(c) /\ 2 \in 1 .. Len(d) /\ first = c[1] /\ first = d[2] /\ first # NULL
      <3>1. 0 < Len(c) /\ 1 \in 1 .. Len(c) /\ 2 \in 2 .. Len(d) /\ 2 \in 1 .. Len(d)
        BY <1>1, <1>2, <2>2
      <3>2. first = c[1] /\ d[2] = c[1]
        BY <1>2, <1>4, <3>1 DEF Succ
      <3> QED
        BY <1>1, <3>1, <3>2
    <2> QED
      BY <2>1, <2>2
  <1>6. first \in Pointers /\ first \in Values /\ a \in Values /\ NULL \in Values
    BY <1>1, <1>5, Numbers, PointerFacts DEF Pointers
  <1>7. /\ \A x \in Addr : m1[x] = IF x = a THEN size ELSE IF x = a + 1 THEN first
                                   ELSE IF x = a + 2 THEN NULL ELSE m[x]
        /\ \A x \in Addr : n[x] = IF first # NULL /\ x = first + 2 THEN a ELSE m1[x]
    <2>1. m1 \in Memories
          /\ \A x \in Addr : m1[x] = IF x = a THEN size ELSE IF x = a + 1 THEN first
                                     ELSE IF x = a + 2 THEN NULL ELSE m[x]
      BY <1>6, ChunkAt
    <2> HIDE DEF m1
    <2>2. \A x \in Addr : n[x] = IF first # NULL /\ x = first + 2 THEN a ELSE m1[x]
      BY <1>6, <2>1, SetPrevAt
    <2> QED
      BY <2>1, <2>2
  <1> HIDE DEF m1, n
  <1>8. 1 \in 1 .. Len(d)
    BY <1>1, <1>2
  <1>9. ASSUME NEW k \in 1 .. Len(d)
        PROVE  /\ n[d[k] + 1] = IF k = 1 THEN first ELSE m[d[k] + 1]
               /\ n[d[k] + 2] = IF k = 1 THEN NULL ELSE IF k = 2 THEN a ELSE m[d[k] + 2]
    <2>1. d[k] + 1 \in Addr /\ d[k] + 2 \in Addr
      BY <1>3
    <2>2. /\ d[k] + 1 # a /\ d[k] + 2 # a /\ d[k] + 1 # a + 2 /\ d[k] + 2 # a + 1
          /\ (d[k] + 1 = a + 1 <=> k = 1) /\ (d[k] + 2 = a + 2 <=> k = 1)
      BY <1>2, <1>3, <1>8
    <2>3. first # NULL => d[k] + 1 # first + 2
      BY <1>3, <1>5
    <2>4. first # NULL => (d[k] + 2 = first + 2 <=> k = 2)
      BY <1>3, <1>5
    <2>5. k = 2 => first # NULL
      BY <1>1, <1>2, <1>5
    <2> QED
      BY <1>7, <2>1, <2>2, <2>3, <2>4, <2>5
  <1>10. ASSUME NEW k \in 1 .. Len(d) PROVE n[d[k] + 1] = Succ(d, k)
    <2>1. CASE k = 1
      <3>1. n[d[k] + 1] = first
        BY <1>9, <2>1
      <3> QED
        BY <1>1, <1>2, <1>5, <2>1, <3>1 DEF Succ
    <2>2. CASE k # 1
      <3>1. k \in 2 .. Len(d) /\ k - 1 \in 1 .. Len(c) /\ d[k] = c[k - 1] /\ (k - 1) + 1 = k
        BY <1>2, <2>2
      <3>2. n[d[k] + 1] = Succ(c, k - 1)
        BY <1>4, <1>9, <2>2, <3>1
      <3>3. (k < Len(d)) <=> (k - 1 < Len(c))
        BY <1>1, <1>2
      <3>4. k < Len(d) => k + 1 \in 2 .. Len(d) /\ (k + 1) - 1 = k
        BY <1>1, <1>2
      <3>5. k < Len(d) => d[k + 1] = c[k]
        BY <1>2, <3>4
      <3> QED
        BY <3>1, <3>2, <3>3, <3>5 DEF Succ
    <2> QED
      BY <2>1, <2>2
  <1>11. ASSUME NEW k \in 2 .. Len(d) PROVE n[d[k] + 2] = Pred(d, k)
    <2>1. k \in 1 .. Len(d) /\ k - 1 \in 1 .. Len(c) /\ d[k] = c[k - 1] /\ k > 1
      BY <1>2
    <2>2. CASE k = 2
      BY <1>2, <1>9, <2>1, <2>2 DEF Pred
    <2>3. CASE k # 2
      <3>1. k - 1 \in 2 .. Len(c) /\ k - 1 \in 2 .. Len(d) /\ k # 1 /\ k - 1 > 1
        BY <1>2, <2>1, <2>3
      <3>2. n[d[k] + 2] = Pred(c, k - 1)
        BY <1>4, <1>9, <2>1, <2>3, <3>1
      <3>3. d[k - 1] = c[(k - 1) - 1]
        BY <1>2, <3>1
      <3> QED
        BY <2>1, <3>1, <3>2, <3>3 DEF Pred
    <2> QED
      BY <2>2, <2>3
  <1>12. a = Succ(d, 0)
    BY <1>1, <1>2, <1>8 DEF Succ
  <1>13. n[d[1] + 2] = NULL
    BY <1>8, <1>9
  <1>14. IsList(n, a, d)
    BY <1>10, <1>11, <1>12, <1>13 DEF IsList, IsTail
  <1> QED
    BY <1>14 DEF d, m1, n

(* A walk along a list of chunks that can be read meets them all, in their *)
(* order, and then ends.                                                   *)
LEMMA ListWalk ==
  ASSUME NEW m \in Memories, NEW first \in Values, NEW c, Spread(c), IsList(m, first, c),
         \A k \in 1 .. Len(c) : m[c[k]] \in 0 .. MemWords
  PROVE  LET w == Walk(m, first)
         IN /\ Len(w) = Len(c) + 1 /\ Len(c) \in Nat /\ w[Len(c) + 1] = NULL
            /\ \A k \in 1 .. Len(c) : w[k] = c[k]
  <1> DEFINE w == Walk(m, first)
             N == Len(c)
             S == {k \in 0 .. N : k + 1 <= Len(w) => w[k + 1] = Succ(c, k)}
  <1>1. IsWalk(m, first, w, MemWords)
    BY WalkFacts
  <1> HIDE DEF w
  <1>2. /\ w \in Seq(Values) /\ Len(w) \in Nat /\ Len(w) >= 1 /\ Len(w) <= MemWords + 1 /\ w[1] = first
        /\ \A i \in 1 .. (Len(w) - 1) : Readable(m, w[i]) /\ w[i + 1] = Next_of(m, w[i])
        /\ Len(w) = MemWords + 1 \/ ~Readable(m, w[Len(w)])
    BY <1>1 DEF IsWalk
  <1>3. N \in Nat /\ \A k \in 1 .. N : Readable(m, c[k]) /\ c[k] \in Addr
    BY SpreadFacts DEF Spread, Readable
  <1>4. first = Succ(c, 0) /\ \A k \in 1 .. N : Next_of(m, c[k]) = Succ(c, k)
    BY DEF IsList, IsTail, Next_of
  <1>5. ~Readable(m, NULL)
    BY Numbers DEF Readable
  <1>6. N = Len(c)
    OBVIOUS
  <1> HIDE DEF N
  <1>7. 0 .. N \subseteq S
    <2>1. 0 \in S
      BY <1>2, <1>3, <1>4
    <2>2. ASSUME NEW k \in 0 .. N, k # N, k \in S PROVE k + 1 \in S
      <3>1. k + 1 \in 1 .. N /\ k + 1 \in 0 .. N /\ k < Len(c)
        BY <1>3, <1>6, <2>2
      <3>2. SUFFICES ASSUME (k + 1) + 1 <= Len(w) PROVE w[(k + 1) + 1] = Succ(c, k + 1)
        BY <3>1
      <3>3. k + 1 <= Len(w) /\ k + 1 \in 1 .. (Len(w) - 1)
        BY <1>2, <3>1, <3>2
      <3>4. w[k + 1] = c[k + 1]
        BY <2>2, <3>1, <3>3 DEF Succ
      <3>5. w[(k + 1) + 1] = Next_of(m, w[k + 1])
        BY <1>2, <3>3
      <3> QED
        BY <1>4, <3>1, <3>4, <3>5
    <2> HIDE DEF S
    <2> QED
      BY <1>3, <2>1, <2>2, CountUp
  <1>8. \A k \in 0 .. N : k + 1 <= Len(w) => w[k + 1] = Succ(c, k)
    BY <1>7
  <1>9. \A k \in 1 .. N : k <= Len(w) => w[k] = c[k]
    <2> TAKE k \in 1 .. N
    <2>1. k - 1 \in 0 .. N /\ (k - 1) + 1 = k /\ k - 1 < Len(c)
      BY <1>3, <1>6
    <2>2. k <= Len(w) => w[k] = Succ(c, k - 1)
      BY <1>8, <2>1
    <2> QED
      BY <2>1, <2>2 DEF Succ
  <1>10. Len(w) <= N + 1
    <2> SUFFICES ASSUME Len(w) > N + 1 PROVE FALSE
      BY <1>2, <1>3
    <2>1. N \in 0 .. N /\ N + 1 <= Len(w) /\ N + 1 \in 1 .. (Len(w) - 1)
      BY <1>2, <1>3
    <2>2. w[N + 1] = NULL
      BY <1>6, <1>8, <2>1 DEF Succ
    <2> QED
      BY <1>2, <1>5, <2>1, <2>2
  <1>11. N <= MemWords
    <2> SUFFICES ASSUME N > MemWords PROVE FALSE
      BY <1>3, Numbers
    <2> DEFINE f == [k \in 1 .. N |-> c[k]]
               A == Base .. (Base + MemWords - 1)
    <2>1. f \in [1 .. N -> Addr]
      BY <1>3
    <2>2. IsFiniteSet(1 .. N) /\ Cardinality(1 .. N) = N
      <3>1. /\ IsFiniteSet(1 .. N)
            /\ Cardinality(1 .. N) = IF 1 > N THEN 0 ELSE N - 1 + 1
        BY <1>3, FS_Interval
      <3> QED
        BY <1>3, <3>1
    <2>3. IsFiniteSet(A) /\ Cardinality(A) = MemWords
      <3>1. Base \in Int /\ Base + MemWords - 1 \in Int /\ MemWords \in Nat \ {0}
        BY Numbers
      <3>2. /\ IsFiniteSet(Base .. (Base + MemWords - 1))
            /\ Cardinality(Base .. (Base + MemWords - 1)) =
                 IF Base > Base + MemWords - 1 THEN 0 ELSE (Base + MemWords - 1) - Base + 1
        BY <3>1, FS_Interval
      <3> QED
        BY <3>1, <3>2
    <2>4. Addr = A
      BY Numbers
    <2> HIDE DEF f, A
    <2>5. IsFiniteSet(Addr) /\ Cardinality(Addr) < Cardinality(1 .. N)
      BY <2>2, <2>3, <2>4
    <2>6. \E x, y \in 1 .. N : x # y /\ f[x] = f[y]
      BY <2>1, <2>2, <2>5, FS_PigeonHole
    <2> QED
      BY <1>6, <2>6, SpreadFacts DEF f
  <1>12. Len(w) >= N + 1
    <2> SUFFICES ASSUME Len(w) <= N PROVE FALSE
      BY <1>2, <1>3
    <2>1. Len(w) \in 1 .. N /\ Len(w) # MemWords + 1
      BY <1>2, <1>3, <1>11, Numbers
    <2>2. w[Len(w)] = c[Len(w)]
      BY <1>2, <1>9, <2>1
    <2> QED
      BY <1>2, <1>3, <2>1, <2>2
  <1>13. Len(w) = N + 1
    BY <1>2, <1>3, <1>10, <1>12
  <1>14. w[N + 1] = NULL
    <2>1. N \in 0 .. N /\ N + 1 <= Len(w)
      BY <1>3, <1>13
    <2> QED
      BY <1>6, <1>8, <2>1 DEF Succ
  <1>15. \A k \in 1 .. N : w[k] = c[k]
    BY <1>3, <1>9, <1>13
  <1> QED
    BY <1>3, <1>6, <1>13, <1>14, <1>15 DEF w

-----------------------------------------------------------------------------
(* Chunks in memory                                                        *)

(* A chunk with room for its fields, in memory the program has             *)
Block(m, mp, a) ==
  /\ a \in Addr /\ m[a] \in Nat /\ m[a] >= 3 /\ a + m[a] <= Base + MemWords
  /\ \A x \in a .. (a + m[a] - 1) : x \in mp

Clear(m, a, b) == a + m[a] <= b \/ b + m[b] <= a

(* Chunks at the addresses of B, apart from each other                     *)
Tiled(m, mp, B) ==
  /\ \A a \in B : Block(m, mp, a)
  /\ \A a, b \in B : a # b => Clear(m, a, b)

(* They are all the memory there is.                                       *)
Covers(m, mp, B) == \A x \in mp : \E a \in B : a <= x /\ x < a + m[a]

(* A chunk of the program's memory has room for its three fields.          *)
LEMMA BlockFacts ==
  ASSUME NEW m, NEW mp, NEW a, Block(m, mp, a)
  PROVE  /\ a \in Addr /\ a \in Nat /\ m[a] \in Nat /\ m[a] >= 3 /\ a >= Base /\ m[a] <= MemWords
         /\ a + 1 \in Addr /\ a + 2 \in Addr /\ a # NULL /\ m[a] \in Values
         /\ a + m[a] <= Base + MemWords
  <1>1. a \in Addr /\ m[a] \in Nat /\ m[a] >= 3 /\ a + m[a] <= Base + MemWords
    BY DEF Block
  <1>2. a \in Nat /\ a >= Base /\ m[a] <= MemWords
    BY <1>1, Numbers
  <1>3. a + 1 \in Addr /\ a + 2 \in Addr
    BY <1>1, <1>2, Numbers
  <1>4. m[a] \in Values
    BY <1>1, <1>2, Numbers DEF Values
  <1> QED
    BY <1>1, <1>2, <1>3, <1>4, Numbers

(* Two chunks of a tiling                                                  *)
LEMMA TiledFacts ==
  ASSUME NEW m, NEW mp, NEW B, Tiled(m, mp, B), NEW a \in B, NEW b \in B
  PROVE  /\ a \in Nat /\ b \in Nat /\ m[a] \in Nat /\ m[b] \in Nat /\ m[a] >= 3 /\ m[b] >= 3
         /\ a # b => a + m[a] <= b \/ b + m[b] <= a
         /\ a # b + 1 /\ a # b + 2
  <1>1. a \in Nat /\ b \in Nat /\ m[a] \in Nat /\ m[b] \in Nat /\ m[a] >= 3 /\ m[b] >= 3
    BY BlockFacts DEF Tiled
  <1>2. a # b => a + m[a] <= b \/ b + m[b] <= a
    BY DEF Tiled, Clear
  <1> QED
    BY <1>1, <1>2

(* Some of the chunks, in memory that says the same of their sizes         *)
LEMMA TiledFrame ==
  ASSUME NEW m, NEW mp, NEW B, Tiled(m, mp, B), NEW n, NEW more, mp \subseteq more,
         NEW D, D \subseteq B, \A a \in D : n[a] = m[a]
  PROVE  Tiled(n, more, D)
  <1>1. ASSUME NEW a \in D PROVE Block(n, more, a)
    BY DEF Tiled, Block
  <1>2. ASSUME NEW a \in D, NEW b \in D, a # b PROVE Clear(n, a, b)
    BY <1>2 DEF Tiled, Clear
  <1> QED
    BY <1>1, <1>2 DEF Tiled

(* What leaves the sizes alone covers as much as before.                   *)
LEMMA CoversFrame ==
  ASSUME NEW m, NEW mp, NEW B, Covers(m, mp, B), NEW n, \A a \in B : n[a] = m[a]
  PROVE  Covers(n, mp, B)
  BY DEF Covers

(* Two chunks become one.                                                  *)
LEMMA TiledMerge ==
  ASSUME NEW m, NEW mp \in SUBSET Addr, NEW B, Tiled(m, mp, B),
         NEW a \in B, NEW b \in B, a + m[a] = b,
         NEW n, n[a] = m[a] + m[b], \A x \in B \ {a, b} : n[x] = m[x]
  PROVE  /\ Tiled(n, mp, B \ {b}) /\ a # b
         /\ Covers(m, mp, B) => Covers(n, mp, B \ {b})
  <1>1. /\ Block(m, mp, a) /\ Block(m, mp, b)
        /\ a \in Nat /\ b \in Nat /\ m[a] \in Nat /\ m[b] \in Nat /\ m[a] >= 3 /\ m[b] >= 3
        /\ a \in Addr /\ b + m[b] <= Base + MemWords
    BY BlockFacts DEF Tiled
  <1>2. a # b
    BY <1>1
  <1>3. Block(n, mp, a)
    <2>1. n[a] \in Nat /\ n[a] >= 3 /\ a + n[a] <= Base + MemWords /\ a + n[a] = b + m[b]
      BY <1>1
    <2>2. ASSUME NEW x \in a .. (a + n[a] - 1) PROVE x \in mp
      <3>1. x \in a .. (a + m[a] - 1) \/ x \in b .. (b + m[b] - 1)
        BY <1>1, <2>1, <2>2
      <3> QED
        BY <1>1, <3>1 DEF Block
    <2> QED
      BY <1>1, <2>1, <2>2 DEF Block
  <1>4. ASSUME NEW x \in B \ {b}, x # a PROVE Block(n, mp, x) /\ Clear(n, a, x) /\ Clear(n, x, a)
    <2>1. n[x] = m[x] /\ Block(m, mp, x)
      BY <1>4 DEF Tiled
    <2>2. Block(n, mp, x)
      BY <2>1 DEF Block
    <2>3. /\ x \in Nat /\ m[x] \in Nat /\ m[x] >= 3
          /\ a + m[a] <= x \/ x + m[x] <= a
          /\ b + m[b] <= x \/ x + m[x] <= b
      BY <1>4, TiledFacts
    <2>4. Clear(n, a, x) /\ Clear(n, x, a)
      BY <1>1, <2>1, <2>3 DEF Clear
    <2> QED
      BY <2>2, <2>4
  <1>5. ASSUME NEW x \in B \ {b}, NEW y \in B \ {b}, x # y PROVE Clear(n, x, y)
    <2>1. CASE x # a /\ y # a
      <3>1. n[x] = m[x] /\ n[y] = m[y]
        BY <1>5, <2>1
      <3> QED
        BY <1>5, <3>1 DEF Tiled, Clear
    <2>2. CASE x = a \/ y = a
      BY <1>4, <1>5, <2>2
    <2> QED
      BY <2>1, <2>2
  <1>6. Tiled(n, mp, B \ {b})
    BY <1>3, <1>4, <1>5 DEF Tiled
  <1>7. ASSUME Covers(m, mp, B), NEW x \in mp PROVE \E y \in B \ {b} : y <= x /\ x < y + n[y]
    <2>1. PICK y \in B : y <= x /\ x < y + m[y]
      BY <1>7 DEF Covers
    <2>2. x \in Nat
      BY <1>7, Numbers
    <2>3. CASE y = b \/ y = a
      <3>1. a <= x /\ x < a + n[a]
        <4>1. (b <= x /\ x < b + m[b]) \/ (a <= x /\ x < a + m[a])
          BY <2>1, <2>3
        <4> QED
          BY <1>1, <2>2, <4>1
      <3> QED
        BY <1>2, <3>1
    <2>4. CASE y # a /\ y # b
      <3>1. n[y] = m[y] /\ y \in B \ {b}
        BY <2>1, <2>4
      <3> QED
        BY <2>1, <3>1
    <2> QED
      BY <2>3, <2>4
  <1> QED
    BY <1>2, <1>6, <1>7 DEF Covers

(* One chunk becomes two.                                                  *)
LEMMA TiledSplit ==
  ASSUME NEW m, NEW mp \in SUBSET Addr, NEW B, Tiled(m, mp, B), NEW a \in B,
         NEW k \in Nat, k >= 3, m[a] - k >= 3,
         NEW n, n[a] = k, n[a + k] = m[a] - k, \A x \in B \ {a} : n[x] = m[x]
  PROVE  /\ Tiled(n, mp, B \cup {a + k}) /\ a + k \notin B /\ a + k \in Addr
         /\ Covers(m, mp, B) => Covers(n, mp, B \cup {a + k})
  <1> DEFINE r == a + k
  <1>1. /\ Block(m, mp, a) /\ a \in Nat /\ m[a] \in Nat /\ m[a] >= 3
        /\ a \in Addr /\ a + m[a] <= Base + MemWords /\ a >= Base
    BY BlockFacts DEF Tiled
  <1>2. r \in Nat /\ r = a + k /\ n[r] = m[a] - k /\ n[r] \in Nat /\ r + n[r] = a + m[a]
    BY <1>1
  <1> HIDE DEF r
  <1>3. r \in Addr
    BY <1>1, <1>2, Numbers
  <1>4. Block(n, mp, a) /\ Block(n, mp, r)
    <2>1. \A x \in a .. (a + k - 1) : x \in a .. (a + m[a] - 1)
      BY <1>1
    <2>2. \A x \in r .. (r + n[r] - 1) : x \in a .. (a + m[a] - 1)
      BY <1>1, <1>2
    <2>3. \A x \in a .. (a + m[a] - 1) : x \in mp
      BY <1>1 DEF Block
    <2>4. a + k <= Base + MemWords /\ r + n[r] <= Base + MemWords /\ n[r] >= 3
      BY <1>1, <1>2, Numbers
    <2> QED
      BY <1>1, <1>2, <1>3, <2>1, <2>2, <2>3, <2>4 DEF Block
  <1>5. ASSUME NEW x \in B, x # a
        PROVE  /\ Block(n, mp, x) /\ Clear(n, a, x) /\ Clear(n, x, a) /\ x # r
               /\ Clear(n, r, x) /\ Clear(n, x, r)
    <2>1. n[x] = m[x] /\ Block(m, mp, x)
      BY <1>5 DEF Tiled
    <2>2. Block(n, mp, x)
      BY <2>1 DEF Block
    <2>3. /\ x \in Nat /\ m[x] \in Nat /\ m[x] >= 3
          /\ a + m[a] <= x \/ x + m[x] <= a
      BY <1>5, TiledFacts
    <2>4. Clear(n, a, x) /\ Clear(n, x, a)
      BY <1>1, <2>1, <2>3 DEF Clear
    <2>5. Clear(n, r, x) /\ Clear(n, x, r) /\ x # r
      BY <1>1, <1>2, <2>1, <2>3 DEF Clear
    <2> QED
      BY <2>2, <2>4, <2>5
  <1>6. Clear(n, a, r) /\ Clear(n, r, a) /\ r # a
    BY <1>1, <1>2 DEF Clear
  <1>7. ASSUME NEW x \in B \cup {r}, NEW y \in B \cup {r}, x # y PROVE Clear(n, x, y)
    <2>1. CASE x \in B \ {a} /\ y \in B \ {a}
      <3>1. n[x] = m[x] /\ n[y] = m[y]
        BY <2>1
      <3> QED
        BY <1>7, <2>1, <3>1 DEF Tiled, Clear
    <2>2. CASE x \in {a, r} \/ y \in {a, r}
      BY <1>5, <1>6, <1>7, <2>2
    <2> QED
      BY <1>7, <2>1, <2>2
  <1>8. Tiled(n, mp, B \cup {r})
    BY <1>4, <1>5, <1>7 DEF Tiled
  <1>9. ASSUME Covers(m, mp, B), NEW x \in mp PROVE \E y \in B \cup {r} : y <= x /\ x < y + n[y]
    <2>1. PICK y \in B : y <= x /\ x < y + m[y]
      BY <1>9 DEF Covers
    <2>2. x \in Nat
      BY <1>9, Numbers
    <2>3. CASE y = a
      <3>1. (a <= x /\ x < a + n[a]) \/ (r <= x /\ x < r + n[r])
        BY <1>1, <1>2, <2>1, <2>2, <2>3
      <3> QED
        BY <3>1
    <2>4. CASE y # a
      <3>1. n[y] = m[y]
        BY <2>1, <2>4
      <3> QED
        BY <2>1, <3>1
    <2> QED
      BY <2>3, <2>4
  <1>10. r \notin B
    BY <1>5, <1>6
  <1> QED
    BY <1>3, <1>8, <1>9, <1>10 DEF Covers, r

(* One chunk more, in memory nothing was in                                *)
LEMMA TiledNew ==
  ASSUME NEW m, NEW mp \in SUBSET Addr, NEW B, Tiled(m, mp, B), NEW a \in Addr, NEW s \in Nat, s >= 3,
         a + s <= Base + MemWords, \A x \in a .. (a + s - 1) : x \notin mp,
         NEW n, n[a] = s, \A x \in B : n[x] = m[x]
  PROVE  /\ a \notin B /\ Tiled(n, mp \cup (a .. (a + s - 1)), B \cup {a})
         /\ Covers(m, mp, B) => Covers(n, mp \cup (a .. (a + s - 1)), B \cup {a})
  <1> DEFINE more == mp \cup (a .. (a + s - 1))
  <1>1. a \in Nat
    BY Numbers
  <1>2. Block(n, more, a)
    BY <1>1 DEF Block
  <1>3. ASSUME NEW x \in B PROVE x # a /\ Block(n, more, x) /\ Clear(n, a, x) /\ Clear(n, x, a)
    <2>1. Block(m, mp, x) /\ n[x] = m[x]
      BY DEF Tiled
    <2>2. x \in Nat /\ m[x] \in Nat /\ m[x] >= 3
      BY <2>1, BlockFacts
    <2>3. \A y \in x .. (x + m[x] - 1) : y \notin a .. (a + s - 1)
      BY <2>1 DEF Block
    <2>4. x \notin a .. (a + s - 1) /\ a \notin x .. (x + m[x] - 1)
      <3>1. x \in x .. (x + m[x] - 1) /\ a \in a .. (a + s - 1)
        BY <1>1, <2>2
      <3> QED
        BY <2>3, <3>1
    <2>5. a + s <= x \/ x + m[x] <= a
      BY <1>1, <2>2, <2>4
    <2>6. x # a
      BY <1>1, <2>2, <2>5
    <2>7. Clear(n, a, x) /\ Clear(n, x, a)
      BY <2>1, <2>5 DEF Clear
    <2>8. Block(n, more, x)
      BY <2>1 DEF Block
    <2> QED
      BY <2>6, <2>7, <2>8
  <1>4. ASSUME NEW x \in B \cup {a}, NEW y \in B \cup {a}, x # y PROVE Clear(n, x, y)
    <2>1. CASE x \in B /\ y \in B
      BY <1>4, <2>1 DEF Tiled, Clear
    <2>2. CASE x = a \/ y = a
      BY <1>3, <1>4, <2>2
    <2> QED
      BY <1>4, <2>1, <2>2
  <1>5. Tiled(n, more, B \cup {a})
    BY <1>2, <1>3, <1>4 DEF Tiled
  <1>6. ASSUME Covers(m, mp, B), NEW x \in more PROVE \E y \in B \cup {a} : y <= x /\ x < y + n[y]
    <2>1. CASE x \in mp
      BY <1>6, <2>1 DEF Covers
    <2>2. CASE x \in a .. (a + s - 1)
      BY <1>1, <2>2
    <2> QED
      BY <1>6, <2>1, <2>2
  <1> QED
    BY <1>3, <1>5, <1>6 DEF Covers

(* The chunks of a list have room for their fields.                        *)
LEMMA TiledSpread ==
  ASSUME NEW m, NEW mp, NEW B, Tiled(m, mp, B), NEW c, c \in Seq(Addr), Listing(c) \subseteq B,
         \A k, j \in 1 .. Len(c) : c[k] = c[j] => k = j
  PROVE  Spread(c)
  <1>1. \A k \in 1 .. Len(c) : c[k] \in B
    BY DEF Listing
  <1>2. \A k \in 1 .. Len(c) : c[k] + 1 \in Addr /\ c[k] + 2 \in Addr
    BY <1>1, BlockFacts DEF Tiled
  <1>3. ASSUME NEW k \in 1 .. Len(c), NEW j \in 1 .. Len(c), k # j
        PROVE  c[k] + 3 <= c[j] \/ c[j] + 3 <= c[k]
    <2> DEFINE x == c[k]
               y == c[j]
    <2>1. x # y /\ x \in B /\ y \in B
      BY <1>1, <1>3
    <2> HIDE DEF x, y
    <2>2. /\ x \in Nat /\ y \in Nat /\ m[x] \in Nat /\ m[y] \in Nat /\ m[x] >= 3 /\ m[y] >= 3
          /\ x + m[x] <= y \/ y + m[y] <= x
      BY <2>1, TiledFacts
    <2>3. x + 3 <= y \/ y + 3 <= x
      BY <2>2
    <2> QED
      BY <2>3 DEF x, y
  <1> QED
    BY <1>2, <1>3 DEF Spread

(* Setting a pointer changes no size.                                      *)
LEMMA SizesStay ==
  ASSUME NEW m \in Memories, NEW mp, NEW B, Tiled(m, mp, B), NEW p \in B \cup {NULL}, NEW v \in Values
  PROVE  /\ SetNext(m, p, v) \in Memories /\ SetPrev(m, p, v) \in Memories
         /\ \A x \in B : SetNext(m, p, v)[x] = m[x] /\ SetPrev(m, p, v)[x] = m[x]
  <1>1. p \in Pointers /\ \A x \in B : x \in Addr
    BY DEF Tiled, Block, Pointers
  <1>2. \A x \in B : p # NULL => x # p + 1 /\ x # p + 2
    BY TiledFacts
  <1> QED
    BY <1>1, <1>2, SetNextAt, SetPrevAt

(* What the program writes to a chunk of its own changes no field of       *)
(* others, and not the size of this one.                                   *)
LEMMA FillStays ==
  ASSUME NEW m \in Memories, NEW mp, NEW B, Tiled(m, mp, B), NEW a \in B,
         NEW bytes \in Nat, m[a] >= Needed(bytes)
  PROVE  /\ \A x \in B : Fill(m, a, bytes)[x] = m[x]
         /\ \A x \in B \ {a} : /\ Fill(m, a, bytes)[x + 1] = m[x + 1]
                               /\ Fill(m, a, bytes)[x + 2] = m[x + 2]
  <1> DEFINE n == Fill(m, a, bytes)
  <1>1. Needed(bytes) \in Nat
    BY NeededFacts
  <1>2. /\ a \in Addr /\ a \in Nat /\ m[a] \in Nat
        /\ \A x \in B : x \in Addr /\ x \in Nat /\ x + 1 \in Addr /\ x + 2 \in Addr
    BY BlockFacts DEF Tiled
  <1>3. \A x \in Addr : ~(x > a /\ x < a + Needed(bytes)) => n[x] = m[x]
    BY <1>2, FillAt
  <1> HIDE DEF n
  <1>4. ASSUME NEW x \in B, x # a
        PROVE  /\ ~(x > a /\ x < a + Needed(bytes))
               /\ ~(x + 1 > a /\ x + 1 < a + Needed(bytes))
               /\ ~(x + 2 > a /\ x + 2 < a + Needed(bytes))
    <2>1. /\ x \in Nat /\ m[x] \in Nat /\ m[x] >= 3
          /\ a + m[a] <= x \/ x + m[x] <= a
      BY <1>4, TiledFacts
    <2> QED
      BY <1>1, <1>2, <2>1
  <1>5. n[a] = m[a]
    BY <1>2, <1>3
  <1> QED
    BY <1>2, <1>3, <1>4, <1>5 DEF n

-----------------------------------------------------------------------------
(* The heap: a list of chunks and chunks that are held                     *)
HeldAt(lv) == {l.at : l \in lv}
Blocks(c, lv) == Listing(c) \cup HeldAt(lv)

Sound(m, mp, first, lv, c) ==
  /\ c \in Seq(Addr)
  /\ \A k, j \in 1 .. Len(c) : c[k] = c[j] => k = j
  /\ IsList(m, first, c)
  /\ \A l, k \in lv : l.at = k.at => l = k
  /\ Listing(c) \cap HeldAt(lv) = {}
  /\ Tiled(m, mp, Blocks(c, lv))
  /\ \A l \in lv : 8 * m[l.at] >= l.bytes + 8

(* Nothing is lost, and neighbours in the list are merged.                 *)
Merged(m, L) == \A a, b \in L : a + m[a] = b => b % Unit = 0
Full(m, mp, lv, c) == Covers(m, mp, Blocks(c, lv)) /\ Merged(m, Listing(c))

(* As long as no free has bent the list it is one; and as long as none has *)
(* lost a part of it, it has all that is not held.                         *)
HeapInv ==
  Trusted =>
    /\ wild # "junk"
    /\ \E c : /\ Sound(mem, mapped, FreeList, live, c)
              /\ slips = {} => Full(mem, mapped, live, c)

IInv == TypeInv /\ HeapInv

(* A walk along a sound list meets its chunks, in order, and ends.         *)
LEMMA SoundFacts ==
  ASSUME TypeInv, NEW m \in Memories, NEW first \in Pointers, NEW c, Sound(m, mapped, first, live, c)
  PROVE  /\ Spread(c) /\ Len(c) \in Nat /\ c \in Seq(Addr)
         /\ \A k \in 1 .. Len(c) : /\ c[k] \in Blocks(c, live) /\ c[k] \in Listing(c) /\ c[k] \in Addr
                                   /\ c[k] # NULL /\ m[c[k]] \in 0 .. MemWords
         /\ Tiled(m, mapped, Blocks(c, live))
         /\ LET w == Walk(m, first)
            IN /\ Len(w) = Len(c) + 1 /\ w[Len(c) + 1] = NULL
               /\ \A k \in 1 .. Len(c) : w[k] = c[k]
  <1>1. c \in Seq(Addr) /\ Len(c) \in Nat /\ Tiled(m, mapped, Blocks(c, live)) /\ IsList(m, first, c)
    BY DEF Sound
  <1>2. Spread(c)
    <2>1. Listing(c) \subseteq Blocks(c, live)
      BY DEF Blocks
    <2>2. \A k, j \in 1 .. Len(c) : c[k] = c[j] => k = j
      BY DEF Sound
    <2> QED
      BY <1>1, <2>1, <2>2, TiledSpread
  <1>3. ASSUME NEW k \in 1 .. Len(c)
        PROVE  /\ c[k] \in Blocks(c, live) /\ c[k] \in Listing(c) /\ c[k] \in Addr
               /\ c[k] # NULL /\ m[c[k]] \in 0 .. MemWords
    <2>1. c[k] \in Listing(c) /\ c[k] \in Blocks(c, live)
      BY DEF Listing, Blocks
    <2>2. Block(m, mapped, c[k])
      BY <1>1, <2>1 DEF Tiled
    <2>3. m[c[k]] \in Nat /\ m[c[k]] <= MemWords /\ c[k] \in Addr /\ c[k] # NULL
      BY <2>2, BlockFacts
    <2> QED
      BY <2>1, <2>3, Numbers
  <1>4. /\ Len(Walk(m, first)) = Len(c) + 1 /\ Walk(m, first)[Len(c) + 1] = NULL
        /\ \A k \in 1 .. Len(c) : Walk(m, first)[k] = c[k]
    BY <1>1, <1>2, <1>3, ListWalk, PointerFacts
  <1> QED
    BY <1>1, <1>2, <1>3, <1>4

(* The chunks before and behind one of the list                            *)
LEMMA NeighboursOf ==
  ASSUME NEW m, NEW first, NEW c, Spread(c), IsList(m, first, c), NEW i \in 1 .. Len(c)
  PROVE  /\ Next_of(m, c[i]) = Succ(c, i) /\ Prev_of(m, c[i]) = Pred(c, i)
         /\ Succ(c, i) \in Listing(c) \cup {NULL} /\ Pred(c, i) \in Listing(c) \cup {NULL}
         /\ Succ(c, i) # c[i]
         /\ Pred(c, i) = NULL <=> i = 1
         /\ Succ(c, i) = NULL <=> i = Len(c)
  <1>1. /\ Len(c) \in Nat /\ \A k \in 1 .. Len(c) : c[k] \in Nat /\ c[k] # NULL
        /\ \A k, j \in 1 .. Len(c) : c[k] = c[j] => k = j
    BY SpreadFacts
  <1>2. m[c[i] + 1] = Succ(c, i) /\ m[c[i] + 2] = Pred(c, i)
    <2>1. i = 1 \/ i \in 2 .. Len(c)
      BY <1>1
    <2>2. i = 1 => Len(c) > 0
      BY <1>1
    <2> QED
      BY <2>1, <2>2 DEF IsList, IsTail, Pred
  <1>3. i < Len(c) => i + 1 \in 1 .. Len(c) /\ i + 1 # i
    BY <1>1
  <1>4. i > 1 => i - 1 \in 1 .. Len(c)
    BY <1>1
  <1>5. i \in Nat /\ i >= 1 /\ i <= Len(c)
    BY <1>1
  <1>6. /\ Succ(c, i) \in Listing(c) \cup {NULL} /\ Succ(c, i) # c[i]
        /\ Succ(c, i) = NULL <=> i = Len(c)
    BY <1>1, <1>3, <1>5 DEF Succ, Listing
  <1>7. /\ Pred(c, i) \in Listing(c) \cup {NULL}
        /\ Pred(c, i) = NULL <=> i = 1
    BY <1>1, <1>4, <1>5 DEF Pred, Listing
  <1> QED
    BY <1>2, <1>6, <1>7 DEF Next_of, Prev_of

(* The program gets one chunk more, or gives one back.                     *)
LEMMA HeldMore ==
  ASSUME NEW lv, \A l, k \in lv : l.at = k.at => l = k, NEW a, a \notin HeldAt(lv), NEW bytes
  PROVE  LET more == lv \cup {[at |-> a, bytes |-> bytes]}
         IN HeldAt(more) = HeldAt(lv) \cup {a} /\ \A l, k \in more : l.at = k.at => l = k
  <1> DEFINE r == [at |-> a, bytes |-> bytes]
             more == lv \cup {r}
  <1>1. r.at = a /\ more = lv \cup {r}
    OBVIOUS
  <1> HIDE DEF r, more
  <1>2. \A l \in lv : l.at # a
    BY DEF HeldAt
  <1>3. HeldAt(more) = HeldAt(lv) \cup {a}
    BY <1>1 DEF HeldAt
  <1>4. ASSUME NEW l \in more, NEW k \in more, l.at = k.at PROVE l = k
    BY <1>1, <1>2, <1>4
  <1> QED
    BY <1>3, <1>4 DEF more, r

(* ... or gives one back.                                                  *)
LEMMA HeldLess ==
  ASSUME NEW lv, \A l, k \in lv : l.at = k.at => l = k, NEW l \in lv
  PROVE  LET less == {k \in lv : k.at # l.at}
         IN /\ HeldAt(less) = HeldAt(lv) \ {l.at} /\ less \subseteq lv
            /\ \A k, j \in less : k.at = j.at => k = j
  BY DEF HeldAt

(* One and the same chunk is not at two places of what is left of a list.  *)
LEMMA CutInjective ==
  ASSUME NEW c, Spread(c), NEW i \in 1 .. (Len(c) + 1), NEW j \in (i - 1) .. Len(c)
  PROVE  \A k, h \in 1 .. Len(Cut(c, i, j)) : Cut(c, i, j)[k] = Cut(c, i, j)[h] => k = h
  <1>1. Spread(Cut(c, i, j))
    BY CutSpread
  <1> QED
    BY <1>1, SpreadFacts

(* The same for a list with a chunk more in front                          *)
LEMMA BeforeInjective ==
  ASSUME NEW c, c \in Seq(Addr), \A k, j \in 1 .. Len(c) : c[k] = c[j] => k = j,
         NEW a \in Addr, a \notin Listing(c)
  PROVE  \A k, j \in 1 .. Len(Before(a, c)) : Before(a, c)[k] = Before(a, c)[j] => k = j
  <1> DEFINE d == Before(a, c)
  <1>1. /\ Len(d) = Len(c) + 1 /\ Len(c) \in Nat /\ d[1] = a
        /\ \A k \in 2 .. Len(d) : k - 1 \in 1 .. Len(c) /\ d[k] = c[k - 1]
    BY BeforeFacts
  <1> HIDE DEF d
  <1>2. \A k \in 1 .. Len(d) : k = 1 \/ k \in 2 .. Len(d)
    BY <1>1
  <1>3. \A k \in 2 .. Len(d) : d[k] # a
    BY <1>1 DEF Listing
  <1>4. ASSUME NEW k \in 2 .. Len(d), NEW j \in 2 .. Len(d), d[k] = d[j] PROVE k = j
    <2>1. k - 1 = j - 1
      BY <1>1, <1>4
    <2> QED
      BY <1>1, <2>1
  <1>5. ASSUME NEW k \in 1 .. Len(d), NEW j \in 1 .. Len(d), d[k] = d[j] PROVE k = j
    BY <1>1, <1>2, <1>3, <1>4, <1>5
  <1> QED
    BY <1>5 DEF d

(* A list of one chunk less, all else as it was                            *)
LEMMA CutListing ==
  ASSUME NEW c, Spread(c), NEW i \in 1 .. Len(c)
  PROVE  Listing(Cut(c, i, i)) = Listing(c) \ {c[i]}
  <1> DEFINE d == Cut(c, i, i)
  <1>1. /\ Len(c) \in Nat /\ c \in Seq(Addr) /\ \A k, j \in 1 .. Len(c) : c[k] = c[j] => k = j
    BY SpreadFacts
  <1>2. i \in 1 .. (Len(c) + 1) /\ i \in (i - 1) .. Len(c)
    BY <1>1
  <1>3. /\ (i + 1) - i = 1
        /\ \A k \in 1 .. Len(d) : k < i => k \in 1 .. Len(c) /\ d[k] = c[k]
        /\ \A k \in 1 .. Len(d) : ~(k < i) => k + (i + 1 - i) \in 1 .. Len(c) /\ d[k] = c[k + (i + 1 - i)]
        /\ Listing(d) \subseteq Listing(c)
        /\ \A k \in 1 .. Len(c) : k < i \/ k > i => c[k] \in Listing(d)
    BY <1>1, <1>2, CutFacts
  <1> HIDE DEF d
  <1>4. ASSUME NEW k \in 1 .. Len(d) PROVE d[k] # c[i]
    <2>1. CASE k < i
      BY <1>1, <1>3, <2>1
    <2>2. CASE ~(k < i)
      <3>1. k + (i + 1 - i) \in 1 .. Len(c) /\ d[k] = c[k + (i + 1 - i)] /\ k + (i + 1 - i) # i
        BY <1>3, <2>2
      <3> QED
        BY <1>1, <3>1
    <2> QED
      BY <2>1, <2>2
  <1>5. c[i] \notin Listing(d)
    BY <1>4 DEF Listing
  <1>6. ASSUME NEW x \in Listing(c), x # c[i] PROVE x \in Listing(d)
    <2>1. PICK k \in 1 .. Len(c) : x = c[k]
      BY DEF Listing
    <2>2. k < i \/ k > i
      BY <1>1, <1>6, <2>1
    <2> QED
      BY <1>3, <2>1, <2>2
  <1> QED
    BY <1>3, <1>5, <1>6 DEF d

-----------------------------------------------------------------------------
(* Allocations                                                             *)

(* The chunk FirstFit comes to is one of the list, if there is one.        *)
LEMMA FitOfList ==
  ASSUME TypeInv, NEW c, Sound(mem, mapped, FreeList, live, c), NEW bytes \in Nat
  PROVE  \/ FirstFit(bytes) = NULL
         \/ /\ FirstFit(bytes) \notin {NULL, Junk}
            /\ \E i \in 1 .. Len(c) : FirstFit(bytes) = c[i]
            /\ Linked(mem, FirstFit(bytes))
  <1> DEFINE w == Walk(mem, FreeList)
             wanted == {a \in Met(w) : /\ 8 * Size(mem, a) >= bytes + ALLOC_MEM_METADATA
                                       /\ 8 * Size(mem, a) >= FREE_MEM_METADATA}
             a == FirstFit(bytes)
  <1>1. a = Search(w, wanted)
    BY DEF FirstFit
  <1>2. /\ Spread(c) /\ Len(c) \in Nat /\ Len(w) = Len(c) + 1 /\ w[Len(c) + 1] = NULL
        /\ \A k \in 1 .. Len(c) : w[k] = c[k] /\ c[k] \in Addr
    BY TypeParts, SoundFacts
  <1> HIDE DEF w, wanted, a
  <1>3. Len(w) \in Nat \ {0} /\ Len(w) - 1 = Len(c)
    BY <1>2
  <1>4. \/ \E i \in 1 .. Len(c) : a = w[i]
        \/ a = NULL
    BY <1>1, <1>2, <1>3, SearchFacts
  <1>5. ASSUME NEW i \in 1 .. Len(c), a = w[i]
        PROVE  a \notin {NULL, Junk} /\ (\E k \in 1 .. Len(c) : a = c[k]) /\ Linked(mem, a)
    <2>1. a = c[i] /\ a \in Addr
      BY <1>2, <1>5
    <2>2. /\ Next_of(mem, c[i]) \in Listing(c) \cup {NULL}
          /\ Prev_of(mem, c[i]) \in Listing(c) \cup {NULL}
      <3>1. IsList(mem, FreeList, c)
        BY DEF Sound
      <3> QED
        BY <1>2, <3>1, NeighboursOf
    <2>3. \A v \in Listing(c) \cup {NULL} : Pointer(v)
      BY <1>2 DEF Spread, Listing, Pointer
    <2>4. Linked(mem, a)
      BY <2>1, <2>2, <2>3 DEF Linked
    <2> QED
      BY <2>1, <2>4, Numbers
  <1> QED
    BY <1>4, <1>5 DEF a

(* A chunk is taken out of the list: the others make a list, and no size   *)
(* has changed.                                                            *)
LEMMA TakenFacts ==
  ASSUME TypeInv, NEW c, Sound(mem, mapped, FreeList, live, c), NEW i \in 1 .. Len(c)
  PROVE  LET a == c[i]
             m == Unlink(mem, a)
             d == Cut(c, i, i)
             first == IF Prev_of(mem, a) = NULL THEN Next_of(mem, a) ELSE FreeList
         IN /\ m \in Memories /\ IsList(m, first, d)
            /\ \A x \in Blocks(c, live) : m[x] = mem[x]
            /\ Tiled(m, mapped, Blocks(c, live))
            /\ d \in Seq(Addr) /\ \A k, j \in 1 .. Len(d) : d[k] = d[j] => k = j
            /\ Listing(d) = Listing(c) \ {a} /\ first \in Listing(d) \cup {NULL}
            /\ a \in Blocks(c, live) /\ a \in Listing(c)
  <1> DEFINE a == c[i]
             d == Cut(c, i, i)
             p == Pred(c, i)
             s == Succ(c, i)
             B == Blocks(c, live)
             m1 == SetNext(mem, p, s)
             m == SetPrev(m1, s, p)
             first == IF p = NULL THEN s ELSE FreeList
  <1>1. /\ Spread(c) /\ Len(c) \in Nat /\ c \in Seq(Addr) /\ mem \in Memories
        /\ a \in B /\ a \in Listing(c)
        /\ Tiled(mem, mapped, B) /\ IsList(mem, FreeList, c)
    BY TypeParts, SoundFacts DEF Sound
  <1>2. /\ Next_of(mem, a) = s /\ Prev_of(mem, a) = p
        /\ s \in Listing(c) \cup {NULL} /\ p \in Listing(c) \cup {NULL} /\ s # a
        /\ p = NULL <=> i = 1
    BY <1>1, NeighboursOf
  <1>3. /\ Unlink(mem, a) = m
        /\ first = IF Prev_of(mem, a) = NULL THEN Next_of(mem, a) ELSE FreeList
    BY <1>2 DEF Unlink
  <1>4. s \in B \cup {NULL} /\ p \in B \cup {NULL} /\ s \in Values /\ p \in Values
    <2>1. \A x \in Listing(c) : x \in B /\ x \in Addr
      BY <1>1 DEF Blocks, Listing
    <2> QED
      BY <1>2, <2>1, Numbers
  <1>5. i \in 1 .. (Len(c) + 1) /\ i \in (i - 1) .. Len(c)
    BY <1>1
  <1>6. IsList(m, IF i = 1 THEN s ELSE FreeList, d)
    BY <1>1, <1>5, CutLinks
  <1>7. Listing(d) = Listing(c) \ {a}
    BY <1>1, CutListing
  <1>8. d \in Seq(Addr) /\ \A k, j \in 1 .. Len(d) : d[k] = d[j] => k = j
    BY <1>1, <1>5, CutSpread, SpreadFacts
  <1>9. first = IF i = 1 THEN s ELSE FreeList
    BY <1>2
  <1>10. first \in Listing(d) \cup {NULL}
    <2>1. CASE i = 1
      BY <1>2, <1>7, <1>9, <2>1
    <2>2. CASE i # 1
      <3>1. FreeList = Succ(d, 0)
        BY <1>6, <2>2 DEF IsList, IsTail
      <3>2. Len(d) \in Nat /\ (0 < Len(d) => 1 \in 1 .. Len(d))
        BY <1>8
      <3>3. FreeList \in Listing(d) \cup {NULL}
        BY <3>1, <3>2 DEF Succ, Listing
      <3> QED
        BY <1>9, <2>2, <3>3
    <2> QED
      BY <2>1, <2>2
  <1> HIDE DEF B, a, d, p, s, first
  <1>11. m1 \in Memories /\ \A x \in B : m1[x] = mem[x]
    <2>1. mem \in Memories /\ Tiled(mem, mapped, B) /\ p \in B \cup {NULL} /\ s \in Values
      BY <1>1, <1>4
    <2> QED
      BY <2>1, SizesStay
  <1>12. Tiled(m1, mapped, B)
    BY <1>1, <1>11, TiledFrame
  <1> HIDE DEF m1
  <1>13. m \in Memories /\ \A x \in B : m[x] = m1[x]
    BY <1>4, <1>11, <1>12, SizesStay
  <1>14. Tiled(m, mapped, B)
    BY <1>12, <1>13, TiledFrame
  <1> HIDE DEF m
  <1> QED
    BY <1>1, <1>2, <1>3, <1>6, <1>7, <1>8, <1>9, <1>10, <1>11, <1>13, <1>14 DEF B, a, d, p, s, first

(* Requests are met by enough words.                                       *)
LEMMA HeldLong ==
  ASSUME NEW lv, NEW m, \A l \in lv : 8 * m[l.at] >= l.bytes + 8,
         NEW n, \A l \in lv : n[l.at] = m[l.at], NEW a, NEW bytes, 8 * n[a] >= bytes + 8
  PROVE  \A l \in lv \cup {[at |-> a, bytes |-> bytes]} : 8 * n[l.at] >= l.bytes + 8
  <1> DEFINE r == [at |-> a, bytes |-> bytes]
  <1>1. r.at = a /\ r.bytes = bytes
    OBVIOUS
  <1> HIDE DEF r
  <1>2. \A l \in lv \cup {r} : 8 * n[l.at] >= l.bytes + 8
    BY <1>1
  <1> QED
    BY <1>2 DEF r

(* A chunk at a is neither in the list nor held: the list goes on without  *)
(* it, and all the chunks there are lie apart.                             *)
OffList(n, mp, C, a, first, d, lv) ==
  /\ n \in Memories /\ mp \in SUBSET Addr /\ Tiled(n, mp, C)
  /\ d \in Seq(Addr) /\ \A k, j \in 1 .. Len(d) : d[k] = d[j] => k = j
  /\ IsList(n, first, d)
  /\ \A l, k \in lv : l.at = k.at => l = k
  /\ a \notin HeldAt(lv) /\ a \notin Listing(d) /\ Listing(d) \cap HeldAt(lv) = {}
  /\ C = Listing(d) \cup HeldAt(lv) \cup {a}
  /\ \A l \in lv : 8 * n[l.at] >= l.bytes + 8

(* It can be handed out.                                                   *)
ReadyFor(n, mp, C, a, first, d, lv, bytes) ==
  OffList(n, mp, C, a, first, d, lv) /\ n[a] >= Needed(bytes) /\ bytes \in Nat

With(lv, a, bytes) == lv \cup {[at |-> a, bytes |-> bytes]}

(* The chunk of a request is the program's: what is left of the list goes  *)
(* on, whatever the program writes.                                        *)
LEMMA GrantKeepsSound ==
  ASSUME NEW n, NEW mp, NEW C, NEW a, NEW first, NEW d, NEW lv, NEW bytes,
         ReadyFor(n, mp, C, a, first, d, lv, bytes)
  PROVE  LET m == Fill(n, a, bytes)
             more == With(lv, a, bytes)
         IN /\ Sound(m, mp, first, more, d)
            /\ Blocks(d, more) = C
            /\ \A x \in C : m[x] = n[x]
  <1> DEFINE m == Fill(n, a, bytes)
             more == With(lv, a, bytes)
  <1> n \in Memories /\ mp \in SUBSET Addr /\ Tiled(n, mp, C) /\ d \in Seq(Addr)
      /\ IsList(n, first, d) /\ a \in C /\ bytes \in Nat /\ n[a] >= Needed(bytes)
      /\ a \notin HeldAt(lv) /\ a \notin Listing(d) /\ Listing(d) \cap HeldAt(lv) = {}
      /\ C = Listing(d) \cup HeldAt(lv) \cup {a}
    BY DEF ReadyFor, OffList
  <1>1. HeldAt(more) = HeldAt(lv) \cup {a} /\ \A l, k \in more : l.at = k.at => l = k
    <2>1. \A l, k \in lv : l.at = k.at => l = k
      BY DEF ReadyFor, OffList
    <2> QED
      BY <2>1, HeldMore DEF With
  <1>2. /\ \A x \in C : m[x] = n[x]
        /\ \A x \in C \ {a} : m[x + 1] = n[x + 1] /\ m[x + 2] = n[x + 2]
    BY FillStays
  <1>3. \A l \in more : 8 * m[l.at] >= l.bytes + 8
    <2>1. /\ \A l \in lv : m[l.at] = n[l.at]
          /\ \A l \in lv : 8 * n[l.at] >= l.bytes + 8
      BY <1>2 DEF HeldAt, ReadyFor, OffList
    <2>2. 8 * n[a] >= bytes + 8
      <3>1. n[a] \in Nat
        BY BlockFacts DEF Tiled
      <3>2. Needed(bytes) \in Nat /\ 8 * Needed(bytes) >= bytes + 8
        BY NeededFacts
      <3> HIDE DEF m, more
      <3> QED
        BY <3>1, <3>2
    <2>3. 8 * m[a] >= bytes + 8
      BY <1>2, <2>2
    <2> HIDE DEF m
    <2> QED
      BY <2>1, <2>3, HeldLong DEF With
  <1> HIDE DEF m, more
  <1>4. Blocks(d, more) = C /\ Listing(d) \cap HeldAt(more) = {}
    BY <1>1 DEF Blocks
  <1>5. Tiled(m, mp, C)
    BY <1>2, TiledFrame
  <1>6. IsList(m, first, d)
    <2>1. \A k \in 1 .. Len(d) : d[k] \in C \ {a}
      BY DEF Listing
    <2>2. \A k \in 1 .. Len(d) : m[d[k] + 1] = n[d[k] + 1] /\ m[d[k] + 2] = n[d[k] + 2]
      BY <1>2, <2>1
    <2>3. Len(d) \in Nat
      OBVIOUS
    <2> QED
      BY <2>2, <2>3, ListFrame
  <1>7. Sound(m, mp, first, more, d)
    BY <1>1, <1>3, <1>4, <1>5, <1>6 DEF Sound, ReadyFor, OffList
  <1> QED
    BY <1>2, <1>4, <1>7 DEF m, more

(* The chunk FirstFit comes to can be handed out once it is out of the     *)
(* list.                                                                   *)
LEMMA TakenReady ==
  ASSUME TypeInv, NEW c, Sound(mem, mapped, FreeList, live, c), NEW i \in 1 .. Len(c), NEW a, a = c[i],
         NEW bytes \in Nat, mem[a] >= Needed(bytes)
  PROVE  LET first == IF Prev_of(mem, a) = NULL THEN Next_of(mem, a) ELSE FreeList
             n == Unlink(mem, a)
             d == Cut(c, i, i)
             B == Blocks(c, live)
         IN /\ ReadyFor(n, mapped, B, a, first, d, live, bytes)
            /\ n[a] = mem[a]
            /\ Full(mem, mapped, live, c) => Covers(n, mapped, B) /\ Merged(n, Listing(d) \cup {a})
  <1> DEFINE n == Unlink(mem, a)
             d == Cut(c, i, i)
             B == Blocks(c, live)
             first == IF Prev_of(mem, a) = NULL THEN Next_of(mem, a) ELSE FreeList
  <1>1. /\ n \in Memories /\ IsList(n, first, d)
        /\ \A x \in B : n[x] = mem[x]
        /\ Tiled(n, mapped, B)
        /\ d \in Seq(Addr) /\ \A k, j \in 1 .. Len(d) : d[k] = d[j] => k = j
        /\ Listing(d) = Listing(c) \ {a}
        /\ a \in B /\ a \in Listing(c)
    BY TakenFacts
  <1>2. mapped \in SUBSET Addr
    BY TypeParts
  <1> HIDE DEF n, d, first
  <1>3. /\ \A l, k \in live : l.at = k.at => l = k
        /\ Listing(c) \cap HeldAt(live) = {}
        /\ \A l \in live : 8 * mem[l.at] >= l.bytes + 8
    BY DEF Sound
  <1>4. /\ a \notin HeldAt(live) /\ a \notin Listing(d) /\ Listing(d) \cap HeldAt(live) = {}
        /\ B = Listing(d) \cup HeldAt(live) \cup {a}
    BY <1>1, <1>3 DEF Blocks
  <1>5. \A l \in live : 8 * n[l.at] >= l.bytes + 8
    <2>1. \A l \in live : n[l.at] = mem[l.at]
      BY <1>1 DEF Blocks, HeldAt
    <2> QED
      BY <1>3, <2>1
  <1>6. n[a] = mem[a] /\ n[a] >= Needed(bytes)
    BY <1>1
  <1> HIDE DEF B
  <1>7. ReadyFor(n, mapped, B, a, first, d, live, bytes)
    BY <1>1, <1>2, <1>3, <1>4, <1>5, <1>6 DEF ReadyFor, OffList
  <1>8. ASSUME Full(mem, mapped, live, c) PROVE Covers(n, mapped, B) /\ Merged(n, Listing(d) \cup {a})
    <2>1. Covers(mem, mapped, B) /\ Merged(mem, Listing(c))
      BY <1>8 DEF Full, B
    <2>2. Covers(n, mapped, B)
      BY <1>1, <2>1, CoversFrame
    <2>3. \A x \in Listing(d) \cup {a} : x \in Listing(c) /\ n[x] = mem[x]
      BY <1>1, <1>4
    <2>4. Merged(n, Listing(d) \cup {a})
      BY <2>1, <2>3 DEF Merged
    <2> QED
      BY <2>2, <2>4
  <1> QED
    BY <1>6, <1>7, <1>8 DEF n, d, B, first

(* The chunk is handed out as it is.                                       *)
LEMMA WholeKeepsSound ==
  ASSUME NEW n, NEW mp, NEW B, NEW a, NEW first, NEW d, NEW lv, NEW bytes,
         ReadyFor(n, mp, B, a, first, d, lv, bytes)
  PROVE  LET m == Fill(n, a, bytes)
             more == With(lv, a, bytes)
         IN /\ Sound(m, mp, first, more, d)
            /\ Covers(n, mp, B) /\ Merged(n, Listing(d) \cup {a}) => Full(m, mp, more, d)
  <1> DEFINE m == Fill(n, a, bytes)
             more == With(lv, a, bytes)
  <1>1. Sound(m, mp, first, more, d) /\ Blocks(d, more) = B /\ \A x \in B : m[x] = n[x]
    BY GrantKeepsSound
  <1>2. \A x \in Listing(d) : x \in B
    BY DEF ReadyFor, OffList
  <1> HIDE DEF m, more
  <1>3. ASSUME Covers(n, mp, B), Merged(n, Listing(d) \cup {a}) PROVE Full(m, mp, more, d)
    <2>1. Covers(m, mp, B)
      BY <1>1, <1>3, CoversFrame
    <2>2. Merged(m, Listing(d))
      BY <1>1, <1>2, <1>3 DEF Merged
    <2> QED
      BY <1>1, <2>1, <2>2 DEF Full
  <1> QED
    BY <1>1, <1>3 DEF m, more

(* Memory in which the chunk at a can be split after k words, and e is the *)
(* rest of the list                                                        *)
CanSplit(m, mp, B, a, k, first, e) ==
  /\ m \in Memories /\ mp \in SUBSET Addr /\ Tiled(m, mp, B) /\ a \in B
  /\ e \in Seq(Addr) /\ \A h, j \in 1 .. Len(e) : e[h] = e[j] => h = j
  /\ Listing(e) \subseteq B \ {a} /\ IsList(m, first, e)
  /\ k \in Nat /\ k >= 3 /\ m[a] - k >= 3

Parted(m, a, k, first) ==
  SetPrev(Chunk([m EXCEPT ![a] = k], a + k, m[a] - k, first, NULL), first, a + k)

(* In n it is, and the rest, at r, is the first chunk of a list d.         *)
IsSplit(m, n, mp, B, a, k, r, e, d) ==
  /\ n \in Memories /\ r \in Addr /\ r \notin B /\ r = a + k
  /\ n[a] = k /\ n[r] = m[a] - k /\ \A x \in B \ {a} : n[x] = m[x]
  /\ Tiled(n, mp, B \cup {r})
  /\ Covers(m, mp, B) => Covers(n, mp, B \cup {r})
  /\ IsList(n, r, d) /\ d \in Seq(Addr)
  /\ \A h, j \in 1 .. Len(d) : d[h] = d[j] => h = j
  /\ Listing(d) = Listing(e) \cup {r}

(* The rest goes to the head of the list, before what first leads to.      *)
LEMMA RestIsListed ==
  ASSUME NEW m, NEW mp, NEW B, NEW a, NEW k, NEW first, NEW e, CanSplit(m, mp, B, a, k, first, e)
  PROVE  IsSplit(m, Parted(m, a, k, first), mp, B, a, k, a + k, e, Before(a + k, e))
  <1> DEFINE r == a + k
             s == m[a] - k
             m1 == [m EXCEPT ![a] = k]
             m2 == Chunk(m1, r, s, first, NULL)
             n == SetPrev(m2, first, r)
             d == Before(r, e)
             C == B \cup {r}
  <1> /\ m \in Memories /\ mp \in SUBSET Addr /\ Tiled(m, mp, B) /\ a \in B
      /\ e \in Seq(Addr) /\ \A h, j \in 1 .. Len(e) : e[h] = e[j] => h = j
      /\ Listing(e) \subseteq B \ {a} /\ IsList(m, first, e)
      /\ k \in Nat /\ k >= 3 /\ m[a] - k >= 3
    BY DEF CanSplit
  <1>1. /\ a \in Addr /\ a \in Nat /\ m[a] \in Nat /\ m[a] <= MemWords /\ a + m[a] <= Base + MemWords
        /\ a >= Base
        /\ \A x \in B : x \in Addr /\ x # NULL /\ x + 1 \in Addr /\ x + 2 \in Addr
    BY BlockFacts DEF Tiled
  <1>2. r \in Addr /\ r \in Nat /\ r # a /\ s \in Nat /\ s >= 3 /\ r # NULL
    <2>1. r \in Nat /\ r >= Base /\ r < Base + MemWords /\ r # a /\ s \in Nat /\ s >= 3
      BY <1>1, Numbers
    <2> QED
      BY <2>1, Numbers
  <1>3. k \in Values /\ s \in Values /\ r \in Values /\ NULL \in Values
    BY <1>1, <1>2, Numbers DEF Values
  <1>4. first \in Listing(e) \cup {NULL}
    <2>1. first = Succ(e, 0)
      BY DEF IsList, IsTail
    <2>2. Len(e) \in Nat /\ (0 < Len(e) => 1 \in 1 .. Len(e))
      OBVIOUS
    <2> QED
      BY <2>1, <2>2 DEF Succ, Listing
  <1>5. first \in Pointers /\ first \in Values
    BY <1>1, <1>4, PointerFacts, Numbers DEF Pointers
  <1>6. /\ \A x \in B : x # r /\ x # r + 1 /\ x # r + 2 /\ x + 2 # r
        /\ \A x \in B : x + 2 # a /\ x + 1 # a
    <2>1. ASSUME NEW x \in B PROVE x # r /\ x # r + 1 /\ x # r + 2 /\ x + 2 # r
      <3>1. CASE x = a
        BY <1>1, <3>1
      <3>2. CASE x # a
        <4>1. x \in Nat /\ m[x] \in Nat /\ m[x] >= 3 /\ (a + m[a] <= x \/ x + m[x] <= a)
          BY <3>2, TiledFacts
        <4>2. CASE a + m[a] <= x
          BY <1>1, <4>1, <4>2
        <4>3. CASE x + m[x] <= a
          BY <1>1, <4>1, <4>3
        <4> QED
          BY <4>1, <4>2, <4>3
      <3> QED
        BY <3>1, <3>2
    <2> QED
      BY <2>1, TiledFacts
  <1>7. first # NULL => first \in B /\ first # a
    BY <1>4
  <1> HIDE DEF r, s
  <1>8. m1 \in Memories /\ \A x \in Addr : m1[x] = IF x = a THEN k ELSE m[x]
    BY <1>1, <1>3, SetSizeAt
  <1> HIDE DEF m1
  <1>9. /\ m2 \in Memories
        /\ \A x \in Addr : m2[x] = IF x = r THEN s ELSE IF x = r + 1 THEN first
                                   ELSE IF x = r + 2 THEN NULL ELSE m1[x]
    BY <1>2, <1>3, <1>5, <1>8, ChunkAt
  <1> HIDE DEF m2
  <1>10. /\ n \in Memories
         /\ \A x \in Addr : n[x] = IF first # NULL /\ x = first + 2 THEN r ELSE m2[x]
    BY <1>3, <1>5, <1>9, SetPrevAt
  <1> HIDE DEF n
  <1>11. n[a] = k /\ n[r] = s /\ \A x \in B \ {a} : n[x] = m[x]
    <2>1. ASSUME NEW x \in B PROVE n[x] = IF x = a THEN k ELSE m[x]
      <3>1. first # NULL => x # first + 2
        BY <1>7, TiledFacts
      <3> QED
        BY <1>1, <1>6, <1>8, <1>9, <1>10, <3>1
    <2>2. n[r] = s
      <3>1. first # NULL => r # first + 2
        BY <1>6, <1>7
      <3>2. m2[r] = s /\ r \in Addr
        BY <1>2, <1>9
      <3> QED
        BY <1>10, <3>1, <3>2
    <2> QED
      BY <2>1, <2>2
  <1>12. /\ Tiled(n, mp, C)
         /\ Covers(m, mp, B) => Covers(n, mp, C)
    <2>1. n[a] = k /\ n[a + k] = m[a] - k /\ \A x \in B \ {a} : n[x] = m[x]
      BY <1>11 DEF r, s
    <2>2. mp \in SUBSET Addr /\ Tiled(m, mp, B) /\ a \in B /\ k \in Nat /\ k >= 3 /\ m[a] - k >= 3
      OBVIOUS
    <2>3. /\ Tiled(n, mp, B \cup {a + k})
          /\ Covers(m, mp, B) => Covers(n, mp, B \cup {a + k})
      BY ONLY <2>1, <2>2, TiledSplit
    <2> QED
      BY <2>3 DEF r
  <1>13. \A h \in 1 .. Len(e) : e[h] \in B \ {a} /\ e[h] \in Addr
    BY <1>1 DEF Listing
  <1>14. IsTail(m1, first, e)
    <2>1. ASSUME NEW h \in 1 .. Len(e) PROVE m1[e[h] + 1] = m[e[h] + 1] /\ m1[e[h] + 2] = m[e[h] + 2]
      BY <1>1, <1>6, <1>8, <1>13
    <2>2. IsTail(m, first, e) /\ Len(e) \in Nat
      BY DEF IsList
    <2> QED
      BY <2>1, <2>2, ListFrame
  <1>15. /\ d \in Seq(Addr) /\ Listing(d) = Listing(e) \cup {r}
         /\ \A h, j \in 1 .. Len(d) : d[h] = d[j] => h = j
    <2>1. r \notin Listing(e)
      BY <1>6
    <2> QED
      BY <1>2, <2>1, BeforeFacts, BeforeInjective
  <1> HIDE DEF d
  <1>16. Spread(e) /\ Spread(d)
    <2>1. Listing(e) \subseteq C /\ Listing(d) \subseteq C
      BY <1>15
    <2> HIDE DEF C
    <2> QED
      BY <1>12, <1>15, <2>1, TiledSpread
  <1>17. IsList(n, r, d)
    BY <1>2, <1>3, <1>8, <1>14, <1>16, PushLinks DEF n, m2, d
  <1>18. r \notin B
    BY <1>6
  <1> QED
    BY <1>2, <1>10, <1>11, <1>12, <1>15, <1>17, <1>18 DEF IsSplit, Parted, n, m2, m1, d, r, s

(* The rest of a chunk has no neighbours but those of the chunk.           *)
LEMMA SplitStaysMerged ==
  ASSUME NEW m, NEW mp, NEW B, Tiled(m, mp, B), NEW a \in B, NEW k \in Nat, k >= 3, m[a] - k >= 3,
         NEW n, n[a + k] = m[a] - k, NEW E, E \subseteq B \ {a}, \A x \in E : n[x] = m[x],
         Merged(m, E \cup {a})
  PROVE  Merged(n, E \cup {a + k})
  <1> DEFINE r == a + k
             s == m[a] - k
  <1>1. /\ a \in Nat /\ m[a] \in Nat /\ r \in Nat /\ s \in Nat /\ s >= 3 /\ r + s = a + m[a]
        /\ r > a /\ n[r] = s /\ r < a + m[a]
    <2>1. a \in Nat /\ m[a] \in Nat
      BY TiledFacts
    <2> QED
      BY <2>1
  <1> HIDE DEF r, s
  <1>2. SUFFICES ASSUME NEW x \in E \cup {r}, NEW y \in E \cup {r}, x + n[x] = y PROVE y % Unit = 0
    BY DEF Merged, r
  <1>3. CASE x = r
    <2>1. y = a + m[a] /\ y # r
      BY <1>1, <1>2, <1>3
    <2> QED
      BY <1>2, <2>1 DEF Merged
  <1>4. CASE x # r
    <2>1. x \in E /\ x \in B /\ x # a /\ n[x] = m[x]
      BY <1>2, <1>4
    <2>2. x \in Nat /\ m[x] \in Nat /\ m[x] >= 3 /\ (a + m[a] <= x \/ x + m[x] <= a)
      BY <2>1, TiledFacts
    <2>3. x + m[x] # r
      BY <1>1, <2>2
    <2> QED
      BY <1>2, <2>1, <2>3 DEF Merged
  <1> QED
    BY <1>3, <1>4

(* A chunk is split, and its first part handed out.                        *)
LEMMA SplitKeepsSound ==
  ASSUME NEW m, NEW mp, NEW B, NEW a, NEW first, NEW e, NEW lv, NEW bytes,
         ReadyFor(m, mp, B, a, first, e, lv, bytes), m[a] - Needed(bytes) >= 3
  PROVE  LET r == a + Needed(bytes)
             p == Fill(Parted(m, a, Needed(bytes), first), a, bytes)
             d == Before(r, e)
             more == With(lv, a, bytes)
         IN /\ Sound(p, mp, r, more, d)
            /\ Covers(m, mp, B) /\ Merged(m, Listing(e) \cup {a}) => Full(p, mp, more, d)
  <1> DEFINE k == Needed(bytes)
             r == a + k
             s == m[a] - k
             n == Parted(m, a, k, first)
             p == Fill(n, a, bytes)
             d == Before(r, e)
             more == With(lv, a, bytes)
             C == B \cup {r}
  <1> /\ m \in Memories /\ mp \in SUBSET Addr /\ Tiled(m, mp, B) /\ a \in B
      /\ e \in Seq(Addr) /\ \A h, j \in 1 .. Len(e) : e[h] = e[j] => h = j
      /\ IsList(m, first, e)
      /\ \A l, j \in lv : l.at = j.at => l = j
      /\ a \notin HeldAt(lv) /\ a \notin Listing(e) /\ Listing(e) \cap HeldAt(lv) = {}
      /\ B = Listing(e) \cup HeldAt(lv) \cup {a}
      /\ \A l \in lv : 8 * m[l.at] >= l.bytes + 8
      /\ bytes \in Nat
    BY DEF ReadyFor, OffList
  <1>1. k \in Nat /\ k >= 3 /\ m[a] - k >= 3
    BY NeededFacts
  <1> HIDE DEF k
  <1>2. /\ n \in Memories /\ r \in Addr /\ r \notin B
        /\ n[a] = k /\ n[r] = s /\ \A x \in B \ {a} : n[x] = m[x]
        /\ Tiled(n, mp, C)
        /\ Covers(m, mp, B) => Covers(n, mp, C)
        /\ IsList(n, r, d) /\ d \in Seq(Addr)
        /\ \A h, j \in 1 .. Len(d) : d[h] = d[j] => h = j
        /\ Listing(d) = Listing(e) \cup {r}
    <2>1. CanSplit(m, mp, B, a, k, first, e)
      BY <1>1 DEF CanSplit
    <2>2. IsSplit(m, n, mp, B, a, k, r, e, d)
      BY <2>1, RestIsListed
    <2> HIDE DEF n, d, r, more, p
    <2> QED
      BY <2>2 DEF IsSplit
  <1> HIDE DEF n, d, r, s
  <1>3. ReadyFor(n, mp, C, a, r, d, lv, bytes)
    <2>1. a # r
      BY <1>2
    <2>2. /\ a \notin HeldAt(lv) /\ a \notin Listing(d) /\ Listing(d) \cap HeldAt(lv) = {}
          /\ C = Listing(d) \cup HeldAt(lv) \cup {a}
      BY <1>2, <2>1
    <2>3. \A l \in lv : 8 * n[l.at] >= l.bytes + 8
      <3>1. \A l \in lv : l.at \in B \ {a}
        BY DEF HeldAt
      <3>2. \A l \in lv : n[l.at] = m[l.at]
        BY <1>2, <3>1
      <3> QED
        BY <3>2
    <2>4. n[a] >= Needed(bytes)
      <3>1. n[a] = Needed(bytes) /\ Needed(bytes) \in Nat
        BY <1>1, <1>2 DEF k
      <3> HIDE DEF C, more, p
      <3> QED
        BY <3>1
    <2> HIDE DEF C
    <2> QED
      BY <1>2, <2>2, <2>3, <2>4 DEF ReadyFor, OffList
  <1> HIDE DEF C
  <1>4. Sound(p, mp, r, more, d) /\ Blocks(d, more) = C /\ \A x \in C : p[x] = n[x]
    BY <1>3, GrantKeepsSound
  <1> HIDE DEF p, more
  <1>5. ASSUME Covers(m, mp, B), Merged(m, Listing(e) \cup {a}) PROVE Full(p, mp, more, d)
    <2>1. Covers(p, mp, C)
      BY <1>2, <1>4, <1>5, CoversFrame
    <2>2. /\ p[a + k] = m[a] - k /\ Listing(e) \subseteq B \ {a}
          /\ \A x \in Listing(e) : p[x] = m[x]
      <3>1. r \in C /\ \A x \in Listing(e) : x \in C /\ x \in B \ {a}
        BY DEF C
      <3> QED
        BY <1>2, <1>4, <3>1 DEF r, s
    <2>3. Merged(p, Listing(e) \cup {a + k})
      BY <1>1, <1>5, <2>2, SplitStaysMerged
    <2>4. Listing(e) \cup {a + k} = Listing(d)
      BY <1>2 DEF r
    <2> QED
      BY <1>4, <2>1, <2>3, <2>4 DEF Full
  <1> QED
    BY <1>4, <1>5 DEF p, n, more, d, r, s, k

(* What memalloc hands out from the list keeps the heap sound.             *)
LEMMA ListKeepsSound ==
  ASSUME TypeInv, NEW c, Sound(mem, mapped, FreeList, live, c), NEW bytes \in Nat, alloc_from_list(bytes)
  PROVE  \E d : /\ Sound(mem', mapped', FreeList', live', d)
                /\ Full(mem, mapped, live, c) => Full(mem', mapped', live', d)
  <1> DEFINE a == FirstFit(bytes)
             k == Needed(bytes)
             first == IF Prev_of(mem, a) = NULL THEN Next_of(mem, a) ELSE FreeList
             n == Unlink(mem, a)
             B == Blocks(c, live)
             more == With(live, a, bytes)
  <1>1. /\ a \notin {NULL, Junk} /\ mapped' = mapped
        /\ \/ /\ ~Split(mem[a], k) /\ FreeList' = first
              /\ mem' = Fill(n, a, bytes) /\ live' = more
           \/ /\ Split(mem[a], k) /\ FreeList' = a + k
              /\ mem' = Fill(SetPrev(Chunk([n EXCEPT ![a] = k], a + k, mem[a] - k, first, NULL), first, a + k),
                             a, bytes)
              /\ live' = more
    BY DEF alloc_from_list, Grant, With, Size
  <1>2. mem[a] >= k
    BY <1>1, FitFacts
  <1>3. PICK i \in 1 .. Len(c) : a = c[i]
    BY <1>1, FitOfList
  <1> DEFINE e == Cut(c, i, i)
  <1>4. /\ ReadyFor(n, mapped, B, a, first, e, live, bytes)
        /\ n[a] = mem[a]
        /\ Full(mem, mapped, live, c) => Covers(n, mapped, B) /\ Merged(n, Listing(e) \cup {a})
    BY <1>2, <1>3, TakenReady
  <1> HIDE DEF a, n, B, e, first
  <1>5. CASE ~Split(mem[a], k)
    <2>1. /\ Sound(Fill(n, a, bytes), mapped, first, more, e)
          /\ Full(mem, mapped, live, c) => Full(Fill(n, a, bytes), mapped, more, e)
      BY <1>4, WholeKeepsSound
    <2>2. mem' = Fill(n, a, bytes) /\ FreeList' = first /\ live' = more /\ mapped' = mapped
      BY <1>1, <1>5
    <2> HIDE DEF more, k
    <2>3. /\ Sound(mem', mapped', FreeList', live', e)
          /\ Full(mem, mapped, live, c) => Full(mem', mapped', live', e)
      BY <2>1, <2>2
    <2> QED
      BY <2>3
  <1>6. CASE Split(mem[a], k)
    <2>1. n[a] - k >= 3
      BY <1>4, <1>6 DEF Split, MinWords
    <2> DEFINE p == Fill(Parted(n, a, k, first), a, bytes)
               d == Before(a + k, e)
    <2>2. /\ Sound(p, mapped, a + k, more, d)
          /\ Full(mem, mapped, live, c) => Full(p, mapped, more, d)
      BY <1>4, <2>1, SplitKeepsSound
    <2>3. mem' = p /\ FreeList' = a + k /\ live' = more /\ mapped' = mapped
      BY <1>1, <1>4, <1>6 DEF Parted
    <2> HIDE DEF more, p, k, d
    <2>4. /\ Sound(mem', mapped', FreeList', live', d)
          /\ Full(mem, mapped, live, c) => Full(mem', mapped', live', d)
      BY <2>2, <2>3
    <2> QED
      BY <2>4
  <1> QED
    BY <1>5, <1>6

(* What memalloc gets from the system begins and ends with a unit.         *)
LEMMA Multiple ==
  ASSUME NEW u \in Nat \ {0}, NEW n \in Nat
  PROVE  (u * n) % u = 0
  OBVIOUS

(* What mmap gives begins at a multiple of Unit.                           *)
LEMMA WholeUnits ==
  ASSUME NEW n \in Nat
  PROVE  (Base + Unit * n) % Unit = 0
  <1>1. Unit \in Nat \ {0} /\ MemUnits \in Nat /\ 3 * MemUnits + 1 + n \in Nat
    BY HeapAssumption
  <1>2. Base + Unit * n = Unit * (3 * MemUnits + 1 + n)
    BY <1>1 DEF Base, MaxWords, MemWords
  <1> QED
    BY <1>1, <1>2, Multiple

(* The memory that is got, before anything is handed out: a chunk of its   *)
(* own.                                                                    *)
LEMMA NewReady ==
  ASSUME TypeInv, NEW c, Sound(mem, mapped, FreeList, live, c), NEW bytes \in Nat,
         NEW region \in Regions(bytes), Cardinality(region) - Needed(bytes) >= MinWords
  PROVE  LET a == Min(region)
             s == Cardinality(region)
             m == [mem EXCEPT ![a] = s]
             B == Blocks(c, live)
         IN /\ ReadyFor(m, mapped \cup region, B \cup {a}, a, FreeList, c, live, bytes)
            /\ Full(mem, mapped, live, c) =>
                 Covers(m, mapped \cup region, B \cup {a}) /\ Merged(m, Listing(c) \cup {a})
            /\ a \in Addr /\ s \in Nat /\ m[a] = s /\ mem \in Memories
  <1> DEFINE a == Min(region)
             s == Cardinality(region)
             m == [mem EXCEPT ![a] = s]
             B == Blocks(c, live)
             mp == mapped \cup region
  <1>1. /\ region \subseteq Addr \ mapped
        /\ a \in Addr /\ a \in Nat /\ s \in Nat /\ s <= MemWords
        /\ region = a .. (a + s - 1)
        /\ \E u \in 0 .. (MemUnits - 1) : a = Base + Unit * u
        /\ s = Unit * Units(bytes) /\ Units(bytes) \in Nat
    BY RegionFacts
  <1>2. Needed(bytes) \in Nat /\ Needed(bytes) >= 3 /\ s >= 6 /\ s - Needed(bytes) >= 3
    <2>1. Needed(bytes) \in Nat /\ Needed(bytes) >= 3 /\ s - Needed(bytes) >= MinWords
      BY NeededFacts
    <2> QED
      BY <1>1, <2>1 DEF MinWords
  <1> HIDE DEF a, s
  <1>3. /\ mem \in Memories /\ mapped \in SUBSET Addr /\ c \in Seq(Addr)
        /\ Tiled(mem, mapped, B) /\ IsList(mem, FreeList, c) /\ Spread(c)
        /\ \A h, j \in 1 .. Len(c) : c[h] = c[j] => h = j
        /\ \A l, k \in live : l.at = k.at => l = k
        /\ Listing(c) \cap HeldAt(live) = {}
        /\ \A l \in live : 8 * mem[l.at] >= l.bytes + 8
    BY TypeParts, SoundFacts DEF Sound
  <1>4. s \in Values
    <2>1. s \in Nat /\ s >= 6 /\ s <= MemWords /\ MemWords \in Nat /\ MaxWords = 3 * MemWords
      BY <1>1, <1>2, Numbers
    <2>2. s \in 1 .. MaxWords
      BY <2>1
    <2> QED
      BY <2>2 DEF Values
  <1>5. m \in Memories /\ \A x \in Addr : m[x] = IF x = a THEN s ELSE mem[x]
    BY <1>1, <1>3, <1>4, SetSizeAt
  <1>6. a \in a .. (a + s - 1) /\ a + s <= Base + MemWords
    <2>1. a \in Nat /\ s \in Nat /\ s >= 6
      BY <1>1, <1>2
    <2>2. a \in a .. (a + s - 1) /\ a + s - 1 \in a .. (a + s - 1)
      BY <2>1
    <2>3. a + s - 1 \in Base .. (Base + MemWords - 1) /\ Base \in Nat /\ MemWords \in Nat
      BY <1>1, <2>2, Numbers
    <2>4. a + s <= Base + MemWords
      BY <2>1, <2>3
    <2> QED
      BY <2>2, <2>4
  <1>7. /\ a \notin mapped /\ a \notin B /\ \A x \in a .. (a + s - 1) : x \notin mapped
        /\ \A x \in B : x \in Addr /\ x \in mapped /\ x + 1 \in mapped /\ x + 2 \in mapped
    <2>1. a \notin mapped /\ \A x \in a .. (a + s - 1) : x \notin mapped
      BY <1>1, <1>6
    <2>2. ASSUME NEW x \in B PROVE x \in Addr /\ x \in mapped /\ x + 1 \in mapped /\ x + 2 \in mapped
      <3>1. Block(mem, mapped, x)
        BY <1>3 DEF Tiled
      <3>2. x \in Addr /\ x \in Nat /\ mem[x] \in Nat /\ mem[x] >= 3
        BY <3>1, BlockFacts
      <3>3. {x, x + 1, x + 2} \subseteq x .. (x + mem[x] - 1)
        BY <3>2
      <3> QED
        BY <3>1, <3>2, <3>3 DEF Block
    <2> QED
      BY <2>1, <2>2
  <1> HIDE DEF m, B
  <1>8. m[a] = s /\ \A x \in B : m[x] = mem[x] /\ m[x + 1] = mem[x + 1] /\ m[x + 2] = mem[x + 2]
    BY <1>1, <1>3, <1>5, <1>7
  <1>9. /\ Tiled(m, mapped \cup (a .. (a + s - 1)), B \cup {a})
        /\ Covers(mem, mapped, B) => Covers(m, mapped \cup (a .. (a + s - 1)), B \cup {a})
    <2>1. /\ mapped \in SUBSET Addr /\ Tiled(mem, mapped, B) /\ a \in Addr /\ s \in Nat /\ s >= 3
          /\ a + s <= Base + MemWords /\ \A x \in a .. (a + s - 1) : x \notin mapped
          /\ m[a] = s /\ \A x \in B : m[x] = mem[x]
      <3>1. mapped \in SUBSET Addr /\ Tiled(mem, mapped, B)
        BY <1>3
      <3>2. a \in Addr /\ s \in Nat /\ s >= 3
        BY <1>1, <1>2
      <3> QED
        BY <1>6, <1>7, <1>8, <3>1, <3>2
    <2> QED
      BY <2>1, TiledNew
  <1>10. mp = mapped \cup (a .. (a + s - 1)) /\ mp \in SUBSET Addr
    BY <1>1, <1>3
  <1> HIDE DEF mp
  <1>11. B = Listing(c) \cup HeldAt(live)
    BY DEF B, Blocks
  <1>12. IsList(m, FreeList, c)
    <2>1. \A h \in 1 .. Len(c) : c[h] \in B
      BY <1>11 DEF Listing
    <2>2. \A h \in 1 .. Len(c) : m[c[h] + 1] = mem[c[h] + 1] /\ m[c[h] + 2] = mem[c[h] + 2]
      BY <1>8, <2>1
    <2>3. Len(c) \in Nat
      BY <1>3
    <2> QED
      BY <1>3, <2>2, <2>3, ListFrame
  <1>13. ReadyFor(m, mp, B \cup {a}, a, FreeList, c, live, bytes)
    <2>1. \A l \in live : 8 * m[l.at] >= l.bytes + 8
      <3>1. \A l \in live : l.at \in B
        BY <1>11 DEF HeldAt
      <3>2. \A l \in live : m[l.at] = mem[l.at]
        BY <1>8, <3>1
      <3> QED
        BY <1>3, <3>2
    <2>2. m[a] >= Needed(bytes)
      BY <1>1, <1>2, <1>8
    <2>3. /\ a \notin HeldAt(live) /\ a \notin Listing(c)
          /\ B \cup {a} = Listing(c) \cup HeldAt(live) \cup {a}
      BY <1>7, <1>11
    <2>4. Tiled(m, mp, B \cup {a})
      BY <1>9, <1>10
    <2> QED
      BY <1>3, <1>5, <1>10, <1>12, <2>1, <2>2, <2>3, <2>4 DEF ReadyFor, OffList
  <1>14. ASSUME Full(mem, mapped, live, c)
         PROVE  Covers(m, mp, B \cup {a}) /\ Merged(m, Listing(c) \cup {a})
    <2>1. Covers(mem, mapped, B) /\ Merged(mem, Listing(c))
      BY <1>14 DEF Full, B
    <2>2. Covers(m, mp, B \cup {a})
      BY <1>9, <1>10, <2>1
    <2>3. a % Unit = 0 /\ (a + s) % Unit = 0
      <3>1. PICK u \in 0 .. (MemUnits - 1) : a = Base + Unit * u
        BY <1>1
      <3>2. u \in Nat /\ u + Units(bytes) \in Nat
        BY <1>1
      <3>3. a + s = Base + Unit * (u + Units(bytes))
        <4>1. Unit \in Nat /\ Base \in Nat /\ Units(bytes) \in Nat
          BY <1>1, Numbers
        <4>2. Unit * (u + Units(bytes)) = Unit * u + Unit * Units(bytes)
          BY <3>2, <4>1
        <4>3. Unit * u \in Nat /\ Unit * Units(bytes) \in Nat
          BY <3>2, <4>1
        <4>4. a = Base + Unit * u /\ s = Unit * Units(bytes) /\ a \in Nat /\ s \in Nat
          BY <1>1, <3>1
        <4> DEFINE x == Unit * u
                   y == Unit * Units(bytes)
                   z == Unit * (u + Units(bytes))
        <4>5. a = Base + x /\ s = y /\ z = x + y /\ x \in Nat /\ y \in Nat /\ Base \in Nat
          BY <4>1, <4>2, <4>3, <4>4
        <4> HIDE DEF x, y, z
        <4>6. a + s = Base + z
          BY <4>5
        <4> QED
          BY <4>6 DEF z
      <3> QED
        BY <3>1, <3>2, <3>3, WholeUnits
    <2>4. ASSUME NEW x \in Listing(c) \cup {a}, NEW y \in Listing(c) \cup {a}, x + m[x] = y
          PROVE  y % Unit = 0
      <3>1. CASE y = a
        BY <2>3, <3>1
      <3>2. CASE x = a
        BY <1>8, <2>3, <2>4, <3>2
      <3>3. CASE x # a /\ y # a
        <4>1. x \in Listing(c) /\ y \in Listing(c) /\ m[x] = mem[x]
          BY <1>8, <1>11, <2>4, <3>3
        <4> QED
          BY <2>1, <2>4, <4>1 DEF Merged
      <3> QED
        BY <3>1, <3>2, <3>3
    <2>5. Merged(m, Listing(c) \cup {a})
      BY <2>4 DEF Merged
    <2> QED
      BY <2>2, <2>5
  <1> QED
    BY <1>1, <1>3, <1>8, <1>13, <1>14 DEF m, mp, B, a, s

(* What memalloc hands out of it keeps the heap sound.                     *)
LEMMA SystemKeepsSound ==
  ASSUME TypeInv, NEW c, Sound(mem, mapped, FreeList, live, c), NEW bytes \in Nat, alloc_from_system(bytes)
  PROVE  \E d : /\ Sound(mem', mapped', FreeList', live', d)
                /\ Full(mem, mapped, live, c) => Full(mem', mapped', live', d)
  <1> DEFINE k == Needed(bytes)
             more(a) == With(live, a, bytes)
  <1>1. PICK region \in Regions(bytes) :
          /\ Cardinality(region) - k >= MinWords
          /\ mapped' = mapped \cup region
          /\ FreeList' = Min(region) + k
          /\ mem' = Fill(Push([mem EXCEPT ![Min(region)] = k], Min(region) + k, Cardinality(region) - k),
                         Min(region), bytes)
          /\ live' = more(Min(region))
    BY DEF alloc_from_system, Grant, With
  <1> DEFINE a == Min(region)
             s == Cardinality(region)
             m == [mem EXCEPT ![a] = s]
             B == Blocks(c, live)
             mp == mapped \cup region
             p == Fill(Parted(m, a, k, FreeList), a, bytes)
             d == Before(a + k, c)
  <1>2. /\ ReadyFor(m, mp, B \cup {a}, a, FreeList, c, live, bytes)
        /\ Full(mem, mapped, live, c) => Covers(m, mp, B \cup {a}) /\ Merged(m, Listing(c) \cup {a})
        /\ a \in Addr /\ s \in Nat /\ m[a] = s /\ mem \in Memories
    BY <1>1, NewReady
  <1>3. m[a] - k >= 3
    BY <1>1, <1>2 DEF MinWords
  <1> HIDE DEF a, s, k
  <1>4. mem' = p /\ mapped' = mp /\ FreeList' = a + k /\ live' = more(a)
    <2>1. [m EXCEPT ![a] = k] = [mem EXCEPT ![a] = k]
      BY <1>2 DEF Memories
    <2>2. /\ mapped' = mp /\ FreeList' = a + k /\ live' = more(a)
          /\ mem' = Fill(Push([mem EXCEPT ![a] = k], a + k, s - k), a, bytes)
      BY <1>1 DEF a, s
    <2> HIDE DEF m, more
    <2> QED
      BY <1>2, <2>1, <2>2 DEF Push, Parted
  <1> HIDE DEF m, B, mp
  <1>5. /\ Sound(p, mp, a + k, more(a), d)
        /\ Full(mem, mapped, live, c) => Full(p, mp, more(a), d)
    BY <1>2, <1>3, SplitKeepsSound DEF k
  <1> HIDE DEF p, more, d
  <1>6. /\ Sound(mem', mapped', FreeList', live', d)
        /\ Full(mem, mapped, live, c) => Full(mem', mapped', live', d)
    BY <1>4, <1>5
  <1> QED
    BY <1>6

-----------------------------------------------------------------------------
(* Frees                                                                   *)

(* The chunk of a free, before it is in the list                           *)
LEMMA FreedFacts ==
  ASSUME TypeInv, NEW c, Sound(mem, mapped, FreeList, live, c), NEW l \in live
  PROVE  LET a == l.at
             m == Loose(a)
             less == {k \in live : k.at # a}
             B == Blocks(c, live)
         IN /\ OffList(m, mapped, B, a, FreeList, c, less)
            /\ mem[a] \in 0 .. MemWords /\ m[a] = mem[a]
            /\ Full(mem, mapped, live, c) => Covers(m, mapped, B) /\ Merged(m, Listing(c))
  <1> DEFINE a == l.at
             m == Loose(a)
             less == {k \in live : k.at # a}
             B == Blocks(c, live)
  <1>1. /\ mem \in Memories /\ mapped \in SUBSET Addr /\ c \in Seq(Addr)
        /\ Tiled(mem, mapped, B) /\ IsList(mem, FreeList, c)
        /\ \A h, j \in 1 .. Len(c) : c[h] = c[j] => h = j
        /\ \A j, k \in live : j.at = k.at => j = k
        /\ Listing(c) \cap HeldAt(live) = {}
        /\ \A k \in live : 8 * mem[k.at] >= k.bytes + 8
    BY TypeParts DEF Sound
  <1>2. B = Listing(c) \cup HeldAt(live) /\ a \in HeldAt(live)
    BY DEF Blocks, HeldAt
  <1>3. mem[a] \in 0 .. MemWords
    <2>1. Block(mem, mapped, a)
      BY <1>1, <1>2 DEF Tiled
    <2> QED
      BY <2>1, BlockFacts, Numbers
  <1>4. /\ m \in Memories /\ m[a] = mem[a]
        /\ \A x \in Addr : m[x] = IF x = a + 1 \/ x = a + 2 THEN NULL ELSE mem[x]
    BY <1>3, LooseFacts
  <1>5. /\ HeldAt(less) = HeldAt(live) \ {a} /\ less \subseteq live
        /\ \A j, k \in less : j.at = k.at => j = k
    BY <1>1, HeldLess
  <1> HIDE DEF m, less, B, a
  <1>6. \A x \in B : m[x] = mem[x]
    <2>1. \A x \in B : x \in Addr /\ x # a + 1 /\ x # a + 2
      <3>1. a \in B /\ Tiled(mem, mapped, B)
        BY <1>1, <1>2
      <3>2. \A x \in B : x # a + 1 /\ x # a + 2
        BY <3>1, TiledFacts
      <3>3. \A x \in B : x \in Addr
        BY <3>1 DEF Tiled, Block
      <3> QED
        BY <3>2, <3>3
    <2> QED
      BY <1>4, <2>1
  <1>7. Tiled(m, mapped, B)
    BY <1>1, <1>6, TiledFrame
  <1>8. IsList(m, FreeList, c)
    <2>1. ASSUME NEW h \in 1 .. Len(c)
          PROVE  m[c[h] + 1] = mem[c[h] + 1] /\ m[c[h] + 2] = mem[c[h] + 2]
      <3> DEFINE x == c[h]
      <3>1. x \in B /\ x \in Listing(c) /\ x # a
        BY <1>1, <1>2 DEF Listing
      <3> HIDE DEF x
      <3>2. /\ a \in Nat /\ x \in Nat /\ mem[a] \in Nat /\ mem[x] \in Nat /\ mem[a] >= 3 /\ mem[x] >= 3
            /\ a + mem[a] <= x \/ x + mem[x] <= a
        BY <1>1, <1>2, <3>1, TiledFacts
      <3>3. x + 1 # a + 1 /\ x + 1 # a + 2 /\ x + 2 # a + 1 /\ x + 2 # a + 2
        BY <3>2
      <3>4. x + 1 \in Addr /\ x + 2 \in Addr
        BY <1>1, <3>1, BlockFacts DEF Tiled
      <3>5. m[x + 1] = mem[x + 1] /\ m[x + 2] = mem[x + 2]
        BY <1>4, <3>3, <3>4
      <3> QED
        BY <3>5 DEF x
    <2>2. Len(c) \in Nat
      BY <1>1
    <2> QED
      BY <1>1, <2>1, <2>2, ListFrame
  <1>9. /\ a \notin HeldAt(less) /\ a \notin Listing(c) /\ Listing(c) \cap HeldAt(less) = {}
        /\ B = Listing(c) \cup HeldAt(less) \cup {a}
    BY <1>1, <1>2, <1>5
  <1>10. \A k \in less : 8 * m[k.at] >= k.bytes + 8
    <2>1. \A k \in less : k \in live /\ k.at \in B
      BY <1>2, <1>5 DEF HeldAt
    <2>2. \A k \in less : m[k.at] = mem[k.at]
      BY <1>6, <2>1
    <2> QED
      BY <1>1, <2>1, <2>2
  <1>11. OffList(m, mapped, B, a, FreeList, c, less)
    BY <1>1, <1>4, <1>5, <1>7, <1>8, <1>9, <1>10 DEF OffList
  <1>12. ASSUME Full(mem, mapped, live, c) PROVE Covers(m, mapped, B) /\ Merged(m, Listing(c))
    <2>1. Covers(mem, mapped, B) /\ Merged(mem, Listing(c))
      BY <1>12 DEF Full, B
    <2>2. Covers(m, mapped, B)
      BY <1>6, <2>1, CoversFrame
    <2>3. \A x \in Listing(c) : m[x] = mem[x]
      BY <1>2, <1>6
    <2> QED
      BY <2>1, <2>2, <2>3 DEF Merged
  <1> QED
    BY <1>3, <1>4, <1>11, <1>12 DEF m, less, B, a

(* Searches for neighbours come to chunks of the list, or to its end.      *)
LEMMA NeighbourFacts ==
  ASSUME TypeInv, NEW c, Sound(mem, mapped, FreeList, live, c), NEW l \in live
  PROVE  LET a == l.at
             m == Loose(a)
             w == Walk(m, FreeList)
         IN /\ Len(w) = Len(c) + 1 /\ w[Len(c) + 1] = NULL /\ \A k \in 1 .. Len(c) : w[k] = c[k]
            /\ w \in Seq(Values)
            /\ \/ RightOf(a) = NULL /\ \A x \in Listing(c) : x # a + m[a]
               \/ \E j \in 1 .. Len(c) : RightOf(a) = c[j] /\ c[j] = a + m[a]
            /\ \/ LeftOf(a) = NULL /\ \A x \in Listing(c) : x + m[x] # a
               \/ \E i \in 1 .. Len(c) : LeftOf(a) = c[i] /\ c[i] + m[c[i]] = a
  <1> DEFINE a == l.at
             m == Loose(a)
             w == Walk(m, FreeList)
             B == Blocks(c, live)
             less == {k \in live : k.at # a}
             wanted == {p \in Met(w) : p + m[p] = a}
  <1>1. OffList(m, mapped, B, a, FreeList, c, less) /\ m[a] = mem[a]
    BY FreedFacts
  <1>2. /\ RightOf(a) = Search(w, {a + m[a]})
        /\ LeftOf(a) = Search(w, wanted)
    BY <1>1 DEF RightOf, LeftOf, Size
  <1> HIDE DEF less, m
  <1>3. /\ m \in Memories /\ Tiled(m, mapped, B) /\ IsList(m, FreeList, c) /\ c \in Seq(Addr)
        /\ \A k, j \in 1 .. Len(c) : c[k] = c[j] => k = j
    BY <1>1 DEF OffList
  <1>4. Spread(c)
    <2>1. Listing(c) \subseteq B
      BY DEF Blocks
    <2> QED
      BY <1>3, <2>1, TiledSpread
  <1>5. \A k \in 1 .. Len(c) : m[c[k]] \in 0 .. MemWords
    <2>1. ASSUME NEW k \in 1 .. Len(c) PROVE m[c[k]] \in 0 .. MemWords
      <3>1. Block(m, mapped, c[k])
        BY <1>3 DEF Tiled, Blocks, Listing
      <3> QED
        BY <3>1, BlockFacts, Numbers
    <2> QED
      BY <2>1
  <1>6. FreeList \in Values
    BY TypeParts, PointerFacts
  <1>7. /\ Len(w) = Len(c) + 1 /\ Len(c) \in Nat /\ w[Len(c) + 1] = NULL
        /\ \A k \in 1 .. Len(c) : w[k] = c[k]
    BY <1>3, <1>4, <1>5, <1>6, ListWalk
  <1>8. w \in Seq(Values)
    BY <1>3, <1>6, WalkFacts DEF IsWalk
  <1>9. wanted = {p \in Listing(c) : p + m[p] = a}
    <2>1. Met(w) = Listing(c)
      BY <1>7 DEF Met, Listing
    <2> QED
      BY <2>1
  <1> HIDE DEF w, wanted, B, a
  <1>10. Len(w) \in Nat \ {0} /\ Len(w) - 1 = Len(c)
    BY <1>7
  <1>11. \/ RightOf(a) = NULL /\ \A x \in Listing(c) : x # a + m[a]
         \/ \E j \in 1 .. Len(c) : RightOf(a) = c[j] /\ c[j] = a + m[a]
    <2>1. \/ \E i \in 1 .. (Len(w) - 1) : w[i] \in {a + m[a]} /\ RightOf(a) = w[i]
          \/ /\ \A i \in 1 .. (Len(w) - 1) : w[i] \notin {a + m[a]}
             /\ RightOf(a) = IF w[Len(w)] = NULL THEN NULL ELSE Junk
      BY <1>2, <1>10, SearchFacts
    <2> QED
      BY <1>7, <1>10, <2>1 DEF Listing
  <1>12. \/ LeftOf(a) = NULL /\ \A x \in Listing(c) : x + m[x] # a
         \/ \E i \in 1 .. Len(c) : LeftOf(a) = c[i] /\ c[i] + m[c[i]] = a
    <2>1. \/ \E i \in 1 .. (Len(w) - 1) : w[i] \in wanted /\ LeftOf(a) = w[i]
          \/ /\ \A i \in 1 .. (Len(w) - 1) : w[i] \notin wanted
             /\ LeftOf(a) = IF w[Len(w)] = NULL THEN NULL ELSE Junk
      BY <1>2, <1>10, SearchFacts
    <2> QED
      BY <1>7, <1>9, <1>10, <2>1 DEF Listing
  <1> QED
    BY <1>7, <1>8, <1>11, <1>12 DEF m, w, a

(* Memory in which the chunk at a goes before a tail e of the list, that   *)
(* top leads to                                                            *)
CanLead(m, mp, B, a, s, top, e) ==
  /\ m \in Memories /\ Tiled(m, mp, B) /\ a \in B /\ s \in Values
  /\ e \in Seq(Addr) /\ \A h, j \in 1 .. Len(e) : e[h] = e[j] => h = j
  /\ Listing(e) \subseteq B \ {a} /\ IsTail(m, top, e)

Led(m, a, s, top) == SetPrev(Chunk(m, a, s, top, NULL), top, a)

(* In n it does, with another size.                                        *)
Leads(m, n, B, a, s, e, d) ==
  /\ n \in Memories /\ n[a] = s /\ \A x \in B \ {a} : n[x] = m[x]
  /\ IsList(n, a, d) /\ d \in Seq(Addr)
  /\ \A h, j \in 1 .. Len(d) : d[h] = d[j] => h = j
  /\ Listing(d) = Listing(e) \cup {a}

(* The pointers and sizes after a chunk is written at the head of a list   *)
LEMMA HeadLinks ==
  ASSUME NEW m, NEW mp, NEW B, NEW a, NEW s, NEW top, NEW e, CanLead(m, mp, B, a, s, top, e)
  PROVE  Leads(m, Led(m, a, s, top), B, a, s, e, Before(a, e))
  <1> DEFINE m1 == Chunk(m, a, s, top, NULL)
             n == SetPrev(m1, top, a)
             d == Before(a, e)
  <1> /\ m \in Memories /\ Tiled(m, mp, B) /\ a \in B /\ s \in Values
      /\ e \in Seq(Addr) /\ \A h, j \in 1 .. Len(e) : e[h] = e[j] => h = j
      /\ Listing(e) \subseteq B \ {a} /\ IsTail(m, top, e)
    BY DEF CanLead
  <1>1. \A x \in B : x \in Addr /\ x # NULL
    BY BlockFacts DEF Tiled
  <1>2. top \in Listing(e) \cup {NULL}
    <2>1. top = Succ(e, 0)
      BY DEF IsTail
    <2>2. Len(e) \in Nat /\ (0 < Len(e) => 1 \in 1 .. Len(e))
      OBVIOUS
    <2> QED
      BY <2>1, <2>2 DEF Succ, Listing
  <1>3. top \in Pointers /\ top \in Values /\ a \in Values /\ NULL \in Values /\ a \in Addr
    BY <1>1, <1>2, PointerFacts, Numbers DEF Pointers
  <1>4. /\ m1 \in Memories
        /\ \A x \in Addr : m1[x] = IF x = a THEN s ELSE IF x = a + 1 THEN top
                                   ELSE IF x = a + 2 THEN NULL ELSE m[x]
    BY <1>3, ChunkAt
  <1> HIDE DEF m1
  <1>5. /\ n \in Memories
        /\ \A x \in Addr : n[x] = IF top # NULL /\ x = top + 2 THEN a ELSE m1[x]
    BY <1>3, <1>4, SetPrevAt
  <1> HIDE DEF n
  <1>6. \A x \in B : n[x] = IF x = a THEN s ELSE m[x]
    <2>1. ASSUME NEW x \in B PROVE n[x] = IF x = a THEN s ELSE m[x]
      <3>1. x # a + 1 /\ x # a + 2 /\ (top # NULL => x # top + 2)
        BY <1>2, TiledFacts
      <3> QED
        BY <1>1, <1>4, <1>5, <3>1
    <2> QED
      BY <2>1
  <1>7. /\ d \in Seq(Addr) /\ Listing(d) = Listing(e) \cup {a}
        /\ \A h, j \in 1 .. Len(d) : d[h] = d[j] => h = j
    <2>1. a \notin Listing(e)
      OBVIOUS
    <2> QED
      BY <1>3, <2>1, BeforeFacts, BeforeInjective
  <1>8. Spread(e) /\ Spread(d)
    <2>1. Listing(e) \subseteq B /\ Listing(d) \subseteq B
      BY <1>7
    <2> HIDE DEF d
    <2> QED
      BY <1>7, <2>1, TiledSpread
  <1>9. IsList(n, a, d)
    BY <1>3, <1>8, PushLinks DEF n, m1
  <1> HIDE DEF d
  <1>10. Leads(m, n, B, a, s, e, d)
    BY <1>5, <1>6, <1>7, <1>9 DEF Leads
  <1> QED
    BY <1>10 DEF n, m1, d, Led

(* A chunk without neighbours goes to the head of the list.                *)
LEMMA AloneKeepsSound ==
  ASSUME NEW m, NEW mp, NEW B, NEW a, NEW first, NEW c, NEW lv, OffList(m, mp, B, a, first, c, lv)
  PROVE  LET n == Led(m, a, m[a], first)
             d == Before(a, c)
         IN /\ Sound(n, mp, a, lv, d)
            /\ /\ Covers(m, mp, B) /\ Merged(m, Listing(c))
               /\ \A x \in Listing(c) : x # a + m[a] /\ x + m[x] # a
               => Full(n, mp, lv, d)
  <1> DEFINE n == Led(m, a, m[a], first)
             d == Before(a, c)
  <1> /\ m \in Memories /\ mp \in SUBSET Addr /\ Tiled(m, mp, B)
      /\ c \in Seq(Addr) /\ \A k, j \in 1 .. Len(c) : c[k] = c[j] => k = j
      /\ IsList(m, first, c)
      /\ \A l, k \in lv : l.at = k.at => l = k
      /\ a \notin HeldAt(lv) /\ a \notin Listing(c) /\ Listing(c) \cap HeldAt(lv) = {}
      /\ B = Listing(c) \cup HeldAt(lv) \cup {a}
      /\ \A l \in lv : 8 * m[l.at] >= l.bytes + 8
    BY DEF OffList
  <1>1. a \in Nat /\ m[a] \in Values /\ m[a] \in Nat /\ m[a] >= 3
    BY BlockFacts DEF Tiled
  <1>2. CanLead(m, mp, B, a, m[a], first, c)
    BY <1>1 DEF CanLead, IsList
  <1>3. Leads(m, n, B, a, m[a], c, d)
    BY <1>2, HeadLinks
  <1> HIDE DEF n, d
  <1>4. /\ n \in Memories /\ \A x \in B : n[x] = m[x]
        /\ IsList(n, a, d) /\ d \in Seq(Addr)
        /\ \A h, j \in 1 .. Len(d) : d[h] = d[j] => h = j
        /\ Listing(d) = Listing(c) \cup {a}
    BY <1>3 DEF Leads
  <1>5. Blocks(d, lv) = B /\ Listing(d) \cap HeldAt(lv) = {}
    BY <1>4 DEF Blocks
  <1>6. Tiled(n, mp, B)
    BY <1>4, TiledFrame
  <1>7. \A l \in lv : 8 * n[l.at] >= l.bytes + 8
    <2>1. \A l \in lv : n[l.at] = m[l.at]
      BY <1>4 DEF HeldAt
    <2> QED
      BY <2>1
  <1>8. Sound(n, mp, a, lv, d)
    BY <1>4, <1>5, <1>6, <1>7 DEF Sound
  <1>9. ASSUME Covers(m, mp, B), Merged(m, Listing(c)),
               \A x \in Listing(c) : x # a + m[a] /\ x + m[x] # a
        PROVE  Full(n, mp, lv, d)
    <2>1. Covers(n, mp, B)
      BY <1>4, <1>9, CoversFrame
    <2>2. a + m[a] # a
      BY <1>1
    <2>3. Merged(n, Listing(d))
      BY <1>4, <1>9, <2>2 DEF Merged
    <2> QED
      BY <1>5, <2>1, <2>3 DEF Full
  <1> QED
    BY <1>8, <1>9 DEF n, d

(* What follows the first chunk of a list is a tail.                       *)
LEMMA TailCut ==
  ASSUME NEW m, NEW c, Spread(c), NEW first, IsList(m, first, c), 1 \in 1 .. Len(c)
  PROVE  IsTail(m, Succ(c, 1), Cut(c, 1, 1))
  <1> DEFINE d == Cut(c, 1, 1)
  <1>1. c \in Seq(Addr) /\ Len(c) \in Nat
    BY SpreadFacts
  <1>2. /\ Len(d) = Len(c) - (1 + 1 - 1)
        /\ \A k \in 1 .. Len(d) : ~(k < 1) => k + (1 + 1 - 1) \in 1 .. Len(c) /\ d[k] = c[k + (1 + 1 - 1)]
    BY <1>1, CutFacts
  <1> HIDE DEF d
  <1>3. /\ Len(d) = Len(c) - 1 /\ Len(d) \in Nat
        /\ \A k \in 1 .. Len(d) : k + 1 \in 1 .. Len(c) /\ d[k] = c[k + 1]
    BY <1>1, <1>2
  <1>4. /\ \A k \in 1 .. Len(c) : m[c[k] + 1] = Succ(c, k)
        /\ \A k \in 2 .. Len(c) : m[c[k] + 2] = Pred(c, k)
    BY DEF IsList, IsTail
  <1>5. Succ(c, 1) = Succ(d, 0)
    <2>1. CASE 1 < Len(c)
      <3>1. 0 < Len(d) /\ 1 \in 1 .. Len(d)
        BY <1>1, <1>3, <2>1
      <3>2. d[1] = c[1 + 1]
        BY <1>3, <3>1
      <3> QED
        BY <2>1, <3>1, <3>2 DEF Succ
    <2>2. CASE ~(1 < Len(c))
      <3>1. ~(0 < Len(d))
        BY <1>1, <1>3, <2>2
      <3> QED
        BY <2>2, <3>1 DEF Succ
    <2> QED
      BY <2>1, <2>2
  <1>6. ASSUME NEW k \in 1 .. Len(d) PROVE m[d[k] + 1] = Succ(d, k)
    <2>1. k + 1 \in 1 .. Len(c) /\ d[k] = c[k + 1]
      BY <1>3
    <2>2. m[c[k + 1] + 1] = Succ(c, k + 1)
      BY <1>4, <2>1
    <2>3. (k < Len(d)) <=> (k + 1 < Len(c))
      BY <1>1, <1>3
    <2>4. k < Len(d) => k + 1 \in 1 .. Len(d)
      BY <1>3
    <2>5. k < Len(d) => d[k + 1] = c[(k + 1) + 1]
      BY <1>3, <2>4
    <2> QED
      BY <2>1, <2>2, <2>3, <2>5 DEF Succ
  <1>7. ASSUME NEW k \in 2 .. Len(d) PROVE m[d[k] + 2] = Pred(d, k)
    <2>1. k \in 1 .. Len(d) /\ k - 1 \in 1 .. Len(d) /\ k + 1 \in 2 .. Len(c) /\ k > 1 /\ k + 1 > 1
          /\ (k - 1) + 1 = k /\ (k + 1) - 1 = k
      BY <1>1, <1>3
    <2>2. d[k] = c[k + 1] /\ d[k - 1] = c[k]
      BY <1>3, <2>1
    <2>3. m[c[k + 1] + 2] = Pred(c, k + 1)
      BY <1>4, <2>1
    <2> QED
      BY <2>1, <2>2, <2>3 DEF Pred
  <1> QED
    BY <1>5, <1>6, <1>7 DEF IsTail, d

(* A chunk takes the place of its right neighbour, if that is the first of *)
(* the list.                                                               *)
LEMMA RightKeepsSound ==
  ASSUME NEW m, NEW mp, NEW B, NEW a, NEW first, NEW c, NEW lv, OffList(m, mp, B, a, first, c, lv),
         1 \in 1 .. Len(c), NEW next, next = c[1], next = a + m[a]
  PROVE  LET n == Led(m, a, m[a] + m[next], Next_of(m, next))
             d == Before(a, Cut(c, 1, 1))
         IN /\ Sound(n, mp, a, lv, d)
            /\ /\ Covers(m, mp, B) /\ Merged(m, Listing(c))
               /\ \A x \in Listing(c) : x + m[x] # a
               => Full(n, mp, lv, d)
  <1> DEFINE s == m[a] + m[next]
             top == Next_of(m, next)
             n == Led(m, a, s, top)
             e == Cut(c, 1, 1)
             d == Before(a, e)
             D == B \ {next}
  <1> /\ m \in Memories /\ mp \in SUBSET Addr /\ Tiled(m, mp, B)
      /\ c \in Seq(Addr) /\ \A k, j \in 1 .. Len(c) : c[k] = c[j] => k = j
      /\ IsList(m, first, c)
      /\ \A l, k \in lv : l.at = k.at => l = k
      /\ a \notin HeldAt(lv) /\ a \notin Listing(c) /\ Listing(c) \cap HeldAt(lv) = {}
      /\ B = Listing(c) \cup HeldAt(lv) \cup {a}
      /\ \A l \in lv : 8 * m[l.at] >= l.bytes + 8
    BY DEF OffList
  <1>1. Spread(c)
    <2>1. Listing(c) \subseteq B
      OBVIOUS
    <2> QED
      BY <2>1, TiledSpread
  <1>2. next \in Listing(c) /\ next \in B /\ next # a
    BY DEF Listing
  <1>3. /\ a \in Nat /\ next \in Nat /\ m[a] \in Nat /\ m[next] \in Nat /\ m[a] >= 3 /\ m[next] >= 3
        /\ m[a] <= MemWords /\ m[next] <= MemWords
    BY <1>2, BlockFacts DEF Tiled
  <1>4. s \in Values /\ s \in Nat /\ s = m[a] + m[next]
    <2>1. MemWords \in Nat /\ MaxWords = 3 * MemWords
      BY Numbers
    <2>2. s \in 1 .. MaxWords
      BY ONLY <1>3, <2>1
    <2> QED
      BY <2>2 DEF Values
  <1>5. top = Succ(c, 1)
    <2>1. Spread(c) /\ IsList(m, first, c)
      BY <1>1
    <2>2. \A k \in 1 .. Len(c) : Next_of(m, c[k]) = Succ(c, k)
      BY ONLY <2>1, NeighboursOf
    <2> QED
      BY <2>2
  <1>6. IsTail(m, top, e)
    BY <1>1, <1>5, TailCut
  <1>7. /\ Listing(e) = Listing(c) \ {next}
        /\ e \in Seq(Addr) /\ \A k, j \in 1 .. Len(e) : e[k] = e[j] => k = j
    <2>1. 1 \in 1 .. (Len(c) + 1) /\ 1 \in (1 - 1) .. Len(c)
      OBVIOUS
    <2> QED
      BY <1>1, <2>1, CutListing, CutSpread, SpreadFacts
  <1> HIDE DEF s, top, e
  <1>8. CanLead(m, mp, B, a, s, top, e)
    <2>1. Listing(e) \subseteq B \ {a}
      BY <1>7
    <2> QED
      BY <1>4, <1>6, <1>7, <2>1 DEF CanLead
  <1>9. Leads(m, n, B, a, s, e, d)
    BY <1>8, HeadLinks
  <1> HIDE DEF n, d
  <1>10. /\ n \in Memories /\ n[a] = s /\ \A x \in B \ {a} : n[x] = m[x]
         /\ IsList(n, a, d) /\ d \in Seq(Addr)
         /\ \A h, j \in 1 .. Len(d) : d[h] = d[j] => h = j
         /\ Listing(d) = (Listing(c) \ {next}) \cup {a}
    BY <1>7, <1>9 DEF Leads
  <1>11. Blocks(d, lv) = D /\ Listing(d) \cap HeldAt(lv) = {}
    BY <1>2, <1>10 DEF Blocks
  <1>12. /\ Tiled(n, mp, D)
         /\ Covers(m, mp, B) => Covers(n, mp, D)
    <2>1. /\ a \in B /\ next \in B /\ a + m[a] = next /\ n[a] = m[a] + m[next]
          /\ \A x \in B \ {a, next} : n[x] = m[x]
          /\ mp \in SUBSET Addr /\ Tiled(m, mp, B)
      BY <1>2, <1>4, <1>10
    <2> QED
      BY ONLY <2>1, TiledMerge
  <1>13. \A l \in lv : 8 * n[l.at] >= l.bytes + 8
    <2>1. \A l \in lv : l.at \in B \ {a}
      BY DEF HeldAt
    <2>2. \A l \in lv : n[l.at] = m[l.at]
      BY <1>10, <2>1
    <2> QED
      BY <2>2
  <1> HIDE DEF D
  <1>14. Sound(n, mp, a, lv, d)
    BY <1>10, <1>11, <1>12, <1>13 DEF Sound
  <1>15. ASSUME Covers(m, mp, B), Merged(m, Listing(c)), \A x \in Listing(c) : x + m[x] # a
         PROVE  Full(n, mp, lv, d)
    <2>1. ASSUME NEW x \in Listing(d), NEW y \in Listing(d), x + n[x] = y PROVE y % Unit = 0
      <3>1. CASE x = a
        <4>1. y = next + m[next] /\ y # a
          <5>1. y = a + s /\ next = a + m[a]
            BY <1>10, <2>1, <3>1
          <5> QED
            BY ONLY <1>3, <1>4, <5>1
        <4>2. y \in Listing(c)
          BY <1>10, <4>1
        <4> QED
          BY <1>2, <1>15, <4>1, <4>2 DEF Merged
      <3>2. CASE x # a
        <4>1. x \in Listing(c) /\ n[x] = m[x] /\ y # a
          <5>1. x \in Listing(c) /\ x \in B \ {a}
            BY <1>10, <2>1, <3>2
          <5>2. n[x] = m[x]
            BY <1>10, <5>1
          <5> QED
            BY <1>15, <2>1, <5>1, <5>2
        <4>2. y \in Listing(c) /\ x + m[x] = y
          BY <1>10, <2>1, <4>1
        <4> QED
          BY <1>15, <4>1, <4>2 DEF Merged
      <3> QED
        BY <3>1, <3>2
    <2>2. Merged(n, Listing(d))
      BY <2>1 DEF Merged
    <2> QED
      BY <1>11, <1>12, <1>15, <2>2 DEF Full
  <1> QED
    BY <1>14, <1>15 DEF n, d, e, s, top

(* Memory in which the i-th chunk of a list can grow, and get what follows *)
(* the j-th for a successor                                                *)
CanGrow(m, mp, B, first, c, i, j, s) ==
  /\ m \in Memories /\ Tiled(m, mp, B) /\ Spread(c) /\ Listing(c) \subseteq B
  /\ IsList(m, first, c) /\ i \in 1 .. Len(c) /\ j \in i .. Len(c) /\ s \in Values

Grown(m, p, s, t) == SetPrev(SetNext([m EXCEPT ![p] = s], p, t), t, p)

(* In n it has: the chunks in between are off the list.                    *)
Grows(m, n, B, first, c, p, s, d) ==
  /\ n \in Memories /\ n[p] = s /\ \A x \in B \ {p} : n[x] = m[x]
  /\ IsList(n, first, d) /\ d \in Seq(Addr)
  /\ \A h, k \in 1 .. Len(d) : d[h] = d[k] => h = k
  /\ Listing(d) \subseteq Listing(c)

(* The pointers and sizes after a chunk of the list has grown to take in   *)
(* what followed                                                           *)
LEMMA GrowLinks ==
  ASSUME NEW m, NEW mp, NEW B, NEW first, NEW c, NEW i, NEW j, NEW s,
         CanGrow(m, mp, B, first, c, i, j, s)
  PROVE  Grows(m, Grown(m, c[i], s, Succ(c, j)), B, first, c, c[i], s, Cut(c, i + 1, j))
  <1> DEFINE p == c[i]
             t == Succ(c, j)
             m0 == [m EXCEPT ![p] = s]
             m1 == SetNext(m0, p, t)
             n == SetPrev(m1, t, p)
             d == Cut(c, i + 1, j)
  <1> /\ m \in Memories /\ Tiled(m, mp, B) /\ Spread(c) /\ Listing(c) \subseteq B
      /\ IsList(m, first, c) /\ i \in 1 .. Len(c) /\ j \in i .. Len(c) /\ s \in Values
    BY DEF CanGrow
  <1>1. /\ Len(c) \in Nat /\ c \in Seq(Addr) /\ p \in B /\ p \in Addr /\ p # NULL
        /\ \A k \in 1 .. Len(c) : c[k] \in B
    BY SpreadFacts DEF Listing
  <1>2. /\ i + 1 \in 1 .. (Len(c) + 1) /\ j \in ((i + 1) - 1) .. Len(c) /\ j \in 1 .. Len(c)
        /\ i + 1 # 1 /\ i + 1 > 1 /\ (i + 1) - 1 = i
    BY <1>1
  <1>3. t \in B \cup {NULL} /\ p = Pred(c, i + 1)
    <2>1. t \in Listing(c) \cup {NULL}
      BY <1>2, NeighboursOf
    <2> QED
      BY <1>2, <2>1 DEF Pred
  <1>4. t \in Values /\ p \in Values
    <2>1. \A x \in B : x \in Addr
      BY DEF Tiled, Block
    <2> QED
      BY <1>1, <1>3, <2>1, Numbers
  <1> HIDE DEF p, t
  <1>5. m0 \in Memories /\ \A x \in Addr : m0[x] = IF x = p THEN s ELSE m[x]
    BY <1>1, SetSizeAt
  <1> HIDE DEF m0
  <1>6. IsList(m0, first, c)
    <2>1. ASSUME NEW k \in 1 .. Len(c)
          PROVE  m0[c[k] + 1] = m[c[k] + 1] /\ m0[c[k] + 2] = m[c[k] + 2]
      <3>1. c[k] + 1 # p /\ c[k] + 2 # p
        BY <1>1, TiledFacts
      <3>2. c[k] + 1 \in Addr /\ c[k] + 2 \in Addr
        BY DEF Spread
      <3> QED
        BY <1>5, <3>1, <3>2
    <2> QED
      BY <1>1, <2>1, ListFrame
  <1>7. IsList(n, first, d)
    <2>1. IsList(SetPrev(SetNext(m0, Pred(c, i + 1), Succ(c, j)), Succ(c, j), Pred(c, i + 1)),
                 IF i + 1 = 1 THEN Succ(c, j) ELSE first, Cut(c, i + 1, j))
      BY <1>2, <1>5, <1>6, CutLinks
    <2> QED
      BY <1>2, <1>3, <2>1 DEF t
  <1>8. /\ d \in Seq(Addr) /\ Listing(d) \subseteq Listing(c)
        /\ \A h, k \in 1 .. Len(d) : d[h] = d[k] => h = k
    BY <1>1, <1>2, CutFacts, CutInjective
  <1> HIDE DEF d
  <1>9. \A x \in B : x \in Addr /\ x # p + 1 /\ (t # NULL => x # t + 2)
    <2>1. \A x \in B : x \in Addr
      BY DEF Tiled, Block
    <2> QED
      BY <1>1, <1>3, <2>1, TiledFacts
  <1>10. p \in Pointers /\ t \in Pointers
    BY <1>1, <1>3, <1>9 DEF Pointers
  <1>11. m1 \in Memories /\ \A x \in B : m1[x] = m0[x]
    BY <1>4, <1>5, <1>9, <1>10, SetNextAt
  <1> HIDE DEF m1
  <1>12. n \in Memories /\ \A x \in B : n[x] = m1[x]
    BY <1>4, <1>9, <1>10, <1>11, SetPrevAt
  <1> HIDE DEF n
  <1>13. n[p] = s /\ \A x \in B \ {p} : n[x] = m[x]
    BY <1>1, <1>5, <1>9, <1>11, <1>12
  <1>14. Grows(m, n, B, first, c, p, s, d)
    BY <1>7, <1>8, <1>12, <1>13 DEF Grows
  <1> QED
    BY <1>14 DEF n, m1, m0, d, p, t, Grown

(* The left neighbour of a chunk grows, and becomes the last of the list.  *)
LEMMA LeftKeepsSound ==
  ASSUME NEW m, NEW mp, NEW B, NEW a, NEW first, NEW c, NEW lv, OffList(m, mp, B, a, first, c, lv),
         NEW i \in 1 .. Len(c), NEW p, p = c[i], p + m[p] = a
  PROVE  LET n == Grown(m, p, m[p] + m[a], NULL)
             d == Cut(c, i + 1, Len(c))
         IN /\ Sound(n, mp, first, lv, d)
            /\ /\ Covers(m, mp, B) /\ Merged(m, Listing(c)) /\ Next_of(m, p) = NULL
               /\ \A x \in Listing(c) : x # a + m[a]
               => Full(n, mp, lv, d)
  <1> DEFINE s == m[p] + m[a]
             n == Grown(m, p, s, NULL)
             d == Cut(c, i + 1, Len(c))
             D == B \ {a}
  <1> /\ m \in Memories /\ mp \in SUBSET Addr /\ Tiled(m, mp, B)
      /\ c \in Seq(Addr) /\ \A k, j \in 1 .. Len(c) : c[k] = c[j] => k = j
      /\ IsList(m, first, c)
      /\ \A l, k \in lv : l.at = k.at => l = k
      /\ a \notin HeldAt(lv) /\ a \notin Listing(c) /\ Listing(c) \cap HeldAt(lv) = {}
      /\ B = Listing(c) \cup HeldAt(lv) \cup {a}
      /\ \A l \in lv : 8 * m[l.at] >= l.bytes + 8
    BY DEF OffList
  <1>1. Spread(c) /\ Listing(c) \subseteq B
    <2>1. Listing(c) \subseteq B
      OBVIOUS
    <2> QED
      BY <2>1, TiledSpread
  <1>2. p \in Listing(c) /\ p \in B /\ p # a
    BY DEF Listing
  <1>3. /\ a \in Nat /\ p \in Nat /\ m[a] \in Nat /\ m[p] \in Nat /\ m[a] >= 3 /\ m[p] >= 3
        /\ m[a] <= MemWords /\ m[p] <= MemWords
    BY <1>2, BlockFacts DEF Tiled
  <1>4. s \in Values /\ s \in Nat /\ s = m[p] + m[a]
    <2>1. MemWords \in Nat /\ MaxWords = 3 * MemWords
      BY Numbers
    <2>2. s \in 1 .. MaxWords
      BY ONLY <1>3, <2>1
    <2>3. \A x \in 1 .. MaxWords : x \in Nat
      BY ONLY <2>1
    <2>4. s \in Nat
      BY ONLY <2>2, <2>3
    <2> QED
      BY <2>2, <2>4 DEF Values
  <1>5. Len(c) \in Nat /\ Len(c) \in i .. Len(c) /\ Succ(c, Len(c)) = NULL
    BY DEF Succ
  <1> HIDE DEF s
  <1>6. Grows(m, n, B, first, c, p, s, d)
    <2>1. CanGrow(m, mp, B, first, c, i, Len(c), s)
      BY <1>1, <1>4, <1>5 DEF CanGrow
    <2>2. Grows(m, Grown(m, c[i], s, Succ(c, Len(c))), B, first, c, c[i], s, Cut(c, i + 1, Len(c)))
      BY <2>1, GrowLinks
    <2> QED
      BY <1>5, <2>2
  <1> HIDE DEF n
  <1>7. /\ n[p] = s /\ \A x \in B \ {p} : n[x] = m[x]
        /\ IsList(n, first, d) /\ d \in Seq(Addr)
        /\ \A h, k \in 1 .. Len(d) : d[h] = d[k] => h = k
        /\ Listing(d) \subseteq Listing(c)
    BY <1>6 DEF Grows
  <1>8. /\ Tiled(n, mp, D)
        /\ Covers(m, mp, B) => Covers(n, mp, D)
    <2>1. /\ a \in B /\ p \in B /\ p + m[p] = a /\ n[p] = m[p] + m[a]
          /\ \A x \in B \ {p, a} : n[x] = m[x]
          /\ mp \in SUBSET Addr /\ Tiled(m, mp, B)
      BY <1>2, <1>4, <1>7
    <2> QED
      BY ONLY <2>1, TiledMerge
  <1> HIDE DEF d
  <1>9. /\ Blocks(d, lv) \subseteq D /\ Listing(d) \cap HeldAt(lv) = {}
        /\ Listing(d) = Listing(c) => Blocks(d, lv) = D
    BY <1>7 DEF Blocks
  <1>10. \A l \in lv : 8 * n[l.at] >= l.bytes + 8
    <2>1. \A l \in lv : l.at \in B \ {p}
      BY <1>2 DEF HeldAt
    <2>2. \A l \in lv : n[l.at] = m[l.at]
      BY <1>7, <2>1
    <2> QED
      BY <2>2
  <1> HIDE DEF D
  <1>11. Tiled(n, mp, Blocks(d, lv))
    BY <1>8, <1>9, TiledFrame
  <1>12. Sound(n, mp, first, lv, d)
    BY <1>7, <1>9, <1>10, <1>11 DEF Sound
  <1>13. ASSUME Covers(m, mp, B), Merged(m, Listing(c)), Next_of(m, p) = NULL,
                \A x \in Listing(c) : x # a + m[a]
         PROVE  Full(n, mp, lv, d)
    <2>1. i = Len(c)
      <3>1. Next_of(m, c[i]) = Succ(c, i) /\ (Succ(c, i) = NULL <=> i = Len(c))
        BY <1>1, NeighboursOf
      <3> QED
        BY <1>13, <3>1
    <2>2. Listing(d) = Listing(c)
      <3>1. i + 1 \in 1 .. (Len(c) + 1) /\ Len(c) \in ((i + 1) - 1) .. Len(c)
        BY <1>5
      <3>2. \A k \in 1 .. Len(c) : k < i + 1 \/ k > Len(c) => c[k] \in Listing(d)
        BY <3>1, CutFacts DEF d
      <3>3. \A k \in 1 .. Len(c) : k < i + 1
        BY <1>5, <2>1
      <3>4. \A k \in 1 .. Len(c) : c[k] \in Listing(d)
        BY <3>2, <3>3
      <3>5. Listing(c) \subseteq Listing(d)
        <4>1. \A x \in Listing(c) : \E k \in 1 .. Len(c) : x = c[k]
          BY DEF Listing
        <4> QED
          BY <3>4, <4>1
      <3> QED
        BY <1>7, <3>5
    <2>3. ASSUME NEW x \in Listing(c), NEW y \in Listing(c), x + n[x] = y PROVE y % Unit = 0
      <3>1. x # p
        <4>1. y # a + m[a]
          BY <1>13
        <4>2. p + s = a + m[a]
          <5>1. p + m[p] = a
            OBVIOUS
          <5> QED
            BY ONLY <1>3, <1>4, <5>1
        <4> QED
          BY <1>7, <2>3, <4>1, <4>2
      <3>2. n[x] = m[x]
        BY <1>1, <1>7, <3>1
      <3> QED
        BY <1>13, <2>3, <3>2 DEF Merged
    <2>4. Merged(n, Listing(d))
      BY <2>2, <2>3 DEF Merged
    <2> QED
      BY <1>8, <1>9, <1>13, <2>2, <2>4 DEF Full
  <1> QED
    BY <1>12, <1>13 DEF n, d, s

(* A chunk and both its neighbours become one, in the place of the left    *)
(* one.                                                                    *)
LEMMA BothKeepSound ==
  ASSUME NEW m, NEW mp, NEW B, NEW a, NEW first, NEW c, NEW lv, OffList(m, mp, B, a, first, c, lv),
         NEW i \in 1 .. Len(c), NEW j \in 1 .. Len(c), i < j,
         NEW p, p = c[i], p + m[p] = a, NEW q, q = c[j], q = a + m[a]
  PROVE  LET n == Grown(m, p, m[p] + m[a] + m[q], Next_of(m, q))
             d == Cut(c, i + 1, j)
         IN /\ Sound(n, mp, first, lv, d)
            /\ Covers(m, mp, B) /\ Merged(m, Listing(c)) /\ Next_of(m, p) = q => Full(n, mp, lv, d)
  <1> DEFINE s == m[p] + m[a] + m[q]
             t == Next_of(m, q)
             n == Grown(m, p, s, t)
             d == Cut(c, i + 1, j)
             m1 == [m EXCEPT ![p] = m[p] + m[a]]
             D == (B \ {a}) \ {q}
  <1> /\ m \in Memories /\ mp \in SUBSET Addr /\ Tiled(m, mp, B)
      /\ c \in Seq(Addr) /\ \A k, h \in 1 .. Len(c) : c[k] = c[h] => k = h
      /\ IsList(m, first, c)
      /\ \A l, k \in lv : l.at = k.at => l = k
      /\ a \notin HeldAt(lv) /\ a \notin Listing(c) /\ Listing(c) \cap HeldAt(lv) = {}
      /\ B = Listing(c) \cup HeldAt(lv) \cup {a}
      /\ \A l \in lv : 8 * m[l.at] >= l.bytes + 8
    BY DEF OffList
  <1>1. Spread(c) /\ Listing(c) \subseteq B
    <2>1. Listing(c) \subseteq B
      OBVIOUS
    <2> QED
      BY <2>1, TiledSpread
  <1>2. p \in Listing(c) /\ p \in B /\ p # a /\ q \in Listing(c) /\ q \in B /\ q # a /\ p # q
    <2>1. p \in Listing(c) /\ q \in Listing(c)
      BY DEF Listing
    <2>2. p # q
      <3>1. i # j
        OBVIOUS
      <3> QED
        BY <3>1
    <2> HIDE DEF s, t, n, d, m1, D
    <2> QED
      BY <2>1, <2>2
  <1>3. /\ a \in Nat /\ p \in Nat /\ q \in Nat /\ m[a] \in Nat /\ m[p] \in Nat /\ m[q] \in Nat
        /\ m[a] >= 3 /\ m[p] >= 3 /\ m[q] >= 3
        /\ m[a] <= MemWords /\ m[p] <= MemWords /\ m[q] <= MemWords
    BY <1>2, BlockFacts DEF Tiled
  <1>4. /\ s \in Values /\ s \in Nat /\ s = m[p] + m[a] + m[q]
        /\ m[p] + m[a] \in Values
    <2>1. MemWords \in Nat /\ MaxWords = 3 * MemWords
      BY Numbers
    <2>2. \A x, y, z \in Nat : /\ x >= 3 /\ x <= MemWords /\ y <= MemWords /\ z <= MemWords
                              => x + y + z \in 1 .. MaxWords /\ x + y \in 1 .. MaxWords /\ x + y + z \in Nat
      BY ONLY <2>1
    <2>3. m[p] + m[a] + m[q] \in 1 .. MaxWords /\ m[p] + m[a] \in 1 .. MaxWords
      BY ONLY <1>3, <2>2
    <2>4. m[p] + m[a] + m[q] \in Nat
      BY ONLY <1>3, <2>2
    <2> QED
      BY <2>3, <2>4 DEF Values
  <1>5. Len(c) \in Nat /\ j \in i .. Len(c) /\ j \in Nat /\ i \in Nat
    OBVIOUS
  <1>6. \A k \in 1 .. Len(c) : Next_of(m, c[k]) = Succ(c, k)
    <2>1. Spread(c) /\ IsList(m, first, c)
      BY <1>1
    <2> QED
      BY ONLY <2>1, NeighboursOf
  <1>7. t = Succ(c, j) /\ Next_of(m, p) = Succ(c, i)
    BY <1>6
  <1> HIDE DEF s, t
  <1>8. Grows(m, n, B, first, c, p, s, d)
    <2>1. CanGrow(m, mp, B, first, c, i, j, s)
      BY <1>1, <1>4, <1>5 DEF CanGrow
    <2>2. Grows(m, Grown(m, c[i], s, Succ(c, j)), B, first, c, c[i], s, Cut(c, i + 1, j))
      BY <2>1, GrowLinks
    <2> QED
      BY <1>7, <2>2
  <1> HIDE DEF n
  <1>9. /\ n[p] = s /\ \A x \in B \ {p} : n[x] = m[x]
        /\ IsList(n, first, d) /\ d \in Seq(Addr)
        /\ \A h, k \in 1 .. Len(d) : d[h] = d[k] => h = k
        /\ Listing(d) \subseteq Listing(c)
    BY <1>8 DEF Grows
  <1>10. /\ Tiled(m1, mp, B \ {a}) /\ m1[p] = m[p] + m[a] /\ \A x \in B \ {p} : m1[x] = m[x]
         /\ Covers(m, mp, B) => Covers(m1, mp, B \ {a})
    <2>1. \A x \in B : x \in Addr
      BY DEF Tiled, Block
    <2>2. p \in Addr /\ m \in Memories /\ m[p] + m[a] \in Values
      BY <1>2, <1>4, <2>1
    <2>3. \A x \in Addr : m1[x] = IF x = p THEN m[p] + m[a] ELSE m[x]
      BY ONLY <2>2 DEF Memories
    <2> HIDE DEF m1
    <2>4. m1[p] = m[p] + m[a] /\ \A x \in B \ {p} : m1[x] = m[x]
      BY <2>1, <2>2, <2>3
    <2>5. /\ a \in B /\ p \in B /\ p + m[p] = a /\ m1[p] = m[p] + m[a]
          /\ \A x \in B \ {p, a} : m1[x] = m[x]
          /\ mp \in SUBSET Addr /\ Tiled(m, mp, B)
      BY <1>2, <2>4
    <2>6. /\ Tiled(m1, mp, B \ {a})
          /\ Covers(m, mp, B) => Covers(m1, mp, B \ {a})
      BY ONLY <2>5, TiledMerge
    <2> QED
      BY <2>4, <2>6
  <1> HIDE DEF m1
  <1>11. p + s = q + m[q] /\ p + m1[p] = q /\ n[p] = m1[p] + m1[q]
    <2>1. p + m[p] = a /\ q = a + m[a] /\ m1[q] = m[q] /\ n[p] = s
      BY <1>2, <1>9, <1>10
    <2>2. m1[p] = m[p] + m[a] /\ s = m[p] + m[a] + m[q]
      BY <1>4, <1>10
    <2>3. p + m1[p] = q /\ n[p] = m1[p] + m1[q]
      BY ONLY <1>3, <2>1, <2>2
    <2>4. \A x, y, z, u \in Nat : u + (x + y + z) = ((u + x) + y) + z
      OBVIOUS
    <2>5. p + (m[p] + m[a] + m[q]) = ((p + m[p]) + m[a]) + m[q]
      BY ONLY <1>3, <2>4
    <2>6. p + s = q + m[q]
      BY ONLY <2>1, <2>2, <2>5
    <2> QED
      BY <2>3, <2>6
  <1>12. /\ Tiled(n, mp, D)
         /\ Covers(m, mp, B) => Covers(n, mp, D)
    <2>1. /\ p \in B \ {a} /\ q \in B \ {a} /\ p + m1[p] = q /\ n[p] = m1[p] + m1[q]
          /\ \A x \in (B \ {a}) \ {p, q} : n[x] = m1[x]
          /\ mp \in SUBSET Addr /\ Tiled(m1, mp, B \ {a})
      BY <1>2, <1>9, <1>10, <1>11
    <2>2. /\ Tiled(n, mp, D)
          /\ Covers(m1, mp, B \ {a}) => Covers(n, mp, D)
      BY ONLY <2>1, TiledMerge
    <2> QED
      BY <1>10, <2>2
  <1>13. /\ i + 1 \in 1 .. (Len(c) + 1) /\ j \in ((i + 1) - 1) .. Len(c)
         /\ i + 1 \in 1 .. Len(c) /\ j \in (i + 1) .. Len(c)
    BY <1>5
  <1>14. q \notin Listing(d)
    <2>1. /\ \A k \in 1 .. Len(d) : k < i + 1 => k \in 1 .. Len(c) /\ d[k] = c[k]
          /\ \A k \in 1 .. Len(d) : ~(k < i + 1) => /\ k + (j + 1 - (i + 1)) \in 1 .. Len(c)
                                                    /\ d[k] = c[k + (j + 1 - (i + 1))]
      BY <1>13, CutFacts
    <2> HIDE DEF d
    <2>2. ASSUME NEW k \in 1 .. Len(d) PROVE d[k] # c[j]
      <3>1. CASE k < i + 1
        <4>1. k # j
          BY <1>5, <3>1
        <4> QED
          BY <2>1, <3>1, <4>1
      <3>2. CASE ~(k < i + 1)
        <4> DEFINE h == k + (j + 1 - (i + 1))
        <4>1. h # j
          BY <1>5, <3>2
        <4>2. h \in 1 .. Len(c) /\ d[k] = c[h]
          BY <2>1, <3>2
        <4> HIDE DEF h
        <4>3. c[h] # c[j]
          BY <4>1, <4>2
        <4> QED
          BY <4>2, <4>3
      <3> QED
        BY <3>1, <3>2
    <2> QED
      BY <2>2 DEF Listing
  <1> HIDE DEF d
  <1>15. /\ Blocks(d, lv) \subseteq D /\ Listing(d) \cap HeldAt(lv) = {}
         /\ Listing(d) = Listing(c) \ {q} => Blocks(d, lv) = D
    BY <1>2, <1>9, <1>14 DEF Blocks
  <1>16. \A l \in lv : 8 * n[l.at] >= l.bytes + 8
    <2>1. \A l \in lv : l.at \in B \ {p}
      BY <1>2 DEF HeldAt
    <2>2. \A l \in lv : n[l.at] = m[l.at]
      BY <1>9, <2>1
    <2> QED
      BY <2>2
  <1> HIDE DEF D
  <1>17. Tiled(n, mp, Blocks(d, lv))
    BY <1>12, <1>15, TiledFrame
  <1>18. Sound(n, mp, first, lv, d)
    BY <1>9, <1>15, <1>16, <1>17 DEF Sound
  <1>19. ASSUME Covers(m, mp, B), Merged(m, Listing(c)), Next_of(m, p) = q PROVE Full(n, mp, lv, d)
    <2>1. j = i + 1
      <3>1. Succ(c, i) = c[i + 1]
        BY <1>5 DEF Succ
      <3> QED
        BY <1>7, <1>13, <1>19, <3>1
    <2>2. Listing(d) = Listing(c) \ {q}
      <3>1. d = Cut(c, j, j)
        BY <2>1 DEF d
      <3> QED
        BY <1>1, <3>1, CutListing
    <2>3. ASSUME NEW x \in Listing(d), NEW y \in Listing(d), x + n[x] = y PROVE y % Unit = 0
      <3>1. x \in Listing(c) /\ y \in Listing(c)
        BY <2>2
      <3>2. CASE x = p
        <4>1. q + m[q] = y
          BY <1>9, <1>11, <2>3, <3>2
        <4> QED
          BY <1>2, <1>19, <3>1, <4>1 DEF Merged
      <3>3. CASE x # p
        <4>1. n[x] = m[x]
          BY <1>1, <1>9, <3>1, <3>3
        <4> QED
          BY <1>19, <2>3, <3>1, <4>1 DEF Merged
      <3> QED
        BY <3>2, <3>3
    <2>4. Merged(n, Listing(d))
      BY <2>3 DEF Merged
    <2> QED
      BY <1>12, <1>15, <1>19, <2>2, <2>4 DEF Full
  <1> QED
    BY <1>18, <1>19 DEF n, d, s, t

(* The frees of memfree, one by one                                        *)
LEMMA AloneStep ==
  ASSUME TypeInv, wild = "no", NEW c, Sound(mem, mapped, FreeList, live, c),
         slips = {} => Full(mem, mapped, live, c), NEW l \in live, free_alone(l.at)
  PROVE  HeapInv'
  <1> DEFINE a == l.at
             m == Loose(a)
             less == {k \in live : k.at # a}
             B == Blocks(c, live)
             n == Led(m, a, m[a], FreeList)
             d == Before(a, c)
  <1>1. /\ OffList(m, mapped, B, a, FreeList, c, less) /\ m[a] = mem[a]
        /\ Full(mem, mapped, live, c) => Covers(m, mapped, B) /\ Merged(m, Listing(c))
    BY FreedFacts
  <1>2. /\ LeftOf(a) = NULL /\ RightOf(a) = NULL
        /\ FreeList' = a /\ mapped' = mapped /\ slips' = slips /\ wild' = "no" /\ live' = less
        /\ mem' = Push(m, a, Size(mem, a))
    BY DEF free_alone, Released
  <1>3. mem' = n
    BY <1>1, <1>2 DEF Push, Led, Size
  <1>4. \A x \in Listing(c) : x # a + m[a] /\ x + m[x] # a
    <2>1. \A k \in 1 .. Len(c) : c[k] # NULL
      BY TypeParts, SoundFacts
    <2>2. /\ \/ RightOf(a) = NULL /\ \A x \in Listing(c) : x # a + m[a]
             \/ \E j \in 1 .. Len(c) : RightOf(a) = c[j] /\ c[j] = a + m[a]
          /\ \/ LeftOf(a) = NULL /\ \A x \in Listing(c) : x + m[x] # a
             \/ \E i \in 1 .. Len(c) : LeftOf(a) = c[i] /\ c[i] + m[c[i]] = a
      BY NeighbourFacts
    <2> HIDE DEF a, m
    <2> QED
      BY <1>2, <2>1, <2>2
  <1> HIDE DEF a, m, B, less
  <1>5. /\ Sound(n, mapped, a, less, d)
        /\ Covers(m, mapped, B) /\ Merged(m, Listing(c)) => Full(n, mapped, less, d)
    BY <1>1, <1>4, AloneKeepsSound
  <1> HIDE DEF n, d
  <1>6. /\ Sound(mem', mapped', FreeList', live', d)
        /\ slips' = {} => Full(mem', mapped', live', d)
    BY <1>1, <1>2, <1>3, <1>5
  <1> QED
    BY <1>2, <1>6 DEF HeapInv

(* The freed chunk joins its right neighbour.  The list can be trusted if  *)
(* that was first.                                                         *)
LEMMA RightStep ==
  ASSUME TypeInv, wild = "no", NEW c, Sound(mem, mapped, FreeList, live, c),
         slips = {} => Full(mem, mapped, live, c), NEW l \in live, free_joins_right(l.at)
  PROVE  HeapInv'
  <1> DEFINE a == l.at
             next == RightOf(a)
             m == Loose(a)
             less == {k \in live : k.at # a}
             B == Blocks(c, live)
             n == Led(m, a, m[a] + m[next], Next_of(m, next))
             d == Before(a, Cut(c, 1, 1))
  <1>1. /\ OffList(m, mapped, B, a, FreeList, c, less)
        /\ Full(mem, mapped, live, c) => Covers(m, mapped, B) /\ Merged(m, Listing(c))
    BY FreedFacts
  <1>2. /\ LeftOf(a) = NULL /\ next \notin {NULL, Junk}
        /\ FreeList' = IF FreeList = next THEN a ELSE FreeList
        /\ slips' = IF FreeList = next THEN slips ELSE slips \cup {"predecessor"}
        /\ mapped' = mapped /\ wild' = "no" /\ live' = less
        /\ mem' = n
    BY DEF free_joins_right, Released, Led, Size
  <1>3. /\ \E j \in 1 .. Len(c) : next = c[j] /\ c[j] = a + m[a]
        /\ \A x \in Listing(c) : x + m[x] # a
    <2>1. \A k \in 1 .. Len(c) : c[k] # NULL
      BY TypeParts, SoundFacts
    <2>2. /\ \/ next = NULL /\ \A x \in Listing(c) : x # a + m[a]
             \/ \E j \in 1 .. Len(c) : next = c[j] /\ c[j] = a + m[a]
          /\ \/ LeftOf(a) = NULL /\ \A x \in Listing(c) : x + m[x] # a
             \/ \E i \in 1 .. Len(c) : LeftOf(a) = c[i] /\ c[i] + m[c[i]] = a
      BY NeighbourFacts
    <2> HIDE DEF a, m, next
    <2> QED
      BY <1>2, <2>1, <2>2
  <1>4. 1 \in 1 .. Len(c) /\ FreeList = c[1]
    <2>1. 0 < Len(c) /\ 1 \in 1 .. Len(c)
      BY <1>3
    <2>2. FreeList = Succ(c, 0)
      BY DEF Sound, IsList, IsTail
    <2> QED
      BY <2>1, <2>2 DEF Succ
  <1> HIDE DEF a, next, m, B, less
  <1>5. CASE FreeList # next
    <2>1. "predecessor" \in slips'
      BY <1>2, <1>5
    <2>2. ~Trusted'
      BY <2>1 DEF Trusted
    <2> QED
      BY <2>2 DEF HeapInv
  <1>6. CASE FreeList = next
    <2>1. next = c[1] /\ next = a + m[a]
      BY <1>3, <1>4, <1>6
    <2>2. /\ Sound(n, mapped, a, less, d)
          /\ Covers(m, mapped, B) /\ Merged(m, Listing(c)) => Full(n, mapped, less, d)
      BY <1>1, <1>3, <1>4, <2>1, RightKeepsSound
    <2> HIDE DEF n, d
    <2>3. /\ Sound(mem', mapped', FreeList', live', d)
          /\ slips' = {} => Full(mem', mapped', live', d)
      BY <1>1, <1>2, <1>6, <2>2
    <2> QED
      BY <1>2, <2>3 DEF HeapInv
  <1> QED
    BY <1>5, <1>6

(* Its left neighbour takes it in, and the rest of the list is lost.       *)
LEMMA LeftStep ==
  ASSUME TypeInv, wild = "no", NEW c, Sound(mem, mapped, FreeList, live, c),
         slips = {} => Full(mem, mapped, live, c), NEW l \in live, free_joins_left(l.at)
  PROVE  HeapInv'
  <1> DEFINE a == l.at
             p == LeftOf(a)
             m == Loose(a)
             less == {k \in live : k.at # a}
             B == Blocks(c, live)
             n == Grown(m, p, m[p] + m[a], NULL)
  <1>1. /\ OffList(m, mapped, B, a, FreeList, c, less)
        /\ Full(mem, mapped, live, c) => Covers(m, mapped, B) /\ Merged(m, Listing(c))
    BY FreedFacts
  <1>2. /\ RightOf(a) = NULL /\ p \notin {NULL, Junk}
        /\ FreeList' = FreeList
        /\ slips' = IF Next_of(m, p) = NULL THEN slips ELSE slips \cup {"rest"}
        /\ mapped' = mapped /\ wild' = "no" /\ live' = less
        /\ mem' = SetNext([m EXCEPT ![p] = @ + Size(m, a)], p, NULL)
    BY DEF free_joins_left, Released
  <1>3. mem' = n
    BY <1>2 DEF Grown, SetPrev, Size
  <1>4. /\ \E i \in 1 .. Len(c) : p = c[i] /\ c[i] + m[c[i]] = a
        /\ \A x \in Listing(c) : x # a + m[a]
    <2>1. \A k \in 1 .. Len(c) : c[k] # NULL
      BY TypeParts, SoundFacts
    <2>2. /\ \/ RightOf(a) = NULL /\ \A x \in Listing(c) : x # a + m[a]
             \/ \E j \in 1 .. Len(c) : RightOf(a) = c[j] /\ c[j] = a + m[a]
          /\ \/ p = NULL /\ \A x \in Listing(c) : x + m[x] # a
             \/ \E i \in 1 .. Len(c) : p = c[i] /\ c[i] + m[c[i]] = a
      BY NeighbourFacts
    <2> HIDE DEF a, m, p
    <2> QED
      BY <1>2, <2>1, <2>2
  <1>5. PICK i \in 1 .. Len(c) : p = c[i] /\ p + m[p] = a
    BY <1>4
  <1> DEFINE d == Cut(c, i + 1, Len(c))
  <1> HIDE DEF a, p, m, B, less
  <1>6. /\ Sound(n, mapped, FreeList, less, d)
        /\ Covers(m, mapped, B) /\ Merged(m, Listing(c)) /\ Next_of(m, p) = NULL => Full(n, mapped, less, d)
    BY <1>1, <1>4, <1>5, LeftKeepsSound
  <1> HIDE DEF n, d
  <1>7. slips' = {} => slips = {} /\ Next_of(m, p) = NULL
    BY <1>2
  <1>8. /\ Sound(mem', mapped', FreeList', live', d)
        /\ slips' = {} => Full(mem', mapped', live', d)
    BY <1>1, <1>2, <1>3, <1>6, <1>7
  <1> QED
    BY <1>2, <1>8 DEF HeapInv

(* Both neighbours and the chunk become one.  The list can be trusted if   *)
(* the left one came first.                                                *)
LEMMA BothStep ==
  ASSUME TypeInv, wild = "no", NEW c, Sound(mem, mapped, FreeList, live, c),
         slips = {} => Full(mem, mapped, live, c), NEW l \in live, free_joins_both(l.at)
  PROVE  HeapInv'
  <1> DEFINE a == l.at
             p == LeftOf(a)
             q == RightOf(a)
             m == Loose(a)
             w == Walk(m, FreeList)
             Place(x) == Min({i \in DOMAIN w : w[i] = x})
             less == {k \in live : k.at # a}
             B == Blocks(c, live)
             n == Grown(m, p, m[p] + m[a] + m[q], Next_of(m, q))
  <1>1. /\ OffList(m, mapped, B, a, FreeList, c, less)
        /\ Full(mem, mapped, live, c) => Covers(m, mapped, B) /\ Merged(m, Listing(c))
    BY FreedFacts
  <1>2. /\ p \notin {NULL, Junk} /\ q \notin {NULL, Junk}
        /\ FreeList' = FreeList
        /\ slips' = IF Next_of(m, p) = q THEN slips
                    ELSE slips \cup {IF Place(p) < Place(q) THEN "rest" ELSE "order"}
        /\ mapped' = mapped /\ wild' = "no" /\ live' = less
        /\ mem' = n
    BY DEF free_joins_both, Released, Grown, Size
  <1>3. /\ Len(w) = Len(c) + 1 /\ w[Len(c) + 1] = NULL /\ \A k \in 1 .. Len(c) : w[k] = c[k]
        /\ w \in Seq(Values)
        /\ \/ q = NULL
           \/ \E j \in 1 .. Len(c) : q = c[j] /\ c[j] = a + m[a]
        /\ \/ p = NULL
           \/ \E i \in 1 .. Len(c) : p = c[i] /\ c[i] + m[c[i]] = a
    BY NeighbourFacts
  <1>4. PICK i \in 1 .. Len(c) : p = c[i] /\ p + m[p] = a
    BY <1>2, <1>3
  <1>5. PICK j \in 1 .. Len(c) : q = c[j] /\ q = a + m[a]
    BY <1>2, <1>3
  <1> DEFINE d == Cut(c, i + 1, j)
  <1>6. /\ Len(c) \in Nat /\ \A k \in 1 .. Len(c) : c[k] # NULL
        /\ \A k, h \in 1 .. Len(c) : c[k] = c[h] => k = h
    BY TypeParts, SoundFacts, SpreadFacts
  <1>7. Spread(c) /\ IsList(m, FreeList, c)
    <2>1. Spread(c)
      BY TypeParts, SoundFacts
    <2> QED
      BY <1>1, <2>1 DEF OffList
  <1> HIDE DEF a, p, q, m, B, less, w
  <1>8. Place(c[i]) = i /\ Place(c[j]) = j
    <2>1. ASSUME NEW k \in 1 .. Len(c) PROVE Place(c[k]) = k
      <3> DEFINE S == {h \in DOMAIN w : w[h] = c[k]}
      <3>1. DOMAIN w = 1 .. (Len(c) + 1)
        BY <1>3
      <3>2. S \in SUBSET Nat /\ S = {k}
        BY <1>3, <1>6, <3>1
      <3>3. Min(S) \in S
        BY <3>2, MinLeast
      <3> QED
        BY <3>2, <3>3
    <2> QED
      BY <2>1
  <1>9. Trusted' => i < j
    <2>1. CASE Next_of(m, p) = q
      <3>1. Next_of(m, c[i]) = Succ(c, i)
        BY <1>7, NeighboursOf
      <3>2. Succ(c, i) = c[j] /\ c[j] # NULL
        BY <1>4, <1>5, <1>6, <2>1, <3>1
      <3>3. i + 1 \in 1 .. Len(c) /\ c[i + 1] = c[j]
        BY <1>6, <3>2 DEF Succ
      <3>4. i + 1 = j
        BY <1>6, <3>3
      <3> QED
        BY <1>6, <3>4
    <2>2. CASE Next_of(m, p) # q
      <3>1. ~(i < j) => "order" \in slips'
        BY <1>2, <1>4, <1>5, <1>8, <2>2
      <3> QED
        BY <3>1 DEF Trusted
    <2> QED
      BY <2>1, <2>2
  <1> HIDE DEF Place
  <1>10. ASSUME Trusted' PROVE HeapInv'
    <2>1. i < j
      BY <1>9, <1>10
    <2>2. /\ Sound(n, mapped, FreeList, less, d)
          /\ Covers(m, mapped, B) /\ Merged(m, Listing(c)) /\ Next_of(m, p) = q => Full(n, mapped, less, d)
      BY <1>1, <1>4, <1>5, <2>1, BothKeepSound
    <2> HIDE DEF n, d
    <2>3. slips' = {} => slips = {} /\ Next_of(m, p) = q
      BY <1>2
    <2>4. /\ Sound(mem', mapped', FreeList', live', d)
          /\ slips' = {} => Full(mem', mapped', live', d)
      BY <1>1, <1>2, <2>2, <2>3
    <2> QED
      BY <1>2, <2>4 DEF HeapInv
  <1> QED
    BY <1>10 DEF HeapInv

(* No free goes astray.                                                    *)
LEMMA FreesStay ==
  ASSUME TypeInv, NEW c, Sound(mem, mapped, FreeList, live, c), NEW l \in live
  PROVE  ~free_strays(l.at)
  <1> DEFINE a == l.at
             m == Loose(a)
             B == Blocks(c, live)
             less == {k \in live : k.at # a}
  <1>1. OffList(m, mapped, B, a, FreeList, c, less) /\ mem[a] \in 0 .. MemWords
    BY FreedFacts
  <1>2. /\ RightOf(a) = NULL \/ \E j \in 1 .. Len(c) : RightOf(a) = c[j]
        /\ LeftOf(a) = NULL \/ \E i \in 1 .. Len(c) : LeftOf(a) = c[i]
    BY NeighbourFacts
  <1>3. Spread(c) /\ \A k \in 1 .. Len(c) : c[k] \in Addr
    BY TypeParts, SoundFacts
  <1> HIDE DEF a, m, B, less
  <1>4. LeftOf(a) # Junk /\ RightOf(a) # Junk
    <2>1. NULL # Junk /\ Junk \notin Addr
      BY Numbers
    <2> QED
      BY <1>2, <1>3, <2>1
  <1>5. ASSUME NEW j \in 1 .. Len(c) PROVE Pointer(Next_of(m, c[j]))
    <2>1. IsList(m, FreeList, c)
      BY <1>1 DEF OffList
    <2>2. Next_of(m, c[j]) \in Listing(c) \cup {NULL}
      BY <1>3, <2>1, NeighboursOf
    <2> QED
      BY <1>3, <2>2 DEF Spread, Listing, Pointer
  <1>6. RightOf(a) \notin {NULL, Junk} => Pointer(Next_of(m, RightOf(a)))
    BY <1>2, <1>5
  <1> QED
    BY <1>1, <1>4, <1>6 DEF free_strays, a, m

-----------------------------------------------------------------------------
(* The steps of the heap                                                   *)

(* An allocation takes a chunk that is in the list, or fresh memory, and   *)
(* leaves a list.                                                          *)
LEMMA AllocStep ==
  ASSUME TypeInv, wild = "no", NEW c, Sound(mem, mapped, FreeList, live, c),
         slips = {} => Full(mem, mapped, live, c), NEW bytes \in Requests, memalloc(bytes)
  PROVE  HeapInv'
  <1>1. bytes \in Nat
    BY HeapAssumption
  <1>2. CASE alloc_from_list(bytes) \/ alloc_from_system(bytes)
    <2>1. PICK d : /\ Sound(mem', mapped', FreeList', live', d)
                   /\ Full(mem, mapped, live, c) => Full(mem', mapped', live', d)
      <3>1. CASE alloc_from_list(bytes)
        BY <1>1, <3>1, ListKeepsSound
      <3>2. CASE alloc_from_system(bytes)
        BY <1>1, <3>2, SystemKeepsSound
      <3> QED
        BY <1>2, <3>1, <3>2
    <2>2. wild' = wild /\ slips' = slips
      BY <1>2 DEF alloc_from_list, alloc_from_system, Grant
    <2> QED
      BY <2>1, <2>2 DEF HeapInv
  <1>3. CASE alloc_refused(bytes)
    BY <1>3 DEF alloc_refused, vars, HeapInv, Trusted
  <1>4. CASE alloc_overruns(bytes)
    BY <1>4 DEF alloc_overruns, Strays, HeapInv, Trusted
  <1>5. ~alloc_strays(bytes)
    <2>1. NULL # Junk
      BY Numbers
    <2> QED
      BY <1>1, <2>1, FitOfList DEF alloc_strays
  <1> QED
    BY <1>2, <1>3, <1>4, <1>5 DEF memalloc

(* A free that has gone wrong is never forgotten.                          *)
LEMMA SlipsStay ==
  ASSUME [Next]_vars
  PROVE  slips \subseteq slips'
  <1>1. ASSUME NEW bytes \in Requests, memalloc(bytes) PROVE slips' = slips
    BY <1>1 DEF memalloc, alloc_from_list, alloc_from_system, alloc_refused, alloc_overruns,
                alloc_strays, Strays, Grant, vars
  <1>2. ASSUME NEW a, memfree(a) PROVE slips \subseteq slips'
    <2>1. CASE free_alone(a)
      BY <2>1 DEF free_alone
    <2>2. CASE free_joins_right(a)
      BY <2>2 DEF free_joins_right
    <2>3. CASE free_joins_left(a)
      BY <2>3 DEF free_joins_left
    <2>4. CASE free_joins_both(a)
      BY <2>4 DEF free_joins_both
    <2>5. CASE free_strays(a)
      BY <2>5 DEF free_strays, Strays
    <2> QED
      BY <1>2, <2>1, <2>2, <2>3, <2>4, <2>5 DEF memfree
  <1>3. CASE UNCHANGED vars
    BY <1>3 DEF vars
  <1> QED
    BY <1>1, <1>2, <1>3 DEF Next

(* Every step of the heap keeps its invariant.                             *)
LEMMA HeapStep ==
  ASSUME TypeInv, HeapInv, [Next]_vars
  PROVE  HeapInv'
  <1>1. CASE ~Trusted
    BY <1>1, SlipsStay DEF HeapInv, Trusted
  <1>2. CASE Trusted /\ Next
    <2>1. wild = "no"
      BY <1>2 DEF Next
    <2>2. PICK c : /\ Sound(mem, mapped, FreeList, live, c)
                   /\ slips = {} => Full(mem, mapped, live, c)
      BY <1>2 DEF HeapInv
    <2>3. ASSUME NEW bytes \in Requests, memalloc(bytes) PROVE HeapInv'
      BY <2>1, <2>2, <2>3, AllocStep
    <2>4. ASSUME NEW l \in live, memfree(l.at) PROVE HeapInv'
      <3>1. CASE free_alone(l.at)
        BY <2>1, <2>2, <3>1, AloneStep
      <3>2. CASE free_joins_right(l.at)
        BY <2>1, <2>2, <3>2, RightStep
      <3>3. CASE free_joins_left(l.at)
        BY <2>1, <2>2, <3>3, LeftStep
      <3>4. CASE free_joins_both(l.at)
        BY <2>1, <2>2, <3>4, BothStep
      <3>5. ~free_strays(l.at)
        BY <2>2, FreesStay
      <3> QED
        BY <2>4, <3>1, <3>2, <3>3, <3>4, <3>5 DEF memfree
    <2> QED
      BY <1>2, <2>3, <2>4 DEF Next
  <1>3. CASE UNCHANGED vars
    BY <1>3 DEF vars, HeapInv, Trusted
  <1> QED
    BY <1>1, <1>2, <1>3

(* At first there is no memory, and no list.                               *)
LEMMA HeapInit ==
  ASSUME Init
  PROVE  HeapInv
  <1> DEFINE c == <<>>
  <1>1. Len(c) = 0 /\ c \in Seq(Addr) /\ 1 .. Len(c) = {} /\ 2 .. Len(c) = {}
    OBVIOUS
  <1> HIDE DEF c
  <1>2. Blocks(c, live) = {} /\ Listing(c) = {} /\ HeldAt(live) = {}
    BY <1>1 DEF Blocks, Listing, HeldAt, Init
  <1>3. IsList(mem, FreeList, c)
    BY <1>1 DEF IsList, IsTail, Succ, Init
  <1>4. Sound(mem, mapped, FreeList, live, c)
    BY <1>1, <1>2, <1>3 DEF Sound, Tiled, Init
  <1>5. Full(mem, mapped, live, c)
    BY <1>2 DEF Full, Covers, Merged, Init
  <1>6. wild # "junk"
    BY DEF Init
  <1> QED
    BY <1>4, <1>5, <1>6 DEF HeapInv

(* The inductive invariant                                                 *)
LEMMA InvHolds == Spec => []IInv
  <1>1. Init => IInv
    BY TypeInit, HeapInit DEF IInv
  <1>2. IInv /\ [Next]_vars => IInv'
    <2> SUFFICES ASSUME TypeInv, HeapInv, [Next]_vars
                 PROVE  TypeInv' /\ HeapInv'
      BY DEF IInv
    <2> QED
      BY TypeStep, HeapStep
  <1> QED
    BY <1>1, <1>2, PTL DEF Spec

-----------------------------------------------------------------------------
(* What that says of the memory                                            *)

(* The search for chunks meets those of the list, each once.               *)
LEMMA WalkedList ==
  ASSUME TypeInv, NEW c, Sound(mem, mapped, FreeList, live, c)
  PROVE  /\ Len(c) \in Nat /\ Len(Walked) = Len(c) + 1 /\ Walked[Len(Walked)] = NULL
         /\ \A k \in 1 .. Len(c) : Walked[k] = c[k]
         /\ Listed = Listing(c) /\ Held = HeldAt(live)
         /\ Cardinality(Listed) = Len(Walked) - 1
  <1>1. /\ Len(c) \in Nat /\ Len(Walked) = Len(c) + 1 /\ Walked[Len(c) + 1] = NULL
        /\ \A k \in 1 .. Len(c) : Walked[k] = c[k]
    BY TypeParts, SoundFacts DEF Walked
  <1>2. Listed = Listing(c)
    <2>1. Len(Walked) - 1 = Len(c)
      BY <1>1
    <2> QED
      BY <1>1, <2>1 DEF Listed, Met, Listing
  <1>3. Cardinality(Listing(c)) = Len(c)
    <2> DEFINE f == [k \in 1 .. Len(c) |-> c[k]]
    <2>1. \A k, j \in 1 .. Len(c) : c[k] = c[j] => k = j
      BY DEF Sound
    <2>2. f \in Bijection(1 .. Len(c), Listing(c))
      BY <2>1 DEF Bijection, Injection, Surjection, IsInjective, Listing
    <2> QED
      BY <1>1, <2>2, FS_CountingElements DEF ExistsBijection
  <1> QED
    BY <1>1, <1>2, <1>3 DEF Held, HeldAt

(* The words of chunks that are clear of each other                        *)
LEMMA WordsApart ==
  ASSUME TypeInv, NEW B, Tiled(mem, mapped, B)
  PROVE  /\ \A a \in B : Words(a) \subseteq mapped /\ Size(mem, a) >= MinWords
         /\ \A a, b \in B : a # b => Words(a) \cap Words(b) = {}
  <1>1. ASSUME NEW a \in B
        PROVE  /\ a \in Nat /\ mem[a] \in Nat /\ mem[a] >= 3
               /\ Words(a) = a .. (a + mem[a] - 1) /\ Words(a) \subseteq mapped
    <2>1. Block(mem, mapped, a)
      BY DEF Tiled
    <2> QED
      BY <2>1, BlockFacts DEF Block, Words, Size
  <1>2. ASSUME NEW a \in B, NEW b \in B, a # b
        PROVE  Words(a) \cap Words(b) = {}
    <2>1. a + mem[a] <= b \/ b + mem[b] <= a
      BY <1>2 DEF Tiled, Clear
    <2>2. /\ a \in Nat /\ mem[a] \in Nat /\ Words(a) = a .. (a + mem[a] - 1)
          /\ b \in Nat /\ mem[b] \in Nat /\ Words(b) = b .. (b + mem[b] - 1)
      BY <1>1
    <2>3. \A x \in Words(a) : x \in Nat /\ a <= x /\ x < a + mem[a]
      BY <2>2
    <2>4. \A x \in Words(b) : x \in Nat /\ b <= x /\ x < b + mem[b]
      BY <2>2
    <2> QED
      BY <2>1, <2>2, <2>3, <2>4
  <1> QED
    BY <1>1, <1>2 DEF Size, MinWords

(* No memory is handed out twice.                                          *)
THEOREM HeldApartHolds == Spec => []HeldApart
  <1>1. ASSUME IInv PROVE HeldApart
    <2> SUFFICES ASSUME Trusted
                 PROVE  /\ \A l \in live : Words(l.at) \subseteq mapped /\ 8 * Size(mem, l.at) >= l.bytes + 8
                        /\ Apart
      BY DEF HeldApart
    <2>1. TypeInv /\ \E c : Sound(mem, mapped, FreeList, live, c)
      BY <1>1 DEF IInv, HeapInv
    <2>2. PICK c : Sound(mem, mapped, FreeList, live, c)
      BY <2>1
    <2>3. Tiled(mem, mapped, Blocks(c, live))
      BY <2>2 DEF Sound
    <2>4. \A l \in live : l.at \in Blocks(c, live)
      BY DEF Blocks, HeldAt
    <2>5. \A l \in live : Words(l.at) \subseteq mapped
      BY <2>1, <2>3, <2>4, WordsApart
    <2>6. \A l \in live : 8 * Size(mem, l.at) >= l.bytes + 8
      BY <2>2 DEF Sound, Size
    <2>7. \A l, k \in live : l # k => l.at # k.at
      BY <2>2 DEF Sound
    <2>8. Apart
      BY <2>1, <2>3, <2>4, <2>7, WordsApart DEF Apart
    <2> QED
      BY <2>5, <2>6, <2>8
  <1> QED
    BY <1>1, InvHolds, PTL

(* The list is one, apart from all that is held.                           *)
THEOREM ListStaysSound == Spec => []ListSound
  <1>1. ASSUME IInv PROVE ListSound
    <2> SUFFICES ASSUME Trusted
                 PROVE  /\ wild # "junk"
                        /\ Walked[Len(Walked)] = NULL
                        /\ Cardinality(Listed) = Len(Walked) - 1
                        /\ \A i \in 1 .. (Len(Walked) - 1) :
                             /\ Prev_of(mem, Walked[i]) = IF i = 1 THEN NULL ELSE Walked[i - 1]
                             /\ Size(mem, Walked[i]) >= MinWords
                             /\ Words(Walked[i]) \subseteq mapped
                        /\ \A a \in Listed, b \in Listed \cup Held : a # b => Words(a) \cap Words(b) = {}
      BY DEF ListSound
    <2>1. TypeInv /\ wild # "junk" /\ \E c : Sound(mem, mapped, FreeList, live, c)
      BY <1>1 DEF IInv, HeapInv
    <2>2. PICK c : Sound(mem, mapped, FreeList, live, c)
      BY <2>1
    <2>3. /\ Len(c) \in Nat /\ Len(Walked) = Len(c) + 1 /\ Walked[Len(Walked)] = NULL
          /\ \A k \in 1 .. Len(c) : Walked[k] = c[k]
          /\ Listed = Listing(c) /\ Held = HeldAt(live)
          /\ Cardinality(Listed) = Len(Walked) - 1
      BY <2>1, <2>2, WalkedList
    <2>4. Tiled(mem, mapped, Blocks(c, live)) /\ IsList(mem, FreeList, c)
      BY <2>2 DEF Sound
    <2>5. /\ \A a \in Blocks(c, live) : Words(a) \subseteq mapped /\ Size(mem, a) >= MinWords
          /\ \A a, b \in Blocks(c, live) : a # b => Words(a) \cap Words(b) = {}
      BY <2>1, <2>4, WordsApart
    <2>6. ASSUME NEW i \in 1 .. (Len(Walked) - 1)
          PROVE  /\ Prev_of(mem, Walked[i]) = IF i = 1 THEN NULL ELSE Walked[i - 1]
                 /\ Size(mem, Walked[i]) >= MinWords
                 /\ Words(Walked[i]) \subseteq mapped
      <3>1. i \in 1 .. Len(c) /\ Walked[i] = c[i] /\ c[i] \in Blocks(c, live)
        <4>1. i \in 1 .. Len(c)
          BY <2>3
        <4> QED
          BY <2>3, <4>1 DEF Blocks, Listing
      <3>2. Prev_of(mem, c[i]) = IF i = 1 THEN NULL ELSE c[i - 1]
        BY <2>1, <2>2, <2>4, <3>1, TypeParts, SoundFacts, NeighboursOf DEF Pred
      <3>3. i # 1 => i - 1 \in 1 .. Len(c)
        BY <2>3, <3>1
      <3> QED
        BY <2>3, <2>5, <3>1, <3>2, <3>3
    <2>7. \A a \in Listed, b \in Listed \cup Held : a # b => Words(a) \cap Words(b) = {}
      BY <2>3, <2>5 DEF Blocks
    <2> QED
      BY <2>1, <2>3, <2>6, <2>7
  <1> QED
    BY <1>1, InvHolds, PTL

(* Nothing is lost, as long as every free has kept the list in order.      *)
THEOREM NothingIsLost == Spec => []NothingLost
  <1>1. ASSUME IInv PROVE NothingLost
    <2> SUFFICES ASSUME slips = {}
                 PROVE  /\ mapped = UNION {Words(a) : a \in Held \cup Listed}
                        /\ \A a, b \in Listed : a + Size(mem, a) = b => b % Unit = 0
      BY DEF NothingLost
    <2>1. /\ TypeInv
          /\ \E c : Sound(mem, mapped, FreeList, live, c) /\ Full(mem, mapped, live, c)
      BY <1>1 DEF IInv, HeapInv, Trusted
    <2>2. PICK c : Sound(mem, mapped, FreeList, live, c) /\ Full(mem, mapped, live, c)
      BY <2>1
    <2>3. Listed = Listing(c) /\ Held = HeldAt(live)
      BY <2>1, <2>2, WalkedList
    <2>4. Tiled(mem, mapped, Blocks(c, live)) /\ Covers(mem, mapped, Blocks(c, live))
          /\ Held \cup Listed = Blocks(c, live)
      BY <2>2, <2>3 DEF Sound, Full, Blocks
    <2>5. \A a \in Held \cup Listed : Words(a) \subseteq mapped
      BY <2>1, <2>4, WordsApart
    <2>6. ASSUME NEW x \in mapped PROVE \E a \in Held \cup Listed : x \in Words(a)
      <3>1. PICK a \in Blocks(c, live) : a <= x /\ x < a + mem[a]
        BY <2>4 DEF Covers
      <3>2. Block(mem, mapped, a)
        BY <2>4 DEF Tiled
      <3>3. a \in Nat /\ mem[a] \in Nat /\ x \in Nat
        BY <2>1, <3>2, BlockFacts, TypeParts, Numbers
      <3>4. x \in Words(a)
        BY <3>1, <3>3 DEF Words, Size
      <3> QED
        BY <2>4, <3>4
    <2>7. \A a, b \in Listed : a + Size(mem, a) = b => b % Unit = 0
      BY <2>2, <2>3 DEF Full, Merged, Size
    <2> QED
      BY <2>5, <2>6, <2>7
  <1> QED
    BY <1>1, InvHolds, PTL
=============================================================================
