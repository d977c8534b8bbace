---------------------------- MODULE VmAreaProofs ----------------------------
(***************************************************************************)
(* Proofs about VmArea, for any number of processes, any layout of the     *)
(* region and any addresses and lengths passed in orderly calls: the list  *)
(* of a process stays a list of whole pages in address order, however mmap *)
(* and mprotect merge, munmap cuts and cfork copies. From where Flags is   *)
(* defined they are about what the lists stand for, the map of pages: an   *)
(* address has the protection the last call gave it, the calls keep the    *)
(* promises of AddrMap, and the searches of mmap find the address they are *)
(* meant to find.                                                          *)
(***************************************************************************)
EXTENDS VmArea, FiniteSetTheorems, TLAPS

-----------------------------------------------------------------------------
(* Arithmetic                                                              *)

(* A set of numbers that is not empty has a lowest one: the least of the   *)
(* intervals below them, by inclusion.                                     *)
LEMMA LowestLeast ==
  ASSUME NEW S \in SUBSET Nat, S # {}
  PROVE  Lowest(S) \in S /\ \A j \in S : Lowest(S) <= j
  <1> DEFINE below == {0 .. i : i \in S}
  <1>1. below \subseteq FiniteSubsetsOf(Nat) /\ below # {}
    <2>1. ASSUME NEW i \in S PROVE 0 .. i \in FiniteSubsetsOf(Nat)
      <3>1. i \in Int /\ 0 .. i \subseteq Nat
        OBVIOUS
      <3>2. IsFiniteSet(0 .. i)
        BY <3>1, FS_Interval
      <3> QED
        BY <3>1, <3>2 DEF FiniteSubsetsOf
    <2> QED
      BY <2>1
  <1>2. PICK x \in below :
          \A y \in below : ~(<<y, x>> \in StrictSubsetOrdering(Nat))
    BY <1>1, FS_StrictSubsetOrderingWellFounded, WFMin
  <1>3. PICK i \in S : x = 0 .. i
    BY <1>2
  <1>4. \A j \in S : i <= j
    <2> SUFFICES ASSUME NEW j \in S, j < i PROVE FALSE
      OBVIOUS
    <2>1. 0 .. j \in below /\ 0 .. j \in SUBSET Nat /\ 0 .. i \in SUBSET Nat
      OBVIOUS
    <2>2. i \in 0 .. i /\ i \notin 0 .. j /\ 0 .. j \subseteq 0 .. i
      OBVIOUS
    <2>3. <<0 .. j, 0 .. i>> \in StrictSubsetOrdering(Nat)
      BY <2>1, <2>2 DEF StrictSubsetOrdering
    <2> QED
      BY <1>2, <1>3, <2>1, <2>3
  <1> QED
    BY <1>3, <1>4 DEF Lowest

(* That it is in the set is most of what is needed.                        *)
LEMMA LowestIn ==
  ASSUME NEW S \in SUBSET Nat, S # {}
  PROVE  Lowest(S) \in S
  BY LowestLeast

(* Quotient and remainder *)
LEMMA Division ==
  ASSUME NEW x \in Int, NEW d \in Nat \ {0}
  PROVE  /\ x \div d \in Int /\ x % d \in 0 .. (d - 1)
         /\ x = d * (x \div d) + (x % d)
  OBVIOUS

(* Multiples                                                              *)
LEMMA Multiple ==
  ASSUME NEW k \in Int, NEW d \in Nat \ {0}
  PROVE  (k * d) % d = 0
  OBVIOUS

(* Whole numbers of pages add up to whole numbers of pages.                *)
LEMMA WholeSum ==
  ASSUME NEW a \in Int, NEW b \in Int, a % Page = 0, b % Page = 0
  PROVE  (a + b) % Page = 0
  <1>1. Page \in Nat \ {0}
    BY LayoutAssumption
  <1>2. /\ a = Page * (a \div Page) /\ a \div Page \in Int
        /\ b = Page * (b \div Page) /\ b \div Page \in Int
    BY <1>1, Division
  <1> DEFINE k == (a \div Page) + (b \div Page)
  <1>3. a + b = k * Page /\ k \in Int
    BY <1>1, <1>2
  <1> HIDE DEF k
  <1>4. (k * Page) % Page = 0
    BY <1>1, <1>3, Multiple
  <1> QED
    BY <1>3, <1>4

(* Between whole numbers of pages there is nothing or at least a page.     *)
LEMMA WholeGap ==
  ASSUME NEW a \in Int, NEW b \in Int, a % Page = 0, b % Page = 0, a < b
  PROVE  a + Page <= b
  <1>1. Page \in Nat \ {0}
    BY LayoutAssumption
  <1> DEFINE k == a \div Page
             m == b \div Page
  <1>2. /\ a = Page * k /\ k \in Int
        /\ b = Page * m /\ m \in Int
    BY <1>1, Division
  <1> HIDE DEF k, m
  <1>3. k + 1 <= m
    <2> SUFFICES ASSUME m <= k PROVE FALSE
      BY <1>2
    <2>1. Page * m <= Page * k
      BY <1>1, <1>2
    <2> QED
      BY <1>2, <2>1
  <1>4. Page * (k + 1) <= Page * m
    BY <1>1, <1>2, <1>3
  <1> QED
    BY <1>1, <1>2, <1>4

(* Rounding up: a whole number of pages, the least with room for length    *)
LEMMA Rounding ==
  ASSUME NEW length \in Int, 0 <= length, length + Page - 1 <= IntMax
  PROVE  /\ Aligned(length) \in Nat /\ Aligned(length) % Page = 0
         /\ length <= Aligned(length) /\ Aligned(length) < length + Page
  <1>1. Page \in Nat \ {0} /\ IntMax \in Nat
    BY LayoutAssumption
  <1> DEFINE x == length + Page - 1
             w == 2 * (IntMax + 1)
  <1>2. (x + IntMax + 1) % w = x + IntMax + 1
    <2>1. x + IntMax + 1 \in 0 .. (w - 1) /\ w \in Nat \ {0}
      BY <1>1
    <2> HIDE DEF w, x
    <2> QED
      BY <2>1
  <1>3. Signed(x) = x
    BY <1>1, <1>2 DEF Signed
  <1>4. Aligned(length) = (x \div Page) * Page
    BY <1>3 DEF Aligned
  <1>5. /\ x \div Page \in Int /\ x % Page \in 0 .. (Page - 1)
        /\ x = Page * (x \div Page) + (x % Page)
    <2> x \in Int
      BY <1>1
    <2> HIDE DEF x
    <2> QED
      BY <1>1, Division
  <1>0. x \in Int
    BY <1>1
  <1> HIDE DEF x
  <1>6. Aligned(length) = x - (x % Page)
    BY <1>0, <1>1, <1>4, <1>5
  <1>7. Aligned(length) % Page = 0
    BY <1>1, <1>4, <1>5, Multiple
  <1> QED
    BY <1>1, <1>5, <1>6, <1>7 DEF x

(* An area of whole pages with room for length has room for its rounding.  *)
LEMMA RoundedFits ==
  ASSUME NEW addr \in Int, NEW end \in Int, NEW length \in Int,
         0 <= length, length + Page - 1 <= IntMax,
         addr % Page = 0, end % Page = 0, addr + length <= end
  PROVE  addr + Aligned(length) <= end
  <1>1. Page \in Nat \ {0}
    BY LayoutAssumption
  <1>2. /\ Aligned(length) \in Nat /\ Aligned(length) % Page = 0
        /\ length <= Aligned(length) /\ Aligned(length) < length + Page
    BY Rounding
  <1>3. (addr + Aligned(length)) % Page = 0
    BY <1>2, WholeSum
  <1> SUFFICES ASSUME end < addr + Aligned(length) PROVE FALSE
    BY <1>2
  <1>4. end + Page <= addr + Aligned(length)
    BY <1>2, <1>3, WholeGap
  <1> QED
    BY <1>1, <1>2, <1>4

-----------------------------------------------------------------------------
(* Lists in order.  AreasOrdered compares neighbours; what is inductive is *)
(* to compare any two areas of a list.                                     *)

AreaSet == [start : Edges, end : Edges, flags : {0, 1, 3}]

Proper(a) ==
  a \in AreaSet /\ a.start % Page = 0 /\ a.end % Page = 0 /\ a.start <= a.end

Sorted(vs) ==
  /\ vs \in Seq(AreaSet)
  /\ \A i \in 1 .. Len(vs) : Proper(vs[i])
  /\ \A i, j \in 1 .. Len(vs) : i < j => vs[i].end <= vs[j].start

(* Edges are numbers.                                                      *)
LEMMA ProperFacts ==
  ASSUME NEW a, Proper(a)
  PROVE  /\ a.start \in Nat /\ a.end \in Nat /\ a.flags \in {0, 1, 3}
         /\ Start <= a.start /\ a.start <= a.end /\ a.end <= End
  BY LayoutAssumption DEF Proper, AreaSet, Edges

(* An area that is moved at one end                                        *)
LEMMA WithEnd ==
  ASSUME NEW a, Proper(a), NEW x \in Nat, x % Page = 0, a.start <= x, x <= End
  PROVE  /\ Proper([a EXCEPT !.end = x])
         /\ [a EXCEPT !.end = x].start = a.start /\ [a EXCEPT !.end = x].end = x
  <1>1. x \in Edges
    <2>1. a.start \in Nat /\ Start <= a.start /\ Start \in Nat /\ End \in Nat
      BY ProperFacts, LayoutAssumption
    <2> QED
      BY <2>1 DEF Edges
  <1> QED
    BY <1>1 DEF Proper, AreaSet

(* The same at the other end                                               *)
LEMMA WithStart ==
  ASSUME NEW a, Proper(a), NEW x \in Nat, x % Page = 0, Start <= x, x <= a.end
  PROVE  /\ Proper([a EXCEPT !.start = x])
         /\ [a EXCEPT !.start = x].start = x /\ [a EXCEPT !.start = x].end = a.end
  <1>1. x \in Edges
    <2>1. a.end \in Nat /\ a.end <= End /\ Start \in Nat /\ End \in Nat
      BY ProperFacts, LayoutAssumption
    <2> QED
      BY <2>1 DEF Edges
  <1> QED
    BY <1>1 DEF Proper, AreaSet

(* The ends of the part of a list that comes before its area i lie below   *)
(* that area, and the starts of the part behind it above.                  *)
LEMMA SortedFacts ==
  ASSUME NEW vs, Sorted(vs), NEW i \in 1 .. Len(vs), NEW k \in 1 .. Len(vs)
  PROVE  /\ k <= i => vs[k].end <= vs[i].end
         /\ k >= i => vs[i].start <= vs[k].start
         /\ k < i => vs[k].end <= vs[i].start
         /\ k > i => vs[i].end <= vs[k].start
  <1>1. Len(vs) \in Nat
    BY DEF Sorted
  <1>2. Proper(vs[i]) /\ Proper(vs[k])
    BY DEF Sorted
  <1>3. /\ vs[i].start \in Nat /\ vs[i].end \in Nat /\ vs[i].start <= vs[i].end
        /\ vs[k].start \in Nat /\ vs[k].end \in Nat /\ vs[k].start <= vs[k].end
    BY <1>2, ProperFacts
  <1>4. k < i => vs[k].end <= vs[i].start
    BY DEF Sorted
  <1>5. k > i => vs[i].end <= vs[k].start
    BY DEF Sorted
  <1>6. k < i \/ k = i \/ k > i
    BY <1>1
  <1> QED
    BY <1>1, <1>3, <1>4, <1>5, <1>6

(* A concatenation, place by place                                         *)
LEMMA ConcatFacts ==
  ASSUME NEW S, NEW s \in Seq(S), NEW t \in Seq(S)
  PROVE  /\ s \o t \in Seq(S) /\ Len(s \o t) = Len(s) + Len(t)
         /\ \A k \in 1 .. Len(s) : (s \o t)[k] = s[k]
         /\ \A k \in 1 .. Len(t) : (s \o t)[Len(s) + k] = t[k]
  OBVIOUS

(* What Splice returns, place by place                                     *)
LEMMA SpliceFacts ==
  ASSUME NEW vs \in Seq(AreaSet), NEW new \in Seq(AreaSet),
         NEW i \in 1 .. Len(vs) + 1, NEW j \in (i - 1) .. Len(vs)
  PROVE  /\ Splice(vs, i, j, new) \in Seq(AreaSet)
         /\ Len(Splice(vs, i, j, new)) = i - 1 + Len(new) + Len(vs) - j
         /\ \A k \in 1 .. i - 1 : Splice(vs, i, j, new)[k] = vs[k]
         /\ \A k \in 1 .. Len(new) : Splice(vs, i, j, new)[i - 1 + k] = new[k]
         /\ \A k \in 1 .. Len(vs) - j :
              Splice(vs, i, j, new)[i - 1 + Len(new) + k] = vs[j + k]
  <1> i \in Int /\ j \in Int /\ Len(vs) \in Nat /\ Len(new) \in Nat
    OBVIOUS
  <1> DEFINE front == SubSeq(vs, 1, i - 1)
             back == SubSeq(vs, j + 1, Len(vs))
             head == front \o new
  <1>1. front \in Seq(AreaSet) /\ Len(front) = i - 1 /\ \A k \in 1 .. i - 1 : front[k] = vs[k]
    OBVIOUS
  <1>2. back \in Seq(AreaSet) /\ Len(back) = Len(vs) - j /\ \A k \in 1 .. Len(vs) - j : back[k] = vs[j + k]
    OBVIOUS
  <1>3. Splice(vs, i, j, new) = head \o back
    BY DEF Splice
  <1> HIDE DEF front, back
  <1>4. /\ head \in Seq(AreaSet) /\ Len(head) = i - 1 + Len(new)
        /\ \A k \in 1 .. i - 1 : head[k] = vs[k]
        /\ \A k \in 1 .. Len(new) : head[i - 1 + k] = new[k]
    BY <1>1
  <1>6. \A k \in 1 .. i - 1 : k \in 1 .. Len(head)
    BY <1>4
  <1>7. \A k \in 1 .. Len(new) : i - 1 + k \in 1 .. Len(head)
    BY <1>4
  <1> HIDE DEF head
  <1>5. /\ head \o back \in Seq(AreaSet) /\ Len(head \o back) = Len(head) + Len(back)
        /\ \A k \in 1 .. Len(head) : (head \o back)[k] = head[k]
        /\ \A k \in 1 .. Len(back) : (head \o back)[Len(head) + k] = back[k]
    <2> back \in Seq(AreaSet) /\ head \in Seq(AreaSet)
      BY <1>2, <1>4
    <2> QED
      BY ConcatFacts
  <1> DEFINE r == head \o back
  <1> HIDE DEF r
  <1>8. /\ r \in Seq(AreaSet) /\ Len(r) = i - 1 + Len(new) + Len(vs) - j
        /\ \A k \in 1 .. i - 1 : r[k] = vs[k]
        /\ \A k \in 1 .. Len(new) : r[i - 1 + k] = new[k]
        /\ \A k \in 1 .. Len(vs) - j : r[i - 1 + Len(new) + k] = vs[j + k]
    <2>1. r \in Seq(AreaSet) /\ Len(r) = i - 1 + Len(new) + Len(vs) - j
      BY <1>2, <1>4, <1>5 DEF r
    <2>2. \A k \in 1 .. i - 1 : r[k] = vs[k]
      BY <1>4, <1>5, <1>6 DEF r
    <2>3. \A k \in 1 .. Len(new) : r[i - 1 + k] = new[k]
      BY <1>4, <1>5, <1>7 DEF r
    <2>4. \A k \in 1 .. Len(vs) - j : r[i - 1 + Len(new) + k] = vs[j + k]
      BY <1>2, <1>4, <1>5 DEF r
    <2> QED
      BY <2>1, <2>2, <2>3, <2>4
  <1> QED
    BY <1>3, <1>8 DEF r

(* Areas between two areas of a list in order can take the place of what   *)
(* was between these.                                                      *)
LEMMA SpliceSorted ==
  ASSUME NEW vs, Sorted(vs), NEW new, Sorted(new),
         NEW i \in 1 .. Len(vs) + 1, NEW j \in (i - 1) .. Len(vs),
         \A m \in 1 .. Len(new) : i > 1 => vs[i - 1].end <= new[m].start,
         \A m \in 1 .. Len(new) : j < Len(vs) => new[m].end <= vs[j + 1].start
  PROVE  /\ Sorted(Splice(vs, i, j, new))
         /\ Len(Splice(vs, i, j, new)) = i - 1 + Len(new) + Len(vs) - j
         /\ i > 1 => Splice(vs, i, j, new)[1] = vs[1]
  <1> DEFINE r == Splice(vs, i, j, new)
             n == Len(new)
             l == Len(vs)
  <1>1. vs \in Seq(AreaSet) /\ new \in Seq(AreaSet) /\ l \in Nat /\ n \in Nat
    BY DEF Sorted
  <1>2. /\ r \in Seq(AreaSet)
        /\ Len(r) = i - 1 + n + l - j
        /\ \A k \in 1 .. i - 1 : r[k] = vs[k]
        /\ \A k \in 1 .. n : r[i - 1 + k] = new[k]
        /\ \A k \in 1 .. l - j : r[i - 1 + n + k] = vs[j + k]
    <2> HIDE DEF r
    <2> SUFFICES /\ Splice(vs, i, j, new) \in Seq(AreaSet)
                 /\ Len(Splice(vs, i, j, new)) = i - 1 + Len(new) + Len(vs) - j
                 /\ \A k \in 1 .. i - 1 : Splice(vs, i, j, new)[k] = vs[k]
                 /\ \A k \in 1 .. Len(new) : Splice(vs, i, j, new)[i - 1 + k] = new[k]
                 /\ \A k \in 1 .. Len(vs) - j :
                      Splice(vs, i, j, new)[i - 1 + Len(new) + k] = vs[j + k]
      BY DEF r
    <2>1. vs \in Seq(AreaSet) /\ new \in Seq(AreaSet)
      BY <1>1
    <2> HIDE DEF n, l
    <2> QED
      BY <2>1, SpliceFacts
  <1> HIDE DEF r
  <1>3. \A k \in 1 .. Len(r) :
          \/ k < i /\ r[k] = vs[k]
          \/ k >= i /\ k < i + n /\ k - i + 1 \in 1 .. n /\ r[k] = new[k - i + 1]
          \/ /\ k >= i + n /\ k - (i - 1 + n) + j \in (j + 1) .. l
             /\ r[k] = vs[k - (i - 1 + n) + j]
    <2> TAKE k \in 1 .. Len(r)
    <2> HIDE DEF n, l
    <2>1. CASE k < i
      BY <1>1, <1>2, <2>1
    <2>2. CASE k >= i /\ k < i + n
      <3>1. k - i + 1 \in 1 .. n /\ i - 1 + (k - i + 1) = k
        BY <1>1, <2>2
      <3> QED
        BY <1>2, <2>2, <3>1
    <2>3. CASE k >= i + n
      <3> DEFINE q == k - (i - 1 + n)
      <3>1. q \in 1 .. l - j /\ i - 1 + n + q = k /\ j + q \in (j + 1) .. l /\ j + q = k - (i - 1 + n) + j
        BY SMTT(30), <1>1, <1>2, <2>3 DEF l
      <3> HIDE DEF q
      <3> QED
        BY <1>2, <2>3, <3>1
    <2> QED
      BY <1>1, <1>2, <2>1, <2>2, <2>3
  <1>4. \A k \in 1 .. Len(r) : Proper(r[k])
    <2> TAKE k \in 1 .. Len(r)
    <2>1. (j + 1) .. l \subseteq 1 .. l
      BY <1>1
    <2>2. k < i => k \in 1 .. l
      BY <1>1, <1>2
    <2> QED
      BY <1>3, <2>1, <2>2 DEF Sorted
  <1>5. \A k \in 1 .. i - 1, m \in 1 .. n : vs[k].end <= new[m].start
    <2> TAKE k \in 1 .. i - 1, m \in 1 .. n
    <2>1. k \in 1 .. l /\ i - 1 \in 1 .. l /\ k <= i - 1 /\ i > 1
      BY <1>1
    <2>2. vs[k].end <= vs[i - 1].end
      BY <2>1, SortedFacts
    <2>3. vs[k].end \in Nat /\ vs[i - 1].end \in Nat /\ new[m].start \in Nat
      BY <2>1, ProperFacts DEF Sorted
    <2> QED
      BY SMTT(30), <2>1, <2>2, <2>3
  <1>6. \A k \in (j + 1) .. l, m \in 1 .. n : new[m].end <= vs[k].start
    <2> TAKE k \in (j + 1) .. l, m \in 1 .. n
    <2>1. k \in 1 .. l /\ j + 1 \in 1 .. l /\ k >= j + 1 /\ j < l
      BY <1>1
    <2>2. vs[j + 1].start <= vs[k].start
      BY <2>1, SortedFacts
    <2>3. vs[k].start \in Nat /\ vs[j + 1].start \in Nat /\ new[m].end \in Nat
      BY <2>1, ProperFacts DEF Sorted
    <2>4. new[m].end <= vs[j + 1].start
      BY <2>1
    <2> QED
      BY SMTT(30), <2>2, <2>3, <2>4
  <1>7. \A k, m \in 1 .. Len(r) : k < m => r[k].end <= r[m].start
    <2> SUFFICES ASSUME NEW k \in 1 .. Len(r), NEW m \in 1 .. Len(r), k < m
                 PROVE  r[k].end <= r[m].start
      OBVIOUS
    <2> DEFINE Old(q) == q - (i - 1 + n) + j
               New(q) == q - i + 1
    <2>1. /\ \/ k < i /\ r[k] = vs[k]
             \/ k >= i /\ k < i + n /\ New(k) \in 1 .. n /\ r[k] = new[New(k)]
             \/ k >= i + n /\ Old(k) \in (j + 1) .. l /\ r[k] = vs[Old(k)]
          /\ \/ m < i /\ r[m] = vs[m]
             \/ m >= i /\ m < i + n /\ New(m) \in 1 .. n /\ r[m] = new[New(m)]
             \/ m >= i + n /\ Old(m) \in (j + 1) .. l /\ r[m] = vs[Old(m)]
      BY <1>3
    <2>2. New(k) < New(m) /\ Old(k) < Old(m)
      BY <1>1, <1>2
    <2>3. (j + 1) .. l \subseteq 1 .. l
      BY <1>1
    <2>4. (k < i => k \in 1 .. l /\ k \in 1 .. i - 1) /\ (m < i => m \in 1 .. l)
      BY <1>1, <1>2
    <2>5. \A q \in 1 .. i - 1 : q \in 1 .. l /\ \A t \in (j + 1) .. l : q < t
      BY <1>1
    <2> HIDE DEF Old, New
    <2>6. CASE k < i
      <3>1. CASE m < i
        BY <1>2, <2>1, <2>4, <2>6, <3>1 DEF Sorted
      <3>2. CASE m >= i /\ m < i + n /\ New(m) \in 1 .. n /\ r[m] = new[New(m)]
        BY <1>2, <1>5, <2>4, <2>6, <3>2
      <3>3. CASE m >= i + n /\ Old(m) \in (j + 1) .. l /\ r[m] = vs[Old(m)]
        BY <1>2, <2>3, <2>4, <2>5, <2>6, <3>3 DEF Sorted
      <3> QED
        BY <2>1, <3>1, <3>2, <3>3
    <2>7. CASE k >= i /\ k < i + n /\ New(k) \in 1 .. n /\ r[k] = new[New(k)]
      <3>1. m >= i
        BY <1>1, <1>2, <2>7
      <3>2. CASE m >= i /\ m < i + n /\ New(m) \in 1 .. n /\ r[m] = new[New(m)]
        BY <2>2, <2>7, <3>2 DEF Sorted
      <3>3. CASE m >= i + n /\ Old(m) \in (j + 1) .. l /\ r[m] = vs[Old(m)]
        BY <1>6, <2>7, <3>3
      <3>4. ~(m < i)
        BY <1>1, <1>2, <3>1
      <3> QED
        BY <2>1, <3>2, <3>3, <3>4
    <2>8. CASE k >= i + n /\ Old(k) \in (j + 1) .. l /\ r[k] = vs[Old(k)]
      <3>1. m >= i + n /\ ~(m < i) /\ ~(m < i + n)
        BY SMTT(30), <1>1, <1>2, <2>8
      <3>2. Old(m) \in (j + 1) .. l /\ r[m] = vs[Old(m)]
        BY <2>1, <3>1
      <3> QED
        BY <2>2, <2>3, <2>8, <3>2 DEF Sorted
    <2> QED
      BY <2>1, <2>6, <2>7, <2>8
  <1>8. i > 1 => r[1] = vs[1]
    BY <1>1, <1>2
  <1> QED
    BY <1>2, <1>4, <1>7, <1>8 DEF Sorted, r

(* The same of one area that changes.                                      *)
LEMMA ReplaceSorted ==
  ASSUME NEW vs, Sorted(vs), NEW i \in 1 .. Len(vs), NEW a, Proper(a),
         i > 1 => vs[i - 1].end <= a.start,
         i < Len(vs) => a.end <= vs[i + 1].start
  PROVE  /\ Sorted([vs EXCEPT ![i] = a])
         /\ Len([vs EXCEPT ![i] = a]) = Len(vs)
         /\ i > 1 => [vs EXCEPT ![i] = a][1] = vs[1]
  <1> DEFINE r == [vs EXCEPT ![i] = a]
  <1>1. vs \in Seq(AreaSet) /\ Len(vs) \in Nat /\ a \in AreaSet
    BY DEF Sorted, Proper
  <1>2. /\ r \in Seq(AreaSet) /\ Len(r) = Len(vs)
        /\ \A k \in 1 .. Len(vs) : r[k] = IF k = i THEN a ELSE vs[k]
    BY <1>1
  <1> HIDE DEF r
  <1>3. \A k \in 1 .. Len(vs) : k < i => vs[k].end <= a.start
    <2> SUFFICES ASSUME NEW k \in 1 .. Len(vs), k < i PROVE vs[k].end <= a.start
      OBVIOUS
    <2>1. i - 1 \in 1 .. Len(vs) /\ k <= i - 1 /\ i > 1
      BY <1>1
    <2>2. vs[k].end <= vs[i - 1].end
      BY <2>1, SortedFacts
    <2>3. vs[k].end \in Nat /\ vs[i - 1].end \in Nat /\ a.start \in Nat
      BY <2>1, ProperFacts DEF Sorted
    <2> QED
      BY <2>1, <2>2, <2>3
  <1>4. \A k \in 1 .. Len(vs) : k > i => a.end <= vs[k].start
    <2> SUFFICES ASSUME NEW k \in 1 .. Len(vs), k > i PROVE a.end <= vs[k].start
      OBVIOUS
    <2>1. i + 1 \in 1 .. Len(vs) /\ k >= i + 1 /\ i < Len(vs)
      BY <1>1
    <2>2. vs[i + 1].start <= vs[k].start
      BY <2>1, SortedFacts
    <2>3. vs[k].start \in Nat /\ vs[i + 1].start \in Nat /\ a.end \in Nat
      BY <2>1, ProperFacts DEF Sorted
    <2> QED
      BY <2>1, <2>2, <2>3
  <1>5. \A k \in 1 .. Len(r) : Proper(r[k])
    BY <1>2 DEF Sorted
  <1>6. \A k, m \in 1 .. Len(r) : k < m => r[k].end <= r[m].start
    <2> SUFFICES ASSUME NEW k \in 1 .. Len(vs), NEW m \in 1 .. Len(vs), k < m
                 PROVE  r[k].end <= r[m].start
      BY <1>2
    <2>1. r[k] = (IF k = i THEN a ELSE vs[k]) /\ r[m] = (IF m = i THEN a ELSE vs[m])
      BY <1>2
    <2>2. vs[k].end <= vs[m].start
      BY DEF Sorted
    <2>3. ~(k = i /\ m = i) /\ (m = i => k < i) /\ (k = i => m > i)
      BY <1>1
    <2> QED
      BY <1>3, <1>4, <2>1, <2>2, <2>3
  <1>7. i > 1 => r[1] = vs[1]
    BY <1>1, <1>2
  <1> QED
    BY <1>2, <1>5, <1>6, <1>7 DEF Sorted, r

(* Short lists in order *)
LEMMA ShortSorted ==
  ASSUME NEW a, Proper(a), NEW b, Proper(b), NEW c, Proper(c)
  PROVE  /\ Sorted(<< >>)
         /\ Sorted(<<a>>)
         /\ a.end <= b.start => Sorted(<<a, b>>)
         /\ a.end <= b.start /\ b.end <= c.start => Sorted(<<a, b, c>>)
  <1>1. a \in AreaSet /\ b \in AreaSet /\ c \in AreaSet
    BY DEF Proper
  <1>2. /\ a.start \in Nat /\ b.start \in Nat /\ c.start \in Nat
        /\ a.end \in Nat /\ b.end \in Nat /\ c.end \in Nat
        /\ b.start <= b.end
    BY ProperFacts
  <1>3. Sorted(<< >>) /\ Sorted(<<a>>)
    BY <1>1 DEF Sorted
  <1>4. a.end <= b.start => Sorted(<<a, b>>)
    BY <1>1 DEF Sorted
  <1>5. ASSUME a.end <= b.start, b.end <= c.start PROVE Sorted(<<a, b, c>>)
    <2>1. a.end <= c.start
      BY <1>2, <1>5
    <2> QED
      BY <1>1, <1>5, <2>1 DEF Sorted
  <1> QED
    BY <1>3, <1>4, <1>5

-----------------------------------------------------------------------------
(* What the calls make of a list                                           *)

Headed(vs) == Sorted(vs) /\ Len(vs) > 0 /\ vs[1] = Dummy

(* A list in order with as many areas more than vs as count says           *)
Sound(new, vs) == Headed(new.areas) /\ new.count = Len(new.areas) - Len(vs)

(* The dummy area is an area, and a list of its own.                       *)
LEMMA DummyProper == Proper(Dummy) /\ Headed(<<Dummy>>)
  <1>1. /\ Page \in Nat \ {0} /\ Start \in Nat /\ End \in Nat /\ Start + Page < End
        /\ Start % Page = 0 /\ Page \in Int /\ Start \in Int
    BY LayoutAssumption
  <1>2. Page % Page = 0
    <2>1. (1 * Page) % Page = 0 /\ 1 * Page = Page
      BY <1>1, Multiple
    <2> QED
      BY <2>1
  <1>3. (Start + Page) % Page = 0
    BY <1>1, <1>2, WholeSum
  <1>4. Proper(Dummy)
    BY <1>1, <1>3 DEF Proper, AreaSet, Edges, Dummy
  <1>5. Sorted(<<Dummy>>)
    BY <1>4, ShortSorted
  <1> QED
    BY <1>4, <1>5 DEF Headed

(* What ReplaceSorted and SpliceSorted say behind the head of a list       *)
LEMMA ReplaceHeaded ==
  ASSUME NEW vs, Headed(vs), NEW i \in 2 .. Len(vs), NEW a, Proper(a),
         vs[i - 1].end <= a.start,
         i < Len(vs) => a.end <= vs[i + 1].start
  PROVE  /\ Headed([vs EXCEPT ![i] = a])
         /\ Len([vs EXCEPT ![i] = a]) = Len(vs)
  <1> DEFINE r == [vs EXCEPT ![i] = a]
  <1>1. Sorted(vs) /\ Len(vs) \in Nat /\ i \in 1 .. Len(vs) /\ i > 1
    BY DEF Headed, Sorted
  <1>2. Sorted(r) /\ Len(r) = Len(vs) /\ r[1] = vs[1]
    BY <1>1, ReplaceSorted
  <1> HIDE DEF r
  <1>3. Headed(r) /\ Len(r) = Len(vs)
    BY <1>2 DEF Headed
  <1> QED
    BY <1>3 DEF r

(* Behind the head any areas in order can take the place of others.        *)
LEMMA SpliceHeaded ==
  ASSUME NEW vs, Headed(vs), NEW new, Sorted(new),
         NEW i \in 2 .. Len(vs) + 1, NEW j \in (i - 1) .. Len(vs),
         \A m \in 1 .. Len(new) : vs[i - 1].end <= new[m].start,
         \A m \in 1 .. Len(new) : j < Len(vs) => new[m].end <= vs[j + 1].start
  PROVE  /\ Headed(Splice(vs, i, j, new))
         /\ Len(Splice(vs, i, j, new)) - Len(vs) = Len(new) - (j - i + 1)
  <1> DEFINE r == Splice(vs, i, j, new)
  <1>1. Sorted(vs) /\ Len(vs) \in Nat /\ Len(new) \in Nat /\ i \in 1 .. Len(vs) + 1 /\ i > 1
    BY DEF Headed, Sorted
  <1>2. \A m \in 1 .. Len(new) : i > 1 => vs[i - 1].end <= new[m].start
    OBVIOUS
  <1>3. Sorted(r) /\ Len(r) = i - 1 + Len(new) + Len(vs) - j /\ r[1] = vs[1]
    BY <1>1, <1>2, SpliceSorted
  <1> HIDE DEF r
  <1>4. Headed(r) /\ Len(r) - Len(vs) = Len(new) - (j - i + 1)
    BY SMTT(30), <1>1, <1>3 DEF Headed
  <1> QED
    BY <1>4 DEF r

(* The same of no area at all                                              *)
LEMMA SpliceNone ==
  ASSUME NEW vs, Headed(vs), NEW i \in 2 .. Len(vs) + 1, NEW j \in (i - 1) .. Len(vs)
  PROVE  /\ Headed(Splice(vs, i, j, << >>))
         /\ Len(Splice(vs, i, j, << >>)) - Len(vs) = 0 - (j - i + 1)
  <1> DEFINE new == << >>
  <1>1. Sorted(new) /\ Len(new) = 0
    BY DummyProper, ShortSorted
  <1> HIDE DEF new
  <1>2. /\ \A m \in 1 .. Len(new) : vs[i - 1].end <= new[m].start
        /\ \A m \in 1 .. Len(new) : j < Len(vs) => new[m].end <= vs[j + 1].start
    BY <1>1
  <1>3. /\ Headed(Splice(vs, i, j, new))
        /\ Len(Splice(vs, i, j, new)) - Len(vs) = Len(new) - (j - i + 1)
    BY <1>1, <1>2, SpliceHeaded
  <1> QED
    BY <1>1, <1>3 DEF new

(* The same of one area                                                    *)
LEMMA SpliceOne ==
  ASSUME NEW vs, Headed(vs), NEW i \in 2 .. Len(vs) + 1, NEW j \in (i - 1) .. Len(vs),
         NEW a, Proper(a),
         vs[i - 1].end <= a.start, j < Len(vs) => a.end <= vs[j + 1].start
  PROVE  /\ Headed(Splice(vs, i, j, <<a>>))
         /\ Len(Splice(vs, i, j, <<a>>)) - Len(vs) = 1 - (j - i + 1)
  <1> DEFINE new == <<a>>
  <1>1. Sorted(new) /\ Len(new) = 1 /\ new[1] = a
    BY ShortSorted
  <1> HIDE DEF new
  <1>2. /\ \A m \in 1 .. Len(new) : vs[i - 1].end <= new[m].start
        /\ \A m \in 1 .. Len(new) : j < Len(vs) => new[m].end <= vs[j + 1].start
    <2>1. \A m \in 1 .. Len(new) : m = 1
      BY <1>1
    <2> QED
      BY <1>1, <2>1
  <1>3. /\ Headed(Splice(vs, i, j, new))
        /\ Len(Splice(vs, i, j, new)) - Len(vs) = Len(new) - (j - i + 1)
    BY <1>1, <1>2, SpliceHeaded
  <1> QED
    BY <1>1, <1>3 DEF new

(* The same of two areas                                                   *)
LEMMA SpliceTwo ==
  ASSUME NEW vs, Headed(vs), NEW i \in 2 .. Len(vs) + 1, NEW j \in (i - 1) .. Len(vs),
         NEW a, Proper(a), NEW b, Proper(b), a.end <= b.start,
         vs[i - 1].end <= a.start, j < Len(vs) => b.end <= vs[j + 1].start
  PROVE  /\ Headed(Splice(vs, i, j, <<a, b>>))
         /\ Len(Splice(vs, i, j, <<a, b>>)) - Len(vs) = 2 - (j - i + 1)
  <1> DEFINE new == <<a, b>>
  <1>1. Sorted(new) /\ Len(new) = 2 /\ new[1] = a /\ new[2] = b
    BY ShortSorted
  <1> HIDE DEF new
  <1>2. /\ \A m \in 1 .. Len(new) : vs[i - 1].end <= new[m].start
        /\ \A m \in 1 .. Len(new) : j < Len(vs) => new[m].end <= vs[j + 1].start
    <2>1. \A m \in 1 .. Len(new) : m = 1 \/ m = 2
      BY <1>1
    <2>2. vs[i - 1].end <= b.start /\ (j < Len(vs) => a.end <= vs[j + 1].start)
      <3>1. /\ i - 1 \in 1 .. Len(vs) /\ (j < Len(vs) => j + 1 \in 1 .. Len(vs))
        BY DEF Headed, Sorted
      <3>2. /\ vs[i - 1].end \in Nat /\ (j < Len(vs) => vs[j + 1].start \in Nat)
        BY <3>1, ProperFacts DEF Headed, Sorted
      <3>3. /\ a.start \in Nat /\ a.end \in Nat /\ a.start <= a.end
            /\ b.start \in Nat /\ b.end \in Nat /\ b.start <= b.end
        BY ProperFacts
      <3> QED
        BY SMTT(30), <3>2, <3>3
    <2> QED
      BY <1>1, <2>1, <2>2
  <1>3. /\ Headed(Splice(vs, i, j, new))
        /\ Len(Splice(vs, i, j, new)) - Len(vs) = Len(new) - (j - i + 1)
    BY <1>1, <1>2, SpliceHeaded
  <1> QED
    BY <1>1, <1>3 DEF new

(* The same of three areas                                                 *)
LEMMA SpliceThree ==
  ASSUME NEW vs, Headed(vs), NEW i \in 2 .. Len(vs) + 1, NEW j \in (i - 1) .. Len(vs),
         NEW a, Proper(a), NEW b, Proper(b), NEW c, Proper(c),
         a.end <= b.start, b.end <= c.start,
         vs[i - 1].end <= a.start, j < Len(vs) => c.end <= vs[j + 1].start
  PROVE  /\ Headed(Splice(vs, i, j, <<a, b, c>>))
         /\ Len(Splice(vs, i, j, <<a, b, c>>)) - Len(vs) = 3 - (j - i + 1)
  <1> DEFINE new == <<a, b, c>>
  <1>1. Sorted(new) /\ Len(new) = 3 /\ new[1] = a /\ new[2] = b /\ new[3] = c
    BY ShortSorted
  <1> HIDE DEF new
  <1>2. /\ \A m \in 1 .. Len(new) : vs[i - 1].end <= new[m].start
        /\ \A m \in 1 .. Len(new) : j < Len(vs) => new[m].end <= vs[j + 1].start
    <2>1. \A m \in 1 .. Len(new) : m = 1 \/ m = 2 \/ m = 3
      BY <1>1
    <2>2. /\ vs[i - 1].end <= b.start /\ vs[i - 1].end <= c.start
          /\ j < Len(vs) => a.end <= vs[j + 1].start /\ b.end <= vs[j + 1].start
      <3>1. /\ i - 1 \in 1 .. Len(vs) /\ (j < Len(vs) => j + 1 \in 1 .. Len(vs))
        BY DEF Headed, Sorted
      <3>2. /\ vs[i - 1].end \in Nat /\ (j < Len(vs) => vs[j + 1].start \in Nat)
        BY <3>1, ProperFacts DEF Headed, Sorted
      <3>3. /\ a.start \in Nat /\ a.end \in Nat /\ a.start <= a.end
            /\ b.start \in Nat /\ b.end \in Nat /\ b.start <= b.end
            /\ c.start \in Nat /\ c.end \in Nat /\ c.start <= c.end
        BY ProperFacts
      <3>4. a.start <= b.start /\ a.start <= c.start /\ a.end <= c.end /\ b.end <= c.end
        BY SMTT(30), <3>3
      <3>5. vs[i - 1].end <= b.start /\ vs[i - 1].end <= c.start
        BY <3>2, <3>3, <3>4
      <3>6. ASSUME j < Len(vs) PROVE a.end <= vs[j + 1].start /\ b.end <= vs[j + 1].start
        BY SMTT(30), <3>2, <3>3, <3>4, <3>6
      <3> QED
        BY <3>5, <3>6
    <2> QED
      BY <1>1, <2>1, <2>2
  <1>3. /\ Headed(Splice(vs, i, j, new))
        /\ Len(Splice(vs, i, j, new)) - Len(vs) = Len(new) - (j - i + 1)
    BY <1>1, <1>2, SpliceHeaded
  <1> QED
    BY <1>1, <1>3 DEF new

(* New memory goes where it is free: whichever of its neighbours it is     *)
(* merged with, the list stays in order (the end of vm_area_map).          *)
LEMMA PlacedSound ==
  ASSUME NEW vs, Headed(vs), NEW i \in 1 .. Len(vs),
         NEW addr \in Nat, NEW len \in Nat, NEW q \in {1, 3},
         addr % Page = 0, len % Page = 0,
         vs[i].end <= addr, addr + len <= Limit(vs, i)
  PROVE  Sound(Placed(vs, i, addr, len, q), vs)
  <1> DEFINE to == addr + len
             next == vs[i + 1]
             fresh == [start |-> addr, end |-> to, flags |-> q]
             longer == [vs[i] EXCEPT !.end = @ + len]
             earlier == [next EXCEPT !.start = addr]
             joined == [vs[i] EXCEPT !.end = next.end]
             withPrev == addr = vs[i].end /\ q = vs[i].flags
             withNext == i < Len(vs) /\ to = next.start /\ q = next.flags
             new == Placed(vs, i, addr, len, q)
  <1>1. Sorted(vs) /\ vs[1] = Dummy /\ Len(vs) \in Nat
    BY DEF Headed, Sorted
  <1>2. /\ vs[i] \in AreaSet /\ vs[i].start % Page = 0 /\ vs[i].end % Page = 0
        /\ vs[i].start \in Nat /\ vs[i].end \in Nat
        /\ Start <= vs[i].start /\ vs[i].start <= vs[i].end /\ vs[i].end <= End
    BY <1>1, ProperFacts DEF Sorted, Proper
  <1>3. i < Len(vs) => /\ next \in AreaSet /\ next.start % Page = 0 /\ next.end % Page = 0
                       /\ next.start \in Nat /\ next.end \in Nat
                       /\ Start <= next.start /\ next.start <= next.end /\ next.end <= End
                       /\ to <= next.start
    BY <1>1, ProperFacts DEF Sorted, Proper, Limit
  <1>4. to <= End /\ Start <= addr /\ to \in Nat /\ addr <= to
    <2>1. Start \in Nat /\ End \in Nat
      BY LayoutAssumption
    <2>2. Start <= addr /\ to \in Nat /\ addr <= to
      BY <1>2, <2>1
    <2>3. CASE i = Len(vs)
      BY <2>2, <2>3 DEF Limit
    <2>4. CASE i < Len(vs)
      BY <1>3, <2>1, <2>2, <2>4
    <2> QED
      BY <1>1, <2>2, <2>3, <2>4
  <1>5. to % Page = 0
    BY WholeSum
  <1>6. Start \in Nat /\ End \in Nat
    BY LayoutAssumption
  <1>7. withPrev => i > 1
    <2> SUFFICES ASSUME withPrev, i = 1 PROVE FALSE
      OBVIOUS
    <2> QED
      BY <1>1 DEF Dummy
  <1>8. i > 1 => vs[i - 1].end <= vs[i].start
    <2> SUFFICES ASSUME i > 1 PROVE vs[i - 1].end <= vs[i].start
      OBVIOUS
    <2>1. i - 1 \in 1 .. Len(vs) /\ i - 1 < i
      BY <1>1
    <2> QED
      BY <1>1, <2>1 DEF Sorted
  <1>9. i < Len(vs) => i + 1 \in 1 .. Len(vs)
    BY <1>1
  <1>10. CASE withPrev /\ ~withNext
    <2>1. new = [areas |-> [vs EXCEPT ![i] = longer], count |-> 0]
      BY <1>10, <1>1, <1>2 DEF Placed
    <2>2. Proper(longer) /\ longer.start = vs[i].start /\ longer.end = to
      BY SMTT(30), <1>10, <1>2, <1>4, <1>5, <1>6 DEF Proper, AreaSet, Edges
    <2> HIDE DEF longer, to, new
    <2>3. i \in 2 .. Len(vs) /\ vs[i - 1].end <= longer.start
      BY <1>1, <1>7, <1>8, <1>10, <2>2
    <2>4. /\ Headed([vs EXCEPT ![i] = longer])
          /\ Len([vs EXCEPT ![i] = longer]) = Len(vs)
      BY <1>3, <2>2, <2>3, ReplaceHeaded
    <2> QED
      BY <1>1, <2>1, <2>4 DEF Sound, new
  <1>11. CASE ~withPrev /\ withNext
    <2>1. new = [areas |-> [vs EXCEPT ![i + 1] = earlier], count |-> 0]
      BY <1>11, <1>1, <1>3, <1>9 DEF Placed
    <2>2. Proper(earlier) /\ earlier.start = addr /\ earlier.end = next.end
      BY SMTT(30), <1>11, <1>3, <1>4, <1>6 DEF Proper, AreaSet, Edges
    <2>3. i + 1 \in 2 .. Len(vs) /\ (i + 1) - 1 = i
      BY <1>1, <1>9, <1>11
    <2>4. i + 1 < Len(vs) => next.end <= vs[(i + 1) + 1].start
      <3> SUFFICES ASSUME i + 1 < Len(vs) PROVE next.end <= vs[(i + 1) + 1].start
        OBVIOUS
      <3>1. (i + 1) + 1 \in 1 .. Len(vs) /\ i + 1 < (i + 1) + 1 /\ i + 1 \in 1 .. Len(vs)
        BY <1>1
      <3> QED
        BY <1>1, <3>1 DEF Sorted
    <2> HIDE DEF earlier, new
    <2>5. /\ Headed([vs EXCEPT ![i + 1] = earlier])
          /\ Len([vs EXCEPT ![i + 1] = earlier]) = Len(vs)
      BY <2>2, <2>3, <2>4, ReplaceHeaded
    <2> QED
      BY <1>1, <2>1, <2>5 DEF Sound, new
  <1>12. CASE withPrev /\ withNext
    <2>1. new = [areas |-> Splice(vs, i, i + 1, <<joined>>), count |-> -1]
      BY <1>12 DEF Placed
    <2>2. Proper(joined) /\ joined.start = vs[i].start /\ joined.end = next.end
      BY <1>12, <1>2, <1>3, <1>4 DEF Proper, AreaSet
    <2>3. i + 1 < Len(vs) => next.end <= vs[(i + 1) + 1].start
      <3> SUFFICES ASSUME i + 1 < Len(vs) PROVE next.end <= vs[(i + 1) + 1].start
        OBVIOUS
      <3>1. (i + 1) + 1 \in 1 .. Len(vs) /\ i + 1 < (i + 1) + 1
        BY <1>1
      <3> QED
        BY <1>1, <1>9, <1>12, <3>1 DEF Sorted
    <2>4. i \in 2 .. Len(vs) + 1 /\ i + 1 \in (i - 1) .. Len(vs)
      BY <1>1, <1>7, <1>9, <1>12
    <2> HIDE DEF joined, new
    <2>5. vs[i - 1].end <= joined.start /\ (i + 1 < Len(vs) => joined.end <= vs[(i + 1) + 1].start)
      BY <1>7, <1>8, <1>12, <2>2, <2>3
    <2>6. /\ Headed(Splice(vs, i, i + 1, <<joined>>))
          /\ Len(Splice(vs, i, i + 1, <<joined>>)) - Len(vs) = 1 - ((i + 1) - i + 1)
      BY <2>2, <2>4, <2>5, SpliceOne
    <2> QED
      BY <1>1, <2>1, <2>6 DEF Sound, new
  <1>13. CASE ~withPrev /\ ~withNext
    <2>1. new = [areas |-> Splice(vs, i + 1, i, <<fresh>>), count |-> 1]
      BY <1>13 DEF Placed
    <2>2. Proper(fresh) /\ fresh.start = addr /\ fresh.end = to
      BY <1>2, <1>4, <1>5, <1>6 DEF Proper, AreaSet, Edges
    <2>3. i + 1 \in 2 .. Len(vs) + 1 /\ i \in ((i + 1) - 1) .. Len(vs) /\ (i + 1) - 1 = i
      BY <1>1
    <2> HIDE DEF fresh, new
    <2>4. vs[(i + 1) - 1].end <= fresh.start /\ (i < Len(vs) => fresh.end <= vs[i + 1].start)
      BY <1>3, <2>2, <2>3
    <2>5. /\ Headed(Splice(vs, i + 1, i, <<fresh>>))
          /\ Len(Splice(vs, i + 1, i, <<fresh>>)) - Len(vs) = 1 - (i - (i + 1) + 1)
      BY <2>2, <2>3, <2>4, SpliceOne
    <2> QED
      BY <1>1, <2>1, <2>5 DEF Sound, new
  <1> QED
    BY <1>10, <1>11, <1>12, <1>13

(* A part of an area that goes leaves nothing, one or two areas (case 1 of *)
(* vm_area_unmap).                                                         *)
LEMMA CutSound ==
  ASSUME NEW vs, Headed(vs), NEW i \in 2 .. Len(vs),
         NEW addr \in Nat, NEW len \in Nat,
         addr % Page = 0, len % Page = 0,
         vs[i].start <= addr, addr + len <= vs[i].end
  PROVE  Sound(Cut(vs, i, addr, len), vs)
  <1> DEFINE a == vs[i]
             to == addr + len
             before == [a EXCEPT !.end = addr]
             after == [a EXCEPT !.start = to]
             new == Cut(vs, i, addr, len)
  <1>1. Sorted(vs) /\ vs[1] = Dummy /\ Len(vs) \in Nat
    BY DEF Headed, Sorted
  <1>2. i \in 1 .. Len(vs) /\ i \in 2 .. Len(vs) + 1 /\ i \in (i - 1) .. Len(vs)
    BY <1>1
  <1>3. /\ a \in AreaSet /\ a.start % Page = 0 /\ a.end % Page = 0
        /\ a.start \in Nat /\ a.end \in Nat
        /\ Start <= a.start /\ a.start <= a.end /\ a.end <= End
    BY <1>1, <1>2, ProperFacts DEF Sorted, Proper
  <1>4. to \in Nat /\ to % Page = 0 /\ addr <= to /\ Start \in Nat /\ End \in Nat
    <2>1. to % Page = 0
      BY WholeSum
    <2> QED
      BY <2>1, LayoutAssumption
  <1>5. /\ Proper(before) /\ before.start = a.start /\ before.end = addr
        /\ Proper(after) /\ after.start = to /\ after.end = a.end
    BY SMTT(30), <1>3, <1>4 DEF Proper, AreaSet, Edges
  <1>6. vs[i - 1].end <= a.start /\ (i < Len(vs) => a.end <= vs[i + 1].start)
    <2>1. i - 1 \in 1 .. Len(vs) /\ i - 1 < i /\ (i < Len(vs) => i + 1 \in 1 .. Len(vs) /\ i < i + 1)
      BY <1>1
    <2> QED
      BY <1>1, <1>2, <2>1 DEF Sorted
  <1>7. vs[i - 1].end \in Nat /\ (i < Len(vs) => vs[i + 1].start \in Nat)
    <2>1. i - 1 \in 1 .. Len(vs) /\ (i < Len(vs) => i + 1 \in 1 .. Len(vs))
      BY <1>1
    <2> QED
      BY <1>1, <2>1, ProperFacts DEF Sorted
  <1>8. vs[i - 1].end <= to /\ (i < Len(vs) => addr <= vs[i + 1].start)
    BY SMTT(30), <1>3, <1>4, <1>6, <1>7
  <1>9. CASE a.start = addr /\ a.end = to
    <2>1. new = [areas |-> Splice(vs, i, i, << >>), count |-> -1]
      BY <1>9 DEF Cut
    <2> HIDE DEF new
    <2>2. /\ Headed(Splice(vs, i, i, << >>))
          /\ Len(Splice(vs, i, i, << >>)) - Len(vs) = 0 - (i - i + 1)
      BY <1>2, SpliceNone
    <2> QED
      BY <1>1, <2>1, <2>2 DEF Sound, new
  <1>10. CASE a.start = addr /\ a.end # to
    <2>1. new = [areas |-> [vs EXCEPT ![i] = after], count |-> 0]
      BY <1>1, <1>2, <1>10 DEF Cut
    <2> HIDE DEF new, after
    <2>2. /\ Headed([vs EXCEPT ![i] = after])
          /\ Len([vs EXCEPT ![i] = after]) = Len(vs)
      BY <1>5, <1>6, <1>8, ReplaceHeaded
    <2> QED
      BY <1>1, <2>1, <2>2 DEF Sound, new
  <1>11. CASE a.start # addr /\ a.end = to
    <2>1. new = [areas |-> [vs EXCEPT ![i] = before], count |-> 0]
      BY <1>1, <1>2, <1>11 DEF Cut
    <2> HIDE DEF new, before
    <2>2. /\ Headed([vs EXCEPT ![i] = before])
          /\ Len([vs EXCEPT ![i] = before]) = Len(vs)
      BY <1>5, <1>6, <1>8, ReplaceHeaded
    <2> QED
      BY <1>1, <2>1, <2>2 DEF Sound, new
  <1>12. CASE a.start # addr /\ a.end # to
    <2>1. new = [areas |-> Splice(vs, i, i, <<before, after>>), count |-> 1]
      BY <1>12 DEF Cut
    <2> HIDE DEF new, before, after
    <2>2. before.end <= after.start
      BY <1>4, <1>5
    <2>3. vs[i - 1].end <= before.start /\ (i < Len(vs) => after.end <= vs[i + 1].start)
      BY <1>5, <1>6
    <2>4. /\ Headed(Splice(vs, i, i, <<before, after>>))
          /\ Len(Splice(vs, i, i, <<before, after>>)) - Len(vs) = 2 - (i - i + 1)
      BY <1>2, <1>5, <2>2, <2>3, SpliceTwo
    <2> QED
      BY <1>1, <2>1, <2>4 DEF Sound, new
  <1> QED
    BY <1>9, <1>10, <1>11, <1>12

(* A part of an area that gets protection q becomes one to three areas, or *)
(* joins a neighbour of that protection at its edge, or both neighbours    *)
(* (vm_area_mprotect).                                                     *)
LEMMA ReprotectedSound ==
  ASSUME NEW vs, Headed(vs), NEW i \in 2 .. Len(vs),
         NEW addr \in Nat, NEW len \in Nat, NEW q \in {1, 3},
         addr % Page = 0, len % Page = 0,
         vs[i].start <= addr, addr + len <= vs[i].end
  PROVE  Sound(Reprotected(vs, i, addr, len, q), vs)
  <1> DEFINE a == vs[i]
             prev == vs[i - 1]
             next == vs[i + 1]
             to == addr + len
             mid == [start |-> addr, end |-> to, flags |-> q]
             before == [a EXCEPT !.end = addr]
             after == [a EXCEPT !.start = to]
             joinPrev == prev.flags = q /\ prev.end = addr
             joinNext == i < Len(vs) /\ next.flags = q /\ next.start = to
             new == Reprotected(vs, i, addr, len, q)
  <1>1. Sorted(vs) /\ vs[1] = Dummy /\ Len(vs) \in Nat
    BY DEF Headed, Sorted
  <1>2. /\ i \in 1 .. Len(vs) /\ i - 1 \in 1 .. Len(vs) /\ i \in 2 .. Len(vs) + 1
        /\ i \in (i - 1) .. Len(vs)
        /\ i < Len(vs) => i + 1 \in 1 .. Len(vs) /\ i + 1 \in (i - 1) .. Len(vs)
    BY <1>1
  <1>a. Proper(a) /\ Proper(prev) /\ (i < Len(vs) => Proper(next))
    BY <1>1, <1>2 DEF Sorted
  <1>3. /\ a \in AreaSet /\ a.start % Page = 0 /\ a.end % Page = 0
        /\ a.start \in Nat /\ a.end \in Nat
        /\ Start <= a.start /\ a.start <= a.end /\ a.end <= End
    BY <1>1, <1>2, ProperFacts DEF Sorted, Proper
  <1>4. to \in Nat /\ to % Page = 0 /\ addr <= to /\ Start \in Nat /\ End \in Nat
    <2>1. to % Page = 0
      BY WholeSum
    <2> QED
      BY <2>1, LayoutAssumption
  <1>5. /\ Proper(before) /\ before.start = a.start /\ before.end = addr
        /\ Proper(after) /\ after.start = to /\ after.end = a.end
        /\ Proper(mid) /\ mid.start = addr /\ mid.end = to
    <2>1. Start <= addr /\ addr <= End /\ to <= End
      BY <1>3, <1>4
    <2>2. Proper(before) /\ before.start = a.start /\ before.end = addr
      BY <1>a, <2>1, WithEnd
    <2>3. Proper(after) /\ after.start = to /\ after.end = a.end
      <3>1. Start <= to
        BY <1>4, <2>1
      <3> QED
        BY <1>4, <1>a, <3>1, WithStart
    <2>4. Proper(mid) /\ mid.start = addr /\ mid.end = to
      BY <1>4, <2>1 DEF Proper, AreaSet, Edges
    <2> QED
      BY <2>2, <2>3, <2>4
  <1>6. /\ prev \in AreaSet /\ prev.start % Page = 0 /\ prev.end % Page = 0
        /\ prev.start \in Nat /\ prev.end \in Nat /\ prev.start <= prev.end
        /\ Start <= prev.start /\ prev.end <= a.start /\ prev.end <= End
    <2>1. prev.end <= a.start
      BY <1>1, <1>2 DEF Sorted
    <2> QED
      BY <1>1, <1>2, <2>1, ProperFacts DEF Sorted, Proper
  <1>7. i < Len(vs) =>
          /\ next \in AreaSet /\ next.start % Page = 0 /\ next.end % Page = 0
          /\ next.start \in Nat /\ next.end \in Nat /\ next.start <= next.end
          /\ a.end <= next.start /\ next.end <= End /\ Start <= next.start
    <2>1. i < Len(vs) => a.end <= next.start
      BY <1>1, <1>2 DEF Sorted
    <2> QED
      BY <1>1, <1>2, <2>1, ProperFacts DEF Sorted, Proper
  <1>8. joinPrev => /\ i - 1 \in 2 .. Len(vs) + 1 /\ i \in ((i - 1) - 1) .. Len(vs)
                    /\ i < Len(vs) => i + 1 \in ((i - 1) - 1) .. Len(vs)
                    /\ vs[(i - 1) - 1].end <= prev.start
    <2> SUFFICES ASSUME joinPrev
                 PROVE  /\ i - 1 \in 2 .. Len(vs) + 1 /\ i \in ((i - 1) - 1) .. Len(vs)
                        /\ i < Len(vs) => i + 1 \in ((i - 1) - 1) .. Len(vs)
                        /\ vs[(i - 1) - 1].end <= prev.start
      OBVIOUS
    <2>1. i # 2
      BY <1>1 DEF Dummy
    <2>2. (i - 1) - 1 \in 1 .. Len(vs) /\ (i - 1) - 1 < i - 1
      BY <1>1, <2>1
    <2>3. vs[(i - 1) - 1].end <= prev.start
      BY <1>1, <1>2, <2>2 DEF Sorted
    <2> QED
      BY <1>1, <2>2, <2>3
  <1>9. joinNext /\ i + 1 < Len(vs) => next.end <= vs[(i + 1) + 1].start
    <2> SUFFICES ASSUME i + 1 < Len(vs) PROVE next.end <= vs[(i + 1) + 1].start
      OBVIOUS
    <2>1. i + 1 \in 1 .. Len(vs) /\ (i + 1) + 1 \in 1 .. Len(vs) /\ i + 1 < (i + 1) + 1
      BY <1>1
    <2> QED
      BY <1>1, <2>1 DEF Sorted
  <1>10. CASE addr # a.start /\ to # a.end
    <2>1. new = [areas |-> Splice(vs, i, i, <<before, mid, after>>),
                 count |-> Len(<<before, mid, after>>) - (i - i + 1)]
      BY <1>10, Zenon DEF Reprotected
    <2> HIDE DEF new, before, mid, after
    <2>2. Len(<<before, mid, after>>) = 3
      OBVIOUS
    <2>3. /\ before.end <= mid.start /\ mid.end <= after.start
          /\ vs[i - 1].end <= before.start
          /\ i < Len(vs) => after.end <= vs[i + 1].start
      BY <1>4, <1>5, <1>6, <1>7
    <2>4. /\ Headed(Splice(vs, i, i, <<before, mid, after>>))
          /\ Len(Splice(vs, i, i, <<before, mid, after>>)) - Len(vs) = 3 - (i - i + 1)
      <3>1. Proper(before) /\ Proper(mid) /\ Proper(after)
        BY <1>5
      <3>2. i \in 2 .. Len(vs) + 1 /\ i \in (i - 1) .. Len(vs)
        BY <1>2
      <3> QED
        BY <2>3, <3>1, <3>2, SpliceThree
    <2> QED
      BY <2>1, <2>2, <2>4 DEF Sound, new
  <1>11. CASE addr # a.start /\ to = a.end /\ joinNext
    <2> DEFINE earlier == [next EXCEPT !.start = addr]
    <2>1. new = [areas |-> Splice(vs, i, i + 1, <<before, earlier>>),
                 count |-> Len(<<before, earlier>>) - ((i + 1) - i + 1)]
      BY <1>11, Zenon DEF Reprotected
    <2>2. Proper(earlier) /\ earlier.start = addr /\ earlier.end = next.end
      <3>1. i < Len(vs) /\ Start <= addr /\ addr <= next.end
        BY <1>3, <1>4, <1>7, <1>11
      <3> QED
        BY <1>a, <3>1, WithStart
    <2> HIDE DEF new, before, earlier
    <2>3. Len(<<before, earlier>>) = 2
      OBVIOUS
    <2>4. /\ before.end <= earlier.start
          /\ vs[i - 1].end <= before.start
          /\ i + 1 < Len(vs) => earlier.end <= vs[(i + 1) + 1].start
      BY <1>5, <1>6, <1>9, <1>11, <2>2
    <2>5. i + 1 \in (i - 1) .. Len(vs)
      BY <1>2, <1>11
    <2>6. /\ Headed(Splice(vs, i, i + 1, <<before, earlier>>))
          /\ Len(Splice(vs, i, i + 1, <<before, earlier>>)) - Len(vs) = 2 - ((i + 1) - i + 1)
      <3>1. Proper(before) /\ Proper(earlier)
        BY <1>5, <2>2
      <3>2. i \in 2 .. Len(vs) + 1
        BY <1>2
      <3> QED
        BY <2>4, <2>5, <3>1, <3>2, SpliceTwo
    <2> QED
      BY <2>1, <2>3, <2>6 DEF Sound, new
  <1>12. CASE addr # a.start /\ to = a.end /\ ~joinNext
    <2>1. new = [areas |-> Splice(vs, i, i, <<before, mid>>),
                 count |-> Len(<<before, mid>>) - (i - i + 1)]
      BY <1>12, Zenon DEF Reprotected
    <2> HIDE DEF new, before, mid
    <2>2. Len(<<before, mid>>) = 2
      OBVIOUS
    <2>3. /\ before.end <= mid.start
          /\ vs[i - 1].end <= before.start
          /\ i < Len(vs) => mid.end <= vs[i + 1].start
      BY <1>4, <1>5, <1>6, <1>7, <1>12
    <2>4. /\ Headed(Splice(vs, i, i, <<before, mid>>))
          /\ Len(Splice(vs, i, i, <<before, mid>>)) - Len(vs) = 2 - (i - i + 1)
      <3>1. Proper(before) /\ Proper(mid)
        BY <1>5
      <3>2. i \in 2 .. Len(vs) + 1 /\ i \in (i - 1) .. Len(vs)
        BY <1>2
      <3> QED
        BY SMTT(30), <2>3, <3>1, <3>2, SpliceTwo
    <2> QED
      BY <2>1, <2>2, <2>4 DEF Sound, new
  <1>13. CASE addr = a.start /\ to # a.end /\ joinPrev
    <2> DEFINE longer == [prev EXCEPT !.end = to]
    <2>1. new = [areas |-> Splice(vs, i - 1, i, <<longer, after>>),
                 count |-> Len(<<longer, after>>) - (i - (i - 1) + 1)]
      BY <1>13, Zenon DEF Reprotected
    <2>2. Proper(longer) /\ longer.start = prev.start /\ longer.end = to
      <3>1. prev.start <= to /\ to <= End
        <4>1. prev.start <= a.start
          BY <1>3, <1>6
        <4>2. to <= End
          BY <1>3, <1>4
        <4> QED
          BY <1>3, <1>4, <1>6, <4>1, <4>2
      <3> QED
        BY <1>4, <1>a, <3>1, WithEnd
    <2> HIDE DEF new, after, longer
    <2>3. Len(<<longer, after>>) = 2
      OBVIOUS
    <2>4. /\ longer.end <= after.start
          /\ vs[(i - 1) - 1].end <= longer.start
          /\ i < Len(vs) => after.end <= vs[i + 1].start
      BY <1>4, <1>5, <1>7, <1>8, <1>13, <2>2
    <2>5. /\ Headed(Splice(vs, i - 1, i, <<longer, after>>))
          /\ Len(Splice(vs, i - 1, i, <<longer, after>>)) - Len(vs) = 2 - (i - (i - 1) + 1)
      BY <1>5, <1>8, <1>13, <2>2, <2>4, SpliceTwo
    <2> QED
      BY <2>1, <2>3, <2>5 DEF Sound, new
  <1>14. CASE addr = a.start /\ to # a.end /\ ~joinPrev
    <2>1. new = [areas |-> Splice(vs, i, i, <<mid, after>>),
                 count |-> Len(<<mid, after>>) - (i - i + 1)]
      BY <1>14, Zenon DEF Reprotected
    <2> HIDE DEF new, after, mid
    <2>2. Len(<<mid, after>>) = 2
      OBVIOUS
    <2>3. /\ mid.end <= after.start
          /\ vs[i - 1].end <= mid.start
          /\ i < Len(vs) => after.end <= vs[i + 1].start
      BY <1>4, <1>5, <1>6, <1>7, <1>14
    <2>4. /\ Headed(Splice(vs, i, i, <<mid, after>>))
          /\ Len(Splice(vs, i, i, <<mid, after>>)) - Len(vs) = 2 - (i - i + 1)
      <3>1. Proper(mid) /\ Proper(after)
        BY <1>5
      <3>2. i \in 2 .. Len(vs) + 1 /\ i \in (i - 1) .. Len(vs)
        BY <1>2
      <3> QED
        BY <2>3, <3>1, <3>2, SpliceTwo
    <2> QED
      BY <2>1, <2>2, <2>4 DEF Sound, new
  <1>15. CASE addr = a.start /\ to = a.end /\ joinPrev /\ joinNext
    <2> DEFINE joined == [prev EXCEPT !.end = next.end]
    <2>1. new = [areas |-> Splice(vs, i - 1, i + 1, <<joined>>),
                 count |-> Len(<<joined>>) - ((i + 1) - (i - 1) + 1)]
      BY <1>15, Zenon DEF Reprotected
    <2>2. Proper(joined) /\ joined.start = prev.start /\ joined.end = next.end
      <3>1. prev.start <= next.end /\ next.end <= End /\ next.end \in Nat /\ next.end % Page = 0
        BY SMTT(30), <1>3, <1>6, <1>7, <1>15
      <3> QED
        BY <1>a, <3>1, WithEnd
    <2> HIDE DEF new, joined
    <2>3. Len(<<joined>>) = 1
      OBVIOUS
    <2>4. /\ vs[(i - 1) - 1].end <= joined.start
          /\ i + 1 < Len(vs) => joined.end <= vs[(i + 1) + 1].start
          /\ i - 1 \in 2 .. Len(vs) + 1 /\ i + 1 \in ((i - 1) - 1) .. Len(vs)
      BY <1>8, <1>9, <1>15, <2>2
    <2>5. /\ Headed(Splice(vs, i - 1, i + 1, <<joined>>))
          /\ Len(Splice(vs, i - 1, i + 1, <<joined>>)) - Len(vs) = 1 - ((i + 1) - (i - 1) + 1)
      BY <2>2, <2>4, SpliceOne
    <2> QED
      BY <2>1, <2>3, <2>5 DEF Sound, new
  <1>16. CASE addr = a.start /\ to = a.end /\ ~joinPrev /\ joinNext
    <2> DEFINE joined == [mid EXCEPT !.end = next.end]
    <2>1. new = [areas |-> Splice(vs, i, i + 1, <<joined>>),
                 count |-> Len(<<joined>>) - ((i + 1) - i + 1)]
      BY <1>16, Zenon DEF Reprotected
    <2>2. Proper(joined) /\ joined.start = addr /\ joined.end = next.end
      <3>1. /\ mid.start <= next.end /\ next.end <= End
            /\ next.end \in Nat /\ next.end % Page = 0
        BY <1>3, <1>4, <1>5, <1>7, <1>16
      <3>2. Proper(mid) /\ mid.start = addr
        BY <1>5
      <3> HIDE DEF mid
      <3> QED
        BY <3>1, <3>2, WithEnd
    <2> HIDE DEF new, joined
    <2>3. Len(<<joined>>) = 1
      OBVIOUS
    <2>4. /\ vs[i - 1].end <= joined.start
          /\ i + 1 < Len(vs) => joined.end <= vs[(i + 1) + 1].start
          /\ i + 1 \in (i - 1) .. Len(vs)
      BY <1>2, <1>6, <1>9, <1>16, <2>2
    <2>5. /\ Headed(Splice(vs, i, i + 1, <<joined>>))
          /\ Len(Splice(vs, i, i + 1, <<joined>>)) - Len(vs) = 1 - ((i + 1) - i + 1)
      BY <1>2, <2>2, <2>4, SpliceOne
    <2> QED
      BY <2>1, <2>3, <2>5 DEF Sound, new
  <1>17. CASE addr = a.start /\ to = a.end /\ joinPrev /\ ~joinNext
    <2> DEFINE longer == [prev EXCEPT !.end = a.end]
    <2>1. new = [areas |-> Splice(vs, i - 1, i, <<longer>>),
                 count |-> Len(<<longer>>) - (i - (i - 1) + 1)]
      BY <1>17, Zenon DEF Reprotected
    <2>2. Proper(longer) /\ longer.start = prev.start /\ longer.end = a.end
      <3>1. prev.start <= a.end /\ a.end <= End /\ a.end \in Nat /\ a.end % Page = 0
        BY <1>3, <1>6, <1>17
      <3> QED
        BY <1>a, <3>1, WithEnd
    <2> HIDE DEF new, longer
    <2>3. Len(<<longer>>) = 1
      OBVIOUS
    <2>4. /\ vs[(i - 1) - 1].end <= longer.start
          /\ i < Len(vs) => longer.end <= vs[i + 1].start
      BY <1>7, <1>8, <1>17, <2>2
    <2>5. /\ Headed(Splice(vs, i - 1, i, <<longer>>))
          /\ Len(Splice(vs, i - 1, i, <<longer>>)) - Len(vs) = 1 - (i - (i - 1) + 1)
      BY <1>8, <1>17, <2>2, <2>4, SpliceOne
    <2> QED
      BY <2>1, <2>3, <2>5 DEF Sound, new
  <1>18. CASE addr = a.start /\ to = a.end /\ ~joinPrev /\ ~joinNext
    <2>1. new = [areas |-> Splice(vs, i, i, <<mid>>),
                 count |-> Len(<<mid>>) - (i - i + 1)]
      BY <1>18, Zenon DEF Reprotected
    <2> HIDE DEF new, mid
    <2>2. Len(<<mid>>) = 1
      OBVIOUS
    <2>3. vs[i - 1].end <= mid.start /\ (i < Len(vs) => mid.end <= vs[i + 1].start)
      BY <1>5, <1>6, <1>7, <1>18
    <2>4. /\ Headed(Splice(vs, i, i, <<mid>>))
          /\ Len(Splice(vs, i, i, <<mid>>)) - Len(vs) = 1 - (i - i + 1)
      BY ZenonT(40), <1>2, <1>5, <2>3, SpliceOne
    <2> QED
      BY <2>1, <2>2, <2>4 DEF Sound, new
  <1> QED
    BY <1>10, <1>11, <1>12, <1>13, <1>14, <1>15, <1>16, <1>17, <1>18

(* A child's list is its parent's.                                         *)
LEMMA CopyIsSame ==
  ASSUME NEW vs, Headed(vs)
  PROVE  <<Dummy>> \o Tail(vs) = vs
  <1>1. vs \in Seq(AreaSet) /\ Len(vs) \in Nat /\ Len(vs) > 0 /\ vs[1] = Dummy
    BY DEF Headed, Sorted
  <1>2. /\ Tail(vs) \in Seq(AreaSet) /\ Len(Tail(vs)) = Len(vs) - 1
        /\ \A k \in 1 .. Len(vs) - 1 : Tail(vs)[k] = vs[k + 1]
    BY <1>1
  <1> DEFINE t == Tail(vs)
             r == <<Dummy>> \o t
  <1>3. Dummy \in AreaSet
    BY DummyProper DEF Proper
  <1> HIDE DEF t
  <1>4. /\ r \in Seq(AreaSet) /\ Len(r) = 1 + Len(t) /\ r[1] = Dummy
        /\ \A k \in 2 .. 1 + Len(t) : r[k] = t[k - 1]
    BY <1>2, <1>3 DEF t
  <1> HIDE DEF r
  <1>5. Len(r) = Len(vs)
    BY <1>1, <1>2, <1>4 DEF t
  <1>6. \A k \in 1 .. Len(vs) : r[k] = vs[k]
    <2> TAKE k \in 1 .. Len(vs)
    <2>1. CASE k = 1
      BY <1>1, <1>4, <2>1
    <2>2. CASE k # 1
      <3>1. k \in 2 .. 1 + Len(t) /\ k - 1 \in 1 .. Len(vs) - 1 /\ (k - 1) + 1 = k
        BY <1>1, <1>2, <2>2 DEF t
      <3> QED
        BY <1>2, <1>4, <3>1 DEF t
    <2> QED
      BY <2>1, <2>2
  <1>7. r = vs
    BY <1>1, <1>4, <1>5, <1>6
  <1> QED
    BY <1>7 DEF r, t

-----------------------------------------------------------------------------
(* The inductive invariant: every list is in order, num is right if there  *)
(* is one process, and a munmap that runs has whole pages behind the dummy *)
(* area before it.                                                         *)

ListInv ==
  /\ vmas \in [Procs -> Seq(AreaSet)]
  /\ \A p \in Procs : vmas[p] = << >> \/ Headed(vmas[p])

CountInv == num \in Int /\ \A p \in Procs : Procs = {p} => num = Len(vmas[p])

CallInv ==
  \/ call = NoCall
  \/ /\ call \in [proc : alive, node : Nat \ {0}, addr : Nat, length : 1 .. IntMax]
     /\ call.node \in 1 .. Len(vmas[call.proc])
     /\ call.addr % Page = 0 /\ call.addr >= Start + Page
     /\ call.length + Page - 1 <= IntMax

IInv == alive \subseteq Procs /\ ret \in Int /\ ListInv /\ CountInv /\ CallInv

(* The list of a process that has not called mmap                          *)
LEMMA EmptyList == << >> \in Seq(AreaSet) /\ Len(<< >>) = 0
  OBVIOUS

(* A list with a head is a sequence that is not empty.                     *)
LEMMA HeadedIsList ==
  ASSUME NEW vs, Headed(vs)
  PROVE  vs \in Seq(AreaSet) /\ Len(vs) \in Nat /\ vs # << >> /\ DOMAIN vs = 1 .. Len(vs)
  BY DEF Headed, Sorted

(* One list changes, and num by as much.                                   *)
LEMMA OneList ==
  ASSUME ListInv, CountInv, NEW p \in Procs, NEW new, Headed(new),
         vmas' = [vmas EXCEPT ![p] = new],
         num' = num + (Len(new) - Len(vmas[p]))
  PROVE  ListInv' /\ CountInv'
  <1>1. new \in Seq(AreaSet) /\ Len(new) \in Nat
    BY HeadedIsList
  <1>2. vmas' \in [Procs -> Seq(AreaSet)] /\ \A q \in Procs : vmas'[q] = IF q = p THEN new ELSE vmas[q]
    BY <1>1 DEF ListInv
  <1>3. ListInv'
    BY <1>2 DEF ListInv
  <1>4. Len(vmas[p]) \in Nat
    BY DEF ListInv
  <1>5. num' \in Int
    BY <1>1, <1>4 DEF CountInv
  <1>6. \A q \in Procs : Procs = {q} => num' = Len(vmas'[q])
    <2> SUFFICES ASSUME Procs = {p} PROVE num' = Len(vmas'[p])
      OBVIOUS
    <2> QED
      BY <1>1, <1>2, <1>4 DEF CountInv
  <1> QED
    BY <1>3, <1>5, <1>6 DEF CountInv

(* The list that mmap works on, with the dummy area in place               *)
LEMMA ListedFacts ==
  ASSUME IInv, NEW p \in Procs
  PROVE  /\ Headed(Listed(p)) /\ DOMAIN Listed(p) = 1 .. Len(Listed(p))
         /\ Counted(p) \in Int
         /\ Len(vmas[p]) \in Nat
         /\ vmas[p] # << >> => Listed(p) = vmas[p] /\ Headed(vmas[p])
         /\ vmas[p] = << >> => Listed(p) = <<Dummy>> /\ Len(Listed(p)) = 1
  <1>1. Headed(Listed(p))
    BY DummyProper DEF IInv, ListInv, Listed
  <1>2. Counted(p) \in Int
    BY DEF IInv, CountInv, Counted
  <1>3. Len(vmas[p]) \in Nat
    BY DEF IInv, ListInv
  <1>4. vmas[p] # << >> => Listed(p) = vmas[p] /\ Headed(vmas[p])
    BY DEF IInv, ListInv, Listed
  <1>5. vmas[p] = << >> => Listed(p) = <<Dummy>> /\ Len(<<Dummy>>) = 1
    BY DEF Listed
  <1>6. DOMAIN Listed(p) = 1 .. Len(Listed(p))
    BY <1>1, HeadedIsList
  <1> QED
    BY <1>1, <1>2, <1>3, <1>4, <1>5, <1>6

(* mmap: Listed(p) is the list that a new one takes the place of, Counted  *)
(* the count.                                                              *)
LEMMA NewListed ==
  ASSUME IInv, NEW p \in Procs, Idle(p), NEW new, Headed(new),
         vmas' = [vmas EXCEPT ![p] = new],
         num' = Counted(p) + (Len(new) - Len(Listed(p)))
  PROVE  ListInv' /\ CountInv'
  <1>1. new \in Seq(AreaSet) /\ Len(new) \in Nat
    BY HeadedIsList
  <1>2. /\ vmas' \in [Procs -> Seq(AreaSet)]
        /\ \A q \in Procs : vmas'[q] = IF q = p THEN new ELSE vmas[q]
    BY <1>1 DEF IInv, ListInv
  <1>3. ListInv'
    BY <1>2 DEF IInv, ListInv
  <1>4. Counted(p) \in Int /\ Len(Listed(p)) \in Nat
    BY ListedFacts, HeadedIsList
  <1>5. num' \in Int
    BY <1>1, <1>4
  <1>6. \A q \in Procs : Procs = {q} => num' = Len(vmas'[q])
    <2> SUFFICES ASSUME Procs = {p} PROVE num' = Len(vmas'[p])
      OBVIOUS
    <2>1. Counted(p) = Len(Listed(p))
      BY ListedFacts DEF IInv, CountInv, Counted
    <2> QED
      BY <1>1, <1>2, <1>4, <2>1
  <1> QED
    BY <1>3, <1>5, <1>6 DEF CountInv

(* Memory put into a gap that has room for it (vm_area_map)                *)
LEMMA MapPlaceKeeps ==
  ASSUME IInv, NEW p \in Procs, Idle(p), NEW i \in 1 .. Len(Listed(p)),
         NEW addr \in Nat, NEW length \in Int, NEW q \in {1, 3},
         0 <= length, length + Page - 1 <= IntMax, addr % Page = 0,
         Listed(p)[i].end <= addr,
         addr + Aligned(length) <= Limit(Listed(p), i),
         MapPlace(p, i, addr, length, q)
  PROVE  IInv'
  <1> DEFINE new == Placed(Listed(p), i, addr, Aligned(length), q)
  <1>1. Aligned(length) \in Nat /\ Aligned(length) % Page = 0
    BY Rounding
  <1>2. Headed(Listed(p))
    BY ListedFacts
  <1>3. Sound(new, Listed(p))
    BY <1>1, <1>2, PlacedSound
  <1>4. /\ vmas' = [vmas EXCEPT ![p] = new.areas]
        /\ num' = Counted(p) + new.count
        /\ ret' = addr /\ alive' = alive /\ call' = call
    BY DEF MapPlace
  <1> HIDE DEF new
  <1>5. Headed(new.areas) /\ num' = Counted(p) + (Len(new.areas) - Len(Listed(p)))
    BY <1>3, <1>4 DEF Sound
  <1>6. ListInv' /\ CountInv'
    BY <1>4, <1>5, NewListed
  <1> QED
    BY <1>4, <1>6 DEF IInv, CallInv, Idle

(* Every way an mmap can go                                                *)
LEMMA MapKeeps ==
  ASSUME IInv, NEW p \in Procs,
         NEW addr \in Addrs, NEW length \in Lengths, NEW q \in ProtArgs, NEW flag \in FlagArgs,
         Plain(addr, length), vm_area_map(p, addr, length, q, flag)
  PROVE  IInv'
  <1>1. addr \in Nat /\ length \in Int /\ addr % Page = 0 /\ length + Page - 1 <= IntMax
    BY LayoutAssumption DEF Plain
  <1>2. ValidMap(length, q, flag) => 0 <= length /\ q \in {1, 3}
    BY <1>1 DEF ValidMap
  <1>3. /\ Headed(Listed(p)) /\ DOMAIN Listed(p) = 1 .. Len(Listed(p))
        /\ \A i \in 1 .. Len(Listed(p)) :
             /\ Listed(p)[i].start \in Nat /\ Listed(p)[i].end \in Nat
             /\ Listed(p)[i].end % Page = 0
    <2>1. Headed(Listed(p)) /\ DOMAIN Listed(p) = 1 .. Len(Listed(p))
      BY ListedFacts
    <2>2. \A i \in 1 .. Len(Listed(p)) : Proper(Listed(p)[i])
      BY <2>1 DEF Headed, Sorted
    <2> QED
      BY <2>1, <2>2, ProperFacts DEF Proper
  <1>4. CASE MapInvalid(p, addr, length, q, flag)
    BY <1>4 DEF MapInvalid, IInv, ListInv, CountInv, CallInv, EINVAL
  <1>5. CASE MapAtHint(p, addr, length, q, flag)
    <2> DEFINE hits == Hits(Listed(p), addr)
               i == Lowest(hits)
    <2>1. /\ Idle(p) /\ ValidMap(length, q, flag)
          /\ Fits(Listed(p), addr, Aligned(length))
          /\ MapPlace(p, i, addr, length, q)
      BY <1>5 DEF MapAtHint
    <2>2. hits # {} /\ hits \in SUBSET Nat
      BY <1>3, <2>1 DEF Fits, Hits
    <2>3. i \in hits
      BY <2>2, LowestIn
    <2>4. ~Contains(Listed(p)[i], addr) /\ addr + Aligned(length) <= Limit(Listed(p), i)
      BY <2>1 DEF Fits
    <2> HIDE DEF i
    <2>5. i \in 1 .. Len(Listed(p)) /\ Listed(p)[i].end <= addr
      BY <1>3, <2>3, <2>4 DEF Hits
    <2> QED
      BY <1>1, <1>2, <2>1, <2>4, <2>5, MapPlaceKeeps
  <1>6. CASE MapFirstFit(p, addr, length, q, flag)
    <2> DEFINE gaps == Gaps(Listed(p), Aligned(length))
               i == Lowest(gaps)
    <2>1. /\ Idle(p) /\ ValidMap(length, q, flag) /\ gaps # {}
          /\ MapPlace(p, i, Listed(p)[i].end, length, q)
      BY <1>6 DEF MapFirstFit, Anywhere
    <2>2. gaps \in SUBSET Nat
      BY <1>3 DEF Gaps
    <2>3. i \in gaps
      BY <2>1, <2>2, LowestIn
    <2> HIDE DEF i
    <2>4. /\ i \in 1 .. Len(Listed(p))
          /\ Listed(p)[i].end + Aligned(length) <= Limit(Listed(p), i)
      BY <1>3, <2>3 DEF Gaps
    <2>5. /\ Listed(p)[i].end \in Nat /\ Listed(p)[i].end % Page = 0
          /\ Listed(p)[i].end <= Listed(p)[i].end
      BY <1>3, <2>4
    <2> QED
      BY <1>1, <1>2, <2>1, <2>4, <2>5, MapPlaceKeeps
  <1>7. CASE MapRefused(p, addr, length, q, flag)
    <2>1. /\ Idle(p) /\ vmas' = [vmas EXCEPT ![p] = Listed(p)] /\ num' = Counted(p)
          /\ ret' = -EINVAL /\ alive' = alive /\ call' = call
      BY <1>7 DEF MapRefused
    <2>2. num' = Counted(p) + (Len(Listed(p)) - Len(Listed(p)))
      BY <2>1, ListedFacts, HeadedIsList
    <2>3. ListInv' /\ CountInv'
      BY <1>3, <2>1, <2>2, NewListed
    <2> QED
      BY <2>1, <2>3 DEF IInv, CallInv, Idle, EINVAL
  <1> QED
    BY <1>4, <1>5, <1>6, <1>7 DEF vm_area_map

(* munmap                                                                  *)
LEMMA UnmapBegins ==
  ASSUME IInv, NEW p \in Procs, NEW addr \in Addrs, NEW length \in Lengths,
         Usable(addr), Plain(addr, length), vm_area_unmap(p, addr, length)
  PROVE  IInv'
  <1>1. addr \in Nat /\ length \in Int /\ Page \in Nat \ {0} /\ IntMax \in Nat
    BY LayoutAssumption
  <1>2. /\ p \in alive /\ call = NoCall
        /\ alive' = alive /\ vmas' = vmas /\ num' = num /\ ret' \in Int
    BY DEF vm_area_unmap, Idle, EINVAL
  <1>3. ListInv' /\ CountInv'
    BY <1>2 DEF IInv, ListInv, CountInv
  <1>4. CASE length > 0 /\ vmas[p] # << >>
    <2>1. call' = [proc |-> p, node |-> 1, addr |-> addr, length |-> length]
      BY <1>4 DEF vm_area_unmap
    <2>2. length \in 1 .. IntMax
      BY <1>1, <1>4 DEF Plain
    <2>3. 1 \in 1 .. Len(vmas[p])
      BY <1>4, ListedFacts DEF Headed
    <2>4. CallInv'
      BY <1>1, <1>2, <2>1, <2>2, <2>3 DEF CallInv, Plain, Usable
    <2> QED
      BY <1>2, <1>3, <2>4 DEF IInv
  <1>5. CASE ~(length > 0 /\ vmas[p] # << >>)
    <2>1. call' = call
      BY <1>5 DEF vm_area_unmap
    <2> QED
      BY <1>2, <1>3, <2>1 DEF IInv, CallInv
  <1> QED
    BY <1>4, <1>5

(* What holds of a munmap that runs                                        *)
LEMMA Running ==
  ASSUME IInv, call # NoCall
  PROVE  /\ call.proc \in Procs /\ call.proc \in alive
         /\ Headed(List) /\ List \in Seq(AreaSet) /\ Len(List) \in Nat
         /\ call.node \in 1 .. Len(List) /\ call.node \in Nat
         /\ call.addr \in Nat /\ call.addr % Page = 0 /\ call.addr >= Start + Page
         /\ call.length \in 1 .. IntMax /\ call.length + Page - 1 <= IntMax
         /\ Proper(Area) /\ Area.start \in Nat /\ Area.end \in Nat
         /\ Start \in Nat /\ Page \in Nat \ {0} /\ IntMax \in Nat
         /\ Area.end > call.addr => call.node \in 2 .. Len(List)
  <1>1. /\ call \in [proc : alive, node : Nat \ {0}, addr : Nat, length : 1 .. IntMax]
        /\ call.node \in 1 .. Len(List)
        /\ call.addr % Page = 0 /\ call.addr >= Start + Page
        /\ call.length + Page - 1 <= IntMax
    BY DEF IInv, CallInv, List
  <1>2. call.proc \in Procs /\ call.proc \in alive
    BY <1>1 DEF IInv
  <1>3. Len(<< >>) = 0
    OBVIOUS
  <1>4. Headed(List)
    BY <1>1, <1>2, <1>3 DEF IInv, ListInv, List
  <1>5. List \in Seq(AreaSet) /\ Len(List) \in Nat
    BY <1>4, HeadedIsList
  <1>6. Proper(Area)
    BY <1>1, <1>4 DEF Headed, Sorted, Area
  <1>7. Area.start \in Nat /\ Area.end \in Nat
    BY <1>6, ProperFacts
  <1>8. Start \in Nat /\ Page \in Nat \ {0} /\ IntMax \in Nat
    BY LayoutAssumption
  <1>9. ASSUME Area.end > call.addr PROVE call.node # 1
    <2> SUFFICES ASSUME call.node = 1 PROVE FALSE
      OBVIOUS
    <2>1. Area.end = Start + Page
      BY <1>4 DEF Headed, Area, Dummy
    <2> QED
      BY <1>1, <1>8, <1>9, <2>1
  <1> QED
    BY <1>1, <1>2, <1>4, <1>5, <1>6, <1>7, <1>8, <1>9

(* Going on at an area further up                                          *)
LEMMA RestKeeps ==
  ASSUME IInv, call # NoCall, alive' = alive, ListInv', CountInv',
         NEW node \in Nat \ {0}, node \in 1 .. Len(vmas'[call.proc]),
         NEW addr \in Nat, addr % Page = 0, addr >= call.addr,
         UnmapRest(node, addr)
  PROVE  IInv'
  <1> DEFINE length == call.addr + call.length - addr
  <1>1. /\ call \in [proc : alive, node : Nat \ {0}, addr : Nat, length : 1 .. IntMax]
        /\ call.addr >= Start + Page /\ call.length + Page - 1 <= IntMax
    BY DEF IInv, CallInv
  <1>2. Start \in Nat /\ Page \in Nat \ {0} /\ IntMax \in Nat
    BY LayoutAssumption
  <1>3. CASE length > 0
    <2>1. call' = [call EXCEPT !.node = node, !.addr = addr, !.length = length] /\ ret' = ret
      BY <1>3 DEF UnmapRest
    <2>2. length \in 1 .. IntMax /\ length + Page - 1 <= IntMax /\ addr >= Start + Page
      BY <1>1, <1>2, <1>3
    <2> HIDE DEF length
    <2>3. /\ call'.proc = call.proc /\ call'.node = node /\ call'.addr = addr
          /\ call'.length = length
          /\ call' \in [proc : alive, node : Nat \ {0}, addr : Nat, length : 1 .. IntMax]
      BY <1>1, <2>1, <2>2
    <2>4. CallInv'
      BY <2>2, <2>3 DEF CallInv
    <2> QED
      BY <2>1, <2>4 DEF IInv
  <1>4. CASE ~(length > 0)
    <2>1. call' = NoCall /\ ret' = -EINVAL
      BY <1>4 DEF UnmapRest, UnmapReturn
    <2> QED
      BY <2>1 DEF IInv, CallInv, EINVAL
  <1> QED
    BY <1>3, <1>4

(* Every turn of the loop of vm_area_unmap                                 *)
LEMMA UnmapKeeps ==
  ASSUME IInv, UnmapStep
  PROVE  IInv'
  <1>1. CASE UnmapInside
    <2> DEFINE new == Cut(List, call.node, call.addr, Aligned(call.length))
    <2>1. /\ call # NoCall /\ Area.start <= call.addr
          /\ call.addr + call.length <= Area.end
          /\ vmas' = [vmas EXCEPT ![call.proc] = new.areas] /\ num' = num + new.count
          /\ ret' = 0 /\ call' = NoCall /\ alive' = alive
      BY <1>1 DEF UnmapInside, Inside, SetList, UnmapReturn
    <2>2. Aligned(call.length) \in Nat /\ Aligned(call.length) % Page = 0
      BY <2>1, Running, Rounding
    <2>3. call.addr + Aligned(call.length) <= Area.end
      <3>1. /\ call.addr \in Int /\ Area.end \in Int /\ call.length \in Int
            /\ 0 <= call.length /\ call.length + Page - 1 <= IntMax
            /\ call.addr % Page = 0 /\ Area.end % Page = 0
        BY <2>1, Running DEF Proper
      <3> QED
        BY <2>1, <3>1, RoundedFits
    <2>4. call.node \in 2 .. Len(List) /\ Headed(List) /\ call.addr \in Nat /\ call.addr % Page = 0
      <3>1. Area.end > call.addr
        BY <2>1, Running
      <3> QED
        BY <2>1, <3>1, Running
    <2>5. Sound(new, List)
      BY <2>1, <2>2, <2>3, <2>4, CutSound DEF Area
    <2> HIDE DEF new
    <2>6. Headed(new.areas) /\ num' = num + (Len(new.areas) - Len(vmas[call.proc]))
      BY <2>1, <2>5 DEF Sound, List
    <2>7. ListInv' /\ CountInv'
      BY <2>1, <2>6, Running, OneList DEF IInv
    <2> QED
      BY <2>1, <2>7 DEF IInv, CallInv
  <1>2. CASE UnmapSpill
    <2> DEFINE before == [Area EXCEPT !.end = call.addr]
               new == [List EXCEPT ![call.node] = before]
    <2>1. /\ call # NoCall /\ Area.start <= call.addr /\ call.addr < Area.end
          /\ vmas' = [vmas EXCEPT ![call.proc] = [List EXCEPT ![call.node].end = call.addr]]
          /\ num' = num + 0 /\ alive' = alive
          /\ IF Last \/ call.addr + call.length < List[call.node + 1].start
             THEN UnmapReturn(0)
             ELSE UnmapRest(call.node + 1, List[call.node + 1].start)
      BY <1>2 DEF UnmapSpill, Contains, SetList
    <2>2. call.node \in 2 .. Len(List) /\ Headed(List)
      BY <2>1, Running
    <2>3. Proper(before) /\ before.start = Area.start /\ before.end = call.addr
      <3>1. /\ Area \in AreaSet /\ Area.start % Page = 0 /\ Area.start <= call.addr
            /\ Start <= Area.start /\ Area.end <= End
        BY <2>1, Running, ProperFacts DEF Proper
      <3>2. call.addr \in Edges
        BY SMTT(30), <2>1, <3>1, Running, LayoutAssumption DEF Edges
      <3> QED
        BY <2>1, <3>1, <3>2, Running DEF Proper, AreaSet
    <2>4. /\ List[call.node - 1].end <= Area.start
          /\ call.node < Len(List) =>
               /\ call.node + 1 \in 1 .. Len(List)
               /\ Area.end <= List[call.node + 1].start
               /\ Proper(List[call.node + 1])
      <3>1. /\ call.node - 1 \in 1 .. Len(List) /\ call.node - 1 < call.node
            /\ call.node \in 1 .. Len(List)
            /\ call.node < Len(List) => call.node + 1 \in 1 .. Len(List) /\ call.node < call.node + 1
        <4>1. call.node \in 2 .. Len(List) /\ Len(List) \in Nat
          BY <2>1, <2>2, Running
        <4> QED
          BY <4>1
      <3> QED
        BY <2>2, <3>1 DEF Headed, Sorted, Area
    <2>5. call.node < Len(List) => /\ List[call.node + 1].start \in Nat
                                   /\ call.addr <= List[call.node + 1].start
                                   /\ List[call.node + 1].start % Page = 0
      <3> SUFFICES ASSUME call.node < Len(List)
                   PROVE  /\ List[call.node + 1].start \in Nat
                          /\ call.addr <= List[call.node + 1].start
                          /\ List[call.node + 1].start % Page = 0
        OBVIOUS
      <3>1. List[call.node + 1].start \in Nat /\ List[call.node + 1].start % Page = 0
        BY <2>4, ProperFacts DEF Proper
      <3>2. call.addr \in Nat /\ Area.end \in Nat
        BY <2>1, Running
      <3>3. call.addr < Area.end /\ Area.end <= List[call.node + 1].start
        BY <2>1, <2>4
      <3> QED
        BY <3>1, <3>2, <3>3
    <2>6. vmas' = [vmas EXCEPT ![call.proc] = new]
      <3>1. List \in Seq(AreaSet) /\ call.node \in DOMAIN List
        BY <2>1, Running
      <3>2. [List EXCEPT ![call.node].end = call.addr] = new
        BY <3>1 DEF Area
      <3> QED
        BY <2>1, <3>2
    <2> HIDE DEF before
    <2>7. Headed(new) /\ Len(new) = Len(List)
      <3>1. /\ List[call.node - 1].end <= before.start
            /\ call.node < Len(List) => before.end <= List[call.node + 1].start
        BY <2>3, <2>4, <2>5
      <3> QED
        BY <2>2, <2>3, <3>1, ReplaceHeaded
    <2> HIDE DEF new
    <2>8. num' = num + (Len(new) - Len(vmas[call.proc]))
      BY <2>1, <2>7, Running DEF List
    <2>9. ListInv' /\ CountInv'
      BY <2>1, <2>6, <2>7, <2>8, Running, OneList DEF IInv
    <2>10. CASE Last \/ call.addr + call.length < List[call.node + 1].start
      <3>1. call' = NoCall /\ ret' = 0
        BY <2>1, <2>10 DEF UnmapReturn
      <3> QED
        BY <2>1, <2>9, <3>1 DEF IInv, CallInv
    <2>11. CASE ~(Last \/ call.addr + call.length < List[call.node + 1].start)
      <3>1. call.node < Len(List)
        BY <2>1, <2>11, Running DEF Last
      <3>2. vmas'[call.proc] = new
        BY <2>1, <2>6, Running DEF IInv, ListInv
      <3>3. call.node + 1 \in 1 .. Len(vmas'[call.proc]) /\ call.node + 1 \in Nat \ {0}
        BY SMTT(30), <2>1, <2>4, <2>7, <3>1, <3>2, Running
      <3>4. /\ List[call.node + 1].start \in Nat
            /\ List[call.node + 1].start >= call.addr
            /\ List[call.node + 1].start % Page = 0
        BY <2>1, <2>5, <3>1, Running
      <3>5. UnmapRest(call.node + 1, List[call.node + 1].start)
        BY <2>1, <2>11
      <3> QED
        BY <2>1, <2>9, <3>3, <3>4, <3>5, RestKeeps
    <2> QED
      BY <2>10, <2>11
  <1>3. CASE UnmapBefore
    <2>1. /\ call # NoCall /\ call.addr < Area.start /\ UnmapRest(call.node, Area.start)
          /\ alive' = alive /\ vmas' = vmas /\ num' = num
      BY <1>3 DEF UnmapBefore
    <2>2. ListInv' /\ CountInv'
      BY <2>1 DEF IInv, ListInv, CountInv
    <2>3. /\ call.node \in 1 .. Len(vmas'[call.proc]) /\ call.node \in Nat \ {0}
          /\ Area.start \in Nat /\ Area.start % Page = 0 /\ Area.start >= call.addr
      BY <2>1, Running DEF List, Proper
    <2> QED
      BY <2>1, <2>2, <2>3, RestKeeps
  <1>4. CASE UnmapPast
    BY <1>4 DEF UnmapPast, UnmapReturn, IInv, ListInv, CountInv, CallInv
  <1>5. CASE UnmapSkip
    <2>1. /\ call # NoCall /\ ~Last
          /\ call' = [call EXCEPT !.node = @ + 1]
          /\ alive' = alive /\ vmas' = vmas /\ num' = num /\ ret' = ret
      BY <1>5 DEF UnmapSkip, Elsewhere
    <2>2. call.node + 1 \in 1 .. Len(List) /\ call.node + 1 \in Nat \ {0}
      BY SMTT(30), <2>1, Running DEF Last
    <2>3. ListInv' /\ CountInv'
      BY <2>1 DEF IInv, ListInv, CountInv
    <2>4. /\ call \in [proc : alive, node : Nat \ {0}, addr : Nat, length : 1 .. IntMax]
          /\ call.addr % Page = 0 /\ call.addr >= Start + Page
          /\ call.length + Page - 1 <= IntMax
      BY <2>1 DEF IInv, CallInv
    <2>5. CallInv'
      BY <2>1, <2>2, <2>4 DEF CallInv, List
    <2> QED
      BY <2>1, <2>3, <2>5 DEF IInv
  <1> QED
    BY <1>1, <1>2, <1>3, <1>4, <1>5 DEF UnmapStep

(* mprotect                                                                *)
LEMMA ProtectKeeps ==
  ASSUME IInv, NEW p \in Procs,
         NEW addr \in Addrs, NEW length \in Lengths, NEW q \in ProtArgs,
         Usable(addr), Plain(addr, length), InOneArea(p, addr, length),
         vm_area_mprotect(p, addr, length, q)
  PROVE  IInv'
  <1>1. /\ addr \in Nat /\ length \in Int /\ addr % Page = 0 /\ length + Page - 1 <= IntMax
        /\ Start \in Nat /\ Page \in Nat \ {0} /\ addr >= Start + Page /\ length > 0
    BY LayoutAssumption DEF Plain, Usable, InOneArea
  <1>2. CASE ProtectRefused(p, addr, length, q)
    BY <1>2 DEF ProtectRefused, IInv, ListInv, CountInv, CallInv, EINVAL
  <1>3. CASE ProtectArea(p, addr, length, q)
    <2> DEFINE stops == Stops(vmas[p], addr)
               i == Lowest(stops)
               new == Reprotected(vmas[p], i, addr, Aligned(length), q)
    <2>1. /\ Idle(p) /\ q \in {1, 3} /\ Found(vmas[p], addr)
          /\ vmas' = [vmas EXCEPT ![p] = new.areas] /\ num' = num + new.count
          /\ ret' = 0 /\ alive' = alive /\ call' = call
      BY <1>3 DEF ProtectArea
    <2>2. stops # {} /\ Contains(vmas[p][i], addr) /\ addr + Aligned(length) <= vmas[p][i].end
      BY <2>1 DEF Found, InOneArea
    <2>3. Headed(vmas[p]) /\ DOMAIN vmas[p] = 1 .. Len(vmas[p]) /\ Len(vmas[p]) \in Nat
      <3>1. DOMAIN << >> = {}
        OBVIOUS
      <3>2. vmas[p] # << >>
        BY <2>2, <3>1 DEF Stops
      <3> QED
        BY <3>2, HeadedIsList DEF IInv, ListInv
    <2>4. stops \in SUBSET Nat
      BY <2>3 DEF Stops
    <2>5. i \in stops
      BY <2>2, <2>4, LowestIn
    <2> HIDE DEF i
    <2>6. i \in 1 .. Len(vmas[p]) /\ vmas[p][i].start <= addr /\ addr < vmas[p][i].end
      BY <2>2, <2>3, <2>5 DEF Stops, Contains
    <2>7. i # 1
      <3> SUFFICES ASSUME i = 1 PROVE FALSE
        OBVIOUS
      <3>1. vmas[p][i].end = Start + Page
        BY <2>3 DEF Headed, Dummy
      <3> QED
        BY <1>1, <2>6, <3>1
    <2>8. i \in 2 .. Len(vmas[p])
      BY <2>3, <2>6, <2>7
    <2>9. Aligned(length) \in Nat /\ Aligned(length) % Page = 0
      BY <1>1, Rounding
    <2>10. Sound(new, vmas[p])
      BY <1>1, <2>1, <2>2, <2>3, <2>6, <2>8, <2>9, ReprotectedSound
    <2> HIDE DEF new
    <2>11. Headed(new.areas) /\ num' = num + (Len(new.areas) - Len(vmas[p]))
      BY <2>1, <2>10 DEF Sound
    <2>12. ListInv' /\ CountInv'
      BY <2>1, <2>11, OneList DEF IInv
    <2> QED
      BY <2>1, <2>12 DEF IInv, CallInv, Idle
  <1> QED
    BY <1>2, <1>3 DEF vm_area_mprotect

(* cfork                                                                   *)
LEMMA ForkKeeps ==
  ASSUME IInv, NEW p \in Procs, NEW child \in Procs, do_cfork(p, child)
  PROVE  IInv'
  <1> DEFINE new == IF vmas[p] = << >> THEN << >> ELSE <<Dummy>> \o Tail(vmas[p])
  <1>1. /\ call = NoCall /\ p \in alive /\ child \notin alive
        /\ alive' = alive \cup {child} /\ vmas' = [vmas EXCEPT ![child] = new]
        /\ num' = num + Len(vmas[p]) /\ ret' = ret /\ call' = call
    BY DEF do_cfork, Idle
  <1>2. new = vmas[p]
    BY CopyIsSame DEF IInv, ListInv
  <1> HIDE DEF new
  <1>3. ListInv'
    BY <1>1, <1>2 DEF IInv, ListInv
  <1>4. Len(vmas[p]) \in Nat
    BY DEF IInv, ListInv
  <1>5. \A q \in Procs : Procs # {q}
    BY <1>1
  <1>6. CountInv'
    BY <1>1, <1>4, <1>5 DEF IInv, CountInv
  <1> QED
    BY <1>1, <1>3, <1>6 DEF IInv, CallInv

(* The end of a process                                                    *)
LEMMA ExitKeeps ==
  ASSUME IInv, NEW p \in Procs, do_exit(p)
  PROVE  IInv'
  <1>1. /\ call = NoCall /\ p \in alive /\ alive # {p}
        /\ alive' = alive \ {p} /\ vmas' = [vmas EXCEPT ![p] = << >>]
        /\ num' = num - Len(vmas[p]) /\ ret' = ret /\ call' = call
    BY DEF do_exit, Idle
  <1>2. ListInv'
    BY <1>1, EmptyList DEF IInv, ListInv
  <1>3. Len(vmas[p]) \in Nat
    BY DEF IInv, ListInv
  <1>4. \A q \in Procs : Procs # {q}
    BY <1>1 DEF IInv
  <1>5. CountInv'
    <2>1. num' \in Int
      BY <1>1, <1>3 DEF IInv, CountInv
    <2> QED
      BY <1>4, <2>1 DEF CountInv
  <1> QED
    BY <1>1, <1>2, <1>5 DEF IInv, CallInv

-----------------------------------------------------------------------------
(* Theorems                                                                *)

(* The invariant holds at first.                                          *)
LEMMA InitKeeps == Init => IInv
  <1> SUFFICES ASSUME Init PROVE IInv
    OBVIOUS
  <1>1. ListInv
    BY EmptyList DEF Init, ListInv
  <1>2. CountInv
    BY EmptyList DEF Init, CountInv
  <1> QED
    BY <1>1, <1>2 DEF Init, IInv, CallInv

(* Every orderly step keeps it.                                            *)
LEMMA NextKeeps == IInv /\ [OrderlyNext]_vars => IInv'
  <1> SUFFICES ASSUME IInv, [OrderlyNext]_vars PROVE IInv'
    OBVIOUS
  <1>1. CASE \E p \in Procs, addr \in Addrs, length \in Lengths, q \in ProtArgs, flag \in FlagArgs :
               Plain(addr, length) /\ vm_area_map(p, addr, length, q, flag)
    BY <1>1, MapKeeps
  <1>2. CASE \E p \in Procs, addr \in Addrs, length \in Lengths :
               Usable(addr) /\ Plain(addr, length) /\ vm_area_unmap(p, addr, length)
    BY <1>2, UnmapBegins
  <1>3. CASE \E p \in Procs, addr \in Addrs, length \in Lengths, q \in ProtArgs :
               /\ Usable(addr) /\ Plain(addr, length) /\ InOneArea(p, addr, length)
               /\ vm_area_mprotect(p, addr, length, q)
    BY <1>3, ProtectKeeps
  <1>4. CASE \E p, child \in Procs : do_cfork(p, child)
    BY <1>4, ForkKeeps
  <1>5. CASE \E p \in Procs : do_exit(p)
    BY <1>5, ExitKeeps
  <1>6. CASE UnmapStep
    BY <1>6, UnmapKeeps
  <1>7. CASE UNCHANGED vars
    BY <1>7 DEF vars, IInv, ListInv, CountInv, CallInv
  <1> QED
    BY <1>1, <1>2, <1>3, <1>4, <1>5, <1>6, <1>7 DEF OrderlyNext

(* Hence it holds always.                                                  *)
LEMMA InvariantHolds == OrderlySpec => []IInv
  BY InitKeeps, NextKeeps, PTL DEF OrderlySpec

(* Types are kept by all calls, by munmap at every turn of its loop.       *)
THEOREM TypesKept == OrderlySpec => []TypeOK
  <1>1. IInv => TypeOK
    <2> SUFFICES ASSUME IInv PROVE TypeOK
      OBVIOUS
    <2>1. vmas \in [Procs -> Seq([start : Edges, end : Edges, flags : {0, 1, 3}])]
      BY DEF IInv, ListInv, AreaSet
    <2>2. \/ call = NoCall
          \/ /\ call \in [proc : alive, node : Nat \ {0}, addr : Nat, length : 1 .. IntMax]
             /\ call.node \in DOMAIN vmas[call.proc]
      <3> SUFFICES ASSUME call # NoCall
                   PROVE  /\ call \in [proc : alive, node : Nat \ {0}, addr : Nat, length : 1 .. IntMax]
                          /\ call.node \in DOMAIN vmas[call.proc]
        OBVIOUS
      <3>1. call.node \in 1 .. Len(List) /\ DOMAIN List = 1 .. Len(List)
        BY Running, HeadedIsList
      <3> QED
        BY <3>1 DEF IInv, CallInv, List
    <2> QED
      BY <2>1, <2>2 DEF TypeOK, IInv, CountInv
  <1> QED
    BY <1>1, InvariantHolds, PTL

(* Whatever is mapped, unmapped, protected and copied, the areas of every  *)
(* process stay whole pages, in address order and disjoint, behind the     *)
(* dummy area: what the searches of v2p.c rely on.                         *)
THEOREM AreasStayOrdered == OrderlySpec => []AreasOrdered
  <1>1. IInv => AreasOrdered
    <2> SUFFICES ASSUME IInv, NEW p \in Procs, vmas[p] # << >>
                 PROVE  /\ vmas[p][1] = Dummy
                        /\ \A i \in DOMAIN vmas[p] :
                             /\ vmas[p][i].start % Page = 0 /\ vmas[p][i].end % Page = 0
                             /\ vmas[p][i].start <= vmas[p][i].end
                             /\ vmas[p][i].end <= Limit(vmas[p], i)
      BY DEF AreasOrdered
    <2>1. Headed(vmas[p]) /\ DOMAIN vmas[p] = 1 .. Len(vmas[p]) /\ Len(vmas[p]) \in Nat
      BY HeadedIsList DEF IInv, ListInv
    <2>2. ASSUME NEW i \in 1 .. Len(vmas[p])
          PROVE  /\ vmas[p][i].start % Page = 0 /\ vmas[p][i].end % Page = 0
                 /\ vmas[p][i].start <= vmas[p][i].end
                 /\ vmas[p][i].end <= Limit(vmas[p], i)
      <3>1. Proper(vmas[p][i])
        BY <2>1 DEF Headed, Sorted
      <3>2. i # Len(vmas[p]) => vmas[p][i].end <= vmas[p][i + 1].start
        <4> SUFFICES ASSUME i # Len(vmas[p]) PROVE vmas[p][i].end <= vmas[p][i + 1].start
          OBVIOUS
        <4>1. i + 1 \in 1 .. Len(vmas[p]) /\ i < i + 1
          BY <2>1
        <4> QED
          BY <2>1, <4>1 DEF Headed, Sorted
      <3>3. vmas[p][i].end <= End
        BY <3>1, ProperFacts
      <3> QED
        BY <3>1, <3>2, <3>3 DEF Proper, Limit
    <2> QED
      BY <2>1, <2>2 DEF Headed
  <1> QED
    BY <1>1, InvariantHolds, PTL

(* As many pairs as there are numbers                                      *)
LEMMA Numbered ==
  ASSUME NEW p, NEW n \in Nat
  PROVE  Cardinality({p} \X (1 .. n)) = n
  <1>1. IsFiniteSet({p}) /\ Cardinality({p}) = 1
    BY FS_Singleton
  <1> DEFINE T == 1 .. n
  <1>2. IsFiniteSet(T) /\ Cardinality(T) = n
    BY FS_Interval
  <1> HIDE DEF T
  <1>3. Cardinality({p} \X T) = Cardinality({p}) * Cardinality(T)
    BY <1>1, <1>2, FS_Product
  <1>4. Cardinality({p} \X T) = n
    BY <1>1, <1>2, <1>3
  <1> QED
    BY <1>4 DEF T

(* With one process num_vm_area counts its areas: no merge, split or cut   *)
(* is left out (another process's first mmap would set it back to 1).      *)
THEOREM CountsMatch ==
  ASSUME \E p \in Procs : Procs = {p}
  PROVE  OrderlySpec => []CountMatches
  <1>1. IInv => CountMatches
    <2> SUFFICES ASSUME IInv PROVE CountMatches
      OBVIOUS
    <2>1. PICK p \in Procs : Procs = {p}
      OBVIOUS
    <2>2. num = Len(vmas[p])
      BY <2>1 DEF IInv, CountInv
    <2>3. DOMAIN vmas[p] = 1 .. Len(vmas[p]) /\ Len(vmas[p]) \in Nat
      BY DEF IInv, ListInv
    <2>4. UNION {{q} \X DOMAIN vmas[q] : q \in Procs} = {p} \X (1 .. Len(vmas[p]))
      BY <2>1, <2>3
    <2>5. Cardinality({p} \X (1 .. Len(vmas[p]))) = Len(vmas[p])
      BY <2>3, Numbered
    <2> QED
      BY <2>2, <2>4, <2>5, Zenon DEF CountMatches
  <1> QED
    BY <1>1, InvariantHolds, PTL

-----------------------------------------------------------------------------
(* What a list holds at an address, wherever it stands in the list         *)

Flags == {0, 1, 3}

On(a, x, f) == Contains(a, x) /\ a.flags = f

Holds(vs, x, f) == \E k \in 1 .. Len(vs) : On(vs[k], x, f)

(* What it holds there in the areas that are not among i .. j              *)
Outside(vs, i, j, x, f) == \E k \in 1 .. Len(vs) : (k < i \/ k > j) /\ On(vs[k], x, f)

(* A spliced list holds what the new areas hold and what the old ones that *)
(* stay hold.                                                              *)
LEMMA SpliceHolds ==
  ASSUME NEW vs \in Seq(AreaSet), NEW new \in Seq(AreaSet),
         NEW i \in 1 .. Len(vs) + 1, NEW j \in (i - 1) .. Len(vs), NEW x, NEW f
  PROVE  Holds(Splice(vs, i, j, new), x, f) <=> Holds(new, x, f) \/ Outside(vs, i, j, x, f)
  <1> DEFINE r == Splice(vs, i, j, new)
  <1>1. /\ Len(r) = i - 1 + Len(new) + Len(vs) - j
        /\ \A k \in 1 .. i - 1 : r[k] = vs[k]
        /\ \A k \in 1 .. Len(new) : r[i - 1 + k] = new[k]
        /\ \A k \in 1 .. Len(vs) - j : r[i - 1 + Len(new) + k] = vs[j + k]
    BY SpliceFacts
  <1> HIDE DEF r
  <1>2. Len(vs) \in Nat /\ Len(new) \in Nat /\ i \in Int /\ j \in Int
    OBVIOUS
  <1>3. ASSUME Holds(r, x, f) PROVE Holds(new, x, f) \/ Outside(vs, i, j, x, f)
    <2>1. PICK k \in 1 .. Len(r) : On(r[k], x, f)
      BY <1>3 DEF Holds
    <2>2. CASE k \in 1 .. i - 1
      <3>1. k \in 1 .. Len(vs) /\ k < i
        BY <1>2, <2>2
      <3> QED
        BY <1>1, <2>1, <2>2, <3>1 DEF Outside
    <2>3. CASE k \in i .. i - 1 + Len(new)
      <3>1. k - i + 1 \in 1 .. Len(new) /\ i - 1 + (k - i + 1) = k
        BY <1>2, <2>3
      <3>2. r[k] = new[k - i + 1]
        BY <1>1, <3>1
      <3> QED
        BY <2>1, <3>1, <3>2 DEF Holds
    <2>4. CASE k \in i + Len(new) .. Len(r)
      <3> DEFINE m == k - i + 1 - Len(new)
      <3>1. m \in 1 .. Len(vs) - j /\ i - 1 + Len(new) + m = k /\ j + m \in 1 .. Len(vs) /\ j + m > j
        BY <1>1, <1>2, <2>4
      <3> HIDE DEF m
      <3>2. r[k] = vs[j + m]
        BY <1>1, <3>1
      <3> QED
        BY <2>1, <3>1, <3>2 DEF Outside
    <2> QED
      BY <1>1, <1>2, <2>2, <2>3, <2>4
  <1>4. ASSUME Holds(new, x, f) PROVE Holds(r, x, f)
    <2>1. PICK k \in 1 .. Len(new) : On(new[k], x, f)
      BY <1>4 DEF Holds
    <2>2. i - 1 + k \in 1 .. Len(r)
      BY <1>1, <1>2
    <2> QED
      BY <1>1, <2>1, <2>2 DEF Holds
  <1>5. ASSUME Outside(vs, i, j, x, f) PROVE Holds(r, x, f)
    <2>1. PICK k \in 1 .. Len(vs) : (k < i \/ k > j) /\ On(vs[k], x, f)
      BY <1>5 DEF Outside
    <2>2. CASE k < i
      <3>1. k \in 1 .. i - 1 /\ k \in 1 .. Len(r)
        BY <1>1, <1>2, <2>2
      <3> QED
        BY <1>1, <2>1, <3>1 DEF Holds
    <2>3. CASE k > j
      <3> DEFINE m == k - j
      <3>1. m \in 1 .. Len(vs) - j /\ j + m = k /\ i - 1 + Len(new) + m \in 1 .. Len(r)
        BY <1>1, <1>2, <2>3
      <3> HIDE DEF m
      <3>2. r[i - 1 + Len(new) + m] = vs[k]
        BY <1>1, <3>1
      <3> QED
        BY <2>1, <3>1, <3>2 DEF Holds
    <2> QED
      BY <2>1, <2>2, <2>3
  <1> QED
    BY <1>3, <1>4, <1>5 DEF r

(* So does a list one of whose areas is replaced.                          *)
LEMMA ReplaceHolds ==
  ASSUME NEW vs \in Seq(AreaSet), NEW i \in 1 .. Len(vs), NEW a \in AreaSet, NEW x, NEW f
  PROVE  Holds([vs EXCEPT ![i] = a], x, f) <=> On(a, x, f) \/ Outside(vs, i, i, x, f)
  <1> DEFINE r == [vs EXCEPT ![i] = a]
  <1>1. Len(r) = Len(vs) /\ Len(vs) \in Nat
    OBVIOUS
  <1>2. \A k \in 1 .. Len(vs) : r[k] = IF k = i THEN a ELSE vs[k]
    OBVIOUS
  <1> HIDE DEF r
  <1>3. \A k \in 1 .. Len(vs) : k # i <=> (k < i \/ k > i)
    BY <1>1
  <1>4. Holds(r, x, f) <=> \E k \in 1 .. Len(vs) : On(r[k], x, f)
    BY <1>1 DEF Holds
  <1>5. Outside(vs, i, i, x, f) <=> \E k \in 1 .. Len(vs) : k # i /\ On(vs[k], x, f)
    BY <1>3 DEF Outside
  <1> QED
    BY <1>2, <1>4, <1>5 DEF r

(* Lists of no, one, two and three areas                                   *)
LEMMA ShortHolds ==
  ASSUME NEW a, NEW b, NEW c, NEW x, NEW f
  PROVE  /\ ~Holds(<< >>, x, f)
         /\ Holds(<<a>>, x, f) <=> On(a, x, f)
         /\ Holds(<<a, b>>, x, f) <=> On(a, x, f) \/ On(b, x, f)
         /\ Holds(<<a, b, c>>, x, f) <=> On(a, x, f) \/ On(b, x, f) \/ On(c, x, f)
  <1>1. ~Holds(<< >>, x, f)
    BY DEF Holds
  <1>2. Holds(<<a>>, x, f) <=> On(a, x, f)
    BY DEF Holds
  <1>3. Holds(<<a, b>>, x, f) <=> On(a, x, f) \/ On(b, x, f)
    <2> DEFINE s == <<a, b>>
    <2>1. Len(s) = 2 /\ s[1] = a /\ s[2] = b
      OBVIOUS
    <2> HIDE DEF s
    <2>2. Holds(s, x, f) <=> On(a, x, f) \/ On(b, x, f)
      BY <2>1 DEF Holds
    <2> QED
      BY <2>2 DEF s
  <1>4. Holds(<<a, b, c>>, x, f) <=> On(a, x, f) \/ On(b, x, f) \/ On(c, x, f)
    <2> DEFINE s == <<a, b, c>>
    <2>1. Len(s) = 3 /\ s[1] = a /\ s[2] = b /\ s[3] = c
      OBVIOUS
    <2> HIDE DEF s
    <2>2. Holds(s, x, f) <=> On(a, x, f) \/ On(b, x, f) \/ On(c, x, f)
      <3>1. \A k \in 1 .. Len(s) : k = 1 \/ k = 2 \/ k = 3
        BY <2>1
      <3>2. 1 \in 1 .. Len(s) /\ 2 \in 1 .. Len(s) /\ 3 \in 1 .. Len(s)
        BY <2>1
      <3> QED
        BY <2>1, <3>1, <3>2 DEF Holds
    <2> QED
      BY <2>2 DEF s
  <1> QED
    BY <1>1, <1>2, <1>3, <1>4

(* A list holds what its areas i .. j hold and what the others hold; areas *)
(* in order do not overlap.                                                *)
LEMMA HoldsSplit ==
  ASSUME NEW vs, Sorted(vs), NEW i \in 1 .. Len(vs), NEW j \in i .. Len(vs), NEW x \in Int, NEW f
  PROVE  /\ Holds(vs, x, f) <=> (\E k \in i .. j : On(vs[k], x, f)) \/ Outside(vs, i, j, x, f)
         /\ \A k \in i .. j : Contains(vs[k], x) => ~Outside(vs, i, j, x, f)
  <1>1. Len(vs) \in Nat
    BY DEF Sorted
  <1>2. \A k \in 1 .. Len(vs) : k \in i .. j <=> ~(k < i \/ k > j)
    BY <1>1
  <1>3. \A k \in i .. j : k \in 1 .. Len(vs)
    BY <1>1
  <1>4. ASSUME NEW k \in i .. j, Contains(vs[k], x), Outside(vs, i, j, x, f) PROVE FALSE
    <2>1. PICK m \in 1 .. Len(vs) : (m < i \/ m > j) /\ On(vs[m], x, f)
      BY <1>4 DEF Outside
    <2>2. k \in 1 .. Len(vs) /\ (m < k \/ m > k)
      BY <1>1, <2>1
    <2>3. /\ vs[k].start \in Nat /\ vs[k].end \in Nat
          /\ vs[m].start \in Nat /\ vs[m].end \in Nat
      BY <2>2, ProperFacts DEF Sorted
    <2>4. vs[m].end <= vs[k].start \/ vs[k].end <= vs[m].start
      BY <2>2 DEF Sorted
    <2> QED
      BY <1>4, <2>1, <2>3, <2>4 DEF On, Contains
  <1> QED
    BY <1>2, <1>3, <1>4 DEF Holds, Outside

(* One area at hand, and two that follow each other                        *)
LEMMA HoldsOne ==
  ASSUME NEW vs, Sorted(vs), NEW i \in 1 .. Len(vs), NEW x \in Int, NEW f
  PROVE  /\ Holds(vs, x, f) <=> On(vs[i], x, f) \/ Outside(vs, i, i, x, f)
         /\ Contains(vs[i], x) => ~Outside(vs, i, i, x, f)
  <1>1. i \in i .. i /\ (\A k \in i .. i : k = i)
    OBVIOUS
  <1>2. /\ Holds(vs, x, f) <=> (\E k \in i .. i : On(vs[k], x, f)) \/ Outside(vs, i, i, x, f)
        /\ \A k \in i .. i : Contains(vs[k], x) => ~Outside(vs, i, i, x, f)
    <2>1. i \in i .. Len(vs)
      BY DEF Sorted
    <2> QED
      BY <2>1, HoldsSplit
  <1> QED
    BY <1>1, <1>2

(* The same for two neighbours                                             *)
LEMMA HoldsTwo ==
  ASSUME NEW vs, Sorted(vs), NEW i \in 1 .. Len(vs), i < Len(vs), NEW x \in Int, NEW f
  PROVE  /\ Holds(vs, x, f) <=>
              On(vs[i], x, f) \/ On(vs[i + 1], x, f) \/ Outside(vs, i, i + 1, x, f)
         /\ Contains(vs[i], x) => ~Outside(vs, i, i + 1, x, f)
         /\ Contains(vs[i + 1], x) => ~Outside(vs, i, i + 1, x, f)
  <1>1. /\ i \in i .. i + 1 /\ i + 1 \in i .. i + 1
        /\ \A k \in i .. i + 1 : k = i \/ k = i + 1
    OBVIOUS
  <1>2. /\ Holds(vs, x, f) <=> (\E k \in i .. i + 1 : On(vs[k], x, f)) \/ Outside(vs, i, i + 1, x, f)
        /\ \A k \in i .. i + 1 : Contains(vs[k], x) => ~Outside(vs, i, i + 1, x, f)
    <2>1. i + 1 \in i .. Len(vs)
      BY DEF Sorted
    <2> QED
      BY <2>1, HoldsSplit
  <1> QED
    BY <1>1, <1>2

(* The same for an area and both its neighbours                            *)
LEMMA HoldsThree ==
  ASSUME NEW vs, Sorted(vs), NEW i \in 2 .. Len(vs), i < Len(vs), NEW x \in Int, NEW f
  PROVE  /\ Holds(vs, x, f) <=> \/ On(vs[i - 1], x, f) \/ On(vs[i], x, f) \/ On(vs[i + 1], x, f)
                                \/ Outside(vs, i - 1, i + 1, x, f)
         /\ Contains(vs[i - 1], x) => ~Outside(vs, i - 1, i + 1, x, f)
         /\ Contains(vs[i], x) => ~Outside(vs, i - 1, i + 1, x, f)
         /\ Contains(vs[i + 1], x) => ~Outside(vs, i - 1, i + 1, x, f)
  <1>1. /\ i - 1 \in i - 1 .. i + 1 /\ i \in i - 1 .. i + 1 /\ i + 1 \in i - 1 .. i + 1
        /\ \A k \in i - 1 .. i + 1 : k = i - 1 \/ k = i \/ k = i + 1
    OBVIOUS
  <1>2. /\ Holds(vs, x, f) <=>
             (\E k \in i - 1 .. i + 1 : On(vs[k], x, f)) \/ Outside(vs, i - 1, i + 1, x, f)
        /\ \A k \in i - 1 .. i + 1 : Contains(vs[k], x) => ~Outside(vs, i - 1, i + 1, x, f)
    <2>1. i - 1 \in 1 .. Len(vs) /\ i + 1 \in i - 1 .. Len(vs)
      BY DEF Sorted
    <2> QED
      BY <2>1, HoldsSplit
  <1> QED
    BY <1>1, <1>2

-----------------------------------------------------------------------------
(* What the calls do to what a list holds                                  *)

(* An area moved at one end keeps the other and its protection.            *)
LEMMA Moved ==
  ASSUME NEW a \in AreaSet, NEW x \in Edges
  PROVE  /\ [a EXCEPT !.end = x] \in AreaSet
         /\ [a EXCEPT !.end = x].start = a.start /\ [a EXCEPT !.end = x].end = x
         /\ [a EXCEPT !.end = x].flags = a.flags
         /\ [a EXCEPT !.start = x] \in AreaSet
         /\ [a EXCEPT !.start = x].start = x /\ [a EXCEPT !.start = x].end = a.end
         /\ [a EXCEPT !.start = x].flags = a.flags
  BY DEF AreaSet

Within(addr, len, x) == addr <= x /\ x < addr + len

(* New memory is held with its protection beside all that was held,        *)
(* whatever it is merged with (vm_area_map).                               *)
LEMMA PlacedHolds ==
  ASSUME NEW vs, Headed(vs), NEW i \in 1 .. Len(vs),
         NEW addr \in Nat, NEW len \in Nat, NEW q \in {1, 3},
         addr % Page = 0, len % Page = 0,
         vs[i].end <= addr, addr + len <= Limit(vs, i), NEW x \in Int, NEW f
  PROVE  Holds(Placed(vs, i, addr, len, q).areas, x, f) <=>
           (Within(addr, len, x) /\ f = q) \/ Holds(vs, x, f)
  <1> DEFINE to == addr + len
             next == vs[i + 1]
             fresh == [start |-> addr, end |-> to, flags |-> q]
             longer == [vs[i] EXCEPT !.end = @ + len]
             earlier == [next EXCEPT !.start = addr]
             joined == [vs[i] EXCEPT !.end = next.end]
             withPrev == addr = vs[i].end /\ q = vs[i].flags
             withNext == i < Len(vs) /\ to = next.start /\ q = next.flags
             new == Placed(vs, i, addr, len, q)
  <1>1. Sorted(vs) /\ Len(vs) \in Nat /\ vs \in Seq(AreaSet) /\ addr <= to /\ to \in Nat
    BY DEF Headed, Sorted
  <1>2. vs[i] \in AreaSet /\ vs[i].start \in Nat /\ vs[i].end \in Nat /\ vs[i].start <= vs[i].end
    BY <1>1, ProperFacts DEF Sorted, Proper
  <1>3. i < Len(vs) => /\ i + 1 \in 1 .. Len(vs) /\ next \in AreaSet
                       /\ next.start \in Nat /\ next.end \in Nat
                       /\ next.start <= next.end /\ to <= next.start
    BY <1>1, ProperFacts DEF Sorted, Proper, Limit
  <1>4. to <= End /\ Start <= addr
    <2>1. Start \in Nat /\ End \in Nat /\ Start <= vs[i].start
      BY <1>1, LayoutAssumption, ProperFacts DEF Sorted
    <2>2. i < Len(vs) => next.end <= End
      BY <1>1, <1>3, ProperFacts DEF Sorted
    <2>3. CASE i = Len(vs)
      BY <1>2, <2>1, <2>3 DEF Limit
    <2>4. CASE i < Len(vs)
      BY <1>1, <1>2, <1>3, <2>1, <2>2, <2>4
    <2> QED
      BY <1>1, <2>3, <2>4
  <1>5. Start \in Nat /\ End \in Nat
    BY LayoutAssumption
  <1>10. CASE withPrev /\ ~withNext
    <2>1. new = [areas |-> [vs EXCEPT ![i] = longer], count |-> 0]
      BY <1>10, <1>1, <1>2 DEF Placed
    <2>2. /\ longer \in AreaSet /\ longer.start = vs[i].start /\ longer.end = to
          /\ longer.flags = q
      <3>1. longer = [vs[i] EXCEPT !.end = to] /\ to \in Edges
        BY <1>1, <1>2, <1>4, <1>5, <1>10 DEF Edges
      <3> HIDE DEF longer, to
      <3> QED
        BY <1>2, <1>10, <3>1, Moved
    <2> HIDE DEF longer, to, new
    <2>3. Holds([vs EXCEPT ![i] = longer], x, f) <=> On(longer, x, f) \/ Outside(vs, i, i, x, f)
      BY <1>1, <2>2, ReplaceHolds
    <2>4. Holds(vs, x, f) <=> On(vs[i], x, f) \/ Outside(vs, i, i, x, f)
      BY <1>1, HoldsOne
    <2>5. On(longer, x, f) <=> (Within(addr, len, x) /\ f = q) \/ On(vs[i], x, f)
      BY <1>1, <1>2, <1>10, <2>2 DEF On, Contains, Within, to
    <2> QED
      BY <2>1, <2>3, <2>4, <2>5 DEF new
  <1>11. CASE ~withPrev /\ withNext
    <2>1. new = [areas |-> [vs EXCEPT ![i + 1] = earlier], count |-> 0]
      BY <1>11, <1>1, <1>3 DEF Placed
    <2>2. /\ earlier \in AreaSet /\ earlier.start = addr /\ earlier.end = next.end
          /\ earlier.flags = q
      BY SMTT(30), <1>11, <1>3, <1>4, <1>5 DEF AreaSet, Edges
    <2> HIDE DEF earlier, new
    <2>3. Holds([vs EXCEPT ![i + 1] = earlier], x, f) <=>
            On(earlier, x, f) \/ Outside(vs, i + 1, i + 1, x, f)
      BY <1>1, <1>3, <1>11, <2>2, ReplaceHolds
    <2>4. Holds(vs, x, f) <=> On(next, x, f) \/ Outside(vs, i + 1, i + 1, x, f)
      BY <1>1, <1>3, <1>11, HoldsOne
    <2>5. On(earlier, x, f) <=> (Within(addr, len, x) /\ f = q) \/ On(next, x, f)
      BY <1>1, <1>3, <1>11, <2>2 DEF On, Contains, Within
    <2> QED
      BY <2>1, <2>3, <2>4, <2>5 DEF new
  <1>12. CASE withPrev /\ withNext
    <2>1. new = [areas |-> Splice(vs, i, i + 1, <<joined>>), count |-> -1]
      BY <1>12 DEF Placed
    <2>2. /\ joined \in AreaSet /\ joined.start = vs[i].start /\ joined.end = next.end
          /\ joined.flags = q
      BY <1>12, <1>2, <1>3 DEF AreaSet
    <2> HIDE DEF joined, new
    <2>3. Holds(Splice(vs, i, i + 1, <<joined>>), x, f) <=>
            On(joined, x, f) \/ Outside(vs, i, i + 1, x, f)
      <3>1. <<joined>> \in Seq(AreaSet) /\ i \in 1 .. Len(vs) + 1 /\ i + 1 \in (i - 1) .. Len(vs)
        BY <1>1, <1>3, <1>12, <2>2
      <3> QED
        BY <1>1, <3>1, SpliceHolds, ShortHolds
    <2>4. Holds(vs, x, f) <=> On(vs[i], x, f) \/ On(next, x, f) \/ Outside(vs, i, i + 1, x, f)
      BY <1>1, <1>12, HoldsTwo
    <2>5. On(joined, x, f) <=>
            (Within(addr, len, x) /\ f = q) \/ On(vs[i], x, f) \/ On(next, x, f)
      BY SMTT(30), <1>1, <1>2, <1>3, <1>12, <2>2 DEF On, Contains, Within
    <2> QED
      BY <2>1, <2>3, <2>4, <2>5 DEF new
  <1>13. CASE ~withPrev /\ ~withNext
    <2>1. new = [areas |-> Splice(vs, i + 1, i, <<fresh>>), count |-> 1]
      BY <1>13 DEF Placed
    <2>2. fresh \in AreaSet /\ fresh.start = addr /\ fresh.end = to /\ fresh.flags = q
      BY <1>1, <1>4, <1>5 DEF AreaSet, Edges
    <2>3. On(fresh, x, f) <=> Within(addr, len, x) /\ f = q
      BY <2>2 DEF On, Contains, Within
    <2> HIDE DEF fresh, new
    <2>4. Holds(Splice(vs, i + 1, i, <<fresh>>), x, f) <=>
            On(fresh, x, f) \/ Outside(vs, i + 1, i, x, f)
      <3>1. <<fresh>> \in Seq(AreaSet) /\ i + 1 \in 1 .. Len(vs) + 1 /\ i \in ((i + 1) - 1) .. Len(vs)
        BY <1>1, <2>2
      <3> QED
        BY <1>1, <3>1, SpliceHolds, ShortHolds
    <2>5. Holds(vs, x, f) <=> Outside(vs, i + 1, i, x, f)
      <3>1. \A k \in 1 .. Len(vs) : k < i + 1 \/ k > i
        BY <1>1
      <3> QED
        BY <3>1 DEF Holds, Outside
    <2> QED
      BY <2>1, <2>3, <2>4, <2>5 DEF new
  <1> QED
    BY <1>10, <1>11, <1>12, <1>13

(* Nothing is held in the free space after an area.                        *)
LEMMA GapHoldsNone ==
  ASSUME NEW vs, Sorted(vs), NEW i \in 1 .. Len(vs), NEW x \in Int, NEW f,
         vs[i].end <= x, x < Limit(vs, i)
  PROVE  ~Holds(vs, x, f)
  <1> SUFFICES ASSUME NEW k \in 1 .. Len(vs), On(vs[k], x, f) PROVE FALSE
    BY DEF Holds
  <1>1. /\ Len(vs) \in Nat /\ vs[i].end \in Nat
        /\ vs[k].start \in Nat /\ vs[k].end \in Nat
    BY ProperFacts DEF Sorted
  <1>2. CASE k <= i
    <2>1. vs[k].end <= vs[i].end
      BY <1>2, SortedFacts
    <2> QED
      BY <1>1, <2>1 DEF On, Contains
  <1>3. CASE k > i
    <2>1. i + 1 \in 1 .. Len(vs) /\ i # Len(vs) /\ k >= i + 1
      BY <1>1, <1>3
    <2>2. vs[i + 1].start <= vs[k].start /\ vs[i + 1].start \in Nat
      BY <2>1, SortedFacts, ProperFacts DEF Sorted
    <2> QED
      BY <1>1, <2>1, <2>2 DEF On, Contains, Limit
  <1> QED
    BY <1>1, <1>2, <1>3

(* What is cut out of an area is held no longer, all else is (case 1 of    *)
(* vm_area_unmap).                                                         *)
LEMMA CutHolds ==
  ASSUME NEW vs, Headed(vs), NEW i \in 2 .. Len(vs),
         NEW addr \in Nat, NEW len \in Nat,
         vs[i].start <= addr, addr + len <= vs[i].end, NEW x \in Int, NEW f
  PROVE  Holds(Cut(vs, i, addr, len).areas, x, f) <=> Holds(vs, x, f) /\ ~Within(addr, len, x)
  <1> DEFINE a == vs[i]
             to == addr + len
             before == [a EXCEPT !.end = addr]
             after == [a EXCEPT !.start = to]
             new == Cut(vs, i, addr, len)
  <1>1. /\ Sorted(vs) /\ Len(vs) \in Nat /\ vs \in Seq(AreaSet) /\ addr <= to /\ to \in Nat
        /\ i \in 1 .. Len(vs) /\ i \in 1 .. Len(vs) + 1 /\ i \in (i - 1) .. Len(vs)
    BY DEF Headed, Sorted
  <1>2. a \in AreaSet /\ a.start \in Nat /\ a.end \in Nat /\ Start <= a.start /\ a.end <= End
    BY <1>1, ProperFacts DEF Sorted, Proper
  <1>3. Start \in Nat /\ End \in Nat
    BY LayoutAssumption
  <1>4. /\ before \in AreaSet /\ before.start = a.start /\ before.end = addr /\ before.flags = a.flags
        /\ after \in AreaSet /\ after.start = to /\ after.end = a.end /\ after.flags = a.flags
    <2>1. addr \in Edges /\ to \in Edges
      BY <1>1, <1>2, <1>3 DEF Edges
    <2> HIDE DEF a, to
    <2> QED
      BY <1>2, <2>1, Moved
  <1>5. /\ Holds(vs, x, f) <=> On(a, x, f) \/ Outside(vs, i, i, x, f)
        /\ Contains(a, x) => ~Outside(vs, i, i, x, f)
    BY <1>1, HoldsOne
  <1>9. CASE a.start = addr /\ a.end = to
    <2>1. new = [areas |-> Splice(vs, i, i, << >>), count |-> -1]
      BY <1>9 DEF Cut
    <2> HIDE DEF new
    <2>2. Holds(Splice(vs, i, i, << >>), x, f) <=> Outside(vs, i, i, x, f)
      BY <1>1, EmptyList, SpliceHolds, ShortHolds
    <2>3. On(a, x, f) => Within(addr, len, x)
      BY <1>1, <1>2, <1>9 DEF On, Contains, Within
    <2>4. Within(addr, len, x) => Contains(a, x)
      BY <1>1, <1>2, <1>9 DEF Contains, Within
    <2> QED
      BY <1>5, <2>1, <2>2, <2>3, <2>4 DEF new
  <1>6. Within(addr, len, x) => Contains(a, x)
    BY <1>1, <1>2 DEF Contains, Within
  <1>10. CASE a.start = addr /\ a.end # to
    <2>1. new = [areas |-> [vs EXCEPT ![i] = after], count |-> 0]
      BY <1>1, <1>2, <1>10 DEF Cut
    <2> HIDE DEF new, after
    <2>2. Holds([vs EXCEPT ![i] = after], x, f) <=> On(after, x, f) \/ Outside(vs, i, i, x, f)
      BY <1>1, <1>4, ReplaceHolds
    <2>3. On(after, x, f) <=> On(a, x, f) /\ ~Within(addr, len, x)
      BY <1>1, <1>2, <1>4, <1>10 DEF On, Contains, Within
    <2> QED
      BY <1>5, <1>6, <2>1, <2>2, <2>3 DEF new
  <1>11. CASE a.start # addr /\ a.end = to
    <2>1. new = [areas |-> [vs EXCEPT ![i] = before], count |-> 0]
      BY <1>1, <1>2, <1>11 DEF Cut
    <2> HIDE DEF new, before
    <2>2. Holds([vs EXCEPT ![i] = before], x, f) <=> On(before, x, f) \/ Outside(vs, i, i, x, f)
      BY <1>1, <1>4, ReplaceHolds
    <2>3. On(before, x, f) <=> On(a, x, f) /\ ~Within(addr, len, x)
      BY <1>1, <1>2, <1>4, <1>11 DEF On, Contains, Within
    <2> QED
      BY <1>5, <1>6, <2>1, <2>2, <2>3 DEF new
  <1>12. CASE a.start # addr /\ a.end # to
    <2>1. new = [areas |-> Splice(vs, i, i, <<before, after>>), count |-> 1]
      BY <1>12 DEF Cut
    <2> HIDE DEF new, before, after
    <2>2. Holds(Splice(vs, i, i, <<before, after>>), x, f) <=>
            On(before, x, f) \/ On(after, x, f) \/ Outside(vs, i, i, x, f)
      <3>1. <<before, after>> \in Seq(AreaSet)
        BY <1>4
      <3> QED
        BY <1>1, <3>1, SpliceHolds, ShortHolds
    <2>3. On(before, x, f) \/ On(after, x, f) <=> On(a, x, f) /\ ~Within(addr, len, x)
      BY <1>1, <1>2, <1>4 DEF On, Contains, Within
    <2> QED
      BY <1>5, <1>6, <2>1, <2>2, <2>3 DEF new
  <1> QED
    BY <1>9, <1>10, <1>11, <1>12

(* A part of an area that gets protection q is held with it, all else is   *)
(* held as before (vm_area_mprotect).                                      *)
LEMMA ReprotectedHolds ==
  ASSUME NEW vs, Headed(vs), NEW i \in 2 .. Len(vs),
         NEW addr \in Nat, NEW len \in Nat, NEW q \in {1, 3},
         vs[i].start <= addr, addr + len <= vs[i].end, NEW x \in Int, NEW f
  PROVE  Holds(Reprotected(vs, i, addr, len, q).areas, x, f) <=>
           IF Within(addr, len, x) THEN f = q ELSE Holds(vs, x, f)
  <1> DEFINE a == vs[i]
             prev == vs[i - 1]
             next == vs[i + 1]
             to == addr + len
             mid == [start |-> addr, end |-> to, flags |-> q]
             before == [a EXCEPT !.end = addr]
             after == [a EXCEPT !.start = to]
             joinPrev == prev.flags = q /\ prev.end = addr
             joinNext == i < Len(vs) /\ next.flags = q /\ next.start = to
             new == Reprotected(vs, i, addr, len, q)
             Held(X, Y) == X <=> IF Within(addr, len, x) THEN f = q ELSE Y
  <1>1. /\ Sorted(vs) /\ Len(vs) \in Nat /\ vs \in Seq(AreaSet)
        /\ addr <= to /\ to \in Nat /\ to = addr + len
        /\ Start \in Nat /\ End \in Nat
    <2>1. Sorted(vs) /\ Len(vs) \in Nat /\ vs \in Seq(AreaSet)
      BY DEF Headed, Sorted
    <2>2. Start \in Nat /\ End \in Nat
      BY LayoutAssumption
    <2> QED
      BY <2>1, <2>2
  <1>2. /\ i \in 1 .. Len(vs) /\ i - 1 \in 1 .. Len(vs) /\ (i - 1) + 1 = i /\ i - 1 < Len(vs)
        /\ i \in 1 .. Len(vs) + 1 /\ i \in (i - 1) .. Len(vs)
        /\ i - 1 \in 1 .. Len(vs) + 1 /\ i \in ((i - 1) - 1) .. Len(vs)
        /\ i < Len(vs) => /\ i + 1 \in 1 .. Len(vs) /\ i + 1 \in (i - 1) .. Len(vs)
                          /\ i + 1 \in ((i - 1) - 1) .. Len(vs)
    <2> DEFINE n == Len(vs)
    <2>1. n \in Nat /\ i \in Nat /\ 2 <= i /\ i <= n
      BY <1>1
    <2> HIDE DEF n
    <2>2. /\ i \in 1 .. n /\ i - 1 \in 1 .. n /\ (i - 1) + 1 = i /\ i - 1 < n
          /\ i \in 1 .. n + 1 /\ i \in (i - 1) .. n
      BY <2>1
    <2>3. i - 1 \in 1 .. n + 1 /\ i \in ((i - 1) - 1) .. n
      BY <2>1
    <2>4. i < n => i + 1 \in 1 .. n /\ i + 1 \in (i - 1) .. n /\ i + 1 \in ((i - 1) - 1) .. n
      BY <2>1
    <2> QED
      BY <2>2, <2>3, <2>4 DEF n
  <1>3. /\ a \in AreaSet /\ a.start \in Nat /\ a.end \in Nat
        /\ a.start <= a.end /\ Start <= a.start /\ a.end <= End
    BY <1>1, <1>2, ProperFacts DEF Sorted, Proper
  <1>4. /\ prev \in AreaSet /\ prev.start \in Nat /\ prev.end \in Nat
        /\ prev.start <= prev.end /\ prev.end <= a.start
    <2>1. i - 1 < i
      BY <1>1
    <2> QED
      BY <1>1, <1>2, <2>1, ProperFacts DEF Sorted, Proper
  <1>5. i < Len(vs) => /\ next \in AreaSet /\ next.start \in Nat /\ next.end \in Nat
                       /\ next.start <= next.end /\ a.end <= next.start /\ next.end <= End
    <2>1. i < i + 1
      BY <1>1
    <2> QED
      BY <1>1, <1>2, <2>1, ProperFacts DEF Sorted, Proper
  <1>6. addr \in Edges /\ to \in Edges /\ a.end \in Edges /\ (i < Len(vs) => next.end \in Edges)
    BY <1>1, <1>3, <1>5 DEF Edges
  <1>7. /\ before \in AreaSet /\ before.start = a.start /\ before.end = addr /\ before.flags = a.flags
        /\ after \in AreaSet /\ after.start = to /\ after.end = a.end /\ after.flags = a.flags
    <2> HIDE DEF a, to
    <2> QED
      BY <1>3, <1>6, Moved
  <1>8. mid \in AreaSet /\ mid.start = addr /\ mid.end = to /\ mid.flags = q
    <2> HIDE DEF to
    <2> QED
      BY <1>6 DEF AreaSet
  <1>9. /\ Holds(vs, x, f) <=> On(a, x, f) \/ Outside(vs, i, i, x, f)
        /\ Contains(a, x) => ~Outside(vs, i, i, x, f)
    BY <1>1, <1>2, HoldsOne
  <1>a. /\ Holds(vs, x, f) <=> On(prev, x, f) \/ On(a, x, f) \/ Outside(vs, i - 1, i, x, f)
        /\ Contains(a, x) => ~Outside(vs, i - 1, i, x, f)
    <2>1. /\ Holds(vs, x, f) <=> On(vs[i - 1], x, f) \/ On(vs[(i - 1) + 1], x, f)
                                \/ Outside(vs, i - 1, (i - 1) + 1, x, f)
          /\ Contains(vs[(i - 1) + 1], x) => ~Outside(vs, i - 1, (i - 1) + 1, x, f)
      BY <1>1, <1>2, HoldsTwo
    <2> QED
      BY <1>2, <2>1
  <1>b. i < Len(vs) =>
          /\ Holds(vs, x, f) <=> On(a, x, f) \/ On(next, x, f) \/ Outside(vs, i, i + 1, x, f)
          /\ Contains(a, x) => ~Outside(vs, i, i + 1, x, f)
    BY <1>1, <1>2, HoldsTwo
  <1>c. i < Len(vs) =>
          /\ Holds(vs, x, f) <=> \/ On(prev, x, f) \/ On(a, x, f) \/ On(next, x, f)
                                 \/ Outside(vs, i - 1, i + 1, x, f)
          /\ Contains(a, x) => ~Outside(vs, i - 1, i + 1, x, f)
    BY <1>1, HoldsThree
  <1>d. Within(addr, len, x) => Contains(a, x)
    BY <1>1, <1>3 DEF Contains, Within
  <1>10. CASE addr # a.start /\ to # a.end
    <2>1. new = [areas |-> Splice(vs, i, i, <<before, mid, after>>),
                 count |-> Len(<<before, mid, after>>) - (i - i + 1)]
      BY <1>10, Zenon DEF Reprotected
    <2> HIDE DEF new, mid, before, after
    <2>3. Holds(Splice(vs, i, i, <<before, mid, after>>), x, f) <=>
            On(before, x, f) \/ On(mid, x, f) \/ On(after, x, f) \/ Outside(vs, i, i, x, f)
      <3>1. <<before, mid, after>> \in Seq(AreaSet)
        BY <1>7, <1>8
      <3> QED
        BY ZenonT(40), <1>1, <1>2, <1>10, <3>1, SpliceHolds, ShortHolds
    <2>4. Held(On(before, x, f) \/ On(mid, x, f) \/ On(after, x, f), On(a, x, f))
      BY <1>1, <1>3, <1>4, <1>5, <1>7, <1>8, <1>10 DEF On, Contains, Within
    <2> QED
      BY <1>d, <1>9, <1>10, <2>1, <2>3, <2>4 DEF new
  <1>11. CASE addr # a.start /\ to = a.end /\ joinNext
    <2> DEFINE earlier == [next EXCEPT !.start = addr]
    <2>1. new = [areas |-> Splice(vs, i, i + 1, <<before, earlier>>),
                 count |-> Len(<<before, earlier>>) - ((i + 1) - i + 1)]
      BY <1>11, Zenon DEF Reprotected
    <2>2. /\ earlier \in AreaSet /\ earlier.start = addr
          /\ earlier.end = next.end /\ earlier.flags = q
      <3> HIDE DEF next
      <3> QED
        BY <1>5, <1>6, <1>11, Moved
    <2> HIDE DEF new, mid, before, after, earlier
    <2>3. Holds(Splice(vs, i, i + 1, <<before, earlier>>), x, f) <=>
            On(before, x, f) \/ On(earlier, x, f) \/ Outside(vs, i, i + 1, x, f)
      <3>1. <<before, earlier>> \in Seq(AreaSet)
        BY <1>7, <1>8, <2>2
      <3> QED
        BY <1>1, <1>2, <1>11, <3>1, SpliceHolds, ShortHolds
    <2>4. Held(On(before, x, f) \/ On(earlier, x, f), On(a, x, f) \/ On(next, x, f))
      BY SMTT(30), <1>1, <1>3, <1>4, <1>5, <1>7, <1>8, <1>11, <2>2 DEF On, Contains, Within
    <2> QED
      BY <1>d, <1>b, <1>11, <2>1, <2>3, <2>4 DEF new
  <1>12. CASE addr # a.start /\ to = a.end /\ ~joinNext
    <2>1. new = [areas |-> Splice(vs, i, i, <<before, mid>>),
                 count |-> Len(<<before, mid>>) - (i - i + 1)]
      BY <1>12, Zenon DEF Reprotected
    <2> HIDE DEF new, mid, before, after
    <2>3. Holds(Splice(vs, i, i, <<before, mid>>), x, f) <=>
            On(before, x, f) \/ On(mid, x, f) \/ Outside(vs, i, i, x, f)
      <3>1. <<before, mid>> \in Seq(AreaSet)
        BY <1>7, <1>8
      <3> QED
        BY <1>1, <1>2, <1>12, <3>1, SpliceHolds, ShortHolds
    <2>4. Held(On(before, x, f) \/ On(mid, x, f), On(a, x, f))
      BY <1>1, <1>3, <1>4, <1>5, <1>7, <1>8, <1>12 DEF On, Contains, Within
    <2> QED
      BY <1>d, <1>9, <1>12, <2>1, <2>3, <2>4 DEF new
  <1>13. CASE addr = a.start /\ to # a.end /\ joinPrev
    <2> DEFINE longer == [prev EXCEPT !.end = to]
    <2>1. new = [areas |-> Splice(vs, i - 1, i, <<longer, after>>),
                 count |-> Len(<<longer, after>>) - (i - (i - 1) + 1)]
      BY <1>13, Zenon DEF Reprotected
    <2>2. /\ longer \in AreaSet /\ longer.start = prev.start
          /\ longer.end = to /\ longer.flags = q
      <3> HIDE DEF prev, to
      <3> QED
        BY <1>4, <1>6, <1>13, Moved
    <2> HIDE DEF new, mid, before, after, longer
    <2>3. Holds(Splice(vs, i - 1, i, <<longer, after>>), x, f) <=>
            On(longer, x, f) \/ On(after, x, f) \/ Outside(vs, i - 1, i, x, f)
      <3>1. <<longer, after>> \in Seq(AreaSet)
        BY <1>7, <1>8, <2>2
      <3> QED
        BY <1>1, <1>2, <1>13, <3>1, SpliceHolds, ShortHolds
    <2>4. Held(On(longer, x, f) \/ On(after, x, f), On(prev, x, f) \/ On(a, x, f))
      BY SMTT(30), <1>1, <1>3, <1>4, <1>5, <1>7, <1>8, <1>13, <2>2 DEF On, Contains, Within
    <2> QED
      BY <1>d, <1>a, <1>13, <2>1, <2>3, <2>4 DEF new
  <1>14. CASE addr = a.start /\ to # a.end /\ ~joinPrev
    <2>1. new = [areas |-> Splice(vs, i, i, <<mid, after>>),
                 count |-> Len(<<mid, after>>) - (i - i + 1)]
      BY <1>14, Zenon DEF Reprotected
    <2> HIDE DEF new, mid, before, after
    <2>3. Holds(Splice(vs, i, i, <<mid, after>>), x, f) <=>
            On(mid, x, f) \/ On(after, x, f) \/ Outside(vs, i, i, x, f)
      <3>1. <<mid, after>> \in Seq(AreaSet)
        BY <1>7, <1>8
      <3> QED
        BY <1>1, <1>2, <1>14, <3>1, SpliceHolds, ShortHolds
    <2>4. Held(On(mid, x, f) \/ On(after, x, f), On(a, x, f))
      BY SMTT(30), <1>1, <1>3, <1>4, <1>5, <1>7, <1>8, <1>14 DEF On, Contains, Within
    <2> QED
      BY <1>d, <1>9, <1>14, <2>1, <2>3, <2>4 DEF new
  <1>15. CASE addr = a.start /\ to = a.end /\ joinPrev /\ joinNext
    <2> DEFINE joined == [prev EXCEPT !.end = next.end]
    <2>1. new = [areas |-> Splice(vs, i - 1, i + 1, <<joined>>),
                 count |-> Len(<<joined>>) - ((i + 1) - (i - 1) + 1)]
      BY <1>15, Zenon DEF Reprotected
    <2>2. /\ joined \in AreaSet /\ joined.start = prev.start
          /\ joined.end = next.end /\ joined.flags = q
      <3> HIDE DEF prev, next
      <3> QED
        BY <1>4, <1>6, <1>15, Moved
    <2> HIDE DEF new, mid, before, after, joined
    <2>3. Holds(Splice(vs, i - 1, i + 1, <<joined>>), x, f) <=>
            On(joined, x, f) \/ Outside(vs, i - 1, i + 1, x, f)
      <3>1. <<joined>> \in Seq(AreaSet)
        BY <1>7, <1>8, <2>2
      <3> QED
        BY <1>1, <1>2, <1>15, <3>1, SpliceHolds, ShortHolds
    <2>4. Held(On(joined, x, f), On(prev, x, f) \/ On(a, x, f) \/ On(next, x, f))
      <3>1. /\ prev.end = addr /\ a.start = addr /\ a.end = to /\ next.start = to
            /\ prev.flags = q /\ next.flags = q /\ prev.start <= addr /\ to <= next.end
        BY <1>1, <1>3, <1>4, <1>5, <1>15
      <3>2. /\ prev.start \in Nat /\ prev.end \in Nat /\ a.start \in Nat /\ a.end \in Nat /\ next.start \in Nat /\ next.end \in Nat
            /\ addr \in Nat /\ to \in Nat /\ addr <= to /\ to = addr + len
        BY <1>1, <1>4, <1>3, <1>5, <1>15
      <3> HIDE DEF a, prev, next, to
      <3>3. Within(addr, len, x) <=> addr <= x /\ x < to
        BY <3>2 DEF Within
      <3> QED
        BY <2>2, <3>1, <3>2, <3>3 DEF On, Contains
    <2> QED
      BY <1>d, <1>c, <1>15, <2>1, <2>3, <2>4 DEF new
  <1>16. CASE addr = a.start /\ to = a.end /\ ~joinPrev /\ joinNext
    <2> DEFINE joined == [mid EXCEPT !.end = next.end]
    <2>1. new = [areas |-> Splice(vs, i, i + 1, <<joined>>),
                 count |-> Len(<<joined>>) - ((i + 1) - i + 1)]
      BY <1>16, Zenon DEF Reprotected
    <2>2. /\ joined \in AreaSet /\ joined.start = addr
          /\ joined.end = next.end /\ joined.flags = q
      <3> HIDE DEF mid, next
      <3> QED
        BY <1>6, <1>8, <1>16, Moved
    <2> HIDE DEF new, mid, before, after, joined
    <2>3. Holds(Splice(vs, i, i + 1, <<joined>>), x, f) <=>
            On(joined, x, f) \/ Outside(vs, i, i + 1, x, f)
      <3>1. <<joined>> \in Seq(AreaSet)
        BY <1>7, <1>8, <2>2
      <3> QED
        BY <1>1, <1>2, <1>16, <3>1, SpliceHolds, ShortHolds
    <2>4. Held(On(joined, x, f), On(a, x, f) \/ On(next, x, f))
      <3>1. /\ a.start = addr /\ a.end = to /\ next.start = to /\ next.flags = q /\ to <= next.end
        BY <1>1, <1>3, <1>4, <1>5, <1>16
      <3>2. /\ a.start \in Nat /\ a.end \in Nat /\ next.start \in Nat /\ next.end \in Nat
            /\ addr \in Nat /\ to \in Nat /\ addr <= to /\ to = addr + len
        BY <1>1, <1>3, <1>5, <1>16
      <3> HIDE DEF a, next, to
      <3>3. Within(addr, len, x) <=> addr <= x /\ x < to
        BY <3>2 DEF Within
      <3> QED
        BY <2>2, <3>1, <3>2, <3>3 DEF On, Contains
    <2> QED
      BY <1>d, <1>b, <1>16, <2>1, <2>3, <2>4 DEF new
  <1>17. CASE addr = a.start /\ to = a.end /\ joinPrev /\ ~joinNext
    <2> DEFINE longer == [prev EXCEPT !.end = a.end]
    <2>1. new = [areas |-> Splice(vs, i - 1, i, <<longer>>),
                 count |-> Len(<<longer>>) - (i - (i - 1) + 1)]
      BY <1>17, Zenon DEF Reprotected
    <2>2. /\ longer \in AreaSet /\ longer.start = prev.start
          /\ longer.end = a.end /\ longer.flags = q
      <3> HIDE DEF prev, a
      <3> QED
        BY <1>4, <1>6, <1>17, Moved
    <2> HIDE DEF new, mid, before, after, longer
    <2>3. Holds(Splice(vs, i - 1, i, <<longer>>), x, f) <=>
            On(longer, x, f) \/ Outside(vs, i - 1, i, x, f)
      <3>1. <<longer>> \in Seq(AreaSet)
        BY <1>7, <1>8, <2>2
      <3> QED
        BY <1>1, <1>2, <1>17, <3>1, SpliceHolds, ShortHolds
    <2>4. Held(On(longer, x, f), On(prev, x, f) \/ On(a, x, f))
      <3>1. /\ prev.end = addr /\ a.start = addr /\ a.end = to /\ prev.flags = q /\ prev.start <= addr
        BY <1>1, <1>3, <1>4, <1>5, <1>17
      <3>2. /\ prev.start \in Nat /\ prev.end \in Nat /\ a.start \in Nat /\ a.end \in Nat
            /\ addr \in Nat /\ to \in Nat /\ addr <= to /\ to = addr + len
        BY <1>1, <1>4, <1>3, <1>17
      <3> HIDE DEF a, prev, to
      <3>3. Within(addr, len, x) <=> addr <= x /\ x < to
        BY <3>2 DEF Within
      <3> QED
        BY <2>2, <3>1, <3>2, <3>3 DEF On, Contains
    <2> QED
      BY <1>d, <1>a, <1>17, <2>1, <2>3, <2>4 DEF new
  <1>18. CASE addr = a.start /\ to = a.end /\ ~joinPrev /\ ~joinNext
    <2>1. new = [areas |-> Splice(vs, i, i, <<mid>>),
                 count |-> Len(<<mid>>) - (i - i + 1)]
      BY <1>18, Zenon DEF Reprotected
    <2> HIDE DEF new, mid, before, after
    <2>3. Holds(Splice(vs, i, i, <<mid>>), x, f) <=>
            On(mid, x, f) \/ Outside(vs, i, i, x, f)
      <3>1. <<mid>> \in Seq(AreaSet)
        BY <1>7, <1>8
      <3> QED
        BY <1>1, <1>2, <1>18, <3>1, SpliceHolds, ShortHolds
    <2>4. Held(On(mid, x, f), On(a, x, f))
      BY <1>1, <1>3, <1>4, <1>5, <1>7, <1>8, <1>18 DEF On, Contains, Within
    <2> QED
      BY <1>d, <1>9, <1>18, <2>1, <2>3, <2>4 DEF new
  <1> QED
    BY <1>10, <1>11, <1>12, <1>13, <1>14, <1>15, <1>16, <1>17, <1>18

-----------------------------------------------------------------------------
(* A list before and after a call                                          *)

(* Addresses of the region behind the dummy area                           *)
Above == {x \in Edges : Start + Page <= x /\ x < End}

(* Behind the dummy area memory has a protection.                          *)
Colored(vs) == \A x \in Above : ~Holds(vs, x, 0)

(* The list of a process that has called mmap, or has not                  *)
IsList(vs) == vs = << >> \/ Headed(vs)

(* ws is vs with [addr, addr + len) given protection q, or freed for 0.    *)
Changed(vs, ws, addr, len, q) ==
  \A x \in Above : \A f \in {1, 3} :
    Holds(ws, x, f) <=> IF Within(addr, len, x) THEN f = q ELSE Holds(vs, x, f)

(* The addresses that memory can have                                      *)
LEMMA AboveFacts ==
  ASSUME NEW x \in Above
  PROVE  x \in Nat /\ Start + Page <= x /\ x < End
  BY LayoutAssumption DEF Above, Edges

(* A list is sorted, whether or not mmap has made its dummy area.          *)
LEMMA ListFacts ==
  ASSUME NEW vs, IsList(vs)
  PROVE  Sorted(vs) /\ vs \in Seq(AreaSet) /\ DOMAIN vs = 1 .. Len(vs) /\ Len(vs) \in Nat
  <1>1. Sorted(<< >>)
    BY DummyProper, ShortSorted
  <1>2. Sorted(vs)
    BY <1>1 DEF IsList, Headed
  <1> QED
    BY <1>2 DEF Sorted

(* The flags at an address are those of the one area that contains it.     *)
LEMMA FlagsAtHeld ==
  ASSUME NEW vs, IsList(vs), NEW x \in Nat, NEW f, Holds(vs, x, f)
  PROVE  FlagsAt(vs, x) = f
  <1> DEFINE on == {i \in DOMAIN vs : Contains(vs[i], x)}
  <1>1. Sorted(vs) /\ DOMAIN vs = 1 .. Len(vs) /\ Len(vs) \in Nat
    BY ListFacts
  <1>2. PICK k \in 1 .. Len(vs) : On(vs[k], x, f)
    BY DEF Holds
  <1>3. ASSUME NEW m \in on PROVE m = k
    <2>1. m \in 1 .. Len(vs) /\ Contains(vs[m], x) /\ Contains(vs[k], x)
      BY <1>1, <1>2 DEF On
    <2>2. /\ vs[k].start \in Nat /\ vs[k].end \in Nat
          /\ vs[m].start \in Nat /\ vs[m].end \in Nat
      BY <1>1, <2>1, ProperFacts DEF Sorted
    <2>3. /\ m < k => vs[m].end <= vs[k].start
          /\ k < m => vs[k].end <= vs[m].start
      BY <1>1, <2>1 DEF Sorted
    <2> QED
      BY <1>1, <2>1, <2>2, <2>3 DEF Contains
  <1>4. k \in on /\ on \in SUBSET Nat
    BY <1>1, <1>2 DEF On
  <1> HIDE DEF on
  <1>5. Lowest(on) \in on
    BY <1>4, LowestIn
  <1>6. Lowest(on) = k /\ on # {}
    BY <1>3, <1>4, <1>5
  <1>7. FlagsAt(vs, x) = vs[k].flags
    BY <1>6 DEF FlagsAt, on
  <1> QED
    BY <1>2, <1>7 DEF On

(* An address in no area is free.                                          *)
LEMMA FlagsAtFree ==
  ASSUME NEW vs, IsList(vs), NEW x \in Nat, \A f \in Flags : ~Holds(vs, x, f)
  PROVE  FlagsAt(vs, x) = 0
  <1>1. Sorted(vs) /\ DOMAIN vs = 1 .. Len(vs)
    BY ListFacts
  <1>2. ASSUME NEW k \in DOMAIN vs, Contains(vs[k], x) PROVE FALSE
    <2>1. vs[k].flags \in Flags
      BY <1>1, ProperFacts DEF Sorted, Flags
    <2>2. Holds(vs, x, vs[k].flags)
      BY <1>1, <1>2 DEF Holds, On
    <2> QED
      BY <2>1, <2>2
  <1>3. {i \in DOMAIN vs : Contains(vs[i], x)} = {}
    BY <1>2
  <1> QED
    BY <1>3 DEF FlagsAt

(* Behind the dummy area the flags say what the list holds.                *)
LEMMA FlagsAtAbove ==
  ASSUME NEW vs, IsList(vs), Colored(vs), NEW x \in Above
  PROVE  /\ FlagsAt(vs, x) \in Flags
         /\ \A f \in {1, 3} : FlagsAt(vs, x) = f <=> Holds(vs, x, f)
         /\ FlagsAt(vs, x) = 0 <=> \A f \in {1, 3} : ~Holds(vs, x, f)
  <1>1. x \in Nat
    BY AboveFacts
  <1>2. \A f \in Flags : Holds(vs, x, f) => FlagsAt(vs, x) = f
    BY <1>1, FlagsAtHeld
  <1>3. (\A f \in Flags : ~Holds(vs, x, f)) => FlagsAt(vs, x) = 0
    BY <1>1, FlagsAtFree
  <1>4. ~Holds(vs, x, 0)
    BY DEF Colored
  <1> QED
    BY <1>2, <1>3, <1>4 DEF Flags

(* What a change does to the flags                                         *)
LEMMA ChangedFlags ==
  ASSUME NEW vs, IsList(vs), Colored(vs), NEW ws, IsList(ws), Colored(ws),
         NEW addr, NEW len, NEW q \in Flags, Changed(vs, ws, addr, len, q), NEW x \in Above
  PROVE  FlagsAt(ws, x) = IF Within(addr, len, x) THEN q ELSE FlagsAt(vs, x)
  <1>1. /\ FlagsAt(vs, x) \in Flags
        /\ \A f \in {1, 3} : FlagsAt(vs, x) = f <=> Holds(vs, x, f)
    BY FlagsAtAbove
  <1>2. /\ FlagsAt(ws, x) \in Flags
        /\ \A f \in {1, 3} : FlagsAt(ws, x) = f <=> Holds(ws, x, f)
    BY FlagsAtAbove
  <1>3. \A f \in {1, 3} : Holds(ws, x, f) <=> IF Within(addr, len, x) THEN f = q ELSE Holds(vs, x, f)
    BY DEF Changed
  <1>4. CASE Within(addr, len, x)
    BY <1>2, <1>3, <1>4 DEF Flags
  <1>5. CASE ~Within(addr, len, x)
    BY <1>1, <1>2, <1>3, <1>5 DEF Flags
  <1> QED
    BY <1>4, <1>5

-----------------------------------------------------------------------------
(* The inductive invariant of the page map: that of the lists, no memory   *)
(* without protection behind the dummy area, and a munmap that runs has    *)
(* come past all areas before the one it looks at.                         *)

Passed == call # NoCall => \A k \in 1 .. call.node - 1 : List[k].end <= call.addr

MapInv == IInv /\ (\A p \in Procs : Colored(vmas[p])) /\ Passed

(* One process's list changes, and how                                     *)
Effect(p, addr, len, q) ==
  /\ \A other \in Procs \ {p} : vmas'[other] = vmas[other]
  /\ Changed(vmas[p], vmas'[p], addr, len, q)
  /\ Colored(vmas'[p])

(* The invariant of the lists says so of every process.                    *)
LEMMA ListOf ==
  ASSUME IInv, NEW p \in Procs
  PROVE  IsList(vmas[p])
  BY DEF IInv, ListInv, IsList

(* The dummy area that the first mmap creates changes no page.             *)
LEMMA ListedHolds ==
  ASSUME NEW p \in Procs, NEW x \in Above, NEW f
  PROVE  Holds(Listed(p), x, f) <=> Holds(vmas[p], x, f)
  <1>1. ~On(Dummy, x, f)
    BY AboveFacts, LayoutAssumption DEF On, Contains, Dummy
  <1> QED
    BY <1>1, ShortHolds DEF Listed

(* Memory placed in the gap after area i                                   *)
LEMMA MapPlaceEffect ==
  ASSUME MapInv, NEW p \in Procs, NEW i \in 1 .. Len(Listed(p)),
         NEW addr \in Nat, NEW length \in Int, NEW q \in {1, 3},
         0 <= length, length + Page - 1 <= IntMax, addr % Page = 0,
         Listed(p)[i].end <= addr,
         addr + Aligned(length) <= Limit(Listed(p), i),
         MapPlace(p, i, addr, length, q)
  PROVE  /\ Start + Page <= addr /\ addr + Aligned(length) <= End
         /\ Effect(p, addr, Aligned(length), q)
         /\ \A x \in Above, f \in Flags :
              Within(addr, Aligned(length), x) => ~Holds(vmas[p], x, f)
  <1> DEFINE vs == Listed(p)
             len == Aligned(length)
             new == Placed(vs, i, addr, len, q)
  <1>1. len \in Nat /\ len % Page = 0
    BY Rounding
  <1>2. Headed(vs) /\ Sorted(vs)
    BY ListedFacts DEF MapInv, Headed
  <1>3. /\ \A other \in Procs \ {p} : vmas'[other] = vmas[other]
        /\ vmas'[p] = new.areas
    BY DEF MapPlace, MapInv, IInv, ListInv
  <1> HIDE DEF vs, len, new
  <1>4. /\ Len(vs) \in Nat /\ Proper(vs[i]) /\ vs[1] = Dummy
        /\ vs[i].end \in Nat /\ vs[i].end <= addr /\ addr + len <= Limit(vs, i)
    BY <1>2, ProperFacts DEF vs, len, Headed, Sorted
  <1>5. Limit(vs, i) \in Nat /\ Limit(vs, i) <= End
    <2>1. i < Len(vs) => /\ vs[i + 1].start \in Nat /\ vs[i + 1].end \in Nat
                         /\ vs[i + 1].start <= vs[i + 1].end /\ vs[i + 1].end <= End
      <3>1. i < Len(vs) => i + 1 \in 1 .. Len(vs)
        BY <1>4 DEF vs
      <3> QED
        BY <1>2, <3>1, ProperFacts DEF Sorted
    <2>2. End \in Nat
      BY LayoutAssumption
    <2>3. i = Len(vs) \/ i < Len(vs)
      BY <1>4 DEF vs
    <2> QED
      BY <1>4, <2>1, <2>2, <2>3 DEF Limit
  <1>6. Start + Page <= addr /\ addr + len <= End
    <2>1. vs[1].end <= vs[i].end
      <3>1. 1 \in 1 .. Len(vs) /\ i \in 1 .. Len(vs) /\ 1 <= i
        BY <1>4 DEF vs
      <3> QED
        BY <1>2, <3>1, SortedFacts
    <2>2. vs[1].end = Start + Page /\ Start \in Nat /\ Page \in Nat /\ End \in Nat
      BY <1>4, LayoutAssumption DEF Dummy
    <2> QED
      BY <1>1, <1>4, <1>5, <2>1, <2>2
  <1>7. ASSUME NEW x \in Above, NEW f
        PROVE  /\ Holds(new.areas, x, f) <=> (Within(addr, len, x) /\ f = q) \/ Holds(vmas[p], x, f)
               /\ Within(addr, len, x) => ~Holds(vmas[p], x, f)
    <2>1. x \in Int
      BY AboveFacts
    <2>2. Holds(new.areas, x, f) <=> (Within(addr, len, x) /\ f = q) \/ Holds(vs, x, f)
      <3>1. i \in 1 .. Len(vs)
        BY DEF vs
      <3> QED
        BY <1>1, <1>2, <1>4, <2>1, <3>1, PlacedHolds DEF new
    <2>3. Within(addr, len, x) => ~Holds(vs, x, f)
      <3> SUFFICES ASSUME Within(addr, len, x) PROVE ~Holds(vs, x, f)
        OBVIOUS
      <3>1. vs[i].end <= x /\ x < Limit(vs, i) /\ i \in 1 .. Len(vs)
        BY <1>1, <1>4, <1>5, <2>1 DEF Within, vs
      <3> QED
        BY <1>2, <2>1, <3>1, GapHoldsNone
    <2>4. Holds(vs, x, f) <=> Holds(vmas[p], x, f)
      BY ListedHolds DEF vs
    <2> QED
      BY <2>2, <2>3, <2>4
  <1>8. Changed(vmas[p], vmas'[p], addr, len, q)
    BY <1>3, <1>7 DEF Changed
  <1>9. Colored(vmas'[p])
    <2>1. \A x \in Above : ~Holds(vmas[p], x, 0)
      BY DEF MapInv, Colored
    <2>2. q # 0
      OBVIOUS
    <2> QED
      BY <1>3, <1>7, <2>1, <2>2 DEF Colored
  <1> QED
    BY <1>3, <1>6, <1>7, <1>8, <1>9 DEF Effect, len

(* An mmap that fails changes no page; one that succeeds gives free pages  *)
(* from the address it returns its protection (vm_area_map).               *)
LEMMA MapEffect ==
  ASSUME MapInv, NEW p \in Procs,
         NEW addr \in Addrs, NEW length \in Lengths, NEW q \in ProtArgs, NEW flag \in FlagArgs,
         Plain(addr, length), vm_area_map(p, addr, length, q, flag)
  PROVE  /\ p \in alive /\ call = NoCall /\ alive' = alive /\ call' = call
         /\ \/ ret' = -EINVAL /\ Effect(p, 0, 0, 0)
            \/ /\ ret' \in Nat /\ ret' % Page = 0 /\ q \in {1, 3} /\ 0 <= length
               /\ Start + Page <= ret' /\ ret' + Aligned(length) <= End
               /\ Effect(p, ret', Aligned(length), q)
               /\ \A x \in Above, f \in Flags :
                    Within(ret', Aligned(length), x) => ~Holds(vmas[p], x, f)
  <1>1. addr \in Nat /\ length \in Int /\ addr % Page = 0 /\ length + Page - 1 <= IntMax
    BY LayoutAssumption DEF Plain
  <1>2. ValidMap(length, q, flag) => 0 <= length /\ q \in {1, 3}
    BY <1>1 DEF ValidMap
  <1>3. /\ Headed(Listed(p)) /\ DOMAIN Listed(p) = 1 .. Len(Listed(p))
        /\ \A i \in 1 .. Len(Listed(p)) :
             Listed(p)[i].end \in Nat /\ Listed(p)[i].end % Page = 0
    <2>1. Headed(Listed(p)) /\ DOMAIN Listed(p) = 1 .. Len(Listed(p))
      BY ListedFacts DEF MapInv
    <2>2. \A i \in 1 .. Len(Listed(p)) : Proper(Listed(p)[i])
      BY <2>1 DEF Headed, Sorted
    <2> QED
      BY <2>1, <2>2, ProperFacts DEF Proper
  <1>4. /\ p \in alive /\ call = NoCall /\ alive' = alive /\ call' = call
    BY DEF vm_area_map, MapInvalid, MapAtHint, MapFirstFit, MapRefused, MapPlace, Anywhere, Idle
  <1>5. \A x \in Above : ~Within(0, 0, x)
    BY AboveFacts DEF Within
  <1>6. CASE MapInvalid(p, addr, length, q, flag)
    <2>1. ret' = -EINVAL /\ vmas' = vmas
      BY <1>6 DEF MapInvalid
    <2>2. Effect(p, 0, 0, 0)
      BY <1>5, <2>1 DEF Effect, Changed, MapInv
    <2> QED
      BY <1>4, <2>1, <2>2
  <1>7. CASE MapAtHint(p, addr, length, q, flag)
    <2> DEFINE hits == Hits(Listed(p), addr)
               i == Lowest(hits)
    <2>1. /\ ValidMap(length, q, flag) /\ Fits(Listed(p), addr, Aligned(length))
          /\ MapPlace(p, i, addr, length, q)
      BY <1>7 DEF MapAtHint
    <2>2. hits # {} /\ hits \in SUBSET Nat
      BY <1>3, <2>1 DEF Fits, Hits
    <2>3. i \in hits
      BY <2>2, LowestIn
    <2>4. ~Contains(Listed(p)[i], addr) /\ addr + Aligned(length) <= Limit(Listed(p), i)
      BY <2>1 DEF Fits
    <2> HIDE DEF i
    <2>5. i \in 1 .. Len(Listed(p)) /\ Listed(p)[i].end <= addr
      BY <1>3, <2>3, <2>4 DEF Hits
    <2>6. ret' = addr
      BY <2>1 DEF MapPlace
    <2> QED
      BY <1>1, <1>2, <1>4, <2>1, <2>4, <2>5, <2>6, MapPlaceEffect
  <1>8. CASE MapFirstFit(p, addr, length, q, flag)
    <2> DEFINE gaps == Gaps(Listed(p), Aligned(length))
               i == Lowest(gaps)
               at == Listed(p)[i].end
    <2>1. /\ ValidMap(length, q, flag) /\ gaps # {}
          /\ MapPlace(p, i, at, length, q)
      BY <1>8 DEF MapFirstFit, Anywhere
    <2>2. gaps \in SUBSET Nat
      BY <1>3 DEF Gaps
    <2>3. i \in gaps
      BY <2>1, <2>2, LowestIn
    <2> HIDE DEF i
    <2>4. i \in 1 .. Len(Listed(p)) /\ at + Aligned(length) <= Limit(Listed(p), i)
      BY <1>3, <2>3 DEF Gaps
    <2>5. at \in Nat /\ at % Page = 0 /\ at <= at /\ Listed(p)[i].end = at
      BY <1>3, <2>4
    <2>6. ret' = at
      BY <2>1 DEF MapPlace
    <2> HIDE DEF at
    <2>7. /\ Start + Page <= at /\ at + Aligned(length) <= End
          /\ Effect(p, at, Aligned(length), q)
          /\ \A x \in Above, f \in Flags :
               Within(at, Aligned(length), x) => ~Holds(vmas[p], x, f)
      BY <1>1, <1>2, <2>1, <2>4, <2>5, MapPlaceEffect
    <2> QED
      BY <1>2, <1>4, <2>1, <2>5, <2>6, <2>7
  <1>9. CASE MapRefused(p, addr, length, q, flag)
    <2>1. ret' = -EINVAL /\ vmas' = [vmas EXCEPT ![p] = Listed(p)]
      BY <1>9 DEF MapRefused
    <2>2. vmas'[p] = Listed(p) /\ \A other \in Procs \ {p} : vmas'[other] = vmas[other]
      BY <2>1 DEF MapInv, IInv, ListInv
    <2>3. \A x \in Above : \A f \in Flags : Holds(vmas'[p], x, f) <=> Holds(vmas[p], x, f)
      BY <2>2, ListedHolds
    <2>4. Changed(vmas[p], vmas'[p], 0, 0, 0)
      BY <1>5, <2>3 DEF Changed, Flags
    <2>5. Colored(vmas'[p])
      BY <2>3 DEF Colored, MapInv, Flags
    <2> QED
      BY <1>4, <2>1, <2>2, <2>4, <2>5 DEF Effect
  <1> QED
    BY <1>6, <1>7, <1>8, <1>9 DEF vm_area_map

(* An mprotect that succeeds gives pages that have a protection another.   *)
LEMMA ProtectEffect ==
  ASSUME MapInv, NEW p \in Procs,
         NEW addr \in Addrs, NEW length \in Lengths, NEW q \in ProtArgs,
         Usable(addr), Plain(addr, length), InOneArea(p, addr, length),
         vm_area_mprotect(p, addr, length, q)
  PROVE  /\ p \in alive /\ call = NoCall /\ alive' = alive /\ call' = call
         /\ \/ ret' = -EINVAL /\ Effect(p, 0, 0, 0)
            \/ /\ ret' = 0 /\ q \in {1, 3} /\ addr + Aligned(length) <= End
               /\ Effect(p, addr, Aligned(length), q)
               /\ \A x \in Above :
                    Within(addr, Aligned(length), x) => \E f \in {1, 3} : Holds(vmas[p], x, f)
  <1>1. /\ addr \in Nat /\ length \in Int /\ addr % Page = 0 /\ length + Page - 1 <= IntMax
        /\ Start \in Nat /\ Page \in Nat \ {0} /\ addr >= Start + Page /\ length > 0
    BY LayoutAssumption DEF Plain, Usable, InOneArea
  <1>2. /\ p \in alive /\ call = NoCall /\ alive' = alive /\ call' = call
    BY DEF vm_area_mprotect, ProtectRefused, ProtectArea, Idle
  <1>3. CASE ProtectRefused(p, addr, length, q)
    <2>1. ret' = -EINVAL /\ vmas' = vmas
      BY <1>3 DEF ProtectRefused
    <2>2. \A x \in Above : ~Within(0, 0, x)
      BY AboveFacts DEF Within
    <2>3. Effect(p, 0, 0, 0)
      BY <2>1, <2>2 DEF Effect, Changed, MapInv
    <2> QED
      BY <1>2, <2>1, <2>3
  <1>4. CASE ProtectArea(p, addr, length, q)
    <2> DEFINE vs == vmas[p]
               stops == Stops(vs, addr)
               i == Lowest(stops)
               len == Aligned(length)
               new == Reprotected(vs, i, addr, len, q)
    <2>1. /\ q \in {1, 3} /\ Found(vs, addr)
          /\ vmas' = [vmas EXCEPT ![p] = new.areas] /\ ret' = 0
      BY <1>4 DEF ProtectArea
    <2>2. stops # {} /\ Contains(vs[i], addr) /\ addr + len <= vs[i].end
      BY <2>1 DEF Found, InOneArea
    <2>3. Headed(vs) /\ DOMAIN vs = 1 .. Len(vs) /\ Len(vs) \in Nat
      <3>1. DOMAIN << >> = {}
        OBVIOUS
      <3>2. vs # << >>
        BY <2>2, <3>1 DEF Stops
      <3> QED
        BY <3>2, HeadedIsList DEF MapInv, IInv, ListInv
    <2>4. stops \in SUBSET Nat
      BY <2>3 DEF Stops
    <2>5. i \in stops
      BY <2>2, <2>4, LowestIn
    <2> HIDE DEF i
    <2>6. i \in 1 .. Len(vs) /\ vs[i].start <= addr /\ addr < vs[i].end
      BY <2>2, <2>3, <2>5 DEF Stops, Contains
    <2>7. Proper(vs[i]) /\ vs[i].end \in Nat /\ vs[i].start \in Nat /\ vs[i].end <= End
          /\ vs[i].flags \in Flags
      BY <2>3, <2>6, ProperFacts DEF Headed, Sorted, Flags
    <2>8. i \in 2 .. Len(vs)
      <3> SUFFICES ASSUME i = 1 PROVE FALSE
        BY <2>3, <2>6
      <3>1. vs[i].end = Start + Page
        BY <2>3 DEF Headed, Dummy
      <3> QED
        BY <1>1, <2>6, <3>1
    <2>9. len \in Nat
      BY <1>1, Rounding
    <2>10. vmas'[p] = new.areas /\ \A other \in Procs \ {p} : vmas'[other] = vmas[other]
      BY <2>1 DEF MapInv, IInv, ListInv
    <2> HIDE DEF new, vs, len
    <2>11. ASSUME NEW x \in Above, NEW f
           PROVE  Holds(new.areas, x, f) <=> IF Within(addr, len, x) THEN f = q ELSE Holds(vs, x, f)
      <3>1. x \in Int
        BY AboveFacts
      <3> QED
        BY <1>1, <2>1, <2>2, <2>3, <2>6, <2>8, <2>9, <3>1, ReprotectedHolds DEF new
    <2>12. Changed(vs, vmas'[p], addr, len, q)
      BY <2>10, <2>11 DEF Changed
    <2>13. \A x \in Above : ~Holds(vs, x, 0)
      BY DEF MapInv, Colored, vs
    <2>14. Colored(vmas'[p])
      <3>1. q # 0
        BY <2>1
      <3> QED
        BY <2>10, <2>11, <2>13, <3>1 DEF Colored
    <2>15. ASSUME NEW x \in Above, Within(addr, len, x)
           PROVE  \E f \in {1, 3} : Holds(vs, x, f)
      <3>1. Contains(vs[i], x)
        BY <1>1, <2>2, <2>6, <2>7, <2>9, <2>15, AboveFacts DEF Within, Contains
      <3>2. Holds(vs, x, vs[i].flags)
        BY <2>6, <3>1 DEF Holds, On
      <3> QED
        BY <2>7, <2>13, <3>2 DEF Flags
    <2>16. addr + len <= End
      BY <1>1, <2>2, <2>7, <2>9, LayoutAssumption
    <2> QED
      BY <1>2, <2>1, <2>10, <2>12, <2>14, <2>15, <2>16 DEF Effect, vs, len
  <1> QED
    BY <1>3, <1>4 DEF vm_area_mprotect

(* The difference of whole numbers of pages is one.                        *)
LEMMA WholeDifference ==
  ASSUME NEW a \in Int, NEW b \in Int, a % Page = 0, b % Page = 0
  PROVE  (a - b) % Page = 0
  <1>1. Page \in Nat \ {0}
    BY LayoutAssumption
  <1> DEFINE k == a \div Page
             m == b \div Page
  <1>2. a = Page * k /\ k \in Int /\ b = Page * m /\ m \in Int
    BY <1>1, Division
  <1> HIDE DEF k, m
  <1>3. a - b = (k - m) * Page
    BY <1>1, <1>2
  <1>4. k - m \in Int
    BY <1>2
  <1> QED
    BY <1>1, <1>3, <1>4, Multiple

(* What is left to unmap ends at the same page: lengths are rounded up to  *)
(* the same edge from wherever the loop goes on.                           *)
LEMMA AlignedRest ==
  ASSUME NEW length \in Int, 0 <= length, length + Page - 1 <= IntMax,
         NEW d \in Nat, d % Page = 0, d <= length
  PROVE  Aligned(length - d) = Aligned(length) - d
  <1> DEFINE A == Aligned(length)
             B == Aligned(length - d) + d
  <1>1. Page \in Nat \ {0} /\ IntMax \in Nat
    BY LayoutAssumption
  <1>2. A \in Nat /\ A % Page = 0 /\ length <= A /\ A < length + Page
    BY Rounding
  <1>3. /\ Aligned(length - d) \in Nat /\ Aligned(length - d) % Page = 0
        /\ length - d <= Aligned(length - d) /\ Aligned(length - d) < length - d + Page
    <2> DEFINE l == length - d
    <2>1. l \in Int /\ 0 <= l /\ l + Page - 1 <= IntMax
      BY <1>1
    <2> HIDE DEF l
    <2>2. /\ Aligned(l) \in Nat /\ Aligned(l) % Page = 0
          /\ l <= Aligned(l) /\ Aligned(l) < l + Page
      BY <2>1, Rounding
    <2> QED
      BY <2>2 DEF l
  <1>4. B % Page = 0
    BY <1>3, WholeSum
  <1>5. B \in Nat /\ length <= B /\ B < length + Page
    BY <1>1, <1>3
  <1> HIDE DEF A, B
  <1>6. A < B => A + Page <= B
    BY <1>2, <1>4, <1>5, WholeGap
  <1>7. B < A => B + Page <= A
    BY <1>2, <1>4, <1>5, WholeGap
  <1>8. A = B
    BY <1>1, <1>2, <1>5, <1>6, <1>7
  <1> QED
    BY <1>3, <1>8 DEF A, B

(* What an area loses at its end is held no longer (case 2 of              *)
(* vm_area_unmap).                                                         *)
LEMMA ShortenedHolds ==
  ASSUME NEW vs, Headed(vs), NEW i \in 1 .. Len(vs), NEW addr \in Nat,
         vs[i].start <= addr, addr <= vs[i].end, NEW x \in Int, NEW f
  PROVE  Holds([vs EXCEPT ![i] = [vs[i] EXCEPT !.end = addr]], x, f) <=>
           Holds(vs, x, f) /\ ~Within(addr, vs[i].end - addr, x)
  <1> DEFINE a == vs[i]
             before == [a EXCEPT !.end = addr]
  <1>1. Sorted(vs) /\ vs \in Seq(AreaSet)
    BY DEF Headed, Sorted
  <1>2. a \in AreaSet /\ a.start \in Nat /\ a.end \in Nat /\ Start <= a.start /\ a.end <= End
    BY <1>1, ProperFacts DEF Sorted, Proper
  <1>3. addr \in Edges
    BY <1>2, LayoutAssumption DEF Edges
  <1>4. before \in AreaSet /\ before.start = a.start /\ before.end = addr /\ before.flags = a.flags
    <2> HIDE DEF a
    <2> QED
      BY <1>2, <1>3, Moved
  <1>5. /\ Holds(vs, x, f) <=> On(a, x, f) \/ Outside(vs, i, i, x, f)
        /\ Contains(a, x) => ~Outside(vs, i, i, x, f)
    BY <1>1, HoldsOne
  <1> HIDE DEF before
  <1>6. Holds([vs EXCEPT ![i] = before], x, f) <=> On(before, x, f) \/ Outside(vs, i, i, x, f)
    BY <1>1, <1>4, ReplaceHolds
  <1>7. On(before, x, f) <=> On(a, x, f) /\ ~Within(addr, a.end - addr, x)
    BY <1>2, <1>4 DEF On, Contains, Within
  <1>8. Within(addr, a.end - addr, x) => Contains(a, x)
    BY <1>2 DEF Contains, Within
  <1> QED
    BY <1>5, <1>6, <1>7, <1>8 DEF before

(* Between the areas a munmap has come past and the one it looks at        *)
(* nothing is held at or above its address.                                *)
LEMMA BetweenHoldsNone ==
  ASSUME NEW vs, Sorted(vs), NEW i \in 1 .. Len(vs), NEW addr \in Nat,
         \A k \in 1 .. i - 1 : vs[k].end <= addr,
         NEW x \in Int, NEW f, addr <= x, x < vs[i].start
  PROVE  ~Holds(vs, x, f)
  <1> SUFFICES ASSUME NEW k \in 1 .. Len(vs), On(vs[k], x, f) PROVE FALSE
    BY DEF Holds
  <1>1. /\ Len(vs) \in Nat /\ vs[i].start \in Nat
        /\ vs[k].start \in Nat /\ vs[k].end \in Nat
    BY ProperFacts DEF Sorted
  <1>2. CASE k < i
    <2>1. k \in 1 .. i - 1
      BY <1>1, <1>2
    <2>2. vs[k].end <= addr
      BY <2>1
    <2> QED
      BY <1>1, <2>2 DEF On, Contains
  <1>3. CASE k >= i
    <2>1. vs[i].start <= vs[k].start
      BY <1>3, SortedFacts
    <2> QED
      BY <1>1, <2>1 DEF On, Contains
  <1> QED
    BY <1>1, <1>2, <1>3

(* What one turn of the loop does: it frees the cut bytes from its address *)
(* on, finds free what lies below from, and leaves the rest to do.         *)
Turn(cut, from) ==
  /\ cut \in Nat /\ cut <= Aligned(call.length)
  /\ from \in Nat /\ call.addr <= from /\ from <= call.addr + Aligned(call.length)
  /\ Effect(call.proc, call.addr, cut, 0)
  /\ \A x \in Above, f \in {1, 3} :
       x % Page = 0 /\ call.addr <= x /\ x < from => ~Holds(vmas'[call.proc], x, f)
  /\ \/ call' = NoCall /\ from = call.addr + Aligned(call.length)
     \/ /\ call' # NoCall /\ call'.proc = call.proc /\ call'.addr = from
        /\ from + Aligned(call'.length) = call.addr + Aligned(call.length)
  /\ Passed'

(* Going on at an area further up, all below its start being free          *)
LEMMA RestTurn ==
  ASSUME MapInv, call # NoCall,
         NEW cut \in Nat, cut <= Aligned(call.length),
         Effect(call.proc, call.addr, cut, 0),
         NEW node \in Nat \ {0}, NEW from \in Nat, from % Page = 0,
         call.addr <= from, from <= call.addr + call.length,
         \A x \in Above, f \in {1, 3} :
           x % Page = 0 /\ call.addr <= x /\ x < from => ~Holds(vmas'[call.proc], x, f),
         \A k \in 1 .. node - 1 : vmas'[call.proc][k].end <= from,
         UnmapRest(node, from)
  PROVE  Turn(cut, from)
  <1> DEFINE length == call.addr + call.length - from
             d == from - call.addr
  <1>1. /\ call.addr \in Nat /\ call.length \in Nat /\ call.addr % Page = 0
        /\ call.length + Page - 1 <= IntMax /\ Page \in Nat \ {0} /\ IntMax \in Nat
        /\ call \in [proc : alive, node : Nat \ {0}, addr : Nat, length : 1 .. IntMax]
    BY Running DEF MapInv, IInv, CallInv
  <1>2. Aligned(call.length) \in Nat /\ call.length <= Aligned(call.length)
    BY <1>1, Rounding
  <1>3. d \in Nat /\ d % Page = 0 /\ d <= call.length /\ length = call.length - d /\ length \in Nat
    <2>1. d \in Nat /\ d <= call.length /\ length = call.length - d /\ length \in Nat
      BY <1>1
    <2>2. d % Page = 0
      BY <1>1, WholeDifference
    <2> QED
      BY <2>1, <2>2
  <1>4. Aligned(length) = Aligned(call.length) - d
    BY <1>1, <1>3, AlignedRest
  <1>5. from + Aligned(length) = call.addr + Aligned(call.length)
    BY <1>1, <1>2, <1>3, <1>4
  <1>6. from <= call.addr + Aligned(call.length)
    BY <1>1, <1>2
  <1>7. CASE length > 0
    <2>1. call' = [call EXCEPT !.node = node, !.addr = from, !.length = length]
      BY <1>7 DEF UnmapRest
    <2>2. length \in Nat
      BY <1>3
    <2> HIDE DEF length, d
    <2>3. /\ call'.proc = call.proc /\ call'.node = node /\ call'.addr = from
          /\ call'.length = length
      BY <1>1, <2>1
    <2>4. call' # NoCall
      <3>1. call' \in [proc : alive, node : Nat \ {0}, addr : Nat, length : Nat]
        BY <1>1, <2>1, <2>2
      <3>2. "node" \in DOMAIN call' /\ "node" \notin DOMAIN NoCall
        BY <3>1 DEF NoCall
      <3> QED
        BY <3>2
    <2>5. Passed'
      BY <2>3 DEF Passed, List
    <2> QED
      BY <1>5, <1>6, <2>3, <2>4, <2>5 DEF Turn
  <1>8. CASE ~(length > 0)
    <2>1. call' = NoCall
      BY <1>8 DEF UnmapRest, UnmapReturn
    <2>2. length = 0
      BY <1>3, <1>8
    <2>3. Aligned(length) = 0
      <3>1. Aligned(call.length - call.length) = Aligned(call.length) - call.length
        BY <1>1, <1>3, <2>2, AlignedRest
      <3>2. Aligned(0) \in Nat /\ Aligned(0) % Page = 0 /\ Aligned(0) < Page
        BY <1>1, Rounding
      <3>3. Aligned(0) > 0 => 0 + Page <= Aligned(0)
        <4>1. 0 % Page = 0
          BY <1>1
        <4> QED
          BY <3>2, <4>1, WholeGap
      <3> QED
        BY <1>1, <2>2, <3>2, <3>3
    <2>4. from = call.addr + Aligned(call.length)
      BY <1>5, <2>3
    <2>5. Passed'
      BY <2>1 DEF Passed
    <2> QED
      BY <1>6, <2>1, <2>4, <2>5 DEF Turn
  <1> QED
    BY <1>7, <1>8

(* Every turn of the loop of vm_area_unmap is such a step.                 *)
LEMMA UnmapEffect ==
  ASSUME MapInv, UnmapStep
  PROVE  call # NoCall /\ alive' = alive /\ \E cut, from : Turn(cut, from)
  <1> DEFINE len == Aligned(call.length)
             vs == List
             i == call.node
  <1>0. call # NoCall /\ alive' = alive
    BY DEF UnmapStep, UnmapInside, UnmapSpill, UnmapBefore, UnmapPast, UnmapSkip, Elsewhere
  <1>1. /\ call.proc \in Procs /\ Headed(vs) /\ Sorted(vs) /\ Len(vs) \in Nat /\ vs \in Seq(AreaSet)
        /\ i \in 1 .. Len(vs)
        /\ call.addr \in Nat /\ call.addr % Page = 0 /\ call.addr >= Start + Page
        /\ call.length \in Nat /\ call.length > 0 /\ call.length + Page - 1 <= IntMax
        /\ vs[i] = Area
        /\ Area.start \in Nat /\ Area.end \in Nat /\ Area.start <= Area.end
        /\ Area.start % Page = 0 /\ Area.end % Page = 0
    BY <1>0, Running, ProperFacts DEF MapInv, Headed, Proper, Area
  <1>2. len \in Nat /\ call.length <= len /\ len % Page = 0
    BY <1>1, Rounding
  <1>3. \A k \in 1 .. i - 1 : vs[k].end <= call.addr
    BY <1>0 DEF MapInv, Passed
  <1>4. /\ \A x \in Above, f \in {1, 3} :
             call.addr <= x /\ x < Area.start => ~Holds(vs, x, f)
        /\ call.length + call.addr \in Nat
    <2>1. ASSUME NEW x \in Above, NEW f \in {1, 3}, call.addr <= x, x < Area.start
          PROVE  ~Holds(vs, x, f)
      <3>1. x \in Int
        BY AboveFacts
      <3> QED
        BY <1>1, <1>3, <2>1, <3>1, BetweenHoldsNone
    <2> QED
      BY <1>1, <2>1
  <1>5. \A x \in Above, f \in {1, 3} :
          Area.end <= x /\ x < Limit(vs, i) => ~Holds(vs, x, f)
    <2> TAKE x \in Above, f \in {1, 3}
    <2>1. x \in Int
      BY AboveFacts
    <2> QED
      BY <1>1, <2>1, GapHoldsNone
  <1>6. vmas[call.proc] = vs /\ Colored(vs)
    BY <1>1 DEF MapInv, List
  <1>7. vmas' = vmas => Effect(call.proc, call.addr, 0, 0)
    <2> SUFFICES ASSUME vmas' = vmas PROVE Effect(call.proc, call.addr, 0, 0)
      OBVIOUS
    <2>1. \A x \in Above : ~Within(call.addr, 0, x)
      BY <1>1, AboveFacts DEF Within
    <2> QED
      BY <1>6, <2>1 DEF Effect, Changed
  <1>8. CASE UnmapInside
    <2> DEFINE new == Cut(vs, i, call.addr, len)
    <2>1. /\ Area.start <= call.addr /\ call.addr + call.length <= Area.end
          /\ vmas' = [vmas EXCEPT ![call.proc] = new.areas] /\ call' = NoCall
      BY <1>8 DEF UnmapInside, Inside, SetList, UnmapReturn
    <2>2. call.addr + len <= Area.end
      BY <1>1, <2>1, RoundedFits
    <2>3. i \in 2 .. Len(vs)
      BY <1>0, <1>1, <2>1, Running DEF MapInv
    <2>4. /\ vmas'[call.proc] = new.areas
          /\ \A other \in Procs \ {call.proc} : vmas'[other] = vmas[other]
      BY <1>1, <2>1 DEF MapInv, IInv, ListInv
    <2> HIDE DEF new, vs, len
    <2>5. ASSUME NEW x \in Above, NEW f
          PROVE  Holds(new.areas, x, f) <=> Holds(vs, x, f) /\ ~Within(call.addr, len, x)
      <3>1. x \in Int
        BY AboveFacts
      <3> QED
        BY <1>1, <1>2, <2>1, <2>2, <2>3, <3>1, CutHolds DEF new
    <2>6. Effect(call.proc, call.addr, len, 0)
      <3>1. Changed(vs, new.areas, call.addr, len, 0)
        BY <2>5 DEF Changed
      <3>2. Colored(new.areas)
        BY <1>6, <2>5 DEF Colored
      <3> QED
        BY <1>6, <2>4, <3>1, <3>2 DEF Effect
    <2>7. \A x \in Above, f \in {1, 3} :
            call.addr <= x /\ x < call.addr + len => ~Holds(vmas'[call.proc], x, f)
      BY <2>4, <2>5 DEF Within
    <2>8. call.addr + len \in Nat /\ call.addr <= call.addr + len /\ len <= len
      BY <1>1, <1>2
    <2>9. Passed'
      BY <2>1 DEF Passed
    <2>10. Turn(len, call.addr + len)
      BY <1>2, <2>1, <2>6, <2>7, <2>8, <2>9 DEF Turn, len
    <2> QED
      BY <1>0, <2>10
  <1>9. CASE UnmapSpill
    <2> DEFINE before == [Area EXCEPT !.end = call.addr]
               new == [vs EXCEPT ![i] = before]
               cut == Area.end - call.addr
               next == vs[i + 1]
    <2>1. /\ Area.start <= call.addr /\ call.addr < Area.end
          /\ ~(call.addr + call.length <= Area.end)
          /\ vmas' = [vmas EXCEPT ![call.proc] = [List EXCEPT ![call.node].end = call.addr]]
          /\ IF Last \/ call.addr + call.length < next.start
             THEN UnmapReturn(0)
             ELSE UnmapRest(i + 1, next.start)
      BY <1>9 DEF UnmapSpill, Contains, SetList, Inside
    <2>2. [List EXCEPT ![call.node].end = call.addr] = new
      BY <1>1 DEF Area
    <2>3. /\ vmas'[call.proc] = new
          /\ \A other \in Procs \ {call.proc} : vmas'[other] = vmas[other]
      BY <1>1, <2>1, <2>2 DEF MapInv, IInv, ListInv
    <2>4. cut \in Nat /\ cut <= len /\ call.addr + cut = Area.end
      BY <1>1, <1>2, <2>1
    <2>5. /\ \A k \in 1 .. i - 1 : new[k].end <= call.addr
          /\ new[i].end = call.addr
      <3>1. before.end = call.addr
        BY <1>1 DEF AreaSet
      <3> HIDE DEF before
      <3>2. new[i] = before /\ \A k \in 1 .. i - 1 : new[k] = vs[k]
        BY <1>1
      <3> QED
        BY <1>3, <3>1, <3>2
    <2> HIDE DEF new, vs, len, cut
    <2>6. ASSUME NEW x \in Above, NEW f
          PROVE  Holds(new, x, f) <=> Holds(vs, x, f) /\ ~Within(call.addr, cut, x)
      <3>1. x \in Int
        BY AboveFacts
      <3>2. new = [vs EXCEPT ![i] = [vs[i] EXCEPT !.end = call.addr]] /\ cut = vs[i].end - call.addr
        BY <1>1 DEF new, cut
      <3>3. vs[i].start <= call.addr /\ call.addr <= vs[i].end
        BY <1>1, <2>1
      <3> QED
        BY <1>1, <3>1, <3>2, <3>3, ShortenedHolds
    <2>7. Effect(call.proc, call.addr, cut, 0)
      <3>1. Changed(vs, new, call.addr, cut, 0)
        BY <2>6 DEF Changed
      <3>2. Colored(new)
        BY <1>6, <2>6 DEF Colored
      <3> QED
        BY <1>6, <2>3, <3>1, <3>2 DEF Effect
    <2>8. \A x \in Above, f \in {1, 3} :
            call.addr <= x /\ x < Limit(vs, i) => ~Holds(vmas'[call.proc], x, f)
      <3> TAKE x \in Above, f \in {1, 3}
      <3>1. x \in Nat
        BY AboveFacts
      <3>2. CASE x < Area.end
        BY <1>1, <2>3, <2>4, <2>6, <3>1, <3>2 DEF Within
      <3>3. CASE Area.end <= x
        BY <1>5, <2>3, <2>6, <3>3
      <3> QED
        BY <1>1, <3>1, <3>2, <3>3
    <2>9. i < Len(vs) => next.start \in Nat /\ next.start % Page = 0 /\ Area.end <= next.start
      <3>1. i < Len(vs) => i + 1 \in 1 .. Len(vs) /\ i < i + 1
        BY <1>1
      <3> QED
        BY <1>1, <3>1, ProperFacts DEF Sorted, Proper
    <2>10. CASE Last \/ call.addr + call.length < next.start
      <3>1. call' = NoCall
        BY <2>1, <2>10 DEF UnmapReturn
      <3>2. ASSUME NEW x \in Above, x < call.addr + len PROVE x < Limit(vs, i)
        <4>1. CASE i = Len(vs)
          BY <4>1, AboveFacts DEF Limit
        <4>2. CASE i # Len(vs)
          <5>1. i < Len(vs) /\ call.addr + call.length <= next.start
            BY <1>1, <1>4, <2>9, <2>10, <4>2 DEF Last, vs
          <5>2. call.addr + len <= next.start
            BY <1>1, <2>9, <5>1, RoundedFits DEF len
          <5> QED
            BY <1>1, <1>2, <2>9, <3>2, <4>2, <5>1, <5>2, AboveFacts DEF Limit
        <4> QED
          BY <4>1, <4>2
      <3>3. \A x \in Above, f \in {1, 3} :
              call.addr <= x /\ x < call.addr + len => ~Holds(vmas'[call.proc], x, f)
        BY <2>8, <3>2
      <3>4. call.addr + len \in Nat /\ call.addr <= call.addr + len
        BY <1>1, <1>2
      <3>5. Passed'
        BY <3>1 DEF Passed
      <3>6. Turn(cut, call.addr + len)
        BY <2>4, <2>7, <3>1, <3>3, <3>4, <3>5 DEF Turn, len
      <3> QED
        BY <1>0, <3>6
    <2>11. CASE ~(Last \/ call.addr + call.length < next.start)
      <3>1. i < Len(vs) /\ UnmapRest(i + 1, next.start)
        BY <1>1, <2>1, <2>11 DEF Last, vs
      <3>2. /\ next.start \in Nat /\ next.start % Page = 0
            /\ call.addr <= next.start /\ next.start <= call.addr + call.length
        BY <1>1, <1>4, <2>1, <2>9, <2>11, <3>1
      <3>3. \A x \in Above, f \in {1, 3} :
              x % Page = 0 /\ call.addr <= x /\ x < next.start => ~Holds(vmas'[call.proc], x, f)
        BY <1>1, <2>8, <3>1 DEF Limit
      <3>4. \A k \in 1 .. (i + 1) - 1 : vmas'[call.proc][k].end <= next.start
        <4> TAKE k \in 1 .. (i + 1) - 1
        <4>1. k \in 1 .. i - 1 \/ k = i
          BY <1>1
        <4>2. new[k].end <= call.addr
          BY <1>1, <2>5, <4>1
        <4>3. new[k].end \in Nat
          <5>1. k \in 1 .. Len(vs)
            BY <1>1
          <5>2. CASE k = i
            BY <1>1, <2>5, <5>2
          <5>3. CASE k # i
            <6>1. new[k] = vs[k]
              BY <1>1, <5>1, <5>3 DEF new
            <6> QED
              BY <1>1, <5>1, <6>1, ProperFacts DEF Sorted
          <5> QED
            BY <5>2, <5>3
        <4> QED
          BY SMTT(30), <1>1, <2>3, <3>2, <4>2, <4>3
      <3>5. i + 1 \in Nat \ {0}
        BY <1>1
      <3>6. Turn(cut, next.start)
        BY <1>0, <2>4, <2>7, <3>1, <3>2, <3>3, <3>4, <3>5, RestTurn DEF len
      <3> QED
        BY <1>0, <3>6
    <2> QED
      BY <2>10, <2>11
  <1>10. CASE UnmapBefore
    <2>1. /\ call.addr < Area.start /\ call.addr + call.length >= Area.start
          /\ UnmapRest(i, Area.start) /\ vmas' = vmas
      BY <1>10 DEF UnmapBefore
    <2>2. /\ 0 <= len /\ call.addr <= Area.start /\ Area.start <= call.addr + call.length
          /\ i \in Nat \ {0}
      BY <1>1, <1>2, <2>1
    <2>3. \A x \in Above, f \in {1, 3} :
            x % Page = 0 /\ call.addr <= x /\ x < Area.start => ~Holds(vmas'[call.proc], x, f)
      BY <1>4, <1>6, <2>1
    <2>4. \A k \in 1 .. i - 1 : vmas'[call.proc][k].end <= Area.start
      <3> TAKE k \in 1 .. i - 1
      <3>1. k \in 1 .. Len(vs)
        BY <1>1
      <3>2. vs[k].end \in Nat
        BY <1>1, <3>1, ProperFacts DEF Sorted
      <3> QED
        BY <1>1, <1>3, <1>6, <2>1, <3>2
    <2>5. Turn(0, Area.start)
      BY <1>0, <1>1, <1>7, <2>1, <2>2, <2>3, <2>4, RestTurn
    <2> QED
      BY <1>0, <2>5
  <1>11. CASE UnmapPast
    <2>1. /\ ~(call.addr < Area.start /\ call.addr + call.length >= Area.start)
          /\ ~Contains(Area, call.addr)
          /\ Area.start > call.addr + call.length \/ Last
          /\ call' = NoCall /\ vmas' = vmas
      BY <1>11 DEF UnmapPast, Elsewhere, UnmapReturn
    <2>2. ASSUME NEW x \in Above, NEW f \in {1, 3}, call.addr <= x, x < call.addr + len
          PROVE  ~Holds(vs, x, f)
      <3>1. x \in Nat /\ x < End
        BY AboveFacts
      <3>2. CASE call.addr < Area.start
        <4>1. call.addr + call.length <= Area.start
          BY <1>1, <1>4, <2>1, <3>2
        <4>2. call.addr + len <= Area.start
          BY <1>1, <4>1, RoundedFits
        <4> HIDE DEF len
        <4>3. x < Area.start
          BY <1>1, <1>2, <2>2, <3>1, <4>2
        <4> QED
          BY <1>4, <2>2, <4>3
      <3>3. CASE Area.start <= call.addr
        <4>1. Area.end <= call.addr /\ Last
          BY <1>1, <2>1, <3>3 DEF Contains
        <4>2. Area.end <= x /\ x < Limit(vs, i)
          BY <1>1, <2>2, <3>1, <4>1 DEF Limit, Last
        <4> QED
          BY <1>5, <4>2
      <3> QED
        BY <1>1, <3>2, <3>3
    <2>3. \A x \in Above, f \in {1, 3} :
            call.addr <= x /\ x < call.addr + len => ~Holds(vmas'[call.proc], x, f)
      BY <1>6, <2>1, <2>2
    <2>4. call.addr + len \in Nat /\ call.addr <= call.addr + len /\ 0 <= len
      BY <1>1, <1>2
    <2>5. Passed'
      BY <2>1 DEF Passed
    <2>6. Turn(0, call.addr + len)
      BY <1>7, <2>1, <2>3, <2>4, <2>5 DEF Turn
    <2> QED
      BY <1>0, <2>6
  <1>12. CASE UnmapSkip
    <2>1. /\ ~(call.addr < Area.start /\ call.addr + call.length >= Area.start)
          /\ ~Contains(Area, call.addr)
          /\ Area.start <= call.addr + call.length
          /\ call' = [call EXCEPT !.node = @ + 1] /\ vmas' = vmas
      BY <1>12 DEF UnmapSkip, Elsewhere
    <2>2. call \in [proc : alive, node : Nat \ {0}, addr : Nat, length : 1 .. IntMax]
      BY <1>0 DEF MapInv, IInv, CallInv
    <2>3. /\ call'.proc = call.proc /\ call'.node = i + 1 /\ call'.addr = call.addr
          /\ call'.length = call.length
      BY <2>1, <2>2
    <2>4. call' # NoCall
      <3>1. call' \in [proc : alive, node : Nat, addr : Nat, length : 1 .. IntMax]
        BY <2>1, <2>2
      <3>2. "node" \in DOMAIN call' /\ "node" \notin DOMAIN NoCall
        BY <3>1 DEF NoCall
      <3> QED
        BY <3>2
    <2>5. Area.end <= call.addr
      BY <1>1, <1>4, <2>1 DEF Contains
    <2>6. \A k \in 1 .. (i + 1) - 1 : vs[k].end <= call.addr
      <3> TAKE k \in 1 .. (i + 1) - 1
      <3>1. k \in 1 .. i - 1 \/ k = i
        BY <1>1
      <3> QED
        BY <1>1, <1>3, <2>5, <3>1
    <2>7. Passed'
      BY <2>1, <2>3, <2>6 DEF Passed, List
    <2>8. \A x \in Above : ~(call.addr <= x /\ x < call.addr)
      BY <1>1, AboveFacts
    <2>9. 0 <= len /\ call.addr <= call.addr /\ call.addr <= call.addr + len
      BY <1>1, <1>2
    <2>10. Turn(0, call.addr)
      BY <1>1, <1>7, <2>1, <2>3, <2>4, <2>7, <2>8, <2>9 DEF Turn
    <2> QED
      BY <1>0, <2>10
  <1> QED
    BY <1>8, <1>9, <1>10, <1>11, <1>12 DEF UnmapStep

(* The lists of the other processes stay as they were.                     *)
LEMMA EffectColored ==
  ASSUME MapInv, NEW p \in Procs, NEW addr, NEW len, NEW q, Effect(p, addr, len, q)
  PROVE  \A r \in Procs : Colored(vmas'[r])
  BY DEF MapInv, Effect

(* The invariant of the page map holds at first and after every step.      *)
LEMMA MapInvInit == Init => MapInv
  <1> SUFFICES ASSUME Init PROVE MapInv
    OBVIOUS
  <1>1. IInv
    BY InitKeeps
  <1>2. \A p \in Procs : Colored(vmas[p])
    BY ShortHolds DEF Init, Colored
  <1> QED
    BY <1>1, <1>2 DEF Init, MapInv, Passed

(* Every step keeps the invariant of the page map.                         *)
LEMMA MapInvNext == MapInv /\ [OrderlyNext]_vars => MapInv'
  <1> SUFFICES ASSUME MapInv, [OrderlyNext]_vars PROVE MapInv'
    OBVIOUS
  <1>0. IInv'
    BY NextKeeps DEF MapInv
  <1> SUFFICES (\A r \in Procs : Colored(vmas'[r])) /\ Passed'
    BY <1>0 DEF MapInv
  <1>1. CASE \E p \in Procs, addr \in Addrs, length \in Lengths, q \in ProtArgs, flag \in FlagArgs :
               Plain(addr, length) /\ vm_area_map(p, addr, length, q, flag)
    BY <1>1, MapEffect, EffectColored DEF Passed
  <1>2. CASE \E p \in Procs, addr \in Addrs, length \in Lengths :
               Usable(addr) /\ Plain(addr, length) /\ vm_area_unmap(p, addr, length)
    <2>1. PICK p \in Procs, addr \in Addrs, length \in Lengths : vm_area_unmap(p, addr, length)
      BY <1>2
    <2>2. /\ vmas' = vmas
          /\ \/ call' = [proc |-> p, node |-> 1, addr |-> addr, length |-> length]
             \/ call' = call /\ call = NoCall
      BY <2>1 DEF vm_area_unmap, Idle
    <2>3. Passed'
      BY <2>2 DEF Passed
    <2> QED
      BY <2>2, <2>3 DEF MapInv
  <1>3. CASE \E p \in Procs, addr \in Addrs, length \in Lengths, q \in ProtArgs :
               /\ Usable(addr) /\ Plain(addr, length) /\ InOneArea(p, addr, length)
               /\ vm_area_mprotect(p, addr, length, q)
    BY <1>3, ProtectEffect, EffectColored DEF Passed
  <1>4. CASE \E p, child \in Procs : do_cfork(p, child)
    <2>1. PICK p \in Procs, child \in Procs : do_cfork(p, child)
      BY <1>4
    <2>2. /\ call' = call /\ call = NoCall
          /\ vmas' = [vmas EXCEPT ![child] =
                        IF vmas[p] = << >> THEN << >> ELSE <<Dummy>> \o Tail(vmas[p])]
      BY <2>1 DEF do_cfork, Idle
    <2>3. vmas' = [vmas EXCEPT ![child] = vmas[p]]
      BY <2>2, CopyIsSame DEF MapInv, IInv, ListInv
    <2>4. \A r \in Procs : vmas'[r] = vmas[r] \/ vmas'[r] = vmas[p]
      BY <2>3 DEF MapInv, IInv, ListInv
    <2> QED
      BY <2>2, <2>4 DEF MapInv, Passed
  <1>5. CASE \E p \in Procs : do_exit(p)
    <2>1. PICK p \in Procs : do_exit(p)
      BY <1>5
    <2>2. call' = call /\ call = NoCall /\ vmas' = [vmas EXCEPT ![p] = << >>]
      BY <2>1 DEF do_exit, Idle
    <2>3. \A r \in Procs : vmas'[r] = vmas[r] \/ vmas'[r] = << >>
      BY <2>2 DEF MapInv, IInv, ListInv
    <2>4. Colored(<< >>)
      BY ShortHolds DEF Colored
    <2> QED
      BY <2>2, <2>3, <2>4 DEF MapInv, Passed
  <1>6. CASE UnmapStep
    <2>1. PICK cut, from : Turn(cut, from)
      BY <1>6, UnmapEffect
    <2>2. call.proc \in Procs
      BY <1>6, UnmapEffect, Running DEF MapInv
    <2> QED
      BY <2>1, <2>2, EffectColored DEF Turn
  <1>7. CASE UNCHANGED vars
    <2>1. vmas' = vmas /\ call' = call
      BY <1>7 DEF vars
    <2> QED
      BY <2>1 DEF MapInv, Passed, List
  <1> QED
    BY <1>1, <1>2, <1>3, <1>4, <1>5, <1>6, <1>7 DEF OrderlyNext

-----------------------------------------------------------------------------
(* Pages                                                                   *)

Pages == FirstPage .. LastPage

(* The pages of the region lie behind the dummy area.                      *)
LEMMA PageFacts ==
  /\ FirstPage \in Nat /\ LastPage \in Int
  /\ \A g \in Pages : g \in Nat /\ g * Page \in Above /\ (g * Page) % Page = 0
  <1>1. Page \in Nat \ {0} /\ Start \in Nat /\ End \in Nat /\ Start % Page = 0 /\ End % Page = 0
    BY LayoutAssumption
  <1> DEFINE s == Start \div Page
             e == End \div Page
  <1>2. Start = Page * s /\ s \in Int /\ End = Page * e /\ e \in Int
    BY <1>1, Division
  <1>3. s >= 0
    BY <1>1
  <1> HIDE DEF s, e
  <1>4. FirstPage = s + 1 /\ LastPage = e - 1
    BY DEF FirstPage, LastPage, s, e
  <1>5. ASSUME NEW g \in Pages PROVE g \in Nat /\ g * Page \in Above /\ (g * Page) % Page = 0
    <2>1. g \in Nat /\ s + 1 <= g /\ g + 1 <= e
      BY <1>2, <1>3, <1>4, <1>5 DEF Pages
    <2>2. Page * (s + 1) <= Page * g /\ Page * (g + 1) <= Page * e
      BY <1>1, <1>2, <2>1
    <2>3. Start + Page <= g * Page /\ g * Page + Page <= End
      BY <1>1, <1>2, <2>1, <2>2
    <2>4. g * Page \in Nat
      BY <1>1, <2>1
    <2>5. g * Page \in Above
      <3> DEFINE x == g * Page
      <3>1. x \in Nat /\ Start + Page <= x /\ x + Page <= End
        BY <2>3, <2>4
      <3> HIDE DEF x
      <3>2. x \in Above
        BY <1>1, <3>1 DEF Above, Edges
      <3> QED
        BY <3>2 DEF x
    <2>6. (g * Page) % Page = 0
      BY <1>1, <2>1, Multiple
    <2> QED
      BY <2>1, <2>5, <2>6
  <1> QED
    BY <1>2, <1>3, <1>4, <1>5

(* The pages of a range of whole pages                                     *)
LEMMA RangePages ==
  ASSUME NEW addr \in Nat, addr % Page = 0, NEW len \in Nat, len % Page = 0,
         Start + Page <= addr
  PROVE  \E first, last \in Int :
           /\ FirstPage <= first
           /\ \A g \in Int : Within(addr, len, g * Page) <=> g \in first .. last
           /\ addr + len <= End => last <= LastPage
           /\ len > 0 => first <= last
           /\ first <= last => (addr < End => first <= LastPage)
  <1>1. Page \in Nat \ {0} /\ Start \in Nat /\ End \in Nat /\ Start % Page = 0 /\ End % Page = 0
    BY LayoutAssumption
  <1> DEFINE s == Start \div Page
             e == End \div Page
             k == addr \div Page
             m == len \div Page
  <1>2. Start = Page * s /\ s \in Int /\ End = Page * e /\ e \in Int
    BY <1>1, Division
  <1>3. addr = Page * k /\ k \in Int /\ len = Page * m /\ m \in Int
    BY <1>1, Division
  <1>4. FirstPage = s + 1 /\ LastPage = e - 1
    BY DEF FirstPage, LastPage
  <1> HIDE DEF s, e, k, m
  <1>5. \A a, b \in Int : Page * a <= Page * b <=> a <= b
    BY <1>1
  <1>6. \A a, b \in Int : Page * a < Page * b <=> a < b
    BY <1>1
  <1>7. addr + len = Page * (k + m) /\ k + m \in Int
    BY <1>1, <1>3
  <1>8. Start + Page = Page * (s + 1) /\ s + 1 \in Int
    BY <1>1, <1>2
  <1>9. FirstPage <= k
    BY <1>3, <1>4, <1>5, <1>8
  <1>10. ASSUME NEW g \in Int
         PROVE  Within(addr, len, g * Page) <=> g \in k .. (k + m) - 1
    <2>1. g * Page = Page * g
      BY <1>1
    <2>2. addr <= Page * g <=> k <= g
      BY <1>3, <1>5
    <2>3. Page * g < addr + len <=> g < k + m
      BY <1>6, <1>7
    <2> QED
      BY <1>3, <1>7, <2>1, <2>2, <2>3 DEF Within
  <1>11. addr + len <= End => k + m <= e
    BY <1>2, <1>5, <1>7
  <1>12. len > 0 => m > 0
    BY <1>1, <1>3
  <1>13. addr < End => k < e
    BY <1>2, <1>3, <1>6
  <1>14. k \in Int /\ (k + m) - 1 \in Int
    BY <1>3
  <1> USE <1>14
  <1> WITNESS k \in Int, (k + m) - 1 \in Int
  <1> QED
    BY <1>2, <1>3, <1>4, <1>9, <1>10, <1>11, <1>12, <1>13

(* What a change to a list does to the flags of every page                 *)
LEMMA EffectPages ==
  ASSUME MapInv, MapInv', NEW p \in Procs, NEW addr, NEW len, NEW q \in Flags,
         Effect(p, addr, len, q)
  PROVE  \A r \in Procs, g \in Pages :
           FlagsAt(vmas'[r], g * Page) =
             IF r = p /\ Within(addr, len, g * Page) THEN q ELSE FlagsAt(vmas[r], g * Page)
  <1> TAKE r \in Procs, g \in Pages
  <1>1. g * Page \in Above
    BY PageFacts
  <1>2. CASE r # p
    BY <1>2 DEF Effect
  <1>3. CASE r = p
    <2>1. /\ IsList(vmas[p]) /\ Colored(vmas[p]) /\ IsList(vmas'[p]) /\ Colored(vmas'[p])
          /\ Changed(vmas[p], vmas'[p], addr, len, q)
      BY DEF MapInv, IInv, ListInv, IsList, Effect
    <2> QED
      BY <1>1, <1>3, <2>1, ChangedFlags
  <1> QED
    BY <1>2, <1>3

(* The same of the page map of AddrMap                                     *)
LEMMA EffectProt ==
  ASSUME MapInv, MapInv', NEW p \in Procs, NEW addr, NEW len, NEW q \in Flags,
         Effect(p, addr, len, q),
         NEW S, \A g \in Pages : g \in S <=> Within(addr, len, g * Page)
  PROVE  prot' = Abstract!With(p, S, q)
  <1>1. \A r \in Procs, g \in Pages :
           FlagsAt(vmas'[r], g * Page) = IF r = p /\ g \in S THEN q ELSE FlagsAt(vmas[r], g * Page)
    BY EffectPages
  <1>2. prot' = [r \in Procs |-> [g \in Pages |-> FlagsAt(vmas'[r], g * Page)]]
    BY DEF prot, Pages
  <1>3. prot = [r \in Procs |-> [g \in Pages |-> FlagsAt(vmas[r], g * Page)]]
    BY DEF prot, Pages
  <1> DEFINE new == [g \in Pages |-> IF g \in S THEN q ELSE prot[p][g]]
  <1>4. Abstract!With(p, S, q) = [prot EXCEPT ![p] = new]
    BY DEF Abstract!With, Abstract!Pages, Pages
  <1>5. \A g \in Pages : new[g] = FlagsAt(vmas'[p], g * Page)
    BY <1>1, <1>3
  <1>6. new = [g \in Pages |-> FlagsAt(vmas'[p], g * Page)]
    BY <1>5
  <1> HIDE DEF new
  <1>7. \A r \in Procs \ {p} : [g \in Pages |-> FlagsAt(vmas'[r], g * Page)] =
                                 [g \in Pages |-> FlagsAt(vmas[r], g * Page)]
    BY <1>1
  <1>8. [prot EXCEPT ![p] = new] = [r \in Procs |-> IF r = p THEN new ELSE prot[r]]
    BY <1>3
  <1>9. ASSUME NEW r \in Procs
        PROVE  [g \in Pages |-> FlagsAt(vmas'[r], g * Page)] = IF r = p THEN new ELSE prot[r]
    BY <1>3, <1>6, <1>7
  <1> QED
    BY <1>2, <1>4, <1>8, <1>9

(* A call of no effect changes no page.                                    *)
LEMMA NoEffect ==
  ASSUME MapInv, MapInv', NEW p \in Procs, NEW addr, NEW len, NEW q \in Flags,
         Effect(p, addr, len, q), \A x \in Above : ~Within(addr, len, x)
  PROVE  prot' = prot
  <1>1. \A r \in Procs, g \in Pages : FlagsAt(vmas'[r], g * Page) = FlagsAt(vmas[r], g * Page)
    BY EffectPages, PageFacts
  <1> QED
    BY <1>1, Zenon DEF prot, Pages

(* The pages a munmap has still to free                                    *)
LEMMA ClearingIs ==
  /\ call = NoCall => clearing = [p \in Procs |-> {}]
  /\ call # NoCall => clearing = [p \in Procs |->
       IF p = call.proc
       THEN {g \in Pages : Within(call.addr, Aligned(call.length), g * Page)} ELSE {}]
  <1>1. call = NoCall => clearing = [p \in Procs |-> {}]
    BY DEF clearing
  <1>2. ASSUME call # NoCall
        PROVE  clearing = [p \in Procs |->
                 IF p = call.proc
                 THEN {g \in Pages : Within(call.addr, Aligned(call.length), g * Page)} ELSE {}]
    <2>1. \A p \in Procs :
            (IF call # NoCall /\ call.proc = p
             THEN {g \in FirstPage .. LastPage :
                     call.addr <= g * Page /\ g * Page < call.addr + Aligned(call.length)}
             ELSE {}) =
            (IF p = call.proc
             THEN {g \in Pages : Within(call.addr, Aligned(call.length), g * Page)} ELSE {})
      BY <1>2 DEF Pages, Within
    <2> QED
      BY <2>1 DEF clearing
  <1> QED
    BY <1>1, <1>2

(* mmap and mprotect: pages first .. last get a protection, or none do.    *)
LEMMA MapRefines ==
  ASSUME MapInv, MapInv', NEW p \in Procs,
         NEW addr \in Addrs, NEW length \in Lengths, NEW q \in ProtArgs, NEW flag \in FlagArgs,
         Plain(addr, length), vm_area_map(p, addr, length, q, flag)
  PROVE  [Abstract!Next]_(Abstract!vars)
  <1>1. /\ p \in alive /\ call = NoCall /\ alive' = alive /\ call' = call
        /\ \/ ret' = -EINVAL /\ Effect(p, 0, 0, 0)
           \/ /\ ret' \in Nat /\ ret' % Page = 0 /\ q \in {1, 3} /\ 0 <= length
              /\ Start + Page <= ret' /\ ret' + Aligned(length) <= End
              /\ Effect(p, ret', Aligned(length), q)
              /\ \A x \in Above, f \in Flags :
                   Within(ret', Aligned(length), x) => ~Holds(vmas[p], x, f)
    BY MapEffect
  <1>2. clearing' = clearing /\ clearing[p] = {}
    BY <1>1, ClearingIs DEF clearing
  <1>3. CASE Effect(p, 0, 0, 0)
    <2>1. \A x \in Above : ~Within(0, 0, x)
      BY AboveFacts DEF Within
    <2>2. prot' = prot
      BY <1>3, <2>1, NoEffect DEF Flags
    <2> QED
      BY <1>1, <1>2, <2>2 DEF Abstract!vars
  <1>4. CASE /\ ret' \in Nat /\ ret' % Page = 0 /\ q \in {1, 3} /\ 0 <= length
             /\ Start + Page <= ret' /\ ret' + Aligned(length) <= End
             /\ Effect(p, ret', Aligned(length), q)
             /\ \A x \in Above, f \in Flags :
                  Within(ret', Aligned(length), x) => ~Holds(vmas[p], x, f)
    <2> DEFINE at == ret'
               len == Aligned(length)
    <2>1. len \in Nat /\ len % Page = 0 /\ End \in Nat
      <3>1. length \in Int /\ length + Page - 1 <= IntMax
        BY LayoutAssumption DEF Plain
      <3> QED
        BY <1>4, <3>1, Rounding, LayoutAssumption
    <2>a. at \in Nat /\ at % Page = 0 /\ Start + Page <= at /\ at + len <= End
          /\ Effect(p, at, len, q) /\ q \in {1, 3} /\ q \in Flags
      BY <1>4 DEF Flags
    <2>b. \A x \in Above, f \in Flags : Within(at, len, x) => ~Holds(vmas[p], x, f)
      BY <1>4
    <2> HIDE DEF at, len
    <2>2. CASE len = 0
      <3>1. \A x \in Above : ~Within(at, len, x)
        BY <2>2, <2>a, AboveFacts DEF Within
      <3>2. prot' = prot
        BY <2>a, <3>1, NoEffect
      <3> QED
        BY <1>1, <1>2, <3>2 DEF Abstract!vars
    <2>3. CASE len > 0
      <3>1. PICK first \in Int, last \in Int :
              /\ FirstPage <= first
              /\ \A g \in Int : Within(at, len, g * Page) <=> g \in first .. last
              /\ at + len <= End => last <= LastPage
              /\ len > 0 => first <= last
        BY <2>1, <2>a, RangePages
      <3>2. first \in Pages /\ last \in Pages /\ \A g \in first .. last : g \in Pages
        BY <2>a, <2>3, <3>1, PageFacts DEF Pages
      <3>3. prot' = Abstract!With(p, first .. last, q)
        <4>1. \A g \in Pages : g \in first .. last <=> Within(at, len, g * Page)
          BY <3>1, PageFacts
        <4> QED
          BY <2>a, <4>1, EffectProt
      <3>4. \A g \in first .. last : prot[p][g] = 0
        <4> TAKE g \in first .. last
        <4>1. g \in Pages /\ g * Page \in Above /\ Within(at, len, g * Page) /\ g * Page \in Nat
          BY <3>1, <3>2, PageFacts, AboveFacts
        <4>2. \A f \in Flags : ~Holds(vmas[p], g * Page, f)
          BY <2>b, <4>1
        <4>3. FlagsAt(vmas[p], g * Page) = 0
          BY <4>1, <4>2, FlagsAtFree, ListOf DEF MapInv
        <4> QED
          BY <4>1, <4>3 DEF prot, Pages
      <3>5. Abstract!Map(p, first, last, q)
        BY <1>1, <1>2, <3>3, <3>4 DEF Abstract!Map, Abstract!Idle
      <3> QED
        BY <2>a, <3>2, <3>5 DEF Abstract!Next, Abstract!Pages, Abstract!Prots, Pages
    <2> QED
      BY <2>1, <2>2, <2>3
  <1> QED
    BY <1>1, <1>3, <1>4

(* An mprotect inside one area is a Protect of its pages.                  *)
LEMMA ProtectRefines ==
  ASSUME MapInv, MapInv', NEW p \in Procs,
         NEW addr \in Addrs, NEW length \in Lengths, NEW q \in ProtArgs,
         Usable(addr), Plain(addr, length), InOneArea(p, addr, length),
         vm_area_mprotect(p, addr, length, q)
  PROVE  [Abstract!Next]_(Abstract!vars)
  <1>1. /\ p \in alive /\ call = NoCall /\ alive' = alive /\ call' = call
        /\ \/ ret' = -EINVAL /\ Effect(p, 0, 0, 0)
           \/ /\ ret' = 0 /\ q \in {1, 3} /\ addr + Aligned(length) <= End
              /\ Effect(p, addr, Aligned(length), q)
              /\ \A x \in Above :
                   Within(addr, Aligned(length), x) => \E f \in {1, 3} : Holds(vmas[p], x, f)
    BY ProtectEffect
  <1>2. clearing' = clearing /\ clearing[p] = {}
    BY <1>1, ClearingIs DEF clearing
  <1>3. CASE Effect(p, 0, 0, 0)
    <2>1. \A x \in Above : ~Within(0, 0, x)
      BY AboveFacts DEF Within
    <2>2. prot' = prot
      BY <1>3, <2>1, NoEffect DEF Flags
    <2> QED
      BY <1>1, <1>2, <2>2 DEF Abstract!vars
  <1>4. CASE /\ q \in {1, 3} /\ addr + Aligned(length) <= End
             /\ Effect(p, addr, Aligned(length), q)
             /\ \A x \in Above :
                  Within(addr, Aligned(length), x) => \E f \in {1, 3} : Holds(vmas[p], x, f)
    <2> DEFINE len == Aligned(length)
    <2>1. /\ len \in Nat /\ len % Page = 0 /\ len > 0 /\ End \in Nat
          /\ addr \in Nat /\ addr % Page = 0 /\ Start + Page <= addr /\ q \in Flags
      <3>1. /\ length \in Int /\ length + Page - 1 <= IntMax /\ 0 < length
            /\ addr \in Nat /\ Start \in Nat /\ Page \in Nat /\ End \in Nat
        BY LayoutAssumption DEF Plain, InOneArea
      <3> QED
        BY <1>4, <3>1, Rounding DEF Plain, Usable, Flags
    <2>2. PICK first \in Int, last \in Int :
            /\ FirstPage <= first
            /\ \A g \in Int : Within(addr, len, g * Page) <=> g \in first .. last
            /\ addr + len <= End => last <= LastPage
            /\ len > 0 => first <= last
      BY <2>1, RangePages
    <2>3. first \in Pages /\ last \in Pages /\ \A g \in first .. last : g \in Pages
      BY <1>4, <2>1, <2>2, PageFacts DEF Pages
    <2> HIDE DEF len
    <2>4. prot' = Abstract!With(p, first .. last, q)
      <3>1. \A g \in Pages : g \in first .. last <=> Within(addr, len, g * Page)
        BY <2>2, PageFacts
      <3> QED
        BY <1>4, <2>1, <3>1, EffectProt DEF len
    <2>5. \A g \in first .. last : prot[p][g] # 0
      <3> TAKE g \in first .. last
      <3>1. g \in Pages /\ g * Page \in Above /\ Within(addr, len, g * Page)
        BY <2>2, <2>3, PageFacts
      <3>2. \E f \in {1, 3} : Holds(vmas[p], g * Page, f)
        BY <1>4, <3>1 DEF len
      <3>3. FlagsAt(vmas[p], g * Page) # 0
        BY <3>1, <3>2, FlagsAtAbove, ListOf DEF MapInv
      <3> QED
        BY <3>1, <3>3 DEF prot, Pages
    <2>6. Abstract!Protect(p, first, last, q)
      BY <1>1, <1>2, <2>4, <2>5 DEF Abstract!Protect, Abstract!Idle
    <2> QED
      BY <1>4, <2>3, <2>6 DEF Abstract!Next, Abstract!Pages, Abstract!Prots, Pages
  <1> QED
    BY <1>1, <1>3, <1>4

(* munmap begins: it has the pages from its address on to free, as many as *)
(* there are.                                                              *)
LEMMA UnmapBeginsRefines ==
  ASSUME MapInv, NEW p \in Procs, NEW addr \in Addrs, NEW length \in Lengths,
         Usable(addr), Plain(addr, length), vm_area_unmap(p, addr, length)
  PROVE  [Abstract!Next]_(Abstract!vars)
  <1>1. /\ p \in alive /\ call = NoCall /\ alive' = alive /\ vmas' = vmas
        /\ clearing = [r \in Procs |-> {}]
    BY ClearingIs DEF vm_area_unmap, Idle
  <1>2. prot' = prot
    BY <1>1 DEF prot
  <1>3. CASE ~(length > 0 /\ vmas[p] # << >>)
    <2>1. call' = call
      BY <1>3 DEF vm_area_unmap
    <2> QED
      BY <1>1, <1>2, <2>1 DEF Abstract!vars, clearing
  <1>4. CASE length > 0 /\ vmas[p] # << >>
    <2> DEFINE len == Aligned(length)
               S == {g \in Pages : Within(addr, len, g * Page)}
    <2>1. call' = [proc |-> p, node |-> 1, addr |-> addr, length |-> length]
      BY <1>4 DEF vm_area_unmap
    <2>2. /\ len \in Nat /\ len % Page = 0 /\ len > 0
          /\ addr \in Nat /\ addr % Page = 0 /\ Start + Page <= addr
      <3>1. /\ length \in Int /\ length + Page - 1 <= IntMax /\ 0 < length
            /\ addr \in Nat /\ Start \in Nat /\ Page \in Nat
        BY <1>4, LayoutAssumption DEF Plain
      <3> QED
        BY <3>1, Rounding DEF Plain, Usable
    <2>3. clearing' = [clearing EXCEPT ![p] = S]
      <3>1. /\ call'.proc = p /\ call'.addr = addr /\ call'.length = length
            /\ call' # NoCall
        <4>1. call'.proc = p /\ call'.addr = addr /\ call'.length = length
          BY <2>1
        <4>2. "node" \in DOMAIN call' /\ "node" \notin DOMAIN NoCall
          BY <2>1 DEF NoCall
        <4> QED
          BY <4>1, <4>2
      <3>2. clearing' = [r \in Procs |-> IF call' # NoCall /\ call'.proc = r
                           THEN {g \in FirstPage .. LastPage :
                                   call'.addr <= g * Page /\ g * Page < call'.addr + Aligned(call'.length)}
                           ELSE {}]
        BY DEF clearing
      <3>3. S = {g \in FirstPage .. LastPage :
                   call'.addr <= g * Page /\ g * Page < call'.addr + Aligned(call'.length)}
        BY <3>1 DEF Pages, Within
      <3> HIDE DEF S
      <3>4. clearing' = [r \in Procs |-> IF p = r THEN S ELSE {}]
        BY <3>1, <3>2, <3>3
      <3> QED
        BY <1>1, <3>4
    <2> HIDE DEF len
    <2>4. PICK first \in Int, last \in Int :
            /\ FirstPage <= first
            /\ \A g \in Int : Within(addr, len, g * Page) <=> g \in first .. last
      BY <2>2, RangePages
    <2>5. CASE S = {}
      <3>1. clearing' = clearing
        BY <1>1, <2>3, <2>5
      <3> QED
        BY <1>1, <1>2, <3>1 DEF Abstract!vars
    <2>6. CASE S # {}
      <3> DEFINE upto == IF last <= LastPage THEN last ELSE LastPage
      <3>1. S = first .. upto
        <4>1. \A g \in Pages : g \in Int
          BY PageFacts
        <4>2. \A g : g \in S <=> g \in Pages /\ g \in first .. last
          BY <2>4, <4>1
        <4>3. \A g \in Int : g \in Pages /\ g \in first .. last <=> g \in first .. upto
          BY <2>4, PageFacts DEF Pages
        <4> QED
          BY <4>1, <4>2, <4>3
      <3>2. first \in Pages /\ upto \in Pages
        <4>1. PICK g \in Int : g \in first .. upto
          BY <2>6, <3>1
        <4> QED
          BY <2>4, <4>1, PageFacts DEF Pages
      <3> HIDE DEF S, upto
      <3>3. Abstract!StartUnmap(p, first, upto)
        BY <1>1, <1>2, <2>3, <3>1 DEF Abstract!StartUnmap, Abstract!Idle
      <3> QED
        BY <3>2, <3>3 DEF Abstract!Next, Abstract!Pages, Pages
    <2> QED
      BY <2>5, <2>6
  <1> QED
    BY <1>3, <1>4

(* A turn of the loop frees pages it was asked to free and no other, and   *)
(* the loop ends when all are free.                                        *)
LEMMA TurnRefines ==
  ASSUME MapInv, MapInv', UnmapStep
  PROVE  [Abstract!Next]_(Abstract!vars)
  <1> DEFINE p == call.proc
             len == Aligned(call.length)
             todo == clearing[p]
             rest == clearing'[p]
             S == {g \in todo : prot'[p][g] = 0}
  <1>1. /\ call # NoCall /\ alive' = alive /\ p \in Procs /\ p \in alive
        /\ call.addr \in Nat /\ call.addr % Page = 0 /\ len \in Nat
    <2>1. call # NoCall
      BY UnmapEffect
    <2>2. 0 <= call.length /\ call.length \in Int /\ call.length + Page - 1 <= IntMax
      BY <2>1, Running DEF MapInv
    <2> QED
      BY <2>1, <2>2, UnmapEffect, Running, Rounding DEF MapInv
  <1>2. PICK cut, from : Turn(cut, from)
    BY UnmapEffect
  <1>3. /\ cut \in Nat /\ cut <= len /\ from \in Nat
        /\ call.addr <= from /\ from <= call.addr + len
        /\ Effect(p, call.addr, cut, 0)
        /\ \A x \in Above, f \in {1, 3} :
             x % Page = 0 /\ call.addr <= x /\ x < from => ~Holds(vmas'[p], x, f)
        /\ \/ call' = NoCall /\ from = call.addr + len
           \/ /\ call' # NoCall /\ call'.proc = p /\ call'.addr = from
              /\ from + Aligned(call'.length) = call.addr + len
    BY <1>2 DEF Turn
  <1>4. clearing = [r \in Procs |->
          IF r = p THEN {g \in Pages : Within(call.addr, len, g * Page)} ELSE {}]
    BY <1>1, ClearingIs
  <1>5. todo = {g \in Pages : Within(call.addr, len, g * Page)}
    BY <1>1, <1>4
  <1> HIDE DEF p, len
  <1>6. clearing' = [r \in Procs |->
          IF r = p THEN {g \in Pages : from <= g * Page /\ Within(call.addr, len, g * Page)} ELSE {}]
    <2>1. clearing' = [r \in Procs |-> IF call' # NoCall /\ call'.proc = r
                         THEN {g \in FirstPage .. LastPage :
                                 call'.addr <= g * Page /\ g * Page < call'.addr + Aligned(call'.length)}
                         ELSE {}]
      BY DEF clearing
    <2>2. CASE call' = NoCall /\ from = call.addr + len
      <3>1. \A g \in Pages : ~(from <= g * Page /\ Within(call.addr, len, g * Page))
        BY <1>3, <2>2, PageFacts, AboveFacts DEF Within
      <3>2. {g \in Pages : from <= g * Page /\ Within(call.addr, len, g * Page)} = {}
        BY <3>1
      <3>3. clearing' = [r \in Procs |-> {}]
        BY <2>1, <2>2
      <3> QED
        BY <3>2, <3>3
    <2>3. CASE /\ call' # NoCall /\ call'.proc = p /\ call'.addr = from
               /\ from + Aligned(call'.length) = call.addr + len
      <3>1. \A g \in Pages :
              (from <= g * Page /\ Within(call.addr, len, g * Page)) <=>
              (call'.addr <= g * Page /\ g * Page < call'.addr + Aligned(call'.length))
        <4> TAKE g \in Pages
        <4> DEFINE x == g * Page
        <4>1. x \in Nat
          BY PageFacts, AboveFacts
        <4> HIDE DEF x
        <4>2. (from <= x /\ Within(call.addr, len, x)) <=>
              (call'.addr <= x /\ x < call'.addr + Aligned(call'.length))
          BY <1>1, <1>3, <2>3, <4>1 DEF Within, p
        <4> QED
          BY <4>2 DEF x
      <3>2. {g \in Pages : from <= g * Page /\ Within(call.addr, len, g * Page)} =
            {g \in FirstPage .. LastPage :
               call'.addr <= g * Page /\ g * Page < call'.addr + Aligned(call'.length)}
        BY <3>1 DEF Pages
      <3> QED
        BY <2>1, <2>3, <3>2
    <2> QED
      BY <1>3, <2>2, <2>3
  <1>7. rest = {g \in Pages : from <= g * Page /\ Within(call.addr, len, g * Page)}
    BY <1>1, <1>6 DEF p
  <1>8. \A r \in Procs, g \in Pages :
          FlagsAt(vmas'[r], g * Page) =
            IF r = p /\ Within(call.addr, cut, g * Page) THEN 0 ELSE FlagsAt(vmas[r], g * Page)
    <2>1. p \in Procs /\ 0 \in Flags
      BY <1>1 DEF p, Flags
    <2> QED
      BY <1>3, <2>1, EffectPages
  <1>9. /\ prot = [r \in Procs |-> [g \in Pages |-> FlagsAt(vmas[r], g * Page)]]
        /\ prot' = [r \in Procs |-> [g \in Pages |-> FlagsAt(vmas'[r], g * Page)]]
    BY DEF prot, Pages
  <1>10. \A g \in Pages : prot'[p][g] = 0 \/ prot'[p][g] = prot[p][g]
    BY <1>1, <1>8, <1>9 DEF p
  <1>11. \A g \in Pages : g \notin todo => prot'[p][g] = prot[p][g]
    <2> SUFFICES ASSUME NEW g \in Pages, g \notin todo PROVE prot'[p][g] = prot[p][g]
      OBVIOUS
    <2>1. ~Within(call.addr, cut, g * Page)
      <3> DEFINE x == g * Page
      <3>1. x \in Nat /\ ~Within(call.addr, len, x)
        BY <1>5, PageFacts, AboveFacts
      <3> HIDE DEF x
      <3>2. ~Within(call.addr, cut, x)
        BY <1>1, <1>3, <3>1 DEF Within, len
      <3> QED
        BY <3>2 DEF x
    <2> QED
      BY <1>1, <1>8, <1>9, <2>1 DEF p
  <1>12. \A g \in todo \ rest : prot'[p][g] = 0
    <2> SUFFICES ASSUME NEW g \in todo, g \notin rest PROVE prot'[p][g] = 0
      OBVIOUS
    <2> DEFINE x == g * Page
    <2>1. g \in Pages /\ x \in Above /\ x \in Nat /\ x % Page = 0
      BY <1>5, PageFacts, AboveFacts
    <2>2. call.addr <= x /\ x < from
      <3>1. Within(call.addr, len, x) /\ ~(from <= x)
        BY <1>5, <1>7, <2>1
      <3> HIDE DEF x
      <3> QED
        BY <1>3, <2>1, <3>1 DEF Within
    <2> HIDE DEF x
    <2>3. \A f \in {1, 3} : ~Holds(vmas'[p], x, f)
      BY <1>3, <2>1, <2>2
    <2>4. IsList(vmas'[p]) /\ Colored(vmas'[p])
      BY <1>1 DEF p, MapInv, IInv, ListInv, IsList
    <2>5. FlagsAt(vmas'[p], x) = 0
      BY <2>1, <2>3, <2>4, FlagsAtAbove
    <2> QED
      BY <1>1, <1>9, <2>1, <2>5 DEF p, x
  <1>13. rest \in SUBSET todo /\ S \in SUBSET todo
    BY <1>5, <1>7
  <1>14. clearing' = [clearing EXCEPT ![p] = rest]
    BY <1>4, <1>6, <1>7
  <1>15. prot' = Abstract!With(p, S, 0)
    <2> DEFINE new == [g \in Pages |-> IF g \in S THEN 0 ELSE prot[p][g]]
    <2>1. Abstract!With(p, S, 0) = [prot EXCEPT ![p] = new]
      BY DEF Abstract!With, Abstract!Pages, Pages
    <2>2. \A g \in Pages : prot'[p][g] = new[g]
      BY <1>10, <1>11
    <2>3. prot'[p] = new
      BY <1>1, <1>9, <2>2 DEF p
    <2> HIDE DEF new
    <2>4. \A r \in Procs : r # p => prot'[r] = prot[r]
      BY <1>8, <1>9
    <2>5. prot' = [r \in Procs |-> IF r = p THEN new ELSE prot[r]]
      BY <1>9, <2>3, <2>4
    <2>6. [prot EXCEPT ![p] = new] = [r \in Procs |-> IF r = p THEN new ELSE prot[r]]
      BY <1>9
    <2> QED
      BY <2>1, <2>5, <2>6
  <1>16. CASE todo = {}
    <2>1. clearing' = clearing
      BY <1>4, <1>13, <1>14, <1>16
    <2>2. \A r \in Procs, g \in Pages : FlagsAt(vmas'[r], g * Page) = FlagsAt(vmas[r], g * Page)
      BY <1>1, <1>8, <1>9, <1>11, <1>16 DEF p
    <2>3. prot' = prot
      BY <1>9, <2>2
    <2> QED
      BY <1>1, <2>1, <2>3 DEF Abstract!vars
  <1>17. CASE todo # {}
    <2> HIDE DEF S, rest
    <2>1. Abstract!Clear(p, S, rest)
      BY <1>1, <1>12, <1>13, <1>14, <1>15, <1>17 DEF Abstract!Clear
    <2>2. p \in Procs
      BY <1>1 DEF p
    <2> QED
      BY <1>13, <2>1, <2>2 DEF Abstract!Next
  <1> QED
    BY <1>16, <1>17

(* A child starts with the map of its parent.                              *)
LEMMA ForkRefines ==
  ASSUME MapInv, NEW p \in Procs, NEW child \in Procs, do_cfork(p, child)
  PROVE  [Abstract!Next]_(Abstract!vars)
  <1>1. /\ p \in alive /\ call = NoCall /\ call' = call /\ child \in Procs \ alive
        /\ alive' = alive \cup {child} /\ clearing = [r \in Procs |-> {}]
        /\ vmas' = [vmas EXCEPT ![child] =
                      IF vmas[p] = << >> THEN << >> ELSE <<Dummy>> \o Tail(vmas[p])]
    BY ClearingIs DEF do_cfork, Idle
  <1>2. vmas' = [vmas EXCEPT ![child] = vmas[p]]
    BY <1>1, CopyIsSame DEF MapInv, IInv, ListInv
  <1>3. \A r \in Procs : vmas'[r] = IF r = child THEN vmas[p] ELSE vmas[r]
    BY <1>2 DEF MapInv, IInv, ListInv
  <1>4. /\ prot = [r \in Procs |-> [g \in Pages |-> FlagsAt(vmas[r], g * Page)]]
        /\ prot' = [r \in Procs |-> [g \in Pages |-> FlagsAt(vmas'[r], g * Page)]]
    BY DEF prot, Pages
  <1>5. prot' = [prot EXCEPT ![child] = prot[p]]
    BY <1>3, <1>4
  <1>6. clearing' = clearing
    BY <1>1 DEF clearing
  <1>7. Abstract!Fork(p, child)
    BY <1>1, <1>5, <1>6 DEF Abstract!Fork, Abstract!Idle
  <1> QED
    BY <1>7 DEF Abstract!Next

(* A process that ends leaves no page mapped.                              *)
LEMMA ExitRefines ==
  ASSUME MapInv, NEW p \in Procs, do_exit(p)
  PROVE  [Abstract!Next]_(Abstract!vars)
  <1>1. /\ p \in alive /\ call = NoCall /\ call' = call
        /\ alive' = alive \ {p} /\ clearing = [r \in Procs |-> {}]
        /\ vmas' = [vmas EXCEPT ![p] = << >>]
    BY ClearingIs DEF do_exit, Idle
  <1>2. \A r \in Procs : vmas'[r] = IF r = p THEN << >> ELSE vmas[r]
    BY <1>1 DEF MapInv, IInv, ListInv
  <1>3. \A g \in Pages : FlagsAt(<< >>, g * Page) = 0
    BY PageFacts, AboveFacts, FlagsAtFree, ShortHolds DEF IsList
  <1>4. /\ prot = [r \in Procs |-> [g \in Pages |-> FlagsAt(vmas[r], g * Page)]]
        /\ prot' = [r \in Procs |-> [g \in Pages |-> FlagsAt(vmas'[r], g * Page)]]
    BY DEF prot, Pages
  <1>5. prot'[p] = [g \in Pages |-> 0]
    BY <1>2, <1>3, <1>4
  <1>6. \A r \in Procs : r # p => prot'[r] = prot[r]
    BY <1>2, <1>4
  <1> DEFINE none == [g \in Pages |-> 0]
  <1>7. [g \in Pages |-> IF g \in Pages THEN 0 ELSE prot[p][g]] = none
    OBVIOUS
  <1>8. Abstract!With(p, Pages, 0) = [prot EXCEPT ![p] = none]
    BY <1>7 DEF Abstract!With, Abstract!Pages, Pages
  <1> HIDE DEF none
  <1>9. prot' = [r \in Procs |-> IF r = p THEN none ELSE prot[r]]
    BY <1>4, <1>5, <1>6 DEF none
  <1>10. [prot EXCEPT ![p] = none] = [r \in Procs |-> IF r = p THEN none ELSE prot[r]]
    BY <1>4
  <1>11. clearing' = clearing
    BY <1>1 DEF clearing
  <1>12. Abstract!Exit(p)
    BY <1>1, <1>8, <1>9, <1>10, <1>11 DEF Abstract!Exit, Abstract!Idle, Abstract!Pages, Pages
  <1> QED
    BY <1>12 DEF Abstract!Next

-----------------------------------------------------------------------------
(* The page map                                                            *)

(* Every step keeps the promises of AddrMap or changes nothing of it.      *)
LEMMA StepRefines == MapInv /\ MapInv' /\ [OrderlyNext]_vars => [Abstract!Next]_(Abstract!vars)
  <1> SUFFICES ASSUME MapInv, MapInv', [OrderlyNext]_vars
               PROVE  [Abstract!Next]_(Abstract!vars)
    OBVIOUS
  <1>1. CASE \E p \in Procs, addr \in Addrs, length \in Lengths, q \in ProtArgs, flag \in FlagArgs :
               Plain(addr, length) /\ vm_area_map(p, addr, length, q, flag)
    BY <1>1, MapRefines
  <1>2. CASE \E p \in Procs, addr \in Addrs, length \in Lengths :
               Usable(addr) /\ Plain(addr, length) /\ vm_area_unmap(p, addr, length)
    BY <1>2, UnmapBeginsRefines
  <1>3. CASE \E p \in Procs, addr \in Addrs, length \in Lengths, q \in ProtArgs :
               /\ Usable(addr) /\ Plain(addr, length) /\ InOneArea(p, addr, length)
               /\ vm_area_mprotect(p, addr, length, q)
    BY <1>3, ProtectRefines
  <1>4. CASE \E p, child \in Procs : do_cfork(p, child)
    BY <1>4, ForkRefines
  <1>5. CASE \E p \in Procs : do_exit(p)
    BY <1>5, ExitRefines
  <1>6. CASE UnmapStep
    BY <1>6, TurnRefines
  <1>7. CASE UNCHANGED vars
    BY <1>7 DEF vars, Abstract!vars, prot, clearing
  <1> QED
    BY <1>1, <1>2, <1>3, <1>4, <1>5, <1>6, <1>7 DEF OrderlyNext

(* Without areas no page has a protection.                                 *)
LEMMA InitRefines == Init => Abstract!Init
  <1> SUFFICES ASSUME Init PROVE Abstract!Init
    OBVIOUS
  <1>1. \A p \in Procs, g \in Pages : FlagsAt(vmas[p], g * Page) = 0
    BY PageFacts, AboveFacts, FlagsAtFree, ShortHolds DEF Init, IsList
  <1>2. prot = [p \in Procs |-> [g \in Pages |-> 0]]
    BY <1>1 DEF prot, Pages
  <1>3. clearing = [p \in Procs |-> {}]
    BY ClearingIs DEF Init
  <1> QED
    BY <1>2, <1>3 DEF Init, Abstract!Init, Abstract!Pages, Pages

(* The invariant of the page map holds always.                             *)
LEMMA MapInvHolds == OrderlySpec => []MapInv
  BY MapInvInit, MapInvNext, PTL DEF OrderlySpec

(* The lists of areas implement the map of pages: mmap takes free pages    *)
(* only, munmap frees the pages it was asked to free and no other and is   *)
(* over when all of them are free, mprotect changes mapped pages only, a   *)
(* child starts with the map of its parent, and nothing that one process   *)
(* does shows in the map of another, whatever the layout of the region.    *)
THEOREM PageMapKept == OrderlySpec => KeepsAddrMap
  BY MapInvHolds, InitRefines, StepRefines, PTL DEF OrderlySpec, KeepsAddrMap, Abstract!Spec

-----------------------------------------------------------------------------
(* What one call does to the pages                                         *)

(* The map of pages with the whole pages of [addr, addr + len) of p given  *)
(* protection q                                                            *)
LEMMA EffectGives ==
  ASSUME MapInv, MapInv', NEW p \in Procs, NEW addr, NEW len, NEW q \in Flags,
         Effect(p, addr, len, q)
  PROVE  prot' = [prot EXCEPT ![p] = [g \in FirstPage .. LastPage |->
                    IF addr <= g * Page /\ g * Page < addr + len THEN q ELSE @[g]]]
  <1> DEFINE S == {g \in Pages : Within(addr, len, g * Page)}
  <1>1. prot' = Abstract!With(p, S, q)
    <2>1. \A g \in Pages : g \in S <=> Within(addr, len, g * Page)
      OBVIOUS
    <2> HIDE DEF S
    <2> QED
      BY <2>1, EffectProt
  <1>2. [g \in Pages |-> IF g \in S THEN q ELSE prot[p][g]] =
          [g \in FirstPage .. LastPage |->
             IF addr <= g * Page /\ g * Page < addr + len THEN q ELSE prot[p][g]]
    BY DEF Pages, Within
  <1>3. Abstract!With(p, S, q) = [prot EXCEPT ![p] = [g \in Pages |-> IF g \in S THEN q ELSE prot[p][g]]]
    BY DEF Abstract!With, Abstract!Pages, Pages
  <1> HIDE DEF S
  <1> DEFINE new == [g \in Pages |-> IF g \in S THEN q ELSE prot[p][g]]
             given == [g \in FirstPage .. LastPage |->
                         IF addr <= g * Page /\ g * Page < addr + len THEN q ELSE prot[p][g]]
  <1>4. prot' = [prot EXCEPT ![p] = new] /\ new = given
    BY <1>1, <1>2, <1>3
  <1>5. [prot EXCEPT ![p] = given] =
          [prot EXCEPT ![p] = [g \in FirstPage .. LastPage |->
             IF addr <= g * Page /\ g * Page < addr + len THEN q ELSE @[g]]]
    OBVIOUS
  <1> HIDE DEF new, given
  <1> QED
    BY <1>4, <1>5

(* A call of no effect leaves the map of pages as it is.                   *)
LEMMA NoEffectGives ==
  ASSUME MapInv, MapInv', NEW p \in Procs, Effect(p, 0, 0, 0)
  PROVE  prot' = prot
  <1>1. \A x \in Above : ~Within(0, 0, x)
    BY AboveFacts DEF Within
  <1> QED
    BY <1>1, NoEffect DEF Flags

(* A call that succeeds changes exactly the pages it names, one that fails *)
(* none.                                                                   *)
LEMMA CallExact ==
  MapInv /\ MapInv' /\ [OrderlyNext]_vars =>
    [vmas' # vmas \/ ret' # -EINVAL =>
       LET before == prot
           after == prot'
           Given(p, addr, len, q) ==
             after = [before EXCEPT ![p] = [g \in FirstPage .. LastPage |->
                        IF addr <= g * Page /\ g * Page < addr + len THEN q ELSE @[g]]]
       IN \A p \in Procs, addr \in Addrs, length \in Lengths, q \in {1, 3} :
            Plain(addr, length) =>
              /\ (\E flag \in FlagArgs : vm_area_map(p, addr, length, q, flag)) =>
                   IF ret' = -EINVAL THEN after = before ELSE Given(p, ret', Aligned(length), q)
              /\ (/\ Usable(addr) /\ InOneArea(p, addr, length)
                  /\ vm_area_mprotect(p, addr, length, q)) =>
                   IF ret' = -EINVAL THEN after = before ELSE Given(p, addr, Aligned(length), q)]_vars
  <1> SUFFICES ASSUME MapInv, MapInv', NEW p \in Procs, NEW addr \in Addrs,
                      NEW length \in Lengths, NEW q \in {1, 3}, Plain(addr, length)
               PROVE  /\ (\E flag \in FlagArgs : vm_area_map(p, addr, length, q, flag)) =>
                           IF ret' = -EINVAL THEN prot' = prot
                           ELSE prot' = [prot EXCEPT ![p] = [g \in FirstPage .. LastPage |->
                                           IF ret' <= g * Page /\ g * Page < ret' + Aligned(length)
                                           THEN q ELSE @[g]]]
                      /\ (/\ Usable(addr) /\ InOneArea(p, addr, length)
                          /\ vm_area_mprotect(p, addr, length, q)) =>
                           IF ret' = -EINVAL THEN prot' = prot
                           ELSE prot' = [prot EXCEPT ![p] = [g \in FirstPage .. LastPage |->
                                           IF addr <= g * Page /\ g * Page < addr + Aligned(length)
                                           THEN q ELSE @[g]]]
    BY Zenon
  <1>1. q \in ProtArgs /\ q \in Flags
    BY DEF ProtArgs, Flags
  <1>2. ASSUME NEW flag \in FlagArgs, vm_area_map(p, addr, length, q, flag)
        PROVE  IF ret' = -EINVAL THEN prot' = prot
               ELSE prot' = [prot EXCEPT ![p] = [g \in FirstPage .. LastPage |->
                               IF ret' <= g * Page /\ g * Page < ret' + Aligned(length)
                               THEN q ELSE @[g]]]
    <2>1. (ret' = -EINVAL /\ Effect(p, 0, 0, 0)) \/ (ret' \in Nat /\ Effect(p, ret', Aligned(length), q))
      BY <1>1, <1>2, MapEffect
    <2>2. ret' \in Nat => ret' # -EINVAL
      BY DEF EINVAL
    <2>3. CASE ret' = -EINVAL /\ Effect(p, 0, 0, 0)
      BY <2>3, NoEffectGives
    <2>4. CASE ret' \in Nat /\ Effect(p, ret', Aligned(length), q)
      <3>1. prot' = [prot EXCEPT ![p] = [g \in FirstPage .. LastPage |->
                       IF ret' <= g * Page /\ g * Page < ret' + Aligned(length) THEN q ELSE @[g]]]
        BY <1>1, <2>4, EffectGives
      <3> QED
        BY <2>2, <2>4, <3>1, Zenon
    <2> QED
      BY <2>1, <2>3, <2>4
  <1>3. ASSUME Usable(addr), InOneArea(p, addr, length), vm_area_mprotect(p, addr, length, q)
        PROVE  IF ret' = -EINVAL THEN prot' = prot
               ELSE prot' = [prot EXCEPT ![p] = [g \in FirstPage .. LastPage |->
                               IF addr <= g * Page /\ g * Page < addr + Aligned(length)
                               THEN q ELSE @[g]]]
    <2>1. (ret' = -EINVAL /\ Effect(p, 0, 0, 0)) \/ (ret' = 0 /\ Effect(p, addr, Aligned(length), q))
      BY <1>1, <1>3, ProtectEffect
    <2>2. ret' = 0 => ret' # -EINVAL
      BY DEF EINVAL
    <2>3. CASE ret' = -EINVAL /\ Effect(p, 0, 0, 0)
      BY <2>3, NoEffectGives
    <2>4. CASE ret' = 0 /\ Effect(p, addr, Aligned(length), q)
      <3>1. prot' = [prot EXCEPT ![p] = [g \in FirstPage .. LastPage |->
                       IF addr <= g * Page /\ g * Page < addr + Aligned(length) THEN q ELSE @[g]]]
        BY <1>1, <2>4, EffectGives
      <3> QED
        BY <2>2, <2>4, <3>1, Zenon
    <2> QED
      BY <2>1, <2>3, <2>4
  <1> QED
    BY <1>2, <1>3, Zenon

(* An mmap that succeeds gives its protection to the pages from the        *)
(* address it returns on, as many as were asked for, an mprotect to the    *)
(* pages it names, and neither changes another page; a call that fails     *)
(* changes none, with all the merging and splitting of areas and whatever  *)
(* the layout of the region.                                               *)
THEOREM CallsStayExact == OrderlySpec => CallsAreExact
  BY MapInvHolds, CallExact, PTL DEF OrderlySpec, CallsAreExact

-----------------------------------------------------------------------------
(* Where new memory goes                                                   *)

(* An area of a list that mmap works on, and the space after it            *)
LEMMA AreaFacts ==
  ASSUME NEW vs, Headed(vs), NEW i \in 1 .. Len(vs)
  PROVE  /\ Len(vs) \in Nat /\ Len(vs) > 0 /\ DOMAIN vs = 1 .. Len(vs)
         /\ vs[i].start \in Nat /\ vs[i].end \in Nat /\ vs[i].start <= vs[i].end
         /\ Start + Page <= vs[i].end /\ vs[i].end <= End
         /\ Limit(vs, i) \in Nat /\ vs[i].end <= Limit(vs, i) /\ Limit(vs, i) <= End
         /\ i < Len(vs) => i + 1 \in 1 .. Len(vs) /\ Limit(vs, i) = vs[i + 1].start
         /\ i = Len(vs) => Limit(vs, i) = End
         /\ vs[i].end % Page = 0
  <1>0. Len(vs) \in Nat
    BY DEF Headed, Sorted
  <1>1. Len(vs) > 0 /\ DOMAIN vs = 1 .. Len(vs) /\ vs[1] = Dummy /\ Sorted(vs)
    BY DEF Headed, Sorted
  <1>2. \A k \in 1 .. Len(vs) : Proper(vs[k])
    BY <1>1 DEF Sorted
  <1>3. /\ vs[i].start \in Nat /\ vs[i].end \in Nat /\ vs[i].start <= vs[i].end /\ vs[i].end <= End
        /\ vs[i].end % Page = 0
    BY <1>2, ProperFacts DEF Proper
  <1>4. Start \in Nat /\ Page \in Nat /\ End \in Nat
    BY LayoutAssumption
  <1>5. Start + Page <= vs[i].end
    <2>1. 1 \in 1 .. Len(vs) /\ 1 <= i
      BY <1>0
    <2>2. vs[1].end <= vs[i].end
      BY <1>1, <2>1, SortedFacts
    <2>3. vs[1].end = Start + Page
      BY <1>1 DEF Dummy
    <2> QED
      BY <2>2, <2>3
  <1>6. i = Len(vs) => Limit(vs, i) = End
    BY DEF Limit
  <1>7. ASSUME i < Len(vs)
        PROVE  /\ i + 1 \in 1 .. Len(vs) /\ Limit(vs, i) = vs[i + 1].start
               /\ vs[i + 1].start \in Nat /\ vs[i + 1].start <= End /\ vs[i].end <= vs[i + 1].start
    <2>1. i + 1 \in 1 .. Len(vs) /\ i + 1 > i /\ i # Len(vs)
      BY <1>0, <1>7
    <2>2. /\ vs[i + 1].start \in Nat /\ vs[i + 1].end \in Nat
          /\ vs[i + 1].start <= vs[i + 1].end /\ vs[i + 1].end <= End
      BY <1>2, <2>1, ProperFacts
    <2>3. vs[i].end <= vs[i + 1].start
      BY <1>1, <2>1, SortedFacts
    <2>4. Limit(vs, i) = vs[i + 1].start
      BY <2>1 DEF Limit
    <2> QED
      BY <1>4, <2>1, <2>2, <2>3, <2>4
  <1>8. i < Len(vs) \/ i = Len(vs)
    BY <1>0
  <1>9. Limit(vs, i) \in Nat /\ vs[i].end <= Limit(vs, i) /\ Limit(vs, i) <= End
    <2>1. CASE i < Len(vs)
      BY <1>7, <2>1
    <2>2. CASE i = Len(vs)
      BY <1>3, <1>4, <1>6, <2>2
    <2> QED
      BY <1>8, <2>1, <2>2
  <1>10. i < Len(vs) => i + 1 \in 1 .. Len(vs) /\ Limit(vs, i) = vs[i + 1].start
    BY <1>7
  <1> QED
    BY <1>0, <1>1, <1>3, <1>5, <1>6, <1>9, <1>10, Zenon

(* Space between an area and the limit after it is free.                   *)
LEMMA GapIsFree ==
  ASSUME NEW vs, Headed(vs), NEW i \in 1 .. Len(vs), NEW addr \in Nat, NEW len \in Nat,
         vs[i].end <= addr, addr + len <= Limit(vs, i)
  PROVE  Free(vs, addr, len)
  <1>1. /\ Len(vs) \in Nat /\ DOMAIN vs = 1 .. Len(vs) /\ vs[i].end \in Nat
        /\ Start + Page <= vs[i].end /\ Limit(vs, i) \in Nat /\ Limit(vs, i) <= End
        /\ i < Len(vs) => i + 1 \in 1 .. Len(vs) /\ Limit(vs, i) = vs[i + 1].start
    BY AreaFacts
  <1>2. Start \in Nat /\ Page \in Nat /\ End \in Nat
    BY LayoutAssumption
  <1>3. Start + Page <= addr /\ addr + len <= End
    BY <1>1, <1>2
  <1>4. ASSUME NEW k \in 1 .. Len(vs) PROVE vs[k].end <= addr \/ addr + len <= vs[k].start
    <2>1. vs[k].start \in Nat /\ vs[k].end \in Nat
      BY AreaFacts
    <2>2. CASE k <= i
      <3>1. vs[k].end <= vs[i].end
        BY <2>2, SortedFacts DEF Headed
      <3> QED
        BY <1>1, <2>1, <3>1
    <2>3. CASE k > i
      <3>1. i < Len(vs) /\ i + 1 \in 1 .. Len(vs) /\ k >= i + 1
        BY <1>1, <2>3
      <3>2. vs[i + 1].start <= vs[k].start /\ vs[i + 1].start \in Nat
        BY <3>1, SortedFacts, AreaFacts DEF Headed
      <3> QED
        BY <1>1, <2>1, <3>1, <3>2
    <2> QED
      BY <1>1, <2>2, <2>3
  <1> QED
    BY <1>1, <1>3, <1>4 DEF Free

(* The last area of a list that ends at or below an address                *)
LEMMA LastBelow ==
  ASSUME NEW vs, Headed(vs), NEW addr \in Nat, Start + Page <= addr
  PROVE  \E i \in 1 .. Len(vs) : vs[i].end <= addr /\ (i < Len(vs) => addr < vs[i + 1].end)
  <1> DEFINE K == {k \in 1 .. Len(vs) + 1 : k \in 1 .. Len(vs) => addr < vs[k].end}
             m == Lowest(K)
  <1>1. Len(vs) \in Nat /\ Len(vs) > 0 /\ vs[1] = Dummy
    BY DEF Headed, Sorted
  <1>2. K \in SUBSET Nat /\ K # {}
    <2>1. Len(vs) + 1 \in K
      BY <1>1
    <2> QED
      BY <2>1
  <1>3. m \in K /\ \A k \in K : m <= k
    <2> HIDE DEF K
    <2> QED
      BY <1>2, LowestLeast
  <1> HIDE DEF m
  <1>4. m # 1
    <2>1. vs[1].end = Start + Page /\ Start \in Nat /\ Page \in Nat
      BY <1>1, LayoutAssumption DEF Dummy
    <2> QED
      BY <1>1, <1>3, <2>1
  <1>5. m - 1 \in 1 .. Len(vs) /\ m \in Nat
    BY <1>1, <1>3, <1>4
  <1>6. m - 1 \notin K
    BY <1>3, <1>5
  <1>7. vs[m - 1].end <= addr
    <2>1. vs[m - 1].end \in Nat
      BY <1>5, AreaFacts
    <2> QED
      BY <1>1, <1>5, <1>6, <2>1
  <1>8. m - 1 < Len(vs) => addr < vs[(m - 1) + 1].end
    BY <1>1, <1>3, <1>5
  <1> QED
    BY <1>5, <1>7, <1>8

(* In a list without empty areas free space lies in the gap after the last *)
(* area that ends below it.                                                *)
LEMMA FreeIsGap ==
  ASSUME NEW vs, Headed(vs), Tidy(vs), NEW addr \in Nat, NEW len \in Nat, Free(vs, addr, len)
  PROVE  \E i \in 1 .. Len(vs) : vs[i].end <= addr /\ addr + len <= Limit(vs, i)
  <1>1. Start + Page <= addr /\ addr + len <= End /\ Start \in Nat /\ Page \in Nat /\ End \in Nat
    BY LayoutAssumption DEF Free
  <1>2. PICK i \in 1 .. Len(vs) : vs[i].end <= addr /\ (i < Len(vs) => addr < vs[i + 1].end)
    BY <1>1, LastBelow
  <1>3. /\ Len(vs) \in Nat /\ DOMAIN vs = 1 .. Len(vs)
        /\ i < Len(vs) => i + 1 \in 1 .. Len(vs) /\ Limit(vs, i) = vs[i + 1].start
        /\ i = Len(vs) => Limit(vs, i) = End
    BY AreaFacts
  <1>4. ASSUME i = Len(vs) PROVE vs[i].end <= addr /\ addr + len <= Limit(vs, i)
    <2>1. addr + len <= Limit(vs, i)
      BY <1>1, <1>3, <1>4
    <2> QED
      BY <1>2, <2>1
  <1>5. ASSUME i < Len(vs) PROVE vs[i].end <= addr /\ addr + len <= Limit(vs, i)
    <2>1. /\ i + 1 \in DOMAIN vs /\ vs[i + 1].end \in Nat /\ addr < vs[i + 1].end
      BY <1>2, <1>3, <1>5, AreaFacts
    <2>2. Empty(vs[i + 1]) \/ vs[i + 1].end <= addr \/ addr + len <= vs[i + 1].start
      BY <2>1 DEF Free
    <2>3. ~Empty(vs[i + 1])
      BY <2>1 DEF Tidy
    <2>4. addr + len <= vs[i + 1].start
      BY <2>1, <2>2, <2>3
    <2> QED
      BY <1>2, <1>3, <1>5, <2>4
  <1>6. i < Len(vs) \/ i = Len(vs)
    <2>1. Len(vs) \in Nat
      BY <1>3
    <2> QED
      BY <2>1
  <1>7. vs[i].end <= addr /\ addr + len <= Limit(vs, i)
    BY <1>2, <1>4, <1>5, <1>6
  <1> QED
    BY <1>7

(* In a list without empty areas a hint fits exactly where it is free.     *)
LEMMA FitsIsFree ==
  ASSUME NEW vs, Headed(vs), Tidy(vs), NEW addr \in Nat, NEW len \in Nat, len > 0
  PROVE  Fits(vs, addr, len) <=> Free(vs, addr, len)
  <1> DEFINE hits == Hits(vs, addr)
             j == Lowest(hits)
  <1>0. Len(vs) \in Nat
    BY DEF Headed, Sorted
  <1>1. DOMAIN vs = 1 .. Len(vs) /\ Len(vs) \in Nat
    BY DEF Headed, Sorted
  <1>2. hits \in SUBSET Nat
    BY <1>1 DEF Hits
  <1>3. ASSUME hits # {}
        PROVE  /\ j \in 1 .. Len(vs)
               /\ ~Contains(vs[j], addr) =>
                    vs[j].end <= addr /\ (j = Len(vs) \/ addr < vs[j + 1].start)
    <2>1. j \in hits
      BY <1>2, <1>3, LowestIn
    <2> HIDE DEF j
    <2> QED
      BY <1>1, <2>1 DEF Hits
  <1>4. Fits(vs, addr, len) <=>
          hits # {} /\ ~Contains(vs[j], addr) /\ addr + len <= Limit(vs, j)
    BY DEF Fits
  <1> HIDE DEF j
  <1>5. ASSUME Fits(vs, addr, len) PROVE Free(vs, addr, len)
    <2>1. j \in 1 .. Len(vs) /\ vs[j].end <= addr /\ addr + len <= Limit(vs, j)
      BY <1>3, <1>4, <1>5
    <2> QED
      BY <2>1, GapIsFree
  <1>6. ASSUME Free(vs, addr, len) PROVE Fits(vs, addr, len)
    <2>1. PICK i \in 1 .. Len(vs) : vs[i].end <= addr /\ addr + len <= Limit(vs, i)
      BY <1>6, FreeIsGap
    <2>2. i = Len(vs) \/ addr < vs[i + 1].start
      <3>1. i < Len(vs) => Limit(vs, i) = vs[i + 1].start
        BY AreaFacts
      <3>2. Limit(vs, i) \in Nat
        BY AreaFacts
      <3>3. i < Len(vs) \/ i = Len(vs)
        BY <1>0
      <3> QED
        BY <2>1, <3>1, <3>2, <3>3
    <2>3. i \in hits
      BY <1>1, <2>1, <2>2 DEF Hits
    <2>4. j \in 1 .. Len(vs)
      BY <1>3, <2>3
    <2>5. ASSUME NEW k \in 1 .. Len(vs)
          PROVE  /\ vs[k].start \in Nat /\ vs[k].end \in Nat /\ vs[k].start <= vs[k].end
                 /\ vs[k].end <= addr \/ addr + len <= vs[k].start
      <3>1. vs[k].start \in Nat /\ vs[k].end \in Nat /\ vs[k].start <= vs[k].end
        BY AreaFacts
      <3>2. k \in DOMAIN vs /\ ~Empty(vs[k])
        BY <1>1 DEF Tidy
      <3> QED
        BY <1>6, <3>1, <3>2 DEF Free
    <2>6. ~Contains(vs[j], addr)
      <3>1. /\ vs[j].start \in Nat /\ vs[j].end \in Nat
            /\ vs[j].end <= addr \/ addr + len <= vs[j].start
        BY <2>4, <2>5
      <3> QED
        BY <3>1 DEF Contains
    <2>7. j = Len(vs) \/ addr < vs[j + 1].start
      BY <1>3, <2>3, <2>6
    <2>8. addr + len <= Limit(vs, j)
      <3>1. CASE j = Len(vs)
        <4>1. Limit(vs, j) = End
          BY <3>1 DEF Limit
        <4> QED
          BY <1>6, <4>1 DEF Free
      <3>2. CASE j # Len(vs)
        <4>1. j + 1 \in 1 .. Len(vs)
          BY <1>0, <2>4, <3>2
        <4>2. /\ vs[j + 1].start \in Nat /\ vs[j + 1].end \in Nat /\ vs[j + 1].start <= vs[j + 1].end
              /\ vs[j + 1].end <= addr \/ addr + len <= vs[j + 1].start
          BY <2>5, <4>1
        <4>3. addr < vs[j + 1].start
          BY <2>7, <3>2
        <4>4. Limit(vs, j) = vs[j + 1].start
          BY <3>2 DEF Limit
        <4> QED
          BY <4>2, <4>3, <4>4
      <3> QED
        BY <3>1, <3>2
    <2> QED
      BY <1>4, <2>3, <2>6, <2>8
  <1> QED
    BY <1>5, <1>6

(* The dummy area that the first mmap creates makes no difference.         *)
LEMMA ListedFree ==
  ASSUME IInv, NEW p \in Procs, Tidy(vmas[p])
  PROVE  /\ Headed(Listed(p)) /\ Tidy(Listed(p))
         /\ \A addr, len \in Nat : Free(Listed(p), addr, len) <=> Free(vmas[p], addr, len)
  <1>1. Start \in Nat /\ Page \in Nat \ {0}
    BY LayoutAssumption
  <1>2. Headed(Listed(p))
    BY ListedFacts
  <1>3. CASE vmas[p] # << >>
    BY <1>2, <1>3, ListedFacts
  <1>4. CASE vmas[p] = << >>
    <2>1. Listed(p) = <<Dummy>>
      BY <1>4, ListedFacts
    <2>2. DOMAIN <<Dummy>> = {1} /\ <<Dummy>>[1] = Dummy /\ DOMAIN << >> = {}
      OBVIOUS
    <2>3. Dummy.end = Start + Page /\ Dummy.start = Start
      BY DEF Dummy
    <2>4. ~Empty(Dummy)
      BY <1>1, <2>3 DEF Empty
    <2>5. Tidy(Listed(p))
      BY <2>1, <2>2, <2>4 DEF Tidy
    <2>6. \A addr, len \in Nat : Free(<<Dummy>>, addr, len) <=> Free(<< >>, addr, len)
      BY <1>1, <2>2, <2>3 DEF Free
    <2> QED
      BY <1>2, <1>4, <2>1, <2>5, <2>6
  <1> QED
    BY <1>3, <1>4

(* The address of the first gap                                            *)
LEMMA FirstGap ==
  ASSUME NEW vs, Headed(vs), NEW len \in Nat, Gaps(vs, len) # {}
  PROVE  /\ vs[Lowest(Gaps(vs, len))].end \in Nat
         /\ vs[Lowest(Gaps(vs, len))].end % Page = 0
         /\ Free(vs, vs[Lowest(Gaps(vs, len))].end, len)
         /\ Tidy(vs) => \A b \in Nat : Free(vs, b, len) => vs[Lowest(Gaps(vs, len))].end <= b
  <1> DEFINE gaps == Gaps(vs, len)
             i == Lowest(gaps)
             at == vs[i].end
  <1>1. DOMAIN vs = 1 .. Len(vs) /\ Len(vs) \in Nat
    BY DEF Headed, Sorted
  <1>2. gaps \in SUBSET Nat
    BY <1>1 DEF Gaps
  <1>3. i \in gaps /\ \A k \in gaps : i <= k
    BY <1>2, LowestLeast
  <1> HIDE DEF i
  <1>4. i \in 1 .. Len(vs) /\ at + len <= Limit(vs, i)
    BY <1>1, <1>3 DEF Gaps
  <1>5. at \in Nat /\ at % Page = 0 /\ at <= at
    BY <1>4, AreaFacts
  <1>6. Free(vs, at, len)
    <2>1. vs[i].end <= at
      BY <1>5
    <2> HIDE DEF at
    <2> QED
      BY <1>4, <1>5, <2>1, GapIsFree
  <1>7. ASSUME Tidy(vs), NEW b \in Nat, Free(vs, b, len) PROVE at <= b
    <2>1. PICK m \in 1 .. Len(vs) : vs[m].end <= b /\ b + len <= Limit(vs, m)
      BY <1>7, FreeIsGap
    <2>2. vs[m].end \in Nat /\ Limit(vs, m) \in Nat
      BY AreaFacts
    <2>3. m \in gaps
      BY <1>1, <2>1, <2>2 DEF Gaps
    <2>4. i <= m
      BY <1>3, <2>3
    <2>5. at <= vs[m].end
      BY <1>4, <2>4, SortedFacts DEF Headed
    <2> QED
      BY <1>5, <2>1, <2>2, <2>5
  <1> QED
    BY <1>5, <1>6, <1>7 DEF i

(* The hint is honoured.                                                   *)
LEMMA HintKept ==
  ASSUME IInv, NEW p \in Procs, NEW addr \in Addrs \ {0}, NEW length \in Lengths,
         NEW q \in {1, 3}, NEW flag \in FlagArgs,
         Plain(addr, length), length > 0, Tidy(vmas[p]),
         vm_area_map(p, addr, length, q, flag)
  PROVE  /\ Free(vmas[p], addr, Aligned(length)) => ret' = addr
         /\ ~Free(vmas[p], addr, Aligned(length)) /\ flag = MAP_FIXED => ret' = -EINVAL
         /\ ret' # -EINVAL => Free(vmas[p], ret', Aligned(length))
  <1> DEFINE vs == Listed(p)
             len == Aligned(length)
  <1>1. addr \in Nat /\ addr # 0 /\ length \in Int /\ length + Page - 1 <= IntMax
    BY LayoutAssumption DEF Plain
  <1>2. len \in Nat /\ len > 0
    <2>1. 0 <= length
      BY <1>1
    <2>2. len \in Nat /\ length <= len
      BY <1>1, <2>1, Rounding
    <2> QED
      BY <1>1, <2>2
  <1>3. /\ Headed(vs) /\ Tidy(vs)
        /\ \A a, l \in Nat : Free(vs, a, l) <=> Free(vmas[p], a, l)
    BY ListedFree
  <1>4. ValidMap(length, q, flag)
    BY <1>1 DEF ValidMap, FlagArgs, MAP_FIXED
  <1>5. Fits(vs, addr, len) <=> Free(vmas[p], addr, len)
    <2> HIDE DEF vs, len
    <2> QED
      BY <1>1, <1>2, <1>3, FitsIsFree
  <1>6. Fits(vs, addr, len) => Hits(vs, addr) # {}
    BY DEF Fits
  <1>7. CASE MapAtHint(p, addr, length, q, flag)
    <2>1. Fits(vs, addr, len) /\ ret' = addr
      BY <1>7 DEF MapAtHint, MapPlace
    <2> QED
      BY <1>5, <2>1
  <1>8. CASE MapFirstFit(p, addr, length, q, flag)
    <2>1. /\ flag # MAP_FIXED /\ ~Fits(vs, addr, len) /\ Gaps(vs, len) # {}
          /\ ret' = vs[Lowest(Gaps(vs, len))].end
      BY <1>1, <1>8 DEF MapFirstFit, Anywhere, MapPlace
    <2>2. ret' \in Nat /\ Free(vs, ret', len)
      <3> HIDE DEF vs, len
      <3> QED
        BY <1>2, <1>3, <2>1, FirstGap
    <2>3. Free(vmas[p], ret', len)
      <3> HIDE DEF vs, len
      <3> QED
        BY <1>2, <1>3, <2>2
    <2> QED
      BY <1>5, <2>1, <2>3
  <1>9. CASE MapRefused(p, addr, length, q, flag)
    <2>1. ret' = -EINVAL /\ ~Fits(vs, addr, len)
      BY <1>1, <1>6, <1>9 DEF MapRefused, Anywhere
    <2> QED
      BY <1>5, <2>1
  <1>10. CASE MapInvalid(p, addr, length, q, flag)
    BY <1>4, <1>10 DEF MapInvalid
  <1> QED
    BY <1>7, <1>8, <1>9, <1>10 DEF vm_area_map

(* The first legal address is assigned.                                    *)
LEMMA FirstKept ==
  ASSUME IInv, NEW p \in Procs, NEW length \in Lengths, NEW q \in {1, 3}, Tidy(vmas[p])
  PROVE  FirstLegal(p, length, q)
  <1> SUFFICES ASSUME Plain(0, length), ValidMap(length, q, 0), vm_area_map(p, 0, length, q, 0)
               PROVE  \/ LowestFree(vmas[p], ret', Aligned(length))
                      \/ /\ ret' = -EINVAL
                         /\ \A b \in PageStarts : ~Free(vmas[p], b, Aligned(length))
    BY DEF FirstLegal
  <1> DEFINE vs == Listed(p)
             len == Aligned(length)
  <1>1. len \in Nat
    <2>1. length \in Int /\ length + Page - 1 <= IntMax /\ 0 <= length
      BY LayoutAssumption DEF Plain, ValidMap
    <2> QED
      BY <2>1, Rounding
  <1>2. /\ Headed(vs) /\ Tidy(vs)
        /\ \A a, l \in Nat : Free(vs, a, l) <=> Free(vmas[p], a, l)
    BY ListedFree
  <1>3. PageStarts \subseteq Nat
    BY LayoutAssumption DEF PageStarts
  <1>4. CASE MapFirstFit(p, 0, length, q, 0)
    <2>1. Gaps(vs, len) # {} /\ ret' = vs[Lowest(Gaps(vs, len))].end
      BY <1>4 DEF MapFirstFit, MapPlace
    <2> HIDE DEF vs, len
    <2>2. /\ ret' \in Nat /\ Free(vs, ret', len)
          /\ \A b \in Nat : Free(vs, b, len) => ret' <= b
      BY <1>1, <1>2, <2>1, FirstGap
    <2>3. Free(vmas[p], ret', len)
      BY <1>1, <1>2, <2>2
    <2>4. ASSUME NEW b \in PageStarts, b < ret' PROVE ~Free(vmas[p], b, len)
      <3>1. b \in Nat /\ ~(ret' <= b)
        BY <1>3, <2>2, <2>4
      <3> QED
        BY <1>1, <1>2, <2>2, <3>1
    <2> QED
      BY <2>3, <2>4 DEF LowestFree, len
  <1>5. CASE MapRefused(p, 0, length, q, 0)
    <2>1. ret' = -EINVAL /\ Gaps(vs, len) = {}
      BY <1>5 DEF MapRefused, Anywhere, MAP_FIXED
    <2>2. ASSUME NEW b \in PageStarts, Free(vmas[p], b, len) PROVE FALSE
      <3> HIDE DEF vs, len
      <3>1. b \in Nat /\ Free(vs, b, len)
        BY <1>1, <1>2, <1>3, <2>2
      <3>2. PICK m \in 1 .. Len(vs) : vs[m].end <= b /\ b + len <= Limit(vs, m)
        BY <1>1, <1>2, <3>1, FreeIsGap
      <3>3. vs[m].end \in Nat /\ Limit(vs, m) \in Nat /\ DOMAIN vs = 1 .. Len(vs)
        BY <1>2, AreaFacts
      <3>4. m \in Gaps(vs, len)
        BY <1>1, <3>1, <3>2, <3>3 DEF Gaps
      <3> QED
        BY <2>1, <3>4
    <2> QED
      BY <2>1, <2>2
  <1>6. ~MapAtHint(p, 0, length, q, 0)
    BY DEF MapAtHint
  <1>7. ~MapInvalid(p, 0, length, q, 0)
    BY DEF MapInvalid
  <1> QED
    BY <1>4, <1>5, <1>6, <1>7 DEF vm_area_map

(* An mmap gets its hint exactly when the hint has room, never moves a     *)
(* MAP_FIXED request, and a returned address was free (vm_area_map), in    *)
(* every list without an empty area that the calls can make.               *)
THEOREM HintsAreHonoured == OrderlySpec => HintHonoured
  <1>1. IInv /\ [OrderlyNext]_vars => [HintStep]_vars
    BY HintKept DEF HintStep
  <1> QED
    BY InvariantHolds, <1>1, PTL DEF OrderlySpec, HintHonoured

(* allocVMArea assigns the first legal address: in lists without an empty  *)
(* area an mmap without a hint returns the lowest address with room, and   *)
(* fails only when there is none.                                          *)
THEOREM FirstLegalAssigned == OrderlySpec => FirstLegalInTidyLists
  <1>1. IInv /\ [OrderlyNext]_vars => [TidyStep]_vars
    BY FirstKept DEF TidyStep
  <1> QED
    BY InvariantHolds, <1>1, PTL DEF OrderlySpec, FirstLegalInTidyLists

-----------------------------------------------------------------------------
(* Seams                                                                   *)

Touch(a, b) == a.end = b.start /\ a.flags = b.flags

(* The seams of a list are finitely many.                                  *)
LEMMA SeamsFinite ==
  ASSUME NEW vs \in Seq(AreaSet)
  PROVE  IsFiniteSet(Seams(vs)) /\ Cardinality(Seams(vs)) \in Nat
  <1>1. 1 \in Int /\ Len(vs) - 1 \in Int
    OBVIOUS
  <1>2. IsFiniteSet(1 .. Len(vs) - 1)
    BY <1>1, FS_Interval
  <1>3. Seams(vs) \in SUBSET (1 .. Len(vs) - 1)
    BY DEF Seams
  <1>4. IsFiniteSet(Seams(vs))
    BY <1>2, <1>3, FS_Subset
  <1> QED
    BY <1>4, FS_CardinalityType

(* An area that is replaced by one that touches no more leaves no more     *)
(* seams.                                                                  *)
LEMMA ReplaceSeams ==
  ASSUME NEW vs \in Seq(AreaSet), NEW i \in 1 .. Len(vs), NEW b \in AreaSet,
         i > 1 /\ Touch(vs[i - 1], b) => Touch(vs[i - 1], vs[i]),
         i < Len(vs) /\ Touch(b, vs[i + 1]) => Touch(vs[i], vs[i + 1])
  PROVE  Cardinality(Seams([vs EXCEPT ![i] = b])) <= Cardinality(Seams(vs))
  <1> DEFINE r == [vs EXCEPT ![i] = b]
  <1>1. Len(r) = Len(vs) /\ Len(vs) \in Nat
    OBVIOUS
  <1>2. \A k \in 1 .. Len(vs) : r[k] = IF k = i THEN b ELSE vs[k]
    OBVIOUS
  <1> HIDE DEF r
  <1>3. ASSUME NEW k \in Seams(r) PROVE k \in Seams(vs)
    <2>1. k \in 1 .. Len(vs) - 1 /\ Touch(r[k], r[k + 1])
      BY <1>1 DEF Seams, Touch
    <2>2. k \in 1 .. Len(vs) /\ k + 1 \in 1 .. Len(vs) /\ (k + 1) - 1 = k
      BY <1>1, <2>1
    <2>3. Touch(vs[k], vs[k + 1])
      <3>1. CASE k = i
        <4>1. r[k] = b /\ r[k + 1] = vs[k + 1] /\ i < Len(vs)
          BY <1>1, <1>2, <2>1, <2>2, <3>1
        <4> QED
          BY <2>1, <3>1, <4>1
      <3>2. CASE k + 1 = i
        <4>1. r[k] = vs[k] /\ r[k + 1] = b /\ i > 1 /\ i - 1 = k
          BY <1>1, <1>2, <2>1, <2>2, <3>2
        <4> QED
          BY <2>1, <3>2, <4>1
      <3>3. CASE k # i /\ k + 1 # i
        BY <1>2, <2>1, <2>2, <3>3
      <3> QED
        BY <3>1, <3>2, <3>3
    <2> QED
      BY <2>1, <2>3 DEF Seams, Touch
  <1>4. Seams(r) \in SUBSET Seams(vs)
    BY <1>3
  <1>5. Cardinality(Seams(r)) <= Cardinality(Seams(vs))
    BY <1>4, SeamsFinite, FS_Subset
  <1> QED
    BY <1>5 DEF r

(* The areas of new touch each other nowhere, and their neighbours in the  *)
(* place of areas i .. j only where those did.                             *)
AddsNone(vs, i, j, new, n) ==
  /\ n > 0 /\ i > 1 /\ Touch(vs[i - 1], new[1]) => i <= j /\ Touch(vs[i - 1], vs[i])
  /\ n > 0 /\ j < Len(vs) /\ Touch(new[n], vs[j + 1]) => i <= j /\ Touch(vs[j], vs[j + 1])
  /\ \A k \in 1 .. n - 1 : ~Touch(new[k], new[k + 1])
  /\ n = 0 /\ i > 1 /\ j < Len(vs) => ~Touch(vs[i - 1], vs[j + 1])

(* The same of areas that give way to others: the seams that are left are  *)
(* those before the areas, those behind them, and one at either edge where *)
(* there was one.                                                          *)
LEMMA SpliceSeams ==
  ASSUME NEW vs \in Seq(AreaSet), NEW new \in Seq(AreaSet),
         NEW i \in 1 .. Len(vs) + 1, NEW j \in (i - 1) .. Len(vs),
         NEW n \in Nat, n = Len(new), AddsNone(vs, i, j, new, n)
  PROVE  Cardinality(Seams(Splice(vs, i, j, new))) <= Cardinality(Seams(vs))
  <1> DEFINE r == Splice(vs, i, j, new)
             f == [k \in Seams(r) |-> IF k < i THEN k ELSE k + (j + 1 - i) - n]
  <1>1. Len(vs) \in Nat /\ i \in Nat /\ j \in Nat /\ 1 <= i /\ i - 1 <= j /\ j <= Len(vs)
    <2>1. Len(vs) \in Nat
      OBVIOUS
    <2> QED
      BY <2>1
  <1>2. /\ Len(r) = i - 1 + n + Len(vs) - j
        /\ \A k \in 1 .. i - 1 : r[k] = vs[k]
        /\ \A k \in 1 .. n : r[i - 1 + k] = new[k]
        /\ \A k \in 1 .. Len(vs) - j : r[i - 1 + n + k] = vs[j + k]
    BY SpliceFacts
  <1> HIDE DEF r
  <1>f. \A k \in Seams(r) : f[k] = IF k < i THEN k ELSE k + (j + 1 - i) - n
    OBVIOUS
  <1>0. f = [k \in Seams(r) |-> f[k]]
    OBVIOUS
  <1> HIDE DEF f
  <1>3. ASSUME NEW k \in Seams(r)
        PROVE  /\ k \in Nat /\ f[k] \in Seams(vs)
               /\ k < i => f[k] = k
               /\ k >= i => f[k] = k + (j + 1 - i) - n /\ f[k] >= i
    <2>0. k \in 1 .. Len(r) - 1 /\ Touch(r[k], r[k + 1])
      BY DEF Seams, Touch
    <2>1. k \in Nat /\ 1 <= k /\ k + 1 <= i - 1 + n + Len(vs) - j
      BY <1>1, <1>2, <2>0
    <2>2. \A m \in 1 .. Len(vs) - 1 : Touch(vs[m], vs[m + 1]) => m \in Seams(vs)
      BY DEF Seams, Touch
    <2>3. f[k] = IF k < i THEN k ELSE k + (j + 1 - i) - n
      BY <1>f
    <2>4. CASE k < i - 1
      <3>1. k \in 1 .. i - 1 /\ k + 1 \in 1 .. i - 1 /\ k \in 1 .. Len(vs) - 1 /\ k < i
        BY <1>1, <2>1, <2>4
      <3>2. k \in Seams(vs)
        BY <1>2, <2>0, <2>2, <3>1
      <3> QED
        BY <1>1, <2>1, <2>3, <3>1, <3>2
    <2>5. CASE k = i - 1
      <3>1. k < i /\ i > 1 /\ k \in 1 .. i - 1 /\ k + 1 = i
        BY <1>1, <2>1, <2>5
      <3>2. r[k] = vs[i - 1]
        BY <1>2, <2>5, <3>1
      <3>3. CASE n > 0
        <4>1. 1 \in 1 .. n /\ i - 1 + 1 = i
          BY <1>1, <3>3
        <4>2. r[k + 1] = new[1]
          BY <1>2, <3>1, <4>1
        <4>3. i <= j /\ Touch(vs[i - 1], vs[i])
          BY <2>0, <3>1, <3>2, <3>3, <4>2 DEF AddsNone
        <4>4. k \in 1 .. Len(vs) - 1
          BY <1>1, <2>1, <2>5, <4>3
        <4>5. k \in Seams(vs)
          BY <2>2, <2>5, <3>1, <4>3, <4>4
        <4> QED
          BY <1>1, <2>1, <2>3, <3>1, <4>5
      <3>4. CASE n = 0
        <4>1. j < Len(vs) /\ 1 \in 1 .. Len(vs) - j /\ i - 1 + n + 1 = k + 1
          BY <1>1, <2>1, <2>5, <3>4
        <4>2. r[k + 1] = vs[j + 1]
          <5>1. r[i - 1 + n + 1] = vs[j + 1]
            BY <1>2, <4>1
          <5> QED
            BY <4>1, <5>1
        <4> QED
          BY <2>0, <3>1, <3>2, <3>4, <4>1, <4>2 DEF AddsNone
      <3> QED
        BY <3>3, <3>4
    <2>6. CASE i <= k /\ k < i - 1 + n
      <3> DEFINE m == k - i + 1
      <3>1. m \in 1 .. n - 1 /\ m \in 1 .. n /\ m + 1 \in 1 .. n
        BY <1>1, <2>1, <2>6
      <3>2. i - 1 + m = k /\ i - 1 + (m + 1) = k + 1
        BY <1>1, <2>1
      <3> HIDE DEF m
      <3>3. r[k] = new[m] /\ r[k + 1] = new[m + 1]
        BY <1>2, <3>1, <3>2
      <3> QED
        BY <2>0, <3>1, <3>3 DEF AddsNone
    <2>7. CASE i <= k /\ k = i - 1 + n
      <3>1. n > 0 /\ j < Len(vs) /\ n \in 1 .. n /\ 1 \in 1 .. Len(vs) - j /\ k + 1 = i - 1 + n + 1
            /\ ~(k < i) /\ k + (j + 1 - i) - n = j
        BY <1>1, <2>1, <2>7
      <3>2. r[k] = new[n] /\ r[k + 1] = vs[j + 1]
        BY <1>2, <2>7, <3>1
      <3>3. i <= j /\ Touch(vs[j], vs[j + 1])
        BY <2>0, <3>1, <3>2 DEF AddsNone
      <3>4. j \in 1 .. Len(vs) - 1
        BY <1>1, <3>1, <3>3
      <3>5. j \in Seams(vs)
        BY <2>2, <3>3, <3>4
      <3>6. f[k] = j
        BY <2>3, <3>1
      <3> QED
        BY <1>1, <2>1, <3>1, <3>3, <3>5, <3>6
    <2>8. CASE i <= k /\ k > i - 1 + n
      <3> DEFINE m == k - (i - 1 + n)
      <3>1. /\ m \in 1 .. Len(vs) - j /\ m + 1 \in 1 .. Len(vs) - j
            /\ i - 1 + n + m = k /\ i - 1 + n + (m + 1) = k + 1
            /\ ~(k < i) /\ k + (j + 1 - i) - n = j + m /\ j + m \in 1 .. Len(vs) - 1
            /\ (j + m) + 1 = j + (m + 1) /\ j + m >= i
        BY <1>1, <2>1, <2>8
      <3> HIDE DEF m
      <3>2. r[k] = vs[j + m] /\ r[k + 1] = vs[j + (m + 1)]
        BY <1>2, <3>1
      <3>3. j + m \in Seams(vs)
        BY <2>0, <2>2, <3>1, <3>2
      <3>4. f[k] = j + m
        BY <2>3, <3>1
      <3> QED
        BY <2>1, <3>1, <3>3, <3>4
    <2> QED
      BY <1>1, <2>1, <2>4, <2>5, <2>6, <2>7, <2>8
  <1>4. f \in [Seams(r) -> Seams(vs)]
    <2>1. \A k \in Seams(r) : f[k] \in Seams(vs)
      BY <1>3
    <2> QED
      BY <1>0, <2>1
  <1>5. ASSUME NEW k \in Seams(r), NEW m \in Seams(r), f[k] = f[m] PROVE k = m
    <2>1. /\ k \in Nat
          /\ k < i => f[k] = k
          /\ k >= i => f[k] = k + (j + 1 - i) - n /\ f[k] >= i
      BY <1>3
    <2>2. /\ m \in Nat
          /\ m < i => f[m] = m
          /\ m >= i => f[m] = m + (j + 1 - i) - n /\ f[m] >= i
      BY <1>3
    <2> QED
      BY <1>1, <1>5, <2>1, <2>2
  <1>6. f \in Injection(Seams(r), Seams(vs))
    BY <1>4, <1>5 DEF Injection, IsInjective
  <1>7. IsFiniteSet(Seams(vs))
    BY SeamsFinite
  <1>8. Cardinality(Seams(r)) <= Cardinality(Seams(vs))
    BY <1>6, <1>7, FS_Injection
  <1> QED
    BY <1>8 DEF r

(* A list with areas i .. j gone, or in their place one, two or three      *)
LEMMA ShortSeams ==
  ASSUME NEW vs \in Seq(AreaSet), NEW i \in 1 .. Len(vs) + 1, NEW j \in (i - 1) .. Len(vs),
         NEW a \in AreaSet, NEW b \in AreaSet, NEW c \in AreaSet
  PROVE  /\ (i > 1 /\ j < Len(vs) => ~Touch(vs[i - 1], vs[j + 1])) =>
              Cardinality(Seams(Splice(vs, i, j, << >>))) <= Cardinality(Seams(vs))
         /\ (/\ i > 1 /\ Touch(vs[i - 1], a) => i <= j /\ Touch(vs[i - 1], vs[i])
             /\ j < Len(vs) /\ Touch(a, vs[j + 1]) => i <= j /\ Touch(vs[j], vs[j + 1])) =>
              Cardinality(Seams(Splice(vs, i, j, <<a>>))) <= Cardinality(Seams(vs))
         /\ (/\ i > 1 /\ Touch(vs[i - 1], a) => i <= j /\ Touch(vs[i - 1], vs[i])
             /\ j < Len(vs) /\ Touch(b, vs[j + 1]) => i <= j /\ Touch(vs[j], vs[j + 1])
             /\ ~Touch(a, b)) =>
              Cardinality(Seams(Splice(vs, i, j, <<a, b>>))) <= Cardinality(Seams(vs))
         /\ (/\ i > 1 /\ Touch(vs[i - 1], a) => i <= j /\ Touch(vs[i - 1], vs[i])
             /\ j < Len(vs) /\ Touch(c, vs[j + 1]) => i <= j /\ Touch(vs[j], vs[j + 1])
             /\ ~Touch(a, b) /\ ~Touch(b, c)) =>
              Cardinality(Seams(Splice(vs, i, j, <<a, b, c>>))) <= Cardinality(Seams(vs))
  <1>1. ASSUME i > 1 /\ j < Len(vs) => ~Touch(vs[i - 1], vs[j + 1])
        PROVE  Cardinality(Seams(Splice(vs, i, j, << >>))) <= Cardinality(Seams(vs))
    <2> DEFINE new == << >>
    <2>1. new \in Seq(AreaSet) /\ 0 \in Nat /\ 0 = Len(new)
      OBVIOUS
    <2> HIDE DEF new
    <2>2. AddsNone(vs, i, j, new, 0)
      BY <1>1 DEF AddsNone
    <2>3. Cardinality(Seams(Splice(vs, i, j, new))) <= Cardinality(Seams(vs))
      BY <2>1, <2>2, SpliceSeams
    <2> QED
      BY <2>3 DEF new
  <1>2. ASSUME i > 1 /\ Touch(vs[i - 1], a) => i <= j /\ Touch(vs[i - 1], vs[i]),
               j < Len(vs) /\ Touch(a, vs[j + 1]) => i <= j /\ Touch(vs[j], vs[j + 1])
        PROVE  Cardinality(Seams(Splice(vs, i, j, <<a>>))) <= Cardinality(Seams(vs))
    <2> DEFINE new == <<a>>
    <2>1. new \in Seq(AreaSet) /\ 1 \in Nat /\ 1 = Len(new) /\ new[1] = a
      OBVIOUS
    <2> HIDE DEF new
    <2>2. AddsNone(vs, i, j, new, 1)
      BY <1>2, <2>1 DEF AddsNone
    <2>3. Cardinality(Seams(Splice(vs, i, j, new))) <= Cardinality(Seams(vs))
      BY <2>1, <2>2, SpliceSeams
    <2> QED
      BY <2>3 DEF new
  <1>3. ASSUME i > 1 /\ Touch(vs[i - 1], a) => i <= j /\ Touch(vs[i - 1], vs[i]),
               j < Len(vs) /\ Touch(b, vs[j + 1]) => i <= j /\ Touch(vs[j], vs[j + 1]),
               ~Touch(a, b)
        PROVE  Cardinality(Seams(Splice(vs, i, j, <<a, b>>))) <= Cardinality(Seams(vs))
    <2> DEFINE new == <<a, b>>
    <2>1. new \in Seq(AreaSet) /\ 2 \in Nat /\ 2 = Len(new) /\ new[1] = a /\ new[2] = b
      OBVIOUS
    <2> HIDE DEF new
    <2>2. \A k \in 1 .. 2 - 1 : ~Touch(new[k], new[k + 1])
      <3>1. \A k \in 1 .. 2 - 1 : k = 1 /\ k + 1 = 2
        OBVIOUS
      <3> QED
        BY <1>3, <2>1, <3>1
    <2>3. AddsNone(vs, i, j, new, 2)
      BY <1>3, <2>1, <2>2 DEF AddsNone
    <2>4. Cardinality(Seams(Splice(vs, i, j, new))) <= Cardinality(Seams(vs))
      BY <2>1, <2>3, SpliceSeams
    <2> QED
      BY <2>4 DEF new
  <1>4. ASSUME i > 1 /\ Touch(vs[i - 1], a) => i <= j /\ Touch(vs[i - 1], vs[i]),
               j < Len(vs) /\ Touch(c, vs[j + 1]) => i <= j /\ Touch(vs[j], vs[j + 1]),
               ~Touch(a, b), ~Touch(b, c)
        PROVE  Cardinality(Seams(Splice(vs, i, j, <<a, b, c>>))) <= Cardinality(Seams(vs))
    <2> DEFINE new == <<a, b, c>>
    <2>1. new \in Seq(AreaSet) /\ 3 \in Nat /\ 3 = Len(new) /\ new[1] = a /\ new[2] = b /\ new[3] = c
      OBVIOUS
    <2> HIDE DEF new
    <2>2. \A k \in 1 .. 3 - 1 : ~Touch(new[k], new[k + 1])
      <3>1. \A k \in 1 .. 3 - 1 : (k = 1 /\ k + 1 = 2) \/ (k = 2 /\ k + 1 = 3)
        OBVIOUS
      <3> QED
        BY <1>4, <2>1, <3>1
    <2>3. AddsNone(vs, i, j, new, 3)
      BY <1>4, <2>1, <2>2 DEF AddsNone
    <2>4. Cardinality(Seams(Splice(vs, i, j, new))) <= Cardinality(Seams(vs))
      BY <2>1, <2>3, SpliceSeams
    <2> QED
      BY <2>4 DEF new
  <1> QED
    BY <1>1, <1>2, <1>3, <1>4

(* New memory is merged with what it touches (vm_area_map).                *)
LEMMA PlacedSeams ==
  ASSUME NEW vs, Headed(vs), NEW i \in 1 .. Len(vs),
         NEW addr \in Nat, NEW len \in Nat, NEW q \in {1, 3},
         vs[i].end <= addr, addr + len <= Limit(vs, i)
  PROVE  Cardinality(Seams(Placed(vs, i, addr, len, q).areas)) <= Cardinality(Seams(vs))
  <1> DEFINE to == addr + len
             next == vs[i + 1]
             fresh == [start |-> addr, end |-> to, flags |-> q]
             longer == [vs[i] EXCEPT !.end = @ + len]
             earlier == [next EXCEPT !.start = addr]
             joined == [vs[i] EXCEPT !.end = next.end]
             withPrev == addr = vs[i].end /\ q = vs[i].flags
             withNext == i < Len(vs) /\ to = next.start /\ q = next.flags
             new == Placed(vs, i, addr, len, q)
  <1>0. Len(vs) \in Nat
    BY DEF Headed, Sorted
  <1>1. vs \in Seq(AreaSet) /\ to \in Nat /\ addr <= to /\ \A k \in 1 .. Len(vs) : vs[k] \in AreaSet
    BY DEF Headed, Sorted
  <1>2. /\ vs[i].end \in Nat /\ vs[i].start \in Nat /\ Start <= vs[i].start
        /\ Limit(vs, i) \in Nat /\ Limit(vs, i) <= End /\ vs[i] \in AreaSet
        /\ vs[i].start <= vs[i].end
    BY <1>1, AreaFacts, ProperFacts DEF Headed, Sorted
  <1>3. i < Len(vs) => /\ i + 1 \in 1 .. Len(vs) /\ next \in AreaSet
                       /\ next.end \in Nat /\ next.end <= End /\ next.start \in Nat
                       /\ Start <= next.end
    <2>1. ASSUME i < Len(vs) PROVE i + 1 \in 1 .. Len(vs)
      BY <1>0, <2>1
    <2>2. Start \in Nat
      BY LayoutAssumption
    <2> QED
      BY <1>1, <2>1, <2>2, ProperFacts DEF Headed, Sorted
  <1>4. addr \in Edges /\ to \in Edges /\ Start \in Nat /\ End \in Nat
    BY <1>1, <1>2, LayoutAssumption DEF Edges
  <1>5. i < Len(vs) => next.end \in Edges
    BY <1>3, <1>4 DEF Edges
  <1>6. i \in Nat /\ (i + 1) - 1 = i /\ (i + 1) + 1 = i + 2
    BY <1>0
  <1>10. CASE withPrev /\ ~withNext
    <2>1. new.areas = [vs EXCEPT ![i] = longer]
      BY <1>10, <1>1, <1>2 DEF Placed
    <2>2. /\ longer \in AreaSet /\ longer.start = vs[i].start /\ longer.end = to
          /\ longer.flags = vs[i].flags
      <3>1. longer = [vs[i] EXCEPT !.end = to]
        BY <1>10
      <3> HIDE DEF longer, to
      <3> QED
        BY <1>2, <1>4, <3>1, Moved
    <2> HIDE DEF longer, new
    <2>3. Touch(vs[i - 1], longer) => Touch(vs[i - 1], vs[i])
      BY <2>2 DEF Touch
    <2>4. i < Len(vs) => ~Touch(longer, vs[i + 1])
      BY <1>10, <2>2 DEF Touch
    <2> QED
      BY <1>1, <2>1, <2>2, <2>3, <2>4, ReplaceSeams DEF new
  <1>11. CASE ~withPrev /\ withNext
    <2>1. new.areas = [vs EXCEPT ![i + 1] = earlier]
      BY <1>11, <1>1, <1>3 DEF Placed
    <2>2. /\ earlier \in AreaSet /\ earlier.start = addr /\ earlier.end = next.end
          /\ earlier.flags = q /\ next.flags = q /\ i + 1 \in 1 .. Len(vs)
      <3> HIDE DEF next
      <3> QED
        BY <1>3, <1>4, <1>11, Moved
    <2> HIDE DEF earlier, new
    <2>3. ~Touch(vs[(i + 1) - 1], earlier)
      BY <1>6, <1>11, <2>2 DEF Touch
    <2>4. Touch(earlier, vs[(i + 1) + 1]) => Touch(vs[i + 1], vs[(i + 1) + 1])
      BY <2>2 DEF Touch
    <2> QED
      BY <1>1, <2>1, <2>2, <2>3, <2>4, ReplaceSeams DEF new
  <1>12. CASE withPrev /\ withNext
    <2>1. new.areas = Splice(vs, i, i + 1, <<joined>>)
      BY <1>12 DEF Placed
    <2>2. /\ joined \in AreaSet /\ joined.start = vs[i].start /\ joined.end = next.end
          /\ joined.flags = vs[i].flags /\ joined.flags = next.flags
      <3> HIDE DEF next
      <3> QED
        BY <1>2, <1>5, <1>12, Moved
    <2>3. i \in 1 .. Len(vs) + 1 /\ i + 1 \in (i - 1) .. Len(vs) /\ i <= i + 1
      BY <1>0, <1>12
    <2> HIDE DEF joined, new
    <2>4. Touch(vs[i - 1], joined) => Touch(vs[i - 1], vs[i])
      BY <2>2 DEF Touch
    <2>5. Touch(joined, vs[(i + 1) + 1]) => Touch(vs[i + 1], vs[(i + 1) + 1])
      BY <2>2 DEF Touch
    <2> QED
      BY <1>1, <2>1, <2>2, <2>3, <2>4, <2>5, ShortSeams DEF new
  <1>13. CASE ~withPrev /\ ~withNext
    <2>1. new.areas = Splice(vs, i + 1, i, <<fresh>>)
      BY <1>13 DEF Placed
    <2>2. fresh \in AreaSet /\ fresh.start = addr /\ fresh.end = to /\ fresh.flags = q
      <3> HIDE DEF to
      <3> QED
        BY <1>4 DEF AreaSet
    <2>3. i + 1 \in 1 .. Len(vs) + 1 /\ i \in ((i + 1) - 1) .. Len(vs)
      BY <1>0
    <2> HIDE DEF fresh, new
    <2>4. ~Touch(vs[(i + 1) - 1], fresh)
      BY <1>6, <1>13, <2>2 DEF Touch
    <2>5. i < Len(vs) => ~Touch(fresh, vs[i + 1])
      BY <1>13, <2>2 DEF Touch
    <2> QED
      BY <1>1, <2>1, <2>2, <2>3, <2>4, <2>5, ShortSeams DEF new
  <1> QED
    BY <1>10, <1>11, <1>12, <1>13

(* What is cut out of an area leaves two that touch nowhere they did not   *)
(* (vm_area_unmap).                                                        *)
LEMMA CutSeams ==
  ASSUME NEW vs, Headed(vs), NEW i \in 2 .. Len(vs),
         NEW addr \in Nat, NEW len \in Nat, len > 0,
         vs[i].start <= addr, addr + len <= vs[i].end
  PROVE  /\ Cardinality(Seams(Cut(vs, i, addr, len).areas)) <= Cardinality(Seams(vs))
         /\ Cardinality(Seams([vs EXCEPT ![i] = [vs[i] EXCEPT !.end = addr]])) <= Cardinality(Seams(vs))
  <1> DEFINE a == vs[i]
             to == addr + len
             before == [a EXCEPT !.end = addr]
             after == [a EXCEPT !.start = to]
             new == Cut(vs, i, addr, len)
  <1>0. Len(vs) \in Nat
    BY DEF Headed, Sorted
  <1>1. /\ vs \in Seq(AreaSet) /\ Sorted(vs) /\ \A k \in 1 .. Len(vs) : Proper(vs[k])
        /\ addr < to /\ to \in Nat
    BY DEF Headed, Sorted
  <1>2. /\ i \in 1 .. Len(vs) /\ i \in 1 .. Len(vs) + 1 /\ i \in (i - 1) .. Len(vs)
        /\ i - 1 \in 1 .. Len(vs) /\ i - 1 < i /\ i <= i
    BY <1>0
  <1>3. a \in AreaSet /\ a.start \in Nat /\ a.end \in Nat /\ Start <= a.start /\ a.end <= End
    BY <1>1, <1>2, ProperFacts DEF Proper
  <1>4. vs[i - 1].end \in Nat /\ vs[i - 1].end <= a.start
    BY <1>1, <1>2, SortedFacts, ProperFacts
  <1>5. i < Len(vs) => /\ i + 1 \in 1 .. Len(vs) /\ vs[i + 1].start \in Nat
                       /\ a.end <= vs[i + 1].start
    <2>1. ASSUME i < Len(vs) PROVE i + 1 \in 1 .. Len(vs) /\ i + 1 > i
      BY <1>0, <2>1
    <2> QED
      BY <1>1, <1>2, <2>1, SortedFacts, ProperFacts
  <1>6. /\ before \in AreaSet /\ before.start = a.start /\ before.end = addr /\ before.flags = a.flags
        /\ after \in AreaSet /\ after.start = to /\ after.end = a.end /\ after.flags = a.flags
    <2>1. addr \in Edges /\ to \in Edges
      BY <1>1, <1>3, LayoutAssumption DEF Edges
    <2> HIDE DEF a, to
    <2> QED
      BY <1>3, <2>1, Moved
  <1> HIDE DEF before, after
  <1>7. Cardinality(Seams([vs EXCEPT ![i] = before])) <= Cardinality(Seams(vs))
    <2>1. Touch(vs[i - 1], before) => Touch(vs[i - 1], vs[i])
      BY <1>6 DEF Touch
    <2>2. i < Len(vs) => ~Touch(before, vs[i + 1])
      BY <1>1, <1>3, <1>5, <1>6 DEF Touch
    <2> QED
      BY <1>1, <1>2, <1>6, <2>1, <2>2, ReplaceSeams
  <1>8. Cardinality(Seams(new.areas)) <= Cardinality(Seams(vs))
    <2>1. CASE a.start = addr /\ a.end = to
      <3>1. new.areas = Splice(vs, i, i, << >>)
        BY <2>1 DEF Cut
      <3> HIDE DEF new
      <3>2. i < Len(vs) => ~Touch(vs[i - 1], vs[i + 1])
        BY <1>1, <1>3, <1>4, <1>5, <2>1 DEF Touch
      <3> QED
        BY <1>1, <1>2, <1>3, <3>1, <3>2, ShortSeams
    <2>2. CASE a.start = addr /\ a.end # to
      <3>1. new.areas = [vs EXCEPT ![i] = after]
        BY <1>1, <1>3, <2>2 DEF Cut, after
      <3> HIDE DEF new
      <3>2. ~Touch(vs[i - 1], after)
        BY <1>1, <1>3, <1>4, <1>6, <2>2 DEF Touch
      <3>3. Touch(after, vs[i + 1]) => Touch(vs[i], vs[i + 1])
        BY <1>6 DEF Touch
      <3> QED
        BY <1>1, <1>2, <1>6, <3>1, <3>2, <3>3, ReplaceSeams
    <2>3. CASE a.start # addr /\ a.end = to
      <3>1. new.areas = [vs EXCEPT ![i] = before]
        BY <1>1, <1>3, <2>3 DEF Cut, before
      <3> HIDE DEF new
      <3> QED
        BY <1>7, <3>1
    <2>4. CASE a.start # addr /\ a.end # to
      <3>1. new.areas = Splice(vs, i, i, <<before, after>>)
        BY <2>4 DEF Cut, before, after
      <3> HIDE DEF new
      <3>2. Touch(vs[i - 1], before) => Touch(vs[i - 1], vs[i])
        BY <1>6 DEF Touch
      <3>3. Touch(after, vs[i + 1]) => Touch(vs[i], vs[i + 1])
        BY <1>6 DEF Touch
      <3>4. ~Touch(before, after)
        BY <1>1, <1>6 DEF Touch
      <3> QED
        BY <1>1, <1>2, <1>6, <3>1, <3>2, <3>3, <3>4, ShortSeams
    <2> QED
      BY <2>1, <2>2, <2>3, <2>4
  <1> QED
    BY <1>7, <1>8 DEF before

(* A part of an area that gets another protection than the area has is     *)
(* merged with what it touches (vm_area_mprotect).                         *)
LEMMA ReprotectedSeams ==
  ASSUME NEW vs, Headed(vs), NEW i \in 2 .. Len(vs),
         NEW addr \in Nat, NEW len \in Nat, NEW q \in {1, 3}, q # vs[i].flags,
         vs[i].start <= addr, addr + len <= vs[i].end
  PROVE  Cardinality(Seams(Reprotected(vs, i, addr, len, q).areas)) <= Cardinality(Seams(vs))
  <1> DEFINE a == vs[i]
             prev == vs[i - 1]
             next == vs[i + 1]
             to == addr + len
             mid == [start |-> addr, end |-> to, flags |-> q]
             before == [a EXCEPT !.end = addr]
             after == [a EXCEPT !.start = to]
             joinPrev == prev.flags = q /\ prev.end = addr
             joinNext == i < Len(vs) /\ next.flags = q /\ next.start = to
             new == Reprotected(vs, i, addr, len, q)
             Fewer(ws) == Cardinality(Seams(ws)) <= Cardinality(Seams(vs))
  <1>0. Len(vs) \in Nat
    BY DEF Headed, Sorted
  <1>1. vs \in Seq(AreaSet) /\ Sorted(vs) /\ addr <= to /\ to \in Nat /\ \A k \in 1 .. Len(vs) : Proper(vs[k])
    BY DEF Headed, Sorted
  <1>2. /\ i \in 1 .. Len(vs) /\ i - 1 \in 1 .. Len(vs) /\ i <= i /\ i - 1 <= i
        /\ i \in 1 .. Len(vs) + 1 /\ i \in (i - 1) .. Len(vs)
        /\ i - 1 \in 1 .. Len(vs) + 1 /\ i \in ((i - 1) - 1) .. Len(vs)
    BY <1>0
  <1>3. i < Len(vs) => /\ i + 1 \in 1 .. Len(vs) /\ i <= i + 1 /\ i - 1 <= i + 1
                       /\ i + 1 \in (i - 1) .. Len(vs) /\ i + 1 \in ((i - 1) - 1) .. Len(vs)
    BY <1>0
  <1>4. a \in AreaSet /\ a.start \in Nat /\ a.end \in Nat /\ Start <= a.start /\ a.end <= End
    BY <1>1, <1>2, ProperFacts DEF Proper
  <1>5. prev \in AreaSet
    BY <1>1, <1>2 DEF Proper
  <1>6. i < Len(vs) => next \in AreaSet /\ next.end \in Nat /\ Start <= next.end /\ next.end <= End
    <2>1. ASSUME i < Len(vs)
          PROVE  /\ next \in AreaSet /\ next.start \in Nat /\ next.end \in Nat
                 /\ Start <= next.start /\ next.start <= next.end /\ next.end <= End
      BY <1>1, <1>3, <2>1, ProperFacts DEF Proper
    <2> QED
      BY <2>1, LayoutAssumption
  <1>7. addr \in Edges /\ to \in Edges /\ a.end \in Edges /\ (i < Len(vs) => next.end \in Edges)
    <2>1. Start \in Nat /\ End \in Nat
      BY LayoutAssumption
    <2> QED
      BY <1>1, <1>4, <1>6, <2>1 DEF Edges
  <1>8. /\ before \in AreaSet /\ before.start = a.start /\ before.end = addr /\ before.flags = a.flags
        /\ after \in AreaSet /\ after.start = to /\ after.end = a.end /\ after.flags = a.flags
    <2> HIDE DEF a, to
    <2> QED
      BY ZenonT(40), <1>4, <1>7, Moved
  <1>9. mid \in AreaSet /\ mid.start = addr /\ mid.end = to /\ mid.flags = q
    <2> HIDE DEF to
    <2> QED
      BY <1>7 DEF AreaSet
  <1>a. /\ Touch(vs[i - 1], before) => Touch(vs[i - 1], vs[i])
        /\ Touch(after, vs[i + 1]) => Touch(vs[i], vs[i + 1])
        /\ Touch(vs[i - 1], mid) => joinPrev
        /\ i < Len(vs) /\ Touch(mid, vs[i + 1]) => joinNext
        /\ ~Touch(before, mid) /\ ~Touch(mid, after)
    <2> HIDE DEF before, mid, after
    <2> QED
      BY <1>8, <1>9 DEF Touch
  <1>10. CASE addr # a.start /\ to # a.end
    <2>1. new.areas = Splice(vs, i, i, <<before, mid, after>>)
      <3>1. new = [areas |-> Splice(vs, i, i, <<before, mid, after>>),
                   count |-> Len(<<before, mid, after>>) - (i - i + 1)]
        BY <1>10, Zenon DEF Reprotected
      <3> HIDE DEF new
      <3> QED
        BY <3>1
    <2> HIDE DEF new, mid, before, after
    <2> QED
      BY <1>1, <1>2, <1>8, <1>9, <1>a, <2>1, ShortSeams DEF new
  <1>11. CASE addr # a.start /\ to = a.end /\ joinNext
    <2> DEFINE earlier == [next EXCEPT !.start = addr]
    <2>1. new.areas = Splice(vs, i, i + 1, <<before, earlier>>)
      <3>1. new = [areas |-> Splice(vs, i, i + 1, <<before, earlier>>),
                   count |-> Len(<<before, earlier>>) - ((i + 1) - i + 1)]
        BY <1>11, Zenon DEF Reprotected
      <3> HIDE DEF new
      <3> QED
        BY <3>1
    <2>2. earlier \in AreaSet /\ earlier.end = next.end /\ earlier.flags = next.flags /\ next.flags = q
      <3> HIDE DEF next
      <3> QED
        BY <1>6, <1>7, <1>11, Moved
    <2> HIDE DEF new, mid, before, after, earlier
    <2>3. ~Touch(before, earlier)
      BY <1>8, <2>2 DEF Touch
    <2>4. Touch(earlier, vs[(i + 1) + 1]) => Touch(vs[i + 1], vs[(i + 1) + 1])
      BY <2>2 DEF Touch
    <2> QED
      BY <1>1, <1>2, <1>3, <1>8, <1>11, <1>a, <2>1, <2>2, <2>3, <2>4, ShortSeams DEF new
  <1>12. CASE addr # a.start /\ to = a.end /\ ~joinNext
    <2>1. new.areas = Splice(vs, i, i, <<before, mid>>)
      <3>1. new = [areas |-> Splice(vs, i, i, <<before, mid>>),
                   count |-> Len(<<before, mid>>) - (i - i + 1)]
        BY <1>12, Zenon DEF Reprotected
      <3> HIDE DEF new
      <3> QED
        BY <3>1
    <2> HIDE DEF new, mid, before, after
    <2> QED
      BY <1>1, <1>2, <1>8, <1>9, <1>12, <1>a, <2>1, ShortSeams DEF new
  <1>13. CASE addr = a.start /\ to # a.end /\ joinPrev
    <2> DEFINE longer == [prev EXCEPT !.end = to]
    <2>1. new.areas = Splice(vs, i - 1, i, <<longer, after>>)
      <3>1. new = [areas |-> Splice(vs, i - 1, i, <<longer, after>>),
                   count |-> Len(<<longer, after>>) - (i - (i - 1) + 1)]
        BY <1>13, Zenon DEF Reprotected
      <3> HIDE DEF new
      <3> QED
        BY <3>1
    <2>2. longer \in AreaSet /\ longer.start = prev.start /\ longer.flags = prev.flags /\ prev.flags = q
      <3> HIDE DEF prev, to
      <3> QED
        BY <1>5, <1>7, <1>13, Moved
    <2> HIDE DEF new, mid, before, after, longer
    <2>3. ~Touch(longer, after)
      BY <1>8, <2>2 DEF Touch
    <2>4. Touch(vs[(i - 1) - 1], longer) => Touch(vs[(i - 1) - 1], vs[i - 1])
      BY <2>2 DEF Touch
    <2> QED
      BY <1>1, <1>2, <1>8, <1>a, <2>1, <2>2, <2>3, <2>4, ShortSeams DEF new
  <1>14. CASE addr = a.start /\ to # a.end /\ ~joinPrev
    <2>1. new.areas = Splice(vs, i, i, <<mid, after>>)
      <3>1. new = [areas |-> Splice(vs, i, i, <<mid, after>>),
                   count |-> Len(<<mid, after>>) - (i - i + 1)]
        BY <1>14, Zenon DEF Reprotected
      <3> HIDE DEF new
      <3> QED
        BY <3>1
    <2> HIDE DEF new, mid, before, after
    <2> QED
      BY <1>1, <1>2, <1>8, <1>9, <1>14, <1>a, <2>1, ShortSeams DEF new
  <1>15. CASE addr = a.start /\ to = a.end /\ joinPrev /\ joinNext
    <2> DEFINE joined == [prev EXCEPT !.end = next.end]
    <2>1. new.areas = Splice(vs, i - 1, i + 1, <<joined>>)
      <3>1. new = [areas |-> Splice(vs, i - 1, i + 1, <<joined>>),
                   count |-> Len(<<joined>>) - ((i + 1) - (i - 1) + 1)]
        BY <1>15, Zenon DEF Reprotected
      <3> HIDE DEF new
      <3> QED
        BY <3>1
    <2>2. /\ joined \in AreaSet /\ joined.start = prev.start /\ joined.end = next.end
          /\ joined.flags = prev.flags /\ joined.flags = next.flags
      <3> HIDE DEF prev, next
      <3> QED
        BY <1>5, <1>7, <1>15, Moved
    <2> HIDE DEF new, mid, before, after, joined
    <2>3. Touch(vs[(i - 1) - 1], joined) => Touch(vs[(i - 1) - 1], vs[i - 1])
      BY <2>2 DEF Touch
    <2>4. Touch(joined, vs[(i + 1) + 1]) => Touch(vs[i + 1], vs[(i + 1) + 1])
      BY <2>2 DEF Touch
    <2> QED
      BY <1>1, <1>2, <1>3, <1>15, <2>1, <2>2, <2>3, <2>4, ShortSeams DEF new
  <1>16. CASE addr = a.start /\ to = a.end /\ ~joinPrev /\ joinNext
    <2> DEFINE joined == [mid EXCEPT !.end = next.end]
    <2>1. new.areas = Splice(vs, i, i + 1, <<joined>>)
      <3>1. new = [areas |-> Splice(vs, i, i + 1, <<joined>>),
                   count |-> Len(<<joined>>) - ((i + 1) - i + 1)]
        BY <1>16, Zenon DEF Reprotected
      <3> HIDE DEF new
      <3> QED
        BY <3>1
    <2>2. /\ joined \in AreaSet /\ joined.start = addr /\ joined.end = next.end
          /\ joined.flags = q /\ joined.flags = next.flags
      <3> HIDE DEF mid, next
      <3> QED
        BY <1>7, <1>9, <1>16, Moved
    <2> HIDE DEF new, mid, before, after, joined
    <2>3. ~Touch(vs[i - 1], joined)
      BY <1>16, <2>2 DEF Touch
    <2>4. Touch(joined, vs[(i + 1) + 1]) => Touch(vs[i + 1], vs[(i + 1) + 1])
      BY <2>2 DEF Touch
    <2> QED
      BY <1>1, <1>2, <1>3, <1>16, <2>1, <2>2, <2>3, <2>4, ShortSeams DEF new
  <1>17. CASE addr = a.start /\ to = a.end /\ joinPrev /\ ~joinNext
    <2> DEFINE longer == [prev EXCEPT !.end = a.end]
    <2>1. new.areas = Splice(vs, i - 1, i, <<longer>>)
      <3>1. new = [areas |-> Splice(vs, i - 1, i, <<longer>>),
                   count |-> Len(<<longer>>) - (i - (i - 1) + 1)]
        BY <1>17, Zenon DEF Reprotected
      <3> HIDE DEF new
      <3> QED
        BY <3>1
    <2>2. /\ longer \in AreaSet /\ longer.start = prev.start /\ longer.end = a.end
          /\ longer.flags = prev.flags /\ longer.flags = q
      <3> HIDE DEF prev, a
      <3> QED
        BY <1>5, <1>7, <1>17, Moved
    <2> HIDE DEF new, mid, before, after, longer
    <2>3. Touch(vs[(i - 1) - 1], longer) => Touch(vs[(i - 1) - 1], vs[i - 1])
      BY <2>2 DEF Touch
    <2>4. i < Len(vs) => ~Touch(longer, vs[i + 1])
      BY <1>17, <2>2 DEF Touch
    <2> QED
      BY <1>1, <1>2, <2>1, <2>2, <2>3, <2>4, ShortSeams DEF new
  <1>18. CASE addr = a.start /\ to = a.end /\ ~joinPrev /\ ~joinNext
    <2>1. new.areas = Splice(vs, i, i, <<mid>>)
      <3>1. new = [areas |-> Splice(vs, i, i, <<mid>>),
                   count |-> Len(<<mid>>) - (i - i + 1)]
        BY <1>18, Zenon DEF Reprotected
      <3> HIDE DEF new
      <3> QED
        BY <3>1
    <2> HIDE DEF new, mid, before, after
    <2> QED
      BY <1>1, <1>2, <1>9, <1>18, <1>a, <2>1, ShortSeams DEF new
  <1> QED
    BY <1>10, <1>11, <1>12, <1>13, <1>14, <1>15, <1>16, <1>17, <1>18

(* One process's list changes, and has no more seams than before.          *)
NoMoreSeams(p) ==
  /\ \A other \in Procs \ {p} : vmas'[other] = vmas[other]
  /\ Cardinality(Seams(vmas'[p])) <= Cardinality(Seams(vmas[p]))

(* mmap, whichever way it places the memory, adds no seam.                 *)
LEMMA MapSeams ==
  ASSUME IInv, IInv', NEW p \in Procs,
         NEW addr \in Addrs, NEW length \in Lengths, NEW q \in ProtArgs, NEW flag \in FlagArgs,
         Plain(addr, length), vm_area_map(p, addr, length, q, flag)
  PROVE  NoMoreSeams(p)
  <1> DEFINE vs == Listed(p)
             len == Aligned(length)
  <1>1. addr \in Nat /\ length \in Int /\ length + Page - 1 <= IntMax
    BY LayoutAssumption DEF Plain
  <1>2. ValidMap(length, q, flag) => len \in Nat /\ q \in {1, 3}
    BY <1>1, Rounding DEF ValidMap
  <1>3. Headed(vs) /\ DOMAIN vs = 1 .. Len(vs)
    BY ListedFacts
  <1>4. Cardinality(Seams(vs)) <= Cardinality(Seams(vmas[p])) /\ Cardinality(Seams(vmas[p])) \in Nat
        /\ Cardinality(Seams(vs)) \in Nat
    <2>1. vmas[p] \in Seq(AreaSet) /\ vs \in Seq(AreaSet)
      BY <1>3 DEF IInv, ListInv, Headed, Sorted
    <2>2. Cardinality(Seams(vmas[p])) \in Nat
      BY <2>1, SeamsFinite
    <2>3. CASE vmas[p] = << >>
      <3>1. Len(vs) = 1
        BY <2>3, ListedFacts
      <3>2. Seams(vs) = {}
        BY <3>1 DEF Seams
      <3> QED
        BY <2>2, <3>2, FS_EmptySet
    <2>4. CASE vmas[p] # << >>
      BY <2>2, <2>4, ListedFacts
    <2> QED
      BY <2>2, <2>3, <2>4
  <1>5. ASSUME NEW i \in 1 .. Len(vs), NEW at \in Nat, vs[i].end <= at, at + len <= Limit(vs, i),
               ValidMap(length, q, flag), MapPlace(p, i, at, length, q)
        PROVE  NoMoreSeams(p)
    <2>1. /\ \A other \in Procs \ {p} : vmas'[other] = vmas[other]
          /\ vmas'[p] = Placed(vs, i, at, len, q).areas
      BY <1>5 DEF MapPlace, IInv, ListInv
    <2> HIDE DEF vs, len
    <2>2. Cardinality(Seams(Placed(vs, i, at, len, q).areas)) <= Cardinality(Seams(vs))
      BY <1>2, <1>3, <1>5, PlacedSeams
    <2>3. vmas'[p] \in Seq(AreaSet)
      BY DEF IInv, ListInv
    <2>4. Cardinality(Seams(vmas'[p])) \in Nat
      BY <2>3, SeamsFinite
    <2> QED
      BY <1>4, <2>1, <2>2, <2>4 DEF NoMoreSeams
  <1>6. CASE MapInvalid(p, addr, length, q, flag)
    BY <1>4, <1>6 DEF MapInvalid, NoMoreSeams
  <1>7. CASE MapRefused(p, addr, length, q, flag)
    <2>1. vmas'[p] = vs /\ \A other \in Procs \ {p} : vmas'[other] = vmas[other]
      BY <1>7 DEF MapRefused, IInv, ListInv
    <2> QED
      BY <1>4, <2>1 DEF NoMoreSeams
  <1>8. CASE MapAtHint(p, addr, length, q, flag)
    <2> DEFINE hits == Hits(vs, addr)
               i == Lowest(hits)
    <2>1. /\ ValidMap(length, q, flag) /\ Fits(vs, addr, len)
          /\ MapPlace(p, i, addr, length, q)
      BY <1>8 DEF MapAtHint
    <2>2. hits # {} /\ hits \in SUBSET Nat
      BY <1>3, <2>1 DEF Fits, Hits
    <2>3. i \in hits
      BY <2>2, LowestIn
    <2>4. ~Contains(vs[i], addr) /\ addr + len <= Limit(vs, i)
      BY <2>1 DEF Fits
    <2> HIDE DEF i
    <2>5. i \in 1 .. Len(vs) /\ vs[i].end <= addr
      BY <1>3, <2>3, <2>4 DEF Hits
    <2> QED
      BY <1>1, <1>5, <2>1, <2>4, <2>5
  <1>9. CASE MapFirstFit(p, addr, length, q, flag)
    <2> DEFINE gaps == Gaps(vs, len)
               i == Lowest(gaps)
               at == vs[i].end
    <2>1. ValidMap(length, q, flag) /\ gaps # {} /\ MapPlace(p, i, at, length, q)
      BY <1>9 DEF MapFirstFit, Anywhere
    <2>2. gaps \in SUBSET Nat
      BY <1>3 DEF Gaps
    <2>3. i \in gaps
      BY <2>1, <2>2, LowestIn
    <2> HIDE DEF i
    <2>4. i \in 1 .. Len(vs) /\ at + len <= Limit(vs, i)
      BY <1>3, <2>3 DEF Gaps
    <2>5. at \in Nat /\ vs[i].end = at /\ at <= at
      BY <1>3, <2>4, AreaFacts
    <2> HIDE DEF at
    <2> QED
      BY <1>5, <2>1, <2>4, <2>5
  <1> QED
    BY <1>6, <1>7, <1>8, <1>9 DEF vm_area_map

(* munmap adds no seam: an area that is cut out leaves a gap.              *)
LEMMA UnmapSeams ==
  ASSUME IInv, IInv', UnmapStep
  PROVE  call.proc \in Procs /\ NoMoreSeams(call.proc)
  <1> DEFINE len == Aligned(call.length)
             vs == List
             i == call.node
             p == call.proc
  <1>0. call # NoCall
    BY DEF UnmapStep, UnmapInside, UnmapSpill, UnmapBefore, UnmapPast, UnmapSkip, Elsewhere
  <1>1. /\ p \in Procs /\ Headed(vs) /\ vs[i] = Area /\ vs = vmas[p]
        /\ call.addr \in Nat /\ call.addr % Page = 0
        /\ call.length \in Nat /\ call.length > 0 /\ call.length + Page - 1 <= IntMax
        /\ Area.start \in Nat /\ Area.end \in Nat /\ Area.end % Page = 0
        /\ Area.end > call.addr => i \in 2 .. Len(vs)
    BY <1>0, Running DEF Proper, Area, List
  <1>2. len \in Nat /\ call.length <= len
    BY <1>1, Rounding
  <1>3. Cardinality(Seams(vmas[p])) \in Nat /\ Cardinality(Seams(vmas'[p])) \in Nat
    BY <1>1, SeamsFinite DEF IInv, ListInv
  <1>4. CASE vmas' = vmas
    BY <1>1, <1>3, <1>4 DEF NoMoreSeams
  <1>5. CASE UnmapInside
    <2>1. /\ Area.start <= call.addr /\ call.addr + call.length <= Area.end
          /\ vmas' = [vmas EXCEPT ![p] = Cut(vs, i, call.addr, len).areas]
      BY <1>5 DEF UnmapInside, Inside, SetList
    <2>2. call.addr + len <= Area.end
      BY <1>1, <2>1, RoundedFits
    <2>3. i \in 2 .. Len(vs) /\ len > 0
      BY <1>1, <1>2, <2>1
    <2>4. /\ vmas'[p] = Cut(vs, i, call.addr, len).areas
          /\ \A other \in Procs \ {p} : vmas'[other] = vmas[other]
      BY <1>1, <2>1 DEF IInv, ListInv
    <2> HIDE DEF vs, len
    <2>5. Cardinality(Seams(Cut(vs, i, call.addr, len).areas)) <= Cardinality(Seams(vs))
      BY <1>1, <1>2, <2>1, <2>2, <2>3, CutSeams
    <2> QED
      BY <1>1, <2>4, <2>5 DEF NoMoreSeams
  <1>6. CASE UnmapSpill
    <2> DEFINE cut == Area.end - call.addr
    <2>1. /\ Area.start <= call.addr /\ call.addr < Area.end
          /\ vmas' = [vmas EXCEPT ![p] = [vs EXCEPT ![i] = [vs[i] EXCEPT !.end = call.addr]]]
      BY <1>1, <1>6 DEF UnmapSpill, Contains, SetList
    <2>2. cut \in Nat /\ cut > 0 /\ call.addr + cut <= Area.end /\ i \in 2 .. Len(vs)
      BY <1>1, <2>1
    <2>3. /\ vmas'[p] = [vs EXCEPT ![i] = [vs[i] EXCEPT !.end = call.addr]]
          /\ \A other \in Procs \ {p} : vmas'[other] = vmas[other]
      BY <1>1, <2>1 DEF IInv, ListInv
    <2> HIDE DEF vs, cut
    <2>4. Cardinality(Seams([vs EXCEPT ![i] = [vs[i] EXCEPT !.end = call.addr]])) <= Cardinality(Seams(vs))
      BY <1>1, <2>1, <2>2, CutSeams
    <2> QED
      BY <1>1, <2>3, <2>4 DEF NoMoreSeams
  <1>7. UnmapBefore \/ UnmapPast \/ UnmapSkip => vmas' = vmas
    BY DEF UnmapBefore, UnmapPast, UnmapSkip
  <1> QED
    BY <1>1, <1>4, <1>5, <1>6, <1>7 DEF UnmapStep

(* mprotect adds none unless the area has the protection already.          *)
LEMMA ProtectSeams ==
  ASSUME IInv, IInv', NEW p \in Procs,
         NEW addr \in Addrs, NEW length \in Lengths, NEW q \in ProtArgs,
         Usable(addr), Plain(addr, length), InOneArea(p, addr, length),
         vm_area_mprotect(p, addr, length, q)
  PROVE  \/ NoMoreSeams(p)
         \/ /\ \A other \in Procs \ {p} : vmas'[other] = vmas[other]
            /\ q \in {1, 3} /\ ProtectArea(p, addr, length, q)
            /\ vmas[p][Lowest(Stops(vmas[p], addr))].flags = q
  <1>1. /\ addr \in Nat /\ length \in Int /\ length + Page - 1 <= IntMax
        /\ Start \in Nat /\ Page \in Nat \ {0} /\ addr >= Start + Page /\ length > 0
    BY LayoutAssumption DEF Plain, Usable, InOneArea
  <1>2. Cardinality(Seams(vmas[p])) \in Nat /\ Cardinality(Seams(vmas'[p])) \in Nat
    BY SeamsFinite DEF IInv, ListInv
  <1>3. CASE ProtectRefused(p, addr, length, q)
    BY <1>2, <1>3 DEF ProtectRefused, NoMoreSeams
  <1>4. CASE ProtectArea(p, addr, length, q)
    <2> DEFINE vs == vmas[p]
               stops == Stops(vs, addr)
               i == Lowest(stops)
               len == Aligned(length)
               new == Reprotected(vs, i, addr, len, q)
    <2>1. /\ q \in {1, 3} /\ Found(vs, addr)
          /\ vmas' = [vmas EXCEPT ![p] = new.areas]
      BY <1>4 DEF ProtectArea
    <2>2. stops # {} /\ Contains(vs[i], addr) /\ addr + len <= vs[i].end
      BY <2>1 DEF Found, InOneArea
    <2>3. Headed(vs) /\ DOMAIN vs = 1 .. Len(vs) /\ Len(vs) \in Nat
      <3>1. DOMAIN << >> = {}
        OBVIOUS
      <3>2. vs # << >>
        BY <2>2, <3>1 DEF Stops
      <3> QED
        BY <3>2, HeadedIsList DEF IInv, ListInv
    <2>4. stops \in SUBSET Nat
      BY <2>3 DEF Stops
    <2>5. i \in stops
      BY <2>2, <2>4, LowestIn
    <2>6. /\ vmas'[p] = new.areas
          /\ \A other \in Procs \ {p} : vmas'[other] = vmas[other]
      BY <2>1 DEF IInv, ListInv
    <2>7. CASE vs[i].flags = q
      BY <1>4, <2>1, <2>6, <2>7
    <2>8. CASE vs[i].flags # q
      <3> HIDE DEF i, vs
      <3>1. i \in 1 .. Len(vs) /\ vs[i].start <= addr /\ addr < vs[i].end
        BY <2>2, <2>3, <2>5 DEF Stops, Contains
      <3>2. i \in 2 .. Len(vs)
        <4> SUFFICES ASSUME i = 1 PROVE FALSE
          BY <2>3, <3>1
        <4>1. vs[i].end = Start + Page
          BY <2>3 DEF Headed, Dummy
        <4> QED
          BY <1>1, <3>1, <4>1
      <3>3. len \in Nat
        BY <1>1, Rounding
      <3> HIDE DEF len
      <3>4. Cardinality(Seams(new.areas)) <= Cardinality(Seams(vs))
        BY <1>1, <2>1, <2>2, <2>3, <2>8, <3>1, <3>2, <3>3, ReprotectedSeams
      <3> HIDE DEF new
      <3>5. NoMoreSeams(p)
        BY <2>6, <3>4 DEF NoMoreSeams, vs
      <3> QED
        BY <3>5
    <2> QED
      BY <2>7, <2>8
  <1> QED
    BY <1>3, <1>4 DEF vm_area_mprotect

(* Only an mprotect for the protection an area has already leaves two      *)
(* areas that touch and could be one, whatever the calls before it.        *)
LEMMA SeamStep ==
  ASSUME IInv, IInv', [OrderlyNext]_vars, NEW p \in Procs,
         Cardinality(Seams(vmas'[p])) > Cardinality(Seams(vmas[p])), p \in alive
  PROVE  \E addr \in Addrs, length \in Lengths, q \in {1, 3} :
           /\ Usable(addr) /\ Plain(addr, length) /\ InOneArea(p, addr, length)
           /\ ProtectArea(p, addr, length, q)
           /\ vmas[p][Lowest(Stops(vmas[p], addr))].flags = q
  <1>0. /\ Cardinality(Seams(vmas[p])) \in Nat /\ Cardinality(Seams(vmas'[p])) \in Nat
        /\ vmas'[p] # vmas[p]
    <2>1. Cardinality(Seams(vmas[p])) \in Nat /\ Cardinality(Seams(vmas'[p])) \in Nat
      BY SeamsFinite DEF IInv, ListInv
    <2> QED
      BY <2>1
  <1>1. \A other \in Procs : ~NoMoreSeams(other)
    <2> SUFFICES ASSUME NEW other \in Procs, NoMoreSeams(other) PROVE FALSE
      OBVIOUS
    <2> QED
      BY <1>0 DEF NoMoreSeams
  <1>2. ASSUME NEW r \in Procs, NEW addr \in Addrs, NEW length \in Lengths,
               NEW q \in ProtArgs, NEW flag \in FlagArgs, Plain(addr, length)
        PROVE  ~vm_area_map(r, addr, length, q, flag)
    BY <1>1, <1>2, MapSeams
  <1>3. ASSUME NEW r \in Procs, NEW addr \in Addrs, NEW length \in Lengths
        PROVE  ~vm_area_unmap(r, addr, length)
    BY <1>0 DEF vm_area_unmap
  <1>4. ~UnmapStep
    BY <1>1, UnmapSeams
  <1>5. ASSUME NEW r \in Procs, NEW child \in Procs PROVE ~do_cfork(r, child)
    <2> SUFFICES ASSUME do_cfork(r, child) PROVE FALSE
      OBVIOUS
    <2>1. child \notin alive /\ \E new : vmas' = [vmas EXCEPT ![child] = new]
      BY DEF do_cfork
    <2>2. vmas'[p] = vmas[p]
      BY <2>1 DEF IInv, ListInv
    <2> QED
      BY <1>0, <2>2
  <1>6. ASSUME NEW r \in Procs PROVE ~do_exit(r)
    <2> SUFFICES ASSUME do_exit(r) PROVE FALSE
      OBVIOUS
    <2>1. vmas'[p] = vmas[p] \/ vmas'[p] = << >>
      BY DEF do_exit, IInv, ListInv
    <2>2. Len(<< >>) = 0
      OBVIOUS
    <2>3. Seams(<< >>) = {}
      BY <2>2 DEF Seams
    <2>4. ~(0 > 0)
      OBVIOUS
    <2>5. vmas'[p] = vmas[p] => FALSE
      BY <1>0
    <2>6. vmas'[p] = << >> => FALSE
      <3> SUFFICES ASSUME vmas'[p] = << >> PROVE FALSE
        OBVIOUS
      <3>1. Cardinality(Seams(vmas'[p])) = 0
        BY <2>3, FS_EmptySet, Zenon
      <3>2. ~(0 > Cardinality(Seams(vmas[p])))
        BY <1>0
      <3>3. Cardinality(Seams(vmas'[p])) > Cardinality(Seams(vmas[p]))
        OBVIOUS
      <3> QED
        BY <3>1, <3>2, <3>3
    <2> QED
      BY <2>1, <2>5, <2>6
  <1>7. ~(UNCHANGED vars)
    BY <1>0 DEF vars
  <1>8. ASSUME NEW r \in Procs, NEW addr \in Addrs, NEW length \in Lengths, NEW q \in ProtArgs,
               Usable(addr), Plain(addr, length), InOneArea(r, addr, length),
               vm_area_mprotect(r, addr, length, q)
        PROVE  /\ r = p /\ q \in {1, 3} /\ ProtectArea(p, addr, length, q)
               /\ vmas[p][Lowest(Stops(vmas[p], addr))].flags = q
    <2>1. /\ \A other \in Procs \ {r} : vmas'[other] = vmas[other]
          /\ q \in {1, 3} /\ ProtectArea(r, addr, length, q)
          /\ vmas[r][Lowest(Stops(vmas[r], addr))].flags = q
      BY <1>1, <1>8, ProtectSeams
    <2>2. r = p
      BY <1>0, <2>1
    <2> QED
      BY <2>1, <2>2
  <1>9. PICK r \in Procs, addr \in Addrs, length \in Lengths, q \in ProtArgs :
          /\ Usable(addr) /\ Plain(addr, length) /\ InOneArea(r, addr, length)
          /\ vm_area_mprotect(r, addr, length, q)
    BY <1>2, <1>3, <1>4, <1>5, <1>6, <1>7, Zenon DEF OrderlyNext
  <1>10. /\ r = p /\ q \in {1, 3} /\ ProtectArea(p, addr, length, q)
         /\ vmas[p][Lowest(Stops(vmas[p], addr))].flags = q
    BY <1>8, <1>9
  <1> QED
    BY <1>9, <1>10

(* New memory is merged with the areas it touches: only an mprotect that   *)
(* asks for the protection an area has already leaves two areas where one  *)
(* would do (and cfork copies them).                                       *)
THEOREM SeamsAreIdle == OrderlySpec => SeamsOnlyFromIdleProtect
  <1>1. IInv /\ IInv' /\ [OrderlyNext]_vars =>
          [\A p \in alive :
             Cardinality(Seams(vmas'[p])) > Cardinality(Seams(vmas[p])) => IdleProtect(p)]_vars
    <2> SUFFICES ASSUME IInv, IInv', [OrderlyNext]_vars, NEW p \in alive,
                        Cardinality(Seams(vmas'[p])) > Cardinality(Seams(vmas[p]))
                 PROVE  IdleProtect(p)
      OBVIOUS
    <2>1. p \in Procs
      BY DEF IInv, ListInv
    <2> QED
      BY <2>1, SeamStep DEF IdleProtect
  <1> QED
    BY InvariantHolds, <1>1, PTL DEF OrderlySpec, SeamsOnlyFromIdleProtect
=============================================================================
