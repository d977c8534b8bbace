-------------------------------- MODULE Heap --------------------------------
(***************************************************************************)
(* The allocator of Assignment1/Part3/mylib.c: memalloc and memfree over   *)
(* one list of free chunks.  The list lives in the memory it manages: a    *)
(* free chunk begins with its size, its successor and its predecessor, an  *)
(* allocated one with its size.  Memory is counted in words of 8 bytes, of *)
(* which sizes and addresses are multiples throughout.  The program fills  *)
(* what it gets, and frees it at most once.                                *)
(***************************************************************************)
EXTENDS Integers, Sequences, FiniteSets, FiniteSetsExt

CONSTANTS
  Unit,       \* words in FOUR_MB
  MemUnits,   \* bound on the memory there is, in such units
  Requests    \* bytes programs ask for

(* Requests so long that adding the size of the metadata wraps around are  *)
(* left out.                                                               *)
ASSUME HeapAssumption ==
  /\ Unit \in Nat \ {0} /\ MemUnits \in Nat \ {0}
  /\ Requests \subseteq Nat

ALLOC_MEM_METADATA == 8    \* bytes
FREE_MEM_METADATA == 24
MinWords == 3
NULL == 0
Junk == -1                 \* a word of the program's own

MemWords == Unit * MemUnits
MaxWords == 3 * MemWords   \* of three chunks that are merged
Base == MaxWords + Unit    \* no size is an address
Addr == Base .. (Base + MemWords - 1)

VARIABLES
  mem,        \* the words of memory
  mapped,     \* addresses the system has given the program
  FreeList,   \* first free chunk
  live,       \* what the program holds: where, and how many bytes it asked for
  slips,      \* kinds of frees so far that did not keep the list in order
  wild        \* "no" until memory beyond the mapping or a pointer of junk is used

vars == <<mem, mapped, FreeList, live, slips, wild>>

Init ==
  /\ mem = [a \in Addr |-> NULL]
  /\ mapped = {}
  /\ FreeList = NULL
  /\ live = {}
  /\ slips = {}
  /\ wild = "no"

(* The fields of a chunk at a in memory m *)
Size(m, a) == m[a]
Next_of(m, a) == m[a + 1]
Prev_of(m, a) == m[a + 2]
Pointer(v) == v = NULL \/ {v, v + 2} \subseteq Addr
Linked(m, a) == Pointer(Next_of(m, a)) /\ Pointer(Prev_of(m, a))
SetNext(m, a, v) == IF a = NULL THEN m ELSE [m EXCEPT ![a + 1] = v]
SetPrev(m, a, v) == IF a = NULL THEN m ELSE [m EXCEPT ![a + 2] = v]
Chunk(m, a, size, next, prev) == [m EXCEPT ![a] = size, ![a + 1] = next, ![a + 2] = prev]

(* A walk along the list: the chunks it meets, and what the last of them   *)
(* has for a successor: NULL, if the list is one.  It cannot go on where   *)
(* there is no memory, or a size is more than there is of it.              *)
Readable(m, a) == {a, a + 2} \subseteq Addr /\ m[a] \in 0 .. MemWords
Paths(m, first) ==
  LET path[n \in 0 .. MemWords] ==
        IF n = 0 THEN <<first>>
        ELSE LET p == path[n - 1]
                 a == p[Len(p)]
             IN IF Len(p) = n /\ Readable(m, a) THEN Append(p, Next_of(m, a)) ELSE p
  IN path
Walk(m, first) == Paths(m, first)[MemWords]

Met(walk) == {walk[i] : i \in 1 .. (Len(walk) - 1)}

(* The first wanted chunk of a walk, NULL if it meets none, and Junk if    *)
(* the walk leads nowhere, or for ever round, without one                  *)
Search(walk, wanted) ==
  LET hits == {i \in 1 .. (Len(walk) - 1) : walk[i] \in wanted}
  IN IF hits # {} THEN walk[Min(hits)]
     ELSE IF walk[Len(walk)] = NULL THEN NULL ELSE Junk

(* Mutant of Needed: no room is made for the size.                         *)
Needed_NoSize(bytes) == Max({MinWords, (bytes + 7) \div 8})

(* Words of a chunk for a request of so many bytes: those and the size,    *)
(* padded to whole words and to the least size                             *)
Needed(bytes) == Max({MinWords, (bytes + ALLOC_MEM_METADATA + 7) \div 8})

(* The program has words of junk where it may write.                       *)
Fill(m, a, bytes) ==
  [i \in Addr |-> IF i \in (a + 1) .. (a + (bytes + 7) \div 8) THEN Junk ELSE m[i]]

(* A new chunk at the head of the list *)
Push(m, a, size) == SetPrev(Chunk(m, a, size, FreeList, NULL), FreeList, a)

Strays(how) ==
  /\ wild' = how
  /\ UNCHANGED <<mem, mapped, FreeList, live, slips>>

-----------------------------------------------------------------------------
(* memalloc                                                                *)
FirstFit(bytes) ==
  LET walk == Walk(mem, FreeList)
  IN Search(walk, {a \in Met(walk) : /\ 8 * Size(mem, a) >= bytes + ALLOC_MEM_METADATA
                                     /\ 8 * Size(mem, a) >= FREE_MEM_METADATA})

Grant(m, a, bytes) ==
  /\ mem' = Fill(m, a, bytes)
  /\ live' = live \cup {[at |-> a, bytes |-> bytes]}
  /\ UNCHANGED <<slips, wild>>

(* Mutant of Unlink: the successor goes on pointing back at the chunk.    *)
Unlink_KeepsPrev(m, a) ==
  SetNext(m, Prev_of(m, a), Next_of(m, a))

Unlink(m, a) ==
  SetPrev(SetNext(m, Prev_of(m, a), Next_of(m, a)), Next_of(m, a), Prev_of(m, a))

(* Mutant of Split: a rest too small for a free chunk is cut off, too.     *)
Split_Tiny(size, needed) == needed < size

Split(size, needed) == size - needed >= MinWords

(* A chunk of the list is taken whole, or its rest put first in the list.  *)
alloc_from_list(bytes) ==
  LET a == FirstFit(bytes)
      size == Size(mem, a)
      needed == Needed(bytes)
      first == IF Prev_of(mem, a) = NULL THEN Next_of(mem, a) ELSE FreeList
      taken == Unlink(mem, a)
      rest == a + needed
  IN /\ a \notin {NULL, Junk}
     /\ Linked(mem, a)
     /\ \/ /\ ~Split(size, needed)
           /\ FreeList' = first
           /\ Grant(taken, a, bytes)
        \/ /\ Split(size, needed)
           /\ FreeList' = rest
           /\ Grant(SetPrev(Chunk([taken EXCEPT ![a] = needed], rest, size - needed, first, NULL),
                            first, rest), a, bytes)
     /\ UNCHANGED mapped

(* With none that fits, whole units come from mmap, wherever it puts them. *)
Units(bytes) == (bytes + ALLOC_MEM_METADATA + 8 * Unit - 1) \div (8 * Unit)

Regions(bytes) ==
  {r \in {a .. (a + Unit * Units(bytes) - 1) : a \in {Base + Unit * u : u \in 0 .. (MemUnits - 1)}} :
     r \subseteq Addr \ mapped}

alloc_from_system(bytes) ==
  /\ FirstFit(bytes) = NULL
  /\ \E region \in Regions(bytes) :
       LET a == Min(region)
           rest == a + Needed(bytes)
           left == Cardinality(region) - Needed(bytes)
       IN /\ left >= MinWords
          /\ mapped' = mapped \cup region
          /\ FreeList' = rest
          /\ Grant(Push([mem EXCEPT ![a] = Needed(bytes)], rest, left), a, bytes)

(* mmap may refuse: memalloc returns null.                                 *)
alloc_refused(bytes) ==
  /\ bytes = 0 \/ FirstFit(bytes) = NULL
  /\ UNCHANGED vars

(* What is left of the new memory is made a free chunk however little it   *)
(* is: its fields may lie beyond the memory.                               *)
alloc_overruns(bytes) ==
  /\ FirstFit(bytes) = NULL
  /\ Units(bytes) * Unit - Needed(bytes) < MinWords
  /\ Strays("overrun")

alloc_strays(bytes) ==
  /\ LET a == FirstFit(bytes)
     IN a = Junk \/ (a \notin {NULL, Junk} /\ ~Linked(mem, a))
  /\ Strays("junk")

(* Mutant of memalloc: a request for nothing gets a chunk, too.            *)
memalloc_Nothing(bytes) ==
  \/ alloc_from_list(bytes) \/ alloc_from_system(bytes)
  \/ alloc_refused(bytes)
  \/ alloc_overruns(bytes) \/ alloc_strays(bytes)

memalloc(bytes) ==
  \/ bytes > 0 /\ (alloc_from_list(bytes) \/ alloc_from_system(bytes))
  \/ alloc_refused(bytes)
  \/ bytes > 0 /\ (alloc_overruns(bytes) \/ alloc_strays(bytes))

-----------------------------------------------------------------------------
(* memfree                                                                 *)

(* The freed chunk, before it is in the list                               *)
Loose(a) == Chunk(mem, a, Size(mem, a), NULL, NULL)
RightOf(a) == Search(Walk(Loose(a), FreeList), {a + Size(mem, a)})
LeftOf(a) ==
  LET walk == Walk(Loose(a), FreeList)
  IN Search(walk, {p \in Met(walk) : p + Size(Loose(a), p) = a})

Released(a, m) ==
  /\ mem' = m
  /\ live' = {l \in live : l.at # a}
  /\ UNCHANGED <<mapped, wild>>

free_alone(a) ==
  /\ LeftOf(a) = NULL /\ RightOf(a) = NULL
  /\ FreeList' = a
  /\ Released(a, Push(Loose(a), a, Size(mem, a)))
  /\ UNCHANGED slips

(* The chunk takes the place of its right neighbour, of which the          *)
(* predecessor in the list is not told: right if there is none.            *)
free_joins_right(a) ==
  LET next == RightOf(a)
      m == Loose(a)
  IN /\ LeftOf(a) = NULL /\ next \notin {NULL, Junk}
     /\ Pointer(Next_of(m, next))
     /\ FreeList' = IF FreeList = next THEN a ELSE FreeList
     /\ Released(a, SetPrev(Chunk(m, a, Size(m, a) + Size(m, next), Next_of(m, next), NULL),
                            Next_of(m, next), a))
     /\ slips' = IF FreeList = next THEN slips ELSE slips \cup {"predecessor"}

(* Mutant of free_joins_left: the size of the left neighbour stays.        *)
free_joins_left_KeepsSize(a) ==
  LET prev == LeftOf(a)
      m == Loose(a)
  IN /\ prev \notin {NULL, Junk} /\ RightOf(a) = NULL
     /\ FreeList' = FreeList
     /\ Released(a, SetNext(m, prev, NULL))
     /\ slips' = IF Next_of(m, prev) = NULL THEN slips ELSE slips \cup {"rest"}

(* The left neighbour grows, and gets what the search for a right one came *)
(* to for a successor, NULL: what followed it in the list is lost.         *)
free_joins_left(a) ==
  LET prev == LeftOf(a)
      m == Loose(a)
  IN /\ prev \notin {NULL, Junk} /\ RightOf(a) = NULL
     /\ FreeList' = FreeList
     /\ Released(a, SetNext([m EXCEPT ![prev] = @ + Size(m, a)], prev, NULL))
     /\ slips' = IF Next_of(m, prev) = NULL THEN slips ELSE slips \cup {"rest"}

(* Both neighbours and the chunk become one.  What lay between them in the *)
(* list is lost; if the right one came first the list is bent.             *)
free_joins_both(a) ==
  LET prev == LeftOf(a)
      next == RightOf(a)
      m == Loose(a)
      walk == Walk(m, FreeList)
      Place(c) == Min({i \in DOMAIN walk : walk[i] = c})
  IN /\ prev \notin {NULL, Junk} /\ next \notin {NULL, Junk}
     /\ Pointer(Next_of(m, next))
     /\ FreeList' = FreeList
     /\ Released(a, SetPrev(SetNext([m EXCEPT ![prev] = @ + Size(m, a) + Size(m, next)],
                                    prev, Next_of(m, next)),
                            Next_of(m, next), prev))
     /\ slips' = IF Next_of(m, prev) = next THEN slips
                 ELSE slips \cup {IF Place(prev) < Place(next) THEN "rest" ELSE "order"}

free_strays(a) ==
  /\ \/ mem[a] \notin 0 .. MemWords
     \/ LeftOf(a) = Junk \/ RightOf(a) = Junk
     \/ RightOf(a) \notin {NULL, Junk} /\ ~Pointer(Next_of(Loose(a), RightOf(a)))
  /\ Strays("junk")

memfree(a) ==
  \/ /\ mem[a] \in 0 .. MemWords
     /\ free_alone(a) \/ free_joins_right(a) \/ free_joins_left(a) \/ free_joins_both(a)
  \/ free_strays(a)

-----------------------------------------------------------------------------
Words(a) == a .. (a + Size(mem, a) - 1)
Held == {l.at : l \in live}
Apart == \A l, k \in live : l # k => Words(l.at) \cap Words(k.at) = {}

(* Where memory is handed out twice nothing holds of what follows: the     *)
(* model stops.                                                            *)
Next ==
  /\ wild = "no" /\ Apart
  /\ \/ \E bytes \in Requests : memalloc(bytes)
     \/ \E l \in live : memfree(l.at)

Spec == Init /\ [][Next]_vars

-----------------------------------------------------------------------------
(* Properties                                                              *)

TypeOK ==
  /\ mem \in [Addr -> {NULL, Junk} \cup Addr \cup (1 .. MaxWords)]
  /\ mapped \subseteq Addr
  /\ FreeList \in Addr \cup {NULL}
  /\ live \subseteq [at : mapped, bytes : Requests \ {0}]
  /\ slips \subseteq {"predecessor", "rest", "order"}
  /\ wild \in {"no", "overrun", "junk"}

Walked == Walk(mem, FreeList)
Listed == Met(Walked)

(* Frees that lose part of the list lose memory only: the list can be      *)
(* trusted as long as no other free has gone wrong.                        *)
Trusted == slips \subseteq {"rest"}

(* No memory is handed out twice, whatever the order of allocations and    *)
(* frees, splits and merges: chunks that are held lie apart, in memory the *)
(* program has, and are as long as was asked for.                          *)
HeldApart ==
  Trusted =>
    /\ \A l \in live : Words(l.at) \subseteq mapped /\ 8 * Size(mem, l.at) >= l.bytes + 8
    /\ Apart

(* The list is one: it ends, its pointers back match those forth, and its  *)
(* chunks lie apart from each other and from all that is held, with room   *)
(* for their fields; no search goes astray in it.                          *)
ListSound ==
  Trusted =>
    /\ wild # "junk"
    /\ Walked[Len(Walked)] = NULL
    /\ Cardinality(Listed) = Len(Walked) - 1
    /\ \A i \in 1 .. (Len(Walked) - 1) :
         /\ Prev_of(mem, Walked[i]) = IF i = 1 THEN NULL ELSE Walked[i - 1]
         /\ Size(mem, Walked[i]) >= MinWords
         /\ Words(Walked[i]) \subseteq mapped
    /\ \A a \in Listed, b \in Listed \cup Held : a # b => Words(a) \cap Words(b) = {}

(* Every word of the memory is in a chunk that is held or in the list, and *)
(* neighbours are merged: free memory can be had again, in one piece.      *)
NothingLost ==
  slips = {} =>
    /\ mapped = UNION {Words(a) : a \in Held \cup Listed}
    /\ \A a, b \in Listed : a + Size(mem, a) = b => b % Unit = 0
=============================================================================
