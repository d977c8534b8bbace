------------------------------- MODULE MCHeap -------------------------------
(* Instances of Heap for model checking                                    *)
EXTENDS Heap

(* Nothing; chunks of 3, 4 and 6 words; all but one word of a unit of 9    *)
(* words; more than a unit.                                                *)
SomeRequests == {0, 1, 24, 40, 56, 80}

(* What the program and the allocator have left in other words is never    *)
(* read again: only the sizes of chunks that are held, and the fields of   *)
(* those a walk along the list comes to.                                   *)
Used ==
  LET words == Held \cup UNION {{a, a + 1, a + 2} : a \in Range(Walk(mem, FreeList))}
  IN <<Restrict(mem, words \cap Addr), mapped, FreeList, live, slips, wild>>

(* After a free that has bent the list nothing is claimed: how it goes on  *)
(* is followed while the program holds at most two chunks.                 *)
FewOnceBent == Trusted \/ Cardinality(live) < 3
=============================================================================
