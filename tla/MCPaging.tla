------------------------------ MODULE MCPaging ------------------------------
(* Instances of Paging for model checking                                  *)
EXTENDS Paging, TLC

CONSTANTS p1, p2, f1, f2, f3, f4, f5, v1, v2

OneProc == {p1}
TwoProcs == {p1, p2}
ThreeFrames == {f1, f2, f3}
FiveFrames == {f1, f2, f3, f4, f5}
OneValue == {v1}
TwoValues == {v1, v2}

LonePage == {0}
TwoPages == {0, 1}
Data == {8}
Stack == {9}
Both == {1, 3}
None == {}

(* Pages 0 and 1 share a table; the data segment has another table in the  *)
(* same directory, and the stack another directory (include/context.h).    *)
TableOf == [g \in {0, 1, 8, 9} |-> CASE g = 9 -> "stack" [] g = 8 -> "data" [] OTHER -> "mmap"]
DirFor == [t \in {"mmap", "data", "stack"} |-> IF t = "stack" THEN "high" ELSE "low"]

(* A table that mprotect drops takes the references of its entries along   *)
(* for good; with cfork a count could so grow without end.                 *)
CONSTANT MaxRefs
SmallCounts == \A f \in Frames : refs[f] <= MaxRefs

(* What a free frame holds is left out: whoever gets it can write anything *)
(* to it in the next steps.                                                *)
UsedView ==
  <<alive, perm, tables, refs, [f \in Frames |-> IF refs[f] > 0 THEN content[f] ELSE Zero], want, call>>

Either == Permutations(Procs) \cup Permutations(Frames) \cup Permutations(Values)
=============================================================================
