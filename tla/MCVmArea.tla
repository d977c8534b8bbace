----------------------------- MODULE MCVmArea -----------------------------
(* Small instances of VmArea: an mmap region of a few pages of two bytes.  *)
EXTENDS VmArea, TLC

CONSTANTS p1, p2

OneProc == {p1}
TwoProcs == {p1, p2}
Either == Permutations(TwoProcs)

(* Whole pages, and the addresses between them: the region of five pages   *)
(* after the dummy one, NULL, an address below the region and its end.     *)
AlignedAddrs == {0, Start - Page} \cup PageStarts

(* No length, one page (less a byte), two and three pages                  *)
FewLengths == {0, 1, 4}
PositiveLengths == {1, 4, 6}
PageLengths == {1, 4}

(* Lists can grow without end: areas of no bytes, and areas that an        *)
(* mprotect to the same protection split.  The runs stop at lists of       *)
(* MaxAreas areas.                                                         *)
MaxAreas == 4
ShortLists == \A p \in Procs : Len(vmas[p]) <= MaxAreas

(* What the page map depends on: neither the count, which resets let drift *)
(* without bound, nor the result of the last call                          *)
MapView == <<alive, vmas, call>>
=============================================================================
