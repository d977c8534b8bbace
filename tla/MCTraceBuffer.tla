--------------------------- MODULE MCTraceBuffer ---------------------------
(* Small instances of TraceBuffer: a ring of three or four bytes of two    *)
(* values, and counts below, at and above its size.                        *)
EXTENDS TraceBuffer

CONSTANTS a, b

TwoBytes == {a, b}
FewCounts == {0, 1, 2, Size + 1}
=============================================================================
