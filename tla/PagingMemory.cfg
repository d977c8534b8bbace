\* Enough frames, no mprotect: the memory of a process is its own
CONSTANTS
  p1 = p1
  p2 = p2
  f1 = f1
  f2 = f2
  f3 = f3
  f4 = f4
  f5 = f5
  v1 = v1
  v2 = v2
  Zero = Zero
  MaxRefs = 3
  Procs <- TwoProcs
  Frames <- FiveFrames
  Values <- TwoValues
  MmapPages <- LonePage
  SegPages <- Stack
  Table <- TableOf
  Dir <- DirFor
  Scanned <- LonePage
  Protections <- None
SPECIFICATION Spec
PROPERTIES
  KeepsPrivateMemory
VIEW UsedView
SYMMETRY Either
CONSTRAINT SmallCounts
CHECK_DEADLOCK FALSE
