\* A page made read only stays present: it does not
CONSTANTS
  p1 = p1
  p2 = p2
  f1 = f1
  f2 = f2
  f3 = f3
  f4 = f4
  f5 = f5
  v1 = v1
  v2 = v2
  Zero = Zero
  MaxRefs = 3
  Procs <- OneProc
  Frames <- ThreeFrames
  Values <- OneValue
  MmapPages <- TwoPages
  SegPages <- Stack
  Table <- TableOf
  Dir <- DirFor
  Scanned <- TwoPages
  Protections <- Both
SPECIFICATION Spec
PROPERTIES
  ProtectedPagesStay
CONSTRAINT SmallCounts
CHECK_DEADLOCK FALSE
