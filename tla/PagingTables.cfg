\* One process whose two mmap pages share a table, mprotect dropping tables
CONSTANTS
  p1 = p1
  p2 = p2
  f1 = f1
  f2 = f2
  f3 = f3
  f4 = f4
  f5 = f5
  v1 = v1
  v2 = v2
  Zero = Zero
  MaxRefs = 2
  Procs <- OneProc
  Frames <- ThreeFrames
  Values <- OneValue
  MmapPages <- TwoPages
  SegPages <- Stack
  Table <- TableOf
  Dir <- DirFor
  Scanned <- LonePage
  Protections <- Both
SPECIFICATION FairSpec
INVARIANTS
  PermissionsKept
PROPERTIES
  AccessEnds
CONSTRAINT SmallCounts
CHECK_DEADLOCK FALSE
