\* Two processes, exhaustion of frames and every system call
CONSTANTS
  p1 = p1
  p2 = p2
  f1 = f1
  f2 = f2
  f3 = f3
  f4 = f4
  f5 = f5
  v1 = v1
  v2 = v2
  Zero = Zero
  MaxRefs = 2
  Procs <- TwoProcs
  Frames <- ThreeFrames
  Values <- OneValue
  MmapPages <- LonePage
  SegPages <- Data
  Table <- TableOf
  Dir <- DirFor
  Scanned <- LonePage
  Protections <- Both
SPECIFICATION Spec
INVARIANTS
  TypeOK
  RefsCoverMappings
  SharedReadOnly
  PermissionsKept
SYMMETRY Either
CONSTRAINT SmallCounts
CHECK_DEADLOCK FALSE
