\* One process, four pages: list order, count, the page map, and the end of munmap.
CONSTANTS
  p1 = p1
  p2 = p2
  Procs <- OneProc
  Page = 2
  Start = 10
  End = 20
  IntMax = 7
  Addrs <- AlignedAddrs
  Lengths <- PositiveLengths
SPECIFICATION FairOrderlySpec
INVARIANTS TypeOK AreasOrdered CountMatches
PROPERTIES UnmapEnds KeepsAddrMap
CONSTRAINT ShortLists
