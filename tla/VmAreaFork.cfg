\* Two processes: cfork copies the page map, and they do not share it.
CONSTANTS
  p1 = p1
  p2 = p2
  Procs <- TwoProcs
  Page = 2
  Start = 10
  End = 16
  IntMax = 7
  Addrs <- AlignedAddrs
  Lengths <- PageLengths
SPECIFICATION OrderlySpec
PROPERTY KeepsAddrMap
CONSTRAINT ShortLists
VIEW MapView
SYMMETRY Either
