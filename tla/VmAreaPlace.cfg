\* One process: where mmap puts memory and what it merges.
CONSTANTS
  p1 = p1
  p2 = p2
  Procs <- OneProc
  Page = 2
  Start = 10
  End = 18
  IntMax = 7
  Addrs <- AlignedAddrs
  Lengths <- FewLengths
SPECIFICATION OrderlySpec
PROPERTIES FirstLegalInTidyLists HintHonoured SeamsOnlyFromIdleProtect CallsAreExact
CONSTRAINT ShortLists
