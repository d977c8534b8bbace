\* The ring is a bounded queue, and every call returns.
CONSTANTS
  a = a
  b = b
  Size = 3
  Byte <- TwoBytes
  Counts <- FewCounts
SPECIFICATION FairSpec
INVARIANTS TypeOK RingConsistent
PROPERTIES IsFifo CallsReturn
