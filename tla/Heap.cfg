CONSTANTS
  Unit = 9
  MemUnits = 2
  Requests <- SomeRequests
SPECIFICATION Spec
INVARIANTS TypeOK HeldApart ListSound NothingLost
CHECK_DEADLOCK FALSE
VIEW Used
CONSTRAINT FewOnceBent
