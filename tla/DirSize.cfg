CONSTANTS
  Programs <- Both
  Disks <- AllDisks
  Capacity = 1
  MaxFds = 16
SPECIFICATION Spec
INVARIANTS TypeOK Conserved WaitsForAll
PROPERTY Termination
CHECK_DEADLOCK FALSE
