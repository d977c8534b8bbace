CONSTANTS
  f1 = f1
  NULL = NULL
  Size = 4
  WordSize = 1
  Procs <- TwoProcs
  First = 1
  Files <- OneFile
  MaxFiles = 1
  STRACE_MAX = 2
  Ordinary <- SomeCalls
  Numbers <- Three
  StartFds <- WrongAndRight
  Counts <- OneOrMany
  Around <- JustZero
SPECIFICATION Spec
INVARIANTS TypeOK ListConsistent DescriptorsOwn HangsOnlyOnBroken
PROPERTIES IsRecordQueue
CONSTRAINT OneHead
VIEW Used
CHECK_DEADLOCK FALSE
