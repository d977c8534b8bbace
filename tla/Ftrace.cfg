CONSTANTS
  NULL = NULL
  Size = 6
  WordSize = 1
  Main = 1
  Funcs <- TwoFuncs
  FTRACE_MAX = 2
  NArgs <- JustOne
  ArgLists <- Args
  Counts <- OneOrMany
  PageWords = 2
  MaxDepth = 3
SPECIFICATION Spec
INVARIANTS TypeOK ListConsistent Recoverable HangsOnlyOnBroken
PROPERTIES IsCallTrace
VIEW Used
CHECK_DEADLOCK FALSE
