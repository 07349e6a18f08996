CONSTANTS
  Threads = {t1, t2}
  Keys = {1, 2}
  UINT32_MAX = 9
  MaxNodes = 5
  MaxOps = 4
  TailLock = {NULL}
  NULL = NULL
  GARBAGE = GARBAGE
SPECIFICATION Spec
INVARIANT NoUseAfterDelete
PROPERTIES ImplementsSet EveryCallReturns
