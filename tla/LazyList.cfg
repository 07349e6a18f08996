CONSTANTS
  t1 = t1
  t2 = t2
  NULL = NULL
  Threads = {t1, t2}
  Keys = {1, 2}
  INT_MIN = 0
  INT_MAX = 3
  MaxNodes = 6
  MaxOps <- TwoEach
SPECIFICATION Spec
INVARIANTS ListShape LocksProtect ContainsLinearizable
PROPERTIES ImplementsSet EveryCallReturns
