CONSTANTS
  t1 = t1
  t2 = t2
  Threads = {t1, t2}
  Keys = {1, 2}
  INT_MIN = 0
  INT_MAX = 3
  max_level = 3
  MaxNodes = 7
  MaxOps <- TwoAndOne
SPECIFICATION Spec
INVARIANTS LevelShape
PROPERTIES MarkedIsFinal ImplementsSet EveryCallReturns
