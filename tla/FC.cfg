CONSTANTS
  t1 = t1
  t2 = t2
  NULL = NULL
  Threads = {t1, t2}
  Requests <- TwoKeys
  INT_MIN = 0
  INT_MAX = 9
  STAMP_THRESHOLD = 0
  MaxOps <- TwoOne
SPECIFICATION Spec
INVARIANTS SlotListEnds LinkedMeansEnqueued
PROPERTIES ImplementsSet EveryCallReturns
