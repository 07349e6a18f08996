CONSTANTS
  NUM_THREADS = 2
  Keys = {1, 2}
  InitKeys = {1, 2, 3}
  initial_size = 1
  max_size = 1
  contain_percent = 30
  total_ops = 2
  MaxTries = 2
  NULL = NULL
SPECIFICATION Spec
INVARIANTS OvershootBounded EveryOperationLogged
PROPERTY RunsAtomically
