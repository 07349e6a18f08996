CONSTANTS
  NUM_THREADS = 3
  Keys = {1}
  InitKeys = {1, 2}
  initial_size = 0
  total_ops = 3
  MaxTries = 1
SPECIFICATION CSafeSpec
INVARIANT CorrectRunPasses
