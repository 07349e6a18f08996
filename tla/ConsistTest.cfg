CONSTANTS
  NUM_THREADS = 3
  Keys = {1}
  InitKeys = {1, 2}
  initial_size = 1
  total_ops = 3
  MaxTries = 1
SPECIFICATION CSpec
INVARIANT Explained
PROPERTY CheckerEnds
