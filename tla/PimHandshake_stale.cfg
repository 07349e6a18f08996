CONSTANTS
  MaxCalls = 2
  Commands = {"RUN_KERNEL"}
SPECIFICATION Spec
CHECK_DEADLOCK FALSE
INVARIANT WaitMeansExecuted
