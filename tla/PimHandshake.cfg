CONSTANTS
  MaxCalls = 5
  Commands = {"RUN_KERNEL", "DEMO"}
SPECIFICATION Spec
INVARIANTS ResidentAsserts AtMostOnce WokenCallIsServed
PROPERTY WokenCallReturns
CHECK_DEADLOCK FALSE
