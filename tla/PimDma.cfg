CONSTANTS
  PAGE_SIZE = 4
  TLB_SIZE = 3
  LINE_SIZE = 2
  Resources = {"RES0", "RES1"}
  Layouts <- ThreeSlices
  Transfers <- TwoSlices
  Loads <- LastSlice
SPECIFICATION Spec
INVARIANTS RightBytes NothingLost ParkedUndisturbed
PROPERTIES DoneWhenFree WaitReturns
