CONSTANTS
  PAGE_SIZE = 2
  TLB_SIZE = 3
  MaxData = 2
  VirtualPages <- ThreePages
  Ranges <- SomeRanges
  Frames <- FourFrames
SPECIFICATION Spec
INVARIANTS PagesExact TableIsMaximal ReachesPinnedByte StalledOnRefill
PROPERTIES MostRecentKept AccessAnswered
CHECK_DEADLOCK FALSE
