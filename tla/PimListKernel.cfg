CONSTANTS
  NumBlocks = 3
  Keys = {1, 2, 3, 4}
  UINT32_MAX = 9
SPECIFICATION Spec
INVARIANT ListShape
PROPERTIES ImplementsSet SearchEnds
