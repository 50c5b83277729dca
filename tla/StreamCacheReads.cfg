SPECIFICATION Spec
CONSTANTS
  FileSize = 15
  BlockSize = 4
  NumBlocks = 3
  MaxCmp = 2
  MaxText = 3
INVARIANTS KnowEachOther  PositionKnown
CHECK_DEADLOCK FALSE
