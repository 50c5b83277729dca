CONSTANTS
  BlockSize = 2
  MaxBlocksInMem = 2
  MaxUsed = 5
  Byte = {0, 1}
  ZeroByte = 0
  Unset = Unset
  Nowhere = Nowhere
  AllocSizes <- MCAllocSizes
  Writes <- MCWrites
  Reads <- MCReads
SPECIFICATION FairSpec
CHECK_DEADLOCK FALSE
INVARIANTS
  ActiveList
  OnlyAllocated
  NothingLost
  ErrorOnlyUnwritten
PROPERTY
  ImplementsFlatHeap CallsReturn
