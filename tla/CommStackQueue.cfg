SPECIFICATION Spec
CONSTANTS
  NumRecords = 4
  Record = {r1, r2}
INVARIANTS CopyIsOldest
PROPERTY ImplementsQueue
