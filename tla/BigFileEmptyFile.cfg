SPECIFICATION Spec
CONSTANTS
  Names = {a, b}
  Sizes = {0, 1, 2}
  PerBlock = 1
  MaxTime = 3
  MaxUnits = 9
  Crashes = FALSE
  MaxFails = 0
INVARIANTS EntriesInside
CHECK_DEADLOCK FALSE
