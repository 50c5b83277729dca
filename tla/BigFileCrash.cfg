SPECIFICATION Spec
CONSTANTS
  Names = {a, b}
  Sizes = {0, 2}
  PerBlock = 1
  MaxTime = 3
  MaxUnits = 6
  Crashes = TRUE
  MaxFails = 1
INVARIANTS UpToDateIsIntact NoDuplicates
SYMMETRY NameSymmetry
CHECK_DEADLOCK FALSE
