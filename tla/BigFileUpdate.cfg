SPECIFICATION Spec
CONSTANTS
  Names = {a, b, c}
  Sizes = {1, 2}
  PerBlock = 2
  MaxTime = 3
  MaxUnits = 12
  Crashes = FALSE
  MaxFails = 0
INVARIANTS LoadsAgain WasteIsGaps
SYMMETRY NameSymmetry
CHECK_DEADLOCK FALSE
