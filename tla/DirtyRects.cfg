SPECIFICATION ScreenSpec
CONSTANTS
    Width = 3
    Height = 3
    MaxDirty = 4
    MaxDuring = 1
    CopiesUp = TRUE
    DrawChanges <- MCDrawChanges
INVARIANTS ChangedIsDirty Disjoint NothingExtra PaintedIsShown
