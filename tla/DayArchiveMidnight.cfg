SPECIFICATION Spec
CHECK_DEADLOCK FALSE
CONSTANTS
  e1 = e1
  e2 = e2
  e3 = e3
  None = None
  MaxTime = 2
  DayLen = 2
  Entries = {e1, e2, e3}
  MaxSlips = 1
  MaxCrashes = 0
  MaxFails = 0
  MaxPrunes = 0
SYMMETRY EntrySymmetry
INVARIANTS
  LinesKept
