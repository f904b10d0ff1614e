SPECIFICATION Spec
CHECK_DEADLOCK FALSE
CONSTANTS
  e1 = e1
  e2 = e2
  e3 = e3
  None = None
  MaxTime = 4
  DayLen = 2
  Entries = {e1, e2, e3}
  MaxSlips = 1
  MaxCrashes = 1
  MaxFails = 1
  MaxPrunes = 1
SYMMETRY EntrySymmetry
INVARIANTS
  NothingLost
  WriterLinked
  PastDaysPacked
