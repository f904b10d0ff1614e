SPECIFICATION Spec
CONSTANTS
  k1 = k1
  k2 = k2
  MaxMinute = 1
  MaxTime = 8
  Keys = {k1, k2}
  KeepMin = 3
  DayLen = 10
  DayStart = 9
  MaxIngests = 3
  MaxRestarts = 1
  MaxFails = 1
SYMMETRY KeySymmetry
INVARIANTS
  FilesMatchMemory
  WindowComplete
  NothingVanishes
