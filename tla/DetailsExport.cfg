SPECIFICATION Spec
CONSTANTS
  None = None
  FirstTime = 2
  MaxTime = 6
  DayLen = 3
  NRows = 2
  MaxSlips = 0
  MaxFails = 1
  Lag = 1
  PersistEvery = 2
  MaxStops = 1
INVARIANT RowsKept OncePerLife CheckpointSound OnlyKnownLosses
CHECK_DEADLOCK FALSE
