SPECIFICATION Spec
CONSTANTS
  InitFiles <- MCFiles
  KeepDays = 2
  DetailsKeepDays = 3
  ArchiveSize = 2
  DetailsSize = 1
  Limit = 4
  Others = {0, 2}
  Cooldown = 2
  Interval = 1
  Lag = 1
  FirstDay = 3
  MaxDay = 4
  MaxEvents = 1
INVARIANTS
  DamageBounded
  BatchSound
PROPERTIES
  KeepsHalfWritten
  OldestArchiveFirst
  Relief
CHECK_DEADLOCK FALSE
