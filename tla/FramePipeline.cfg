SPECIFICATION Spec
CONSTANTS
  Conns = {c1, c2}
  Writers = {w1, w2}
  NoConn = NoConn
  QueueCap = 1
  DropLimit = 2
  Refused = {3}
  MaxFrames = 3
  MaxAttempts = 2
  MaxStops = 1
INVARIANTS
  QueueSafe
  NoSilentLoss
  DuplicatesOnlyByResend
PROPERTIES
  ShutdownCompletes
  SinkSpec
CHECK_DEADLOCK FALSE
