SPECIFICATION RouteSpec
CONSTANTS
  Unit = 4
  DecPct = 75
  IncPct = 125
  PressurePct = 90
  SlackPct = 70
  Abs = 1
  Options <- AllPools
  CCTTL = 2
  SharePct = 100
  MaxInflight = 5
  MaxRej = 2
  None = None
  Never = Never
  w1 = w1
  w2 = w2
  w3 = w3
  Workers = {w1, w2, w3}
  TTL = 6
  RenewSec = 2
  RetrySec = 3
  MaxExits = 2
  MaxStalls = 1
  NoKey = NoKey
INVARIANTS
  InBand
  HoldMatchesTTL
  RejectionsHeard
  AtMostOneOwner
  TakeoverInTime
PROPERTIES
  OnlyOverloadBelowInit
  TicksJustified
  LimitRecovers
