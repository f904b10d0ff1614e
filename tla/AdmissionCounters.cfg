SPECIFICATION Spec
CONSTANTS
  w1 = w1
  w2 = w2
  r1 = r1
  r2 = r2
  s1 = s1
  NoSid = NoSid
  NoPeer = NoPeer
  NoCC = NoCC
  NoWorker = NoWorker
  Workers = {w1, w2}
  Requests = {r1, r2}
  NPeers = 3
  Priority <- PrioFlat
  MaxConc <- Max211
  Sids = {s1}
  SidOf <- AllSession
  Hash <- HashS1
  IsProbe <- OneProbe
  SharePct <- QuarterShare
  MaxMoreTries = 1
  CrossTier = FALSE
  InterceptErrors = FALSE
  Adaptive = FALSE
  CCValues = {}
  InitCC = 1
  ResetValues = {0, 1}
  MaxCrashes = 1
  MaxResets = 1
  MaxBans = 1
SYMMETRY WorkerSymmetry
INVARIANTS
  CounterConservation
  NoNegativeAtRest
  AffinityStable
  OnlyUnseenOverLimit
