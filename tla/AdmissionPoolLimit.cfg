SPECIFICATION Spec
CONSTANTS
  w1 = w1
  w2 = w2
  r1 = r1
  r2 = r2
  s1 = s1
  NoSid = NoSid
  NoPeer = NoPeer
  NoCC = NoCC
  NoWorker = NoWorker
  Workers = {w1, w2}
  Requests = {r1, r2}
  NPeers = 1
  Priority <- PrioOne
  MaxConc <- Max1
  Sids = {s1}
  SidOf <- AllSession
  Hash <- HashOne
  IsProbe <- NoProbe
  SharePct <- FullShare
  MaxMoreTries = 1
  CrossTier = TRUE
  InterceptErrors = FALSE
  Adaptive = FALSE
  CCValues = {}
  InitCC = 1
  ResetValues = {0, 1}
  MaxCrashes = 0
  MaxResets = 0
  MaxBans = 1
INVARIANTS
  PoolLimitEnforced
