SPECIFICATION FairSpec
CONSTANTS
  w1 = w1
  w2 = w2
  r1 = r1
  r2 = r2
  s1 = s1
  NoSid = NoSid
  NoPeer = NoPeer
  NoCC = NoCC
  NoWorker = NoWorker
  Workers = {w1}
  Requests = {r1, r2}
  NPeers = 3
  Priority <- PrioTwoTiers
  MaxConc <- Max211
  Sids = {s1}
  SidOf <- NoSession
  Hash <- HashS1
  IsProbe <- NoProbe
  SharePct <- ColdShare
  MaxMoreTries = 2
  CrossTier = TRUE
  InterceptErrors = TRUE
  Adaptive = TRUE
  CCValues = {2}
  InitCC = 1
  ResetValues = {0, 1}
  MaxCrashes = 1
  MaxResets = 0
  MaxBans = 1
INVARIANTS
  RetryChain
PROPERTIES
  Drains
