SPECIFICATION Spec
CONSTANTS
  Groups <- MCGroups
  Objs <- MCObjs
  Copies <- MCCopies
  Conf <- MCConf
  Services <- MCServices
  Stripped <- MCStripped
  EndpointStates <- MCEndpointStates
  PodOf <- MCPodOf
  Owner <- MCOwner
  TopOf <- MCTopOf
  Counts <- MCCounts
  Slices = {"i1", "i2"}
  SliceStates <- MCSliceStates
  Disaggregated = "kimi"
  NginxService = AllServices
  AllServices = AllServices
  InitCluster <- MCInitCluster
  OwnerWalkMaxDepth = 3
  PdRetryRounds = 2
  Gone = Gone
  None = None
  Fallback = "b2"
  Bases = {"b1", "b2"}
  Routes = {"r"}
  Budgets <- MCBudgets
INVARIANTS SnapshotCurrent ComparableSeries DesiredIsCommitted
INVARIANTS CountersSound PollUpHonest
PROPERTIES Heals
