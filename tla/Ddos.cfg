CONSTANTS
  plain = plain  mapped = mapped  a1 = a1  a2 = a2  c1 = c1  c2 = c2  c3 = c3
  Addresses <- Spellings
  Normal <- AllNormal
  Calls <- Calls3
  FeatureSets <- EachAlone
  Limits = {1, 2}
  RefillPerMs = 1
  connectionWindowMs = 0
  slowChunkIntervalMs = 0
  SlowTimeoutMs = 0
  rapidResetWindowMs = 0
  penaltyViolationsThreshold = 2
  penaltyBaseBanMs = 1
  penaltyBackoffMultiplier = 2
  penaltyMaxBanMs = 2
  BanLengths = {2}
  maxTrackerSize = 1
  gcChunkSize = 1
  MaxTime = 2
  IPs <- TwoIPs
  Requests <- Calls3
  NoLock = NoLock
  MaxConnections = 1
  MaxTrackerSize = 1
  WindowMs = 2
  IdleMs = 2
  SingleMaxTime = 3
SPECIFICATION BothSpec
SYMMETRY Symmetry
INVARIANTS
  TrackerTypes
  RateBound
  SlowReportedOnce
  BanEarned
  SingleTypes
  LocksServeInOrder
  FloodExact
PROPERTIES BanCutOnlyBy
CHECK_DEADLOCK FALSE
