CONSTANTS
  k1 = k1  k2 = k2  r1 = r1  r2 = r2  r3 = r3
  Keys <- TwoKeys
  Requests <- Requests3
  windowMs = 2
  max = 1
  blockDuration = 2
  maxKeys = 2
  OperatorMs = {3}
  MaxTime = 3
  Calls <- Requests3
  threadedWindowMs = 1
  threadedMax = 1
  threadedBlockDuration = 1
  threadedMaxKeys = 2
  ThreadedOperatorMs = {2}
  ThreadedMaxTime = 1
  NoTime = NoTime
SPECIFICATION BothSpec
SYMMETRY Symmetry
INVARIANTS TypeOK WindowExact StampsKept
PROPERTIES BlocksStand ImplementsSlidingWindow ThreadedImplements
