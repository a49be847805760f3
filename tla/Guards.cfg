CONSTANTS
  i1 = i1  i2 = i2  a1 = a1  a2 = a2  a3 = a3  r1 = r1  r2 = r2  r3 = r3  r4 = r4
  c1 = c1  c2 = c2  c3 = c3
  IPs <- TwoIPs
  Accounts <- OneAccount
  NoAccount = NoAccount
  NoBlock = NoBlock
  Requests <- Requests4
  maxAttempts = 2
  windowMs = 2
  blockDurationMs = 1
  maxBlockDurationMs = 3
  progressiveBackoff = TRUE
  accountMaxAttempts = 2
  maxStateSize = 2
  maxAccountStateSize = 2
  LastActivity = 2
  MaxTime = 3
  Logins <- TwoAccounts
  Calls <- Calls3
  threadedMaxAttempts = 2
  threadedWindowMs = 1
  threadedBlockMs = 2
  threadedMaxBlockMs = 3
  threadedAccountMax = 2
  threadedStateSize = 2
  threadedAccountSize = 1
  MaxInt = 63
  ThreadedMaxTime = 2
SPECIFICATION BothSpec
SYMMETRY Symmetry
INVARIANTS
  TypeOK
  BlockSound
  AccountMemory
  InFlightPredatesBlock
  TableTypes
  LoginsRemembered
PROPERTIES
  BlockStands
  BlocksStand
