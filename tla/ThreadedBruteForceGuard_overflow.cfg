CONSTANTS
  i1 = i1  i2 = i2  a1 = a1  a2 = a2  c1 = c1  c2 = c2  c3 = c3  c4 = c4
  IPs <- OneIP
  Accounts <- NoAccounts
  NoAccount = NoAccount
  Calls <- Calls4
  maxAttempts = 1
  windowMs = 2
  blockDurationMs = 1
  maxBlockDurationMs = 2
  progressiveBackoff = TRUE
  accountMaxAttempts = 2
  maxStateSize = 3
  maxAccountSize = 3
  MaxInt = 3
  MaxTime = 1
SPECIFICATION Spec
SYMMETRY Symmetry
PROPERTIES BackoffCaps
