CONSTANTS
  a1 = a1  a2 = a2  p1 = p1  p2 = p2  r1 = r1  r2 = r2  r3 = r3
  IPs <- OneIP
  Peers <- OnePeer
  Requests <- Requests2
  mode = "block"
  blockThreshold = 100
  Risks = {20}
  PathsSent = {"plain"}
  SolutionsSent = {"none", "page", "hmac"}
  UrlsSent = {"sound"}
  AppStatuses = {200}
  MaxReconEntries = 2
  ReconTTL = 1
  ErrorCacheMax = 1
  ChallengeMs = 2
  PassMs = 4
  ThrottleMs = 1
  MaxTime = 1
SPECIFICATION Spec
INVARIANTS AdmittedOnceSolved
