CONSTANTS
  a1 = a1  a2 = a2  p1 = p1  p2 = p2  r1 = r1  r2 = r2
  NoAccount = NoAccount  NoBlock = NoBlock
  IPs <- TwoIPs
  Peers <- TwoPeers
  Requests <- Requests2
  mode = "block"
  blockThreshold = 100
  Risks = {10, 20, 50}
  PathsSent = {"probe"}
  SolutionsSent = {"none"}
  UrlsSent = {"sound", "unparsable"}
  AppStatuses = {200, 500}
  MaxReconEntries = 1
  ReconTTL = 1
  ErrorCacheMax = 1
  ChallengeMs = 1
  PassMs = 4
  ThrottleMs = 1
  MaxTime = 1
SPECIFICATION AllSpec
INVARIANTS TablesBounded AdmittedByChallenge
PROPERTIES  GuardDrains
CHECK_DEADLOCK FALSE
