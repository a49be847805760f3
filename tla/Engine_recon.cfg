CONSTANTS
  a1 = a1  a2 = a2  p1 = p1  p2 = p2  r1 = r1  r2 = r2  r3 = r3
  IPs <- OneIP
  Peers <- OnePeer
  Requests <- Requests3
  mode = "block"
  blockThreshold = 100
  Risks = {5, 9}
  PathsSent = {"probe", "sensitive"}
  SolutionsSent = {"none"}
  UrlsSent = {"sound"}
  AppStatuses = {404, 500}
  MaxReconEntries = 2
  ReconTTL = 1
  ErrorCacheMax = 1
  ChallengeMs = 2
  PassMs = 4
  ThrottleMs = 1
  MaxTime = 1
SPECIFICATION Spec
SYMMETRY Symmetry
INVARIANTS TypeOK ReconRemembers
PROPERTIES KillChain
