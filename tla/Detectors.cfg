CONSTANTS
  None = None
SPECIFICATION FairSpec
INVARIANTS
  DetectorTypes
  SessionsExact
  CallsExact
  ReportsTrue
  
PROPERTIES
  DetectorsForget
CHECK_DEADLOCK FALSE
