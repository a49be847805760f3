CONSTANTS
  None = None
SPECIFICATION FairSpec
INVARIANTS UrlMatched
CHECK_DEADLOCK FALSE
