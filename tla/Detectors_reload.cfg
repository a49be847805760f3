CONSTANTS
  None = None
SPECIFICATION FairSpec
INVARIANTS ReloadHarmless
CHECK_DEADLOCK FALSE
