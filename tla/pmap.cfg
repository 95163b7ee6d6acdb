CONSTANTS
  N = 3
  Count = 5
  Faults = 1
SPECIFICATION FairSpec
INVARIANTS
  ReturnsComplete
  NoPostAfterDestroy
  BlockedForARunningChild
PROPERTIES
  Returns
CHECK_DEADLOCK FALSE
