CONSTANTS
  A = 1
  B = 13
  N = 3
  Capacity = 6
SPECIFICATION FairSpec
PROPERTIES
  MainExits
CHECK_DEADLOCK FALSE
