CONSTANTS
  A = 1
  B = 13
  N = 5
  Capacity = 2
SPECIFICATION FairSpec
INVARIANTS
  TypeOK
  PrintsPrimesInOrder
PROPERTIES
  NextSignalWakes
CHECK_DEADLOCK FALSE
