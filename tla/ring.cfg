CONSTANTS
  N = 1
  K = 6
SPECIFICATION FairSpec
INVARIANTS
  TypeOK
  NoDeadlock
  NoLostUpdate
PROPERTIES
  MainExits
  ImplementsAtomicRing
