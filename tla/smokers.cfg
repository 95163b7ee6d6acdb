CONSTANTS
  MaxLetters = 2
SPECIFICATION FairSpec
INVARIANTS
  TypeOK
  OneLetterOut
  CleanEnd
PROPERTIES
  EndsUnlessSignalIsLate
CHECK_DEADLOCK FALSE
