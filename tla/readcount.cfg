CONSTANTS
  FdCount = 2
  Buffer = 2
  MaxBytes = 3
  MaxErrors = 2
SPECIFICATION CountFairSpec
INVARIANTS
  CountTypeOK
  ReturnsWhatWasSent
PROPERTIES
  ReturnsForSockets
CHECK_DEADLOCK FALSE
