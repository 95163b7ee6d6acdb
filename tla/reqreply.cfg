CONSTANTS
  Inputs <- MCInputs
  Pids = {1, 3773}
  MaxRequests = 3
  MaxExtras = 1
SPECIFICATION Spec
INVARIANTS
  RequestsUnderstood
  OwnAnswers
  CountsOneTooManyAtMost
PROPERTIES
  EndsUnlessLost
CHECK_DEADLOCK FALSE
