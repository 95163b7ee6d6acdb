CONSTANTS
  Clients <- MCTwoClients
  Wanted <- MCTwoWanted
  Request <- MCTwoRequests
  Pauses <- MCTwoPauses
  Disk <- MCDisk
SPECIFICATION FairSpec
INVARIANTS
  TypeOK
  RightAnswer
PROPERTIES
  
  LeavingFreesServer
  StopsUnlessStuck
CHECK_DEADLOCK FALSE
