CONSTANTS
  stays = stays
  leaves = leaves
  Clients <- MCClients
  Leavers <- MCLeavers
  Data <- MCData
  Window = 2
  PipeSize = 1
  MaxSignals = 2
SPECIFICATION FairSpec
INVARIANTS
  WorksUntilStopped
CHECK_DEADLOCK FALSE
