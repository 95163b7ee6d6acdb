CONSTANTS
  stays = stays
  leaves = leaves
  Clients <- MCClients
  Leavers <- MCLeavers
  Data <- MCData
  Window = 2
  PipeSize = 1
  MaxSignals = 2
SPECIFICATION FairSpec
INVARIANTS
  NoByteLost
  NeverBlocks
PROPERTIES
  Served
  SignalStops
  ImplementsEchoService
CHECK_DEADLOCK FALSE
