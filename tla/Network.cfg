SPECIFICATION FairNetworkSpec
CONSTANTS
  a = a
  b = b
  Conns = {a, b}
  Stops = TRUE
  Sends <- MCSends
  MaxCommands = 2
INVARIANTS
  QueueClosesLast
  OwnAnswer
  OneBatchAtRisk
PROPERTIES
  WaitGroupRules
  StopEndsOrHangs
  CommandReturns
CHECK_DEADLOCK FALSE
