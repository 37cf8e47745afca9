SPECIFICATION FairQueueSpec
CONSTANTS
  p1 = p1
  p2 = p2
  t1 = t1
  Clients = {p1, p2}
  Topics = {t1}
  Cleaner = Cleaner
  Closer = Closer
  Nobody = Nobody
  Ops <- SharedOps
  Closes = TRUE
INVARIANTS
  OneTopicPerName
  
  NoUseAfterClose
PROPERTIES
  EveryCallReturns
CHECK_DEADLOCK FALSE
