SPECIFICATION FairQueueSpec
CONSTANTS
  p1 = p1
  p2 = p2
  t1 = t1
  Clients = {p1}
  Topics = {t1}
  Cleaner = Cleaner
  Closer = Closer
  Nobody = Nobody
  Ops <- DeleteOps
  Closes = FALSE
PROPERTIES
  DeleteReturns
CHECK_DEADLOCK FALSE
