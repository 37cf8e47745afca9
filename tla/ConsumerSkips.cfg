SPECIFICATION ConsumerSpec
CONSTANTS
  Me = Me
  Readers = {Me}
  Messages = {msg}
  Batch = 2
  ChanCap = 1
  MaxPublished = 4
  Seeks = FALSE
  Restarts = FALSE
INVARIANTS
  SkipsOnlyProcessed
CHECK_DEADLOCK FALSE
