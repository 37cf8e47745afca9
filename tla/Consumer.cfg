SPECIFICATION FairConsumerSpec
CONSTANTS
  Me = Me
  Readers = {Me}
  Messages = {msg}
  Batch = 2
  ChanCap = 1
  MaxPublished = 4
  Seeks = TRUE
  Restarts = TRUE
INVARIANTS
  NeverTwice
  PassedOrDropped
  OffsetIsLastPassed
PROPERTIES
  KeepsToStream
  StopEndsLoop
