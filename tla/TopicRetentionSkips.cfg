SPECIFICATION TopicSpec
CONSTANTS
  HeaderSize = 2
  Lens = {1}
  MaxSize = 100
  SegSpan = 100
  MaxMessages = 3
  TornWrites = FALSE
  Retention = TRUE
  c1 = c1
  c2 = c2
  Consumers = {c1}
  Batch = 2
  ScanFails = FALSE
  IndexInterval = 100
  Seeks = FALSE
  BlindSeeks = FALSE
  MaxRestarts = 1
INVARIANTS
  NothingSkipped
