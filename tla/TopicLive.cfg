SPECIFICATION FairTopicSpec
CONSTANTS
  HeaderSize = 2
  Lens = {1}
  MaxSize = 4
  SegSpan = 100
  MaxMessages = 2
  TornWrites = FALSE
  Retention = FALSE
  c1 = c1
  c2 = c2
  Consumers = {c1, c2}
  Batch = 1
  ScanFails = FALSE
  IndexInterval = 100
  Seeks = FALSE
  BlindSeeks = FALSE
  MaxRestarts = 1
PROPERTIES
  EventuallyDelivered
