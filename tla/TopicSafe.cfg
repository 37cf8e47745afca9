SPECIFICATION TopicSpec
CONSTANTS
  HeaderSize = 2
  Lens = {1, 2}
  MaxSize = 6
  SegSpan = 100
  MaxMessages = 3
  TornWrites = FALSE
  Retention = FALSE
  c1 = c1
  c2 = c2
  Consumers = {c1}
  Batch = 2
  ScanFails = FALSE
  IndexInterval = 2
  Seeks = TRUE
  BlindSeeks = FALSE
  MaxRestarts = 2
INVARIANTS
  AckedInPlace
  AckedReadable
  OffsetsOnFrames
  DeliveredExactly
  NothingSkipped
  IndexPointsAtFrames
PROPERTIES
  ImplementsStream
