SPECIFICATION TopicSpec
CONSTANTS
  HeaderSize = 2
  Lens = {1, 2}
  MaxSize = 7
  SegSpan = 100
  MaxMessages = 3
  TornWrites = TRUE
  Retention = TRUE
  c1 = c1
  c2 = c2
  Consumers = {c1}
  Batch = 2
  ScanFails = FALSE
  IndexInterval = 1
  Seeks = FALSE
  BlindSeeks = FALSE
  MaxRestarts = 1
INVARIANTS
  LogConsistent
  OffsetsTruthful
  IndexSorted
  IndexCleanIsSaved
PROPERTIES
  LinkedAppendIsReadable
