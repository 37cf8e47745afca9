SPECIFICATION MCSpec
CONSTANTS
  ScanFails = TRUE
  Offsets = {0, 1, 2, 3}
  MaxEntries = 3
  Logs <- MCLogs
  c1 = c1
  c2 = c2
  Consumers = {c1, c2}
  IntRange = 128
  Kilo = 4
  MaxPort = 3
  Malformed = Malformed
  Unreadable = Unreadable
  Files <- MCFiles
  Ports <- MCPorts
INVARIANTS
  AddEntryUpdatesMap
  LookupsMatchScan
  CatalogCleanIsSaved
  SizesAsWritten
PROPERTY SavesAtomically
