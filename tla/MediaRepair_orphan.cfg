SPECIFICATION FairSpec
CONSTANTS
  ChunkCount = 3
  Initial = 2
  Target = 2
  Ceiling = 2
  QueueMax = 2
  FlushMax = 1
  MaxFaults = 0
  Manifest = Manifest
PROPERTIES
  MissingIsFetched
CHECK_DEADLOCK FALSE
