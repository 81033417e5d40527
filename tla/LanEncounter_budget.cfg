SPECIFICATION Spec
CONSTANTS
  a = a
  b = b
  x = x
  y = y
  Nodes = {a, b}
  Items = {x, y}
  Target <- ToB
  Stored <- OneEach
  Origin <- FromAny
  Order <- XFirst
  Rank <- XFirst
  Size <- OneByte
  PreviewMax = 1
  IngestMax = 2
  ChunkItems = 1
  ChunkBytes = 1
  ServeMax = 2
  MaxRounds = 2
  MaxImported = 2
  MaxStreak = 2
  MaxInFlight = 1
  MaxFaults = 1
INVARIANTS
  EndsAtTarget
  RoundsBounded
PROPERTIES
  RefinesExchange
