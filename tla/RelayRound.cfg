SPECIFICATION Spec
CONSTANTS
  Unit = 100
  SkewTolerance = 1
  Soon = 10
  Stagnant = 10
  UnitBytes = 4
  SmallBody = 8
  MaxTransferItems = 2
  MaxTransferBytes = 8
  Items <- MCItems
  Node = 8
  Relay = 9
  Cargo <- MCCargo
  Stored = {3, 4}
  Uploaded = {}
  Origin = {1}
  Arriving = {2}
  Transports = {TRUE, FALSE}
  MaxWant = 2
  MaxTransfer = 1
  PreviewMax = 1
  IngestMax = 1
  ProcessMax = 1
  Seed <- MCSeed
  MaxDay = 1
  Cycle = 12
  MaxUnread = 2
  MaxFaults = 1
INVARIANTS
  NoneOverlooked
PROPERTIES
  UploadArrives
  OfferArrives
  Settles
  RoundEnds
  RefinesExchange
CHECK_DEADLOCK FALSE
