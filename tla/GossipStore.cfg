SPECIFICATION FairSpec
CONSTANTS
  a = a
  b = b
  gossip = gossip
  ui = ui
  Items = {a, b}
  Callers = {gossip, ui}
  Importers = {gossip, ui}
  WireObjects <- SentObjects
  Payloads <- MixedPayloads
  Expiries = {2, 3}
  Hops = {0, 1}
  Skew = 1
  MaxTime = 2
  NoRecord = NoRecord
INVARIANTS
  ItemIdIsDigest
PROPERTIES
  OnlyExpiredRowsGo
  RetainedRowsOnlyGain
  EachReportsOnce
  AcceptedIsHeld
  ExpiredLeaves
