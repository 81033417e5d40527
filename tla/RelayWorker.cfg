SPECIFICATION FairSpec
CONSTANTS
  e1 = e1
  e2 = e2
  e3 = e3
  r1 = r1
  r2 = r2
  user = user
  Endpoints = {e1, e2, e3}
  Keys = {r1, r2}
  Key <- TheKey
  Configs <- Edited
  Diagnosers = {user}
  Attempts = {1, 2, 3}
  NoLease = NoLease
  MaxPending = 1
INVARIANTS
  OneSessionPerRelay
  NoLeaseIsLeaked
  SlotIsItsRelay
PROPERTIES
  OffMeansClosed
  EveryRelayHasItsTurn
