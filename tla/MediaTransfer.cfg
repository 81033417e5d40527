SPECIFICATION FairSpec
CONSTANTS
  photo = photo
  fake = fake
  first = first
  second = second
  gossip = gossip
  digest = digest
  Threads = {gossip}
  Transfers = {photo, fake}
  Objects = {digest}
  Object <- SameObject
  Chunks <- TwoAndOne
  Indices = {first, second}
  Forged = {fake}
  Damaged <- FirstOfPhoto
  MaxStrikes = 2
  Quota = 2
  MaxCrashes = 1
  NoState = NoState
  NoJob = NoJob
INVARIANTS
  StoredIsWhole
  CompleteWasStored
  FailureHasCause
PROPERTIES
  OutcomeIsFinal
  WholeIsFinished
  ExpiredIsShown
