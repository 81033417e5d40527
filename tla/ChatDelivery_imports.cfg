SPECIFICATION FairSpec
CONSTANTS
  ping = ping
  copyOfPing = copyOfPing
  note = note
  pong = pong
  draft = draft
  relay = relay
  gossip = gossip
  sender = sender
  saver = saver
  keeper = keeper
  Incoming = {ping, copyOfPing}
  Pings = {}
  Outgoing = {}
  Pongs = {}
  Drafts = {draft}
  Draft <- NoDraft
  Manifest <- TheManifest
  RelayThreads = {relay}
  GossipThreads = {gossip}
  Senders = {}
  Savers = {saver}
  Keepers = {}
INVARIANTS
  OneCopyPerBody
PROPERTIES
  StoredIsShown
  Refines
