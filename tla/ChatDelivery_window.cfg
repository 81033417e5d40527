SPECIFICATION Spec
CONSTANTS
  ping = ping
  copyOfPing = copyOfPing
  note = note
  pong = pong
  draft = draft
  relay = relay
  gossip = gossip
  sender = sender
  saver = saver
  keeper = keeper
  Incoming = {ping}
  Pings = {ping}
  Outgoing = {note}
  Pongs = {pong}
  Drafts = {draft}
  Draft <- TheDraft
  Manifest <- TheManifest
  RelayThreads = {relay}
  GossipThreads = {}
  Senders = {sender}
  Savers = {saver}
  Keepers = {keeper}
INVARIANTS
  ShownWasStored
  LossHasCause
