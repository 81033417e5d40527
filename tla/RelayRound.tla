---- MODULE RelayRound ----
(***************************************************************************)
(* A node's session with a relay: run_relay_round_on_socket of             *)
(* relay/client.rs, called for a round, which begins with the node's       *)
(* inventory, and for a poll between rounds, which only listens.           *)
(*                                                                         *)
(* The socket has no read timeout: a read returns when a frame arrives or  *)
(* the connection breaks, and the deadline is looked at only between two   *)
(* frames.  What a round knows of the relay is forgotten when it ends;     *)
(* what it left unread is read by the next one.  The messages it brought   *)
(* go to the chat when it ends, unless it ends in an error.                *)
(*                                                                         *)
(* The relay is no part of the repository.  It answers an inventory with   *)
(* its own and with a REQUEST, a REQUEST with a TRANSFER and a TRANSFER    *)
(* with a RECEIPT, its summary always before its offer or always after it, *)
(* it may announce itself at any time, and it may fall silent.  Items do   *)
(* not expire here (GossipStore), and how a session is opened is           *)
(* RelayWorker's subject.                                                  *)
(***************************************************************************)
EXTENDS EncounterScheduler, Sequences

CONSTANTS
  Items,         \* item ids
  Node,          \* this node
  Relay,         \* the relay's node id
  Cargo,         \* what the envelope of each item says; to is no node's when it
                 \* cannot be decoded
  Stored,        \* items in the node's store at first
  Uploaded,      \* items at the relay at first
  Origin,        \* items the user may still send
  Arriving,      \* items that may still reach the relay from elsewhere
  Transports,    \* values of is_relay_ingest_allowed: is the transport secure or local
  MaxWant,       \* the relay's max_want, at most MAX_WANT_ITEMS
  MaxTransfer,   \* the relay's max_transfer
  PreviewMax,    \* MAX_SUMMARY_PREVIEW_ITEMS, of the node and of the relay
  IngestMax,     \* RELAY_INGEST_MAX_ITEMS_DEFAULT, or what the environment sets
  ProcessMax,    \* RELAY_INGEST_PROCESS_MAX_ITEMS
  Seed,          \* relay_ingest_seed_offset of each day
  MaxDay,        \* bound on days
  Cycle,         \* the window's round is kept modulo this
  MaxUnread,     \* bound on unread frames when more are asked for
  MaxFaults      \* bound on errors, lost connections, unreadable identities, passed
                 \* deadlines, announcements, and pings while frames are unread

ASSUME RelayConstants ==
  /\ Items \subseteq Nat /\ IsFiniteSet(Items)
  /\ Node # Relay
  /\ Cargo \in [Items -> StoredItem] /\ \A i \in Items : Cargo[i].item_id = i
  /\ Stored \subseteq Items /\ Uploaded \subseteq Items
  /\ Origin \subseteq Items /\ Arriving \subseteq Items
  /\ Transports \subseteq BOOLEAN
  /\ {MaxWant, MaxTransfer, PreviewMax, IngestMax, MaxDay, MaxUnread, MaxFaults} \subseteq Nat
  /\ {ProcessMax, Cycle} \subseteq Nat \ {0}
  /\ Seed \in [0..MaxDay -> Nat]
  \* Only the remainder of the round by the number of offers is used.
  /\ \A n \in 1..Cardinality(Items) : Cycle % n = 0

VARIABLES
  have,        \* the node's store
  held,        \* what the relay holds
  allowed,     \* relay_ingest_allowed
  session,     \* closed, or open and idle, running, or late: past its deadline
  unread,      \* frames the relay has sent and the node has not read
  round,       \* what the round knows: latest_summary, relay_ingest_candidates,
               \* no_progress_streak and pulled_messages
  reported,    \* messages handed to the chat
  failed,      \* messages of rounds that ended in an error
  day,         \* unix_day
  rotation,    \* the entry of the relay in the registry of ingest windows
  offersFirst, \* whether the relay says its offer before its summary
  exposed,     \* messages a node named when it could not read its identity (history)
  faults       \* faults so far

chat == <<reported, failed>>
setting == <<allowed, offersFirst, day, exposed>>
vars == <<have, held, session, unread, round, chat, setting, rotation, faults>>

Summary == [held: SUBSET Items, preview: SUBSET Items]
NoSummary == [held |-> {}, preview |-> {}]
Unknown == [latest |-> NoSummary, candidates |-> {}, streak |-> 0, pulled |-> {}]

Frame ==
  [kind: {"PING", "PONG", "HELLO"}] \union
  [kind: {"SUMMARY"}, summary: Summary] \union
  [kind: {"RELAY_INGEST", "REQUEST", "TRANSFER", "RECEIPT"}, ids: SUBSET Items]

Messages == {i \in Items : Cargo[i].to = Node}
Round == [latest: Summary, candidates: SUBSET Items, streak: 0..1, pulled: SUBSET Messages]

Running == session \in {"running", "late"}

\* What the node keeps of the session and of a round has its shape; a round
\* that goes on has seen less than two frames without progress, and outside a
\* round nothing of it is kept.
TypeOK ==
  /\ have \subseteq Items
  /\ held \subseteq Items
  /\ allowed \in BOOLEAN
  /\ session \in {"closed", "idle", "running", "late"}
  /\ unread \in Seq(Frame)
  /\ round \in Round
  /\ reported \subseteq Messages /\ failed \subseteq Messages
  /\ day \in 0..MaxDay
  /\ rotation \in [day: 0..MaxDay, round: 0..(Cycle - 1)]
  /\ offersFirst \in BOOLEAN
  /\ exposed \subseteq Messages
  /\ faults \in 0..MaxFaults
  /\ ~Running => round = Unknown

Init ==
  /\ have = Stored
  /\ held = Uploaded
  /\ allowed \in Transports
  /\ session = "closed"
  /\ unread = <<>>
  /\ round = Unknown
  /\ reported = {} /\ failed = {}
  /\ day = 0
  /\ rotation = [day |-> 0, round |-> 0]
  /\ offersFirst \in BOOLEAN
  /\ exposed = {}
  /\ faults = 0

Fault == faults < MaxFaults /\ faults' = faults + 1

----
(* What the node selects. *)

\* The order of eligible_relay_ingest_item_ids and of build_summary_preview_item_ids:
\* hops, size, the younger first, id.
Ahead(i, j) ==
  LET a == Cargo[i]
      b == Cargo[j]
  IN  \/ a.hops < b.hops
      \/ a.hops = b.hops /\ a.wire < b.wire
      \/ a.hops = b.hops /\ a.wire = b.wire /\ a.recorded > b.recorded
      \/ a.hops = b.hops /\ a.wire = b.wire /\ a.recorded = b.recorded /\ i < j

Place == [i \in Items |-> Cardinality({j \in Items : Ahead(j, i)})]
First(S, k) == {i \in S : Cardinality({j \in S : Place[j] < Place[i]}) < k}

\* filter_non_self_advertisable_item_ids: everything when the identity cannot be
\* read, and what cannot be decoded always.
Advertised(S, known) == {i \in S : known => Cargo[i].to # Node}

\* What a round names to the relay: the preview of its SUMMARY, filtered before it
\* is cut, and its RELAY_INGEST, filtered afterwards.  The identity is read for each.
IdentityReads == {"preview", "ingest"}
Named(known) ==
  First(Advertised(have, "preview" \in known), PreviewMax)
    \union Advertised(First(have, IngestMax), "ingest" \in known)

\* The first k of S in ascending order, those of the preview first.
FirstWanted(S, preview, k) ==
  LET before(j, i) == IF (j \in preview) = (i \in preview) THEN j < i ELSE j \in preview
  IN  {i \in S : Cardinality({j \in S : before(j, i)}) < k}

\* Mutant: a node that lacks nothing asks for what is previewed.
Wanted_Held(store, s, offers) ==
  LET missing == ((s.preview \union offers) \intersect s.held) \ store
  IN  FirstWanted(IF missing = {} THEN s.preview ELSE missing, s.preview, MaxWant)

\* select_request_item_ids_from_summary_with_candidates.
Wanted(store, s, offers) ==
  FirstWanted(((s.preview \union offers) \intersect s.held) \ store, s.preview, MaxWant)

Objects(want) == {s.item_id : s \in
  TransferItems({Cargo[i] : i \in want \intersect have}, MaxTransfer, MaxTransferBytes, 0, Relay)}

\* The round of the window for today, and what the registry keeps after it.
WindowRound == IF rotation.day = day THEN rotation.round ELSE 0

\* Mutant: the round is looked up and not counted.
NextWindow_Stuck == [day |-> day, round |-> WindowRound]

NextWindow == [day |-> day, round |-> (WindowRound + 1) % Cycle]

\* select_relay_ingest_item_ids_for_processing: all ids, or a window of them
\* from an offset on, which wraps around.
Window(ids, offset) ==
  LET n == Cardinality(ids)
      position(i) == Cardinality({j \in ids : j < i})
  IN  IF n <= ProcessMax THEN ids
      ELSE {i \in ids : (position(i) + n - (offset % n)) % n < ProcessMax}

\* The window moves by its own length from round to round.
WindowStart(ids, w) == Seed[day] + (w % Cardinality(ids)) * ProcessMax
Processed(ids) == Window(ids, WindowStart(ids, WindowRound))

----
(* The relay. *)

Ids(kind, S) == [kind |-> kind, ids |-> S]
Sends(frames) == unread' = unread \o frames

RelaySummary ==
  [kind |-> "SUMMARY",
   summary |-> [held |-> held, preview |-> FirstWanted(held, {}, PreviewMax)]]

Inventory ==
  LET offer == Ids("RELAY_INGEST", held)
  IN  IF offersFirst THEN <<offer, RelaySummary>> ELSE <<RelaySummary, offer>>

RelayRequest(named) ==
  IF named \subseteq held THEN <<>> ELSE <<Ids("REQUEST", named \ held)>>

\* The first items of a REQUEST; nothing is said when there are none.
RelayTransfer(want) ==
  LET objects == FirstWanted(want \intersect held, {}, MaxTransfer)
  IN  IF objects = {} THEN <<>> ELSE <<Ids("TRANSFER", objects)>>

\* What the relay says unasked.
Unasked(frames) ==
  /\ session # "closed" /\ Len(unread) < MaxUnread
  /\ Sends(frames)
  /\ UNCHANGED <<have, held, session, round, chat, setting, rotation>>

\* A ping or a HELLO, counted among the faults unless the node waits for a frame.
Waits == Running /\ unread = <<>>
Chatter(kind) == Unasked(<<[kind |-> kind]>>) /\ IF Waits THEN UNCHANGED faults ELSE Fault
Ping == Chatter("PING")
Hello == Chatter("HELLO")

\* It announces what it holds.
Announce == Unasked(Inventory) /\ Fault

\* Another node uploads i.
Arrive(i) ==
  /\ i \in Arriving \ held
  /\ held' = held \union {i}
  /\ UNCHANGED <<have, session, unread, round, chat, setting, rotation, faults>>

----
(* A session and its rounds. *)

Connect ==
  /\ session = "closed"
  /\ session' = "idle"
  /\ UNCHANGED <<have, held, unread, round, chat, setting, rotation, faults>>

\* A heartbeat may be due before either, not before the answer to the last one,
\* 20 seconds ago, has been read.  Its answer comes first.
PONG == [kind |-> "PONG"]
Heartbeat == IF \E n \in DOMAIN unread : unread[n] = PONG THEN {<<>>} ELSE {<<>>, <<PONG>>}

\* run_relay_round_on_persistent_session: SUMMARY and RELAY_INGEST are sent
\* before anything is read.
BeginsRound(known) ==
  /\ session = "idle" /\ Len(unread) < MaxUnread
  /\ session' = "running"
  /\ \E pong \in Heartbeat : Sends(pong \o Inventory \o RelayRequest(Named(known)))
  /\ UNCHANGED <<have, held, allowed, offersFirst, round, chat, day, rotation>>

StartRound == BeginsRound(IdentityReads) /\ UNCHANGED <<exposed, faults>>

\* The identity cannot be read, while the store holds messages of the node.
StartRoundBlind(known) ==
  /\ known # IdentityReads /\ have \intersect Messages # {}
  /\ BeginsRound(known) /\ Fault
  /\ exposed' = exposed \union (Named(known) \intersect Messages)

\* poll_relay_inbound_on_persistent_session.
StartPoll ==
  /\ session = "idle"
  /\ session' = "running"
  /\ \E pong \in Heartbeat : Sends(pong)
  /\ UNCHANGED <<have, held, round, chat, setting, rotation, faults>>

\* A round returns its report, and with it the messages it brought.
Reports(messages) ==
  /\ round' = Unknown
  /\ reported' = reported \union messages /\ UNCHANGED failed

\* A round returns an error, and no report.
Errs(messages) ==
  /\ round' = Unknown
  /\ failed' = failed \union messages /\ UNCHANGED reported

Hangs == session' = "closed" /\ unread' = <<>>

\* The deadline passes while the node waits for a frame: it goes on waiting.
WaitsLong ==
  /\ session = "running" /\ unread = <<>>
  /\ session' = "late"
  /\ UNCHANGED <<have, held, unread, round, chat, setting, rotation, faults>>

\* The deadline has passed when the loop comes to it again.
Overruns ==
  /\ session = "running" /\ Fault
  /\ session' = "idle" /\ Reports(round.pulled)
  /\ UNCHANGED <<have, held, unread, setting, rotation>>

\* Mutant: the report of a round the relay has closed is thrown away.
RemoteClose_Drops ==
  /\ session # "closed" /\ Fault
  /\ Hangs
  /\ round' = Unknown /\ UNCHANGED chat
  /\ UNCHANGED <<have, held, setting, rotation>>

\* is_nonfatal_remote_close: the report is kept, and the session closed.
RemoteClose ==
  /\ session # "closed" /\ Fault
  /\ Hangs /\ Reports(round.pulled)
  /\ UNCHANGED <<have, held, setting, rotation>>

\* Any other error of the socket, of a frame or of the store.
Fail ==
  /\ Running /\ Fault
  /\ Hangs /\ Errs(round.pulled)
  /\ UNCHANGED <<have, held, setting, rotation>>

----
(* One frame. *)

Reads(kind) == Running /\ unread # <<>> /\ Head(unread).kind = kind
Answers(frames) == unread' = Tail(unread) \o frames

\* The end of the loop's body; brought are the messages of this frame.
Handled(made_progress, s, offers, brought) ==
  LET messages == round.pulled \union brought
  IN  IF session = "late" \/ (~made_progress /\ round.streak = 1)
      THEN session' = "idle" /\ Reports(messages)
      ELSE /\ round' = [latest |-> s, candidates |-> offers,
                        streak |-> IF made_progress THEN 0 ELSE 1, pulled |-> messages]
           /\ UNCHANGED <<session, chat>>

\* Mutant: a ping is answered and the read goes on.
ReadPing_Skips ==
  /\ Reads("PING") \/ Reads("PONG")
  /\ Answers(<<>>)
  /\ UNCHANGED <<have, held, session, round, chat, setting, rotation, faults>>

\* read_binary_frame reports a ping or a pong as a read that would block, and
\* that ends the loop.
ReadPing ==
  /\ Reads("PING") \/ Reads("PONG")
  /\ Answers(<<>>)
  /\ session' = "idle" /\ Reports(round.pulled)
  /\ UNCHANGED <<have, held, setting, rotation, faults>>

ReadSummary ==
  /\ Reads("SUMMARY")
  /\ LET s == Head(unread).summary
         want == Wanted(have, s, round.candidates)
     IN  Answers(RelayTransfer(want)) /\ Handled(want # {}, s, round.candidates, {})
  /\ UNCHANGED <<have, held, setting, rotation, faults>>

\* An offer over a transport that does not allow it is passed over, and does not
\* count as a frame without progress.
ReadForbiddenIngest ==
  /\ Reads("RELAY_INGEST") /\ ~allowed
  /\ Answers(<<>>)
  /\ IF session = "late" THEN session' = "idle" /\ Reports(round.pulled)
                         ELSE UNCHANGED <<session, round, chat>>
  /\ UNCHANGED <<have, held, setting, rotation, faults>>

\* With a summary at hand the offer is asked for at once.
TakeOffer(offers) ==
  LET want == IF round.latest = NoSummary THEN {} ELSE Wanted(have, round.latest, offers)
  IN  Answers(RelayTransfer(want)) /\ Handled(want # {}, round.latest, offers, {})

\* relay_ingest_candidates_with_lookup: when the store cannot be asked what is
\* missing, the candidates stay what they were.
ReadIngest ==
  /\ Reads("RELAY_INGEST") /\ allowed
  /\ LET ids == Head(unread).ids
     IN  /\ \/ TakeOffer(Processed(ids) \ have) /\ UNCHANGED faults
            \/ TakeOffer(round.candidates) /\ Fault
         /\ rotation' = IF Cardinality(ids) > ProcessMax THEN NextWindow ELSE rotation
  /\ UNCHANGED <<have, held, setting>>

\* Mutant: what the relay has taken is removed from the store.
ReadRequest_Moves ==
  /\ Reads("REQUEST")
  /\ LET objects == Objects(Head(unread).ids)
     IN  /\ held' = held \union objects /\ have' = have \ objects
         /\ Answers(IF objects = {} THEN <<>> ELSE <<Ids("RECEIPT", objects)>>)
         /\ Handled(objects # {}, round.latest, round.candidates, {})
  /\ UNCHANGED <<setting, rotation, faults>>

\* The answer is a TRANSFER, be it empty; the relay takes what it brings.
ReadRequest ==
  /\ Reads("REQUEST")
  /\ \E objects \in {Objects(Head(unread).ids)} :
         /\ held' = held \union objects
         /\ Answers(IF objects = {} THEN <<>> ELSE <<Ids("RECEIPT", objects)>>)
         /\ Handled(objects # {}, round.latest, round.candidates, {})
  /\ UNCHANGED <<have, setting, rotation, faults>>

\* import_transfer_items: what is new is accepted; what is known may be rejected
\* for its hop count.
Imports(objects) == {accepted \in SUBSET objects : objects \ have \subseteq accepted}

\* The items are in the store before the RECEIPT is sent.
ReadTransfer ==
  /\ Reads("TRANSFER")
  /\ \E accepted \in Imports(Head(unread).ids) :
       LET brought == (accepted \ have) \intersect Messages
       IN  /\ have' = have \union accepted
           /\ \/ Answers(<<>>) /\ Handled(accepted # {}, round.latest, round.candidates, brought) /\ UNCHANGED faults
              \/ Hangs /\ Errs(round.pulled \union brought) /\ Fault
  /\ UNCHANGED <<held, setting, rotation>>

ReadReceipt ==
  /\ Reads("RECEIPT")
  /\ Answers(<<>>)
  /\ Handled(Head(unread).ids # {}, round.latest, round.candidates, {})
  /\ UNCHANGED <<have, held, setting, rotation, faults>>

\* A HELLO in the middle of a stream has no effect, and is a frame without progress.
ReadHello ==
  /\ Reads("HELLO")
  /\ Answers(<<>>) /\ Handled(FALSE, round.latest, round.candidates, {})
  /\ UNCHANGED <<have, held, setting, rotation, faults>>

Read ==
  \/ ReadPing
  \/ ReadHello
  \/ ReadSummary
  \/ ReadForbiddenIngest
  \/ ReadIngest
  \/ ReadRequest
  \/ ReadTransfer
  \/ ReadReceipt

----
(* The user and the clock. *)

\* The user sends i.
Gain(i) ==
  /\ i \in Origin \ have
  /\ have' = have \union {i}
  /\ UNCHANGED <<held, session, unread, round, chat, setting, rotation, faults>>

NewDay ==
  /\ day < MaxDay
  /\ day' = day + 1
  /\ UNCHANGED <<have, held, allowed, offersFirst, exposed, session, unread, round, chat, rotation, faults>>

Next ==
  \/ Connect \/ StartRound \/ StartPoll
  \/ \E known \in SUBSET IdentityReads : StartRoundBlind(known)
  \/ Read \/ WaitsLong \/ Overruns \/ RemoteClose \/ Fail
  \/ Ping \/ Hello \/ Announce
  \/ NewDay
  \/ \E i \in Items : Arrive(i) \/ Gain(i)

\* The worker thread goes on as long as its socket does: it connects, comes to
\* rounds and to polls, and reads what has arrived.  A deadline passes.
Spec ==
  /\ Init /\ [][Next]_vars
  /\ WF_vars(Connect) /\ SF_vars(StartRound) /\ SF_vars(StartPoll)
  /\ WF_vars(Read) /\ SF_vars(WaitsLong)

----
(* Properties. *)

\* A message the relay brought is in the round's report to come, in the chat, or
\* in a round that ended in an error (run_relay_round_on_socket's `?`, after
\* import_transfer_items has committed): no other way out of a round loses it,
\* and none is handed over twice.
NoneOverlooked ==
  /\ (have \ Stored) \intersect Messages = round.pulled \union reported \union failed
  /\ round.pulled \intersect reported = {} /\ failed \intersect (round.pulled \union reported) = {}

\* The two stores: the node's and the relay's.
Both(node, relay) == [n \in {Node, Relay} |-> IF n = Node THEN node ELSE relay]

Exchange == INSTANCE Exchange WITH
  Nodes <- {Node, Relay},
  Start <- Both(Stored, Uploaded),
  Source <- [i \in Items |-> {n \in {Node, Relay} : i \in Both(Origin, Arriving)[n]}],
  Ends <- Both(Messages, {}),
  have <- Both(have, held),
  exposed <- Both(exposed, {})

\* What the node takes in the relay holds, and what the relay takes in the node
\* holds and is not the one it is addressed to, unless the node named it when it
\* could not read its identity: although a REQUEST or a TRANSFER may be left unread
\* by one round and read by a later one, or by a poll, and a round may end between
\* an import and its RECEIPT (run_relay_round_on_socket).
RefinesExchange == Exchange!Spec

\* A round and a poll come to their end, whatever frames they find or are left
\* without, unless the relay falls silent for good: nothing else keeps one, and
\* nothing interrupts a read (the socket has no read timeout).
RoundEnds == []<>~Running \/ <>[]Waits

\* What the user sends reaches a relay that does not fall silent, whatever rounds
\* are cut short by heartbeats, deadlines and lost connections, if it stays among
\* the items that a round names: the relay's REQUEST is answered in that round, or
\* by the next poll, or asked for again.  What the caps of the preview and of the
\* offer cut off is promised nothing, and may stay for ever.
UploadArrives == <>[](Named(IdentityReads) \subseteq held) \/ <>[]Waits

\* What the relay holds reaches the node: one of the windows of its offer comes
\* to every item, in a round that also has its summary.  Over a transport that
\* does not allow the offer, only what the summary previews does.
Offered == IF allowed THEN held ELSE RelaySummary.summary.preview
OfferArrives == <>[](Offered \subseteq have) \/ <>[]Waits

\* When both hold everything, no item is sent any more.
Complete == have = Items /\ held \union Messages = Items
OnItsWay ==
  {i \in Items : \E n \in DOMAIN unread :
                  unread[n].kind \in {"TRANSFER", "REQUEST"} /\ i \in unread[n].ids}
Settles == <>[](Complete => OnItsWay = {})
====
