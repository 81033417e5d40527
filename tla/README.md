# Verification of aethos-linux

TLA+ models of the Aethos desktop client (Rust core in `src/src`, Tauri
application in `src/spikes/tauri-desktop`), model-checked with TLC on small
instances, with theorems checked by TLAPS. Paths below are relative to the
directory that holds the repository (`src/`); `main.rs` is
`src/spikes/tauri-desktop/src-tauri/src/main.rs`, and `gossip_sync.rs`,
`gossip_store_sqlite.rs` are in `src/src/aethos_core/`, `client.rs` in
`src/src/relay/`.

## The system

Aethos is a store-and-forward messenger. An *item* is a signed envelope named by
the SHA-256 of its bytes. Every node keeps the items it has seen in a SQLite
store until they expire, offers them to whoever it meets (a relay over a
WebSocket, another node on the LAN over UDP), and shows those addressed to it in
a chat history kept in a JSON file.

| Part | State it keeps | Operations | Interacts with |
|---|---|---|---|
| Gossip item store (`gossip_store_sqlite.rs`, `gossip_sync.rs`) | table `gossip_items`; a process-wide connection behind one mutex | `record_local_item`, `get_existing_items_for_ids`, `insert_import_items`, `eligible_*`, pruning in each read | called by every bearer and by the window's commands |
| Legacy migration (`gossip_store_sqlite.rs:189`) | `gossip-object-store.json`, its `.bak`, the marker in `gossip_meta` | at the first use of the store in a process | the item store |
| Chat delivery (`main.rs`, `app_state.rs`, `App.jsx`) | `chat` JSON file; the window's copy | merge of pulled messages, send, auto-pong, `save_chat`, media housekeeping | item store, relay round, LAN handler, window |
| LAN gossip over UDP (`main.rs:2666-4230`) | per peer: encounter, last summary, last request asked, last request served | HELLO, SUMMARY, RELAY_INGEST, REQUEST, TRANSFER, RECEIPT; chunked serving | item store, scheduler, chat |
| LAN TCP encounter (`main.rs:3584`) | one stream | same frames on a stream | item store |
| Relay worker (`main.rs:2212`) | endpoints, sessions, failures, next attempts, round robin cursor, sync epoch | reload, sync on request or periodically, idle poll, reconnect | leases, relay round, settings |
| Relay leases (`client.rs:79-170`) | registry from (relay, identity) to the active attempt | acquire, transition, drop | worker, diagnostics, tools |
| Relay round (`client.rs:560-930`) | one socket; window of the ingest rotation | summary, request, transfer, receipt, heartbeat | item store, scheduler, chat |
| Encounter scheduler (`encounter_scheduler.rs`) | none | rank, select under budgets, validate | LAN and relay serving |
| Media transfer (`media_v1.rs`) | transfers, spool files, orphans, quota cache | manifest, chunks, missing requests, finalize, expiry, recovery | chat, fastlane, item store |
| Media-control fastlane (`main.rs:1760-1998`) | queue of control items, mirror budget | unicast over UDP or TCP | media, LAN |
| Encounter orchestration, BLE (`encounter_orchestration.rs`, `ble_discovery.rs`) | bearer states, cooldowns | when to try which bearer | bearers |
| Settings, contacts, identity, window, tools | JSON and key files | load, save | everything |

What is hard about it: four threads and any number of window commands share the
store and two files; the store has a mutex, the chat file has none. Items come
from several bearers at once. Datagrams are lost and repeated. Everything
persistent may be cut off between two writes. Relays come and go while the user
edits the list of them. Each such hazard is listed in `PROJECT.json` at its
line with the property that covers it or the reason why none does.

What makes each part correct: an item in the store is what its name says and
stays until it expires; a received message is shown once and is not lost; the
migration puts no record out of reach, also when it fails; a file that was received whole
is put together, under the name of its own bytes, and its outcome stands, and what
is missing of it is asked for until it comes; two nodes that meet exchange what
they lack, within a budget, and then fall silent, and so do a node and a relay; a
request is answered in the order of the ranking; each relay has one session, and
each is used in its turn.

## Modules

| Module | Models | State | Actions |
|---|---|---|---|
| `GossipStore` | every transaction on `gossip_items` and the import on top | `rows`, the clock, and for each caller its step, arguments, what it looked up and queued | one per transaction (`RecordLocalItem`, `GetExistingItems`, `InsertImportItems`, `Prune`) and one per read of the clock before the lock (`StartRecord`, `StartImport`, `StartPrune`); errors roll back |
| `Inbox` | no code: what a user may expect of a conversation, the abstract specification `ChatDelivery` implements | accepted, shown and removed messages, and whether there was an upset | `Accept`, `Show`, `Remove`, `Overwrite` |
| `ChatDelivery` | the way of an item to the chat, and the other writers of the chat file | the stored items, the chat file, each thread's loaded copy, the window's copy, and history variables with the cause of each loss | `LookUp`, `Insert`, `LoadForMerge`, `Merge`, `Save`, send, `saveChat`, housekeeping, `Fail`, `Crash` |
| `LegacyMigration` | first use of the store in a process | the two files, table, marker, connection and the migration's progress | one per step that touches a disk, an error or a stop between any two |
| `Exchange` | no code: what gossip may do to the stores, the abstract specification `LanEncounter` and `RelayRound` implement | the store of each node, and which of its own items it has named | `Appear`, `Pass`, `Expose` |
| `LanEncounter` | UDP gossip between any number of nodes | `have` per node, datagrams in flight, per peer encounter, summary, request asked and served, the request being served; own items named without the identity | one per datagram kind and per timer, `HandleHelloBlind`, `ServeChunk`/`EndServe`, loss, duplication, failure, restart |
| `MediaTransfer` | the receiving side of media transfers on any number of threads | `state.json`, chunk files (full or cut short), lock file, usage cache, complete store, status in the chat; each thread's place, job and copy of `state.json` | one per step of the handlers of a manifest and of a chunk, of the recovery and the assembly, of the pulse and of each part of the housekeeping; `TimePasses`, `Crash` |
| `RelayWorker` | the relay thread, the lease registry, diagnostics | settings, requests, the worker's vectors, registry, leases | one per branch of the worker's loop, per step of the diagnostics, per deadline |
| `EncounterScheduler` | which items answer a REQUEST: `encounter_scheduler.rs` and what `gossip_sync.rs` gives it | none | none: validation, score, ranking and selection are operators |
| `RelayRound` | the node's end of a session with a relay, for rounds and polls; extends `EncounterScheduler`, by which it serves | both stores, unread frames, what the round knows, the messages handed to the chat or lost with an error, the entry of the ingest window, the day; own messages named without the identity | one per kind of frame, per way a round begins (`StartRound`, `StartRoundBlind`, `StartPoll`) or ends, per day; the relay's answers, announcements, pings and HELLOs |
| `MediaRepair` | a transfer between its sender and its receiver: manifest, first chunks, requests, answers, the fastlane | the send and its files, both gossip stores, dedup window and gate, fastlane queue, requests on their way, the receiver's file, chunks and cursor | one per step of the send, of a request, of its answer, of a flush and of each message taken in; timers, losses, stops |

`MC<module>` gives each its instances, `<module>_proofs` holds its theorems.
The correspondence is definition by definition in `PROJECT.json` under `map`:
an action carries the name of the function or the branch it models.

How they fit together: `RelayRound` and `LanEncounter` bring items into the
store, `ChatDelivery` takes it from there to the window, and `MediaRepair` and
`MediaTransfer` take up the messages that are parts of a file; `RelayWorker`
decides which relay gets a round. `ChatDelivery` abstracts `GossipStore` to a set
of item ids with the same look-up and insert in two steps; `LanEncounter` and
`RelayRound` abstract it to a set with an atomic import, which is enough because
each has one thread; `RelayWorker` abstracts a round to its outcome, and
`MediaRepair` a chunk handler to one step. `RelayRound` and `EncounterScheduler`
are composed by EXTENDS, `ChatDelivery` and `Inbox` by a refinement mapping, and
so are `LanEncounter` and `RelayRound` with `Exchange`.

### Choices a reader should know

* *GossipStore.* Time is a bounded counter; an item's `expiry` and the clock-skew
  tolerance are constants. A caller reads the clock before it waits for the
  mutex (`with_connection` gets `now_ms` as an argument), so it may prune with a
  time that has passed. Duplicate ids inside one transfer are kept apart by the
  `pending_new_records` map of the code, which the caller's queue models. Every
  caller may import: relay worker, gossip worker and diagnostics do. Two of them
  that find an item absent both report it as new, as the code lets them;
  `reported` keeps which importers have, and `EachReportsOnce` says that none does
  so twice. What the chat makes of two reports is `ChatDelivery`'s subject.
* *ChatDelivery.* One conversation. Two envelopes may have the same body
  (`Manifest`), as after a resend. A load and a save are separate steps because
  nothing locks the file. `saveChat` of the window writes whatever it shows.
* *LegacyMigration.* Everything between `BEGIN` and `COMMIT` is one step; the
  rename after it is another. A migration that fails leaves its connection open, and
  the process serves later callers from a table without the legacy records
  (`MigrationError`); `LegacyStaysInReach` says that a later attempt still finds them.
* *LanEncounter.* A bloom filter is the set it encodes: a false positive would
  only let a node ask for an item that was offered a moment ago and is not
  advertised any more. The scheduler is a rank order cut at the budget. `Fault` spends one unit
  of a budget `MaxFaults` for a lost or repeated datagram, an error while
  serving, or a restart. Switching gossip off, expiry during an encounter, the
  media-control fastlane and the retry of a chunk with one item when a datagram
  is too long (1024-byte chunks never are) are left out.
* *What a node advertises.* The filter of a node's own items reads the identity for
  each selection: the summary, its preview and the offer. When that fails, it lets
  everything through (`gossip_sync.rs:392`, `1402`), and an envelope it cannot decode
  it never drops (`415`). Both modules have it: `Advertised` takes whether the
  identity was known, `HandleHelloBlind` and `StartRoundBlind` leave any of the
  reads out, as one of the faults, and an item nobody can decode is addressed to
  nobody (`Target`, `Cargo.to`). Such a node names its own items, and serves them
  when asked, for ever after; `exposed` is the history of what it has named, and
  `EndsAtTarget` and `Exchange` except exactly that.
* *MediaTransfer.* Every handler and each part of the housekeeping reads
  `state.json`, calls `recover_transfer_progress_from_disk`, acts on the copy and
  writes it back; so `Begin`, then the actions of `Recover`, then the handler's
  own. A step is what lies between two points at which another thread or a crash
  makes a difference to the properties; so the removal of chunks with the write
  of `state.json` is one step, and the rename into the complete store with its
  `.json`. A new manifest is looked up and written in one step too. The chunk
  file is created and filled in two steps, because `write_chunk_file` writes in
  place and a crash between them leaves an empty file. All chunks have size 1 and
  one quota stands for the two. A transfer is named by one manifest that may come
  again unchanged, its messages expire with it, and the clock is read where it
  is used. A chunk message is intact or recognisably damaged; that all chunks are
  intact and yet do not add up to the digest is a `Forged` transfer. The chat
  status is written through: who may lose an update of the chat file is
  `ChatDelivery`'s subject. Transfers of one object state the same size, so the size
  test of `completed_object_completion_time` passes. The sending side, its answers and the choice of
  chunks in a request are in `MediaRepair`. Left out: the text of errors, and
  errors of the file system other than a full quota.
* *RelayWorker.* Deadlines are Booleans that turn true at any time; how long a
  backoff lasts and the count of failures behind it are not modelled. `unseen`
  stands for `sync_epoch != known_sync_epoch`. Closing several sessions is one
  step. The state names a lease records for the log are left out, and so is the
  test of the attempt number in `transition`, which changes nothing else. One
  identity. An empty list of endpoints is left out, since `normalize_settings`
  replaces it by the default; so is `AETHOS_E2E_DISABLE_RELAY`.
* *Inbox.* An upset is a message accepted twice or a history overwritten by an
  old copy of itself. Before one, a message is shown once per body and gone once
  removed; after one, all that is left is that the history shows accepted messages
  and no body twice. The mapping takes the store for what is accepted, the chat
  file for the history, and the faults `overlap` and `double_report` for an upset.
* *Exchange.* An item appears at its author or comes from another network, and from
  there only moves from a node that holds it, and at which it does not end, to
  another; no store gives anything up. `LanEncounter` maps its stores as they are;
  `RelayRound` maps the node's and the relay's, of which the relay's takes part
  since an upload is a step of the node's code as well.
* *EncounterScheduler.* The components of a score are integer millionths, as in
  the code, except that the logarithm of the size term is taken at whole powers of
  two. An item id is a number. Errors of the validation are its truth value.
* *RelayRound.* The relay is no part of the repository: it answers an inventory
  with its own and a REQUEST, a REQUEST with a TRANSFER, a TRANSFER with a RECEIPT.
  The socket has no read timeout (`client.rs:1161`), so a read ends only with a
  frame or with the connection, and a passed deadline shows between two frames
  (`WaitsLong`, `Overruns`). A ping or a pong ends a round (`client.rs:1244`), so
  the heartbeat that is sent before a round ends it before it has read anything
  and the polls that follow do its work. A heartbeat is not due before the answer
  to the last one, 20 seconds ago, has been read. `MaxUnread` bounds the frames
  under way when more are asked for. Items do not expire. What a round names is cut
  as in the code: `First` of the fixed order (`Ahead`: hops, size, the younger
  first, id), 64 for the preview after the filter and 256 for the offer before it;
  the relay may ask for nothing else. Bloom filters are sets here too, but the
  node's own is only looked at by the relay, which goes by what is named. The
  relay says its summary always before or always after its offer (`offersFirst`).
* *MediaRepair.* A request is a new envelope each time, since it holds the time; a
  chunk is always the same one. So an envelope of a chunk that was imported and
  not kept is *spent*: it is no new message ever again. Gossip may bring any
  published envelope and is relied upon for the manifest only. `Ripen` has the one
  assumption on time: the 1.2 seconds between two requests are enough for a request
  to find the gate open and for its answers to be flushed (64 answers, 4 in a pass
  of the loop, 30 ms an idle pass), or it is a fault. The answer ceiling (64) is
  below the target of a request (128): what is beyond is asked for again by the
  next one, as the cursor comes round; whether the dedup window of 8 seconds can
  keep the same chunks out of it depends on times the model does not have, and it has
  the two equal: with a lower ceiling `ChunksArrive` fails when the window ends
  before each request, while in the code several requests fit into it. The cap on
  the number of ranges never cuts with the constants of the code.

## Runs

All bounds are constants in the `.cfg` files.

| Run | Shows | Bounds, and why they are enough |
|---|---|---|
| `GossipStore` | `ItemIdIsDigest`, `EachReportsOnce`, `OnlyExpiredRowsGo`, `RetainedRowsOnlyGain`, `AcceptedIsHeld`, `ExpiredLeaves` | two threads that each import, record and prune, so that a look-up of one falls between the look-up and the insert of the other; two items, one in copies at two distances, with two lifetimes and recorded with two expiries, a malformed object; time to 2 with expiries 2 and 3 and a skew of 1, so that pruning meets a row before, at and after its expiry, and a row that was dropped is imported anew |
| `ChatDelivery_imports` | `OneCopyPerBody`, `StoredIsShown`, `Refines` | the two importing threads, two envelopes of one body, the window |
| `ChatDelivery_window` | `ShownWasStored`, `LossHasCause` | one thread of each kind, a ping with its pong, a sent message with its draft |
| `LegacyMigration` | `MarkedIsImported`, `LegacyStaysInReach`, `ImportedOnce`, `FilesAreKept` | two items, all combinations of files, any number of stops |
| `LanEncounter_budget` | `EndsAtTarget`, `RoundsBounded`, `RefinesExchange` | two nodes, an item at each and more added, one fault, two rounds, two bytes and a streak of two, so that each limit is hit |
| `LanEncounter_converge` | `Converges`, `Quiet` | both items at one node; a preview of one and chunks of one, so that several rounds and several chunks are needed; one fault of any kind |
| `MediaTransfer` | `StoredIsWhole`, `CompleteWasStored`, `FailureHasCause`, `OutcomeIsFinal`, `WholeIsFinished`, `ExpiredIsShown` | one thread; a transfer of two chunks, of which one also comes damaged, and a forged one of the same object; two strikes instead of three; a spool of two chunks, so that three do not fit; one crash anywhere. What holds with contention is proved below |
| `RelayWorker` | `OneSessionPerRelay`, `NoLeaseIsLeaked`, `SlotIsItsRelay`, `OffMeansClosed`, `EveryRelayHasItsTurn` | two lists of two relays, two spellings of one relay, a diagnostics command, a request in the channel and one before it, three attempt numbers (never more than three leases at once) |
| `RelayWorker_panic` | `WorkerSurvives` is violated | one list |
| `RelayRound` | `NoneOverlooked`, `UploadArrives`, `OfferArrives`, `Settles`, `RoundEnds`, `RefinesExchange` | a message for the node that reaches the relay later, one of the user that comes first in the node's order, one that it displaces from what a round names, and one for the node itself, which only a node without its identity names; a preview, an offer of the node, a window of the relay's offer and a TRANSFER of one item and a want of two, so that the window has to move and requests are repeated; both transports, both orders of summary and offer; two days; one fault |
| `MediaRepair` | `ManifestIsBacked`, `ChunksArrive`, `CursorComesRound` | three chunks, two published at once, two in a request, a queue of two flushed one by one, so that a request never covers everything, the cursor goes round and the queue drops its oldest; one fault |
| `MediaRepair_orphan` | `MissingIsFetched` is violated | as above without any fault |

The type invariant `TypeOK` of every module that models code with a state is proved for
every value of the constants, and no run repeats it.

The window of `RELAY_INGEST` (`IngestMax`, 256 in the code) holds all items in
the LAN runs. With a window smaller than the store `Converges` fails as well:
the order of the window is fixed, and what lies beyond is only offered by the
preview of a summary.

### Disagreements found

1. `WorkerSurvives`: relay sync off and on with the same relays, and the next
   successful connect panics the relay thread for good (`main.rs:2260`,
   `main.rs:2284`, `main.rs:2474`).
2. `MissingIsFetched`: a chunk that arrives before its manifest is never kept, and
   never comes again as news (`media_v1.rs:1036`, `media_v1.rs:2809`,
   `gossip_sync.rs:1254`), so that the transfer stays incomplete.

### Observations that are no disagreement

Most of these show when a model is asked for more than its run asks.

* *Lost updates of the chat file.* Writers load, change and save it whole without a
  lock (`main.rs:1619`, `main.rs:2636`, `saveChat`): the later save erases what the
  earlier one added, and the item does not come again, since the store has it.
  `LossHasCause` names this cause (`overlap`) and fails in `ChatDelivery_window`
  as soon as it does not.
* *Messages above 1024 bytes on the LAN.* They never fit a UDP chunk
  (`main.rs:105`, `main.rs:3986`) and block what is ranked after them; the TCP
  encounter that could carry them is off by default. With `Size <- XTooLarge`
  `Converges` fails in `LanEncounter_converge`.
* *A failed relay that is not retried.* The periodic sync is what looks for relays
  that are due, and every poll that brings something on another relay puts it off
  (`main.rs:2428`). With the constants of `RelayWorker_panic` the property
  `RelayIsRetried`, stated in `RelayWorker` for this, fails.
* *A silent relay.* Nothing interrupts a read, so a relay that keeps the connection
  and says nothing holds the one relay thread, and with it all other relays.
  `RoundEnds`, `UploadArrives` and `OfferArrives` except a node that waits for ever
  (`<>[]Waits`), and each fails in `RelayRound` without that.
* *Uploads beyond the caps.* The preview and the offer of a round take the first of
  one fixed order, so an item that 256 others stay ahead of is never named, and a
  relay that only asks for what it is told of never gets it. `UploadArrives`
  promises what a round names, and fails when it promises all that is stored.
* *Own items named.* A node that cannot read its identity while it builds an
  inventory names what is addressed to itself (above).
* *Windows in step.* A RELAY_INGEST moves the window each time it is read. A relay
  that announced itself without bound, or changed the order of summary and offer
  from round to round, could have the window of one item always be read without a
  summary at hand, and `OfferArrives` would fail.
* *The lifetime of a copy.* An import accepts an item it knows and leaves its row as
  it is (`gossip_sync.rs:1251`, `gossip_store_sqlite.rs:479`), while a local record
  extends the row's expiry: a copy that would live longer is acknowledged, and the
  item is gone when the first copy's time is over. So `AcceptedIsHeld` excepts an
  item of which the row that was looked up, or found at the insert, has run out;
  `GossipStore` has copies with two lifetimes to show it.
* *Messages lost with an error.* A round that ends in an error after
  `import_transfer_items` has committed loses the messages it had pulled, while one
  the relay closes hands them over: the set `failed` of `NoneOverlooked`.
* *Envelope and body bytes.* A TRANSFER is selected by bytes of bodies and
  validated by bytes of envelopes (`gossip_sync.rs:1443`); a selection that fills
  the budget may be refused each time.

What `MediaTransfer` excepts by `contended` and `torn` are outcomes the code
allows and no document rules out. Two threads on one transfer can undo its
outcome, since each writes the `state.json` it read, and a chunk that comes on
two bearers at once can fail it: the second finds the file the first has created
and not yet filled. `.active.lock` keeps the pulse and the sweep away and
excludes nobody from assembling. A crash between the creation of a chunk file and
its contents fails the transfer at the next recovery. A lock file that a crash
left is never removed by itself; only `expire_chat_media_messages`, which does not
look at it, finishes the transfer. A transfer found expired by the chunk handler
keeps its chunks on disk.

### Fairness, and why the code justifies it

* `GossipStore`: a thread that imports finishes its call (weak fairness of
  `Proceed`: the store mutex is held for one transaction at a time). Pruning has
  strong fairness, since each worker reads the store over and over, but between
  its turns other callers hold the mutex.
* `ChatDelivery`: each thread finishes the operation it began. Nobody is obliged
  to begin one.
* `LanEncounter`: a worker broadcasts again and again (the loop sends a HELLO
  every few seconds; strong, because the bound on datagrams in flight disables
  it at times), handles what arrives, ends what it serves, and timers run out.
  Losses are bounded by `MaxFaults`, so a frame sent often enough arrives.
* `MediaTransfer`: a thread finishes what it began (weak), and
  `expire_chat_media_messages` comes round to every transfer in the chat (strong,
  since a thread at work on something else disables it at times): housekeeping
  runs after frames, pulls and when the window polls the chat. Nobody is obliged
  to send a chunk.
* `RelayWorker`: the worker takes its steps, the identity file can be read now and
  then, deadlines come, and calls of the diagnostics return. This assumes of the
  relay that it sends something or that its connection breaks: a round waits in a
  read that has no timeout. Nothing obliges a user to ask for a sync or a relay to
  answer: connects and rounds may fail for ever.
* `RelayRound`: the worker comes back to rounds and to polls (strong, since each
  disables the other and the bound on frames disables a round), connects and reads
  what has arrived, and time passes while it waits (`WaitsLong`, strong, since a
  frame may come first). Nothing is assumed of the relay but that it answers: it may
  ping or greet a node that waits as often as it likes or never.
  Errors, lost connections, unreadable identities, passed deadlines, announcements
  and frames sent to a node that is not waiting are bounded by `MaxFaults`.
* `MediaRepair`: the pulse of the gossip worker, its flush and its timers run,
  requests are handled, and gossip brings the manifest. Nobody is obliged to send a
  transfer, and gossip need not bring a chunk. Losses, late answers, refusals and
  stops are bounded by `MaxFaults`.

## Theorems

| Module | Proved for every value of the constants | Inductive invariant |
|---|---|---|
| `GossipStore_proofs` | `TypeCorrect`, `StoredUnderDigest`, `PruneIsSafe`, `RetentionIsMonotone`, `AcknowledgedIsHeld`, `ReportedOnceByEach` | type; a clock that was read is not in the future; what is stored, looked up or queued lies under its digest; what is reported as new has a row; what an importer has reported it finds at its look-up and does not queue; an item an import has found known is in the store or its row has run out; a recording caller has its argument; a queue was filled after a look-up |
| `ChatDelivery_proofs` | `TypeCorrect`, `ShownWasAccepted`, `BodiesShowOnce`, `LossesHaveCauses`, `ReturnsHaveCauses`, and `ImplementsInbox`: it implements `Inbox` | which phases a thread of each kind goes through; what any file, copy or thread has is in the store; no body twice; what a thread adds is new to every file, copy and other thread; a copy that is not stale is the file and what the thread changes; what a thread would drop it has added or found there |
| `LegacyMigration_proofs` | `TypeCorrect`, `MarkerIsHonest`, `NoRecordIsLost`, `MigratesOnce`, `NoFileIsLost` | what each step of the migration has already done |
| `LanEncounter_proofs` | `TypeCorrect`, `NoneSentOn`, `BudgetIsKept`, `QuietLasts`, and `ImplementsExchange` | what a TRANSFER in flight carries its sender holds; whatever is in a frame, remembered from a summary, asked for or being served at a node is something its source may forward: a node's own items only those in `exposed` |
| `MediaTransfer_proofs` | `TypeCorrect`, `NeverSpoilt`, `CompleteMeansStored`, `FailuresHaveCauses`, `OutcomesAreFinal` | whatever is taken for complete, in a copy or a file, has been in the store, and what is about to be published has its digest; on a transfer two threads have not met on, a thread's copy agrees with `state.json`, an empty file is being filled, and the chunks under assembly are there |
| `RelayWorker_proofs` | `TypeCorrect`, `OneSession`, `NoLeak`, `SlotsMatch`, `RoundRobin` | a lease lives in one place and is the registered attempt of its key; every registered attempt lives somewhere; a session is being opened exactly while the worker connects; between a probe and its encounter a diagnostics command holds nothing |
| `RelayRound_proofs` | `RankIsTotalThm`, `SelectedIsPrefixThm`, `SelectionFitsThm` and `AnswerIsWithinLimitsThm` of the scheduler; `TypeCorrect`, `EveryOfferComesUp`, `SettledStays`, `ImplementsExchange`; `NoMessageOverlooked`, if the user sends no message addressed to this node | none for the scheduler, which has no state: its ranking compares keys; for the messages, `NoneOverlooked` and that what was stored at first stays; for the exchange, that an unread TRANSFER carries what the relay holds and an unread REQUEST asks for no message to this node but those in `exposed` |
| `MediaRepair_proofs` | `TypeCorrect`, `ManifestHasItsBytes`, `NoChunkIsPassedOver` | where the send stands: until the bytes are written the manifest is in neither store, and then they stay; that a request is only made while a chunk is missing (`Listing`) |

`ItemIdIsDigest` alone is not inductive: an importer carries rows it looked up
or queued from one transaction to the next, so the invariant speaks of them too.
`EndsAtTarget` speaks of TRANSFER frames, but what is sent was selected from a
request, which came from a summary, so the invariant follows an item along that
way. `OneSessionPerRelay` needs the converse of `NoLeaseIsLeaked`: a lease that is
held is the one the registry names, so a second holder would have found the key
busy. The proof treats the leases as one function from places to leases and has a
lemma for each thing that happens to it: a lease is acquired, dropped, or moved
to its slot. It does not use that attempt numbers are unique: the test of the
number in `Drop` can never fail.

`NeverSpoilt` and `CompleteMeansStored` need nothing about contention: they hold
because the digest is taken of the bytes that are renamed. `OutcomesAreFinal` does:
its proof describes what any step of a thread owes to the one transfer it
concerns (`Acts`, `Owes`), shows once that a step that pays keeps the invariant and
the outcomes (`ActsKeep`), and then treats the actions one by one.

`ImplementsInbox` rests on three parts of its invariant. A step that saves is a
step of `Inbox` only if the copy differs from the file by what the thread adds or
removes, unless an overlap was noted (`Current`); that what it adds was not removed
needs that nobody else has it (`Fresh`); and `StoredIsShown` and `LossHasCause`
need that nothing falls out between the store and the file (`Traced`). The proof has
one lemma for the effect of each action on files, copies and stale marks, and one
for each part of the invariant.

`ImplementsExchange` rests, in both modules, on stores that only grow: a frame is
read long after it was written, in another round, after a restart or twice, and what
it carries must still be in its sender's store. For the node's own answers that is
what `Objects` and `Chunk` look up when they answer; for what travels it is the
invariant `SentIsHeld`, or `InTransit`. It also needs `EndsAtTarget`, in
`RelayRound` because what the relay asks for is taken from what was named.

`EveryOfferComesUp` is about numbers: the windows start at a seed and move by
their own length, so that among as many rounds as there are items one starts less
than a length before any given place (`StepsReach`, by division and not by
induction). That the cycle is a multiple of every number of items is the
assumption on `Cycle` that stands for the 64-bit counter of the code, which never
comes round.

`NoChunkIsPassedOver` numbers the missing chunks by their distance from the cursor
(`PlacesAreTaken`): a request takes the first of them and the cursor goes to what
follows the last it took, so a chunk that is not among them has come nearer.

`RoundRobin` is the part of `EveryRelayHasItsTurn` without fairness
(`NoRelayIsPassedOver`): the turn of a slot is its distance from the cursor around the
list, the selected one is the nearest that is due, and the cursor goes behind it.

`SelectionFitsThm` goes by the last item of a selection: everything selected ranks
at or before it, and the test that let it in was of their total.

`SettledStays` and `QuietLasts` are what is safe about `Settles` and `Quiet`: that the
silence is reached needs fairness and stays with TLC, that it is not broken again
does not. `SettledStays` allows what was `exposed` to go on being asked for.

Assumptions on constants are the named `ASSUME`s of the modules; TLC evaluates
them in every run.

Only model-checked: all liveness (`ExpiredLeaves`, `StoredIsShown`, `Converges`, `Quiet`, `WholeIsFinished`, `ExpiredIsShown`,
`OffMeansClosed`, `EveryRelayHasItsTurn`, `UploadArrives`, `OfferArrives`, `Settles`,
`RoundEnds`, `ChunksArrive`), which the prover cannot treat under fairness. Not
proved either is that the bytes of an answer keep to their limit: `SelectionFitsThm`
has it for the sizes the scheduler is given, which are at least one byte each.

## Not modelled

* The LAN TCP encounter (`main.rs:3584`): off by default, and nothing connects to the
  side that is always listening unless it is set. Read with the frames at hand, the
  side that wants nothing more closes before it has read what the other sends.
* `RelaySessionManager` and `RelayRequestDispatcher`: called by their own tests only.
* Encounter orchestration and BLE discovery: what they decide reaches only the
  advertisement and an activity log.
* Rotation of the identity under open sessions, and the memory of routes and the
  mirror budget of the fastlane: each would double the keys of a model whose
  instance is near the limit of what can be checked.
* The diagnostics command as an importer: it keeps a count of what it pulled, which
  for the chat is the error after an import that `ChatDelivery` has.
* `GossipStore` as the store of `ChatDelivery` and `RelayRound`: each has the two
  transactions it needs; the product is too large to check, and the store's
  theorems hold for any number of callers.
* Codecs and cryptography (no control of their own), the window's rendering, texts,
  logging, settings other than those of relays, contacts, the command-line tools,
  the end-to-end harness and CI.
