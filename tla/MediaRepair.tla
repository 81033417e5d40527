---- MODULE MediaRepair ----
(***************************************************************************)
(* One media transfer between its sender and its receiver: the sender      *)
(* publishes a manifest and the first chunks, the receiver asks for what   *)
(* it is missing, and the answers travel on the media-control fastlane     *)
(* (media_v1.rs, and flush_media_control_fastlane of main.rs).             *)
(*                                                                         *)
(* Manifest, chunks and requests are envelopes of the gossip store.  Every *)
(* request is a new envelope, since it holds the time; a chunk is always   *)
(* the same one, so that a store that has it reports no new message when   *)
(* it comes again (import_transfer_items).                                 *)
(*                                                                         *)
(* Gossip may carry any published envelope at any time and is relied upon  *)
(* for the manifest alone: the rest is for requests and answers to bring.  *)
(* A chunk handler is one step; MediaTransfer has its parts.               *)
(***************************************************************************)
EXTENDS Integers, FiniteSets, Sequences, Functions

CONSTANTS
  ChunkCount,  \* chunk_count of the manifest
  Initial,     \* INITIAL_OUTBOUND_CHUNK_CEILING
  Target,      \* MISSING_REQUEST_CHUNK_TARGET
  Ceiling,     \* missing_response_chunk_ceiling
  QueueMax,    \* media_control_fastlane_queue_max
  FlushMax,    \* lan_media_control_fastlane_max_items
  MaxFaults,   \* bound on losses, delays, refusals and crashes
  Manifest     \* the envelope of the manifest

ASSUME RepairConstants ==
  /\ ChunkCount \in Nat \ {0}
  /\ Initial \in Nat /\ Target \in Nat \ {0} /\ Ceiling \in Nat \ {0}
  /\ QueueMax \in Nat \ {0} /\ FlushMax \in Nat \ {0} /\ MaxFaults \in Nat
  /\ Manifest \notin Nat

Chunks == 0 .. ChunkCount - 1
Items == Chunks \cup {Manifest}
\* MediaMissingMessage: the ranges begin at a chunk and go round.
Request == [from : Chunks, wants : SUBSET Chunks]

VARIABLES
  capable,    \* whether the receiver's capabilities are known to the sender
  sending,    \* where send_media_manifest_and_chunks is
  next,       \* the chunk it records next
  outbound,   \* the sender's files: none, state.json alone, or the source too
  published,  \* the transfer's envelopes in the sender's gossip store
  recent,     \* chunks noted as sent within the dedup window
  gate,       \* missing_request_interval_ok would accept a request
  queue,      \* the sender's fastlane queue
  seen,       \* the transfer's envelopes in the receiver's gossip store
  carried,    \* new messages the receiver has imported and not handled
  listed,     \* the receiver's state.json
  kept,       \* chunks the receiver has files of
  cursor,     \* missing_request_cursor_tracker
  due,        \* missing_min_interval_ms has passed since last_missing_unix_ms
  requests,   \* requests on their way to the sender
  expired,    \* expires_at_unix_ms has passed
  faults      \* number of faults so far

sender == <<capable, sending, next, outbound, published, recent, gate, queue>>
receiver == <<seen, carried, listed, kept, cursor, due>>
vars == <<sender, receiver, requests, expired, faults>>

Stages == {"ready", "source", "manifest", "chunks", "done", "failed"}

Init ==
  /\ capable = "unknown" /\ sending = "ready" /\ next = 0 /\ outbound = "none"
  /\ published = {} /\ recent = {} /\ gate = TRUE /\ queue = <<>>
  /\ seen = {} /\ carried = {} /\ listed = "none" /\ kept = {}
  /\ cursor = 0 /\ due = TRUE
  /\ requests = {} /\ expired = FALSE /\ faults = 0

Fault == faults < MaxFaults /\ faults' = faults + 1

-----------------------------------------------------------------------------
(* send_media_manifest_and_chunks.                                         *)

\* maybe_queue_capabilities_for_peer, when the receiver adds the contact.
Announce ==
  /\ capable = "unknown"
  /\ capable' = "announced"
  /\ UNCHANGED <<sending, next, outbound, published, recent, gate, queue, receiver, requests,
                 expired, faults>>

\* The message is handled.
Learn ==
  /\ capable = "announced"
  /\ capable' = "known"
  /\ UNCHANGED <<sending, next, outbound, published, recent, gate, queue, receiver, requests,
                 expired, faults>>

Stage(s) ==
  /\ sending' = s
  /\ UNCHANGED <<capable, recent, gate, queue, receiver, requests, expired, faults>>

\* The checks have passed, and persist_outbound_state has written state.json.
Send ==
  /\ sending = "ready" /\ capable = "known"
  /\ outbound' = "state"
  /\ Stage("source")
  /\ UNCHANGED <<next, published>>

\* persist_outbound_state: the bytes of the object.
WriteSource ==
  /\ sending = "source"
  /\ outbound' = "whole"
  /\ Stage("manifest")
  /\ UNCHANGED <<next, published>>

\* Mutant: the manifest is recorded before the bytes are written.
PublishManifest_Early ==
  /\ sending \in {"source", "manifest"} /\ ~expired
  /\ published' = published \cup {Manifest}
  /\ Stage(IF sending = "manifest" THEN "chunks" ELSE "source")
  /\ UNCHANGED <<next, outbound>>

PublishManifest ==
  /\ sending = "manifest" /\ ~expired
  /\ published' = published \cup {Manifest}
  /\ Stage("chunks")
  /\ UNCHANGED <<next, outbound>>

\* The chunks published at once; the rest is published when it is asked for.
First == IF Initial < ChunkCount THEN Initial ELSE ChunkCount

PublishChunk ==
  /\ sending = "chunks" /\ next < First /\ ~expired
  /\ published' = published \cup {next}
  /\ next' = next + 1
  /\ Stage("chunks")
  /\ UNCHANGED outbound

Sent ==
  /\ sending = "chunks" /\ next = First
  /\ Stage("done")
  /\ UNCHANGED <<next, outbound, published>>

\* The rate limit, or the store: an error, and what was published stays.
SendFails ==
  /\ \/ sending = "manifest"
     \/ sending = "chunks" /\ next < First
  /\ Stage("failed")
  /\ UNCHANGED <<next, outbound, published>>

-----------------------------------------------------------------------------
(* The receiver asks: send_missing_request_if_due.                         *)

\* How far a chunk is from where a request begins.
Away(c, from) == (c + ChunkCount - from) % ChunkCount

\* The chunks of a set that come before the n-th, counted from a place.
FirstOf(n, S, from) ==
  {c \in S : Cardinality({d \in S : Away(d, from) < Away(c, from)}) < n}

\* Mutant: the next request begins one chunk too far on.
After_Skips(S, from) ==
  (2 + CHOOSE c \in S : \A d \in S : Away(d, from) <= Away(c, from)) % ChunkCount

\* Mutant: every request begins where the last one did.
After_Stays(S, from) == from

\* next_cursor: the chunk after the last selected.
After(S, from) ==
  (1 + CHOOSE c \in S : \A d \in S : Away(d, from) <= Away(c, from)) % ChunkCount

\* The ranges of a request, from the cursor on.
Ranges(wants) == [from |-> cursor, wants |-> wants]

\* compute_missing_plan advances the cursor before the request can fail.
RequestIfDue(missing) ==
  LET wants == FirstOf(Target, missing, cursor)
  IN  \/ /\ due
         /\ cursor' = After(wants, cursor)
         /\ \/ /\ requests' = requests \cup {Ranges(wants)}
               /\ due' = FALSE
               /\ UNCHANGED faults
            \/ Fault /\ UNCHANGED <<requests, due>>
      \/ ~due /\ UNCHANGED <<cursor, requests, due, faults>>

\* pulse_missing_requests_for_receiving_transfers
Pulse ==
  /\ listed = "receiving" /\ due /\ ~expired
  /\ RequestIfDue(Chunks \ kept)
  /\ UNCHANGED <<sender, seen, carried, listed, kept, expired>>

\* The interval has passed.  It is long enough, but for a fault, for a request
\* to come to an open gate and for the answers to be flushed.
Ripen ==
  /\ ~due
  /\ IF requests = {} /\ gate /\ queue = <<>> THEN UNCHANGED faults ELSE Fault
  /\ due' = TRUE
  /\ UNCHANGED <<sender, seen, carried, listed, kept, cursor, requests, expired>>

-----------------------------------------------------------------------------
(* The sender answers: process_incoming_media_message, a Missing message.  *)

\* The dedup window of a chunk ends.
Forget(c) ==
  /\ c \in recent
  /\ recent' = recent \ {c}
  /\ UNCHANGED <<capable, sending, next, outbound, published, gate, queue, receiver, requests,
                 expired, faults>>

Reopen ==
  /\ ~gate
  /\ gate' = TRUE
  /\ UNCHANGED <<capable, sending, next, outbound, published, recent, queue, receiver, requests,
                 expired, faults>>

\* A set of chunks in the order of a request.
InOrder(S, from) ==
  [i \in 1 .. Cardinality(S) |->
     CHOOSE c \in S : Cardinality({d \in S : Away(d, from) < Away(c, from)}) = i - 1]

\* queue_pending_media_control_unicast: the oldest makes room.
Latest(q) == IF Len(q) <= QueueMax THEN q ELSE SubSeq(q, Len(q) - QueueMax + 1, Len(q))

\* The interval gate: the request is used up.
Ignore(r) ==
  /\ r \in requests /\ ~gate
  /\ requests' = requests \ {r}
  /\ UNCHANGED <<sender, receiver, expired, faults>>

\* What a request is answered with: up to the ceiling, and nothing twice
\* within the dedup window.
Answers(r) ==
  IF expired \/ outbound # "whole" THEN {} ELSE FirstOf(Ceiling, r.wants \ recent, r.from)

\* queue_chunk_message_fastlane: in the store, and in the queue.
Queue(sent, from) ==
  /\ published' = published \cup sent
  /\ queue' = Latest(queue \o InOrder(sent, from))

\* The answers are queued and noted; what the store refuses is left out.
Serve(r, sent) ==
  /\ r \in requests /\ gate
  /\ sent \subseteq Answers(r)
  /\ IF sent = Answers(r) THEN UNCHANGED faults ELSE Fault
  /\ requests' = requests \ {r}
  /\ gate' = FALSE
  /\ Queue(sent, r.from)
  /\ recent' = recent \cup sent
  /\ UNCHANGED <<capable, sending, next, outbound, receiver, expired>>

\* A request is lost on the fastlane, and gossip does not bring it.
LoseRequest(r) ==
  /\ r \in requests
  /\ Fault
  /\ requests' = requests \ {r}
  /\ UNCHANGED <<sender, receiver, expired>>

-----------------------------------------------------------------------------
(* The receiver takes in what comes.                                       *)

\* import_transfer_items: what is not in the store is stored and carried on,
\* by one thread that handles it before it reads the next frame.
Import(S) ==
  /\ carried = {}
  /\ seen' = seen \cup S
  /\ carried' = S \ seen
  /\ UNCHANGED <<listed, kept, cursor, due>>

\* A TRANSFER of gossip.
Gossip(S) ==
  /\ S \subseteq published \ seen /\ S # {} /\ ~expired
  /\ Import(S)
  /\ UNCHANGED <<sender, requests, expired, faults>>

Drained == SubSeq(queue, 1, IF Len(queue) <= FlushMax THEN Len(queue) ELSE FlushMax)

\* What arrives of it.  A datagram may be lost, and what a stream has taken is
\* not sent again as a datagram when the other side does not read it.
Bring(got) ==
  /\ got \subseteq Range(Drained)
  /\ IF got = Range(Drained) THEN UNCHANGED faults ELSE Fault
  /\ IF expired THEN UNCHANGED receiver ELSE Import(got)

\* flush_media_control_fastlane: without a route, all of it is lost.
Flush(got) ==
  /\ queue # <<>>
  /\ queue' = SubSeq(queue, Len(Drained) + 1, Len(queue))
  /\ Bring(got)
  /\ UNCHANGED <<capable, sending, next, outbound, published, recent, gate, requests, expired>>

Handled(i) == carried' = carried \ {i}

\* A manifest starts the transfer, and the first request.
HandleManifest ==
  /\ Manifest \in carried /\ ~expired
  /\ Handled(Manifest)
  /\ listed' = "receiving"
  /\ RequestIfDue(Chunks)
  /\ UNCHANGED <<sender, seen, kept, expired>>

\* A chunk of a transfer that is not known: store_orphan_chunk keeps its
\* number and size and not its bytes.  A chunk of a complete one: nothing.
PassChunk(c) ==
  /\ c \in carried /\ listed # "receiving"
  /\ Handled(c)
  /\ UNCHANGED <<sender, seen, listed, kept, cursor, due, requests, expired, faults>>

\* A chunk of the transfer, and another request if there is more to ask for.
KeepChunk(c) ==
  LET missing == Chunks \ (kept \cup {c})
  IN  /\ c \in carried /\ listed = "receiving" /\ ~expired
      /\ Handled(c)
      /\ kept' = kept \cup {c}
      /\ IF missing = {}
         THEN listed' = "complete" /\ UNCHANGED <<cursor, due, requests, faults>>
         ELSE RequestIfDue(missing) /\ UNCHANGED listed
      /\ UNCHANGED <<sender, seen, expired>>

\* The quota, or a file that cannot be written: the handler returns an error.
RefuseChunk(c) ==
  /\ c \in carried /\ listed = "receiving"
  /\ Fault
  /\ Handled(c)
  /\ UNCHANGED <<sender, seen, listed, kept, cursor, due, requests, expired>>

-----------------------------------------------------------------------------
(* Time and crashes.                                                       *)

Expire ==
  /\ ~expired /\ Manifest \in published
  /\ expired' = TRUE
  /\ UNCHANGED <<sender, receiver, requests, faults>>

\* Files and stores stay; trackers, queue and the send do not.
SenderStops ==
  /\ Fault
  /\ sending' = IF sending \in {"ready", "done"} THEN sending ELSE "failed"
  /\ recent' = {} /\ gate' = TRUE /\ queue' = <<>>
  /\ UNCHANGED <<capable, next, outbound, published, receiver, requests, expired>>

ReceiverStops ==
  /\ Fault
  /\ carried' = {} /\ cursor' = 0
  /\ UNCHANGED <<sender, seen, listed, kept, due, requests, expired>>

Next ==
  \/ Announce \/ Learn
  \/ Send \/ WriteSource \/ PublishManifest \/ PublishChunk \/ Sent \/ SendFails
  \/ Pulse \/ Ripen \/ Reopen
  \/ \E c \in Chunks : Forget(c) \/ PassChunk(c) \/ KeepChunk(c) \/ RefuseChunk(c)
  \/ \E r \in Request : Ignore(r) \/ LoseRequest(r) \/ \E sent \in SUBSET Chunks : Serve(r, sent)
  \/ \E S \in SUBSET Items : Gossip(S)
  \/ \E got \in SUBSET Chunks : Flush(got)
  \/ HandleManifest \/ Expire \/ SenderStops \/ ReceiverStops

Spec == Init /\ [][Next]_vars

\* The worker threads run, timers end, requests are answered and queues are
\* flushed; gossip brings the manifest.
FairSpec ==
  /\ Spec
  /\ WF_vars(Pulse) /\ WF_vars(Ripen) /\ WF_vars(Reopen)
  /\ WF_vars(\E r \in Request : Serve(r, Answers(r)) \/ Ignore(r))
  /\ WF_vars(\E got \in SUBSET Chunks : Flush(got))
  /\ WF_vars(Gossip({Manifest})) /\ WF_vars(HandleManifest)
  /\ \A c \in Chunks : WF_vars(Forget(c)) /\ WF_vars(PassChunk(c) \/ KeepChunk(c))

-----------------------------------------------------------------------------
(* Properties.                                                             *)

\* The state of the two ends has its type, the cursor is the number of a
\* chunk, and the queue keeps to its size.
TypeOK ==
  /\ gate \in BOOLEAN /\ due \in BOOLEAN /\ expired \in BOOLEAN
  /\ capable \in {"unknown", "announced", "known"}
  /\ sending \in Stages /\ next \in 0 .. First
  /\ outbound \in {"none", "state", "whole"}
  /\ published \subseteq Items /\ seen \subseteq Items /\ carried \subseteq Items
  /\ recent \subseteq Chunks /\ kept \subseteq Chunks
  /\ queue \in Seq(Chunks) /\ Len(queue) <= QueueMax
  /\ listed \in {"none", "receiving", "complete"}
  /\ cursor \in Chunks
  /\ requests \subseteq Request
  /\ faults \in 0 .. MaxFaults

\* Whoever has the manifest can be served: the bytes of the object are on the
\* sender's disk before the manifest is in its store, wherever it stops
\* (persist_outbound_state comes before gossip_record_local_payload).
ManifestIsBacked == Manifest \in published \cup seen => outbound = "whole"

\* Every request asks for a missing chunk or leaves the cursor nearer to it, so
\* that no chunk is passed over however many others stay missing, and though
\* the cursor moves when the request fails; only a stop sets the cursor back
\* (compute_missing_plan, commit before send_missing_request_if_due can fail).
CursorComesRound ==
  [][\/ ReceiverStops
     \/ UNCHANGED cursor /\ requests' \subseteq requests
     \/ \A c \in Chunks \ kept' : \/ c \in FirstOf(Target, Chunks \ kept', cursor)
                                  \/ Away(c, cursor') < Away(c, cursor)]_<<cursor, requests>>

\* Chunks whose envelope the receiver has taken in without keeping the chunk.
Spent == (Chunks \cap seen) \ (kept \cup carried)

\* Every chunk of a transfer that has been listed is got, asked for round by
\* round, through losses, delays, refusals and stops, unless its envelope has
\* been spent or the transfer expires; chunks that are spent do not keep the
\* others from being asked for (compute_missing_plan's cursor).
ChunksArrive ==
  \A c \in Chunks : listed = "receiving" ~> (c \in kept \cup Spent \/ expired)

\* Missing chunks go on being fetched until the transfer is complete
\* (docs/file-transfer-roadmap.md:47).
MissingIsFetched == listed = "receiving" ~> (listed = "complete" \/ expired)
====
