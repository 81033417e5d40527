---- MODULE LanEncounter ----
(***************************************************************************)
(* Gossip between nodes of a local network over UDP: the loop of the       *)
(* gossip worker, handle_gossip_frame, drain_udp_peer_reconciliation_round *)
(* and serve_udp_transfer_for_request.                                     *)
(*                                                                         *)
(* Each node's worker is one thread.  It announces itself, answers a HELLO *)
(* with what it advertises, asks for what it misses, and serves what it is *)
(* asked for, datagram by datagram.  What it knows of a peer is in memory  *)
(* and in one encounter per peer, which is replaced by a new one when it   *)
(* has stopped.  Datagrams are lost, duplicated and reordered.             *)
(*                                                                         *)
(* A worker with gossip switched off takes no step.  Expiry is left to     *)
(* GossipStore, and the TCP encounter, which only an environment variable  *)
(* switches on, is not part of this module.  A RECEIPT has no effect on    *)
(* its receiver and is left out.                                           *)
(***************************************************************************)
EXTENDS Naturals, FiniteSets, FiniteSetsExt

CONSTANTS
  Nodes,
  Items,
  Target,       \* the node an item is addressed to, or something else: no node's,
                \* or an envelope that nobody can decode
  Stored,       \* the store each node starts with
  Origin,       \* where the user or the relay may add an item
  Order,        \* each node's order of advertising: hops, size, age
  Rank,         \* each node's order of sending, the encounter scheduler's
  Size,         \* bytes of an item's body
  PreviewMax,   \* MAX_SUMMARY_PREVIEW_ITEMS
  IngestMax,    \* the cap of a RELAY_INGEST frame
  ChunkItems,   \* LAN_FALLBACK_TRANSFER_MAX_ITEMS
  ChunkBytes,   \* LAN_FALLBACK_TRANSFER_MAX_BYTES
  ServeMax,     \* LAN_FALLBACK_MAX_CHUNKS_PER_REQUEST, counted in items
  MaxRounds,    \* LAN_ENCOUNTER_MAX_ROUNDS
  MaxImported,  \* LAN_ENCOUNTER_MAX_BYTES, counted in items
  MaxStreak,    \* LAN_ENCOUNTER_MAX_NO_PROGRESS_STREAK
  MaxInFlight,  \* bound on the datagrams in flight when a node broadcasts
  MaxFaults     \* bound on losses, duplications, failures and restarts

ASSUME LanConstants ==
  /\ IsFiniteSet(Items)
  /\ Stored \in [Nodes -> SUBSET Items]
  /\ Order \in [Nodes -> [Items -> Nat]]
  /\ Rank \in [Nodes -> [Items -> Nat]]
  /\ Size \in [Items -> Nat]
  /\ {PreviewMax, IngestMax, ChunkItems, ChunkBytes, ServeMax} \subseteq Nat
  /\ {MaxRounds, MaxImported, MaxStreak, MaxInFlight, MaxFaults} \subseteq Nat

VARIABLES
  have,     \* items in each node's store
  enc,      \* what each node's worker knows of each peer
  asked,    \* a node's last REQUEST to a peer, while it debounces another
  served,   \* a peer's last REQUEST a node served, while it ignores another
  serving,  \* the REQUEST a worker is in the middle of serving
  net,      \* datagrams in flight
  exposed,  \* own items a node named when it could not read its identity (history)
  faults    \* faults so far

workerVars == <<enc, asked, served, serving>>
vars == <<have, enc, asked, served, serving, net, exposed, faults>>

Frame(kind, n, p) == [kind |-> kind, from |-> n, to |-> p]
Summary == [held: SUBSET Items, preview: SUBSET Items]
NoSummary == [held |-> {}, preview |-> {}]

Hellos == [kind: {"HELLO"}, from: Nodes, to: Nodes]
Summaries == [kind: {"SUMMARY"}, from: Nodes, to: Nodes, summary: Summary]
Ingests == [kind: {"RELAY_INGEST"}, from: Nodes, to: Nodes, ids: SUBSET Items]
Requests == [kind: {"REQUEST"}, from: Nodes, to: Nodes, want: SUBSET Items]
Transfers == [kind: {"TRANSFER"}, from: Nodes, to: Nodes, objects: SUBSET Items]
Datagrams == Hellos \union Summaries \union Ingests \union Requests \union Transfers

\* GossipEncounterState and UdpPeerInteraction; latest is NoSummary while
\* latest_summary is None.  Nothing of an encounter that has stopped, or ran
\* out of time, is read again: it is Over.
Encounter == [active: BOOLEAN, latest: Summary, requested: SUBSET Items,
              accepted: SUBSET Items, rounds: Nat, imported: Nat, streak: Nat]
Fresh == [active |-> TRUE, latest |-> NoSummary, requested |-> {},
          accepted |-> {}, rounds |-> 0, imported |-> 0, streak |-> 0]
Over == [Fresh EXCEPT !.active = FALSE]

Serving == [to: Nodes, want: SUBSET Items, pending: SUBSET Items, sent: Nat]
Idle(n) == [to |-> n, want |-> {}, pending |-> {}, sent |-> 0]

\* What a worker keeps, and the frames it sends, have the shape the code gives
\* them; no counter of an encounter falls below zero.
TypeOK ==
  /\ have \in [Nodes -> SUBSET Items]
  /\ enc \in [Nodes -> [Nodes -> Encounter]]
  /\ asked \in [Nodes -> [Nodes -> SUBSET Items]]
  /\ served \in [Nodes -> [Nodes -> SUBSET Items]]
  /\ serving \in [Nodes -> Serving]
  /\ net \subseteq Datagrams
  /\ exposed \in [Nodes -> SUBSET Items]
  /\ faults \in Nat

Init ==
  /\ have = Stored
  /\ enc = [n \in Nodes |-> [p \in Nodes |-> Over]]
  /\ asked = [n \in Nodes |-> [p \in Nodes |-> {}]]
  /\ served = [n \in Nodes |-> [p \in Nodes |-> {}]]
  /\ serving = [n \in Nodes |-> Idle(n)]
  /\ net = {}
  /\ exposed = [n \in Nodes |-> {}]
  /\ faults = 0

----
(* What a node advertises, asks for and serves. *)

First(S, k, rank) == {i \in S : Cardinality({j \in S : rank[j] < rank[i]}) < k}

\* The answer to a HELLO reads the identity of the node three times: for the
\* summary's filter, for its preview and for the offer.
Reads == {"summary", "preview", "ingest"}

\* Mutant: a node advertises what is addressed to itself as well.
Advertised_Self(n, S, known) == S

\* filter_non_self_advertisable_item_ids: everything when the identity cannot be
\* read, and what cannot be decoded always.
Advertised(n, S, known) == {i \in S : known => Target[i] # n}

\* build_summary_frame; the bloom filter is taken for the set it encodes.
SummaryOf(n, p, known) ==
  [kind |-> "SUMMARY", from |-> n, to |-> p,
   summary |-> [held |-> Advertised(n, have[n], "summary" \in known),
                preview |-> First(Advertised(n, have[n], "preview" \in known),
                                  PreviewMax, Order[n])]]

\* build_relay_ingest_frame: cut to the cap first, filtered afterwards.
IngestOf(n, p, known) ==
  [kind |-> "RELAY_INGEST", from |-> n, to |-> p,
   ids |-> Advertised(n, First(have[n], IngestMax, Order[n]), "ingest" \in known)]

RequestOf(n, p, want) ==
  IF want = {} THEN {} ELSE {[kind |-> "REQUEST", from |-> n, to |-> p, want |-> want]}

\* The prefix of the scheduler's ranking that fits one datagram: it stops at
\* the first item that does not.
Chunk(n, pending) ==
  LET candidates == pending \intersect have[n]
      upTo(i) == {j \in candidates : Rank[n][j] <= Rank[n][i]}
  IN  {i \in candidates :
         /\ Cardinality(upTo(i)) <= ChunkItems
         /\ MapThenSumSet(LAMBDA j : Size[j], upTo(i)) <= ChunkBytes}

\* ensure_udp_peer_interaction.
Current(n, p) == IF enc[n][p].active THEN enc[n][p] ELSE Fresh

Exhausted_Bytes(e) == e.imported >= MaxImported  \* mutant: rounds are not limited

\* should_stop.
Exhausted(e) == e.imported >= MaxImported \/ e.rounds >= MaxRounds

\* Mutant: what is in the store already is asked for again.
Missing_Held(store, s, candidates) == (s.preview \union candidates) \intersect s.held

\* select_request_item_ids_from_summary: previewed or offered, in the filter,
\* and not in the store.
Missing(store, s, candidates) ==
  ((s.preview \union candidates) \intersect s.held) \ store

----
(* The network. *)

Fault == faults < MaxFaults /\ faults' = faults + 1

\* The worker of m's receiver takes m, once or again later, and sends.
Receive(m, sent) ==
  /\ serving[m.to] = Idle(m.to)
  /\ \/ net' = (net \ {m}) \union sent /\ UNCHANGED faults
     \/ Fault /\ net' = net \union sent

Lose(m) ==
  /\ Fault
  /\ net' = net \ {m}
  /\ UNCHANGED <<have, workerVars, exposed>>

----
(* The worker of node n. *)

\* gossip_broadcast_inventory.
Broadcast(n) ==
  /\ serving[n] = Idle(n)
  /\ Cardinality(net) < MaxInFlight
  /\ net' = net \union {Frame("HELLO", n, p) : p \in Nodes \ {n}}
  /\ UNCHANGED <<have, workerVars, faults, exposed>>

\* The summary a node kept of p is of before this HELLO.
Greeted(n, p) == enc' = [enc EXCEPT ![n][p] = [Current(n, p) EXCEPT !.latest = NoSummary]]

HandleHello(m, n, p) ==
  /\ m.kind = "HELLO"
  /\ Receive(m, {SummaryOf(n, p, Reads), IngestOf(n, p, Reads)})
  /\ Greeted(n, p)
  /\ UNCHANGED <<have, asked, served, serving, exposed>>

\* ensure_local_identity, which has just succeeded for this frame, fails for some
\* of the three reads.  It makes a difference to a node that holds own items.
HandleHelloBlind(m, n, p) ==
  /\ m.kind = "HELLO"
  /\ serving[n] = Idle(n)
  /\ Fault
  /\ \E i \in have[n] : Target[i] = n
  /\ \E known \in SUBSET Reads \ {Reads} :
       LET summary == SummaryOf(n, p, known)
           ingest == IngestOf(n, p, known)
           named == summary.summary.preview \union ingest.ids
       IN  /\ net' = (net \ {m}) \union {summary, ingest}
           /\ exposed' = [exposed EXCEPT ![n] = @ \union {i \in named : Target[i] = n}]
  /\ Greeted(n, p)
  /\ UNCHANGED <<have, asked, served, serving>>

\* drain_udp_peer_reconciliation_round on encounter e and summary s.
ToAsk(n, p, store, e, s) ==
  LET want == Missing(store, s, {}) \ e.requested
  IN  IF Exhausted(e) \/ want = asked[n][p] THEN {} ELSE want

AfterRound(n, p, store, e, s) ==
  LET want == Missing(store, s, {}) \ e.requested
      next == [e EXCEPT !.rounds = @ + 1]
  IN  IF Exhausted(e) \/ want = {} THEN Over
      ELSE IF want = asked[n][p] THEN [next EXCEPT !.streak = @ + 1]
      ELSE [next EXCEPT !.requested = @ \union want, !.streak = 0]

Remember(n, p, want) == asked' = IF want = {} THEN asked ELSE [asked EXCEPT ![n][p] = want]

HandleSummary(m, n, p) ==
  m.kind = "SUMMARY" /\
  LET e == [Current(n, p) EXCEPT !.latest = m.summary]
      want == ToAsk(n, p, have[n], e, m.summary)
  IN  /\ Receive(m, RequestOf(n, p, want))
      /\ enc' = [enc EXCEPT ![n][p] = AfterRound(n, p, have[n], e, m.summary)]
      /\ Remember(n, p, want)
      /\ UNCHANGED <<have, served, serving, exposed>>

\* With a summary at hand its preview is asked for too, even what this
\* encounter has asked for already.
HandleIngest(m, n, p) ==
  m.kind = "RELAY_INGEST" /\
  LET e == Current(n, p)
      candidates == (m.ids \ have[n]) \ e.requested
      want == IF e.latest = NoSummary THEN candidates ELSE Missing(have[n], e.latest, candidates)
      stops == candidates = {} \/ want = {} \/ Exhausted(e)
      again == want = asked[n][p]
  IN  /\ Receive(m, IF stops \/ again THEN {} ELSE RequestOf(n, p, want))
      /\ enc' = [enc EXCEPT ![n][p] =
           IF stops THEN Over
           ELSE IF again THEN e
           ELSE [e EXCEPT !.requested = @ \union want, !.rounds = @ + 1, !.streak = 0]]
      /\ Remember(n, p, IF stops THEN {} ELSE want)
      /\ UNCHANGED <<have, served, serving, exposed>>

\* A repeated REQUEST is ignored for a while.
HandleRequest(m, n, p) ==
  /\ m.kind = "REQUEST"
  /\ Receive(m, {})
  /\ serving' = IF m.want = served[n][p] THEN serving
                ELSE [serving EXCEPT ![n] =
                        [to |-> p, want |-> m.want, pending |-> m.want, sent |-> 0]]
  /\ UNCHANGED <<have, enc, asked, served, exposed>>

\* import_transfer_items: what is new is accepted; what is known may be
\* rejected for its hop count.
Imports(n, objects) == {accepted \in SUBSET objects : objects \ have[n] \subseteq accepted}

Counted(e, objects, accepted) ==
  [e EXCEPT !.accepted = @ \union accepted, !.imported = @ + Cardinality(objects)]

HandleTransfer(m, n, p) ==
  m.kind = "TRANSFER" /\ \E accepted \in Imports(n, m.objects) :
    LET store == have[n] \union accepted
        useful == ~(accepted \subseteq Current(n, p).accepted)
        e == Counted(Current(n, p), m.objects, accepted)
        \* A followup without a summary works from an empty filter.
        want == IF useful THEN ToAsk(n, p, store, e, e.latest) ELSE {}
    IN  /\ Receive(m, RequestOf(n, p, want))
        /\ have' = [have EXCEPT ![n] = store]
        /\ enc' = [enc EXCEPT ![n][p] =
             IF useful THEN AfterRound(n, p, store, [e EXCEPT !.streak = 0], e.latest)
             ELSE IF e.streak + 1 >= MaxStreak \/ e.imported >= MaxImported THEN Over
             ELSE [e EXCEPT !.streak = @ + 1]]
        /\ Remember(n, p, want)
        /\ UNCHANGED <<served, serving, exposed>>

\* A message for n is in the store, but the chat cannot be loaded or saved.
FailTransfer(m, n, p) ==
  m.kind = "TRANSFER" /\ \E accepted \in Imports(n, m.objects) :
    /\ \E i \in accepted \ have[n] : Target[i] = n
    /\ Receive(m, {})
    /\ have' = [have EXCEPT ![n] = @ \union accepted]
    /\ enc' = [enc EXCEPT ![n][p] = Counted(Current(n, p), m.objects, accepted)]
    /\ UNCHANGED <<asked, served, serving, exposed>>

Handle(m) ==
  \/ HandleHello(m, m.to, m.from)
  \/ HandleSummary(m, m.to, m.from)
  \/ HandleIngest(m, m.to, m.from)
  \/ HandleRequest(m, m.to, m.from)
  \/ HandleTransfer(m, m.to, m.from)

\* serve_udp_transfer_for_request: one datagram ...
ServeChunk(n) ==
  LET chunk == Chunk(n, serving[n].pending)
  IN  /\ serving[n] # Idle(n)
      /\ serving[n].sent < ServeMax
      /\ chunk # {}
      /\ net' = net \union {[kind |-> "TRANSFER", from |-> n, to |-> serving[n].to,
                             objects |-> chunk]}
      /\ serving' = [serving EXCEPT ![n].pending = @ \ chunk,
                                    ![n].sent = @ + Cardinality(chunk)]
      /\ UNCHANGED <<have, enc, asked, served, faults, exposed>>

\* ... until nothing is left that can be sent, or enough has been ...
EndServe(n) ==
  /\ serving[n] # Idle(n)
  /\ serving[n].sent >= ServeMax \/ Chunk(n, serving[n].pending) = {}
  /\ serving' = [serving EXCEPT ![n] = Idle(n)]
  /\ served' = [served EXCEPT ![n][serving[n].to] = serving[n].want]
  /\ UNCHANGED <<have, enc, asked, net, faults, exposed>>

\* ... or a datagram could not be sent.
FailServe(n) ==
  /\ serving[n] # Idle(n)
  /\ Fault
  /\ serving' = [serving EXCEPT ![n] = Idle(n)]
  /\ UNCHANGED <<have, enc, asked, served, net, exposed>>

----
(* Time, other threads, and restarts. *)

\* LAN_ENCOUNTER_MAX_TIME_MS have passed since the encounter began.
TimeOut(n, p) ==
  /\ enc[n][p].active
  /\ enc' = [enc EXCEPT ![n][p] = Over]
  /\ UNCHANGED <<have, asked, served, serving, net, faults, exposed>>

\* LAN_OUTBOUND_REQUEST_DEBOUNCE_MS, LAN_DUP_REQUEST_COOLDOWN_MS.
ForgetAsked(n, p) ==
  /\ asked[n][p] # {}
  /\ asked' = [asked EXCEPT ![n][p] = {}]
  /\ UNCHANGED <<have, enc, served, serving, net, faults, exposed>>

\* Mutant: a request once served is ignored until another one is served.
ForgetServed_Never(n, p) == FALSE

ForgetServed(n, p) ==
  /\ served[n][p] # {}
  /\ served' = [served EXCEPT ![n][p] = {}]
  /\ UNCHANGED <<have, enc, asked, serving, net, faults, exposed>>

\* The user sends a message, or the relay worker imports one.
Gain(n, i) ==
  /\ i \notin have[n] /\ n \in Origin[i]
  /\ have' = [have EXCEPT ![n] = @ \union {i}]
  /\ UNCHANGED <<workerVars, net, faults, exposed>>

\* Mutant: what was imported since the start had not been committed.
Restart_Uncommitted(n) ==
  /\ Fault
  /\ have' = [have EXCEPT ![n] = Stored[n]]
  /\ UNCHANGED <<workerVars, net, exposed>>

Restart(n) ==
  /\ Fault
  /\ enc' = [enc EXCEPT ![n] = [p \in Nodes |-> Over]]
  /\ asked' = [asked EXCEPT ![n] = [p \in Nodes |-> {}]]
  /\ served' = [served EXCEPT ![n] = [p \in Nodes |-> {}]]
  /\ serving' = [serving EXCEPT ![n] = Idle(n)]
  /\ UNCHANGED <<have, net, exposed>>

Next ==
  \/ \E m \in net :
       \/ Handle(m)
       \/ HandleHelloBlind(m, m.to, m.from)
       \/ FailTransfer(m, m.to, m.from)
       \/ Lose(m)
  \/ \E n \in Nodes :
       \/ Broadcast(n)
       \/ ServeChunk(n)
       \/ EndServe(n)
       \/ FailServe(n)
       \/ Restart(n)
       \/ \E i \in Items : Gain(n, i)
       \/ \E p \in Nodes : TimeOut(n, p) \/ ForgetAsked(n, p) \/ ForgetServed(n, p)

Spec == Init /\ [][Next]_vars

\* A worker keeps announcing itself, takes every frame that reaches it and ends
\* what it began; timers run out.
Fairness ==
  \A n \in Nodes :
    /\ SF_vars(Broadcast(n))
    /\ WF_vars(\E m \in net : m.to = n /\ Handle(m))
    /\ WF_vars(ServeChunk(n) \/ EndServe(n))
    /\ \A p \in Nodes \ {n} :
         /\ WF_vars(TimeOut(n, p))
         /\ WF_vars(ForgetAsked(n, p))
         /\ WF_vars(ForgetServed(n, p))
FairSpec == Spec /\ Fairness

----

\* A message ends its way at the node it is addressed to.  That node serves
\* whatever it is asked for, yet sends such a message to nobody, unless it named
\* it itself, in the preview of a summary or in an offer it built at a moment when
\* it could not tell who it is.  One whose envelope cannot be decoded is addressed
\* to nobody.
EndsAtTarget ==
  \A m \in net : m.kind = "TRANSFER" =>
    \A i \in m.objects : Target[i] = m.from => i \in exposed[m.from]

\* An encounter stays within its budget of rounds, on every path that asks.
RoundsBounded == \A n, p \in Nodes : enc[n][p].rounds <= MaxRounds

Exchange == INSTANCE Exchange WITH
  Start <- Stored,
  Source <- Origin,
  Ends <- [n \in Nodes |-> {i \in Items : Target[i] = n}]

\* A store changes only by an item that appears at its origin, or by items that
\* another node holds at that moment and that do not end there, but for those it
\* named when it could not read its identity: although a
\* TRANSFER answers a request that may be old, follows a summary that may be
\* older, and may come twice or after a restart of either side, nothing else is
\* taken in, and nothing is given up (handle_gossip_frame,
\* serve_udp_transfer_for_request).
RefinesExchange == Exchange!Spec

\* Whatever a node advertises reaches the others, whichever datagrams were
\* lost on the way: it can be asked for again.
Converges ==
  \A i \in Items :
    (\E n \in Nodes : i \in Advertised(n, have[n], TRUE)) ~> (\A p \in Nodes : i \in have[p])

\* Once every node holds every item, nothing is asked for or sent any more:
\* what remains of the traffic is announcements.
Quiet ==
  (\A n \in Nodes : have[n] = Items) ~>
     [](\A m \in net : m.kind \notin {"REQUEST", "TRANSFER"})
====
