---- MODULE RelayWorker ----
(***************************************************************************)
(* The thread that keeps sessions with the configured relays, the registry *)
(* of leases that admits one session per relay, and the diagnostics a user *)
(* may run beside it (main.rs, relay/client.rs).  What a round exchanges   *)
(* is left to ChatDelivery and GossipStore: here a round only succeeds,    *)
(* finds the socket closed, or fails.                                      *)
(*                                                                         *)
(* Time is two kinds of deadline: due[i], the backoff of slot i is over,   *)
(* and periodic, the periodic sync has come; their lengths do not matter.  *)
(* epoch and known_sync_epoch are only compared: unseen says they differ.  *)
(***************************************************************************)
EXTENDS Naturals, Sequences, FiniteSets

CONSTANTS
  Endpoints,    \* relays a user may enter in the settings
  Keys,         \* the relay an endpoint names once it is made a ws:// URL
  Key,          \* [Endpoints -> Keys]; two spellings may name one relay
  Configs,      \* lists of endpoints that the settings may hold
  Diagnosers,   \* diagnostics commands
  Attempts,     \* numbers of attempts (RELAY_ATTEMPT_COUNTER)
  NoLease,
  MaxPending    \* bound: requests before the channel, and in it

Lease == [key : Keys, attempt : Attempts]

ASSUME KeyAssumption == Key \in [Endpoints -> Keys]
ASSUME ConfigsAssumption == Configs \subseteq Seq(Endpoints) /\ <<>> \notin Configs
ASSUME DiagnosersAssumption == Diagnosers \cap Nat = {}
ASSUME LeaseAssumption == NoLease \notin Lease /\ 0 \notin Attempts
ASSUME PendingAssumption == MaxPending \in Nat \ {0}

VARIABLES
  enabled, configured,  \* the settings file
  unseen,               \* sync_epoch # known_sync_epoch
  telling, pending,     \* requests before and in the worker's channel
  periodic,             \* next_periodic_sync_at has come
  registry,             \* the attempt that holds a key, 0 when it is idle
  pc, slot,             \* where the worker is, and the slot it works on
  known, sessions, due, cursor,  \* the worker's vectors and rr_cursor
  opening,              \* the lease of a session being opened
  probe                 \* what each diagnostics command is doing

settings == <<enabled, configured>>
requests == <<unseen, telling, pending>>
slots == <<known, sessions, due, cursor>>
worker == <<pc, slot, slots, opening>>
vars == <<settings, requests, periodic, registry, worker, probe>>

Idling(k) == [stage |-> "idle", key |-> k, lease |-> NoLease]

Init ==
  /\ enabled \in BOOLEAN
  /\ configured \in Configs
  /\ unseen = FALSE /\ telling = 0 /\ pending = 0
  /\ periodic = TRUE
  /\ registry = [k \in Keys |-> 0]
  /\ pc = "top" /\ slot = 1
  /\ known = <<>> /\ sessions = <<>> /\ due = <<>> /\ cursor = 1
  /\ opening = NoLease
  /\ probe \in [Diagnosers -> {Idling(k) : k \in Keys}]

-----------------------------------------------------------------------------
(* Leases.  A lease lives in one place: a slot (1, 2, ...), the session    *)
(* being opened (0), or a diagnostics command.                             *)

Open == {i \in DOMAIN sessions : sessions[i] # NoLease}
Holders == DOMAIN sessions \cup {0} \cup Diagnosers
LeaseOf(h) ==
  IF h = 0 THEN opening ELSE IF h \in Nat THEN sessions[h] ELSE probe[h].lease

\* The counter gives a new number each time: here one that no lease carries.
Unused == {n \in Attempts : \A h \in Holders : LeaseOf(h) = NoLease \/ LeaseOf(h).attempt # n}
NewLease(k) == [key |-> k, attempt |-> CHOOSE n \in Unused : TRUE]

Busy(k) == registry[k] # 0

\* Mutant: nobody looks whether the key is taken.
Acquire_Unchecked(k) ==
  /\ Unused # {}
  /\ registry' = [registry EXCEPT ![k] = NewLease(k).attempt]

Acquire(k) ==
  /\ ~Busy(k)
  /\ Unused # {}
  /\ registry' = [registry EXCEPT ![k] = NewLease(k).attempt]

\* The leases of the set dropped are dropped; each only removes its own attempt.
Drop(dropped) ==
  registry' = [k \in Keys |->
    IF registry[k] # 0 /\ [key |-> k, attempt |-> registry[k]] \in dropped THEN 0 ELSE registry[k]]

-----------------------------------------------------------------------------
(* The user, and the clock. *)

SaveSettings ==
  /\ enabled' \in BOOLEAN
  /\ configured' \in Configs
  /\ UNCHANGED <<requests, periodic, registry, worker, probe>>

\* request_relay_sync raises the epoch, then sends the command.
Ask ==
  /\ telling < MaxPending
  /\ unseen' = TRUE
  /\ telling' = telling + 1
  /\ UNCHANGED <<settings, pending, periodic, registry, worker, probe>>

Tell ==
  /\ telling > 0 /\ pending < MaxPending
  /\ telling' = telling - 1
  /\ pending' = pending + 1
  /\ UNCHANGED <<settings, unseen, periodic, registry, worker, probe>>

PeriodElapses ==
  /\ ~periodic
  /\ periodic' = TRUE
  /\ UNCHANGED <<settings, requests, registry, worker, probe>>

BackoffElapses(i) ==
  /\ i \in DOMAIN due /\ ~due[i]
  /\ due' = [due EXCEPT ![i] = TRUE]
  /\ UNCHANGED <<settings, requests, periodic, registry, pc, slot, known, sessions, cursor,
                 opening, probe>>

-----------------------------------------------------------------------------
(* One turn of the worker's loop. *)

\* relay_worker_wait_for_command, its result discarded.
DiscardCommand ==
  /\ pending' = IF pending > 0 THEN pending - 1 ELSE 0
  /\ UNCHANGED <<unseen, telling>>

Sessions(set) == {sessions[i] : i \in set}

\* Mutant: the worker only stops to use its sessions.
Disabled_KeepsSessions ==
  /\ pc = "top" /\ ~enabled
  /\ DiscardCommand
  /\ UNCHANGED <<settings, periodic, registry, pc, slot, slots, opening, probe>>

\* drain(..) empties relay_sessions; the other vectors keep their length.
Disabled ==
  /\ pc = "top" /\ ~enabled
  /\ Drop(Sessions(Open))
  /\ sessions' = <<>>
  /\ DiscardCommand
  /\ UNCHANGED <<settings, periodic, pc, slot, known, due, cursor, opening, probe>>

\* Mutant: sessions survive when the new list is as long as the old one.
Reload_KeepsSessions ==
  /\ pc = "top" /\ enabled /\ configured # known
  /\ LET kept == IF Len(configured) = Len(sessions) THEN Open ELSE {} IN
       /\ Drop(Sessions(Open \ kept))
       /\ sessions' = [i \in DOMAIN configured |-> IF i \in kept THEN sessions[i] ELSE NoLease]
  /\ known' = configured
  /\ due' = [i \in DOMAIN configured |-> TRUE]
  /\ cursor' = 1
  /\ unseen' = TRUE
  /\ pc' = "wait"
  /\ UNCHANGED <<settings, telling, pending, periodic, slot, opening, probe>>

Reload ==
  /\ pc = "top" /\ enabled /\ configured # known
  /\ Drop(Sessions(Open))
  /\ known' = configured
  /\ sessions' = [i \in DOMAIN configured |-> NoLease]
  /\ due' = [i \in DOMAIN configured |-> TRUE]
  /\ cursor' = 1
  /\ unseen' = TRUE
  /\ pc' = "wait"
  /\ UNCHANGED <<settings, telling, pending, periodic, slot, opening, probe>>

Unchanged ==
  /\ pc = "top" /\ enabled /\ configured = known
  /\ pc' = "wait"
  /\ UNCHANGED <<settings, requests, periodic, registry, slot, slots, opening, probe>>

NoIdentity ==
  /\ pc = "wait"
  /\ DiscardCommand
  /\ pc' = "top"
  /\ UNCHANGED <<settings, periodic, registry, slot, slots, opening, probe>>

\* A new epoch, or a command that comes while the epoch is not new.
SyncRequested ==
  /\ pc = "wait" /\ (unseen \/ pending > 0)
  /\ unseen' = FALSE
  /\ pending' = IF pending > 0 THEN pending - 1 ELSE 0
  /\ pc' = "select"
  /\ UNCHANGED <<settings, telling, periodic, registry, slot, slots, opening, probe>>

SyncPeriodically ==
  /\ pc = "wait" /\ ~unseen /\ pending = 0 /\ periodic
  /\ periodic' = FALSE
  /\ pc' = "select"
  /\ UNCHANGED <<settings, requests, registry, slot, slots, opening, probe>>

NothingToDo ==
  /\ pc = "wait" /\ ~unseen /\ pending = 0 /\ ~periodic
  /\ pc' = "poll"
  /\ UNCHANGED <<settings, requests, periodic, registry, slot, slots, opening, probe>>

\* The open sessions are polled: some fail, some are closed by the relay, and
\* what comes in on one that did not fail puts the periodic sync off.
Poll ==
  /\ pc = "poll"
  /\ \E closed \in SUBSET Open : \E failed \in SUBSET closed :
       /\ Drop(Sessions(closed))
       /\ sessions' = [i \in DOMAIN sessions |-> IF i \in closed THEN NoLease ELSE sessions[i]]
       /\ due' = [i \in DOMAIN due |-> IF i \in Open THEN i \notin failed ELSE due[i]]
       /\ \/ UNCHANGED periodic
          \/ Open # failed /\ periodic' = FALSE
  /\ pc' = "top"
  /\ UNCHANGED <<settings, requests, slot, known, cursor, opening, probe>>

\* Slots in the order the cursor gives them.
Turn(i) == (i + Len(known) - cursor) % Len(known)
Due == {i \in DOMAIN due : due[i]}
\* Mutant: the cursor stays on the slot that was chosen.
After_Same(i) == i
After(i) == (i % Len(known)) + 1

Select ==
  /\ pc = "select"
  /\ \E i \in Due :
       /\ \A j \in Due : Turn(i) <= Turn(j)
       /\ slot' = i
       /\ cursor' = After(i)
  /\ pc' = "open"
  /\ UNCHANGED <<settings, requests, periodic, registry, known, sessions, due, opening, probe>>

NoneDue ==
  /\ pc = "select" /\ Due = {}
  /\ DiscardCommand
  /\ pc' = "top"
  /\ UNCHANGED <<settings, periodic, registry, slot, slots, opening, probe>>

Reuse ==
  /\ pc = "open" /\ slot \in Open
  /\ pc' = "round"
  /\ UNCHANGED <<settings, requests, periodic, registry, slot, slots, opening, probe>>

StartOpening ==
  /\ pc = "open" /\ slot \notin Open
  /\ Acquire(Key[known[slot]])
  /\ opening' = NewLease(Key[known[slot]])
  /\ pc' = "connect"
  /\ UNCHANGED <<settings, requests, periodic, slot, slots, probe>>

BackOff == due' = [due EXCEPT ![slot] = FALSE]

\* "session already active"
Refused ==
  /\ pc = "open" /\ slot \notin Open
  /\ Busy(Key[known[slot]])
  /\ BackOff
  /\ pc' = "top"
  /\ UNCHANGED <<settings, requests, periodic, registry, slot, known, sessions, cursor,
                 opening, probe>>

\* Mutant: the lease is not dropped when the connection fails.
ConnectFails_Leaks ==
  /\ pc = "connect"
  /\ opening' = NoLease
  /\ BackOff
  /\ pc' = "top"
  /\ UNCHANGED <<settings, requests, periodic, registry, slot, known, sessions, cursor, probe>>

ConnectFails ==
  /\ pc = "connect"
  /\ Drop({opening})
  /\ opening' = NoLease
  /\ BackOff
  /\ pc' = "top"
  /\ UNCHANGED <<settings, requests, periodic, slot, known, sessions, cursor, probe>>

\* relay_sessions[relay_slot] = Some(session)
Connected ==
  /\ pc = "connect" /\ slot \in DOMAIN sessions
  /\ sessions' = [sessions EXCEPT ![slot] = opening]
  /\ opening' = NoLease
  /\ pc' = "round"
  /\ UNCHANGED <<settings, requests, periodic, registry, slot, known, due, cursor, probe>>

\* The index is out of bounds: the thread unwinds and drops what it owns, and
\* running stays true, so that no other thread takes its place.
Panic ==
  /\ pc = "connect" /\ slot \notin DOMAIN sessions
  /\ Drop(Sessions(Open) \cup {opening})
  /\ sessions' = <<>>
  /\ opening' = NoLease
  /\ pc' = "dead"
  /\ UNCHANGED <<settings, requests, periodic, slot, known, due, cursor, probe>>

RoundSucceeds ==
  /\ pc = "round"
  /\ due' = [due EXCEPT ![slot] = TRUE]
  /\ pc' = "top"
  /\ UNCHANGED <<settings, requests, periodic, registry, slot, known, sessions, cursor,
                 opening, probe>>

\* The round succeeded, or the heartbeat or the round failed, and the session is closed.
RoundCloses ==
  /\ pc = "round"
  /\ Drop(Sessions({slot}))
  /\ sessions' = [sessions EXCEPT ![slot] = NoLease]
  /\ \/ due' = [due EXCEPT ![slot] = TRUE] /\ periodic' = FALSE
     \/ BackOff /\ UNCHANGED periodic
  /\ pc' = "top"
  /\ UNCHANGED <<settings, requests, slot, known, cursor, opening, probe>>

Worker ==
  \/ Disabled \/ Reload \/ Unchanged \/ NoIdentity
  \/ SyncRequested \/ SyncPeriodically \/ NothingToDo \/ Poll
  \/ Select \/ NoneDue \/ Reuse \/ StartOpening \/ Refused
  \/ ConnectFails \/ Connected \/ Panic \/ RoundSucceeds \/ RoundCloses

-----------------------------------------------------------------------------
(* Diagnostics: for each endpoint a probe of the connection, then, when it *)
(* succeeds, an encounter; each takes a lease of its own.                  *)

Lend(d, k, stage) ==
  /\ Acquire(k)
  /\ probe' = [probe EXCEPT ![d] = [stage |-> stage, key |-> k, lease |-> NewLease(k)]]

StartProbe(d) ==
  /\ probe[d].stage = "idle"
  /\ \E e \in Endpoints : Lend(d, Key[e], "probe")
  /\ UNCHANGED <<settings, requests, periodic, worker>>

EndProbe(d) ==
  /\ probe[d].stage = "probe"
  /\ Drop({probe[d].lease})
  /\ \E next \in {"idle", "connected"} :
       probe' = [probe EXCEPT ![d] = [stage |-> next, key |-> @.key, lease |-> NoLease]]
  /\ UNCHANGED <<settings, requests, periodic, worker>>

StartEncounter(d) ==
  /\ probe[d].stage = "connected"
  /\ Lend(d, probe[d].key, "encounter")
  /\ UNCHANGED <<settings, requests, periodic, worker>>

SkipEncounter(d) ==
  /\ probe[d].stage = "connected"
  /\ Busy(probe[d].key)
  /\ probe' = [probe EXCEPT ![d] = Idling(@.key)]
  /\ UNCHANGED <<settings, requests, periodic, registry, worker>>

EndEncounter(d) ==
  /\ probe[d].stage = "encounter"
  /\ Drop({probe[d].lease})
  /\ probe' = [probe EXCEPT ![d] = Idling(@.key)]
  /\ UNCHANGED <<settings, requests, periodic, worker>>

Diagnose(d) ==
  \/ StartProbe(d) \/ EndProbe(d) \/ StartEncounter(d) \/ SkipEncounter(d) \/ EndEncounter(d)

Next ==
  \/ SaveSettings \/ Ask \/ Tell \/ PeriodElapses
  \/ \E i \in DOMAIN due : BackoffElapses(i)
  \/ Worker
  \/ \E d \in Diagnosers : Diagnose(d)

Spec == Init /\ [][Next]_vars

\* The thread runs, the identity can be read now and then, deadlines come, and
\* the calls of a diagnostics command return.
FairSpec ==
  /\ Spec
  /\ WF_vars(Worker)
  /\ SF_vars(SyncRequested \/ SyncPeriodically \/ NothingToDo)
  /\ WF_vars(PeriodElapses)
  /\ \A i \in 1..Cardinality(Endpoints) : WF_vars(BackoffElapses(i))
  /\ \A d \in Diagnosers : WF_vars(EndProbe(d) \/ StartEncounter(d) \/ SkipEncounter(d) \/ EndEncounter(d))

-----------------------------------------------------------------------------
(* Properties. *)

\* The vectors of the worker agree in length while there are sessions, and the
\* cursor and the slot are in range: the state has its type.
TypeOK ==
  /\ enabled \in BOOLEAN /\ configured \in Configs
  /\ unseen \in BOOLEAN /\ telling \in 0..MaxPending /\ pending \in 0..MaxPending
  /\ periodic \in BOOLEAN
  /\ registry \in [Keys -> Attempts \cup {0}]
  /\ pc \in {"top", "wait", "poll", "select", "open", "connect", "round", "dead"}
  /\ slot \in Nat \ {0}
  /\ known \in Configs \cup {<<>>}
  /\ sessions = <<>> \/ sessions \in [DOMAIN known -> Lease \cup {NoLease}]
  /\ due \in [DOMAIN known -> BOOLEAN]
  /\ cursor \in {1} \cup DOMAIN known
  /\ opening \in Lease \cup {NoLease}
  /\ probe \in [Diagnosers -> [stage : {"idle", "probe", "connected", "encounter"},
                               key : Keys, lease : Lease \cup {NoLease}]]

\* At most one session is open or being opened with a relay, however it is
\* spelled in the settings and whoever opens it.
OneSessionPerRelay ==
  \A g, h \in Holders :
    g # h /\ LeaseOf(g) # NoLease /\ LeaseOf(h) # NoLease => LeaseOf(g).key # LeaseOf(h).key

\* A relay is marked busy exactly while somebody holds the lease of that very
\* attempt: no path of an error leaves a relay locked for the life of the process.
NoLeaseIsLeaked ==
  \A k \in Keys : registry[k] # 0 =>
    \E h \in Holders : LeaseOf(h) = [key |-> k, attempt |-> registry[k]]

\* A slot holds a session with the relay that the slot stands for, also after
\* the endpoints have been edited.
SlotIsItsRelay ==
  \A i \in Open : i \in DOMAIN known /\ sessions[i].key = Key[known[i]]

\* When relay sync is switched off the sessions are closed, unless it is
\* switched on again before the worker looks.
OffMeansClosed == ~enabled ~> (enabled \/ (Open = {} /\ opening = NoLease))

Tries(i) == pc \in {"open", "connect", "round"} /\ slot = i

\* Round robin: while the list of relays stays as it is and the worker keeps
\* turning to relays, it turns to every one of them, however often the others
\* succeed or fail and however long the backoff of this one has been.
EveryRelayHasItsTurn ==
  \A c \in Configs : <>[](known = c) /\ []<>(pc = "open") =>
    \A i \in DOMAIN c : []<>Tries(i)

\* The worker outlives every change of the settings.
WorkerSurvives == pc # "dead"

\* While relay sync stays on and the list as it is, every relay is tried again
\* and again: a session that was lost is opened anew. Not so: what another relay
\* sends can put the periodic sync off for ever (start_relay_worker_if_needed).
RelayIsRetried ==
  \A c \in Configs : <>[](enabled /\ known = c /\ pc # "dead") =>
    \A i \in DOMAIN c : []<>Tries(i)
====
