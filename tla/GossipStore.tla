---- MODULE GossipStore ----
(***************************************************************************)
(* The durable gossip item store: the SQLite table of                      *)
(* aethos_core/gossip_store_sqlite.rs together with the two write paths    *)
(* gossip_sync.rs builds on it, record_local_payload and                   *)
(* import_transfer_items.                                                  *)
(*                                                                         *)
(* Every store function runs under one process-wide mutex and one SQLite   *)
(* transaction, so a locked section is one action.  What is NOT atomic is  *)
(* everything around it: a caller reads the clock first and takes the lock *)
(* later, and an import takes the lock twice, once to look up the objects  *)
(* it was sent and once to insert the ones it found missing.  The callers  *)
(* are the threads of the desktop process (gossip worker, relay worker,    *)
(* UI commands).                                                           *)
(*                                                                         *)
(* An envelope is named by its digest: envelope e is the one whose         *)
(* item_id_from_envelope_bytes is e.                                       *)
(***************************************************************************)
EXTENDS Naturals

CONSTANTS
  Items,        \* item ids, and the envelopes they are digests of
  Callers,      \* threads that use the store
  Importers,    \* the callers that import TRANSFER frames
  WireObjects,  \* the TRANSFER objects peers may send
  Payloads,     \* what this node records: pairs of an item and its expiry
  Expiries,     \* expiry times an item may carry
  Hops,         \* hop counts an object may carry
  Skew,         \* CLOCK_SKEW_TOLERANCE_MS
  MaxTime,      \* bound on the clock
  NoRecord      \* the row is absent; also: a caller records nothing

WireObject == [item_id: Items, envelope: Items, expiry: Expiries, hop: Hops]
Record == [envelope: Items, expiry: Expiries, hop: Hops]

ASSUME StoreConstants ==
  /\ Importers \subseteq Callers
  /\ WireObjects \subseteq WireObject
  /\ Payloads \subseteq [item: Items, expiry: Expiries]
  /\ Expiries \subseteq Nat
  /\ Hops \subseteq Nat
  /\ 0 \in Hops
  /\ Skew \in Nat
  /\ MaxTime \in Nat
  /\ NoRecord \notin Record

VARIABLES
  now,       \* the wall clock
  store,     \* the gossip_items table
  op,        \* what each caller is doing
  at,        \* the now_ms each caller read when it started
  arg,       \* the item and expiry a caller is recording
  view,      \* an importer's `existing` rows overlaid with its pending_new_records
  fresh,     \* an importer's pending_new_inserts
  accepted,  \* the objects behind an importer's accepted_item_ids
  reported   \* which importers reported a retained item as new (history)

callVars == <<op, at, arg, view, fresh, accepted>>
vars == <<now, store, op, at, arg, view, fresh, accepted, reported>>

Slot == Record \union {NoRecord}
Phase == {"idle", "record", "prune", "import", "looked_up"}
Empty == [i \in Items |-> NoRecord]

\* The shape of the store and of what each caller carries between its locked
\* sections; no lifetime exceeds what a TRANSFER may carry.
TypeOK ==
  /\ now \in 0..MaxTime
  /\ store \in [Items -> Slot]
  /\ op \in [Callers -> Phase]
  /\ at \in [Callers -> 0..MaxTime]
  /\ arg \in [Callers -> Payloads \union {NoRecord}]
  /\ view \in [Callers -> [Items -> Slot]]
  /\ fresh \in [Callers -> SUBSET Items]
  /\ accepted \in [Callers -> SUBSET WireObjects]
  /\ reported \in [Items -> SUBSET Importers]

Init ==
  /\ now = 0
  /\ store = Empty
  /\ op = [c \in Callers |-> "idle"]
  /\ at = [c \in Callers |-> 0]
  /\ arg = [c \in Callers |-> NoRecord]
  /\ view = [c \in Callers |-> Empty]
  /\ fresh = [c \in Callers |-> {}]
  /\ accepted = [c \in Callers |-> {}]
  /\ reported = [i \in Items |-> {}]

----

Held(s, i) == s[i] # NoRecord
Later(a, b) == IF a >= b THEN a ELSE b

\* Mutant: the tolerance is applied twice.
PruneExpired_TwiceSkew(s, t) ==
  [i \in Items |-> IF Held(s, i) /\ s[i].expiry <= t + Skew + Skew THEN NoRecord ELSE s[i]]

\* prune_expired_tx: DELETE ... WHERE expiry_unix_ms <= now_ms + tolerance.
PruneExpired(s, t) ==
  [i \in Items |-> IF Held(s, i) /\ s[i].expiry <= t + Skew THEN NoRecord ELSE s[i]]

\* The record_local_item upsert: a known item only ever gains lifetime.
Upsert(s, i, e) ==
  [s EXCEPT ![i] = IF Held(s, i) THEN [s[i] EXCEPT !.expiry = Later(s[i].expiry, e)]
                   ELSE [envelope |-> i, expiry |-> e, hop |-> 0]]

\* Mutant: INSERT OR REPLACE.
InsertOrIgnore_Replace(s, rows, new) == [i \in Items |-> IF i \in new THEN rows[i] ELSE s[i]]

\* INSERT OR IGNORE of an importer's pending rows.
InsertOrIgnore(s, rows, new) ==
  [i \in Items |-> IF i \in new /\ ~Held(s, i) THEN rows[i] ELSE s[i]]

\* A row that is gone starts a new retention, so its reports start over.
Recount(s, r) == [i \in Items |-> IF Held(s, i) THEN r[i] ELSE {}]
CountNew(r, c, new) == [i \in Items |-> IF i \in new THEN r[i] \union {c} ELSE r[i]]

----

\* Time passes while threads wait for the lock.
Tick ==
  /\ now < MaxTime
  /\ now' = now + 1
  /\ UNCHANGED <<store, callVars, reported>>

\* A caller reads the clock and sets out to do something.
Begin(c, phase) ==
  /\ op[c] = "idle"
  /\ op' = [op EXCEPT ![c] = phase]
  /\ at' = [at EXCEPT ![c] = now]

\* A caller is done: its locals are gone.
Return(c) ==
  /\ op' = [op EXCEPT ![c] = "idle"]
  /\ at' = [at EXCEPT ![c] = 0]
  /\ arg' = [arg EXCEPT ![c] = NoRecord]
  /\ view' = [view EXCEPT ![c] = Empty]
  /\ fresh' = [fresh EXCEPT ![c] = {}]
  /\ accepted' = [accepted EXCEPT ![c] = {}]

\* record_local_payload up to the store call: an already expired payload is
\* refused before anything is written.
StartRecord(c, p) ==
  /\ now + Skew < p.expiry
  /\ Begin(c, "record")
  /\ arg' = [arg EXCEPT ![c] = p]
  /\ UNCHANGED <<now, store, view, fresh, accepted, reported>>

\* record_local_item: one transaction, refused when the row holds other bytes.
RecordLocalItem(c) ==
  LET i == arg[c].item
      s == PruneExpired(Upsert(store, i, arg[c].expiry), at[c])
  IN  /\ op[c] = "record"
      /\ Held(store, i) => store[i].envelope = i
      /\ store' = s
      /\ reported' = Recount(s, reported)
      /\ Return(c)
      /\ UNCHANGED now

\* Mutant: the prune's transaction is dropped without a commit.
Prune_Uncommitted(c) ==
  /\ op[c] = "prune"
  /\ Return(c)
  /\ UNCHANGED <<now, store, reported>>

\* eligible_item_ids, eligible_relay_ingest_item_ids, summary_preview_candidates:
\* each advertises what is left after a prune.
StartPrune(c) ==
  /\ Begin(c, "prune")
  /\ UNCHANGED <<now, store, arg, view, fresh, accepted, reported>>

Prune(c) ==
  LET s == PruneExpired(store, at[c])
  IN  /\ op[c] = "prune"
      /\ store' = s
      /\ reported' = Recount(s, reported)
      /\ Return(c)
      /\ UNCHANGED now

StartImport(c) ==
  /\ Begin(c, "import")
  /\ UNCHANGED <<now, store, arg, view, fresh, accepted, reported>>

\* Mutant: a failing lookup is taken for an empty answer.
GetExistingItems_Empty(c) ==
  /\ op[c] = "import"
  /\ op' = [op EXCEPT ![c] = "looked_up"]
  /\ UNCHANGED <<now, store, at, arg, view, fresh, accepted, reported>>

\* get_existing_items_for_ids: the first locked section of an import.
GetExistingItems(c) ==
  /\ op[c] = "import"
  /\ op' = [op EXCEPT ![c] = "looked_up"]
  /\ view' = [view EXCEPT ![c] = store]
  /\ UNCHANGED <<now, store, at, arg, fresh, accepted, reported>>

\* Mutant: the item id is not recomputed from the bytes.
Importable_NoDigest(c, o) ==
  /\ op[c] = "looked_up"
  /\ at[c] + Skew < o.expiry

\* The object passes validate_transfer_object (else MALFORMED_OBJECT) and is
\* not EXPIRED by the time the import started.  A rejected object changes
\* nothing, here and in the next two actions.
Importable(c, o) ==
  /\ op[c] = "looked_up"
  /\ o.item_id = o.envelope
  /\ at[c] + Skew < o.expiry

\* A known item: accepted unless ITEM_ID_MISMATCH or HOP_REGRESSION.
AcceptKnown(c, o) ==
  /\ Importable(c, o)
  /\ Held(view[c], o.item_id)
  /\ view[c][o.item_id].envelope = o.envelope
  /\ o.hop >= view[c][o.item_id].hop
  /\ accepted' = [accepted EXCEPT ![c] = @ \union {o}]
  /\ UNCHANGED <<now, store, op, at, arg, view, fresh, reported>>

\* Mutant: accepted without being queued for insertion.
AcceptNew_NotQueued(c, o) ==
  /\ Importable(c, o)
  /\ ~Held(view[c], o.item_id)
  /\ accepted' = [accepted EXCEPT ![c] = @ \union {o}]
  /\ UNCHANGED <<now, store, op, at, arg, view, fresh, reported>>

\* An unknown item: queued for insertion, and reported as new.
AcceptNew(c, o) ==
  /\ Importable(c, o)
  /\ ~Held(view[c], o.item_id)
  /\ view' = [view EXCEPT ![c][o.item_id] =
                [envelope |-> o.envelope, expiry |-> o.expiry, hop |-> o.hop]]
  /\ fresh' = [fresh EXCEPT ![c] = @ \union {o.item_id}]
  /\ accepted' = [accepted EXCEPT ![c] = @ \union {o}]
  /\ UNCHANGED <<now, store, op, at, arg, reported>>

\* insert_import_items and the return of the result: the second locked section.
InsertImportItems(c) ==
  LET s == PruneExpired(InsertOrIgnore(store, view[c], fresh[c]), at[c])
  IN  /\ op[c] = "looked_up"
      /\ store' = s
      /\ reported' = Recount(s, CountNew(reported, c, fresh[c]))
      /\ Return(c)
      /\ UNCHANGED now

\* A busy or failing database: the transaction is not committed and the
\* caller gets an error, an importer without its result.
StoreError(c) ==
  /\ op[c] # "idle"
  /\ Return(c)
  /\ UNCHANGED <<now, store, reported>>

Next ==
  \/ Tick
  \/ \E c \in Callers :
       \/ \E p \in Payloads : StartRecord(c, p)
       \/ RecordLocalItem(c)
       \/ StartPrune(c)
       \/ Prune(c)
       \/ StoreError(c)
  \/ \E c \in Importers :
       \/ StartImport(c)
       \/ GetExistingItems(c)
       \/ \E o \in WireObjects : AcceptKnown(c, o) \/ AcceptNew(c, o)
       \/ InsertImportItems(c)

Spec == Init /\ [][Next]_vars

\* A call that has reached its locked section gets there: the mutex is not held
\* for ever, and a caller is in one call at a time.
Proceed(c) == RecordLocalItem(c) \/ GetExistingItems(c) \/ InsertImportItems(c)

\* The threads that import also advertise on every pass of their loop, which
\* prunes; no call of theirs blocks for ever, and the database does not fail
\* for ever.  Nothing is assumed of the others.
Fairness ==
  \A c \in Importers : WF_vars(Proceed(c)) /\ SF_vars(StartPrune(c)) /\ SF_vars(Prune(c))
FairSpec == Spec /\ Fairness

----

\* A row is stored under the digest of its own bytes, whatever peers sent.
ItemIdIsDigest == \A i \in Items : Held(store, i) => store[i].envelope = i

\* prune_expired never takes a row whose lifetime has not run out, although
\* the threshold is computed from a clock read before the lock was taken and
\* other callers extend rows meanwhile.
OnlyExpiredRowsGo ==
  [][\A i \in Items :
       Held(store, i) /\ ~Held(store', i) => store[i].expiry <= now + Skew]_vars

\* While a row is retained its lifetime is never cut short and its hop count,
\* the distance it is re-sent from, never changes: neither a concurrent import
\* of the same item nor a re-record of the same payload may do that.
RetainedRowsOnlyGain ==
  [][\A i \in Items :
       Held(store, i) /\ Held(store', i) =>
         /\ store'[i].expiry >= store[i].expiry
         /\ store'[i].hop = store[i].hop]_vars

\* A row that has lived out its time.
RanOut(s, i) == Held(s, i) /\ s[i].expiry <= now + Skew

\* What an import acknowledges it holds: when it returns, every item it accepted
\* is in the store, unless the row it was compared with, or the one found there,
\* has run out.  A copy that would live longer does not extend the row.
AcceptedIsHeld ==
  [][\A c \in Importers : InsertImportItems(c) =>
       \A o \in accepted[c] :
         LET i == o.item_id IN Held(store', i) \/ RanOut(view[c], i) \/ RanOut(store, i)]_vars

\* An importer reports an item as new once while it is retained, although the
\* look-up and the insertion that decide it are two acquisitions of the mutex and
\* the other importers look up, insert, record and prune in between: what two
\* bearers that race for an item can add to the chat is one report each.
EachReportsOnce ==
  [][\A c \in Importers : InsertImportItems(c) =>
       \A i \in fresh[c] : c \notin reported[i]]_vars

\* Whatever has expired leaves the store, or had its lifetime extended.
ExpiredLeaves == \A i \in Items : RanOut(store, i) ~> ~RanOut(store, i)
====
