---- MODULE GossipStore_proofs ----
(***************************************************************************)
(* Proofs about GossipStore, for any set of items and callers, any mix of  *)
(* TRANSFER objects peers may send, and any clock bound.                   *)
(*                                                                         *)
(* The invariant IInv adds to type correctness what a caller carries from  *)
(* one locked section to the next: the clock it read is not in the future, *)
(* what it looked up or queued is stored under its own digest, each queued *)
(* id has a row, and nothing is queued before the lookup.                  *)
(***************************************************************************)
EXTENDS GossipStore, TLAPS

ClockReadBefore == \A c \in Callers : at[c] <= now
ViewIsDigest ==
  \A c \in Callers, i \in Items : Held(view[c], i) => view[c][i].envelope = i
FreshHasRow == \A c \in Callers : \A i \in fresh[c] : Held(view[c], i)
RecordHasArg == \A c \in Callers : op[c] = "record" => arg[c] \in Payloads
QueueAfterLookup ==
  \A c \in Callers : op[c] # "looked_up" => fresh[c] = {} /\ accepted[c] = {}

IInv ==
  /\ TypeOK
  /\ ClockReadBefore
  /\ ItemIdIsDigest
  /\ ViewIsDigest
  /\ FreshHasRow
  /\ RecordHasArg
  /\ QueueAfterLookup

\* What a return does to the locals of every caller.
LEMMA ReturnFacts ==
  ASSUME TypeOK, NEW c \in Callers, Return(c)
  PROVE  /\ op' \in [Callers -> Phase]
         /\ at' \in [Callers -> 0..MaxTime]
         /\ arg' \in [Callers -> Payloads \union {NoRecord}]
         /\ view' \in [Callers -> [Items -> Slot]]
         /\ fresh' \in [Callers -> SUBSET Items]
         /\ accepted' \in [Callers -> SUBSET WireObjects]
         /\ \A d \in Callers : 
              /\ at'[d] = IF d = c THEN 0 ELSE at[d]
              /\ view'[d] = IF d = c THEN Empty ELSE view[d]
              /\ fresh'[d] = IF d = c THEN {} ELSE fresh[d]
              /\ accepted'[d] = IF d = c THEN {} ELSE accepted[d]
              /\ d # c => op'[d] = op[d] /\ arg'[d] = arg[d]
              /\ d = c => op'[d] = "idle"
  BY StoreConstants DEF TypeOK, Return, Empty, Slot, Phase

\* A locked section keeps a well formed table well formed, and only a prune,
\* whose threshold is t, takes rows from it.
LEMMA PruneFacts ==
  ASSUME NEW s \in [Items -> Slot], NEW t \in Nat
  PROVE  /\ PruneExpired(s, t) \in [Items -> Slot]
         /\ \A i \in Items : Held(PruneExpired(s, t), i) =>
              Held(s, i) /\ PruneExpired(s, t)[i] = s[i]
         /\ \A i \in Items : Held(s, i) /\ ~Held(PruneExpired(s, t), i) =>
              s[i].expiry <= t + Skew
  BY DEF PruneExpired, Held, Slot

\* The upsert stores the payload under its digest and only adds lifetime.
LEMMA UpsertFacts ==
  ASSUME NEW s \in [Items -> Slot], NEW i \in Items, NEW e \in Expiries
  PROVE  /\ Upsert(s, i, e) \in [Items -> Slot]
         /\ Held(Upsert(s, i, e), i)
         /\ \A j \in Items : j # i => Upsert(s, i, e)[j] = s[j]
         /\ Held(s, i) => /\ Upsert(s, i, e)[i].envelope = s[i].envelope
                          /\ Upsert(s, i, e)[i].hop = s[i].hop
                          /\ Upsert(s, i, e)[i].expiry >= s[i].expiry
         /\ ~Held(s, i) => Upsert(s, i, e)[i] = [envelope |-> i, expiry |-> e, hop |-> 0]
<1>1. CASE Held(s, i)
  <2>1. s[i] \in Record
    BY <1>1 DEF Held, Slot
  <2> DEFINE x == s[i].expiry
  <2>a. x \in Expiries
    BY <2>1 DEF Record
  <2>b. x \in Nat /\ e \in Nat
    BY <2>a, StoreConstants
  <2> HIDE DEF x
  <2>c. Later(x, e) \in Expiries /\ Later(x, e) >= x
    BY <2>a, <2>b DEF Later
  <2>2. /\ Later(s[i].expiry, e) \in Expiries
        /\ Later(s[i].expiry, e) >= s[i].expiry
    BY <2>c DEF x
  <2>3. [s[i] EXCEPT !.expiry = Later(s[i].expiry, e)] \in Record
    BY <2>1, <2>2 DEF Record
  <2> QED
    BY <1>1, <2>1, <2>2, <2>3, StoreConstants DEF Upsert, Held, Slot, Record
<1>2. CASE ~Held(s, i)
  <2>1. [envelope |-> i, expiry |-> e, hop |-> 0] \in Record
    BY StoreConstants DEF Record
  <2> QED
    BY <1>2, <2>1, StoreConstants DEF Upsert, Held, Slot
<1> QED
  BY <1>1, <1>2

\* INSERT OR IGNORE adds rows and changes none.
LEMMA InsertFacts ==
  ASSUME NEW s \in [Items -> Slot], NEW rows \in [Items -> Slot], NEW new \in SUBSET Items
  PROVE  /\ InsertOrIgnore(s, rows, new) \in [Items -> Slot]
         /\ \A i \in Items : Held(s, i) => InsertOrIgnore(s, rows, new)[i] = s[i]
         /\ \A i \in Items : ~Held(s, i) =>
              InsertOrIgnore(s, rows, new)[i] = IF i \in new THEN rows[i] ELSE NoRecord
  BY DEF InsertOrIgnore, Held, Slot

----
(* The table is touched by three locked sections only. *)

\* What a step does to the table: nothing, or one of the locked sections.
StoreStep(c) ==
  \/ RecordLocalItem(c)
  \/ Prune(c)
  \/ c \in Importers /\ InsertImportItems(c)

LEMMA OtherStepsKeepStore ==
  ASSUME Next, \A c \in Callers : ~StoreStep(c)
  PROVE  UNCHANGED <<store, reported>>
BY StoreConstants DEF Next, StoreStep, Tick, StartRecord, StartPrune, StoreError,
       StartImport, GetExistingItems, AcceptKnown, AcceptNew

\* A record, seen row by row.
LEMMA RecordRows ==
  ASSUME IInv, NEW c \in Callers, RecordLocalItem(c)
  PROVE  /\ store' \in [Items -> Slot]
         /\ \A i \in Items : Held(store, i) /\ ~Held(store', i) =>
              store[i].expiry <= at[c] + Skew
         /\ \A i \in Items : Held(store, i) /\ Held(store', i) =>
              /\ store'[i].envelope = store[i].envelope
              /\ store'[i].expiry >= store[i].expiry
              /\ store'[i].hop = store[i].hop
         /\ \A i \in Items : ~Held(store, i) /\ Held(store', i) => store'[i].envelope = i
<1> DEFINE p == arg[c]
           u == Upsert(store, p.item, p.expiry)
<1>1. p \in Payloads /\ p.item \in Items /\ p.expiry \in Expiries
  BY StoreConstants DEF IInv, RecordHasArg, RecordLocalItem
<1>2. store \in [Items -> Slot] /\ at[c] \in Nat
  BY StoreConstants DEF IInv, TypeOK
<1>3. /\ u \in [Items -> Slot]
      /\ Held(u, p.item)
      /\ \A j \in Items : j # p.item => u[j] = store[j]
      /\ Held(store, p.item) => /\ u[p.item].envelope = store[p.item].envelope
                                /\ u[p.item].hop = store[p.item].hop
                                /\ u[p.item].expiry >= store[p.item].expiry
      /\ ~Held(store, p.item) => u[p.item].envelope = p.item
  <2> DEFINE i == p.item
             e == p.expiry
  <2>1. i \in Items /\ e \in Expiries
    BY <1>1
  <2> HIDE DEF i, e, p
  <2>2. /\ Upsert(store, i, e) \in [Items -> Slot]
        /\ Held(Upsert(store, i, e), i)
        /\ \A j \in Items : j # i => Upsert(store, i, e)[j] = store[j]
        /\ Held(store, i) => /\ Upsert(store, i, e)[i].envelope = store[i].envelope
                             /\ Upsert(store, i, e)[i].hop = store[i].hop
                             /\ Upsert(store, i, e)[i].expiry >= store[i].expiry
        /\ ~Held(store, i) =>
              Upsert(store, i, e)[i] = [envelope |-> i, expiry |-> e, hop |-> 0]
    BY <1>2, <2>1, UpsertFacts, Zenon
  <2> QED
    BY <2>2 DEF i, e
<1>4. store' = PruneExpired(u, at[c])
  BY DEF RecordLocalItem
<1> HIDE DEF u, p
<1>9. \A i \in Items : Held(store, i) => store[i].expiry \in Nat
  BY <1>2, StoreConstants DEF Held, Slot, Record
<1>5. \A i \in Items : Held(store, i) =>
        /\ Held(u, i)
        /\ u[i].envelope = store[i].envelope
        /\ u[i].expiry >= store[i].expiry
        /\ u[i].hop = store[i].hop
  BY <1>3, <1>9 DEF Held
<1>6. \A i \in Items : ~Held(store, i) /\ Held(u, i) => u[i].envelope = i
  BY <1>3 DEF Held
<1>7. /\ store' \in [Items -> Slot]
      /\ \A i \in Items : Held(store', i) => Held(u, i) /\ store'[i] = u[i]
      /\ \A i \in Items : Held(u, i) /\ ~Held(store', i) => u[i].expiry <= at[c] + Skew
  BY <1>2, <1>3, <1>4, PruneFacts
<1>8. \A i \in Items : Held(u, i) => u[i].expiry \in Nat
  BY <1>3, StoreConstants DEF Held, Slot, Record
<1>10. \A i \in Items : Held(store, i) /\ ~Held(store', i) => store[i].expiry <= at[c] + Skew
  BY <1>2, <1>5, <1>7, <1>8, <1>9, StoreConstants
<1> QED
  BY <1>5, <1>6, <1>7, <1>10

\* A prune, seen row by row.
LEMMA PruneRows ==
  ASSUME IInv, NEW c \in Callers, Prune(c)
  PROVE  /\ store' \in [Items -> Slot]
         /\ \A i \in Items : Held(store, i) /\ ~Held(store', i) =>
              store[i].expiry <= at[c] + Skew
         /\ \A i \in Items : Held(store', i) => Held(store, i) /\ store'[i] = store[i]
<1>1. store \in [Items -> Slot] /\ at[c] \in Nat
  BY StoreConstants DEF IInv, TypeOK
<1>2. store' = PruneExpired(store, at[c])
  BY DEF Prune
<1> QED
  BY <1>1, <1>2, PruneFacts

\* An import's insertion, seen row by row.
LEMMA InsertRows ==
  ASSUME IInv, NEW c \in Callers, InsertImportItems(c)
  PROVE  /\ store' \in [Items -> Slot]
         /\ \A i \in Items : Held(store, i) /\ ~Held(store', i) =>
              store[i].expiry <= at[c] + Skew
         /\ \A i \in Items : Held(store, i) /\ Held(store', i) => store'[i] = store[i]
         /\ \A i \in Items : ~Held(store, i) /\ Held(store', i) =>
              i \in fresh[c] /\ store'[i].envelope = i
         /\ \A i \in fresh[c] : ~Held(store', i) =>
              \/ Held(store, i) /\ store[i].expiry <= at[c] + Skew
              \/ Held(view[c], i) /\ view[c][i].expiry <= at[c] + Skew
<1> DEFINE n == InsertOrIgnore(store, view[c], fresh[c])
<1>1. /\ store \in [Items -> Slot]
      /\ at[c] \in Nat
      /\ view[c] \in [Items -> Slot]
      /\ fresh[c] \in SUBSET Items
  BY StoreConstants DEF IInv, TypeOK
<1>2. store' = PruneExpired(n, at[c])
  BY DEF InsertImportItems
<1>3. /\ n \in [Items -> Slot]
      /\ \A i \in Items : Held(store, i) => n[i] = store[i]
      /\ \A i \in Items : ~Held(store, i) => n[i] = IF i \in fresh[c] THEN view[c][i] ELSE NoRecord
  BY <1>1, InsertFacts
<1>4. \A i \in fresh[c] : Held(view[c], i) /\ view[c][i].envelope = i
  BY <1>1 DEF IInv, FreshHasRow, ViewIsDigest
<1> HIDE DEF n
<1>5. /\ store' \in [Items -> Slot]
      /\ \A i \in Items : Held(store', i) => Held(n, i) /\ store'[i] = n[i]
      /\ \A i \in Items : Held(n, i) /\ ~Held(store', i) => n[i].expiry <= at[c] + Skew
  BY <1>1, <1>2, <1>3, PruneFacts
<1>6. \A i \in Items : Held(store, i) => Held(n, i)
  BY <1>3 DEF Held
<1>7. \A i \in Items : ~Held(store, i) /\ Held(n, i) =>
        i \in fresh[c] /\ n[i] = view[c][i] /\ n[i].envelope = i
  BY <1>3, <1>4 DEF Held
<1>8. \A i \in fresh[c] : Held(n, i)
  BY <1>1, <1>3, <1>4, <1>6 DEF Held
<1>9. \A i \in fresh[c] : (n[i] = store[i] /\ Held(store, i)) \/ n[i] = view[c][i]
  BY <1>1, <1>3
<1> QED
  BY <1>1, <1>3, <1>4, <1>5, <1>6, <1>7, <1>8, <1>9
----
(* The inductive invariant. *)

LEMMA InitInv == Init => IInv
BY StoreConstants DEF Init, IInv, TypeOK, ClockReadBefore, ItemIdIsDigest, ViewIsDigest,
       FreshHasRow, RecordHasArg, QueueAfterLookup, Empty, Held, Slot, Phase

\* A return leaves the other callers' locals as good as they were.
LEMMA ReturnKeepsLocals ==
  ASSUME IInv, NEW c \in Callers, Return(c), UNCHANGED now
  PROVE  /\ op' \in [Callers -> Phase]
         /\ at' \in [Callers -> 0..MaxTime]
         /\ arg' \in [Callers -> Payloads \union {NoRecord}]
         /\ view' \in [Callers -> [Items -> Slot]]
         /\ fresh' \in [Callers -> SUBSET Items]
         /\ accepted' \in [Callers -> SUBSET WireObjects]
         /\ ClockReadBefore' /\ ViewIsDigest' /\ FreshHasRow' /\ RecordHasArg'
         /\ QueueAfterLookup'
<1>1. TypeOK
  BY DEF IInv
<1>2. now \in Nat
  BY <1>1, StoreConstants DEF TypeOK
<1>3. ClockReadBefore'
  BY <1>1, <1>2, ReturnFacts DEF IInv, ClockReadBefore
<1>4. ViewIsDigest'
  BY <1>1, ReturnFacts DEF IInv, ViewIsDigest, Held, Empty
<1>5. FreshHasRow'
  BY <1>1, ReturnFacts DEF IInv, FreshHasRow, Held
<1>6. RecordHasArg'
  BY <1>1, ReturnFacts DEF IInv, RecordHasArg
<1>7. QueueAfterLookup'
  BY <1>1, ReturnFacts DEF IInv, QueueAfterLookup
<1> QED
  BY <1>1, <1>3, <1>4, <1>5, <1>6, <1>7, ReturnFacts

LEMMA StepInv == IInv /\ [Next]_vars => IInv'
<1> SUFFICES ASSUME IInv, [Next]_vars PROVE IInv'
  OBVIOUS
<1> USE StoreConstants
<1>1. TypeOK /\ now \in Nat
  BY DEF IInv, TypeOK
<1>2. CASE Tick
  <2>1. TypeOK'
    BY <1>1, <1>2 DEF Tick, TypeOK, callVars
  <2>2. ClockReadBefore'
    BY <1>1, <1>2 DEF Tick, TypeOK, callVars, IInv, ClockReadBefore
  <2> QED
    BY <1>2, <2>1, <2>2 DEF Tick, callVars, IInv, ItemIdIsDigest, ViewIsDigest, FreshHasRow,
         RecordHasArg, QueueAfterLookup, Held
<1>3. ASSUME NEW c \in Callers, NEW p \in Payloads, StartRecord(c, p) PROVE IInv'
  <2>1. TypeOK'
    BY <1>1, <1>3 DEF StartRecord, Begin, TypeOK, Phase
  <2>2. ClockReadBefore' /\ RecordHasArg' /\ QueueAfterLookup'
    BY <1>1, <1>3 DEF StartRecord, Begin, TypeOK, IInv, ClockReadBefore, RecordHasArg,
         QueueAfterLookup
  <2> QED
    BY <1>3, <2>1, <2>2 DEF StartRecord, IInv, ItemIdIsDigest, ViewIsDigest, FreshHasRow, Held
<1>4. ASSUME NEW c \in Callers, StartPrune(c) \/ StartImport(c) PROVE IInv'
  <2>1. TypeOK'
    BY <1>1, <1>4 DEF StartPrune, StartImport, Begin, TypeOK, Phase
  <2>2. ClockReadBefore' /\ RecordHasArg' /\ QueueAfterLookup'
    BY <1>1, <1>4 DEF StartPrune, StartImport, Begin, TypeOK, IInv, ClockReadBefore,
         RecordHasArg, QueueAfterLookup
  <2> QED
    BY <1>4, <2>1, <2>2 DEF StartPrune, StartImport, IInv, ItemIdIsDigest, ViewIsDigest,
         FreshHasRow, Held
<1>5. ASSUME NEW c \in Callers, RecordLocalItem(c) PROVE IInv'
  <2>1. store' \in [Items -> Slot] /\ ItemIdIsDigest'
    BY <1>5, RecordRows DEF IInv, ItemIdIsDigest
  <2>2. reported' \in [Items -> SUBSET Importers]
    BY <1>1, <1>5 DEF RecordLocalItem, Recount, TypeOK
  <2> QED
    BY <1>1, <1>5, <2>1, <2>2, ReturnKeepsLocals DEF RecordLocalItem, IInv, TypeOK
<1>6. ASSUME NEW c \in Callers, Prune(c) PROVE IInv'
  <2>1. store' \in [Items -> Slot] /\ ItemIdIsDigest'
    BY <1>6, PruneRows DEF IInv, ItemIdIsDigest
  <2>2. reported' \in [Items -> SUBSET Importers]
    BY <1>1, <1>6 DEF Prune, Recount, TypeOK
  <2> QED
    BY <1>1, <1>6, <2>1, <2>2, ReturnKeepsLocals DEF Prune, IInv, TypeOK
<1>7. ASSUME NEW c \in Callers, StoreError(c) PROVE IInv'
  <2>1. TypeOK' /\ ItemIdIsDigest'
    BY <1>1, <1>7, ReturnKeepsLocals DEF StoreError, IInv, TypeOK, ItemIdIsDigest, Held
  <2> QED
    BY <1>7, <2>1, ReturnKeepsLocals DEF StoreError, IInv
<1>8. ASSUME NEW c \in Callers, GetExistingItems(c) PROVE IInv'
  <2>1. TypeOK'
    BY <1>1, <1>8 DEF GetExistingItems, TypeOK, Phase
  <2>2. \A d \in Callers : view'[d] = IF d = c THEN store ELSE view[d]
    BY <1>1, <1>8 DEF GetExistingItems, TypeOK
  <2>3. op'[c] = "looked_up" /\ fresh' = fresh /\ \A d \in Callers : d # c => op'[d] = op[d]
    BY <1>1, <1>8 DEF GetExistingItems, TypeOK
  <2>4. ViewIsDigest'
    BY <2>2 DEF IInv, ItemIdIsDigest, ViewIsDigest, Held
  <2>5. fresh[c] = {}
    BY <1>8 DEF GetExistingItems, IInv, QueueAfterLookup
  <2>6. FreshHasRow' /\ RecordHasArg' /\ QueueAfterLookup'
    BY <1>8, <2>2, <2>3, <2>5 DEF GetExistingItems, IInv, FreshHasRow, RecordHasArg,
         QueueAfterLookup, Held
  <2> QED
    BY <1>8, <2>1, <2>4, <2>6 DEF GetExistingItems, IInv, ItemIdIsDigest, ClockReadBefore, Held
<1>9. ASSUME NEW c \in Callers, NEW o \in WireObjects, AcceptKnown(c, o) PROVE IInv'
  <2>1. TypeOK'
    BY <1>1, <1>9 DEF AcceptKnown, TypeOK
  <2>2. QueueAfterLookup'
    BY <1>1, <1>9 DEF AcceptKnown, Importable, TypeOK, IInv, QueueAfterLookup
  <2> QED
    BY <1>9, <2>1, <2>2 DEF AcceptKnown, IInv, ItemIdIsDigest, ViewIsDigest, FreshHasRow,
         ClockReadBefore, RecordHasArg, Held
<1>10. ASSUME NEW c \in Callers, NEW o \in WireObjects, AcceptNew(c, o) PROVE IInv'
  <2> DEFINE row == [envelope |-> o.envelope, expiry |-> o.expiry, hop |-> o.hop]
  <2>1. /\ o.item_id \in Items /\ row \in Record /\ row # NoRecord
        /\ row.envelope = o.item_id
    BY <1>10 DEF AcceptNew, Importable, WireObject, Record
  <2>2. \A d \in Callers, i \in Items :
          view'[d][i] = IF d = c /\ i = o.item_id THEN row ELSE view[d][i]
    BY <1>1, <1>10 DEF AcceptNew, TypeOK
  <2>3. \A d \in Callers : fresh'[d] \subseteq fresh[d] \union (IF d = c THEN {o.item_id} ELSE {})
    BY <1>1, <1>10 DEF AcceptNew, TypeOK
  <2> HIDE DEF row
  <2>4. TypeOK'
    <3>1. view' \in [Callers -> [Items -> Slot]]
      BY <1>1, <1>10, <2>1 DEF AcceptNew, TypeOK, Slot, row
    <3>2. fresh' \in [Callers -> SUBSET Items] /\ accepted' \in [Callers -> SUBSET WireObjects]
      BY <1>1, <1>10, <2>1 DEF AcceptNew, TypeOK
    <3> QED
      BY <1>1, <1>10, <3>1, <3>2 DEF AcceptNew, TypeOK
  <2>5. ViewIsDigest'
    BY <2>1, <2>2 DEF IInv, ViewIsDigest, Held
  <2>6. FreshHasRow'
    BY <1>1, <2>1, <2>2, <2>3 DEF IInv, TypeOK, FreshHasRow, Held
  <2>7. QueueAfterLookup'
    BY <1>1, <1>10 DEF AcceptNew, Importable, TypeOK, IInv, QueueAfterLookup
  <2> QED
    BY <1>10, <2>4, <2>5, <2>6, <2>7 DEF AcceptNew, IInv, ItemIdIsDigest, ClockReadBefore,
         RecordHasArg, Held
<1>11. ASSUME NEW c \in Importers, InsertImportItems(c) PROVE IInv'
  <2>1. store' \in [Items -> Slot] /\ ItemIdIsDigest'
    BY <1>11, InsertRows DEF IInv, ItemIdIsDigest
  <2>2. reported' \in [Items -> SUBSET Importers]
    BY <1>1, <1>11 DEF InsertImportItems, Recount, CountNew, TypeOK
  <2> QED
    BY <1>1, <1>11, <2>1, <2>2, ReturnKeepsLocals DEF InsertImportItems, IInv, TypeOK
<1>12. CASE UNCHANGED vars
  BY <1>12 DEF vars, callVars, IInv, TypeOK, ClockReadBefore, ItemIdIsDigest, ViewIsDigest,
       FreshHasRow, RecordHasArg, QueueAfterLookup, Held
<1> QED
  BY <1>2, <1>3, <1>4, <1>5, <1>6, <1>7, <1>8, <1>9, <1>10, <1>11, <1>12 DEF Next
----
(* The theorems. *)

LEMMA InvHolds == Spec => []IInv
BY InitInv, StepInv, PTL DEF Spec

\* Every reachable state has its type.
THEOREM TypeCorrect == Spec => []TypeOK
BY InvHolds, PTL DEF IInv

\* Whatever TRANSFER objects peers send, import_transfer_items and
\* record_local_payload store bytes only under their own digest.
THEOREM StoredUnderDigest == Spec => []ItemIdIsDigest
BY InvHolds, PTL DEF IInv

\* A step by step reading of the table: rows go only when expired, and gain.
LEMMA RowsGoAndGain ==
  ASSUME IInv, [Next]_vars, NEW i \in Items, Held(store, i)
  PROVE  /\ ~Held(store', i) => store[i].expiry <= now + Skew
         /\ Held(store', i) => /\ store'[i].expiry >= store[i].expiry
                               /\ store'[i].hop = store[i].hop
<1> USE StoreConstants
<1>1. store[i].expiry \in Nat /\ now \in Nat
  <2>1. store[i] \in Record
    BY DEF IInv, TypeOK, Held, Slot
  <2>2. store[i].expiry \in Expiries
    BY <2>1 DEF Record
  <2>3. now \in Nat
    BY DEF IInv, TypeOK
  <2> QED
    BY <2>2, <2>3
<1>2. \A c \in Callers : at[c] \in Nat /\ at[c] <= now
  BY DEF IInv, TypeOK, ClockReadBefore
<1>3. ASSUME NEW c \in Callers, RecordLocalItem(c)
      PROVE  /\ ~Held(store', i) => store[i].expiry <= at[c] + Skew
             /\ Held(store', i) => /\ store'[i].expiry >= store[i].expiry
                                   /\ store'[i].hop = store[i].hop
  BY <1>3, RecordRows
<1>4. ASSUME NEW c \in Callers, Prune(c)
      PROVE  /\ ~Held(store', i) => store[i].expiry <= at[c] + Skew
             /\ Held(store', i) => store'[i] = store[i]
  BY <1>4, PruneRows
<1>5. ASSUME NEW c \in Callers, InsertImportItems(c)
      PROVE  /\ ~Held(store', i) => store[i].expiry <= at[c] + Skew
             /\ Held(store', i) => store'[i] = store[i]
  BY <1>5, InsertRows
<1>6. CASE UNCHANGED store
  BY <1>1, <1>6 DEF Held
<1>7. CASE \E c \in Callers : StoreStep(c)
  BY <1>1, <1>2, <1>3, <1>4, <1>5, <1>7 DEF StoreStep
<1>8. UNCHANGED store \/ \E c \in Callers : StoreStep(c)
  BY OtherStepsKeepStore DEF vars
<1> QED
  BY <1>6, <1>7, <1>8

\* No step of any caller takes a row whose lifetime has not run out.
THEOREM PruneIsSafe == Spec => OnlyExpiredRowsGo
<1>1. IInv /\ [Next]_vars =>
        \A i \in Items : Held(store, i) /\ ~Held(store', i) => store[i].expiry <= now + Skew
  BY RowsGoAndGain
<1> QED
  BY <1>1, InvHolds, PTL DEF Spec, OnlyExpiredRowsGo

\* No step of any caller shortens a retained row's life or changes its hop count.
THEOREM RetentionIsMonotone == Spec => RetainedRowsOnlyGain
<1>1. IInv /\ [Next]_vars =>
        \A i \in Items : Held(store, i) /\ Held(store', i) =>
          /\ store'[i].expiry >= store[i].expiry
          /\ store'[i].hop = store[i].hop
  BY RowsGoAndGain
<1> QED
  BY <1>1, InvHolds, PTL DEF Spec, RetainedRowsOnlyGain

----
(* Between the two locked sections of an import other callers write to the *)
(* table: what the import found there is still there, or has run out.      *)

Backed(c, i) ==
  \/ Held(store, i) /\ store[i].expiry >= view[c][i].expiry
  \/ RanOut(view[c], i)

FoundIsBacked ==
  \A c \in Callers, i \in Items :
    op[c] = "looked_up" /\ Held(view[c], i) => i \in fresh[c] \/ Backed(c, i)
AcceptedHasRow == \A c \in Callers : \A o \in accepted[c] : Held(view[c], o.item_id)

LookupInv == FoundIsBacked /\ AcceptedHasRow

LEMMA RowLives ==
  ASSUME NEW s \in [Items -> Slot], NEW i \in Items, Held(s, i)
  PROVE  s[i].expiry \in Nat
<1>1. s[i] \in Record
  BY DEF Held, Slot
<1>2. s[i].expiry \in Expiries
  BY <1>1 DEF Record
<1> QED
  BY <1>2, StoreConstants

LEMMA TimePasses ==
  ASSUME IInv, [Next]_vars
  PROVE  now \in Nat /\ now' \in Nat /\ now <= now'
<1>1. now \in Nat
  BY StoreConstants DEF IInv, TypeOK
<1>2. CASE Tick
  BY <1>1, <1>2 DEF Tick
<1>3. ASSUME ~Tick PROVE now' = now
  BY <1>3 DEF Next, vars, StartRecord, RecordLocalItem, StartPrune, Prune, StoreError,
              StartImport, GetExistingItems, AcceptKnown, AcceptNew, InsertImportItems
<1> QED
  BY <1>1, <1>2, <1>3

LEMMA BackedLasts ==
  ASSUME IInv, [Next]_vars, NEW c \in Callers, NEW i \in Items,
         Held(view[c], i), view'[c][i] = view[c][i], Backed(c, i)
  PROVE  Backed(c, i)'
<1>1. now \in Nat /\ now' \in Nat /\ now <= now' /\ Skew \in Nat
  BY TimePasses, StoreConstants
<1>2. view[c][i].expiry \in Nat
  BY RowLives DEF IInv, TypeOK
<1>3. Held(view'[c], i)
  BY DEF Held
<1>4. CASE RanOut(view[c], i)
  BY <1>1, <1>2, <1>3, <1>4 DEF Backed, RanOut, Held
<1>5. CASE Held(store, i) /\ store[i].expiry >= view[c][i].expiry
  <2>1. store[i].expiry \in Nat
    BY <1>5, StoreConstants DEF IInv, TypeOK, Held, Slot, Record
  <2>2. CASE Held(store', i)
    <3>1. store'[i].expiry >= store[i].expiry
      BY <1>5, <2>2, RowsGoAndGain
    <3>2. store'[i].expiry \in Nat
      <4>1. store' \in [Items -> Slot]
        BY StepInv DEF IInv, TypeOK
      <4> QED
        BY <2>2, <4>1, StoreConstants DEF Held, Slot, Record
    <3> QED
      BY <1>2, <1>5, <2>1, <2>2, <3>1, <3>2 DEF Backed
  <2>3. CASE ~Held(store', i)
    <3>1. store[i].expiry <= now + Skew
      BY <1>5, <2>3, RowsGoAndGain
    <3> QED
      BY <1>1, <1>2, <1>3, <1>5, <2>1, <3>1 DEF Backed, RanOut, Held
  <2> QED
    BY <2>2, <2>3
<1> QED
  BY <1>4, <1>5 DEF Backed

\* A step after which nobody has looked up, queued or accepted anything more.
LEMMA LookupsLast ==
  ASSUME IInv, LookupInv, [Next]_vars,
         \A d \in Callers : 
           \/ op'[d] # "looked_up" /\ accepted'[d] = {}
           \/ op'[d] = op[d] /\ view'[d] = view[d] /\ fresh'[d] = fresh[d] /\ accepted'[d] = accepted[d]
  PROVE  LookupInv'
<1>1. FoundIsBacked'
  <2> SUFFICES ASSUME NEW d \in Callers, NEW i \in Items, op'[d] = "looked_up", Held(view'[d], i)
               PROVE  i \in fresh'[d] \/ Backed(d, i)'
    BY DEF FoundIsBacked, Held
  <2>1. op[d] = "looked_up" /\ view'[d] = view[d] /\ fresh'[d] = fresh[d]
    OBVIOUS
  <2>2. Held(view[d], i) /\ view'[d][i] = view[d][i]
    BY <2>1
  <2> QED
    BY <2>1, <2>2, BackedLasts DEF LookupInv, FoundIsBacked
<1>2. AcceptedHasRow'
  BY DEF LookupInv, AcceptedHasRow, Held
<1> QED
  BY <1>1, <1>2 DEF LookupInv

LEMMA LookupStep ==
  ASSUME IInv, LookupInv, [Next]_vars
  PROVE  LookupInv'
<1> USE StoreConstants
<1>1. TypeOK /\ QueueAfterLookup
  BY DEF IInv
<1>2. CASE UNCHANGED vars \/ Tick
  BY <1>2, LookupsLast DEF vars, callVars, Tick
<1>3. ASSUME NEW c \in Callers,
             (\E p \in Payloads : StartRecord(c, p)) \/ StartPrune(c) \/ StartImport(c)
      PROVE  LookupInv'
  <2>1. UNCHANGED <<view, fresh, accepted>> /\ op[c] = "idle" /\ op'[c] # "looked_up"
        /\ \A d \in Callers : d # c => op'[d] = op[d]
    BY <1>1, <1>3 DEF StartRecord, StartPrune, StartImport, Begin, TypeOK
  <2> QED
    BY <1>1, <2>1, LookupsLast DEF QueueAfterLookup
<1>4. ASSUME NEW c \in Callers, Return(c)
      PROVE  LookupInv'
  <2>1. \A d \in Callers :
           \/ op'[d] # "looked_up" /\ accepted'[d] = {}
           \/ op'[d] = op[d] /\ view'[d] = view[d] /\ fresh'[d] = fresh[d] /\ accepted'[d] = accepted[d]
    BY <1>1, <1>4, ReturnFacts
  <2> QED
    BY <2>1, LookupsLast
<1>5. ASSUME NEW c \in Importers, GetExistingItems(c) PROVE LookupInv'
  <2>1. /\ op[c] = "import" /\ accepted[c] = {}
        /\ UNCHANGED <<now, store, fresh, accepted>>
        /\ view'[c] = store
        /\ \A d \in Callers : d # c => op'[d] = op[d] /\ view'[d] = view[d]
    BY <1>1, <1>5 DEF GetExistingItems, TypeOK, QueueAfterLookup
  <2>2. ASSUME NEW i \in Items, Held(store, i)
        PROVE  Backed(c, i)'
    <3>1. store[i].expiry \in Nat
      BY <1>1, <2>2 DEF TypeOK, Held, Slot, Record
    <3> QED
      BY <2>1, <2>2, <3>1 DEF Backed, Held
  <2>3. ASSUME NEW d \in Callers, d # c, NEW i \in Items, Held(view'[d], i), op'[d] = "looked_up"
        PROVE  i \in fresh'[d] \/ Backed(d, i)'
    BY <2>1, <2>3, BackedLasts DEF LookupInv, FoundIsBacked
  <2>4. FoundIsBacked'
    BY <2>1, <2>2, <2>3 DEF FoundIsBacked, Held
  <2>5. AcceptedHasRow'
    BY <2>1 DEF LookupInv, AcceptedHasRow, Held
  <2> QED
    BY <2>4, <2>5 DEF LookupInv
<1>6. ASSUME NEW c \in Importers, NEW o \in WireObjects, AcceptKnown(c, o) PROVE LookupInv'
  <2>1. /\ UNCHANGED <<now, store, op, view, fresh>> /\ Held(view[c], o.item_id)
        /\ \A d \in Callers : accepted'[d] \subseteq accepted[d] \union (IF d = c THEN {o} ELSE {})
    BY <1>1, <1>6 DEF AcceptKnown, TypeOK
  <2>2. FoundIsBacked'
    BY <2>1 DEF LookupInv, FoundIsBacked, Backed, RanOut, Held
  <2>3. AcceptedHasRow'
    BY <2>1 DEF LookupInv, AcceptedHasRow, Held
  <2> QED
    BY <2>2, <2>3 DEF LookupInv
<1>7. ASSUME NEW c \in Importers, NEW o \in WireObjects, AcceptNew(c, o) PROVE LookupInv'
  <2> DEFINE row == [envelope |-> o.envelope, expiry |-> o.expiry, hop |-> o.hop]
  <2>1. o.item_id \in Items /\ row \in Record /\ row # NoRecord
    BY <1>7 DEF AcceptNew, Importable, WireObject, Record
  <2>2. UNCHANGED <<now, store, op>> /\ c \in Callers
    BY <1>7 DEF AcceptNew
  <2>3. \A d \in Callers, i \in Items :
          view'[d][i] = IF d = c /\ i = o.item_id THEN row ELSE view[d][i]
    BY <1>1, <1>7 DEF AcceptNew, TypeOK
  <2>4. \A d \in Callers : fresh'[d] = fresh[d] \union (IF d = c THEN {o.item_id} ELSE {})
    BY <1>1, <1>7 DEF AcceptNew, TypeOK
  <2>5. \A d \in Callers : accepted'[d] \subseteq accepted[d] \union (IF d = c THEN {o} ELSE {})
    BY <1>1, <1>7 DEF AcceptNew, TypeOK
  <2> HIDE DEF row
  <2>6. FoundIsBacked'
    BY <2>2, <2>3, <2>4 DEF LookupInv, FoundIsBacked, Backed, RanOut, Held
  <2>7. AcceptedHasRow'
    <3>1. \A d \in Callers : \A x \in accepted[d] : x.item_id \in Items
      BY <1>1 DEF TypeOK, WireObject
    <3> QED
      BY <2>1, <2>3, <2>5, <3>1 DEF LookupInv, AcceptedHasRow, Held
  <2> QED
    BY <2>6, <2>7 DEF LookupInv
<1> QED
  BY <1>2, <1>3, <1>4, <1>5, <1>6, <1>7
     DEF Next, RecordLocalItem, Prune, StoreError, InsertImportItems

\* Whatever other callers write and prune between the look-up of an import and
\* its insertion, and whatever lifetimes copies claim, what an import accepts is
\* held when it returns, or a row of it had run out.
THEOREM AcknowledgedIsHeld == Spec => AcceptedIsHeld
<1>1. ASSUME IInv, LookupInv, [Next]_vars, NEW c \in Importers, InsertImportItems(c),
             NEW o \in accepted[c]
      PROVE  \/ Held(store', o.item_id)
             \/ RanOut(view[c], o.item_id) \/ RanOut(store, o.item_id)
  <2>1. PICK i \in Items : i = o.item_id
    BY <1>1, StoreConstants DEF IInv, TypeOK, WireObject
  <2>2. c \in Callers /\ Held(view[c], i) /\ op[c] = "looked_up"
    BY <1>1, <2>1, StoreConstants DEF LookupInv, AcceptedHasRow, InsertImportItems
  <2>3. at[c] \in Nat /\ at[c] <= now /\ now \in Nat /\ Skew \in Nat
    BY <1>1, <2>2, StoreConstants DEF IInv, TypeOK, ClockReadBefore
  <2>4. view[c][i].expiry \in Nat /\ (Held(store, i) => store[i].expiry \in Nat)
    BY <1>1, <2>2, RowLives DEF IInv, TypeOK
  <2>5. ASSUME i \in fresh[c] PROVE Held(store', i) \/ RanOut(view[c], i) \/ RanOut(store, i)
    BY <1>1, <2>2, <2>3, <2>4, <2>5, InsertRows DEF RanOut
  <2>6. ASSUME i \notin fresh[c] PROVE Held(store', i) \/ RanOut(view[c], i) \/ RanOut(store, i)
    <3>1. Backed(c, i)
      BY <1>1, <2>2, <2>6 DEF LookupInv, FoundIsBacked
    <3>2. ASSUME Held(store, i), ~Held(store', i) PROVE store[i].expiry <= now + Skew
      BY <1>1, <3>2, RowsGoAndGain
    <3> QED
      BY <3>1, <3>2 DEF Backed, RanOut
  <2>7. Held(store', i) \/ RanOut(view[c], i) \/ RanOut(store, i)
    BY <2>5, <2>6
  <2> QED
    BY <2>1, <2>7
<1>2. Init => LookupInv
  BY DEF Init, LookupInv, FoundIsBacked, AcceptedHasRow
<1>3. IInv /\ LookupInv /\ [Next]_vars => LookupInv'
  BY LookupStep
<1>4. IInv /\ LookupInv /\ [Next]_vars =>
        \A c \in Importers : InsertImportItems(c) =>
          \A o \in accepted[c] :
            LET i == o.item_id IN Held(store', i) \/ RanOut(view[c], i) \/ RanOut(store, i)
  BY <1>1
<1> QED
  BY <1>2, <1>3, <1>4, InvHolds, PTL DEF Spec, AcceptedIsHeld

----
(* What an importer reported is in the table until it runs out, so that    *)
(* importer finds it there, whoever else reports it meanwhile.             *)

ReportedIsHeld == \A i \in Items : reported[i] # {} => Held(store, i)
ReporterKnows ==
  \A c \in Importers, i \in Items :
    op[c] = "looked_up" /\ c \in reported[i] => i \notin fresh[c] /\ Held(view[c], i)

ReportInv == ReportedIsHeld /\ ReporterKnows

\* A step that adds no report of an importer that is past its look-up keeps
\* ReportInv when those importers stay as they were or return.
LEMMA QuietSteps ==
  ASSUME ReportInv,
         \A i \in Items : reported'[i] # {} => Held(store', i),
         \A d \in Importers : op'[d] = "looked_up" =>
           /\ op[d] = "looked_up" /\ fresh'[d] = fresh[d] /\ view'[d] = view[d]
           /\ \A i \in Items : d \in reported'[i] => d \in reported[i]
  PROVE  ReportInv'
BY DEF ReportInv, ReportedIsHeld, ReporterKnows, Held

LEMMA ReportStep ==
  ASSUME IInv, ReportInv, [Next]_vars
  PROVE  ReportInv'
<1> USE StoreConstants
<1>1. TypeOK
  BY DEF IInv
<1>2. ASSUME UNCHANGED <<store, reported>>,
             \A d \in Importers : op'[d] = "looked_up" =>
               op[d] = "looked_up" /\ fresh'[d] = fresh[d] /\ view'[d] = view[d]
      PROVE  ReportInv'
  BY <1>2, QuietSteps DEF ReportInv, ReportedIsHeld, Held
<1>3. CASE UNCHANGED vars \/ Tick
  BY <1>2, <1>3 DEF vars, callVars, Tick
<1>4. ASSUME NEW c \in Callers,
             (\E p \in Payloads : StartRecord(c, p)) \/ StartPrune(c) \/ StartImport(c)
      PROVE  ReportInv'
  BY <1>1, <1>2, <1>4 DEF StartRecord, StartPrune, StartImport, Begin, TypeOK
<1>5. ASSUME NEW c \in Callers, StoreError(c) PROVE ReportInv'
  BY <1>1, <1>2, <1>5, ReturnFacts DEF StoreError
<1>6. ASSUME NEW c \in Callers, RecordLocalItem(c) \/ Prune(c) PROVE ReportInv'
  <2>1. reported' = Recount(store', reported) /\ Return(c)
    BY <1>6 DEF RecordLocalItem, Prune
  <2>2. /\ \A i \in Items : reported'[i] \subseteq reported[i]
        /\ \A i \in Items : reported'[i] # {} => Held(store', i)
    BY <2>1 DEF Recount
  <2>3. \A d \in Importers : op'[d] = "looked_up" =>
          op[d] = "looked_up" /\ fresh'[d] = fresh[d] /\ view'[d] = view[d]
    BY <1>1, <2>1, ReturnFacts
  <2> QED
    BY <2>2, <2>3, QuietSteps
<1>7. ASSUME NEW c \in Importers, GetExistingItems(c) PROVE ReportInv'
  <2>1. /\ view'[c] = store /\ fresh'[c] = {}
        /\ \A d \in Importers : d # c =>
             op'[d] = op[d] /\ view'[d] = view[d] /\ fresh'[d] = fresh[d]
    BY <1>1, <1>7 DEF GetExistingItems, TypeOK, IInv, QueueAfterLookup
  <2>2. UNCHANGED <<store, reported>>
    BY <1>7 DEF GetExistingItems
  <2>3. ReportedIsHeld'
    BY <2>2 DEF ReportInv, ReportedIsHeld, Held
  <2>4. ReporterKnows'
    BY <2>1, <2>2 DEF ReportInv, ReportedIsHeld, ReporterKnows, Held
  <2> QED
    BY <2>3, <2>4 DEF ReportInv
<1>8. ASSUME NEW c \in Importers, NEW o \in WireObjects, AcceptKnown(c, o) PROVE ReportInv'
  BY <1>2, <1>8 DEF AcceptKnown
<1>9. ASSUME NEW c \in Importers, NEW o \in WireObjects, AcceptNew(c, o) PROVE ReportInv'
  <2>1. UNCHANGED <<store, reported, op>> /\ op[c] = "looked_up"
    BY <1>9 DEF AcceptNew, Importable
  <2>2. \A d \in Importers : d # c => fresh'[d] = fresh[d] /\ view'[d] = view[d]
    BY <1>1, <1>9 DEF AcceptNew, TypeOK
  <2>3. \A i \in Items : i \in fresh'[c] => i \in fresh[c] \/ ~Held(view[c], i)
    BY <1>1, <1>9 DEF AcceptNew, TypeOK
  <2>4. \A i \in Items : Held(view[c], i) => view'[c][i] = view[c][i]
    BY <1>1, <1>9 DEF AcceptNew, TypeOK
  <2> QED
    BY <2>1, <2>2, <2>3, <2>4 DEF ReportInv, ReportedIsHeld, ReporterKnows, Held
<1>10. ASSUME NEW c \in Importers, InsertImportItems(c) PROVE ReportInv'
  <2> DEFINE r == CountNew(reported, c, fresh[c])
  <2>1. \A i \in Items : r[i] \subseteq reported[i] \union {c}
    BY DEF CountNew
  <2>2. reported' = Recount(store', r) /\ Return(c)
    BY <1>10 DEF InsertImportItems
  <2> HIDE DEF r
  <2>3. \A i \in Items : /\ reported'[i] \subseteq reported[i] \union {c}
                         /\ reported'[i] # {} => Held(store', i)
    BY <2>1, <2>2 DEF Recount
  <2>4. \A d \in Importers : op'[d] = "looked_up" =>
          d # c /\ op[d] = "looked_up" /\ fresh'[d] = fresh[d] /\ view'[d] = view[d]
    BY <1>1, <2>2, ReturnFacts
  <2> QED
    BY <2>3, <2>4, QuietSteps
<1> QED
  BY <1>3, <1>4, <1>5, <1>6, <1>7, <1>8, <1>9, <1>10 DEF Next

\* However many threads import, and whatever they and the others do between the
\* look-up and the insertion of an import, no thread reports an item as new twice
\* while it is retained.  Two threads may both report it: that is the race two
\* bearers have, and what it adds to a chat is bounded by the number of importers.
\* ChatDelivery follows what becomes of the second report.
THEOREM ReportedOnceByEach == Spec => EachReportsOnce
<1>1. Init => ReportInv
  BY DEF Init, ReportInv, ReportedIsHeld, ReporterKnows
<1>2. IInv /\ ReportInv /\ [Next]_vars => ReportInv'
  BY ReportStep
<1>3. IInv /\ ReportInv =>
        \A c \in Importers : InsertImportItems(c) =>
          \A i \in fresh[c] : c \notin reported[i]
  <2> SUFFICES ASSUME IInv, ReportInv, NEW c \in Importers, InsertImportItems(c), NEW i \in fresh[c],
                      c \in reported[i]
               PROVE  FALSE
    OBVIOUS
  <2> QED
    BY StoreConstants DEF IInv, TypeOK, ReportInv, ReporterKnows, InsertImportItems
<1> QED
  BY <1>1, <1>2, <1>3, InvHolds, PTL DEF Spec, EachReportsOnce
====
