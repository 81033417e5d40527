---- MODULE RelayWorker_proofs ----
(***************************************************************************)
(* Leases: for any number of relays, lists and diagnostics commands, one   *)
(* session per relay, no lease left behind, and sessions that stand in the *)
(* slot of their relay.                                                    *)
(***************************************************************************)
EXTENDS RelayWorker, TLAPS

-----------------------------------------------------------------------------
(* The leases as one function of the places a lease can be in.             *)

Places == Nat \cup Diagnosers

Held == [h \in Places |->
  IF h = 0 THEN opening
  ELSE IF h \in DOMAIN sessions THEN sessions[h]
  ELSE IF h \in Diagnosers THEN probe[h].lease
  ELSE NoLease]

\* held is a set of leases that the registry reg agrees with: what is held is
\* registered, one lease per key, and what is registered is held.
Agree(held, reg) ==
  /\ \A h \in Places : held[h] # NoLease => held[h] \in Lease /\ reg[held[h].key] = held[h].attempt
  /\ \A g, h \in Places :
       g # h /\ held[g] # NoLease /\ held[h] # NoLease => held[g].key # held[h].key
  /\ \A k \in Keys : reg[k] # 0 => \E h \in Places : held[h] = [key |-> k, attempt |-> reg[k]]

Without(held, dropped) == [h \in Places |-> IF h \in dropped THEN NoLease ELSE held[h]]

Forget(reg, held, dropped) == [k \in Keys |->
  IF reg[k] # 0 /\ [key |-> k, attempt |-> reg[k]] \in {held[h] : h \in dropped} THEN 0 ELSE reg[k]]

\* Taking the lease of an idle key, as acquire does under the lock of the registry.
LEMMA AcquireAgrees ==
  ASSUME NEW held, NEW reg, Agree(held, reg), held = [h \in Places |-> held[h]],
         reg \in [Keys -> Attempts \cup {0}],
         NEW k \in Keys, reg[k] = 0, NEW n \in Attempts, NEW h \in Places, held[h] = NoLease
  PROVE  Agree([held EXCEPT ![h] = [key |-> k, attempt |-> n]], [reg EXCEPT ![k] = n])
<1> DEFINE l == [key |-> k, attempt |-> n]
           held2 == [held EXCEPT ![h] = l]
           reg2 == [reg EXCEPT ![k] = n]
<1>1. l \in Lease /\ l.key = k /\ l.attempt = n /\ l # NoLease
  BY LeaseAssumption DEF Lease
<1>2. held2[h] = l /\ \A g \in Places : g # h => held2[g] = held[g]
  OBVIOUS
<1>3. reg2[k] = n /\ \A j \in Keys : j # k => reg2[j] = reg[j]
  OBVIOUS
<1>4. \A g \in Places : held[g] # NoLease => held[g] \in Lease /\ held[g].key \in Keys /\ held[g].key # k
  BY LeaseAssumption DEF Agree, Lease
<1> HIDE DEF held2, reg2, l
<1>5. \A g \in Places : held2[g] # NoLease => held2[g] \in Lease /\ reg2[held2[g].key] = held2[g].attempt
  BY <1>1, <1>2, <1>3, <1>4 DEF Agree
<1>6. \A f, g \in Places :
        f # g /\ held2[f] # NoLease /\ held2[g] # NoLease => held2[f].key # held2[g].key
  BY <1>1, <1>2, <1>4 DEF Agree
<1>7. ASSUME NEW j \in Keys, reg2[j] # 0
      PROVE  \E g \in Places : held2[g] = [key |-> j, attempt |-> reg2[j]]
  <2>1. CASE j = k
    BY <2>1, <1>2, <1>3 DEF l
  <2>2. CASE j # k
    <3>1. PICK g \in Places : held[g] = [key |-> j, attempt |-> reg[j]]
      BY <2>2, <1>3, <1>7 DEF Agree
    <3>2. reg[j] \in Attempts
      BY <2>2, <1>3, <1>7
    <3>3. held[g] # NoLease
      BY <3>1, <3>2, LeaseAssumption DEF Lease
    <3> QED BY <3>1, <3>3, <2>2, <1>2, <1>3
  <2> QED BY <2>1, <2>2
<1> QED BY <1>5, <1>6, <1>7 DEF Agree, held2, reg2, l

\* Dropping the leases of some places: each drop removes the attempt it owns.
LEMMA DropAgrees ==
  ASSUME NEW held, NEW reg, Agree(held, reg),
         reg \in [Keys -> Attempts \cup {0}], NEW dropped \in SUBSET Places
  PROVE  Agree(Without(held, dropped), Forget(reg, held, dropped))
<1> DEFINE held2 == Without(held, dropped)
           reg2 == Forget(reg, held, dropped)
<1>1. \A h \in Places : held2[h] # NoLease => h \notin dropped /\ held2[h] = held[h]
  BY DEF Without
<1>2. \A h \in Places : h \notin dropped => held2[h] = held[h]
  BY DEF Without
<1>3. \A k \in Keys : reg2[k] # 0 => reg2[k] = reg[k] /\ [key |-> k, attempt |-> reg[k]] \notin {held[h] : h \in dropped}
  BY DEF Forget
<1>4. ASSUME NEW h \in Places, held2[h] # NoLease
      PROVE  held2[h] \in Lease /\ reg2[held2[h].key] = held2[h].attempt
  <2>1. held[h] \in Lease /\ h \notin dropped /\ held2[h] = held[h] /\ held[h] # NoLease
    BY <1>1, <1>4 DEF Agree
  <2>2. held[h].key \in Keys /\ reg[held[h].key] = held[h].attempt /\ held[h].attempt # 0
    BY <2>1, LeaseAssumption DEF Agree, Lease
  <2>3. [key |-> held[h].key, attempt |-> held[h].attempt] = held[h]
    BY <2>1 DEF Lease
  <2>4. held[h] \notin {held[g] : g \in dropped}
    <3> SUFFICES ASSUME NEW g \in dropped, held[g] = held[h] PROVE FALSE
      OBVIOUS
    <3> g # h /\ g \in Places
      BY <2>1
    <3> QED BY <2>1 DEF Agree
  <2>5. reg2[held[h].key] = reg[held[h].key]
    BY <2>2, <2>3, <2>4 DEF Forget
  <2> QED BY <2>1, <2>2, <2>5
<1>5. \A g, h \in Places :
        g # h /\ held2[g] # NoLease /\ held2[h] # NoLease => held2[g].key # held2[h].key
  BY <1>1 DEF Agree
<1>6. ASSUME NEW k \in Keys, reg2[k] # 0
      PROVE  \E h \in Places : held2[h] = [key |-> k, attempt |-> reg2[k]]
  <2>1. reg2[k] = reg[k] /\ [key |-> k, attempt |-> reg[k]] \notin {held[h] : h \in dropped}
    BY <1>3, <1>6
  <2>2. PICK h \in Places : held[h] = [key |-> k, attempt |-> reg[k]]
    BY <2>1, <1>6 DEF Agree
  <2>3. h \notin dropped
    BY <2>1, <2>2
  <2> QED BY <2>1, <2>2, <2>3, <1>2
<1> QED BY <1>4, <1>5, <1>6 DEF Agree

\* A lease that changes its place, as a session that is put into its slot.
LEMMA MoveAgrees ==
  ASSUME NEW held, NEW reg, Agree(held, reg), held = [h \in Places |-> held[h]],
         NEW f \in Places, NEW g \in Places, f # g, held[g] = NoLease
  PROVE  Agree([held EXCEPT ![f] = NoLease, ![g] = held[f]], reg)
<1> DEFINE held2 == [held EXCEPT ![f] = NoLease, ![g] = held[f]]
<1>1. held2[f] = NoLease /\ held2[g] = held[f] /\ \A h \in Places : h # f /\ h # g => held2[h] = held[h]
  OBVIOUS
<1> HIDE DEF held2
<1>2. \A h \in Places : held2[h] # NoLease => held2[h] \in Lease /\ reg[held2[h].key] = held2[h].attempt
  BY <1>1 DEF Agree
<1>3. \A h, i \in Places :
        h # i /\ held2[h] # NoLease /\ held2[i] # NoLease => held2[h].key # held2[i].key
  BY <1>1 DEF Agree
<1>4. ASSUME NEW k \in Keys, reg[k] # 0
      PROVE  \E h \in Places : held2[h] = [key |-> k, attempt |-> reg[k]]
  <2>1. PICK h \in Places : held[h] = [key |-> k, attempt |-> reg[k]]
    BY <1>4 DEF Agree
  <2> QED BY <2>1, <1>1
<1> QED BY <1>2, <1>3, <1>4 DEF Agree, held2
-----------------------------------------------------------------------------
(* The type of the state. *)

\* Where the worker is: only while it connects is a session being opened, and
\* it has read a list of relays before it looks at a slot.
WorkerIsPlaced ==
  /\ opening # NoLease <=> pc = "connect"
  /\ pc \notin {"top", "dead"} => known \in Configs
  /\ pc \in {"open", "connect", "round"} => slot \in DOMAIN known
  /\ pc = "round" => slot \in Open
  /\ pc = "connect" => opening.key = Key[known[slot]] /\ slot \notin Open

LEMMA Remainder ==
  ASSUME NEW n \in Nat \ {0}, NEW i \in Nat
  PROVE  (i % n) + 1 \in 1..n
OBVIOUS

LEMMA Shape ==
  ASSUME TypeOK
  PROVE  /\ known \in Seq(Endpoints) /\ Len(known) \in Nat /\ DOMAIN known = 1..Len(known)
         /\ DOMAIN due = DOMAIN known
         /\ DOMAIN sessions \subseteq DOMAIN known
         /\ Open \subseteq DOMAIN sessions
         /\ \A i \in DOMAIN sessions : sessions[i] \in Lease \cup {NoLease}
         /\ \A i \in Open : sessions[i] \in Lease
BY ConfigsAssumption DEF TypeOK, Open

LEMMA RegistryStaysTyped ==
  ASSUME TypeOK, NEW dropped, Drop(dropped)
  PROVE  registry' \in [Keys -> Attempts \cup {0}]
BY DEF TypeOK, Drop

LEMMA NewLeaseIsLease ==
  ASSUME NEW k \in Keys, Unused # {}
  PROVE  NewLease(k) \in Lease /\ NewLease(k).key = k /\ NewLease(k).attempt \in Attempts
BY DEF NewLease, Lease, Unused

LEMMA TypeStep ==
  ASSUME TypeOK, [Next]_vars, WorkerIsPlaced
  PROVE  TypeOK'
<1>1. CASE SaveSettings
  BY <1>1 DEF SaveSettings, TypeOK, vars, settings, requests, slots, worker
<1>2. CASE Ask
  BY <1>2, PendingAssumption DEF Ask, TypeOK, vars, settings, requests, slots, worker
<1>3. CASE Tell
  BY <1>3, PendingAssumption DEF Tell, TypeOK, vars, settings, requests, slots, worker
<1>4. CASE PeriodElapses
  BY <1>4 DEF PeriodElapses, TypeOK, vars, settings, requests, slots, worker
<1>5. CASE Disabled
  BY <1>5, RegistryStaysTyped, PendingAssumption DEF Disabled, TypeOK, vars, settings, requests, slots, worker, WorkerIsPlaced, DiscardCommand
<1>6. CASE Reload
  BY <1>6, ConfigsAssumption, RegistryStaysTyped DEF Reload, TypeOK, vars, settings, requests, slots, worker, WorkerIsPlaced
<1>7. CASE Unchanged
  BY <1>7 DEF Unchanged, TypeOK, vars, settings, requests, slots, worker
<1>8. CASE NoIdentity
  BY <1>8, PendingAssumption DEF NoIdentity, DiscardCommand, TypeOK, vars, settings, requests, slots, worker
<1>9. CASE SyncRequested
  <2>1. pending' \in 0..MaxPending
    BY <1>9, PendingAssumption DEF SyncRequested, TypeOK
  <2> QED BY <2>1, <1>9 DEF SyncRequested, TypeOK, vars, settings, requests, slots, worker
<1>10. CASE SyncPeriodically
  BY <1>10 DEF SyncPeriodically, TypeOK, vars, settings, requests, slots, worker
<1>11. CASE NothingToDo
  BY <1>11 DEF NothingToDo, TypeOK, vars, settings, requests, slots, worker
<1>12. CASE Poll
  <2>1. PICK closed \in SUBSET Open : \E failed \in SUBSET closed :
          /\ Drop(Sessions(closed))
          /\ sessions' = [i \in DOMAIN sessions |-> IF i \in closed THEN NoLease ELSE sessions[i]]
          /\ due' = [i \in DOMAIN due |-> IF i \in Open THEN i \notin failed ELSE due[i]]
          /\ \/ UNCHANGED periodic
             \/ Open # failed /\ periodic' = FALSE
    BY <1>12 DEF Poll
  <2>2. registry' \in [Keys -> Attempts \cup {0}]
    BY <2>1, RegistryStaysTyped
  <2>3. sessions' = <<>> \/ sessions' \in [DOMAIN known -> Lease \cup {NoLease}]
    <3>1. CASE sessions = <<>>
      BY <3>1, <2>1
    <3>2. CASE sessions \in [DOMAIN known -> Lease \cup {NoLease}]
      BY <3>2, <2>1
    <3> QED BY <3>1, <3>2 DEF TypeOK
  <2>4. due' \in [DOMAIN known -> BOOLEAN]
    BY <2>1 DEF TypeOK
  <2>5. periodic' \in BOOLEAN
    BY <2>1 DEF TypeOK
  <2> QED BY <2>2, <2>3, <2>4, <2>5, <1>12 DEF Poll, TypeOK, vars, settings, requests, slots, worker
<1>13. CASE Select
  BY <1>13, Shape, Remainder DEF Select, TypeOK, vars, settings, requests, slots, worker, WorkerIsPlaced, After, Due
<1>14. CASE NoneDue
  BY <1>14, PendingAssumption DEF NoneDue, DiscardCommand, TypeOK, vars, settings, requests, slots, worker
<1>15. CASE Reuse
  BY <1>15 DEF Reuse, TypeOK, vars, settings, requests, slots, worker
<1>16. CASE StartOpening
  BY <1>16, Shape, NewLeaseIsLease, KeyAssumption DEF StartOpening, TypeOK, vars, settings, requests, slots, worker, WorkerIsPlaced, Acquire
<1>17. CASE Refused
  BY <1>17, Shape DEF Refused, TypeOK, vars, settings, requests, slots, worker, WorkerIsPlaced, BackOff
<1>18. CASE ConnectFails
  BY <1>18, Shape, RegistryStaysTyped DEF ConnectFails, TypeOK, vars, settings, requests, slots, worker, WorkerIsPlaced, BackOff
<1>19. CASE Connected
  BY <1>19, Shape DEF Connected, TypeOK, vars, settings, requests, slots, worker, WorkerIsPlaced
<1>20. CASE Panic
  BY <1>20, RegistryStaysTyped DEF Panic, TypeOK, vars, settings, requests, slots, worker, WorkerIsPlaced
<1>21. CASE RoundSucceeds
  BY <1>21, Shape DEF RoundSucceeds, TypeOK, vars, settings, requests, slots, worker, WorkerIsPlaced, Open
<1>22. CASE RoundCloses
  <2>1. registry' \in [Keys -> Attempts \cup {0}]
    BY <1>22, RegistryStaysTyped DEF RoundCloses
  <2>2. sessions' = <<>> \/ sessions' \in [DOMAIN known -> Lease \cup {NoLease}]
    <3>1. sessions \in [DOMAIN known -> Lease \cup {NoLease}]
      BY <1>22 DEF RoundCloses, TypeOK, WorkerIsPlaced, Open
    <3> QED BY <3>1, <1>22 DEF RoundCloses
  <2>3. due' \in [DOMAIN known -> BOOLEAN]
    BY <1>22 DEF RoundCloses, BackOff, TypeOK
  <2>4. periodic' \in BOOLEAN
    BY <1>22 DEF RoundCloses, TypeOK
  <2> QED BY <2>1, <2>2, <2>3, <2>4, <1>22 DEF RoundCloses, TypeOK, vars, settings, requests, slots, worker
<1>23. ASSUME NEW i \in DOMAIN due, BackoffElapses(i) PROVE TypeOK'
  BY <1>23, Shape DEF BackoffElapses, TypeOK, vars, settings, requests, slots, worker
<1>24. ASSUME NEW d \in Diagnosers, StartProbe(d) PROVE TypeOK'
  BY <1>24, RegistryStaysTyped, NewLeaseIsLease, KeyAssumption DEF StartProbe, TypeOK, vars, settings, requests, slots, worker, Lend, Acquire
<1>25. ASSUME NEW d \in Diagnosers, EndProbe(d) PROVE TypeOK'
  BY <1>25, RegistryStaysTyped, NewLeaseIsLease, KeyAssumption DEF EndProbe, TypeOK, vars, settings, requests, slots, worker
<1>26. ASSUME NEW d \in Diagnosers, StartEncounter(d) PROVE TypeOK'
  BY <1>26, RegistryStaysTyped, NewLeaseIsLease, KeyAssumption DEF StartEncounter, TypeOK, vars, settings, requests, slots, worker, Lend, Acquire
<1>27. ASSUME NEW d \in Diagnosers, SkipEncounter(d) PROVE TypeOK'
  BY <1>27, RegistryStaysTyped, NewLeaseIsLease, KeyAssumption DEF SkipEncounter, TypeOK, vars, settings, requests, slots, worker, Idling
<1>28. ASSUME NEW d \in Diagnosers, EndEncounter(d) PROVE TypeOK'
  BY <1>28, RegistryStaysTyped, NewLeaseIsLease, KeyAssumption DEF EndEncounter, TypeOK, vars, settings, requests, slots, worker, Idling
<1>29. CASE UNCHANGED vars
  BY <1>29 DEF TypeOK, vars, settings, requests, slots, worker
<1> QED
  BY <1>1, <1>2, <1>3, <1>4, <1>5, <1>6, <1>7, <1>8, <1>9, <1>10, <1>11, <1>12, <1>13, <1>14, <1>15, <1>16, <1>17, <1>18, <1>19, <1>20, <1>21, <1>22, <1>23, <1>24, <1>25, <1>26, <1>27, <1>28, <1>29 DEF Next, Worker, Diagnose
-----------------------------------------------------------------------------
(* Where the worker and the diagnostics are. *)

\* Between a probe and an encounter a diagnostics command holds nothing.
ProbesAreSound ==
  \A d \in Diagnosers : probe[d].stage \in {"idle", "connected"} => probe[d].lease = NoLease

Placed == WorkerIsPlaced /\ SlotIsItsRelay /\ ProbesAreSound

LEMMA PlacedStep ==
  ASSUME TypeOK, Placed, [Next]_vars
  PROVE  Placed'
<1>1. CASE SaveSettings
  BY <1>1 DEF SaveSettings, Placed, WorkerIsPlaced, SlotIsItsRelay, ProbesAreSound, Open, TypeOK, vars, settings, requests, slots, worker
<1>2. CASE Ask
  BY <1>2 DEF Ask, Placed, WorkerIsPlaced, SlotIsItsRelay, ProbesAreSound, Open, TypeOK, vars, settings, requests, slots, worker
<1>3. CASE Tell
  BY <1>3 DEF Tell, Placed, WorkerIsPlaced, SlotIsItsRelay, ProbesAreSound, Open, TypeOK, vars, settings, requests, slots, worker
<1>4. CASE PeriodElapses
  BY <1>4 DEF PeriodElapses, Placed, WorkerIsPlaced, SlotIsItsRelay, ProbesAreSound, Open, TypeOK, vars, settings, requests, slots, worker
<1>5. CASE Disabled
  BY <1>5 DEF Disabled, Placed, WorkerIsPlaced, SlotIsItsRelay, ProbesAreSound, Open, TypeOK, vars, settings, requests, slots, worker
<1>6. CASE Reload
  BY <1>6, Shape, ConfigsAssumption DEF Reload, Placed, WorkerIsPlaced, SlotIsItsRelay, ProbesAreSound, Open, TypeOK, vars, settings, requests, slots, worker
<1>7. CASE Unchanged
  BY <1>7 DEF Unchanged, Placed, WorkerIsPlaced, SlotIsItsRelay, ProbesAreSound, Open, TypeOK, vars, settings, requests, slots, worker
<1>8. CASE NoIdentity
  BY <1>8 DEF NoIdentity, Placed, WorkerIsPlaced, SlotIsItsRelay, ProbesAreSound, Open, TypeOK, vars, settings, requests, slots, worker
<1>9. CASE SyncRequested
  BY <1>9 DEF SyncRequested, Placed, WorkerIsPlaced, SlotIsItsRelay, ProbesAreSound, Open, TypeOK, vars, settings, requests, slots, worker
<1>10. CASE SyncPeriodically
  BY <1>10 DEF SyncPeriodically, Placed, WorkerIsPlaced, SlotIsItsRelay, ProbesAreSound, Open, TypeOK, vars, settings, requests, slots, worker
<1>11. CASE NothingToDo
  BY <1>11 DEF NothingToDo, Placed, WorkerIsPlaced, SlotIsItsRelay, ProbesAreSound, Open, TypeOK, vars, settings, requests, slots, worker
<1>12. CASE Poll
  BY <1>12 DEF Poll, Placed, WorkerIsPlaced, SlotIsItsRelay, ProbesAreSound, Open, TypeOK, vars, settings, requests, slots, worker
<1>13. CASE Select
  BY <1>13, Shape DEF Select, Due, Placed, WorkerIsPlaced, SlotIsItsRelay, ProbesAreSound, Open, TypeOK, vars, settings, requests, slots, worker
<1>14. CASE NoneDue
  BY <1>14 DEF NoneDue, Placed, WorkerIsPlaced, SlotIsItsRelay, ProbesAreSound, Open, TypeOK, vars, settings, requests, slots, worker
<1>15. CASE Reuse
  BY <1>15 DEF Reuse, Placed, WorkerIsPlaced, SlotIsItsRelay, ProbesAreSound, Open, TypeOK, vars, settings, requests, slots, worker
<1>16. CASE StartOpening
  BY <1>16, Shape, NewLeaseIsLease, KeyAssumption, LeaseAssumption DEF StartOpening, Acquire, Placed, WorkerIsPlaced, SlotIsItsRelay, ProbesAreSound, Open, TypeOK, vars, settings, requests, slots, worker
<1>17. CASE Refused
  BY <1>17 DEF Refused, Placed, WorkerIsPlaced, SlotIsItsRelay, ProbesAreSound, Open, TypeOK, vars, settings, requests, slots, worker
<1>18. CASE ConnectFails
  BY <1>18 DEF ConnectFails, Placed, WorkerIsPlaced, SlotIsItsRelay, ProbesAreSound, Open, TypeOK, vars, settings, requests, slots, worker
<1>19. CASE Connected
  BY <1>19 DEF Connected, Placed, WorkerIsPlaced, SlotIsItsRelay, ProbesAreSound, Open, TypeOK, vars, settings, requests, slots, worker
<1>20. CASE Panic
  BY <1>20 DEF Panic, Placed, WorkerIsPlaced, SlotIsItsRelay, ProbesAreSound, Open, TypeOK, vars, settings, requests, slots, worker
<1>21. CASE RoundSucceeds
  BY <1>21 DEF RoundSucceeds, Placed, WorkerIsPlaced, SlotIsItsRelay, ProbesAreSound, Open, TypeOK, vars, settings, requests, slots, worker
<1>22. CASE RoundCloses
  BY <1>22 DEF RoundCloses, Placed, WorkerIsPlaced, SlotIsItsRelay, ProbesAreSound, Open, TypeOK, vars, settings, requests, slots, worker
<1>23. ASSUME NEW i \in DOMAIN due, BackoffElapses(i) PROVE Placed'
  BY <1>23 DEF BackoffElapses, Placed, WorkerIsPlaced, SlotIsItsRelay, ProbesAreSound, Open, TypeOK, vars, settings, requests, slots, worker
<1>24. ASSUME NEW d \in Diagnosers, StartProbe(d) PROVE Placed'
  BY <1>24 DEF StartProbe, Lend, Placed, WorkerIsPlaced, SlotIsItsRelay, ProbesAreSound, Open, TypeOK, vars, settings, requests, slots, worker
<1>25. ASSUME NEW d \in Diagnosers, EndProbe(d) PROVE Placed'
  BY <1>25 DEF EndProbe, Placed, WorkerIsPlaced, SlotIsItsRelay, ProbesAreSound, Open, TypeOK, vars, settings, requests, slots, worker
<1>26. ASSUME NEW d \in Diagnosers, StartEncounter(d) PROVE Placed'
  BY <1>26 DEF StartEncounter, Lend, Placed, WorkerIsPlaced, SlotIsItsRelay, ProbesAreSound, Open, TypeOK, vars, settings, requests, slots, worker
<1>27. ASSUME NEW d \in Diagnosers, SkipEncounter(d) PROVE Placed'
  BY <1>27 DEF SkipEncounter, Idling, Placed, WorkerIsPlaced, SlotIsItsRelay, ProbesAreSound, Open, TypeOK, vars, settings, requests, slots, worker
<1>28. ASSUME NEW d \in Diagnosers, EndEncounter(d) PROVE Placed'
  BY <1>28 DEF EndEncounter, Idling, Placed, WorkerIsPlaced, SlotIsItsRelay, ProbesAreSound, Open, TypeOK, vars, settings, requests, slots, worker
<1>29. CASE UNCHANGED vars
  BY <1>29 DEF Placed, WorkerIsPlaced, SlotIsItsRelay, ProbesAreSound, Open, TypeOK, vars, settings, requests, slots, worker
<1> QED
  BY <1>1, <1>2, <1>3, <1>4, <1>5, <1>6, <1>7, <1>8, <1>9, <1>10, <1>11, <1>12, <1>13, <1>14, <1>15, <1>16, <1>17, <1>18, <1>19, <1>20, <1>21, <1>22, <1>23, <1>24, <1>25, <1>26, <1>27, <1>28, <1>29 DEF Next, Worker, Diagnose
-----------------------------------------------------------------------------
(* The registry and the leases that are held. *)

LEMMA HeldAt ==
  ASSUME TypeOK
  PROVE  /\ Held = [h \in Places |-> Held[h]]
         /\ DOMAIN sessions \subseteq Nat \ {0}
         /\ Held[0] = opening
         /\ \A i \in DOMAIN sessions : Held[i] = sessions[i]
         /\ \A i \in Nat \ {0} : i \notin DOMAIN sessions => Held[i] = NoLease
         /\ \A d \in Diagnosers : d \in Places /\ d \notin Nat /\ Held[d] = probe[d].lease
BY Shape, DiagnosersAssumption DEF Held, Places

LEMMA HeldIsKept ==
  ASSUME UNCHANGED <<registry, sessions, opening, probe>>, Agree(Held, registry)
  PROVE  Agree(Held, registry)'
BY DEF Agree, Held, Places

LEMMA AgreeAfter ==
  ASSUME NEW held, NEW reg, Agree(held, reg), Held' = held, registry' = reg
  PROVE  Agree(Held, registry)'
BY DEF Agree, Places

LEMMA AcquireKeeps ==
  ASSUME TypeOK, Agree(Held, registry), NEW k \in Keys, Acquire(k), NEW h \in Places,
         Held[h] = NoLease, Held' = [Held EXCEPT ![h] = NewLease(k)]
  PROVE  Agree(Held, registry)'
<1>1. registry \in [Keys -> Attempts \cup {0}] /\ registry[k] = 0
  BY DEF TypeOK, Acquire, Busy
<1>2. NewLease(k).attempt \in Attempts /\ NewLease(k) = [key |-> k, attempt |-> NewLease(k).attempt]
  <2>1. Unused # {}
    BY DEF Acquire
  <2>2. NewLease(k).attempt \in Attempts
    BY <2>1, NewLeaseIsLease
  <2>3. NewLease(k) = [key |-> k, attempt |-> NewLease(k).attempt]
    BY DEF NewLease
  <2> QED BY <2>2, <2>3
<1>3. Agree([Held EXCEPT ![h] = [key |-> k, attempt |-> NewLease(k).attempt]],
            [registry EXCEPT ![k] = NewLease(k).attempt])
  BY <1>1, <1>2, HeldAt, AcquireAgrees
<1>4. registry' = [registry EXCEPT ![k] = NewLease(k).attempt]
  BY DEF Acquire
<1> QED BY <1>2, <1>3, <1>4, AgreeAfter

LEMMA DropKeeps ==
  ASSUME TypeOK, Agree(Held, registry), NEW dropped \in SUBSET Places,
         Drop({Held[h] : h \in dropped}), Held' = Without(Held, dropped)
  PROVE  Agree(Held, registry)'
<1>1. Agree(Without(Held, dropped), Forget(registry, Held, dropped))
  BY DropAgrees DEF TypeOK
<1>2. registry' = Forget(registry, Held, dropped)
  BY DEF Drop, Forget
<1> QED BY <1>1, <1>2, AgreeAfter

LEMMA AgreeStep ==
  ASSUME TypeOK, Placed, Agree(Held, registry), [Next]_vars
  PROVE  Agree(Held, registry)'
<1> DEFINE Kept == UNCHANGED <<registry, sessions, opening, probe>>
<1>1. ASSUME \/ SaveSettings \/ Ask \/ Tell \/ PeriodElapses \/ Unchanged \/ NoIdentity \/ SyncRequested
             \/ SyncPeriodically \/ NothingToDo \/ Select \/ NoneDue \/ Reuse \/ Refused \/ RoundSucceeds
             \/ \E i \in DOMAIN due : BackoffElapses(i)
             \/ UNCHANGED vars
      PROVE  Agree(Held, registry)'
  <2>1. Kept
    BY <1>1 DEF SaveSettings, Ask, Tell, PeriodElapses, Unchanged, NoIdentity, SyncRequested, SyncPeriodically, NothingToDo, Select, NoneDue, Reuse, Refused, RoundSucceeds, BackoffElapses, vars, settings, requests, slots, worker
  <2> QED BY <2>1, HeldIsKept
<1>2. ASSUME \/ Disabled \/ Reload
      PROVE  Agree(Held, registry)'
  <2>1. Drop({Held[h] : h \in Open}) /\ Open \subseteq Places
    <3>1. Sessions(Open) = {Held[h] : h \in Open}
      BY HeldAt DEF Sessions, Open
    <3> QED BY <3>1, <1>2, HeldAt DEF Disabled, Reload, Open, Places
  <2>2. Held' = Without(Held, Open)
    <3>1. /\ opening' = opening /\ probe' = probe /\ DOMAIN sessions' \subseteq Nat \ {0}
          /\ \A i \in DOMAIN sessions' : sessions'[i] = NoLease
      BY <1>2, ConfigsAssumption DEF Disabled, Reload, TypeOK
    <3> QED BY <3>1, HeldAt, DiagnosersAssumption DEF Held, Without, Open, Places
  <2> QED BY <2>1, <2>2, DropKeeps
<1>3. CASE Poll
  <2>1. PICK closed \in SUBSET Open :
          /\ Drop(Sessions(closed))
          /\ sessions' = [i \in DOMAIN sessions |-> IF i \in closed THEN NoLease ELSE sessions[i]]
    BY <1>3 DEF Poll
  <2>2. Sessions(closed) = {Held[h] : h \in closed} /\ closed \subseteq Places
    BY HeldAt DEF Sessions, Open, Places
  <2>3. opening' = opening /\ probe' = probe
    BY <1>3 DEF Poll
  <2>4. Held' = Without(Held, closed)
    BY <2>1, <2>3, HeldAt, DiagnosersAssumption DEF Held, Without, Open, Places
  <2> QED BY <2>1, <2>2, <2>4, DropKeeps
<1>4. CASE StartOpening
  <2>1. Key[known[slot]] \in Keys
    BY <1>4, Shape, KeyAssumption DEF StartOpening, Placed, WorkerIsPlaced
  <2>2. Held[0] = NoLease /\ 0 \in Places
    BY <1>4, HeldAt DEF StartOpening, Placed, WorkerIsPlaced, Places
  <2>3. Held' = [Held EXCEPT ![0] = NewLease(Key[known[slot]])]
    BY <1>4 DEF StartOpening, Held, Places, slots
  <2> QED BY <1>4, <2>1, <2>2, <2>3, AcquireKeeps DEF StartOpening
<1>5. CASE ConnectFails
  <2>1. {opening} = {Held[h] : h \in {0}} /\ {0} \subseteq Places
    BY HeldAt DEF Places
  <2>2. Held' = Without(Held, {0})
    BY <1>5 DEF ConnectFails, Held, Without, Places
  <2> QED BY <1>5, <2>1, <2>2, DropKeeps DEF ConnectFails
<1>6. CASE Connected
  <2>1. slot \in DOMAIN sessions /\ slot \in Nat \ {0} /\ Held[slot] = NoLease
    BY <1>6, HeldAt DEF Connected, Placed, WorkerIsPlaced, Open
  <2>2. Held' = [Held EXCEPT ![0] = NoLease, ![slot] = Held[0]]
    BY <1>6, <2>1, HeldAt DEF Connected, Held, Places
  <2>3. Agree([Held EXCEPT ![0] = NoLease, ![slot] = Held[0]], registry)
    BY <2>1, HeldAt, MoveAgrees DEF Places
  <2>4. registry' = registry
    BY <1>6 DEF Connected
  <2> QED BY <2>2, <2>3, <2>4, AgreeAfter
<1>7. CASE Panic
  <2>1. Sessions(Open) \cup {opening} = {Held[h] : h \in Open \cup {0}} /\ Open \cup {0} \subseteq Places
    BY HeldAt DEF Sessions, Open, Places
  <2>2. Held' = Without(Held, Open \cup {0})
    BY <1>7, HeldAt, DiagnosersAssumption DEF Panic, Held, Without, Open, Places
  <2> QED BY <1>7, <2>1, <2>2, DropKeeps DEF Panic
<1>8. CASE RoundCloses
  <2>1. slot \in DOMAIN sessions /\ slot \in Nat \ {0}
    BY <1>8, HeldAt DEF RoundCloses, Placed, WorkerIsPlaced, Open
  <2>2. Sessions({slot}) = {Held[h] : h \in {slot}} /\ {slot} \subseteq Places
    BY <2>1, HeldAt DEF Sessions, Places
  <2>3. Held' = Without(Held, {slot})
    BY <1>8, <2>1, HeldAt DEF RoundCloses, Held, Without, Places
  <2> QED BY <1>8, <2>2, <2>3, DropKeeps DEF RoundCloses
<1>9. ASSUME NEW d \in Diagnosers, NEW k \in Keys, NEW stage, Lend(d, k, stage),
             probe[d].lease = NoLease, UNCHANGED worker
      PROVE  Agree(Held, registry)'
  <2>1. Held' = [Held EXCEPT ![d] = NewLease(k)]
    <3>1. opening' = opening /\ sessions' = sessions
      BY <1>9 DEF worker, slots
    <3>2. \A e \in Diagnosers :
            probe'[e].lease = IF e = d THEN NewLease(k) ELSE probe[e].lease
      BY <1>9 DEF Lend, TypeOK
    <3>3. d # 0 /\ d \notin DOMAIN sessions
      BY HeldAt
    <3> QED BY <3>1, <3>2, <3>3, HeldAt DEF Held, Places
  <2>2. Held[d] = NoLease /\ d \in Places
    BY <1>9, HeldAt
  <2> QED BY <1>9, <2>1, <2>2, AcquireKeeps DEF Lend
<1>10. ASSUME NEW d \in Diagnosers, StartProbe(d) \/ StartEncounter(d)
       PROVE  Agree(Held, registry)'
  <2>1. probe[d].lease = NoLease /\ UNCHANGED worker
    BY <1>10 DEF StartProbe, StartEncounter, Placed, ProbesAreSound
  <2>2. \E k \in Keys, stage \in {"probe", "encounter"} : Lend(d, k, stage)
    BY <1>10, KeyAssumption DEF StartProbe, StartEncounter, TypeOK
  <2> QED BY <2>1, <2>2, <1>9
<1>11. ASSUME NEW d \in Diagnosers, EndProbe(d) \/ EndEncounter(d)
       PROVE  Agree(Held, registry)'
  <2>1. {probe[d].lease} = {Held[h] : h \in {d}} /\ {d} \subseteq Places
    BY HeldAt
  <2>2. Held' = Without(Held, {d})
    BY <1>11, HeldAt DEF EndProbe, EndEncounter, Idling, Held, Without, Places, worker, slots, TypeOK
  <2> QED BY <1>11, <2>1, <2>2, DropKeeps DEF EndProbe, EndEncounter
<1>12. ASSUME NEW d \in Diagnosers, SkipEncounter(d)
       PROVE  Agree(Held, registry)'
  <2>1. Held' = Held
    BY <1>12, HeldAt DEF SkipEncounter, Idling, Held, Places, worker, slots, TypeOK, Placed, ProbesAreSound
  <2>2. registry' = registry
    BY <1>12 DEF SkipEncounter
  <2> QED BY <2>1, <2>2, AgreeAfter
<1> QED
  BY <1>1, <1>2, <1>3, <1>4, <1>5, <1>6, <1>7, <1>8, <1>10, <1>11, <1>12
  DEF Next, Worker, Diagnose

-----------------------------------------------------------------------------
(* The theorems. *)

IInv == TypeOK /\ Placed /\ Agree(Held, registry)

LEMMA InvariantHolds == Spec => []IInv
<1>1. Init => IInv
  <2> SUFFICES ASSUME Init PROVE IInv
    OBVIOUS
  <2>1. TypeOK
    <3>1. due \in [DOMAIN known -> BOOLEAN]
      BY DEF Init
    <3>2. probe \in [Diagnosers -> [stage : {"idle", "probe", "connected", "encounter"},
                                    key : Keys, lease : Lease \cup {NoLease}]]
      BY DEF Init, Idling
    <3>3. telling \in 0..MaxPending /\ pending \in 0..MaxPending /\ slot \in Nat \ {0} /\ cursor = 1
      BY PendingAssumption DEF Init
    <3>4. registry \in [Keys -> Attempts \cup {0}]
      BY DEF Init
    <3> QED BY <3>1, <3>2, <3>3, <3>4 DEF Init, TypeOK
  <2>2. Placed
    BY DEF Init, Placed, WorkerIsPlaced, SlotIsItsRelay, ProbesAreSound, Idling, Open
  <2>3. Agree(Held, registry)
    BY DEF Init, Agree, Held, Places, Idling
  <2> QED BY <2>1, <2>2, <2>3 DEF IInv
<1>2. IInv /\ [Next]_vars => IInv'
  BY TypeStep, PlacedStep, AgreeStep DEF IInv, Placed
<1> QED BY <1>1, <1>2, PTL DEF Spec

\* The state has its type.
THEOREM TypeCorrect == Spec => []TypeOK
<1>1. IInv => TypeOK
  BY DEF IInv
<1> QED BY <1>1, InvariantHolds, PTL

\* RelaySessionLease::acquire and its Drop keep every relay to one session, of
\* the worker or of a diagnostics command.
THEOREM OneSession == Spec => []OneSessionPerRelay
<1>1. IInv => OneSessionPerRelay
  BY HeldAt DEF IInv, Agree, OneSessionPerRelay, Holders, LeaseOf, Places
<1> QED BY <1>1, InvariantHolds, PTL

\* On every path of an error the lease is dropped with the session: no relay
\* stays marked as busy when nobody uses it.
THEOREM NoLeak == Spec => []NoLeaseIsLeaked
<1>1. ASSUME IInv, NEW k \in Keys, registry[k] # 0
      PROVE  \E h \in Holders : LeaseOf(h) = [key |-> k, attempt |-> registry[k]]
  <2>1. PICK h \in Places : Held[h] = [key |-> k, attempt |-> registry[k]]
    BY <1>1 DEF IInv, Agree
  <2>2. Held[h] # NoLease
    BY <2>1, <1>1, LeaseAssumption DEF IInv, TypeOK, Lease
  <2>3. h \in Holders
    BY <2>2, <1>1, HeldAt DEF IInv, Holders, Places
  <2>4. LeaseOf(h) = Held[h]
    BY <2>3, <1>1, HeldAt DEF IInv, Holders, LeaseOf
  <2> QED BY <2>1, <2>3, <2>4
<1>2. IInv => NoLeaseIsLeaked
  BY <1>1 DEF NoLeaseIsLeaked
<1> QED BY <1>2, InvariantHolds, PTL

\* However the list of relays is edited, a session stands in the slot of the
\* relay it was opened with.
THEOREM SlotsMatch == Spec => []SlotIsItsRelay
<1>1. IInv => SlotIsItsRelay
  BY DEF IInv, Placed
<1> QED BY <1>1, InvariantHolds, PTL

-----------------------------------------------------------------------------
(* The round robin.  That every relay has its turn is a matter of fairness *)
(* and left to TLC; what it rests on is that nobody is overtaken.          *)

\* While the list of relays stays as it is, every relay that is due moves up when
\* another one is selected, and only a selection moves anybody: neither a
\* failed round, nor a backoff, nor a session that is lost changes the order.
NoRelayIsPassedOver ==
  [][known' = known =>
       IF Select THEN \A i \in Due : slot' = i \/ Turn(i)' < Turn(i)
                 ELSE \A i \in DOMAIN known : Turn(i)' = Turn(i)]_vars

LEMMA SmallRemainder ==
  ASSUME NEW n \in Nat \ {0}, NEW x \in 0 .. 2 * n - 1
  PROVE  x % n = IF x < n THEN x ELSE x - n
<1>1. CASE x < n
  BY <1>1
<1>2. CASE ~(x < n)
  <2>1. x - n \in 0 .. n - 1 /\ x = n + (x - n)
    BY <1>2
  <2> QED BY <2>1, <1>2
<1> QED BY <1>1, <1>2

\* The turn of a slot is its distance from the cursor, around the list.
Distance(i, c, n) == IF i >= c THEN i - c ELSE i + n - c

LEMMA TurnIsDistance ==
  ASSUME NEW n \in Nat \ {0}, NEW i \in 1..n, NEW c \in 1..n
  PROVE  (i + n - c) % n = Distance(i, c, n)
<1> DEFINE x == i + n - c
<1>1. x \in 0 .. 2 * n - 1 /\ (x < n <=> ~(i >= c)) /\ x - n = i - c
  OBVIOUS
<1> HIDE DEF x
<1>2. x % n = IF x < n THEN x ELSE x - n
  BY <1>1, SmallRemainder
<1>3. (x < n => x = Distance(i, c, n)) /\ (~(x < n) => x - n = Distance(i, c, n))
  BY <1>1 DEF Distance, x
<1> QED BY <1>2, <1>3 DEF x

\* The nearest slot is selected and the cursor is put behind it: the others are
\* one step, or more, nearer.
LEMMA OthersMoveUp ==
  ASSUME NEW n \in Nat \ {0}, NEW i \in 1..n, NEW j \in 1..n, NEW c \in 1..n, i # j,
         Distance(j, c, n) <= Distance(i, c, n)
  PROVE  Distance(i, (j % n) + 1, n) < Distance(i, c, n)
<1>1. CASE j < n
  <2>1. j % n = j
    BY <1>1, SmallRemainder
  <2> QED BY <1>1, <2>1 DEF Distance
<1>2. CASE j = n
  <2>1. j % n = 0
    BY <1>2, SmallRemainder
  <2> QED BY <1>2, <2>1 DEF Distance
<1> QED BY <1>1, <1>2

LEMMA OnlySelectMovesTheCursor ==
  ASSUME [Next]_vars, known' = known, ~Select
  PROVE  cursor' = cursor
BY DEF Next, Worker, Diagnose, SaveSettings, Ask, Tell, PeriodElapses, BackoffElapses, Disabled,
  Reload, Unchanged, NoIdentity, SyncRequested, SyncPeriodically, NothingToDo, Poll, NoneDue,
  Reuse, StartOpening, Refused, ConnectFails, Connected, Panic, RoundSucceeds, RoundCloses,
  StartProbe, EndProbe, StartEncounter, SkipEncounter, EndEncounter, vars, worker, slots

THEOREM RoundRobin == Spec => NoRelayIsPassedOver
<1>1. ASSUME IInv, Select, NEW i \in Due, known' = known
      PROVE  slot' = i \/ Turn(i)' < Turn(i)
  <2> DEFINE n == Len(known)
  <2>1. PICK j \in Due : (\A k \in Due : Turn(j) <= Turn(k)) /\ slot' = j /\ cursor' = After(j)
    BY <1>1 DEF Select
  <2>2. DOMAIN due = 1..n /\ n \in Nat
    BY <1>1, Shape DEF IInv
  <2>3. i \in 1..n /\ j \in 1..n /\ n \in Nat \ {0}
    BY <2>2 DEF Due
  <2>4. cursor \in 1..n
    BY <1>1, <2>3, Shape DEF IInv, TypeOK
  <2>5. Turn(i) = Distance(i, cursor, n) /\ Turn(j) = Distance(j, cursor, n)
    BY <2>3, <2>4, TurnIsDistance DEF Turn
  <2>6. After(j) \in 1..n
    BY <2>3, Remainder DEF After
  <2>7. Turn(i)' = Distance(i, After(j), n)
    BY <1>1, <2>1, <2>3, <2>6, TurnIsDistance DEF Turn
  <2>8. Distance(j, cursor, n) <= Distance(i, cursor, n)
    BY <2>1, <2>5
  <2>9. CASE i # j
    <3>1. Distance(i, After(j), n) < Distance(i, cursor, n)
      BY <2>3, <2>4, <2>8, <2>9, OthersMoveUp DEF After
    <3> QED BY <3>1, <2>5, <2>7
  <2> QED BY <2>1, <2>9
<1>2. ASSUME [Next]_vars, known' = known, ~Select, NEW i \in DOMAIN known
      PROVE  Turn(i)' = Turn(i)
  BY <1>2, OnlySelectMovesTheCursor DEF Turn
<1>3. IInv /\ [Next]_vars =>
        [known' = known =>
           IF Select THEN \A i \in Due : slot' = i \/ Turn(i)' < Turn(i)
                     ELSE \A i \in DOMAIN known : Turn(i)' = Turn(i)]_vars
  BY <1>1, <1>2
<1> QED BY <1>3, InvariantHolds, PTL DEF Spec, NoRelayIsPassedOver
====
