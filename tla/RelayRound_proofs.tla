---- MODULE RelayRound_proofs ----
(***************************************************************************)
(* Proofs about RelayRound and the EncounterScheduler it serves by, for    *)
(* any items, offers, windows, deadlines and faults.                       *)
(*                                                                         *)
(* The ranking is a strict total order of the items of a valid request,    *)
(* which the sort of encounter_scheduler.rs relies on; a selection is      *)
(* closed under it, so that nothing is skipped, and as its items are       *)
(* numbered by their rank, the budget of the last one is that of all.      *)
(*                                                                         *)
(* The window of an offer moves by its own length: going round in steps of *)
(* that length, some step comes less than a length before any position.    *)
(*                                                                         *)
(* Of the messages a relay brings: an item counts as one of the round only *)
(* if it was not in the store, and everything the round, the chat and the  *)
(* failed rounds hold is in the store; so nothing is handed over twice,    *)
(* and each way out of a round leaves its messages in the chat or with the *)
(* error.                                                                  *)
(*                                                                         *)
(* The stores only grow.  So a frame that is read late still carries what  *)
(* its sender holds, and a session implements Exchange; and once both      *)
(* stores are full no side has anything left to ask for.                   *)
(***************************************************************************)
EXTENDS RelayRound, FiniteSetTheorems, TLAPS

-----------------------------------------------------------------------------
(* The ranking. *)

LEMMA MillionthsInt ==
  ASSUME NEW part \in Int, NEW whole \in Nat \ {0}
  PROVE  Millionths(part, whole) \in Int
<1>1. Unit \in Nat BY SchedulerConstants
<1>2. /\ (part * Unit) \div whole \in Int
      /\ (part * Unit) % whole \in Int
  BY <1>1
<1> QED BY <1>2 DEF Millionths

LEMMA DoublingsNat ==
  ASSUME NEW n \in Nat
  PROVE  Doublings(n) \in Nat \ {0}
<1> DEFINE K == {k \in 2..30 : 2^k <= n + 1}
<1>1. IsFiniteSet(2..30) BY 2 \in Int, 30 \in Int, FS_Interval
<1>2. IsFiniteSet(K) BY <1>1, FS_Subset
<1>3. Cardinality(K) \in Nat BY <1>2, FS_CardinalityType
<1> QED BY <1>3 DEF Doublings

Positions == 1..7

LEMMA KeyType ==
  ASSUME NEW i \in CargoItem, NEW b \in BudgetProfile, NEW now \in Nat,
         ValidItems({i}), ValidBudget(b)
  PROVE  Key(i, b, now) \in [Positions -> Int]
<1>1. /\ Unit \in Nat \ {0}
      /\ i.tier \in Int /\ i.size \in Nat \ {0} /\ i.expiry \in Nat /\ i.replicas \in Int
      /\ i.target \in Nat \ {0} /\ i.coverage \in Nat /\ i.last_forwarded \in Nat
      /\ i.proximity \in Proximity /\ i.content \in Nat /\ i.destination_rank \in Int
      /\ b.unit_bytes \in Nat \ {0} /\ b.expiry_horizon \in Nat /\ b.stagnation_horizon \in Nat
  BY SchedulerConstants DEF CargoItem, BudgetProfile, ValidItems, ValidBudget
<1>2. Scarcity(i) \in Int
  BY <1>1, MillionthsInt DEF Scarcity, Least
<1>3. Safety(i) \in Int
  <2> DEFINE lack == (IF i.durably_stored THEN 0 ELSE 45) + (IF i.relay_ingested THEN 0 ELSE 35)
  <2>1. lack \in Int /\ Unit - Least(i.coverage, Unit) \in Int BY <1>1 DEF Least
  <2>2. lack * Unit + 20 * (Unit - Least(i.coverage, Unit)) \in Int BY <1>1, <2>1
  <2>3. 100 * Unit \in Nat \ {0} BY <1>1
  <2> QED BY <2>2, <2>3, MillionthsInt DEF Safety
<1>4. Urgency(i, b, now) \in Int
  <2> DEFINE horizon == IF b.expiry_horizon = 0 THEN 1 ELSE b.expiry_horizon
  <2>1. horizon \in Nat \ {0} BY <1>1
  <2>2. horizon - Least(Above(i.expiry, now), horizon) \in Int BY <1>1, <2>1 DEF Least, Above
  <2>3. Millionths(horizon - Least(Above(i.expiry, now), horizon), horizon) \in Int
    BY <2>1, <2>2, MillionthsInt
  <2> QED BY <2>3 DEF Urgency
<1>5. Stagnation(i, b, now) \in Int
  <2> DEFINE horizon == IF b.stagnation_horizon = 0 THEN 1 ELSE b.stagnation_horizon
  <2>1. horizon \in Nat \ {0} BY <1>1
  <2>2. Least(Above(now, i.last_forwarded), horizon) \in Int BY <1>1, <2>1 DEF Least, Above
  <2>3. Millionths(Least(Above(now, i.last_forwarded), horizon), horizon) \in Int
    BY <2>1, <2>2, MillionthsInt
  <2> QED BY <2>3 DEF Stagnation
<1>6. Closeness(i) \in Int
  <2>1. Millionths(3, 5) \in Int BY MillionthsInt
  <2> QED BY <1>1, <2>1 DEF Closeness, Proximity
<1>7. Smallness(i, b) \in Int
  <2>1. Doublings(b.unit_bytes) \in Nat \ {0} /\ Doublings(i.size) \in Nat \ {0}
    BY <1>1, DoublingsNat
  <2>2. Doublings(b.unit_bytes) - Least(Doublings(i.size), Doublings(b.unit_bytes)) \in Int
    BY <2>1 DEF Least
  <2> QED BY <2>1, <2>2, MillionthsInt DEF Smallness
<1>8. Score(i, b, now) \in Int
  <2>1. Least(i.content, Unit) \in Int BY <1>1 DEF Least
  <2> QED BY <1>1, <1>2, <1>3, <1>4, <1>5, <1>6, <1>7, <2>1 DEF Score
<1> QED BY <1>1, <1>8 DEF Key, Positions

LEMMA PrecedesStrict ==
  ASSUME NEW k \in [Positions -> Int]
  PROVE  ~Precedes(k, k)
BY DEF Precedes, Positions

LEMMA PrecedesTransitive ==
  ASSUME NEW k \in [Positions -> Int], NEW l \in [Positions -> Int], NEW m \in [Positions -> Int],
         Precedes(k, l), Precedes(l, m)
  PROVE  Precedes(k, m)
<1>1. PICK p \in 1..7 : k[p] < l[p] /\ \A q \in 1..(p - 1) : k[q] = l[q] BY DEF Precedes
<1>2. PICK r \in 1..7 : l[r] < m[r] /\ \A q \in 1..(r - 1) : l[q] = m[q] BY DEF Precedes
<1>3. CASE p <= r
  <2>1. k[p] < m[p] BY <1>1, <1>2, <1>3 DEF Positions
  <2>2. \A q \in 1..(p - 1) : k[q] = m[q] BY <1>1, <1>2, <1>3
  <2> QED BY <2>1, <2>2 DEF Precedes
<1>4. CASE r < p
  <2>1. k[r] < m[r] BY <1>1, <1>2, <1>4 DEF Positions
  <2>2. \A q \in 1..(r - 1) : k[q] = m[q] BY <1>1, <1>2, <1>4
  <2> QED BY <2>1, <2>2 DEF Precedes
<1> QED BY <1>3, <1>4

LEMMA PrecedesTotal ==
  ASSUME NEW k \in [Positions -> Int], NEW l \in [Positions -> Int], k # l
  PROVE  Precedes(k, l) \/ Precedes(l, k)
<1>1. PICK p \in Positions : k[p] # l[p] /\ \A q \in Positions : k[q] # l[q] => p <= q
  <2>1. \E p \in Positions : k[p] # l[p] OBVIOUS
  <2> QED BY <2>1, SMTT(30) DEF Positions
<1>2. \A q \in 1..(p - 1) : k[q] = l[q] BY <1>1 DEF Positions
<1>3. k[p] < l[p] \/ l[p] < k[p] BY <1>1 DEF Positions
<1> QED BY <1>2, <1>3 DEF Precedes, Positions

(***************************************************************************)
(* ranks_before never ranks an item before itself, ranks before what is    *)
(* ranked after, and of two items of a valid request ranks one before the  *)
(* other: the order in which the sort comes to them does not matter.       *)
(***************************************************************************)
RankIsTotal ==
  \A b \in BudgetProfile, now \in Nat, cargo \in SUBSET CargoItem :
    ValidBudget(b) /\ ValidItems(cargo) =>
      \A i, j, k \in cargo :
        /\ ~RanksBefore(i, i, b, now)
        /\ RanksBefore(i, j, b, now) /\ RanksBefore(j, k, b, now) => RanksBefore(i, k, b, now)
        /\ i # j => RanksBefore(i, j, b, now) \/ RanksBefore(j, i, b, now)

THEOREM RankIsTotalThm == RankIsTotal
<1> SUFFICES ASSUME NEW b \in BudgetProfile, NEW now \in Nat, NEW cargo \in SUBSET CargoItem,
                    ValidBudget(b), ValidItems(cargo),
                    NEW i \in cargo, NEW j \in cargo, NEW k \in cargo
             PROVE  /\ ~RanksBefore(i, i, b, now)
                    /\ RanksBefore(i, j, b, now) /\ RanksBefore(j, k, b, now)
                         => RanksBefore(i, k, b, now)
                    /\ i # j => RanksBefore(i, j, b, now) \/ RanksBefore(j, i, b, now)
  BY DEF RankIsTotal
<1>1. \A x \in cargo : Key(x, b, now) \in [Positions -> Int] /\ x.item_id \in Nat
  <2> TAKE x \in cargo
  <2>1. ValidItems({x}) BY DEF ValidItems
  <2> QED BY <2>1, KeyType DEF CargoItem
<1>2. ~RanksBefore(i, i, b, now)
  BY <1>1, PrecedesStrict DEF RanksBefore
<1>3. ASSUME RanksBefore(i, j, b, now), RanksBefore(j, k, b, now)
      PROVE  RanksBefore(i, k, b, now)
  <2>1. CASE Precedes(Key(i, b, now), Key(j, b, now)) /\ Precedes(Key(j, b, now), Key(k, b, now))
    BY <1>1, <2>1, PrecedesTransitive DEF RanksBefore
  <2>2. CASE Key(i, b, now) = Key(j, b, now) \/ Key(j, b, now) = Key(k, b, now)
    BY <1>1, <1>3, <2>2 DEF RanksBefore
  <2> QED BY <1>3, <2>1, <2>2 DEF RanksBefore
<1>4. ASSUME i # j PROVE RanksBefore(i, j, b, now) \/ RanksBefore(j, i, b, now)
  <2>1. CASE Key(i, b, now) # Key(j, b, now)
    BY <1>1, <2>1, PrecedesTotal DEF RanksBefore
  <2>2. CASE Key(i, b, now) = Key(j, b, now)
    <3>1. i.item_id # j.item_id BY <1>4 DEF ValidItems
    <3> QED BY <1>1, <2>2, <3>1 DEF RanksBefore
  <2> QED BY <2>1, <2>2
<1> QED BY <1>2, <1>3, <1>4

(***************************************************************************)
(* What ranks before a selected item is selected: schedule cuts the        *)
(* ranking and does not skip what is too large.                            *)
(***************************************************************************)
SelectedIsPrefix ==
  \A b \in BudgetProfile, now \in Nat, cargo \in SUBSET CargoItem :
    ValidBudget(b) /\ ValidItems(cargo) =>
      \A i \in Selected(cargo, b, now), j \in Eligible(cargo, now) :
        RanksBefore(j, i, b, now) => j \in Selected(cargo, b, now)

THEOREM SelectedIsPrefixThm == SelectedIsPrefix
<1> SUFFICES ASSUME NEW b \in BudgetProfile, NEW now \in Nat, NEW cargo \in SUBSET CargoItem,
                    ValidBudget(b), ValidItems(cargo),
                    NEW i \in Selected(cargo, b, now), NEW j \in Eligible(cargo, now),
                    RanksBefore(j, i, b, now)
             PROVE  j \in Selected(cargo, b, now)
  BY DEF SelectedIsPrefix
<1> DEFINE ranked == Eligible(cargo, now)
<1>1. ranked \subseteq cargo /\ i \in ranked BY DEF Eligible, Selected
<1>2. UpTo(j, ranked, b, now) \subseteq UpTo(i, ranked, b, now)
  <2> SUFFICES ASSUME NEW k \in ranked, RanksBefore(k, j, b, now)
               PROVE  RanksBefore(k, i, b, now)
    BY DEF UpTo
  <2> QED BY <1>1, RankIsTotalThm DEF RankIsTotal
<1>3. \A k \in UpTo(i, ranked, b, now) : Fits(UpTo(k, ranked, b, now), b)
  BY DEF Selected
<1> QED BY <1>2, <1>3 DEF Selected

\* The number of elements before one is a numbering of the set.
LEMMA RankIsNumbering ==
  ASSUME NEW S, IsFiniteSet(S), NEW f \in [S -> Int],
         \A x, y \in S : f[x] = f[y] => x = y
  PROVE  [x \in S |-> Cardinality({y \in S : f[y] < f[x]})]
           \in Bijection(S, 0 .. Cardinality(S) - 1)
<1> DEFINE before(x) == {y \in S : f[y] < f[x]}
           r == [x \in S |-> Cardinality(before(x))]
           T == 0 .. Cardinality(S) - 1
<1>1. \A x \in S : IsFiniteSet(before(x)) /\ Cardinality(before(x)) \in Nat
  BY FS_Subset, FS_CardinalityType
<1>2. Cardinality(S) \in Nat
  BY FS_CardinalityType
<1>3. ASSUME NEW x \in S PROVE Cardinality(before(x)) \in T
  <2>1. before(x) \in SUBSET S /\ before(x) # S
    OBVIOUS
  <2>2. Cardinality(before(x)) <= Cardinality(S) /\ Cardinality(S) # Cardinality(before(x))
    BY <2>1, FS_Subset
  <2> QED BY <1>1, <1>2, <2>2
<1>4. ASSUME NEW x \in S, NEW y \in S, f[x] < f[y]
      PROVE  Cardinality(before(x)) # Cardinality(before(y))
  <2>1. before(x) \in SUBSET before(y) /\ before(x) # before(y)
    BY <1>4
  <2>2. IsFiniteSet(before(y))
    BY <1>1
  <2> QED BY <2>1, <2>2, FS_Subset
<1>5. \A x, y \in S : x # y => f[x] < f[y] \/ f[y] < f[x]
  OBVIOUS
<1>6. r \in Injection(S, T)
  <2>1. r \in [S -> T]
    BY <1>3
  <2>2. \A x, y \in S : r[x] = r[y] => x = y
    BY <1>4, <1>5
  <2> HIDE DEF r
  <2> QED BY <2>1, <2>2 DEF Injection, IsInjective
<1>7. IsFiniteSet(T) /\ Cardinality(T) = Cardinality(S)
  BY <1>2, 0 \in Int, Cardinality(S) - 1 \in Int, FS_Interval
<1> HIDE DEF r, T
<1>8. r \in Surjection(S, T)
  BY <1>6, <1>7, FS_Injection
<1>9. r \in Bijection(S, T)
  BY <1>6, <1>8 DEF Bijection
<1> QED BY <1>9 DEF r, T

\* The last of what is selected has all of it before it.
LEMMA LastOfSelection ==
  ASSUME NEW b \in BudgetProfile, NEW now \in Nat, NEW cargo \in SUBSET CargoItem,
         IsFiniteSet(cargo), ValidBudget(b), ValidItems(cargo), Selected(cargo, b, now) # {}
  PROVE  \E i \in Selected(cargo, b, now) :
           UpTo(i, Eligible(cargo, now), b, now) = Selected(cargo, b, now)
<1> DEFINE S == Selected(cargo, b, now)
           ranked == Eligible(cargo, now)
           Before(i) == {j \in S : RanksBefore(j, i, b, now)}
           f == [i \in S |-> Cardinality(Before(i))]
           r == [i \in S |-> Cardinality({j \in S : f[j] < f[i]})]
<1>1. S \subseteq ranked /\ ranked \subseteq cargo
  BY DEF Selected, Eligible
<1>2. IsFiniteSet(S)
  BY <1>1, FS_Subset
<1>3. /\ \A i \in cargo : ~RanksBefore(i, i, b, now)
      /\ \A i, j, k \in cargo :
           RanksBefore(i, j, b, now) /\ RanksBefore(j, k, b, now) => RanksBefore(i, k, b, now)
      /\ \A i, j \in cargo : i # j => RanksBefore(i, j, b, now) \/ RanksBefore(j, i, b, now)
  BY RankIsTotalThm DEF RankIsTotal
<1> HIDE DEF S, ranked
<1>4. \A i \in S : IsFiniteSet(Before(i)) /\ Cardinality(Before(i)) \in Nat
  BY <1>2, FS_Subset, FS_CardinalityType
<1>5. ASSUME NEW i \in S, NEW j \in S, RanksBefore(i, j, b, now)
      PROVE  Cardinality(Before(i)) < Cardinality(Before(j))
  <2>1. Before(i) \in SUBSET Before(j)
    BY <1>1, <1>3, <1>5
  <2>2. i \in Before(j) /\ i \notin Before(i)
    BY <1>1, <1>3, <1>5
  <2>3. Before(i) # Before(j)
    BY <2>2
  <2> HIDE DEF Before
  <2>4. /\ Cardinality(Before(i)) <= Cardinality(Before(j))
        /\ Cardinality(Before(i)) # Cardinality(Before(j))
    BY <1>4, <2>1, <2>3, FS_Subset
  <2> QED BY <1>4, <2>4
<1>6. f \in [S -> Int] /\ \A i, j \in S : f[i] = f[j] => i = j
  <2> HIDE DEF Before
  <2>1. f \in [S -> Int]
    BY <1>4
  <2>2. ASSUME NEW i \in S, NEW j \in S, i # j PROVE f[i] # f[j]
    <3>1. RanksBefore(i, j, b, now) \/ RanksBefore(j, i, b, now)
      BY <1>1, <1>3, <2>2
    <3> QED BY <1>4, <1>5, <3>1
  <2> QED BY <2>1, <2>2
<1>7. Cardinality(S) \in Nat \ {0}
  BY <1>2, FS_EmptySet, FS_CardinalityType DEF S
<1>8. r \in Bijection(S, 0 .. Cardinality(S) - 1)
  <2> HIDE DEF f
  <2> QED BY <1>2, <1>6, RankIsNumbering
<1>9. PICK i \in S : r[i] = Cardinality(S) - 1
  <2> HIDE DEF r
  <2> QED BY <1>7, <1>8 DEF Bijection, Surjection
<1>10. ASSUME NEW j \in S, j # i PROVE RanksBefore(j, i, b, now)
  <2> SUFFICES ASSUME RanksBefore(i, j, b, now) PROVE FALSE
    BY <1>1, <1>3, <1>10
  <2> DEFINE Under(k) == {l \in S : f[l] < f[k]}
  <2>1. f[i] < f[j]
    <3> HIDE DEF Before
    <3> QED BY <1>5
  <2> HIDE DEF f
  <2>2. Under(i) \in SUBSET Under(j) /\ i \in Under(j) /\ i \notin Under(i)
    BY <1>6, <2>1
  <2>3. IsFiniteSet(Under(j)) /\ IsFiniteSet(Under(i))
    BY <1>2, FS_Subset
  <2>4. Under(i) # Under(j)
    BY <2>2
  <2>5. /\ Cardinality(Under(i)) <= Cardinality(Under(j))
        /\ Cardinality(Under(i)) # Cardinality(Under(j))
    <3> HIDE DEF Under
    <3> QED BY <2>2, <2>3, <2>4, FS_Subset
  <2>6. r[i] = Cardinality(Under(i)) /\ r[j] = Cardinality(Under(j))
    OBVIOUS
  <2>7. r[j] \in 0 .. Cardinality(S) - 1
    <3> HIDE DEF r
    <3> QED BY <1>8 DEF Bijection, Injection
  <2> HIDE DEF r, Under
  <2> QED BY <1>7, <1>9, <2>5, <2>6, <2>7
<1>11. UpTo(i, ranked, b, now) = S
  <2>1. S \subseteq UpTo(i, ranked, b, now)
    BY <1>1, <1>10 DEF UpTo
  <2>2. ASSUME NEW j \in ranked, RanksBefore(j, i, b, now) PROVE j \in S
    BY <2>2, SelectedIsPrefixThm DEF SelectedIsPrefix, S, ranked
  <2> QED BY <2>1, <2>2 DEF UpTo
<1> QED BY <1>11 DEF S, ranked

(***************************************************************************)
(* What schedule selects stays within the budget it was given, in number,  *)
(* bytes, duration and durable share, though it is checked item by item    *)
(* (schedule's projected totals).                                          *)
(***************************************************************************)
SelectionFits ==
  \A b \in BudgetProfile, now \in Nat, cargo \in SUBSET CargoItem :
    IsFiniteSet(cargo) /\ ValidBudget(b) /\ ValidItems(cargo) /\ Selected(cargo, b, now) # {} =>
      Fits(Selected(cargo, b, now), b)

THEOREM SelectionFitsThm == SelectionFits
<1> SUFFICES ASSUME NEW b \in BudgetProfile, NEW now \in Nat, NEW cargo \in SUBSET CargoItem,
                    IsFiniteSet(cargo), ValidBudget(b), ValidItems(cargo),
                    Selected(cargo, b, now) # {}
             PROVE  Fits(Selected(cargo, b, now), b)
  BY DEF SelectionFits
<1>1. PICK i \in Selected(cargo, b, now) :
        UpTo(i, Eligible(cargo, now), b, now) = Selected(cargo, b, now)
  BY LastOfSelection
<1>2. \A j \in UpTo(i, Eligible(cargo, now), b, now) : Fits(UpTo(j, Eligible(cargo, now), b, now), b)
  BY DEF Selected
<1>3. i \in UpTo(i, Eligible(cargo, now), b, now)
  BY <1>1
<1> QED BY <1>1, <1>2, <1>3

-----------------------------------------------------------------------------
(* An answer to a REQUEST. *)

\* What the answer to a REQUEST is chosen from is a valid request of the scheduler.
LEMMA ProfilesAreValid ==
  ASSUME NEW stored \in SUBSET StoredItem, NEW items \in Nat, NEW bytes \in Nat, NEW now \in Nat,
         NEW peer, \A s, t \in stored : s.item_id = t.item_id => s = t
  PROVE  /\ {Profile(s, now, peer) : s \in stored} \in SUBSET CargoItem
         /\ ValidItems({Profile(s, now, peer) : s \in stored})
         /\ TransferBudget(items, bytes) \in BudgetProfile
         /\ ValidBudget(TransferBudget(items, bytes))
<1>1. /\ Unit \in Nat \ {0} /\ Soon \in Nat \ {0} /\ Stagnant \in Nat \ {0} /\ UnitBytes \in Nat \ {0}
      /\ SmallBody \in Nat /\ MaxTransferItems \in Nat /\ MaxTransferBytes \in Nat
  BY SchedulerConstants
<1>2. ASSUME NEW s \in stored
      PROVE  /\ Profile(s, now, peer) \in CargoItem
             /\ Profile(s, now, peer).item_id = s.item_id
             /\ ValidItems({Profile(s, now, peer)})
  <2>1. /\ s.item_id \in Nat /\ s.body \in Nat /\ s.expiry \in Nat /\ s.hops \in Nat
        /\ s.recorded \in Nat
    BY DEF StoredItem
  <2> DEFINE soon == s.body <= SmallBody /\ Above(s.expiry, now) <= Soon
             tier == IF ~soon THEN 4 ELSE IF s.to = peer THEN 1 ELSE 2
             size == IF s.body = 0 THEN 1 ELSE s.body
             near == IF s.to = peer THEN "destination_peer" ELSE "likely_closer"
             rank == IF s.to = peer THEN 1 ELSE 0
  <2>2. tier \in {1, 2, 4} /\ size \in Nat \ {0} /\ near \in Proximity /\ rank \in {0, 1}
        /\ (s.hops > 0) \in BOOLEAN
    BY <2>1 DEF Proximity
  <2>3. Profile(s, now, peer) =
          [item_id |-> s.item_id, tier |-> tier, size |-> size,
           expiry |-> s.expiry, replicas |-> s.hops, target |-> 6,
           durably_stored |-> FALSE, relay_ingested |-> s.hops > 0, coverage |-> 0,
           last_forwarded |-> s.recorded, proximity |-> near, user_initiated |-> FALSE,
           content |-> 0, destination_rank |-> rank, duration |-> 0]
    BY DEF Profile
  <2> HIDE DEF tier, size, near, rank
  <2>4. Profile(s, now, peer) \in CargoItem
    BY <2>1, <2>2, <2>3 DEF CargoItem
  <2>5. /\ Profile(s, now, peer).tier = tier /\ Profile(s, now, peer).size = size
        /\ Profile(s, now, peer).destination_rank = rank /\ Profile(s, now, peer).replicas = s.hops
        /\ Profile(s, now, peer).target = 6 /\ Profile(s, now, peer).duration = 0
        /\ Profile(s, now, peer).item_id = s.item_id
    BY <2>3
  <2>6. ValidItems({Profile(s, now, peer)})
    BY <2>1, <2>2, <2>5 DEF ValidItems
  <2> QED BY <2>4, <2>5, <2>6
<1>3. ValidItems({Profile(s, now, peer) : s \in stored})
  BY <1>2 DEF ValidItems
<1>4. Least(items, MaxTransferItems) \in Nat /\ Least(bytes, MaxTransferBytes) \in Nat
  BY <1>1 DEF Least
<1>5. TransferBudget(items, bytes) \in BudgetProfile
  BY <1>1, <1>4 DEF TransferBudget, BudgetProfile, None
<1>6. ValidBudget(TransferBudget(items, bytes))
  BY <1>1, <1>4 DEF TransferBudget, ValidBudget
<1> QED BY <1>2, <1>3, <1>5, <1>6

(***************************************************************************)
(* An answer to a REQUEST has no more items than the request's max_items   *)
(* and the limit of a TRANSFER, whatever the store holds                   *)
(* (transfer_items_for_request).                                           *)
(***************************************************************************)
AnswerIsWithinLimits ==
  \A stored \in SUBSET StoredItem, items \in Nat, bytes \in Nat, now \in Nat, peer \in Nat :
    IsFiniteSet(stored) /\ (\A s, t \in stored : s.item_id = t.item_id => s = t) =>
      Cardinality(TransferItems(stored, items, bytes, now, peer)) <= Least(items, MaxTransferItems)

THEOREM AnswerIsWithinLimitsThm == AnswerIsWithinLimits
<1> SUFFICES ASSUME NEW stored \in SUBSET StoredItem, NEW items \in Nat, NEW bytes \in Nat,
                    NEW now \in Nat, NEW peer \in Nat, IsFiniteSet(stored),
                    \A s, t \in stored : s.item_id = t.item_id => s = t
             PROVE  Cardinality(TransferItems(stored, items, bytes, now, peer))
                      <= Least(items, MaxTransferItems)
  BY DEF AnswerIsWithinLimits
<1> DEFINE cargo == {Profile(s, now, peer) : s \in stored}
           b == TransferBudget(items, bytes)
           chosen == Selected(cargo, b, now)
           answer == TransferItems(stored, items, bytes, now, peer)
           f == [s \in answer |-> Profile(s, now, peer)]
<1>1. cargo \in SUBSET CargoItem /\ ValidItems(cargo) /\ b \in BudgetProfile /\ ValidBudget(b)
  BY ProfilesAreValid
<1>2. b.max_items = Least(items, MaxTransferItems)
  BY DEF TransferBudget
<1>3. ASSUME NEW s \in stored PROVE Profile(s, now, peer).item_id = s.item_id
  BY DEF Profile
<1>4. IsFiniteSet(cargo)
  <2> DEFINE g == [s \in stored |-> Profile(s, now, peer)]
  <2>1. g \in Surjection(stored, cargo)
    BY DEF Surjection
  <2> HIDE DEF g, cargo
  <2> QED BY <2>1, FS_Surjection
<1> HIDE DEF cargo, b
<1>5. chosen \subseteq cargo /\ IsFiniteSet(chosen)
  <2>1. chosen \in SUBSET cargo
    BY DEF Selected, Eligible
  <2> QED BY <1>4, <2>1, FS_Subset
<1>6. \A s \in answer : s \in stored /\ Profile(s, now, peer) \in chosen
  BY DEF TransferItems, cargo, b
<1>7. Cardinality(answer) <= Cardinality(chosen)
  <2>1. f \in [answer -> chosen]
    BY <1>6
  <2>2. \A s, t \in answer : f[s] = f[t] => s = t
    <3> TAKE s, t \in answer
    <3> HAVE f[s] = f[t]
    <3>1. Profile(s, now, peer).item_id = Profile(t, now, peer).item_id
      OBVIOUS
    <3> QED BY <1>3, <1>6, <3>1
  <2> HIDE DEF f, answer, chosen
  <2>3. f \in Injection(answer, chosen)
    BY <2>1, <2>2 DEF Injection, IsInjective
  <2> QED BY <1>5, <2>3, FS_Injection
<1>8. Least(items, MaxTransferItems) \in Nat
  BY SchedulerConstants DEF Least
<1>9. Cardinality(chosen) <= Least(items, MaxTransferItems) /\ Cardinality(chosen) \in Nat
  <2>1. CASE chosen = {}
    BY <1>8, <2>1, FS_EmptySet
  <2>2. CASE chosen # {}
    <3>1. Fits(chosen, b)
      BY <1>1, <1>4, <2>2, SelectionFitsThm DEF SelectionFits
    <3> HIDE DEF chosen
    <3>2. Cardinality(chosen) \in Nat
      BY <1>5, FS_CardinalityType
    <3> QED BY <1>2, <3>1, <3>2 DEF Fits
  <2> QED BY <2>1, <2>2
<1>10. Cardinality(answer) \in Nat
  <2>1. answer \in SUBSET stored
    BY <1>6
  <2> QED BY <2>1, FS_Subset, FS_CardinalityType
<1> HIDE DEF answer, chosen
<1> QED BY <1>7, <1>8, <1>9, <1>10 DEF answer

-----------------------------------------------------------------------------
(* The windows of an offer. *)

LEMMA UniqueRest ==
  ASSUME NEW n \in Nat \ {0}, NEW q \in Nat, NEW a \in 0 .. n - 1
  PROVE  (q * n + a) % n = a
OBVIOUS

LEMMA RestOfSum ==
  ASSUME NEW n \in Nat \ {0}, NEW a \in Nat, NEW b \in 0 .. n
  PROVE  /\ a % n \in 0 .. n - 1
         /\ (a + b) % n = IF (a % n) + b < n THEN (a % n) + b ELSE (a % n) + b - n
<1> DEFINE q == a \div n
           r == a % n
<1>1. q \in Nat /\ r \in 0 .. n - 1 /\ a = q * n + r
  OBVIOUS
<1> HIDE DEF q, r
<1>2. CASE r + b < n
  <2>1. a + b = q * n + (r + b) /\ r + b \in 0 .. n - 1
    BY <1>1, <1>2
  <2>2. (q * n + (r + b)) % n = r + b
    BY <1>1, <2>1, UniqueRest
  <2> QED BY <1>1, <1>2, <2>1, <2>2 DEF r
<1>3. CASE ~(r + b < n)
  <2>1. a + b = (q + 1) * n + (r + b - n) /\ r + b - n \in 0 .. n - 1 /\ q + 1 \in Nat
    BY <1>1, <1>3
  <2>2. ((q + 1) * n + (r + b - n)) % n = r + b - n
    BY <2>1, UniqueRest
  <2> QED BY <1>1, <1>3, <2>1, <2>2 DEF r
<1> QED BY <1>2, <1>3

\* A place on a circle is reached by steps of a length from any start.
LEMMA StepsReach ==
  ASSUME NEW n \in Nat \ {0}, NEW step \in Nat \ {0}, NEW seed \in Nat, NEW p \in 0 .. n - 1
  PROVE  \E w \in 0 .. n - 1 : (p + n - ((seed + w * step) % n)) % n < step
<1> DEFINE s == seed % n
           d == IF p >= s THEN p - s ELSE p - s + n
           w == d \div step
           rest == d % step
           walked == w * step
<1>1. s \in 0 .. n - 1 /\ d \in 0 .. n - 1
  OBVIOUS
<1>2. w \in Nat /\ rest \in 0 .. step - 1 /\ d = walked + rest /\ walked \in Nat
  <2> HIDE DEF d
  <2> QED BY <1>1
<1>3. w <= walked
  <2> HIDE DEF d, w
  <2> QED BY <1>2
<1>4. walked \in 0 .. n - 1 /\ w \in 0 .. n - 1
  <2> HIDE DEF d, w, rest, walked
  <2> QED BY <1>1, <1>2, <1>3
<1>5. (seed + walked) % n = IF s + walked < n THEN s + walked ELSE s + walked - n
  <2> HIDE DEF d, w, rest, walked
  <2>1. walked \in 0 .. n
    BY <1>4
  <2>2. (seed + walked) % n = IF (seed % n) + walked < n THEN (seed % n) + walked ELSE (seed % n) + walked - n
    BY <2>1, RestOfSum
  <2> QED BY <2>2
<1> HIDE DEF s, w, rest, walked
<1>6. (p + n - ((seed + walked) % n)) % n = rest
  <2> DEFINE o == (seed + walked) % n
  <2>1. o \in 0 .. n - 1
    BY <1>1, <1>4, <1>5
  <2>2. p + n - o \in {rest, rest + n}
    BY <1>1, <1>2, <1>4, <1>5
  <2>3. rest \in 0 .. n - 1
    <3> HIDE DEF d, o
    <3> QED BY <1>1, <1>2, <1>4
  <2> HIDE DEF o
  <2>4. rest % n = rest /\ (rest + n) % n = rest
    BY <2>3
  <2> QED BY <2>2, <2>4 DEF o
<1>7. (p + n - ((seed + w * step) % n)) % n < step
  <2>1. rest < step
    BY <1>2
  <2> QED BY <1>6, <2>1 DEF walked
<1> QED BY <1>4, <1>7

LEMMA FiniteItems ==
  ASSUME NEW S \in SUBSET Items
  PROVE  IsFiniteSet(S) /\ Cardinality(S) \in Nat /\ Cardinality(S) <= Cardinality(Items)
BY RelayConstants, FS_Subset, FS_CardinalityType

(***************************************************************************)
(* Whatever the day, every item of an offer is in the window of one of the *)
(* rounds that the registry counts through.                                *)
(***************************************************************************)
WindowsCover ==
  \A ids \in SUBSET Items : \A i \in ids :
    \E w \in 0 .. Cycle - 1 : i \in Window(ids, WindowStart(ids, w))

LEMMA DayCovers == TypeOK => WindowsCover
<1> SUFFICES ASSUME TypeOK, NEW ids \in SUBSET Items, NEW i \in ids
             PROVE  \E w \in 0 .. Cycle - 1 : i \in Window(ids, WindowStart(ids, w))
  BY DEF WindowsCover
<1> DEFINE n == Cardinality(ids)
           id == [j \in ids |-> j]
           place == [j \in ids |-> Cardinality({k \in ids : id[k] < id[j]})]
           position(j) == Cardinality({k \in ids : k < j})
<1>1. IsFiniteSet(ids) /\ n \in Nat \ {0} /\ n <= Cardinality(Items)
  BY FiniteItems, FS_EmptySet
<1>2. position(i) \in 0 .. n - 1
  <2>1. id \in [ids -> Int] /\ \A x, y \in ids : id[x] = id[y] => x = y
    BY RelayConstants
  <2>2. place \in Bijection(ids, 0 .. n - 1)
    <3> HIDE DEF id
    <3> QED BY <1>1, <2>1, RankIsNumbering
  <2>3. place[i] \in 0 .. n - 1
    <3> HIDE DEF place
    <3> QED BY <2>2 DEF Bijection, Injection
  <2>4. place[i] = position(i)
    OBVIOUS
  <2> QED BY <2>3, <2>4
<1> HIDE DEF id, place, position
<1>3. Cardinality(Items) \in Nat
  BY FiniteItems
<1>4. n \in 1 .. Cardinality(Items) /\ Cycle \in Nat \ {0} /\ ProcessMax \in Nat \ {0}
  BY <1>1, <1>3, RelayConstants
<1>5. Cycle % n = 0
  BY <1>4, RelayConstants
<1>6. n <= Cycle
  <2> HIDE DEF n
  <2>1. ASSUME Cycle < n PROVE FALSE
    <3>1. Cycle % n = Cycle
      BY <1>1, <1>4, <2>1
    <3> QED BY <1>4, <1>5, <3>1
  <2> QED BY <1>1, <1>4, <2>1
<1>7. Seed[day] \in Nat
  BY RelayConstants DEF TypeOK
<1>8. CASE n <= ProcessMax
  <2>1. i \in Window(ids, WindowStart(ids, 0))
    BY <1>8 DEF Window
  <2> QED BY <1>4, <2>1
<1>9. CASE ~(n <= ProcessMax)
  <2>1. PICK w \in 0 .. n - 1 :
          (position(i) + n - ((Seed[day] + w * ProcessMax) % n)) % n < ProcessMax
    <3> HIDE DEF n
    <3> QED BY <1>1, <1>2, <1>4, <1>7, StepsReach
  <2>2. w % n = w /\ w \in 0 .. Cycle - 1
    <3> HIDE DEF n
    <3> QED BY <1>1, <1>4, <1>6
  <2>3. i \in Window(ids, Seed[day] + w * ProcessMax)
    BY <1>9, <2>1 DEF Window, position
  <2>4. WindowStart(ids, w) = Seed[day] + w * ProcessMax
    BY <2>2 DEF WindowStart
  <2> QED BY <2>2, <2>3, <2>4
<1> QED BY <1>8, <1>9

-----------------------------------------------------------------------------
(* Types. *)

LEMMA ReadFrame ==
  ASSUME TypeOK, NEW kind, Reads(kind)
  PROVE  /\ Running
         /\ Head(unread) \in Frame /\ Tail(unread) \in Seq(Frame)
         /\ kind = "SUMMARY" => Head(unread).summary \in Summary
         /\ kind \in {"RELAY_INGEST", "REQUEST", "TRANSFER", "RECEIPT"} => Head(unread).ids \in SUBSET Items
<1>1. unread \in Seq(Frame) /\ unread # <<>> /\ Head(unread).kind = kind
  BY DEF TypeOK, Reads
<1>2. Head(unread) \in Frame /\ Tail(unread) \in Seq(Frame)
  BY <1>1
<1>3. ASSUME NEW f \in Frame
      PROVE  /\ f.kind = "SUMMARY" => f.summary \in Summary
             /\ f.kind \in {"RELAY_INGEST", "REQUEST", "TRANSFER", "RECEIPT"} => f.ids \in SUBSET Items
  BY DEF Frame
<1> QED BY <1>1, <1>2, <1>3 DEF Reads

LEMMA Frames ==
  ASSUME NEW f \in Frame, NEW g \in Frame
  PROVE  <<>> \in Seq(Frame) /\ <<f>> \in Seq(Frame) /\ <<f, g>> \in Seq(Frame)
OBVIOUS

LEMMA SomeOfThem ==
  ASSUME NEW S \in SUBSET Items, NEW preview, NEW k
  PROVE  FirstWanted(S, preview, k) \in SUBSET S
BY DEF FirstWanted

LEMMA WantedIds ==
  ASSUME NEW store, NEW s \in Summary, NEW offers
  PROVE  Wanted(store, s, offers) \in SUBSET (Items \ store)
<1>1. ((s.preview \union offers) \intersect s.held) \ store \in SUBSET Items
  BY DEF Summary
<1> QED BY <1>1, SomeOfThem DEF Wanted

LEMMA ObjectsAreHeld ==
  ASSUME TypeOK, NEW want \in SUBSET Items
  PROVE  Objects(want) \in SUBSET (want \intersect have)
<1>1. \A i \in want \intersect have : Cargo[i].item_id = i
  BY RelayConstants DEF TypeOK
<1>2. TransferItems({Cargo[i] : i \in want \intersect have}, MaxTransfer, MaxTransferBytes, 0, Relay)
        \in SUBSET {Cargo[i] : i \in want \intersect have}
  BY DEF TransferItems
<1> DEFINE chosen ==
      TransferItems({Cargo[i] : i \in want \intersect have}, MaxTransfer, MaxTransferBytes, 0, Relay)
<1>3. Objects(want) = {s.item_id : s \in chosen}
  BY DEF Objects
<1> HIDE DEF chosen
<1>4. ASSUME NEW s \in chosen PROVE s.item_id \in want \intersect have
  <2>1. PICK i \in want \intersect have : s = Cargo[i]
    BY <1>2 DEF chosen
  <2> QED BY <1>1, <2>1
<1> QED BY <1>3, <1>4

LEMMA IdsFrame ==
  ASSUME NEW kind \in {"RELAY_INGEST", "REQUEST", "TRANSFER", "RECEIPT"}, NEW S \in SUBSET Items
  PROVE  <<Ids(kind, S)>> \in Seq(Frame)
<1>1. Ids(kind, S) \in Frame
  BY DEF Ids, Frame
<1> QED BY <1>1

LEMMA RelayFrames ==
  ASSUME TypeOK
  PROVE  /\ Inventory \in Seq(Frame)
         /\ \A S \in SUBSET Items : RelayRequest(S) \in Seq(Frame)
         /\ \A S \in SUBSET Items : RelayTransfer(S) \in Seq(Frame)
<1>1. RelaySummary \in Frame
  <2>1. FirstWanted(held, {}, PreviewMax) \in SUBSET Items
    BY SomeOfThem DEF TypeOK
  <2> QED BY <2>1 DEF TypeOK, RelaySummary, Frame, Summary
<1>2. Ids("RELAY_INGEST", held) \in Frame
  BY DEF TypeOK, Ids, Frame
<1>3. Inventory \in Seq(Frame)
  BY <1>1, <1>2, Frames DEF Inventory
<1>4. ASSUME NEW S \in SUBSET Items PROVE RelayRequest(S) \in Seq(Frame)
  BY <1>4, IdsFrame DEF RelayRequest
<1>5. ASSUME NEW S \in SUBSET Items PROVE RelayTransfer(S) \in Seq(Frame)
  <2>1. FirstWanted(S \intersect held, {}, MaxTransfer) \in SUBSET Items
    BY SomeOfThem
  <2> QED BY <2>1, IdsFrame DEF RelayTransfer
<1> QED BY <1>3, <1>4, <1>5

LEMMA HandledTyped ==
  ASSUME TypeOK, Running, NEW made_progress, NEW s \in Summary, NEW offers \in SUBSET Items,
         NEW brought \in SUBSET Messages, Handled(made_progress, s, offers, brought)
  PROVE  /\ round' \in Round
         /\ session' \in {"closed", "idle", "running", "late"}
         /\ reported' \subseteq Messages /\ failed' \subseteq Messages
         /\ ~Running' => round' = Unknown
<1>1. round.pulled \union brought \in SUBSET Messages
  BY DEF TypeOK, Round
<1>2. Unknown \in Round
  BY DEF Unknown, Round, Summary, NoSummary
<1>3. CASE session' = "idle" /\ Reports(round.pulled \union brought)
  BY <1>1, <1>2, <1>3 DEF TypeOK, Reports, Running
<1>4. CASE /\ round' = [latest |-> s, candidates |-> offers, streak |-> IF made_progress THEN 0 ELSE 1,
                        pulled |-> round.pulled \union brought]
           /\ UNCHANGED <<session, chat>>
  <2>1. round' \in Round
    BY <1>1, <1>4 DEF Round
  <2> QED BY <1>4, <2>1 DEF TypeOK, Running, chat
<1> QED BY <1>3, <1>4 DEF Handled

LEMMA EndTyped ==
  ASSUME TypeOK, NEW messages \in SUBSET Messages, Reports(messages) \/ Errs(messages)
  PROVE  /\ round' \in Round /\ round' = Unknown
         /\ reported' \subseteq Messages /\ failed' \subseteq Messages
<1>1. Unknown \in Round
  BY DEF Unknown, Round, Summary, NoSummary
<1> QED BY <1>1 DEF TypeOK, Reports, Errs

LEMMA FaultTyped == ASSUME TypeOK, Fault \/ UNCHANGED faults PROVE faults' \in 0 .. MaxFaults
BY RelayConstants DEF TypeOK, Fault

LEMMA TypedAtFirst == Init => TypeOK
<1> SUFFICES ASSUME Init PROVE TypeOK
  OBVIOUS
<1>1. Unknown \in Round
  BY DEF Unknown, Round, Summary, NoSummary
<1>2. MaxDay \in Nat /\ MaxFaults \in Nat /\ Cycle \in Nat \ {0}
  BY RelayConstants
<1>3. unread \in Seq(Frame)
  BY DEF Init
<1>4. rotation \in [day: 0..MaxDay, round: 0..(Cycle - 1)]
  BY <1>2 DEF Init
<1>5. have \subseteq Items /\ held \subseteq Items /\ allowed \in BOOLEAN
  BY RelayConstants DEF Init
<1> QED BY <1>1, <1>2, <1>3, <1>4, <1>5 DEF Init, TypeOK, Running

LEMMA NamedIsHeld ==
  ASSUME NEW known
  PROVE  /\ Named(known) \subseteq have
         /\ known = IdentityReads => Named(known) \intersect Messages = {}
BY DEF Named, First, Advertised, IdentityReads, Messages

\* A round begins, whether the node can read its identity or not.
LEMMA BeginTyped ==
  ASSUME TypeOK, NEW known, BeginsRound(known), exposed' \subseteq Messages,
         faults' \in 0 .. MaxFaults
  PROVE  TypeOK'
<1>1. PICK pong \in Heartbeat : unread' = unread \o (pong \o Inventory \o RelayRequest(Named(known)))
  BY DEF BeginsRound, Sends
<1>2. pong \in Seq(Frame)
  <2>1. PONG \in Frame
    BY DEF PONG, Frame
  <2>2. Heartbeat \in SUBSET {<<>>, <<PONG>>}
    BY DEF Heartbeat
  <2> QED BY <2>1, <2>2, Frames
<1>3. Named(known) \in SUBSET Items
  BY NamedIsHeld DEF TypeOK
<1>4. Inventory \in Seq(Frame) /\ RelayRequest(Named(known)) \in Seq(Frame)
  BY <1>3, RelayFrames
<1>5. unread' \in Seq(Frame)
  BY <1>1, <1>2, <1>4 DEF TypeOK
<1> QED BY <1>5 DEF BeginsRound, TypeOK, chat, Running

LEMMA ChatterTyped ==
  ASSUME TypeOK, NEW kind \in {"PING", "HELLO"}, Chatter(kind)
  PROVE  TypeOK'
<1>1. [kind |-> kind] \in Frame
  BY DEF Frame
<1>2. unread' \in Seq(Frame)
  BY <1>1 DEF TypeOK, Chatter, Unasked, Sends
<1>3. faults' \in 0 .. MaxFaults
  BY FaultTyped DEF Chatter
<1> QED BY <1>2, <1>3 DEF Chatter, Unasked, TypeOK, chat, setting, Running

LEMMA SessionTyped ==
  ASSUME TypeOK, Connect \/ StartRound \/ (\E known \in SUBSET IdentityReads : StartRoundBlind(known))
                   \/ StartPoll \/ WaitsLong \/ Ping \/ Hello \/ Announce \/ NewDay
                   \/ UNCHANGED vars \/ (\E i \in Items : Arrive(i) \/ Gain(i))
  PROVE  TypeOK'
<1>1. \A pong \in Heartbeat : pong \in Seq(Frame)
  <2>1. PONG \in Frame
    BY DEF PONG, Frame
  <2>2. Heartbeat \in SUBSET {<<>>, <<PONG>>}
    BY DEF Heartbeat
  <2> QED BY <2>1, <2>2, Frames
<1>2. CASE Connect
  BY <1>2 DEF Connect, TypeOK, chat, setting, Running
<1>3. CASE StartRound
  <2>1. exposed' \subseteq Messages /\ faults' \in 0 .. MaxFaults
    BY <1>3 DEF StartRound, TypeOK
  <2> QED BY <1>3, <2>1, BeginTyped DEF StartRound
<1>11. ASSUME NEW known \in SUBSET IdentityReads, StartRoundBlind(known) PROVE TypeOK'
  <2>1. exposed' \subseteq Messages
    BY <1>11 DEF StartRoundBlind, TypeOK
  <2>2. faults' \in 0 .. MaxFaults
    BY <1>11, FaultTyped DEF StartRoundBlind
  <2> QED BY <1>11, <2>1, <2>2, BeginTyped DEF StartRoundBlind
<1>4. CASE StartPoll
  <2>1. PICK pong \in Heartbeat : unread' = unread \o pong
    BY <1>4 DEF StartPoll, Sends
  <2>2. unread' \in Seq(Frame)
    BY <1>1, <2>1 DEF TypeOK
  <2> QED BY <1>4, <2>2 DEF StartPoll, TypeOK, chat, setting, Running
<1>5. CASE WaitsLong
  BY <1>5 DEF WaitsLong, TypeOK, chat, setting, Running
<1>6. CASE Ping \/ Hello
  BY <1>6, ChatterTyped DEF Ping, Hello
<1>7. CASE Announce
  <2>1. unread' \in Seq(Frame)
    BY <1>7, RelayFrames DEF TypeOK, Announce, Unasked, Sends
  <2>2. faults' \in 0 .. MaxFaults
    BY <1>7, FaultTyped DEF Announce
  <2> QED BY <1>7, <2>1, <2>2 DEF Announce, Unasked, TypeOK, chat, setting, Running
<1>8. CASE NewDay
  <2>1. day' \in 0 .. MaxDay
    BY <1>8, RelayConstants DEF NewDay, TypeOK
  <2> QED BY <1>8, <2>1 DEF NewDay, TypeOK, chat, Running
<1>9. CASE UNCHANGED vars
  BY <1>9 DEF vars, TypeOK, chat, setting, Running
<1>10. ASSUME NEW i \in Items, Arrive(i) \/ Gain(i) PROVE TypeOK'
  BY <1>10 DEF Arrive, Gain, TypeOK, chat, setting, Running
<1> QED BY <1>2, <1>3, <1>4, <1>5, <1>6, <1>7, <1>8, <1>9, <1>10, <1>11

LEMMA EndingTyped ==
  ASSUME TypeOK, Overruns \/ RemoteClose \/ Fail \/ ReadPing \/ ReadForbiddenIngest
  PROVE  TypeOK'
<1>1. faults' \in 0 .. MaxFaults
  BY FaultTyped DEF Overruns, RemoteClose, Fail, ReadPing, ReadForbiddenIngest
<1>2. round.pulled \in SUBSET Messages
  BY DEF TypeOK, Round
<1>3. unread' \in Seq(Frame)
  <2>1. CASE Overruns
    BY <2>1 DEF Overruns, TypeOK
  <2>2. CASE RemoteClose \/ Fail
    <3>1. unread' = <<>>
      BY <2>2 DEF RemoteClose, Fail, Hangs
    <3> QED BY <3>1
  <2>3. CASE ReadPing \/ ReadForbiddenIngest
    <3>1. PICK kind \in {"PING", "PONG", "RELAY_INGEST"} : Reads(kind)
      BY <2>3 DEF ReadPing, ReadForbiddenIngest
    <3>2. Tail(unread) \in Seq(Frame)
      BY <3>1, ReadFrame
    <3>3. unread' = Tail(unread) \o <<>>
      BY <2>3 DEF ReadPing, ReadForbiddenIngest, Answers
    <3> QED BY <3>2, <3>3
  <2> QED BY <2>1, <2>2, <2>3
<1>4. CASE Reports(round.pulled) \/ Errs(round.pulled)
  <2>1. /\ round' \in Round /\ round' = Unknown
        /\ reported' \subseteq Messages /\ failed' \subseteq Messages
    BY <1>2, <1>4, EndTyped
  <2>2. session' \in {"closed", "idle", "running", "late"}
    BY DEF Overruns, RemoteClose, Fail, Hangs, ReadPing, ReadForbiddenIngest, TypeOK
  <2> QED BY <1>1, <1>3, <2>1, <2>2
          DEF TypeOK, setting, Overruns, RemoteClose, Fail, ReadPing, ReadForbiddenIngest
<1>5. CASE ReadForbiddenIngest /\ UNCHANGED <<session, round, chat>>
  BY <1>1, <1>3, <1>5 DEF TypeOK, ReadForbiddenIngest, setting, chat, Running
<1> QED BY <1>4, <1>5 DEF Overruns, RemoteClose, Fail, ReadPing, ReadForbiddenIngest

\* A frame is handled, and answered with frames of the relay.
LEMMA AnsweredTyped ==
  ASSUME TypeOK, NEW kind, Reads(kind), NEW frames \in Seq(Frame), Answers(frames),
         NEW made_progress, NEW s \in Summary, NEW offers \in SUBSET Items,
         NEW brought \in SUBSET Messages, Handled(made_progress, s, offers, brought),
         have' \in SUBSET Items, held' \in SUBSET Items, Fault \/ UNCHANGED faults,
         rotation' \in [day: 0..MaxDay, round: 0..(Cycle - 1)], UNCHANGED setting
  PROVE  TypeOK'
<1>1. Running /\ Tail(unread) \in Seq(Frame)
  BY ReadFrame
<1>2. unread' \in Seq(Frame)
  BY <1>1 DEF Answers
<1>3. /\ round' \in Round
      /\ session' \in {"closed", "idle", "running", "late"}
      /\ reported' \subseteq Messages /\ failed' \subseteq Messages
      /\ ~Running' => round' = Unknown
  BY <1>1, HandledTyped
<1>4. faults' \in 0 .. MaxFaults
  BY FaultTyped
<1> QED BY <1>2, <1>3, <1>4 DEF TypeOK, setting

LEMMA WindowTyped ==
  ASSUME TypeOK
  PROVE  NextWindow \in [day: 0..MaxDay, round: 0..(Cycle - 1)]
<1>1. Cycle \in Nat \ {0} /\ WindowRound \in Nat
  BY RelayConstants DEF TypeOK, WindowRound
<1>2. (WindowRound + 1) % Cycle \in 0 .. Cycle - 1
  BY <1>1
<1> QED BY <1>2 DEF NextWindow, TypeOK

LEMMA ReadTyped ==
  ASSUME TypeOK, ReadHello \/ ReadSummary \/ ReadIngest \/ ReadRequest \/ ReadTransfer \/ ReadReceipt
  PROVE  TypeOK'
<1>1. /\ round.latest \in Summary /\ round.candidates \in SUBSET Items
      /\ have \in SUBSET Items /\ held \in SUBSET Items
      /\ round.pulled \in SUBSET Messages
      /\ rotation \in [day: 0..MaxDay, round: 0..(Cycle - 1)]
      /\ {} \in SUBSET Messages
  BY DEF TypeOK, Round
<1>2. CASE ReadSummary
  <2> DEFINE s == Head(unread).summary
             want == Wanted(have, s, round.candidates)
  <2>1. s \in Summary
    BY <1>2, ReadFrame DEF ReadSummary
  <2>2. RelayTransfer(want) \in Seq(Frame)
    BY <2>1, WantedIds, RelayFrames
  <2>3. /\ Reads("SUMMARY") /\ Answers(RelayTransfer(want))
        /\ Handled(want # {}, s, round.candidates, {})
        /\ UNCHANGED <<have, held, setting, rotation, faults>>
    BY <1>2 DEF ReadSummary
  <2> HIDE DEF s, want
  <2> QED BY <1>1, <2>1, <2>2, <2>3, AnsweredTyped
<1>3. CASE ReadIngest
  <2> DEFINE ids == Head(unread).ids
  <2>1. ids \in SUBSET Items /\ Reads("RELAY_INGEST")
    BY <1>3, ReadFrame DEF ReadIngest
  <2>2. /\ UNCHANGED <<have, held, setting>> /\ (Fault \/ UNCHANGED faults)
        /\ rotation' \in {NextWindow, rotation}
    BY <1>3 DEF ReadIngest
  <2>3. rotation' \in [day: 0..MaxDay, round: 0..(Cycle - 1)]
    BY <1>1, <2>2, WindowTyped
  <2>4. PICK offers \in SUBSET Items : TakeOffer(offers)
    <3>1. Processed(ids) \ have \in SUBSET Items
      BY <2>1 DEF Processed, Window
    <3> QED BY <1>1, <1>3, <3>1 DEF ReadIngest
  <2> DEFINE want == IF round.latest = NoSummary THEN {} ELSE Wanted(have, round.latest, offers)
  <2>5. Answers(RelayTransfer(want)) /\ Handled(want # {}, round.latest, offers, {})
    BY <2>4 DEF TakeOffer
  <2>6. RelayTransfer(want) \in Seq(Frame)
    BY <1>1, WantedIds, RelayFrames
  <2> HIDE DEF ids, want
  <2> QED BY <1>1, <2>1, <2>2, <2>3, <2>5, <2>6, AnsweredTyped
<1>4. CASE ReadRequest
  <2> DEFINE objects == Objects(Head(unread).ids)
             frames == IF objects = {} THEN <<>> ELSE <<Ids("RECEIPT", objects)>>
  <2>1. /\ Reads("REQUEST") /\ held' = held \union objects /\ Answers(frames)
        /\ Handled(objects # {}, round.latest, round.candidates, {})
        /\ UNCHANGED <<have, setting, rotation, faults>>
    BY <1>4 DEF ReadRequest
  <2>2. objects \in SUBSET Items
    BY <2>1, ReadFrame, ObjectsAreHeld
  <2>3. frames \in Seq(Frame)
    BY <2>2, IdsFrame
  <2> HIDE DEF objects, frames
  <2> QED BY <1>1, <2>1, <2>2, <2>3, AnsweredTyped
<1>5. CASE ReadTransfer
  <2>1. Reads("TRANSFER") /\ UNCHANGED <<held, setting, rotation>> /\ Head(unread).ids \in SUBSET Items
    BY <1>5, ReadFrame DEF ReadTransfer
  <2>2. PICK accepted \in Imports(Head(unread).ids) :
          LET brought == (accepted \ have) \intersect Messages
          IN  /\ have' = have \union accepted
              /\ \/ Answers(<<>>) /\ Handled(accepted # {}, round.latest, round.candidates, brought)
                    /\ UNCHANGED faults
                 \/ Hangs /\ Errs(round.pulled \union brought) /\ Fault
    BY <1>5 DEF ReadTransfer
  <2> DEFINE brought == (accepted \ have) \intersect Messages
  <2>3. have' \in SUBSET Items /\ brought \in SUBSET Messages
    BY <1>1, <2>1, <2>2 DEF Imports
  <2>4. CASE Answers(<<>>) /\ Handled(accepted # {}, round.latest, round.candidates, brought)
             /\ UNCHANGED faults
    <3>1. <<>> \in Seq(Frame)
      OBVIOUS
    <3> HIDE DEF brought
    <3> QED BY <1>1, <2>1, <2>3, <2>4, <3>1, AnsweredTyped
  <2>5. CASE Hangs /\ Errs(round.pulled \union brought) /\ Fault
    <3>1. round.pulled \union brought \in SUBSET Messages
      BY <1>1, <2>3
    <3>2. /\ round' \in Round /\ round' = Unknown
          /\ reported' \subseteq Messages /\ failed' \subseteq Messages
      BY <2>5, <3>1, EndTyped
    <3>3. unread' \in Seq(Frame) /\ session' = "closed"
      BY <2>5 DEF Hangs
    <3>4. faults' \in 0 .. MaxFaults
      BY <2>5, FaultTyped
    <3> QED BY <2>1, <2>3, <3>2, <3>3, <3>4 DEF TypeOK, setting
  <2> QED BY <2>2, <2>4, <2>5
<1>7. CASE ReadHello
  <2>1. /\ Reads("HELLO") /\ Answers(<<>>)
        /\ Handled(FALSE, round.latest, round.candidates, {})
        /\ UNCHANGED <<have, held, setting, rotation, faults>>
    BY <1>7 DEF ReadHello
  <2>2. <<>> \in Seq(Frame)
    OBVIOUS
  <2> QED BY <1>1, <2>1, <2>2, AnsweredTyped
<1>6. CASE ReadReceipt
  <2>1. /\ Reads("RECEIPT") /\ Answers(<<>>)
        /\ Handled(Head(unread).ids # {}, round.latest, round.candidates, {})
        /\ UNCHANGED <<have, held, setting, rotation, faults>>
    BY <1>6 DEF ReadReceipt
  <2>2. <<>> \in Seq(Frame)
    OBVIOUS
  <2> QED BY <1>1, <2>1, <2>2, AnsweredTyped
<1> QED BY <1>2, <1>3, <1>4, <1>5, <1>6, <1>7

LEMMA StaysTyped == TypeOK /\ [Next]_vars => TypeOK'
BY SessionTyped, EndingTyped, ReadTyped DEF Next, Read

\* The node's end of a session has its type in every behaviour: outside a round
\* nothing of one is kept, and a round that goes on has seen at most one frame
\* without progress.
THEOREM TypeCorrect == Spec => []TypeOK
BY TypedAtFirst, StaysTyped, PTL DEF Spec

\* One of the windows comes to every item of an offer, on every day, for any
\* offers, seeds and lengths of the window: what OfferArrives relies on
\* (select_relay_ingest_window_with_wraparound, next_relay_ingest_window_round).
THEOREM EveryOfferComesUp == Spec => []WindowsCover
BY TypeCorrect, DayCovers, PTL

-----------------------------------------------------------------------------
(* The messages. *)

IInv == NoneOverlooked /\ Stored \subseteq have

\* A frame is handled: the messages it brought were not in the store before.
LEMMA HandledKeeps ==
  ASSUME IInv, NEW accepted, NEW made_progress, NEW s, NEW offers,
         have' = have \union accepted,
         Handled(made_progress, s, offers, (accepted \ have) \intersect Messages)
  PROVE  IInv'
<1> DEFINE brought == (accepted \ have) \intersect Messages
<1>1. (have' \ Stored) \intersect Messages = ((have \ Stored) \intersect Messages) \union brought
  BY DEF IInv
<1>2. brought \intersect (round.pulled \union reported \union failed) = {}
  BY DEF IInv, NoneOverlooked
<1>3. CASE Reports(round.pulled \union brought)
  BY <1>1, <1>2, <1>3 DEF IInv, NoneOverlooked, Reports, Unknown
<1>4. CASE round'.pulled = round.pulled \union brought /\ UNCHANGED chat
  BY <1>1, <1>2, <1>4 DEF IInv, NoneOverlooked, chat
<1> QED
  BY <1>3, <1>4 DEF Handled

\* A frame that is no TRANSFER brings nothing.
LEMMA NothingBrought ==
  ASSUME IInv, NEW made_progress, NEW s, NEW offers,
         have' = have, Handled(made_progress, s, offers, {})
  PROVE  IInv'
<1>1. have' = have \union {} /\ ({} \ have) \intersect Messages = {}
  OBVIOUS
<1>2. Handled(made_progress, s, offers, ({} \ have) \intersect Messages)
  BY <1>1
<1> QED
  BY <1>1, <1>2, HandledKeeps

\* A round is cut short, with its report or without.
LEMMA CutShort ==
  ASSUME IInv, have' = have, Reports(round.pulled) \/ Errs(round.pulled)
  PROVE  IInv'
BY DEF IInv, NoneOverlooked, Reports, Errs, Unknown

LEMMA Unaffected ==
  ASSUME IInv, UNCHANGED <<have, round, chat>>
  PROVE  IInv'
BY DEF IInv, NoneOverlooked, chat

LEMMA InitInv == Init => IInv
BY DEF Init, IInv, NoneOverlooked, Unknown

LEMMA StepInv ==
  ASSUME Origin \intersect Messages = {}, IInv, [Next]_vars
  PROVE  IInv'
<1>1. CASE Connect \/ StartRound \/ StartPoll \/ WaitsLong \/ Ping \/ Hello \/ Announce \/ NewDay
  BY <1>1, Unaffected DEF Connect, StartRound, BeginsRound, StartPoll, WaitsLong, Ping, Hello, Chatter,
                          Announce, Unasked, NewDay
<1>12. ASSUME NEW known \in SUBSET IdentityReads, StartRoundBlind(known) PROVE IInv'
  BY <1>12, Unaffected DEF StartRoundBlind, BeginsRound
<1>13. CASE ReadHello
  BY <1>13, NothingBrought DEF ReadHello
<1>2. CASE Overruns \/ RemoteClose \/ Fail \/ ReadPing
  BY <1>2, CutShort DEF Overruns, RemoteClose, Fail, ReadPing
<1>3. CASE ReadSummary
  BY <1>3, NothingBrought DEF ReadSummary
<1>4. CASE ReadForbiddenIngest
  BY <1>4, CutShort, Unaffected DEF ReadForbiddenIngest
<1>5. CASE ReadIngest
  BY <1>5, NothingBrought DEF ReadIngest, TakeOffer
<1>6. CASE ReadRequest
  BY <1>6, NothingBrought DEF ReadRequest
<1>7. CASE ReadTransfer
  <2>1. PICK accepted \in Imports(Head(unread).ids) :
          LET brought == (accepted \ have) \intersect Messages
          IN  /\ have' = have \union accepted
              /\ \/ Handled(accepted # {}, round.latest, round.candidates, brought)
                 \/ Errs(round.pulled \union brought)
    BY <1>7 DEF ReadTransfer
  <2> DEFINE brought == (accepted \ have) \intersect Messages
  <2>2. CASE Handled(accepted # {}, round.latest, round.candidates, brought)
    BY <2>1, <2>2, HandledKeeps
  <2>3. CASE Errs(round.pulled \union brought)
    <3>1. /\ (have' \ Stored) \intersect Messages = ((have \ Stored) \intersect Messages) \union brought
          /\ brought \intersect (round.pulled \union reported \union failed) = {}
      BY <2>1 DEF IInv, NoneOverlooked
    <3> QED
      BY <2>1, <2>3, <3>1 DEF IInv, NoneOverlooked, Errs, Unknown
  <2> QED
    BY <2>1, <2>2, <2>3
<1>8. CASE ReadReceipt
  BY <1>8, NothingBrought DEF ReadReceipt
<1>9. ASSUME NEW i \in Items, Arrive(i)
      PROVE  IInv'
  BY <1>9, Unaffected DEF Arrive
<1>10. ASSUME NEW i \in Items, Gain(i)
       PROVE  IInv'
  BY <1>10 DEF Gain, IInv, NoneOverlooked, chat
<1>11. CASE UNCHANGED vars
  BY <1>11, Unaffected DEF vars
<1> QED
  BY <1>1, <1>2, <1>3, <1>4, <1>5, <1>6, <1>7, <1>8, <1>9, <1>10, <1>11, <1>12, <1>13 DEF Next, Read

\* Every message a relay brings is in the report of the round, in the chat, or
\* with the error that ended its round, and none is handed over twice, provided
\* the user writes to others only.
THEOREM NoMessageOverlooked ==
  ASSUME Origin \intersect Messages = {}
  PROVE  Spec => []NoneOverlooked
<1>1. Init => IInv
  BY InitInv
<1>2. IInv /\ [Next]_vars => IInv'
  BY StepInv
<1>3. IInv => NoneOverlooked
  BY DEF IInv
<1> QED
  BY <1>1, <1>2, <1>3, PTL DEF Spec

-----------------------------------------------------------------------------
(* The stores, and what is said when both are full. *)

LEMMA LaterFrames ==
  ASSUME NEW S, NEW T, S \subseteq T, NEW q \in Seq(S), NEW r \in Seq(T)
  PROVE  q \o r \in Seq(T) /\ q \in Seq(T)
OBVIOUS

LEMMA ShortSequences ==
  ASSUME NEW S, NEW f \in S, NEW g \in S
  PROVE  <<>> \in Seq(S) /\ <<f>> \in Seq(S) /\ <<f, g>> \in Seq(S)
OBVIOUS

LEMMA Restful ==
  ASSUME NEW S, NEW q \in Seq(S), q # <<>>
  PROVE  Tail(q) \in Seq(S) /\ Head(q) \in S
OBVIOUS

\* Frames that ask for nothing and carry nothing, but for items of S.
QuietFrames(S) == {f \in Frame : f.kind \in {"TRANSFER", "REQUEST"} => f.ids \subseteq S}

LEMMA QuietGrow ==
  ASSUME NEW S, NEW T, S \subseteq T
  PROVE  QuietFrames(S) \subseteq QuietFrames(T)
BY DEF QuietFrames

LEMMA QuietKinds ==
  ASSUME NEW S, NEW f \in Frame, f.kind \notin {"TRANSFER", "REQUEST"}
  PROVE  f \in QuietFrames(S)
BY DEF QuietFrames

LEMMA QuietIs ==
  ASSUME TypeOK
  PROVE  OnItsWay \subseteq exposed <=> unread \in Seq(QuietFrames(exposed))
<1>1. unread \in Seq(Frame) /\ DOMAIN unread = 1 .. Len(unread)
  BY DEF TypeOK
<1>2. ASSUME NEW f \in Frame, f.kind \in {"TRANSFER", "REQUEST"} PROVE f.ids \subseteq Items
  BY <1>2 DEF Frame
<1>3. ASSUME OnItsWay \subseteq exposed PROVE unread \in Seq(QuietFrames(exposed))
  <2>1. ASSUME NEW n \in 1 .. Len(unread) PROVE unread[n] \in QuietFrames(exposed)
    <3>1. unread[n] \in Frame
      BY <1>1
    <3>2. ASSUME unread[n].kind \in {"TRANSFER", "REQUEST"} PROVE unread[n].ids \subseteq exposed
      <4>1. unread[n].ids \subseteq OnItsWay
        BY <1>1, <1>2, <3>1, <3>2 DEF OnItsWay
      <4> QED BY <1>3, <4>1
    <3> QED BY <3>1, <3>2 DEF QuietFrames
  <2> QED BY <1>1, <2>1
<1>4. ASSUME unread \in Seq(QuietFrames(exposed)) PROVE OnItsWay \subseteq exposed
  <2>1. \A n \in DOMAIN unread : unread[n] \in QuietFrames(exposed)
    BY <1>1, <1>4
  <2> QED BY <2>1 DEF OnItsWay, QuietFrames
<1> QED BY <1>3, <1>4

\* What each side says of its own accord.
LEMMA SaidUnasked ==
  ASSUME TypeOK, NEW S
  PROVE  /\ \A pong \in Heartbeat : pong \in Seq(QuietFrames(S))
         /\ Inventory \in Seq(QuietFrames(S))
         /\ \A kind \in {"PING", "HELLO"} : <<[kind |-> kind]>> \in Seq(QuietFrames(S))
         /\ \A T \in SUBSET Items : <<Ids("RECEIPT", T)>> \in Seq(QuietFrames(S))
         /\ <<>> \in Seq(QuietFrames(S))
<1>1. ASSUME NEW kind \in {"PING", "PONG", "HELLO"} PROVE [kind |-> kind] \in QuietFrames(S)
  <2>1. [kind |-> kind] \in Frame /\ [kind |-> kind].kind = kind
    BY DEF Frame
  <2> QED BY <2>1, QuietKinds
<1>2. ASSUME NEW pong \in Heartbeat PROVE pong \in Seq(QuietFrames(S))
  <2>1. pong = <<>> \/ pong = <<PONG>>
    BY DEF Heartbeat
  <2>2. PONG \in QuietFrames(S)
    BY <1>1 DEF PONG
  <2> QED BY <2>1, <2>2, ShortSequences
<1>3. Inventory \in Seq(QuietFrames(S))
  <2> DEFINE a == RelaySummary
             o == Ids("RELAY_INGEST", held)
  <2>1. a \in Frame /\ a.kind = "SUMMARY"
    <3>1. FirstWanted(held, {}, PreviewMax) \in SUBSET Items
      BY SomeOfThem DEF TypeOK
    <3> QED BY <3>1 DEF TypeOK, RelaySummary, Frame, Summary
  <2>2. o \in Frame /\ o.kind = "RELAY_INGEST"
    BY DEF TypeOK, Ids, Frame
  <2>3. Inventory \in {<<a, o>>, <<o, a>>}
    BY DEF Inventory
  <2> HIDE DEF a, o
  <2>4. a \in QuietFrames(S) /\ o \in QuietFrames(S)
    BY <2>1, <2>2, QuietKinds
  <2> QED BY <2>3, <2>4, ShortSequences
<1>4. ASSUME NEW kind \in {"PING", "HELLO"} PROVE <<[kind |-> kind]>> \in Seq(QuietFrames(S))
  <2> DEFINE f == [kind |-> kind]
  <2>1. f \in QuietFrames(S)
    BY <1>1
  <2> HIDE DEF f
  <2>2. <<f>> \in Seq(QuietFrames(S))
    BY <2>1, ShortSequences
  <2> QED BY <2>2 DEF f
<1>5. ASSUME NEW T \in SUBSET Items PROVE <<Ids("RECEIPT", T)>> \in Seq(QuietFrames(S))
  <2>1. Ids("RECEIPT", T) \in Frame /\ Ids("RECEIPT", T).kind = "RECEIPT"
    BY DEF Ids, Frame
  <2>2. Ids("RECEIPT", T) \in QuietFrames(S)
    BY <2>1, QuietKinds
  <2> QED BY <2>2, ShortSequences
<1> QED BY <1>2, <1>3, <1>4, <1>5

\* What the relay asks for when both have everything is what it should not have been
\* told of, and what it answers is nothing.
LEMMA NothingToSay ==
  ASSUME TypeOK, Complete
  PROVE  /\ \A known : RelayRequest(Named(known)) \in Seq(QuietFrames(Named(known) \intersect Messages))
         /\ \A s \in Summary, offers \in SUBSET Items : RelayTransfer(Wanted(have, s, offers)) = <<>>
         /\ RelayTransfer({}) = <<>>
<1>1. ASSUME NEW known
      PROVE  RelayRequest(Named(known)) \in Seq(QuietFrames(Named(known) \intersect Messages))
  <2> DEFINE named == Named(known)
             asked == named \ held
  <2>1. asked \in SUBSET Items /\ asked \subseteq named \intersect Messages
    BY NamedIsHeld DEF Complete, TypeOK
  <2> HIDE DEF named, asked
  <2>2. Ids("REQUEST", asked) \in QuietFrames(named \intersect Messages)
    BY <2>1 DEF Ids, Frame, QuietFrames
  <2>3. /\ <<>> \in Seq(QuietFrames(named \intersect Messages))
        /\ <<Ids("REQUEST", asked)>> \in Seq(QuietFrames(named \intersect Messages))
    BY <2>2, ShortSequences
  <2>4. RelayRequest(named) = <<>> \/ RelayRequest(named) = <<Ids("REQUEST", asked)>>
    BY DEF RelayRequest, asked
  <2>5. RelayRequest(named) \in Seq(QuietFrames(named \intersect Messages))
    <3>1. CASE RelayRequest(named) = <<>>
      BY <2>3, <3>1
    <3>2. CASE RelayRequest(named) = <<Ids("REQUEST", asked)>>
      BY <2>3, <3>2
    <3> QED BY <2>4, <3>1, <3>2
  <2> QED BY <2>5 DEF named
<1>2. RelayTransfer({}) = <<>>
  <2>1. FirstWanted({} \intersect held, {}, MaxTransfer) = {}
    BY DEF FirstWanted
  <2> QED BY <2>1 DEF RelayTransfer
<1>3. ASSUME NEW s \in Summary, NEW offers \in SUBSET Items
      PROVE  RelayTransfer(Wanted(have, s, offers)) = <<>>
  <2>1. Wanted(have, s, offers) = {}
    BY WantedIds DEF Complete
  <2> QED BY <1>2, <2>1
<1> QED BY <1>1, <1>2, <1>3

LEMMA StoresGrow ==
  ASSUME TypeOK, [Next]_vars
  PROVE  have \subseteq have' /\ held \subseteq held' /\ exposed \subseteq exposed'
<1>1. CASE Connect \/ StartRound \/ StartPoll \/ WaitsLong \/ Overruns \/ RemoteClose \/ Fail
           \/ Ping \/ Hello \/ Announce \/ NewDay \/ UNCHANGED vars
  BY <1>1 DEF Connect, StartRound, BeginsRound, StartPoll, WaitsLong, Overruns, RemoteClose, Fail,
              Ping, Hello, Chatter, Announce, Unasked, NewDay, vars, setting
<1>4. ASSUME NEW known \in SUBSET IdentityReads, StartRoundBlind(known)
      PROVE  have \subseteq have' /\ held \subseteq held' /\ exposed \subseteq exposed'
  BY <1>4 DEF StartRoundBlind, BeginsRound
<1>2. CASE Read
  BY <1>2 DEF Read, setting, ReadPing, ReadHello, ReadSummary, ReadForbiddenIngest, ReadIngest, ReadRequest,
              ReadTransfer, ReadReceipt
<1>3. ASSUME NEW i \in Items, Arrive(i) \/ Gain(i)
      PROVE  have \subseteq have' /\ held \subseteq held' /\ exposed \subseteq exposed'
  BY <1>3 DEF Arrive, Gain, setting
<1> QED BY <1>1, <1>2, <1>3, <1>4 DEF Next

\* A frame is answered, with what says nothing.
LEMMA QuietAnswer ==
  ASSUME NEW S, unread \in Seq(QuietFrames(S)), unread # <<>>,
         NEW frames \in Seq(QuietFrames(S)), Answers(frames)
  PROVE  unread' \in Seq(QuietFrames(S))
<1>1. Tail(unread) \in Seq(QuietFrames(S))
  BY Restful
<1> QED BY <1>1, LaterFrames DEF Answers

LEMMA QuietRead ==
  ASSUME TypeOK, Complete, unread \in Seq(QuietFrames(exposed)), Read
  PROVE  unread' \in Seq(QuietFrames(exposed))
<1>1. unread # <<>>
  BY DEF Read, ReadPing, ReadHello, ReadSummary, ReadForbiddenIngest, ReadIngest, ReadRequest,
         ReadTransfer, ReadReceipt, Reads
<1>2. /\ <<>> \in Seq(QuietFrames(exposed))
      /\ \A T \in SUBSET Items : <<Ids("RECEIPT", T)>> \in Seq(QuietFrames(exposed))
  BY SaidUnasked
<1>3. CASE ReadPing \/ ReadHello \/ ReadForbiddenIngest \/ ReadReceipt
  <2>1. Answers(<<>>)
    BY <1>3 DEF ReadPing, ReadHello, ReadForbiddenIngest, ReadReceipt
  <2> QED BY <1>1, <1>2, <2>1, QuietAnswer
<1>4. CASE ReadSummary
  <2> DEFINE s == Head(unread).summary
  <2>1. s \in Summary /\ round.candidates \in SUBSET Items
    BY <1>4, ReadFrame DEF ReadSummary, TypeOK, Round
  <2>2. Answers(RelayTransfer(Wanted(have, s, round.candidates)))
    BY <1>4 DEF ReadSummary
  <2>3. RelayTransfer(Wanted(have, s, round.candidates)) = <<>>
    BY <2>1, NothingToSay
  <2> HIDE DEF s
  <2> QED BY <1>1, <1>2, <2>2, <2>3, QuietAnswer
<1>5. CASE ReadIngest
  <2>1. PICK offers : TakeOffer(offers) /\ offers \in SUBSET Items
    <3>1. Head(unread).ids \in SUBSET Items
      BY <1>5, ReadFrame DEF ReadIngest
    <3>2. Processed(Head(unread).ids) \ have \in SUBSET Items /\ round.candidates \in SUBSET Items
      BY <3>1 DEF Processed, Window, TypeOK, Round
    <3> QED BY <1>5, <3>2 DEF ReadIngest
  <2> DEFINE want == IF round.latest = NoSummary THEN {} ELSE Wanted(have, round.latest, offers)
  <2>2. Answers(RelayTransfer(want))
    BY <2>1 DEF TakeOffer
  <2>3. round.latest \in Summary
    BY DEF TypeOK, Round
  <2>4. want = {} \/ want = Wanted(have, round.latest, offers)
    OBVIOUS
  <2> HIDE DEF want
  <2>5. RelayTransfer(want) = <<>>
    BY <2>1, <2>3, <2>4, NothingToSay
  <2> QED BY <1>1, <1>2, <2>2, <2>5, QuietAnswer
<1>6. CASE ReadRequest
  <2> DEFINE objects == Objects(Head(unread).ids)
             frames == IF objects = {} THEN <<>> ELSE <<Ids("RECEIPT", objects)>>
  <2>1. objects \in SUBSET Items /\ Answers(frames)
    BY <1>6, ReadFrame, ObjectsAreHeld DEF ReadRequest
  <2>2. frames \in Seq(QuietFrames(exposed))
    BY <1>2, <2>1
  <2> HIDE DEF frames
  <2> QED BY <1>1, <2>1, <2>2, QuietAnswer
<1>7. CASE ReadTransfer
  <2>1. Answers(<<>>) \/ unread' = <<>>
    BY <1>7 DEF ReadTransfer, Hangs
  <2> QED BY <1>1, <1>2, <2>1, QuietAnswer
<1> QED BY <1>3, <1>4, <1>5, <1>6, <1>7 DEF Read

Settled == Complete /\ OnItsWay \subseteq exposed

LEMMA SettledStep ==
  ASSUME TypeOK, TypeOK', Settled, [Next]_vars
  PROVE  Settled'
<1>1. Complete'
  <2>1. have \subseteq have' /\ held \subseteq held'
    BY StoresGrow
  <2>2. have' \subseteq Items /\ held' \subseteq Items
    BY DEF TypeOK
  <2>3. Messages \subseteq Items
    BY DEF Messages
  <2> QED BY <2>1, <2>2, <2>3 DEF Settled, Complete, Messages
<1>2. unread \in Seq(QuietFrames(exposed)) /\ Complete
  BY QuietIs DEF Settled
<1>3. exposed \subseteq exposed'
  BY StoresGrow
<1>4. ASSUME NEW r \in Seq(QuietFrames(exposed)) PROVE r \in Seq(QuietFrames(exposed'))
  BY <1>3, <1>4, QuietGrow, LaterFrames
<1>5. /\ \A pong \in Heartbeat : pong \in Seq(QuietFrames(exposed'))
      /\ Inventory \in Seq(QuietFrames(exposed'))
      /\ \A kind \in {"PING", "HELLO"} : <<[kind |-> kind]>> \in Seq(QuietFrames(exposed'))
      /\ <<>> \in Seq(QuietFrames(exposed'))
  BY SaidUnasked
<1>6. unread \in Seq(QuietFrames(exposed'))
  BY <1>2, <1>4
<1>7. ASSUME NEW frames \in Seq(QuietFrames(exposed')), Sends(frames)
      PROVE  unread' \in Seq(QuietFrames(exposed'))
  <2>1. unread' = unread \o frames
    BY <1>7 DEF Sends
  <2> QED BY <1>6, <2>1, LaterFrames
<1>8. ASSUME NEW known, BeginsRound(known), Named(known) \intersect Messages \subseteq exposed'
      PROVE  unread' \in Seq(QuietFrames(exposed'))
  <2>1. PICK pong \in Heartbeat : Sends(pong \o Inventory \o RelayRequest(Named(known)))
    BY <1>8 DEF BeginsRound
  <2> DEFINE asks == RelayRequest(Named(known))
             names == Named(known) \intersect Messages
  <2>2. asks \in Seq(QuietFrames(names))
    BY <1>2, NothingToSay
  <2>3. names \subseteq exposed'
    BY <1>8
  <2> HIDE DEF asks, names
  <2>4. asks \in Seq(QuietFrames(exposed'))
    BY <2>2, <2>3, QuietGrow, LaterFrames
  <2>5. pong \o Inventory \in Seq(QuietFrames(exposed'))
    BY <1>5, LaterFrames
  <2>6. pong \o Inventory \o asks \in Seq(QuietFrames(exposed'))
    BY <2>4, <2>5, LaterFrames
  <2> QED BY <1>7, <2>1, <2>6 DEF asks
<1>9. unread' \in Seq(QuietFrames(exposed'))
  <2>1. CASE StartRound
    BY <1>8, <2>1, NamedIsHeld DEF StartRound
  <2>2. ASSUME NEW known \in SUBSET IdentityReads, StartRoundBlind(known)
        PROVE  unread' \in Seq(QuietFrames(exposed'))
    BY <1>8, <2>2 DEF StartRoundBlind
  <2>3. CASE StartPoll
    BY <1>5, <1>7, <2>3 DEF StartPoll
  <2>4. CASE Ping \/ Hello
    BY <1>5, <1>7, <2>4 DEF Ping, Hello, Chatter, Unasked
  <2>5. CASE Announce
    BY <1>5, <1>7, <2>5 DEF Announce, Unasked
  <2>6. CASE Connect \/ WaitsLong \/ Overruns \/ NewDay \/ UNCHANGED vars
             \/ \E i \in Items : Arrive(i) \/ Gain(i)
    <3>1. unread' = unread
      BY <2>6 DEF Connect, WaitsLong, Overruns, NewDay, vars, Arrive, Gain
    <3> QED BY <1>6, <3>1
  <2>7. CASE RemoteClose \/ Fail
    <3>1. unread' = <<>>
      BY <2>7 DEF RemoteClose, Fail, Hangs
    <3> QED BY <1>5, <3>1
  <2>8. CASE Read
    BY <1>2, <1>4, <2>8, QuietRead
  <2> QED BY <2>1, <2>2, <2>3, <2>4, <2>5, <2>6, <2>7, <2>8 DEF Next
<1>10. (OnItsWay \subseteq exposed)'
  <2>1. unread' \in Seq(QuietFrames(exposed)')
    BY <1>9 DEF QuietFrames, Frame, Summary
  <2>2. TypeOK' => ((OnItsWay \subseteq exposed)' <=> (unread \in Seq(QuietFrames(exposed)))')
    BY QuietIs, PTL
  <2> QED BY <2>1, <2>2
<1> QED BY <1>1, <1>10 DEF Settled

\* Once both hold everything and nothing is on its way but what a node named when
\* it could not read its identity, it stays so whatever happens: without such a
\* failure no item is sent any more.  The safety part of Settles.
THEOREM SettledStays ==
  Spec => [](Complete /\ OnItsWay \subseteq exposed => [](Complete /\ OnItsWay \subseteq exposed))
<1>1. TypeOK /\ TypeOK' /\ Settled /\ [Next]_vars => Settled'
  BY SettledStep
<1>2. Spec => []TypeOK /\ [][Next]_vars
  BY TypeCorrect, PTL DEF Spec
<1>3. Spec => [](Settled => []Settled)
  BY <1>1, <1>2, PTL
<1> QED BY <1>3, PTL DEF Settled

-----------------------------------------------------------------------------
(* The exchange. *)

\* Frames that hold what their sender has: the relay, of a TRANSFER; of a REQUEST
\* the node, and it may send it, or has named it nevertheless.
SoundFrames ==
  {f \in Frame : /\ f.kind = "TRANSFER" => f.ids \subseteq held
                 /\ f.kind = "REQUEST" => f.ids \intersect Messages \subseteq exposed}

InTransit == unread \in Seq(SoundFrames)

LEMMA SoundAnswers ==
  ASSUME TypeOK
  PROVE  /\ Seq(QuietFrames({})) \subseteq Seq(SoundFrames)
         /\ \A S \in SUBSET Items : RelayTransfer(S) \in Seq(SoundFrames)
<1>1. QuietFrames({}) \subseteq SoundFrames
  BY DEF QuietFrames, SoundFrames
<1>2. ASSUME NEW q \in Seq(QuietFrames({})) PROVE q \in Seq(SoundFrames)
  BY <1>1
<1>3. ASSUME NEW S \in SUBSET Items PROVE RelayTransfer(S) \in Seq(SoundFrames)
  <2> DEFINE objects == FirstWanted(S \intersect held, {}, MaxTransfer)
  <2>1. objects \in SUBSET Items /\ objects \subseteq held
    BY SomeOfThem
  <2> HIDE DEF objects
  <2>2. Ids("TRANSFER", objects) \in SoundFrames
    BY <2>1 DEF Ids, Frame, SoundFrames
  <2>3. <<Ids("TRANSFER", objects)>> \in Seq(SoundFrames)
    BY <2>2
  <2> QED BY <2>3 DEF RelayTransfer, objects
<1> QED BY <1>2, <1>3

\* The relay gives nothing up, and what is exposed stays so: frames stay sound.
LEMMA SoundGrow ==
  ASSUME TypeOK, [Next]_vars
  PROVE  SoundFrames \subseteq SoundFrames'
<1>1. held \subseteq held' /\ exposed \subseteq exposed'
  BY StoresGrow
<1> QED BY <1>1 DEF SoundFrames, Frame, Messages, Summary

LEMMA SoundBegin ==
  ASSUME TypeOK, NEW known, Named(known) \intersect Messages \subseteq exposed', held' = held
  PROVE  RelayRequest(Named(known)) \in Seq(SoundFrames')
<1> DEFINE named == Named(known)
           asked == named \ held
<1>1. asked \in SUBSET Items /\ asked \intersect Messages \subseteq exposed'
  BY NamedIsHeld DEF TypeOK
<1>2. RelayRequest(named) = <<>> \/ RelayRequest(named) = <<Ids("REQUEST", asked)>>
  BY DEF RelayRequest
<1> HIDE DEF named, asked
<1>3. Ids("REQUEST", asked) \in Frame /\ Ids("REQUEST", asked).kind = "REQUEST"
      /\ Ids("REQUEST", asked).ids = asked
  BY <1>1 DEF Ids, Frame
<1>4. Ids("REQUEST", asked) \in SoundFrames'
  BY <1>1, <1>3 DEF SoundFrames, Frame, Messages, Summary
<1>5. <<>> \in Seq(SoundFrames') /\ <<Ids("REQUEST", asked)>> \in Seq(SoundFrames')
  BY <1>4, ShortSequences
<1>6. RelayRequest(named) \in Seq(SoundFrames')
  <2>1. CASE RelayRequest(named) = <<>>
    BY <1>5, <2>1
  <2>2. CASE RelayRequest(named) = <<Ids("REQUEST", asked)>>
    BY <1>5, <2>2
  <2> QED BY <1>2, <2>1, <2>2
<1> QED BY <1>6 DEF named

\* What is answered is added to what was unread.
LEMMA InTransitStep ==
  ASSUME TypeOK, InTransit, [Next]_vars
  PROVE  InTransit'
<1>1. SoundFrames \subseteq SoundFrames'
  BY SoundGrow
<1>2. unread \in Seq(SoundFrames') /\ <<>> \in Seq(SoundFrames')
  BY <1>1 DEF InTransit
<1>3. unread # <<>> => Tail(unread) \in Seq(SoundFrames')
  BY <1>2
<1>4. ASSUME NEW r \in Seq(SoundFrames) PROVE r \in Seq(SoundFrames')
  BY <1>1
<1>5. ASSUME NEW r \in Seq(QuietFrames({})) PROVE r \in Seq(SoundFrames')
  BY <1>4, SoundAnswers
<1>6. ASSUME NEW frames \in Seq(SoundFrames'), Sends(frames) PROVE InTransit'
  <2>1. unread' = unread \o frames
    BY <1>6 DEF Sends
  <2> QED BY <1>2, <2>1, LaterFrames DEF InTransit
<1>7. ASSUME NEW known, BeginsRound(known), Named(known) \intersect Messages \subseteq exposed'
      PROVE  InTransit'
  <2>1. PICK pong \in Heartbeat : Sends(pong \o Inventory \o RelayRequest(Named(known)))
    BY <1>7 DEF BeginsRound
  <2> DEFINE asks == RelayRequest(Named(known))
  <2>2. asks \in Seq(SoundFrames')
    BY <1>7, SoundBegin DEF BeginsRound
  <2>3. pong \in Seq(SoundFrames') /\ Inventory \in Seq(SoundFrames')
    BY <1>5, SaidUnasked
  <2> HIDE DEF asks
  <2>4. pong \o Inventory \in Seq(SoundFrames')
    BY <2>3, LaterFrames
  <2>5. pong \o Inventory \o asks \in Seq(SoundFrames')
    BY <2>2, <2>4, LaterFrames
  <2> QED BY <1>6, <2>1, <2>5 DEF asks
<1>8. CASE StartRound
  BY <1>7, <1>8, NamedIsHeld DEF StartRound
<1>9. ASSUME NEW known \in SUBSET IdentityReads, StartRoundBlind(known) PROVE InTransit'
  BY <1>7, <1>9 DEF StartRoundBlind
<1>10. CASE StartPoll
  <2>1. PICK pong \in Heartbeat : Sends(pong)
    BY <1>10 DEF StartPoll
  <2> QED BY <1>5, <1>6, <2>1, SaidUnasked
<1>11. CASE Ping \/ Hello
  <2>1. PICK kind \in {"PING", "HELLO"} : Sends(<<[kind |-> kind]>>)
    BY <1>11 DEF Ping, Hello, Chatter, Unasked
  <2> QED BY <1>5, <1>6, <2>1, SaidUnasked
<1>12. CASE Announce
  BY <1>5, <1>6, <1>12, SaidUnasked DEF Announce, Unasked
<1>13. CASE Connect \/ WaitsLong \/ Overruns \/ NewDay \/ UNCHANGED vars
            \/ \E i \in Items : Arrive(i) \/ Gain(i)
  <2>1. unread' = unread
    BY <1>13 DEF Connect, WaitsLong, Overruns, NewDay, vars, Arrive, Gain
  <2> QED BY <1>2, <2>1 DEF InTransit
<1>14. CASE RemoteClose \/ Fail
  <2>1. unread' = <<>>
    BY <1>14 DEF RemoteClose, Fail, Hangs
  <2> QED BY <1>2, <2>1 DEF InTransit
<1>15. CASE Read
  <2>1. PICK r : /\ r \in Seq(SoundFrames')
                 /\ unread # <<>>
                 /\ unread' = Tail(unread) \o r \/ unread' = <<>>
    <3>1. /\ \A S \in SUBSET Items : RelayTransfer(S) \in Seq(SoundFrames')
          /\ \A S \in SUBSET Items : <<Ids("RECEIPT", S)>> \in Seq(SoundFrames')
          /\ <<>> \in Seq(SoundFrames')
      BY <1>4, <1>5, SoundAnswers, SaidUnasked
    <3>2. CASE ReadPing \/ ReadHello \/ ReadForbiddenIngest \/ ReadReceipt \/ ReadTransfer
      BY <3>1, <3>2
         DEF ReadPing, ReadHello, ReadForbiddenIngest, ReadReceipt, ReadTransfer, Reads, Answers, Hangs
    <3>3. CASE ReadSummary
      <4> DEFINE want == Wanted(have, Head(unread).summary, round.candidates)
      <4>1. want \in SUBSET Items
        BY <3>3, ReadFrame, WantedIds DEF ReadSummary
      <4>2. unread # <<>> /\ unread' = Tail(unread) \o RelayTransfer(want)
        BY <3>3 DEF ReadSummary, Reads, Answers
      <4> HIDE DEF want
      <4> QED BY <3>1, <4>1, <4>2
    <3>4. CASE ReadIngest
      <4>1. PICK offers : TakeOffer(offers)
        BY <3>4 DEF ReadIngest
      <4> DEFINE want == IF round.latest = NoSummary THEN {} ELSE Wanted(have, round.latest, offers)
      <4>2. want \in SUBSET Items
        BY WantedIds DEF TypeOK, Round
      <4>3. unread # <<>> /\ unread' = Tail(unread) \o RelayTransfer(want)
        BY <3>4, <4>1 DEF ReadIngest, TakeOffer, Reads, Answers
      <4> HIDE DEF want
      <4> QED BY <3>1, <4>2, <4>3
    <3>5. CASE ReadRequest
      <4> DEFINE objects == Objects(Head(unread).ids)
      <4>1. objects \in SUBSET Items
        BY <3>5, ReadFrame, ObjectsAreHeld DEF ReadRequest
      <4>2. /\ unread # <<>>
            /\ unread' = Tail(unread) \o (IF objects = {} THEN <<>> ELSE <<Ids("RECEIPT", objects)>>)
        BY <3>5 DEF ReadRequest, Reads, Answers
      <4> HIDE DEF objects
      <4> QED BY <3>1, <4>1, <4>2
    <3> QED BY <1>15, <3>2, <3>3, <3>4, <3>5 DEF Read
  <2>2. Tail(unread) \in Seq(SoundFrames')
    BY <1>3, <2>1
  <2>3. Tail(unread) \o r \in Seq(SoundFrames')
    BY <2>1, <2>2
  <2>4. unread' \in Seq(SoundFrames')
    BY <1>2, <2>1, <2>3
  <2> QED BY <2>4 DEF InTransit
<1> QED BY <1>8, <1>9, <1>10, <1>11, <1>12, <1>13, <1>14, <1>15 DEF Next

\* What is in transit was held when it was sent, and is still.
LEMMA SoundHead ==
  ASSUME TypeOK, InTransit, NEW kind \in {"TRANSFER", "REQUEST"}, Reads(kind)
  PROVE  /\ Head(unread).ids \in SUBSET Items
         /\ kind = "TRANSFER" => Head(unread).ids \subseteq held
         /\ kind = "REQUEST" => Head(unread).ids \intersect Messages \subseteq exposed
<1>1. Head(unread) \in SoundFrames /\ Head(unread).kind = kind
  BY DEF InTransit, Reads
<1> QED BY <1>1, ReadFrame DEF SoundFrames

LEMMA Stores ==
  ASSUME NEW node, NEW relay
  PROVE  Both(node, relay)[Node] = node /\ Both(node, relay)[Relay] = relay
<1>1. Node # Relay
  BY RelayConstants
<1> QED BY <1>1 DEF Both

LEMMA StoresTakeIn ==
  ASSUME NEW S
  PROVE  /\ have' = have \union S /\ held' = held /\ exposed' = exposed => Exchange!TakesIn(Node, S)
         /\ held' = held \union S /\ have' = have /\ exposed' = exposed => Exchange!TakesIn(Relay, S)
<1> DEFINE old == Both(have, held)
           later == Both(have', held')
<1>1. Node # Relay /\ old[Node] = have /\ old[Relay] = held
  BY RelayConstants, Stores
<1>2. old' = later
  BY DEF Both
<1>3. ASSUME NEW new
      PROVE  /\ [old EXCEPT ![Node] = new] = Both(new, held)
             /\ [old EXCEPT ![Relay] = new] = Both(have, new)
  <2>1. [old EXCEPT ![Node] = new] = Both(new, held)
    BY <1>1 DEF Both
  <2>2. ASSUME NEW n \in {Node, Relay}
        PROVE  [old EXCEPT ![Relay] = new][n] = Both(have, new)[n]
    BY <1>1, <2>2 DEF Both
  <2>3. /\ DOMAIN [old EXCEPT ![Relay] = new] = {Node, Relay}
        /\ DOMAIN Both(have, new) = {Node, Relay}
    BY DEF Both
  <2>4. [old EXCEPT ![Relay] = new] = Both(have, new)
    BY <2>2, <2>3 DEF Both
  <2> QED BY <2>1, <2>4
<1>6. exposed' = exposed => Both(exposed, {})' = Both(exposed, {})
  BY DEF Both
<1>4. ASSUME have' = have \union S, held' = held, exposed' = exposed PROVE Exchange!TakesIn(Node, S)
  <2>1. later = [old EXCEPT ![Node] = have \union S]
    BY <1>3, <1>4
  <2> QED BY <1>1, <1>2, <1>4, <1>6, <2>1 DEF Exchange!TakesIn
<1>5. ASSUME held' = held \union S, have' = have, exposed' = exposed PROVE Exchange!TakesIn(Relay, S)
  <2>1. later = [old EXCEPT ![Relay] = held \union S]
    BY <1>3, <1>5
  <2> QED BY <1>1, <1>2, <1>5, <1>6, <2>1 DEF Exchange!TakesIn
<1> QED BY <1>4, <1>5

LEMMA Passes ==
  ASSUME NEW S \in SUBSET Items
  PROVE  /\ S \subseteq held /\ have' = have \union S /\ held' = held /\ exposed' = exposed
              => Exchange!Pass(Relay, Node, S)
         /\ S \subseteq have /\ S \intersect Messages \subseteq exposed
            /\ held' = held \union S /\ have' = have /\ exposed' = exposed
              => Exchange!Pass(Node, Relay, S)
<1>1. Both(have, held)[Node] = have /\ Both(have, held)[Relay] = held
  BY Stores
<1>2. /\ Both(Messages, {})[Node] = Messages /\ Both(Messages, {})[Relay] = {}
      /\ Both(exposed, {})[Node] = exposed /\ Both(exposed, {})[Relay] = {}
  BY Stores
<1> QED BY <1>1, <1>2, StoresTakeIn DEF Exchange!Pass

LEMMA Appears ==
  ASSUME NEW i \in Items
  PROVE  /\ Gain(i) => Exchange!Appear(Node, i)
         /\ Arrive(i) => Exchange!Appear(Relay, i)
<1>1. Both(have, held)[Node] = have /\ Both(have, held)[Relay] = held
  BY Stores
<1>2. Both(Origin, Arriving)[Node] = Origin /\ Both(Origin, Arriving)[Relay] = Arriving
  BY Stores
<1>3. /\ Gain(i) => i \in Origin \ have /\ Exchange!TakesIn(Node, {i})
      /\ Arrive(i) => i \in Arriving \ held /\ Exchange!TakesIn(Relay, {i})
  BY StoresTakeIn DEF Gain, Arrive, setting
<1> QED BY <1>1, <1>2, <1>3 DEF Exchange!Appear

LEMMA Exposes ==
  ASSUME NEW S \in SUBSET (have \intersect Messages), exposed' = exposed \union S,
         have' = have, held' = held
  PROVE  Exchange!Expose(Node, S)
<1> DEFINE old == Both(exposed, {})
           later == Both(exposed', {})
<1>1. old[Node] = exposed /\ Both(have, held)[Node] = have /\ Both(Messages, {})[Node] = Messages
  BY Stores
<1>2. later = [old EXCEPT ![Node] = exposed \union S]
  BY <1>1 DEF Both
<1>3. old' = later /\ Both(have, held)' = Both(have, held)
  BY DEF Both
<1> QED BY <1>1, <1>2, <1>3 DEF Exchange!Expose

LEMMA Stutters ==
  ASSUME UNCHANGED <<have, held, exposed>>
  PROVE  UNCHANGED Exchange!vars
BY DEF Exchange!vars, Both

LEMMA StepExchanges ==
  ASSUME TypeOK, InTransit, [Next]_vars
  PROVE  [Exchange!Next]_(Exchange!vars)
<1>1. CASE Connect \/ StartRound \/ StartPoll \/ WaitsLong \/ Overruns \/ RemoteClose \/ Fail
           \/ Ping \/ Hello \/ Announce \/ NewDay \/ UNCHANGED vars
  <2>1. UNCHANGED <<have, held, exposed>>
    BY <1>1 DEF Connect, StartRound, BeginsRound, StartPoll, WaitsLong, Overruns, RemoteClose, Fail,
                Ping, Hello, Chatter, Announce, Unasked, NewDay, vars, setting
  <2> QED BY <2>1, Stutters
<1>2. CASE ReadPing \/ ReadHello \/ ReadSummary \/ ReadForbiddenIngest \/ ReadIngest \/ ReadReceipt
  <2>1. UNCHANGED <<have, held, exposed>>
    BY <1>2 DEF ReadPing, ReadHello, ReadSummary, ReadForbiddenIngest, ReadIngest, ReadReceipt, setting
  <2> QED BY <2>1, Stutters
<1>6. ASSUME NEW known \in SUBSET IdentityReads, StartRoundBlind(known) PROVE Exchange!Next
  <2> DEFINE S == Named(known) \intersect Messages
  <2>1. exposed' = exposed \union S /\ have' = have /\ held' = held
    BY <1>6 DEF StartRoundBlind, BeginsRound
  <2>2. S \in SUBSET (have \intersect Messages) /\ S \in SUBSET Items
    BY NamedIsHeld DEF Messages
  <2> HIDE DEF S
  <2>3. Exchange!Expose(Node, S)
    BY <2>1, <2>2, Exposes
  <2> QED BY <2>2, <2>3 DEF Exchange!Next
<1>3. CASE ReadTransfer
  <2>1. PICK accepted \in Imports(Head(unread).ids) :
          have' = have \union accepted /\ held' = held /\ exposed' = exposed
    BY <1>3 DEF ReadTransfer, setting
  <2>2. Reads("TRANSFER")
    BY <1>3 DEF ReadTransfer
  <2>3. accepted \in SUBSET Items /\ accepted \subseteq held
    BY <2>1, <2>2, SoundHead DEF Imports
  <2>4. Exchange!Pass(Relay, Node, accepted)
    BY <2>1, <2>3, Passes
  <2> QED BY <2>3, <2>4 DEF Exchange!Next
<1>4. CASE ReadRequest
  <2> DEFINE want == Head(unread).ids
             objects == Objects(want)
  <2>1. Reads("REQUEST") /\ have' = have /\ held' = held \union objects /\ exposed' = exposed
    BY <1>4 DEF ReadRequest, setting
  <2>2. want \in SUBSET Items /\ want \intersect Messages \subseteq exposed
    BY <2>1, SoundHead
  <2>3. objects \in SUBSET Items /\ objects \subseteq have /\ objects \intersect Messages \subseteq exposed
    <3> HIDE DEF want
    <3>1. objects \in SUBSET (want \intersect have)
      BY <2>2, ObjectsAreHeld
    <3> QED BY <2>2, <3>1
  <2> HIDE DEF objects
  <2>4. Exchange!Pass(Node, Relay, objects)
    BY <2>1, <2>3, Passes
  <2> QED BY <2>3, <2>4 DEF Exchange!Next
<1>5. ASSUME NEW i \in Items, Gain(i) \/ Arrive(i) PROVE Exchange!Next
  BY <1>5, Appears DEF Exchange!Next
<1> QED BY <1>1, <1>2, <1>3, <1>4, <1>5, <1>6 DEF Next, Read

\* A session and its rounds, whatever is cut short or left unread, only pass
\* items on as Exchange does: the relay holds what the node takes in, and what
\* the relay takes in the node holds and is not addressed to it, unless the node has
\* named it when it could not read its identity.
THEOREM ImplementsExchange == Spec => RefinesExchange
<1>1. Init => Exchange!Init
  BY DEF Init, Exchange!Init, Both
<1>2. Init => InTransit
  BY DEF Init, InTransit
<1>3. TypeOK /\ InTransit /\ [Next]_vars => InTransit'
  BY InTransitStep
<1>4. TypeOK /\ InTransit /\ [Next]_vars => [Exchange!Next]_(Exchange!vars)
  BY StepExchanges
<1>5. Spec => Init /\ []TypeOK /\ [][Next]_vars
  BY TypeCorrect, PTL DEF Spec
<1> QED BY <1>1, <1>2, <1>3, <1>4, <1>5, PTL DEF RefinesExchange, Exchange!Spec
====
