---- MODULE EncounterScheduler ----
(***************************************************************************)
(* Which items answer a REQUEST: EncounterSchedulerV1 of                   *)
(* encounter_scheduler.rs, and what gossip_sync.rs gives it.               *)
(*                                                                         *)
(* A pure function.  Items are validated, the expired ones dropped, the    *)
(* rest ranked, and the ranking is cut at the first item that exceeds one  *)
(* of the budgets: what would still fit further down is not looked at.     *)
(*                                                                         *)
(* The components of a score are millionths, as in the code; the logarithm *)
(* of the size component is taken at whole powers of two.  An item id is a *)
(* number.                                                                 *)
(***************************************************************************)
EXTENDS Integers, FiniteSets, FiniteSetsExt

CONSTANTS
  Unit,               \* quantize_millionths(1.0), a million
  SkewTolerance,      \* clock_skew_tolerance_ms
  Soon,               \* expiry_urgency_horizon_ms, also the limit of tiers 1 and 2
  Stagnant,           \* stagnation_horizon_ms
  UnitBytes,          \* preferred_transfer_unit_bytes
  SmallBody,          \* the longest body of tiers 1 and 2
  MaxTransferItems,   \* MAX_TRANSFER_ITEMS
  MaxTransferBytes    \* MAX_TRANSFER_BYTES

ASSUME SchedulerConstants ==
  /\ {Unit, Soon, Stagnant, UnitBytes} \subseteq Nat \ {0}
  /\ {SkewTolerance, SmallBody, MaxTransferItems, MaxTransferBytes} \subseteq Nat

None == -1  \* an Option that is None

Proximity == {"destination_peer", "likely_closer", "other"}

CargoItem ==
  [item_id: Nat, tier: Int, size: Int, expiry: Nat, replicas: Int, target: Int,
   durably_stored: BOOLEAN, relay_ingested: BOOLEAN, coverage: Nat, last_forwarded: Nat,
   proximity: Proximity, user_initiated: BOOLEAN, content: Nat, destination_rank: Int,
   duration: Int]

BudgetProfile ==
  [max_items: Int, max_bytes: Int, max_duration: Int \union {None},
   durable_cap: Nat \union {None},
   unit_bytes: Int, expiry_horizon: Nat, stagnation_horizon: Nat, target: Int]

----
(* Validation. *)

ValidBudget(b) ==
  /\ b.max_items >= 0
  /\ b.max_bytes >= 0
  /\ b.max_duration # None => b.max_duration >= 0
  /\ b.unit_bytes >= 1
  /\ b.target >= 1

\* validate_and_filter_eligible: one bad item refuses the whole request.
ValidItems(cargo) ==
  /\ \A i, j \in cargo : i.item_id = j.item_id => i = j
  /\ \A i \in cargo :
       /\ i.tier \in 0..5
       /\ i.size >= 1
       /\ i.destination_rank >= 0
       /\ i.replicas >= 0
       /\ i.target >= 1
       /\ i.duration >= 0

Eligible(cargo, now) == {i \in cargo : now + SkewTolerance < i.expiry}

----
(* The score. *)

Least(a, b) == IF a <= b THEN a ELSE b
Above(a, b) == IF a >= b THEN a - b ELSE 0

\* quantize_millionths of part / whole, for 0 <= part <= whole: to the nearest,
\* ties to even.
Millionths(part, whole) ==
  LET down == (part * Unit) \div whole
      rest == (part * Unit) % whole
  IN  IF 2 * rest > whole \/ (2 * rest = whole /\ down % 2 = 1) THEN down + 1 ELSE down

Scarcity(i) == Millionths(i.target - Least(i.replicas, i.target), i.target)
Safety(i) ==
  LET lack == (IF i.durably_stored THEN 0 ELSE 45) + (IF i.relay_ingested THEN 0 ELSE 35)
  IN  Millionths(lack * Unit + 20 * (Unit - Least(i.coverage, Unit)), 100 * Unit)
Urgency(i, b, now) ==
  LET horizon == IF b.expiry_horizon = 0 THEN 1 ELSE b.expiry_horizon
  IN  Millionths(horizon - Least(Above(i.expiry, now), horizon), horizon)
Stagnation(i, b, now) ==
  LET horizon == IF b.stagnation_horizon = 0 THEN 1 ELSE b.stagnation_horizon
  IN  Millionths(Least(Above(now, i.last_forwarded), horizon), horizon)
Closeness(i) ==
  [destination_peer |-> Unit, likely_closer |-> Millionths(3, 5), other |-> 0][i.proximity]

\* 1 - ln_1p(size) / ln_1p(unit), at whole doublings; sizes are at least 1.
Doublings(n) == 1 + Cardinality({k \in 2..30 : 2^k <= n + 1})
Smallness(i, b) ==
  Millionths(Doublings(b.unit_bytes) - Least(Doublings(i.size), Doublings(b.unit_bytes)),
             Doublings(b.unit_bytes))

Score(i, b, now) ==
  26 * Scarcity(i) + 22 * Safety(i) + 16 * Urgency(i, b, now) + 12 * Stagnation(i, b, now)
    + 10 * Closeness(i) + 8 * Smallness(i, b)
    + 4 * (IF i.user_initiated THEN Unit ELSE 0) + 2 * Least(i.content, Unit)

----
(* The ranking. *)

\* What ranks_before compares, the smaller first, before it looks at ids.
Key(i, b, now) ==
  <<i.tier, -Score(i, b, now), i.size, i.expiry, i.replicas, i.last_forwarded,
    -i.destination_rank>>

Precedes(k, l) == \E n \in 1..7 : k[n] < l[n] /\ \A m \in 1..(n - 1) : k[m] = l[m]

RanksBefore(i, j, b, now) ==
  \/ Precedes(Key(i, b, now), Key(j, b, now))
  \/ Key(i, b, now) = Key(j, b, now) /\ i.item_id > j.item_id

----
(* The selection. *)

TotalBytes(S) == MapThenSumSet(LAMBDA i : i.size, S)

\* Mutant: the budget is used up one item early.
Fits_Early(S, b) == Cardinality(S) < b.max_items /\ TotalBytes(S) < b.max_bytes

\* The projected totals of S stay within the budget.  The durable share is
\* compared in millionths.
Fits(S, b) ==
  /\ Cardinality(S) <= b.max_items
  /\ TotalBytes(S) <= b.max_bytes
  /\ b.max_duration # None => MapThenSumSet(LAMBDA i : i.duration, S) <= b.max_duration
  /\ b.durable_cap # None =>
       TotalBytes({i \in S : i.tier \in {4, 5}}) * Unit <= Least(b.durable_cap, Unit) * TotalBytes(S)

\* i and what ranks before it.
UpTo(i, S, b, now) == {j \in S : j = i \/ RanksBefore(j, i, b, now)}

\* schedule: the longest part of the ranking of which every item fits.
Selected(cargo, b, now) ==
  LET ranked == Eligible(cargo, now)
  IN  {i \in ranked : \A j \in UpTo(i, ranked, b, now) : Fits(UpTo(j, ranked, b, now), b)}

----
(* What gossip_sync.rs asks of it. *)

\* What the store keeps of an item, with what its envelope says: the node it is
\* addressed to, the length of its body and that of the envelope.
StoredItem == [item_id: Nat, to: Nat, body: Nat, wire: Nat, expiry: Nat, hops: Nat, recorded: Nat]

\* shadow_profile_from_stored, for a peer that has said who it is.
Profile(s, now, peer) ==
  LET near == IF s.to = peer THEN "destination_peer" ELSE "likely_closer"
      soon == s.body <= SmallBody /\ Above(s.expiry, now) <= Soon
  IN  [item_id |-> s.item_id,
       tier |-> IF ~soon THEN 4 ELSE IF s.to = peer THEN 1 ELSE 2,
       size |-> IF s.body = 0 THEN 1 ELSE s.body,
       expiry |-> s.expiry, replicas |-> s.hops, target |-> 6,
       durably_stored |-> FALSE, relay_ingested |-> s.hops > 0, coverage |-> 0,
       last_forwarded |-> s.recorded, proximity |-> near, user_initiated |-> FALSE,
       content |-> 0, destination_rank |-> IF s.to = peer THEN 1 ELSE 0, duration |-> 0]

TransferBudget(items, bytes) ==
  [max_items |-> Least(items, MaxTransferItems), max_bytes |-> Least(bytes, MaxTransferBytes),
   max_duration |-> None, durable_cap |-> None, unit_bytes |-> UnitBytes,
   expiry_horizon |-> Soon, stagnation_horizon |-> Stagnant, target |-> 6]

\* transfer_items_for_request: the stored items that answer a request.
TransferItems(stored, items, bytes, now, peer) ==
  LET chosen == Selected({Profile(s, now, peer) : s \in stored}, TransferBudget(items, bytes), now)
  IN  {s \in stored : Profile(s, now, peer) \in chosen}

\* validate_transfer, at the receiver: it counts the bytes of the envelopes.
ValidTransfer(objects) ==
  /\ Cardinality(objects) <= MaxTransferItems
  /\ MapThenSumSet(LAMBDA s : s.wire, objects) <= MaxTransferBytes
====
