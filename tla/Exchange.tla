---- MODULE Exchange ----
(***************************************************************************)
(* What gossip may do to the stores of nodes, whatever frames, summaries,  *)
(* windows and sessions are in between: LanEncounter and RelayRound        *)
(* implement this (RefinesExchange).                                       *)
(*                                                                         *)
(* An item appears where its author writes it, or where another network    *)
(* brings it; from there it comes to a node only from a node that holds it *)
(* and at which it does not end.  A node that cannot read its identity may *)
(* name an item that ends there, and pass it on from then on.  No store    *)
(* ever gives anything up: expiry is the subject of GossipStore.           *)
(***************************************************************************)
CONSTANTS
  Nodes,
  Items,
  Start,   \* the store of each node at first
  Source,  \* the nodes at which an item may appear
  Ends     \* the items that end their way at a node

VARIABLES
  have,    \* the store of each node
  exposed  \* what ends at a node and was named by it nevertheless

vars == <<have, exposed>>

Init ==
  /\ have = Start
  /\ exposed = [n \in Nodes |-> {}]

TakesIn(n, S) ==
  /\ have' = [have EXCEPT ![n] = @ \union S]
  /\ UNCHANGED exposed

Appear(n, i) ==
  /\ n \in Source[i] /\ i \notin have[n]
  /\ TakesIn(n, {i})

\* All at once of what one node has from another.
Pass(p, n, S) ==
  /\ S \subseteq have[p] /\ S \intersect Ends[p] \subseteq exposed[p]
  /\ TakesIn(n, S)

Expose(n, S) ==
  /\ S \subseteq have[n] \intersect Ends[n]
  /\ exposed' = [exposed EXCEPT ![n] = @ \union S]
  /\ UNCHANGED have

Next ==
  \E n \in Nodes :
    \/ \E i \in Items : Appear(n, i)
    \/ \E p \in Nodes, S \in SUBSET Items : Pass(p, n, S)
    \/ \E S \in SUBSET Items : Expose(n, S)

Spec == Init /\ [][Next]_vars
====
