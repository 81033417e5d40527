---- MODULE MCGossipStore ----
(* A small instance of GossipStore. *)
EXTENDS GossipStore

CONSTANTS a, b, gossip, ui

Obj(i, e, n, h) == [item_id |-> i, envelope |-> e, expiry |-> n, hop |-> h]
Pay(i, n) == [item |-> i, expiry |-> n]

\* Copies of one item at two distances and with two lifetimes, another item, and
\* a malformed one.
SentObjects == {Obj(a, a, 3, 1), Obj(a, a, 2, 0), Obj(b, b, 3, 1), Obj(a, b, 3, 1)}

\* A payload that is recorded again with a longer lifetime.
MixedPayloads == {Pay(a, 2), Pay(a, 3)}
====
