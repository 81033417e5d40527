---- MODULE MCRelayRound ----
EXTENDS RelayRound

Envelope(id, to, recorded) ==
  [item_id |-> id, to |-> to, body |-> 3, wire |-> 4, expiry |-> 9, hops |-> 0, recorded |-> recorded]

\* The user sends 1, which is younger and comes before 4 in what a round names; 2
\* reaches the relay, and once 1 has too, the preview shows only that.  3 ends at
\* the node, which holds it.
MCItems == 1..4
MCCargo == [i \in MCItems |-> Envelope(i, IF i \in {2, 3} THEN Node ELSE 7, IF i = 1 THEN 1 ELSE 0)]
MCSeed == [d \in 0..MaxDay |-> d + 1]
====
