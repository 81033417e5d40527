---- MODULE MCLanEncounter ----
(***************************************************************************)
(* Small instances of LanEncounter: two nodes and two messages to b, of    *)
(* which x is advertised and sent first.  Two items in a's store exceed    *)
(* its preview and one datagram.                                           *)
(***************************************************************************)
EXTENDS LanEncounter

CONSTANTS a, b, x, y

ToB == [i \in Items |-> b]
XFirst == [n \in Nodes |-> [i \in Items |-> IF i = x THEN 0 ELSE 1]]
OneByte == [i \in Items |-> 1]
XTooLarge == [i \in Items |-> IF i = x THEN 2 ELSE 1]

AllAtA == [n \in Nodes |-> IF n = a THEN Items ELSE {}]
OneEach == [n \in Nodes |-> IF n = a THEN {x} ELSE {y}]
FromAny == [i \in Items |-> Nodes]
Nowhere == [i \in Items |-> {}]
====
