---- MODULE MCMediaTransfer ----
(* A small instance of MediaTransfer. *)
EXTENDS MediaTransfer

CONSTANTS photo, fake, first, second, gossip, digest

SameObject == [x \in Transfers |-> digest]
TwoAndOne == [x \in Transfers |-> IF x = photo THEN {first, second} ELSE {first}]
FirstOfPhoto == {<<photo, first>>}
====
