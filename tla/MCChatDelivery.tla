---- MODULE MCChatDelivery ----
(* Small instances of ChatDelivery: one conversation. *)
EXTENDS ChatDelivery, TLC

CONSTANTS ping, copyOfPing, note, pong, draft, relay, gossip, sender, saver, keeper

TheDraft == note :> draft
NoDraft == <<>>

\* Two envelopes around the same body, and what this node writes.
TheManifest == [m \in {ping, copyOfPing, note, pong} |-> IF m = copyOfPing THEN ping ELSE m]
====
