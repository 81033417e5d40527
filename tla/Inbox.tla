---- MODULE Inbox ----
(***************************************************************************)
(* What a user may expect of a conversation, whatever threads, files and   *)
(* copies of files are between the network and the window: ChatDelivery    *)
(* implements this (ChatDelivery!Refines).                                 *)
(*                                                                         *)
(* A message is accepted once, shown once per body, and gone once removed. *)
(* All that is promised after an upset - a message accepted twice, or the  *)
(* history overwritten by an old copy of itself - is that the history still*)
(* shows accepted messages only, and no body twice.                        *)
(***************************************************************************)
CONSTANTS
  Messages,
  Body      \* the body of each message

VARIABLES
  accepted,  \* messages taken in, written or answered
  history,   \* messages the conversation shows
  removed,   \* messages the user removed
  upset      \* one of the two upsets has happened

vars == <<accepted, history, removed, upset>>

\* A set of messages fit to be shown.
Showable(S) ==
  /\ S \subseteq accepted
  /\ \A m, x \in S : Body[m] = Body[x] => m = x

Init ==
  /\ accepted = {}
  /\ history = {}
  /\ removed = {}
  /\ upset = FALSE

\* Nothing that was accepted is ever given up again.
Accept(S) ==
  /\ accepted' = accepted \union S
  /\ upset' = (upset \/ S \intersect accepted # {})
  /\ UNCHANGED <<history, removed>>

\* What the user removed is not shown again.
Show(S) ==
  /\ Showable(history \union S)
  /\ S \intersect removed = {}
  /\ history' = history \union S
  /\ UNCHANGED <<accepted, removed, upset>>

\* Only what is removed goes.
Remove(S) ==
  /\ S \subseteq history
  /\ history' = history \ S
  /\ removed' = removed \union S
  /\ UNCHANGED <<accepted, upset>>

\* The history is overwritten, S being shown and R removed from what was.
Overwrite(S, R) ==
  /\ Showable(S)
  /\ R \subseteq accepted
  /\ history' = S
  /\ removed' = removed \union R
  /\ upset' = TRUE
  /\ UNCHANGED accepted

Next ==
  \E S \in SUBSET Messages :
    \/ Accept(S)
    \/ Show(S)
    \/ Remove(S)
    \/ \E R \in SUBSET Messages : Overwrite(S, R)

Spec == Init /\ [][Next]_vars
====
