---- MODULE ChatDelivery ----
(***************************************************************************)
(* From the gossip store to the chat history file, and back to the window. *)
(*                                                                         *)
(* chat-history.json is loaded, changed and saved as a whole, by several   *)
(* threads and with no lock: the relay worker and the gossip worker merge  *)
(* the messages they imported, send_message adds the one the user wrote,   *)
(* housekeeping rewrites transfer progress, and save_chat replaces the     *)
(* file by the copy the window holds.  An item is in the store before it   *)
(* is in the file, and an item in the store is never reported as new       *)
(* again, so what is lost on the way is not recovered.                     *)
(*                                                                         *)
(* One conversation is modelled.  A message is named by its item id; a     *)
(* draft is the optimistic entry the window shows while a send is pending, *)
(* under an id of its own.  Expiry is left to GossipStore.                 *)
(***************************************************************************)
EXTENDS Naturals

CONSTANTS
  Incoming,       \* items addressed to this node that peers may send
  Pings,          \* those whose text asks for a pong
  Outgoing,       \* items the user may send
  Pongs,          \* items the automatic answer may produce
  Drafts,         \* ids of optimistic entries
  Draft,          \* the optimistic entry of each outgoing item
  Manifest,       \* digest of each item's body, the second key of the dedupe
  RelayThreads,   \* import during a round, merge when it is over
  GossipThreads,  \* import and merge one TRANSFER frame at a time
  Senders,        \* send_message
  Savers,         \* save_chat
  Keepers         \* housekeeping runs

Items == Incoming \union Outgoing \union Pongs
Entries == Items \union Drafts
Importers == RelayThreads \union GossipThreads
Threads == Importers \union Senders \union Savers \union Keepers

\* The body of what this node writes holds the time it was written, so it is
\* the body of no other item.
ASSUME ChatConstants ==
  /\ Pings \subseteq Incoming
  /\ Items \intersect Drafts = {}
  /\ Incoming \intersect (Outgoing \union Pongs) = {}
  /\ Outgoing \intersect Pongs = {}
  /\ Draft \in [Outgoing -> Drafts]
  /\ \A m \in Outgoing \union Pongs, x \in Items : Manifest[x] = Manifest[m] => x = m
  /\ Importers \intersect (Senders \union Savers \union Keepers) = {}
  /\ Senders \intersect (Savers \union Keepers) = {}
  /\ Savers \intersect Keepers = {}

VARIABLES
  store,   \* items in the gossip store
  chat,    \* entries in chat-history.json
  window,  \* entries in the window's copy
  phase,   \* where each thread is
  batch,   \* what an importer's lookup found missing
  carry,   \* what a thread set out to add to the chat, or save_chat to remove
  copy,    \* the chat a thread loaded, and is about to save
  stale,   \* the file has changed since that copy was taken
  removed, \* items the user removed
  faults   \* what went wrong so far

vars == <<store, chat, window, phase, batch, carry, copy, stale, removed, faults>>

Phase == {"idle", "looked_up", "imported", "loaded", "send", "recorded", "saving"}
Fault == {"crash", "error", "overlap", "double_report"}

\* The shape of the state, and with it: the entries of a thread are messages
\* that were delivered, sent or answered, under the id of their origin.
TypeOK ==
  /\ store \subseteq Items
  /\ chat \subseteq Entries
  /\ window \subseteq Entries
  /\ phase \in [Threads -> Phase]
  /\ batch \in [Threads -> SUBSET Incoming]
  /\ carry \in [Threads -> SUBSET Entries]
  /\ copy \in [Threads -> SUBSET Entries]
  /\ stale \in [Threads -> BOOLEAN]
  /\ removed \subseteq Entries
  /\ faults \subseteq Fault

Init ==
  /\ store = {}
  /\ chat = {}
  /\ window = {}
  /\ phase = [c \in Threads |-> "idle"]
  /\ batch = [c \in Threads |-> {}]
  /\ carry = [c \in Threads |-> {}]
  /\ copy = [c \in Threads |-> {}]
  /\ stale = [c \in Threads |-> FALSE]
  /\ removed = {}
  /\ faults = {}

Twins(m) == {x \in Items : Manifest[x] = Manifest[m]}
Goes(c, p) == phase' = [phase EXCEPT ![c] = p]
Note(f, happened) == faults' = IF happened THEN faults \union {f} ELSE faults

Return(c) ==
  /\ Goes(c, "idle")
  /\ batch' = [batch EXCEPT ![c] = {}]
  /\ carry' = [carry EXCEPT ![c] = {}]
  /\ copy' = [copy EXCEPT ![c] = {}]
  /\ stale' = [stale EXCEPT ![c] = FALSE]

\* A thread takes a copy of the chat, changed in memory to s.
Take(c, s, changed) ==
  /\ copy' = [copy EXCEPT ![c] = s]
  /\ stale' = [stale EXCEPT ![c] = changed]

----
(* Importing. *)

\* The lookup of import_transfer_items.  A relay round goes on to further
\* TRANSFER frames with what it has pulled so far.
LookUp(c, objects) ==
  /\ phase[c] = "idle" \/ (c \in RelayThreads /\ phase[c] = "imported")
  /\ batch' = [batch EXCEPT ![c] = objects \ store]
  /\ Goes(c, "looked_up")
  /\ UNCHANGED <<store, chat, window, carry, copy, stale, removed, faults>>

\* Mutant: each TRANSFER frame's messages replace those of the frame before.
Insert_Overwrites(c) ==
  /\ phase[c] = "looked_up"
  /\ store' = store \union batch[c]
  /\ Note("double_report", batch[c] \intersect store # {})
  /\ carry' = [carry EXCEPT ![c] = batch[c]]
  /\ batch' = [batch EXCEPT ![c] = {}]
  /\ Goes(c, IF batch[c] = {} THEN "idle" ELSE "imported")
  /\ UNCHANGED <<chat, window, copy, stale, removed>>

\* The insertion; its new_messages are now the caller's to show.
Insert(c) ==
  LET pulled == carry[c] \union batch[c]
  IN  /\ phase[c] = "looked_up"
      /\ store' = store \union batch[c]
      /\ Note("double_report", batch[c] \intersect store # {})
      /\ carry' = [carry EXCEPT ![c] = pulled]
      /\ batch' = [batch EXCEPT ![c] = {}]
      /\ Goes(c, IF pulled = {} THEN "idle" ELSE "imported")
      /\ UNCHANGED <<chat, window, copy, stale, removed>>

\* Mutant: a chat that cannot be read is taken for an empty one.
LoadForMerge_Empty(c) ==
  /\ phase[c] = "imported"
  /\ Take(c, {}, FALSE)
  /\ Goes(c, "loaded")
  /\ UNCHANGED <<store, chat, window, batch, carry, removed, faults>>

\* apply_relay_pulled_messages, or the end of a TRANSFER handler: load the chat.
LoadForMerge(c) ==
  /\ phase[c] = "imported"
  /\ Take(c, chat, FALSE)
  /\ Goes(c, "loaded")
  /\ UNCHANGED <<store, chat, window, batch, carry, removed, faults>>

\* Mutant: the dedupe compares item ids only.
Unseen_ByIdOnly(shown, pulled) == {pulled \ shown}

\* The messages merge_pulled_messages pushes: one of each body the thread does
\* not show yet.
Unseen(shown, pulled) ==
  {new \in SUBSET pulled :
     /\ \A m \in new : Twins(m) \intersect shown = {}
     /\ \A m, x \in new : x \in Twins(m) => x = m
     /\ \A m \in pulled : Twins(m) \intersect (shown \union new) # {}}

\* The automatic answer when a new message leaves a ping at the end of the
\* thread, which need not be the new one; recorded in the store on the spot.  It
\* is left out when a recent pong is shown or when it cannot be recorded.
Answers(shown, new) ==
  {{}} \union
  {{p} : p \in {q \in Pongs \ store : new # {} /\ (shown \union new) \intersect Pings # {}}}

\* merge_pulled_messages, on the copy; a chat it does not change is not saved.
Merge(c) ==
  /\ phase[c] = "loaded"
  /\ \E new \in Unseen(copy[c], carry[c]) : \E pong \in Answers(copy[c], new) :
       /\ store' = store \union pong
       /\ IF new = {}
            THEN Return(c)
            ELSE /\ copy' = [copy EXCEPT ![c] = @ \union new \union pong]
                 /\ Goes(c, "saving")
                 /\ UNCHANGED <<batch, carry, stale>>
  /\ UNCHANGED <<chat, window, removed, faults>>

----
(* Sending, housekeeping, and the window. *)

\* The user sends m: the window shows its draft and calls send_message.
StartSend(c, m) ==
  /\ phase[c] = "idle"
  /\ m \notin store
  /\ \A d \in Senders : m \notin carry[d]
  /\ window' = window \union {Draft[m]}
  /\ carry' = [carry EXCEPT ![c] = {m}]
  /\ Goes(c, "send")
  /\ UNCHANGED <<store, chat, batch, copy, stale, removed, faults>>

\* Mutant: an error of the store is logged and ignored.
RecordOutgoing_Swallowed(c) ==
  /\ phase[c] = "send"
  /\ Goes(c, "recorded")
  /\ UNCHANGED <<store, chat, window, batch, carry, copy, stale, removed, faults>>

\* gossip_record_local_payload: from here on peers may get the message.
RecordOutgoing(c) ==
  /\ phase[c] = "send"
  /\ store' = store \union carry[c]
  /\ Goes(c, "recorded")
  /\ UNCHANGED <<chat, window, batch, carry, copy, stale, removed, faults>>

\* load_chat_state, push, mark_outgoing_message.
LoadForSend(c) ==
  /\ phase[c] = "recorded"
  /\ Take(c, chat \union carry[c], FALSE)
  /\ Goes(c, "saving")
  /\ UNCHANGED <<store, chat, window, batch, carry, removed, faults>>

\* expire_chat_media_messages: the same messages, with their transfers' progress.
LoadForHousekeeping(c) ==
  /\ phase[c] = "idle"
  /\ Take(c, chat, FALSE)
  /\ Goes(c, "saving")
  /\ UNCHANGED <<store, chat, window, batch, carry, removed, faults>>

\* Selecting a contact, clearing the selection, deleting a message or clearing
\* the thread: the window sends its whole copy, without what the user removes.
CallSaveChat(c, gone) ==
  /\ phase[c] = "idle"
  /\ gone \subseteq window
  /\ Take(c, window \ gone, window \intersect Items # chat \intersect Items)
  /\ carry' = [carry EXCEPT ![c] = gone]
  /\ Goes(c, "saving")
  /\ UNCHANGED <<store, chat, window, batch, removed, faults>>

\* The window gets a chat_snapshot: it replaces the window's copy.
Snapshot ==
  /\ window # chat
  /\ window' = chat
  /\ UNCHANGED <<store, chat, phase, batch, carry, copy, stale, removed, faults>>

\* Mutant: a save from a stale copy is skipped, and not tried again.
Save_SkipStale(c) ==
  /\ phase[c] = "saving"
  /\ chat' = IF stale[c] THEN chat ELSE copy[c]
  /\ stale' = [d \in Threads |->
                 d # c /\ (stale[d] \/ (phase[d] \in {"loaded", "saving"} /\ chat' # chat))]
  /\ Goes(c, "idle")
  /\ carry' = [carry EXCEPT ![c] = {}]
  /\ copy' = [copy EXCEPT ![c] = {}]
  /\ UNCHANGED <<store, window, batch, removed, faults>>

\* save_chat_state: a temporary file renamed over the old one, so the file is
\* always a whole copy, the last one saved.  send_message and save_chat hand
\* what they saved back to the window.
Save(c) ==
  /\ phase[c] = "saving"
  /\ chat' = copy[c]
  /\ window' = IF c \in Senders \union Savers THEN copy[c] ELSE window
  /\ removed' = IF c \in Savers THEN removed \union carry[c] ELSE removed
  /\ Note("overlap", stale[c])
  /\ Goes(c, "idle")
  /\ carry' = [carry EXCEPT ![c] = {}]
  /\ copy' = [copy EXCEPT ![c] = {}]
  /\ stale' = [d \in Threads |->
                 IF d = c THEN FALSE
                 ELSE stale[d] \/ (phase[d] \in {"loaded", "saving"} /\ copy[c] # chat)]
  /\ UNCHANGED <<store, batch>>

----
(* What goes wrong. *)

\* A socket, store or file error takes the thread out of its operation, and
\* with it what it carried: a relay round that fails after its imports, a chat
\* that cannot be loaded, a save that fails.
Fail(c) ==
  /\ phase[c] # "idle"
  /\ Note("error", carry[c] # {})
  /\ Return(c)
  /\ UNCHANGED <<store, chat, window, removed>>

\* The process dies and is started again.
Crash ==
  /\ window' = chat
  /\ phase' = [c \in Threads |-> "idle"]
  /\ batch' = [c \in Threads |-> {}]
  /\ carry' = [c \in Threads |-> {}]
  /\ copy' = [c \in Threads |-> {}]
  /\ stale' = [c \in Threads |-> FALSE]
  /\ faults' = faults \union {"crash"}
  /\ UNCHANGED <<store, chat, removed>>

Next ==
  \/ \E c \in Importers :
       \/ \E objects \in SUBSET Incoming \ {{}} : LookUp(c, objects)
       \/ Insert(c)
       \/ LoadForMerge(c)
       \/ Merge(c)
  \/ \E c \in Senders :
       \/ \E m \in Outgoing : StartSend(c, m)
       \/ RecordOutgoing(c)
       \/ LoadForSend(c)
  \/ \E c \in Keepers : LoadForHousekeeping(c)
  \/ \E c \in Savers : \E gone \in SUBSET window : CallSaveChat(c, gone)
  \/ \E c \in Threads : Save(c) \/ Fail(c)
  \/ Snapshot
  \/ Crash

Spec == Init /\ [][Next]_vars

\* Threads run, and a relay round ends after a bounded number of frames even
\* when the relay keeps sending.
Fairness ==
  \A c \in Threads :
    /\ WF_vars(Insert(c))
    /\ SF_vars(LoadForMerge(c))
    /\ WF_vars(Merge(c))
    /\ WF_vars(LoadForSend(c))
    /\ WF_vars(Save(c))
FairSpec == Spec /\ Fairness

----

\* A message shows once, whichever of its copies arrived and however often it
\* was reported as new: the thread never holds two items with the same body.
OneCopyPerBody ==
  \A m, x \in chat \intersect Items : Manifest[m] = Manifest[x] => m = x

\* The history only shows messages the store took first: an outgoing message
\* that was never queued for sending is not shown as sent.
ShownWasStored == chat \intersect Items \subseteq store

Pending(m) == \E c \in Threads : Twins(m) \intersect (carry[c] \union copy[c]) # {}
Shown(m) == Twins(m) \intersect (chat \union removed) # {}

\* A stored message that neither shows, nor was removed by the user, nor is on
\* its way to the chat has been lost to an error, a crash, or a save from a
\* stale copy; there is no other way to lose one.
LossHasCause ==
  \A m \in store : Shown(m) \/ Pending(m) \/ faults \intersect {"error", "crash", "overlap"} # {}

\* A message the user removed comes back only through a save from a stale
\* copy, or because two imports both reported it as new.
ReturnHasCause ==
  removed \intersect chat \intersect Items # {} =>
    faults \intersect {"overlap", "double_report"} # {}

\* Without faults, whatever enters the store ends up in the history, or was
\* removed from it.
StoredIsShown == \A m \in Items : m \in store ~> Shown(m) \/ faults # {}

Upsets == {"overlap", "double_report"}

Inbox == INSTANCE Inbox WITH
  Messages <- Items,
  Body <- Manifest,
  accepted <- store,
  history <- chat \intersect Items,
  removed <- removed \intersect Items,
  upset <- faults \intersect Upsets # {}

\* The threads, copies and files keep the promise of a simple inbox: as long as
\* no copy was saved over a newer file and no message was reported twice, every
\* save shows messages that were just taken in, all of the others, and none
\* that was removed, or removes exactly what the user chose; and even after
\* that the history shows no body twice and nothing the store does not hold.
Refines == Inbox!Spec
====
