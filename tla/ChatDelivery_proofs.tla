---- MODULE ChatDelivery_proofs ----
(***************************************************************************)
(* Proofs about ChatDelivery, for any sets of messages, entries and        *)
(* threads: its safety properties, and that it implements Inbox.           *)
(*                                                                         *)
(* The invariant follows a message on its way.  What a thread set out to   *)
(* add is new to every file, copy and other thread (Fresh), so adding it   *)
(* brings nothing back; a copy that is not stale is the file and what the  *)
(* thread adds or removes (Current), so a save from it changes just that;  *)
(* and what a thread would drop it either added to its copy or found there *)
(* already (Traced), so nothing is lost on the way.                        *)
(***************************************************************************)
EXTENDS ChatDelivery, TLAPS

\* No upset so far.
Calm == faults \intersect Upsets = {}
\* Nothing that loses messages so far.
Lossless == faults \intersect {"error", "crash", "overlap"} = {}
\* No body twice.
OneBody(s) == \A m, x \in s \intersect Items : Manifest[m] = Manifest[x] => m = x

\* Which phases the threads of each kind go through, and what they carry.
Roles ==
  /\ \A c \in Importers :
       /\ phase[c] \in {"idle", "looked_up", "imported", "loaded", "saving"}
       /\ carry[c] \subseteq Incoming
       /\ phase[c] \in {"imported", "loaded", "saving"} => carry[c] # {}
  /\ \A c \in Senders :
       /\ phase[c] \in {"idle", "send", "recorded", "saving"}
       /\ carry[c] \subseteq Outgoing
  /\ \A c \in Savers \union Keepers : phase[c] \in {"idle", "saving"}
  /\ \A c \in Keepers : carry[c] = {}
  /\ \A c \in Threads :
       /\ phase[c] = "idle" => carry[c] = {}
       /\ phase[c] \notin {"loaded", "saving"} => copy[c] = {}

\* Whatever a file, a copy or a thread has of messages is in the store; only what
\* is being sent is not there yet.
AllStored ==
  /\ (chat \union window \union removed) \intersect Items \subseteq store
  /\ \A c \in Threads :
       /\ copy[c] \intersect Items \subseteq store
       /\ IF phase[c] = "send" THEN carry[c] \intersect store = {}
                               ELSE carry[c] \intersect Items \subseteq store

\* No file and no copy holds a body twice.
OneOfEach ==
  /\ OneBody(chat)
  /\ OneBody(window)
  /\ \A c \in Threads : OneBody(copy[c])

\* What a thread set out to add is nowhere else, unless two imports both reported it.
Fresh ==
  \A c \in Importers \union Senders : c \in Senders \/ Calm =>
    /\ carry[c] \intersect (chat \union window \union removed) = {}
    /\ \A d \in Threads \ {c} : carry[c] \intersect (copy[d] \union carry[d]) = {}

\* A copy that is not stale is the file, and what its thread adds or removes.
Current ==
  \A c \in Threads : phase[c] \in {"loaded", "saving"} /\ ~stale[c] =>
    /\ phase[c] = "loaded" \/ c \in Keepers => copy[c] = chat
    /\ c \in Importers \union Senders =>
         /\ chat \intersect Items \subseteq copy[c]
         /\ Calm => copy[c] \intersect removed \intersect Items \subseteq chat
    /\ c \in Savers =>
         /\ copy[c] \intersect Items = (chat \intersect Items) \ carry[c]
         /\ carry[c] \intersect Items \subseteq chat

\* What a thread carries it has put on its copy, or found there; and as long as
\* nothing was lost all that a copy holds shows, was removed or is carried.
Traced ==
  /\ \A c \in Importers : phase[c] = "saving" =>
       \A m \in carry[c] : Twins(m) \intersect copy[c] # {}
  /\ \A c \in Senders : phase[c] = "saving" => carry[c] \subseteq copy[c]
  /\ Lossless =>
       /\ window \intersect Items \subseteq chat \union removed
       /\ \A c \in Threads : copy[c] \intersect Items \subseteq
            chat \union removed
              \union (IF phase[c] = "saving" /\ c \in Importers THEN carry[c] \union Pongs
                      ELSE IF c \in Senders THEN carry[c] ELSE {})
\* Every thread but c is where it was.
OthersKept(c) ==
  \A d \in Threads \ {c} :
    phase'[d] = phase[d] /\ carry'[d] = carry[d] /\ copy'[d] = copy[d]
\* ... and knows as much about the file.
StalenessKept(c) == \A d \in Threads \ {c} : stale'[d] = stale[d]
\* The files, the window and the user's choices are as they were.
FilesKept == UNCHANGED <<chat, window, removed>>
\* Thread c goes to phase p, with these entries to add and this copy.
Becomes(c, p, entries, s) == phase'[c] = p /\ carry'[c] = entries /\ copy'[c] = s

\* What Merge pushes on the copy of thread c, and what becomes of c.
MergePushes(c, new, pong) ==
  /\ store' = store \union pong
  /\ pong \intersect store = {}
  /\ \A m \in new : Twins(m) \intersect copy[c] = {}
  /\ \A m, x \in new : x \in Twins(m) => x = m
  /\ \A m \in carry[c] : Twins(m) \intersect (copy[c] \union new) # {}
  /\ \/ new = {} /\ pong = {} /\ Becomes(c, "idle", {}, {})
     \/ /\ new # {}
        /\ stale'[c] = stale[c]
        /\ Becomes(c, "saving", carry[c], copy[c] \union new \union pong)

LEMMA ThreadKinds ==
  /\ \A c \in Importers : c \in Threads /\ c \notin Senders \union Savers \union Keepers
  /\ \A c \in Senders : c \in Threads /\ c \notin Importers \union Savers \union Keepers
  /\ \A c \in Savers : c \in Threads /\ c \notin Importers \union Senders \union Keepers
  /\ \A c \in Keepers : c \in Threads /\ c \notin Importers \union Senders \union Savers
BY ChatConstants DEF Threads

LEMMA MessageKinds ==
  /\ Incoming \subseteq Items /\ Outgoing \subseteq Items /\ Pongs \subseteq Items
  /\ Incoming \intersect Outgoing = {} /\ Incoming \intersect Pongs = {}
  /\ Outgoing \intersect Pongs = {} /\ Items \intersect Drafts = {}
  /\ \A m \in Outgoing \union Pongs, x \in Items : Manifest[x] = Manifest[m] => x = m
BY ChatConstants DEF Items

LEMMA LookUpEffect ==
  ASSUME TypeOK, NEW c \in Threads, NEW objects, LookUp(c, objects)
  PROVE  /\ phase[c] \in {"idle", "imported"}
         /\ Becomes(c, "looked_up", carry[c], copy[c])
         /\ OthersKept(c) /\ UNCHANGED <<store, chat, window, carry, copy, stale, removed, faults>>
BY DEF LookUp, Goes, TypeOK, OthersKept, Becomes

LEMMA InsertEffect ==
  ASSUME TypeOK, NEW c \in Threads, Insert(c)
  PROVE  /\ phase[c] = "looked_up"
         /\ store' = store \union batch[c] /\ batch[c] \subseteq Incoming
         /\ faults \subseteq faults'
         /\ batch[c] \intersect store # {} => "double_report" \in faults'
         /\ Becomes(c, IF carry[c] \union batch[c] = {} THEN "idle" ELSE "imported",
                    carry[c] \union batch[c], copy[c])
         /\ OthersKept(c) /\ FilesKept /\ UNCHANGED <<copy, stale>>
BY DEF Insert, Goes, Note, TypeOK, OthersKept, FilesKept, Becomes

LEMMA LoadForMergeEffect ==
  ASSUME TypeOK, NEW c \in Threads, LoadForMerge(c)
  PROVE  /\ phase[c] = "imported"
         /\ Becomes(c, "loaded", carry[c], chat)
         /\ ~stale'[c] /\ StalenessKept(c)
         /\ OthersKept(c) /\ FilesKept /\ UNCHANGED <<store, carry, faults>>
BY DEF LoadForMerge, Take, Goes, TypeOK, OthersKept, StalenessKept, FilesKept, Becomes

LEMMA MergeEffect ==
  ASSUME TypeOK, NEW c \in Threads, Merge(c)
  PROVE  /\ phase[c] = "loaded"
         /\ OthersKept(c) /\ StalenessKept(c) /\ FilesKept /\ faults' = faults
         /\ \E new \in SUBSET carry[c], pong \in SUBSET Pongs : MergePushes(c, new, pong)
<1>1. PICK new \in Unseen(copy[c], carry[c]) : \E pong \in Answers(copy[c], new) :
         /\ store' = store \union pong
         /\ IF new = {}
              THEN Return(c)
              ELSE /\ copy' = [copy EXCEPT ![c] = @ \union new \union pong]
                   /\ Goes(c, "saving")
                   /\ UNCHANGED <<batch, carry, stale>>
  BY DEF Merge
<1>2. PICK pong \in Answers(copy[c], new) :
         /\ store' = store \union pong
         /\ IF new = {}
              THEN Return(c)
              ELSE /\ copy' = [copy EXCEPT ![c] = @ \union new \union pong]
                   /\ Goes(c, "saving")
                   /\ UNCHANGED <<batch, carry, stale>>
  BY <1>1
<1>3. /\ pong \subseteq Pongs
      /\ pong \intersect store = {}
      /\ new = {} => pong = {}
  BY DEF Answers
<1>4. /\ new \subseteq carry[c]
      /\ \A m \in new : Twins(m) \intersect copy[c] = {}
      /\ \A m, x \in new : x \in Twins(m) => x = m
      /\ \A m \in carry[c] : Twins(m) \intersect (copy[c] \union new) # {}
  BY DEF Unseen
<1>5. phase[c] = "loaded" /\ FilesKept /\ faults' = faults
  BY DEF Merge, FilesKept
<1>6. CASE new = {}
  <2>1. OthersKept(c) /\ StalenessKept(c) /\ Becomes(c, "idle", {}, {})
    BY <1>2, <1>6 DEF Return, Goes, TypeOK, OthersKept, StalenessKept, Becomes
  <2> QED
    BY <2>1, <1>2, <1>3, <1>4, <1>5, <1>6 DEF MergePushes
<1>7. CASE new # {}
  <2>1. /\ OthersKept(c) /\ StalenessKept(c) /\ stale'[c] = stale[c]
        /\ Becomes(c, "saving", carry[c], copy[c] \union new \union pong)
    BY <1>2, <1>7 DEF Goes, TypeOK, OthersKept, StalenessKept, Becomes
  <2> QED
    BY <2>1, <1>2, <1>3, <1>4, <1>5, <1>7 DEF MergePushes
<1> QED
  BY <1>6, <1>7

LEMMA StartSendEffect ==
  ASSUME TypeOK, NEW c \in Threads, NEW m \in Outgoing, StartSend(c, m)
  PROVE  /\ phase[c] = "idle" /\ m \notin store
         /\ \A d \in Senders : m \notin carry[d]
         /\ window' = window \union {Draft[m]} /\ Draft[m] \in Drafts
         /\ Becomes(c, "send", {m}, copy[c])
         /\ OthersKept(c) /\ UNCHANGED <<store, chat, copy, stale, removed, faults>>
BY ChatConstants DEF StartSend, Goes, TypeOK, OthersKept, Becomes

LEMMA RecordOutgoingEffect ==
  ASSUME TypeOK, NEW c \in Threads, RecordOutgoing(c)
  PROVE  /\ phase[c] = "send"
         /\ store' = store \union carry[c]
         /\ Becomes(c, "recorded", carry[c], copy[c])
         /\ OthersKept(c) /\ FilesKept /\ UNCHANGED <<carry, copy, stale, faults>>
BY DEF RecordOutgoing, Goes, TypeOK, OthersKept, FilesKept, Becomes

LEMMA LoadForSendEffect ==
  ASSUME TypeOK, NEW c \in Threads, LoadForSend(c)
  PROVE  /\ phase[c] = "recorded"
         /\ Becomes(c, "saving", carry[c], chat \union carry[c])
         /\ ~stale'[c] /\ StalenessKept(c)
         /\ OthersKept(c) /\ FilesKept /\ UNCHANGED <<store, carry, faults>>
BY DEF LoadForSend, Take, Goes, TypeOK, OthersKept, StalenessKept, FilesKept, Becomes

LEMMA LoadForHousekeepingEffect ==
  ASSUME TypeOK, NEW c \in Threads, LoadForHousekeeping(c)
  PROVE  /\ phase[c] = "idle"
         /\ Becomes(c, "saving", carry[c], chat)
         /\ ~stale'[c] /\ StalenessKept(c)
         /\ OthersKept(c) /\ FilesKept /\ UNCHANGED <<store, carry, faults>>
BY DEF LoadForHousekeeping, Take, Goes, TypeOK, OthersKept, StalenessKept, FilesKept, Becomes

LEMMA CallSaveChatEffect ==
  ASSUME TypeOK, NEW c \in Threads, NEW gone, CallSaveChat(c, gone)
  PROVE  /\ phase[c] = "idle" /\ gone \subseteq window
         /\ Becomes(c, "saving", gone, window \ gone)
         /\ stale'[c] = (window \intersect Items # chat \intersect Items)
         /\ StalenessKept(c)
         /\ OthersKept(c) /\ FilesKept /\ UNCHANGED <<store, faults>>
BY DEF CallSaveChat, Take, Goes, TypeOK, OthersKept, StalenessKept, FilesKept, Becomes

LEMMA SaveEffect ==
  ASSUME TypeOK, NEW c \in Threads, Save(c)
  PROVE  /\ phase[c] = "saving"
         /\ chat' = copy[c]
         /\ window' = IF c \in Senders \union Savers THEN copy[c] ELSE window
         /\ removed' = IF c \in Savers THEN removed \union carry[c] ELSE removed
         /\ faults \subseteq faults'
         /\ stale[c] => "overlap" \in faults'
         /\ ~stale[c] => faults' = faults
         /\ Becomes(c, "idle", {}, {})
         /\ OthersKept(c) /\ UNCHANGED store
         /\ \A d \in Threads \ {c} :
              ~stale'[d] /\ phase[d] \in {"loaded", "saving"} => ~stale[d] /\ copy[c] = chat
BY DEF Save, Note, Goes, TypeOK, OthersKept, Becomes

LEMMA FailEffect ==
  ASSUME TypeOK, NEW c \in Threads, Fail(c)
  PROVE  /\ carry[c] # {} => "error" \in faults'
         /\ faults \subseteq faults'
         /\ "double_report" \in faults' \/ "overlap" \in faults' =>
              "double_report" \in faults \/ "overlap" \in faults
         /\ Becomes(c, "idle", {}, {})
         /\ StalenessKept(c) /\ OthersKept(c) /\ FilesKept /\ UNCHANGED store
BY DEF Fail, Return, Note, Goes, TypeOK, OthersKept, StalenessKept, FilesKept, Becomes

LEMMA CrashEffect ==
  ASSUME Crash
  PROVE  /\ \A c \in Threads : Becomes(c, "idle", {}, {}) /\ ~stale'[c]
         /\ window' = chat /\ faults' = faults \union {"crash"}
         /\ UNCHANGED <<store, chat, removed>>
BY DEF Crash, Becomes

LEMMA TypeInit == Init => TypeOK
BY DEF Init, TypeOK, Phase, Fault

LEMMA TypeStep ==
  ASSUME TypeOK, Roles,
         [Next]_vars
  PROVE  TypeOK'
<1>1. ASSUME NEW c \in Importers, NEW objects \in SUBSET Incoming \ {{}}, LookUp(c, objects)
      PROVE  TypeOK'
  BY <1>1, ThreadKinds DEF LookUp, Goes, TypeOK, Phase
<1>2. ASSUME NEW c \in Importers, Insert(c)
      PROVE  TypeOK'
  BY <1>2, ThreadKinds, MessageKinds DEF Insert, Goes, Note, TypeOK, Phase, Fault, Entries
<1>3. ASSUME NEW c \in Importers, LoadForMerge(c)
      PROVE  TypeOK'
  BY <1>3, ThreadKinds DEF LoadForMerge, Goes, Take, TypeOK, Phase
<1>4. ASSUME NEW c \in Importers, Merge(c)
      PROVE  TypeOK'
  <2>1. c \in Threads
    BY ThreadKinds
  <2>2. PICK new \in Unseen(copy[c], carry[c]) : \E pong \in Answers(copy[c], new) :
           /\ store' = store \union pong
           /\ IF new = {}
                THEN Return(c)
                ELSE /\ copy' = [copy EXCEPT ![c] = @ \union new \union pong]
                     /\ Goes(c, "saving")
                     /\ UNCHANGED <<batch, carry, stale>>
    BY <1>4 DEF Merge
  <2>8. PICK pong \in Answers(copy[c], new) :
           /\ store' = store \union pong
           /\ IF new = {}
                THEN Return(c)
                ELSE /\ copy' = [copy EXCEPT ![c] = @ \union new \union pong]
                     /\ Goes(c, "saving")
                     /\ UNCHANGED <<batch, carry, stale>>
    BY <2>2
  <2>3. new \in SUBSET Entries /\ pong \in SUBSET Items
    BY <2>1, MessageKinds DEF Unseen, Answers, TypeOK
  <2>4. UNCHANGED <<chat, window, removed, faults>>
    BY <1>4 DEF Merge
  <2>5. store' \subseteq Items
    BY <2>8, <2>3 DEF TypeOK
  <2>6. CASE new = {}
    BY <2>1, <2>8, <2>4, <2>5, <2>6 DEF Return, Goes, TypeOK, Phase
  <2>7. CASE new # {}
    <3>1. copy[c] \union new \union pong \in SUBSET Entries
      BY <2>1, <2>3 DEF TypeOK, Entries
    <3> QED
      BY <2>8, <2>4, <2>5, <2>7, <3>1 DEF Goes, TypeOK, Phase
  <2> QED
    BY <2>6, <2>7
<1>5. ASSUME NEW c \in Senders, NEW m \in Outgoing, StartSend(c, m)
      PROVE  TypeOK'
  BY <1>5, ThreadKinds, MessageKinds, ChatConstants DEF StartSend, Goes, TypeOK, Phase, Entries
<1>6. ASSUME NEW c \in Senders, RecordOutgoing(c)
      PROVE  TypeOK'
  BY <1>6, ThreadKinds, MessageKinds DEF RecordOutgoing, Goes, TypeOK, Phase, Roles
<1>7. ASSUME NEW c \in Senders, LoadForSend(c)
      PROVE  TypeOK'
  BY <1>7, ThreadKinds DEF LoadForSend, Goes, Take, TypeOK, Phase
<1>8. ASSUME NEW c \in Keepers, LoadForHousekeeping(c)
      PROVE  TypeOK'
  BY <1>8, ThreadKinds DEF LoadForHousekeeping, Goes, Take, TypeOK, Phase
<1>9. ASSUME NEW c \in Savers, NEW gone \in SUBSET window, CallSaveChat(c, gone)
      PROVE  TypeOK'
  BY <1>9, ThreadKinds DEF CallSaveChat, Goes, Take, TypeOK, Phase
<1>10. ASSUME NEW c \in Threads, Save(c)
      PROVE  TypeOK'
  BY <1>10, ThreadKinds, MessageKinds DEF Save, Goes, Note, TypeOK, Phase, Fault, Entries
<1>11. ASSUME NEW c \in Threads, Fail(c)
      PROVE  TypeOK'
  BY <1>11 DEF Fail, Goes, Return, Note, TypeOK, Phase, Fault
<1>12. CASE Snapshot
  BY <1>12 DEF Snapshot, TypeOK
<1>13. CASE Crash
  BY <1>13 DEF Crash, TypeOK, Phase, Fault
<1>14. CASE UNCHANGED vars
  BY <1>14 DEF vars, TypeOK
<1> QED
  BY <1>1, <1>2, <1>3, <1>4, <1>5, <1>6, <1>7, <1>8, <1>9, <1>10, <1>11, <1>12, <1>13, <1>14 DEF
     Next

LEMMA RolesStep ==
  ASSUME TypeOK, Roles,
         [Next]_vars
  PROVE  Roles'
<1>1. ASSUME NEW c \in Importers, NEW objects \in SUBSET Incoming \ {{}}, LookUp(c, objects)
      PROVE  Roles'
  BY <1>1, ThreadKinds, LookUpEffect DEF OthersKept, Becomes, Roles
<1>2. ASSUME NEW c \in Importers, Insert(c)
      PROVE  Roles'
  BY <1>2, ThreadKinds, InsertEffect DEF OthersKept, Becomes, Roles
<1>3. ASSUME NEW c \in Importers, LoadForMerge(c)
      PROVE  Roles'
  BY <1>3, ThreadKinds, LoadForMergeEffect DEF OthersKept, Becomes, Roles
<1>4. ASSUME NEW c \in Importers, Merge(c)
      PROVE  Roles'
  <2>1. PICK new \in SUBSET carry[c], pong \in SUBSET Pongs : MergePushes(c, new, pong)
    BY <1>4, ThreadKinds, MergeEffect
  <2> QED
    BY <1>4, ThreadKinds, MergeEffect DEF MergePushes, OthersKept, Becomes, Roles
<1>5. ASSUME NEW c \in Senders, NEW m \in Outgoing, StartSend(c, m)
      PROVE  Roles'
  BY <1>5, ThreadKinds, StartSendEffect DEF OthersKept, Becomes, Roles
<1>6. ASSUME NEW c \in Senders, RecordOutgoing(c)
      PROVE  Roles'
  BY <1>6, ThreadKinds, RecordOutgoingEffect DEF OthersKept, Becomes, Roles
<1>7. ASSUME NEW c \in Senders, LoadForSend(c)
      PROVE  Roles'
  BY <1>7, ThreadKinds, LoadForSendEffect DEF OthersKept, Becomes, Roles
<1>8. ASSUME NEW c \in Keepers, LoadForHousekeeping(c)
      PROVE  Roles'
  BY <1>8, ThreadKinds, LoadForHousekeepingEffect DEF OthersKept, Becomes, Roles
<1>9. ASSUME NEW c \in Savers, NEW gone \in SUBSET window, CallSaveChat(c, gone)
      PROVE  Roles'
  BY <1>9, ThreadKinds, CallSaveChatEffect DEF OthersKept, Becomes, Roles
<1>10. ASSUME NEW c \in Threads, Save(c)
      PROVE  Roles'
  BY <1>10, ThreadKinds, SaveEffect DEF OthersKept, Becomes, Roles
<1>11. ASSUME NEW c \in Threads, Fail(c)
      PROVE  Roles'
  BY <1>11, ThreadKinds, FailEffect DEF OthersKept, Becomes, Roles
<1>12. CASE Snapshot
  BY <1>12, MessageKinds DEF Snapshot, TypeOK, Roles
<1>13. CASE Crash
  BY <1>13, ThreadKinds, CrashEffect, MessageKinds DEF Becomes, TypeOK, Roles
<1>14. CASE UNCHANGED vars
  BY <1>14, MessageKinds DEF vars, TypeOK, Roles
<1> QED
  BY <1>1, <1>2, <1>3, <1>4, <1>5, <1>6, <1>7, <1>8, <1>9, <1>10, <1>11, <1>12, <1>13, <1>14 DEF
     Next

LEMMA OnlySendersSend ==
  ASSUME Roles, NEW d \in Threads, phase[d] = "send"
  PROVE  d \in Senders /\ carry[d] \subseteq Outgoing
BY DEF Roles, Threads

LEMMA AllStoredStep ==
  ASSUME TypeOK, Roles, AllStored, Fresh,
         [Next]_vars
  PROVE  AllStored'
<1>1. ASSUME NEW c \in Importers, NEW objects \in SUBSET Incoming \ {{}}, LookUp(c, objects)
      PROVE  AllStored'
  BY <1>1, ThreadKinds, LookUpEffect DEF OthersKept, Becomes, AllStored
<1>2. ASSUME NEW c \in Importers, Insert(c)
      PROVE  AllStored'
  <2>1. /\ c \in Threads /\ phase[c] = "looked_up" /\ store' = store \union batch[c]
        /\ batch[c] \subseteq Incoming
        /\ phase'[c] # "send" /\ carry'[c] = carry[c] \union batch[c] /\ copy'[c] = copy[c]
        /\ OthersKept(c) /\ FilesKept
    BY <1>2, ThreadKinds, InsertEffect DEF Becomes
  <2>2. (chat \union window \union removed)' \intersect Items \subseteq store'
    BY <2>1 DEF AllStored, FilesKept
  <2>3. copy'[c] \intersect Items \subseteq store' /\ carry'[c] \intersect Items \subseteq store'
    BY <2>1 DEF AllStored
  <2>4. ASSUME NEW d \in Threads \ {c}
        PROVE  /\ copy'[d] \intersect Items \subseteq store'
               /\ IF phase'[d] = "send" THEN carry'[d] \intersect store' = {}
                                        ELSE carry'[d] \intersect Items \subseteq store'
    BY <2>1, OnlySendersSend, MessageKinds DEF AllStored, OthersKept
  <2> QED
    BY <2>1, <2>2, <2>3, <2>4 DEF AllStored
<1>3. ASSUME NEW c \in Importers, LoadForMerge(c)
      PROVE  AllStored'
  BY <1>3, ThreadKinds, LoadForMergeEffect DEF OthersKept, FilesKept, Becomes, AllStored
<1>4. ASSUME NEW c \in Importers, Merge(c)
      PROVE  AllStored'
  <2>1. PICK new \in SUBSET carry[c], pong \in SUBSET Pongs : MergePushes(c, new, pong)
    BY <1>4, ThreadKinds, MergeEffect
  <2>2. /\ c \in Threads /\ phase[c] = "loaded" /\ store' = store \union pong
        /\ phase'[c] # "send" /\ carry'[c] \subseteq carry[c]
        /\ copy'[c] \subseteq copy[c] \union carry[c] \union pong
        /\ OthersKept(c) /\ FilesKept
    BY <1>4, <2>1, ThreadKinds, MergeEffect DEF MergePushes, Becomes
  <2>3. (chat \union window \union removed)' \intersect Items \subseteq store'
    BY <2>2 DEF AllStored, FilesKept
  <2>4. copy'[c] \intersect Items \subseteq store' /\ carry'[c] \intersect Items \subseteq store'
    BY <2>2 DEF AllStored
  <2>5. ASSUME NEW d \in Threads \ {c}
        PROVE  /\ copy'[d] \intersect Items \subseteq store'
               /\ IF phase'[d] = "send" THEN carry'[d] \intersect store' = {}
                                        ELSE carry'[d] \intersect Items \subseteq store'
    BY <2>2, OnlySendersSend, MessageKinds DEF AllStored, OthersKept
  <2> QED
    BY <2>2, <2>3, <2>4, <2>5 DEF AllStored
<1>5. ASSUME NEW c \in Senders, NEW m \in Outgoing, StartSend(c, m)
      PROVE  AllStored'
  BY <1>5, ThreadKinds, StartSendEffect, MessageKinds DEF OthersKept, Becomes, AllStored
<1>6. ASSUME NEW c \in Senders, RecordOutgoing(c)
      PROVE  AllStored'
  BY <1>6, ThreadKinds, RecordOutgoingEffect DEF OthersKept, FilesKept, Becomes, AllStored, Fresh
<1>7. ASSUME NEW c \in Senders, LoadForSend(c)
      PROVE  AllStored'
  BY <1>7, ThreadKinds, LoadForSendEffect DEF OthersKept, FilesKept, Becomes, AllStored
<1>8. ASSUME NEW c \in Keepers, LoadForHousekeeping(c)
      PROVE  AllStored'
  BY <1>8, ThreadKinds, LoadForHousekeepingEffect DEF OthersKept, FilesKept, Becomes, AllStored
<1>9. ASSUME NEW c \in Savers, NEW gone \in SUBSET window, CallSaveChat(c, gone)
      PROVE  AllStored'
  BY <1>9, ThreadKinds, CallSaveChatEffect DEF OthersKept, FilesKept, Becomes, AllStored
<1>10. ASSUME NEW c \in Threads, Save(c)
      PROVE  AllStored'
  BY <1>10, SaveEffect DEF OthersKept, Becomes, AllStored
<1>11. ASSUME NEW c \in Threads, Fail(c)
      PROVE  AllStored'
  BY <1>11, FailEffect DEF OthersKept, FilesKept, Becomes, AllStored
<1>12. CASE Snapshot
  BY <1>12 DEF Snapshot, AllStored
<1>13. CASE Crash
  BY <1>13, CrashEffect DEF Becomes, AllStored
<1>14. CASE UNCHANGED vars
  BY <1>14 DEF vars, AllStored
<1> QED
  BY <1>1, <1>2, <1>3, <1>4, <1>5, <1>6, <1>7, <1>8, <1>9, <1>10, <1>11, <1>12, <1>13, <1>14 DEF
     Next

LEMMA OneOfEachStep ==
  ASSUME TypeOK, Roles, OneOfEach,
         [Next]_vars
  PROVE  OneOfEach'
<1>1. ASSUME NEW c \in Importers, NEW objects \in SUBSET Incoming \ {{}}, LookUp(c, objects)
      PROVE  OneOfEach'
  BY <1>1, ThreadKinds, LookUpEffect DEF OneOfEach
<1>2. ASSUME NEW c \in Importers, Insert(c)
      PROVE  OneOfEach'
  BY <1>2, ThreadKinds, InsertEffect DEF FilesKept, Becomes, OneOfEach
<1>3. ASSUME NEW c \in Importers, LoadForMerge(c)
      PROVE  OneOfEach'
  BY <1>3, ThreadKinds, LoadForMergeEffect DEF OthersKept, FilesKept, Becomes, OneOfEach
<1>4. ASSUME NEW c \in Importers, Merge(c)
      PROVE  OneOfEach'
  <2>1. PICK new \in SUBSET carry[c], pong \in SUBSET Pongs : MergePushes(c, new, pong)
    BY <1>4, ThreadKinds, MergeEffect
  <2> QED
    BY <1>4, ThreadKinds, MergeEffect, MessageKinds DEF MergePushes, OthersKept, FilesKept,
       Becomes, OneOfEach, OneBody, Twins
<1>5. ASSUME NEW c \in Senders, NEW m \in Outgoing, StartSend(c, m)
      PROVE  OneOfEach'
  BY <1>5, ThreadKinds, StartSendEffect, MessageKinds DEF Becomes, OneOfEach, OneBody
<1>6. ASSUME NEW c \in Senders, RecordOutgoing(c)
      PROVE  OneOfEach'
  BY <1>6, ThreadKinds, RecordOutgoingEffect DEF FilesKept, OneOfEach
<1>7. ASSUME NEW c \in Senders, LoadForSend(c)
      PROVE  OneOfEach'
  BY <1>7, ThreadKinds, LoadForSendEffect, MessageKinds DEF OthersKept, FilesKept, Becomes,
     Roles, OneOfEach, OneBody
<1>8. ASSUME NEW c \in Keepers, LoadForHousekeeping(c)
      PROVE  OneOfEach'
  BY <1>8, ThreadKinds, LoadForHousekeepingEffect DEF OthersKept, FilesKept, Becomes, OneOfEach
<1>9. ASSUME NEW c \in Savers, NEW gone \in SUBSET window, CallSaveChat(c, gone)
      PROVE  OneOfEach'
  BY <1>9, ThreadKinds, CallSaveChatEffect DEF OthersKept, FilesKept, Becomes, OneOfEach, OneBody
<1>10. ASSUME NEW c \in Threads, Save(c)
      PROVE  OneOfEach'
  BY <1>10, SaveEffect DEF OthersKept, Becomes, OneOfEach, OneBody
<1>11. ASSUME NEW c \in Threads, Fail(c)
      PROVE  OneOfEach'
  BY <1>11, FailEffect DEF OthersKept, FilesKept, Becomes, OneOfEach, OneBody
<1>12. CASE Snapshot
  BY <1>12 DEF Snapshot, OneOfEach
<1>13. CASE Crash
  BY <1>13, CrashEffect DEF Becomes, OneOfEach, OneBody
<1>14. CASE UNCHANGED vars
  BY <1>14 DEF vars, OneOfEach
<1> QED
  BY <1>1, <1>2, <1>3, <1>4, <1>5, <1>6, <1>7, <1>8, <1>9, <1>10, <1>11, <1>12, <1>13, <1>14 DEF
     Next

LEMMA FreshStep ==
  ASSUME TypeOK, Roles, AllStored, Fresh,
         [Next]_vars
  PROVE  Fresh'
<1>1. ASSUME NEW c \in Importers, NEW objects \in SUBSET Incoming \ {{}}, LookUp(c, objects)
      PROVE  Fresh'
  BY <1>1, ThreadKinds, LookUpEffect DEF Fresh, Calm
<1>2. ASSUME NEW c \in Importers, Insert(c)
      PROVE  Fresh'
  <2> SUFFICES ASSUME NEW a \in Importers \union Senders, a \in Senders \/ Calm'
               PROVE  /\ carry'[a] \intersect (chat' \union window' \union removed') = {}
                      /\ \A d \in Threads \ {a} : carry'[a] \intersect (copy'[d] \union carry'[d]) = {}
    BY DEF Fresh
  <2>1. /\ c \in Threads /\ batch[c] \subseteq Incoming /\ faults \subseteq faults'
        /\ batch[c] \intersect store # {} => "double_report" \in faults'
        /\ carry'[c] = carry[c] \union batch[c] /\ copy' = copy
        /\ OthersKept(c) /\ FilesKept
    BY <1>2, ThreadKinds, InsertEffect DEF Becomes
  <2>2. Calm' => Calm /\ batch[c] \intersect store = {}
    BY <2>1 DEF Calm, Upsets
  <2>3. a \in Threads
    BY ThreadKinds
  <2>4. CASE a = c
    <3>1. /\ carry[c] \intersect (chat \union window \union removed) = {}
          /\ \A d \in Threads \ {c} : carry[c] \intersect (copy[d] \union carry[d]) = {}
          /\ batch[c] \intersect store = {}
      BY <2>2, <2>4, <1>2, ThreadKinds DEF Fresh
    <3>2. batch[c] \intersect (chat \union window \union removed) = {}
      BY <2>1, <3>1, MessageKinds DEF AllStored
    <3>3. ASSUME NEW d \in Threads \ {c}
          PROVE  batch[c] \intersect (copy[d] \union carry[d]) = {}
      BY <2>1, <3>1, MessageKinds, OnlySendersSend DEF AllStored
    <3> QED
      BY <2>1, <2>4, <3>1, <3>2, <3>3 DEF OthersKept, FilesKept
  <2>5. CASE a # c
    <3>1. /\ carry[a] \intersect (chat \union window \union removed) = {}
          /\ \A d \in Threads \ {a} : carry[a] \intersect (copy[d] \union carry[d]) = {}
      BY <2>2 DEF Fresh
    <3>2. carry[a] \intersect batch[c] = {}
      <4>1. CASE a \in Senders
        BY <2>1, <4>1, MessageKinds DEF Roles
      <4>2. CASE a \in Importers
        BY <2>2, <2>3, <4>2, MessageKinds, ThreadKinds DEF AllStored, Roles
      <4> QED
        BY <4>1, <4>2
    <3> QED
      BY <2>1, <2>3, <2>5, <3>1, <3>2 DEF OthersKept, FilesKept
  <2> QED
    BY <2>4, <2>5
<1>3. ASSUME NEW c \in Importers, LoadForMerge(c)
      PROVE  Fresh'
  BY <1>3, ThreadKinds, LoadForMergeEffect DEF OthersKept, FilesKept, Becomes, Fresh, Calm
<1>4. ASSUME NEW c \in Importers, Merge(c)
      PROVE  Fresh'
  <2>1. PICK new \in SUBSET carry[c], pong \in SUBSET Pongs : MergePushes(c, new, pong)
    BY <1>4, ThreadKinds, MergeEffect
  <2> QED
    BY <1>4, ThreadKinds, MergeEffect, MessageKinds DEF MergePushes, OthersKept, FilesKept,
       Becomes, Roles, Fresh, Calm
<1>5. ASSUME NEW c \in Senders, NEW m \in Outgoing, StartSend(c, m)
      PROVE  Fresh'
  <2> SUFFICES ASSUME NEW a \in Importers \union Senders, a \in Senders \/ Calm'
               PROVE  /\ carry'[a] \intersect (chat' \union window' \union removed') = {}
                      /\ \A d \in Threads \ {a} : carry'[a] \intersect (copy'[d] \union carry'[d]) = {}
    BY DEF Fresh
  <2>1. /\ c \in Threads /\ m \notin store /\ m \in Items /\ m \in Outgoing
        /\ \A d \in Senders : m \notin carry[d]
        /\ window' = window \union {Draft[m]} /\ Draft[m] \in Drafts
        /\ carry'[c] = {m} /\ copy' = copy
        /\ OthersKept(c) /\ UNCHANGED <<chat, removed, faults>>
    BY <1>5, ThreadKinds, StartSendEffect, MessageKinds DEF Becomes
  <2>2. ASSUME NEW d \in Threads \ {c}
        PROVE  m \notin copy[d] /\ m \notin carry[d]
    BY <2>1, OnlySendersSend DEF AllStored
  <2>3. CASE a = c
    BY <2>1, <2>2, <2>3, MessageKinds DEF AllStored, OthersKept
  <2>4. CASE a # c
    <3>1. /\ a \in Threads
          /\ carry[a] \intersect (chat \union window \union removed) = {}
          /\ \A d \in Threads \ {a} : carry[a] \intersect (copy[d] \union carry[d]) = {}
      BY <2>1, ThreadKinds DEF Fresh, Calm
    <3>2. Draft[m] \notin carry[a]
      BY <2>1, MessageKinds DEF Roles
    <3> QED
      BY <2>1, <2>2, <2>4, <3>1, <3>2 DEF OthersKept
  <2> QED
    BY <2>3, <2>4
<1>6. ASSUME NEW c \in Senders, RecordOutgoing(c)
      PROVE  Fresh'
  BY <1>6, ThreadKinds, RecordOutgoingEffect DEF FilesKept, Fresh, Calm
<1>7. ASSUME NEW c \in Senders, LoadForSend(c)
      PROVE  Fresh'
  BY <1>7, ThreadKinds, LoadForSendEffect DEF OthersKept, FilesKept, Becomes, Fresh, Calm
<1>8. ASSUME NEW c \in Keepers, LoadForHousekeeping(c)
      PROVE  Fresh'
  BY <1>8, ThreadKinds, LoadForHousekeepingEffect DEF OthersKept, FilesKept, Becomes, Fresh, Calm
<1>9. ASSUME NEW c \in Savers, NEW gone \in SUBSET window, CallSaveChat(c, gone)
      PROVE  Fresh'
  BY <1>9, ThreadKinds, CallSaveChatEffect DEF OthersKept, FilesKept, Becomes, Fresh, Calm
<1>10. ASSUME NEW c \in Threads, Save(c)
      PROVE  Fresh'
  BY <1>10, ThreadKinds, SaveEffect DEF OthersKept, Becomes, Fresh, Calm
<1>11. ASSUME NEW c \in Threads, Fail(c)
      PROVE  Fresh'
  BY <1>11, ThreadKinds, FailEffect DEF OthersKept, FilesKept, Becomes, Fresh, Calm
<1>12. CASE Snapshot
  BY <1>12 DEF Snapshot, Fresh, Calm
<1>13. CASE Crash
  BY <1>13, ThreadKinds, CrashEffect DEF Becomes, Fresh
<1>14. CASE UNCHANGED vars
  BY <1>14 DEF vars, Fresh, Calm
<1> QED
  BY <1>1, <1>2, <1>3, <1>4, <1>5, <1>6, <1>7, <1>8, <1>9, <1>10, <1>11, <1>12, <1>13, <1>14 DEF
     Next

LEMMA CurrentStep ==
  ASSUME TypeOK, Roles, AllStored, Fresh, Current,
         [Next]_vars
  PROVE  Current'
<1>1. ASSUME NEW c \in Importers, NEW objects \in SUBSET Incoming \ {{}}, LookUp(c, objects)
      PROVE  Current'
  BY <1>1, ThreadKinds, LookUpEffect DEF OthersKept, Becomes, Current, Calm
<1>2. ASSUME NEW c \in Importers, Insert(c)
      PROVE  Current'
  BY <1>2, ThreadKinds, InsertEffect DEF OthersKept, FilesKept, Becomes, Current, Calm
<1>3. ASSUME NEW c \in Importers, LoadForMerge(c)
      PROVE  Current'
  BY <1>3, ThreadKinds, LoadForMergeEffect DEF OthersKept, StalenessKept, FilesKept, Becomes,
     Current, Calm
<1>4. ASSUME NEW c \in Importers, Merge(c)
      PROVE  Current'
  <2>1. PICK new \in SUBSET carry[c], pong \in SUBSET Pongs : MergePushes(c, new, pong)
    BY <1>4, ThreadKinds, MergeEffect
  <2> QED
    BY <1>4, ThreadKinds, MergeEffect DEF MergePushes, OthersKept, StalenessKept, FilesKept,
       Becomes, AllStored, Fresh, Current, Calm
<1>5. ASSUME NEW c \in Senders, NEW m \in Outgoing, StartSend(c, m)
      PROVE  Current'
  BY <1>5, ThreadKinds, StartSendEffect DEF OthersKept, Becomes, Current, Calm
<1>6. ASSUME NEW c \in Senders, RecordOutgoing(c)
      PROVE  Current'
  BY <1>6, ThreadKinds, RecordOutgoingEffect DEF OthersKept, FilesKept, Becomes, Current, Calm
<1>7. ASSUME NEW c \in Senders, LoadForSend(c)
      PROVE  Current'
  BY <1>7, ThreadKinds, LoadForSendEffect DEF OthersKept, StalenessKept, FilesKept, Becomes,
     Fresh, Current, Calm
<1>8. ASSUME NEW c \in Keepers, LoadForHousekeeping(c)
      PROVE  Current'
  BY <1>8, ThreadKinds, LoadForHousekeepingEffect DEF OthersKept, StalenessKept, FilesKept,
     Becomes, Current, Calm
<1>9. ASSUME NEW c \in Savers, NEW gone \in SUBSET window, CallSaveChat(c, gone)
      PROVE  Current'
  <2>1. /\ c \in Threads /\ c \notin Keepers \union Importers \union Senders
        /\ carry'[c] = gone /\ gone \subseteq window /\ copy'[c] = window \ gone
        /\ phase'[c] = "saving"
        /\ stale'[c] = (window \intersect Items # chat \intersect Items)
        /\ OthersKept(c) /\ StalenessKept(c) /\ FilesKept /\ UNCHANGED <<store, faults>>
    BY <1>9, ThreadKinds, CallSaveChatEffect DEF Becomes
  <2>2. ~stale'[c] => /\ copy'[c] \intersect Items = (chat' \intersect Items) \ carry'[c]
                      /\ carry'[c] \intersect Items \subseteq chat'
    BY <2>1 DEF FilesKept
  <2>3. Calm' = Calm
    BY <2>1 DEF Calm
  <2> QED
    BY <2>1, <2>2, <2>3 DEF Current, OthersKept, StalenessKept, FilesKept
<1>10. ASSUME NEW c \in Threads, Save(c)
      PROVE  Current'
  BY <1>10, SaveEffect DEF OthersKept, Becomes, Current, Calm, Upsets
<1>11. ASSUME NEW c \in Threads, Fail(c)
      PROVE  Current'
  BY <1>11, FailEffect DEF OthersKept, StalenessKept, FilesKept, Becomes, Current, Calm
<1>12. CASE Snapshot
  BY <1>12 DEF Snapshot, Current, Calm
<1>13. CASE Crash
  BY <1>13, CrashEffect DEF Becomes, Current
<1>14. CASE UNCHANGED vars
  BY <1>14 DEF vars, Current, Calm
<1> QED
  BY <1>1, <1>2, <1>3, <1>4, <1>5, <1>6, <1>7, <1>8, <1>9, <1>10, <1>11, <1>12, <1>13, <1>14 DEF
     Next

\* A save from a copy that is not stale keeps what the file shows, except for
\* what the user removes with it.
LEMMA SavedIsKept ==
  ASSUME Roles, Current, NEW c \in Threads, phase[c] = "saving", ~stale[c],
         chat' = copy[c],
         removed' = IF c \in Savers THEN removed \union carry[c] ELSE removed
  PROVE  (chat \union removed) \intersect Items \subseteq chat' \union removed'
BY DEF Current, Threads

LEMMA TracedStep ==
  ASSUME TypeOK, Roles, Current, Traced,
         [Next]_vars
  PROVE  Traced'
<1>1. ASSUME NEW c \in Importers, NEW objects \in SUBSET Incoming \ {{}}, LookUp(c, objects)
      PROVE  Traced'
  BY <1>1, ThreadKinds, LookUpEffect DEF OthersKept, Becomes, Traced, Lossless
<1>2. ASSUME NEW c \in Importers, Insert(c)
      PROVE  Traced'
  BY <1>2, ThreadKinds, InsertEffect DEF OthersKept, FilesKept, Becomes, Traced, Lossless
<1>3. ASSUME NEW c \in Importers, LoadForMerge(c)
      PROVE  Traced'
  BY <1>3, ThreadKinds, LoadForMergeEffect DEF OthersKept, FilesKept, Becomes, Traced, Lossless
<1>4. ASSUME NEW c \in Importers, Merge(c)
      PROVE  Traced'
  <2>1. PICK new \in SUBSET carry[c], pong \in SUBSET Pongs : MergePushes(c, new, pong)
    BY <1>4, ThreadKinds, MergeEffect
  <2> QED
    BY <1>4, ThreadKinds, MergeEffect DEF MergePushes, OthersKept, FilesKept, Becomes, Traced,
       Lossless
<1>5. ASSUME NEW c \in Senders, NEW m \in Outgoing, StartSend(c, m)
      PROVE  Traced'
  BY <1>5, ThreadKinds, StartSendEffect, MessageKinds DEF OthersKept, Becomes, Roles, Traced,
     Lossless
<1>6. ASSUME NEW c \in Senders, RecordOutgoing(c)
      PROVE  Traced'
  BY <1>6, ThreadKinds, RecordOutgoingEffect DEF OthersKept, FilesKept, Becomes, Traced, Lossless
<1>7. ASSUME NEW c \in Senders, LoadForSend(c)
      PROVE  Traced'
  BY <1>7, ThreadKinds, LoadForSendEffect DEF OthersKept, FilesKept, Becomes, Traced, Lossless
<1>8. ASSUME NEW c \in Keepers, LoadForHousekeeping(c)
      PROVE  Traced'
  BY <1>8, ThreadKinds, LoadForHousekeepingEffect DEF OthersKept, FilesKept, Becomes, Traced,
     Lossless
<1>9. ASSUME NEW c \in Savers, NEW gone \in SUBSET window, CallSaveChat(c, gone)
      PROVE  Traced'
  BY <1>9, ThreadKinds, CallSaveChatEffect DEF OthersKept, FilesKept, Becomes, Traced, Lossless
<1>10. ASSUME NEW c \in Threads, Save(c)
      PROVE  Traced'
  <2>1. /\ c \in Threads /\ phase[c] = "saving" /\ chat' = copy[c]
        /\ window' = IF c \in Senders \union Savers THEN copy[c] ELSE window
        /\ removed' = IF c \in Savers THEN removed \union carry[c] ELSE removed
        /\ phase'[c] = "idle" /\ carry'[c] = {} /\ copy'[c] = {}
        /\ OthersKept(c)
    BY <1>10, SaveEffect DEF Becomes
  <2>2. Lossless' => ~stale[c] /\ Lossless
    BY <1>10, SaveEffect DEF Lossless
  <2>3. Lossless' => (chat \union removed) \intersect Items \subseteq chat' \union removed'
    BY <2>1, <2>2, SavedIsKept
  <2>4. Lossless' => window' \intersect Items \subseteq chat' \union removed'
    BY <2>1, <2>2, <2>3 DEF Traced
  <2>5. ASSUME NEW d \in Threads \ {c}, Lossless'
        PROVE  copy'[d] \intersect Items \subseteq
                 chat' \union removed'
                   \union (IF phase'[d] = "saving" /\ d \in Importers THEN carry'[d] \union Pongs
                           ELSE IF d \in Senders THEN carry'[d] ELSE {})
    <3>1. copy[d] \intersect Items \subseteq
            ((chat \union removed) \intersect Items)
              \union (IF phase[d] = "saving" /\ d \in Importers THEN carry[d] \union Pongs
                      ELSE IF d \in Senders THEN carry[d] ELSE {})
      BY <2>2, <2>5 DEF Traced
    <3> QED
      BY <3>1, <2>1, <2>3, <2>5 DEF OthersKept
  <2>6. \A d \in Importers : phase'[d] = "saving" =>
          \A m \in carry'[d] : Twins(m) \intersect copy'[d] # {}
    BY <2>1, ThreadKinds DEF Traced, OthersKept
  <2>7. \A d \in Senders : phase'[d] = "saving" => carry'[d] \subseteq copy'[d]
    BY <2>1, ThreadKinds DEF Traced, OthersKept
  <2> QED
    BY <2>1, <2>4, <2>5, <2>6, <2>7 DEF Traced
<1>11. ASSUME NEW c \in Threads, Fail(c)
      PROVE  Traced'
  BY <1>11, ThreadKinds, FailEffect DEF OthersKept, FilesKept, Becomes, Traced, Lossless
<1>12. CASE Snapshot
  BY <1>12 DEF Snapshot, Traced, Lossless
<1>13. CASE Crash
  BY <1>13, ThreadKinds, CrashEffect DEF Becomes, Traced
<1>14. CASE UNCHANGED vars
  BY <1>14 DEF vars, Traced, Lossless
<1> QED
  BY <1>1, <1>2, <1>3, <1>4, <1>5, <1>6, <1>7, <1>8, <1>9, <1>10, <1>11, <1>12, <1>13, <1>14 DEF
     Next

\* A message stays accounted for when what is shown stays or is removed, and of
\* what a thread holds it or a copy of it is kept.
LEMMA StillAccounted ==
  ASSUME LossHasCause, Lossless, NEW m \in store, store \subseteq Items,
         (chat \union removed) \intersect Items \subseteq chat' \union removed',
         \A d \in Threads : \A x \in (carry[d] \union copy[d]) \intersect Items :
           Twins(x) \intersect (chat' \union removed' \union carry'[d] \union copy'[d]) # {}
  PROVE  (Shown(m) \/ Pending(m))'
<1>1. Shown(m) \/ Pending(m)
  BY DEF LossHasCause, Lossless
<1>2. CASE Shown(m)
  BY <1>2 DEF Shown, Twins
<1>3. CASE Pending(m)
  <2>1. PICK d \in Threads, x \in Twins(m) : x \in (carry[d] \union copy[d]) \intersect Items
    BY <1>3 DEF Pending, Twins
  <2>2. PICK y \in Twins(x) : y \in chat' \union removed' \union carry'[d] \union copy'[d]
    BY <2>1
  <2>3. y \in Twins(m)
    BY <2>1, <2>2 DEF Twins
  <2> QED
    BY <2>2, <2>3 DEF Shown, Pending
<1> QED
  BY <1>1, <1>2, <1>3

LEMMA OwnTwin == \A x \in Items : x \in Twins(x)
BY DEF Twins

LEMMA LossStep ==
  ASSUME TypeOK, Roles, Current, Traced, LossHasCause,
         [Next]_vars
  PROVE  LossHasCause'
<1>1. ASSUME NEW c \in Importers, NEW objects \in SUBSET Incoming \ {{}}, LookUp(c, objects)
      PROVE  LossHasCause'
  BY <1>1, ThreadKinds, LookUpEffect DEF LossHasCause, Shown, Pending
<1>2. ASSUME NEW c \in Importers, Insert(c)
      PROVE  LossHasCause'
  <2> SUFFICES ASSUME NEW m \in store', Lossless'
               PROVE  (Shown(m) \/ Pending(m))'
    BY DEF LossHasCause, Lossless
  <2>1. /\ c \in Threads /\ store' = store \union batch[c] /\ faults \subseteq faults'
        /\ batch[c] \subseteq Incoming
        /\ carry'[c] = carry[c] \union batch[c] /\ copy' = copy
        /\ OthersKept(c) /\ FilesKept
    BY <1>2, ThreadKinds, InsertEffect DEF Becomes
  <2>2. CASE m \in batch[c]
    <3>1. m \in Twins(m)
      BY <2>1, <2>2, MessageKinds, OwnTwin
    <3> QED
      BY <2>1, <2>2, <3>1 DEF Pending
  <2>3. CASE m \in store
    <3>1. Lossless /\ store \subseteq Items
      BY <2>1 DEF Lossless, TypeOK
    <3>2. \A d \in Threads : \A x \in (carry[d] \union copy[d]) \intersect Items :
            Twins(x) \intersect (chat' \union removed' \union carry'[d] \union copy'[d]) # {}
      BY <2>1, OwnTwin DEF OthersKept
    <3> QED
      BY <2>1, <2>3, <3>1, <3>2, StillAccounted DEF FilesKept
  <2> QED
    BY <2>1, <2>2, <2>3
<1>3. ASSUME NEW c \in Importers, LoadForMerge(c)
      PROVE  LossHasCause'
  BY <1>3, ThreadKinds, LoadForMergeEffect DEF OthersKept, FilesKept, Roles, LossHasCause,
     Shown, Pending
<1>4. ASSUME NEW c \in Importers, Merge(c)
      PROVE  LossHasCause'
  <2> SUFFICES ASSUME NEW m \in store', Lossless'
               PROVE  (Shown(m) \/ Pending(m))'
    BY DEF LossHasCause, Lossless
  <2>1. PICK new \in SUBSET carry[c], pong \in SUBSET Pongs : MergePushes(c, new, pong)
    BY <1>4, ThreadKinds, MergeEffect
  <2>2. /\ c \in Threads /\ phase[c] = "loaded" /\ store' = store \union pong
        /\ OthersKept(c) /\ FilesKept /\ Lossless
    BY <1>4, <2>1, ThreadKinds, MergeEffect DEF MergePushes, Lossless
  <2>3. copy[c] \intersect Items \subseteq chat \union removed
    BY <2>2, ThreadKinds DEF Traced
  <2>4. ASSUME NEW x \in (carry[c] \union copy[c]) \intersect Items
        PROVE  Twins(x) \intersect (chat' \union removed' \union carry'[c] \union copy'[c]) # {}
    <3>1. CASE x \in copy[c]
      BY <2>2, <2>3, <3>1, OwnTwin DEF FilesKept
    <3>2. CASE x \in carry[c] /\ new = {}
      <4>1. PICK y \in Twins(x) : y \in copy[c]
        BY <2>1, <3>2 DEF MergePushes
      <4> QED
        BY <2>2, <2>3, <4>1 DEF Twins, FilesKept
    <3>3. CASE x \in carry[c] /\ new # {}
      BY <2>1, <3>3, OwnTwin DEF MergePushes, Becomes
    <3> QED
      BY <3>1, <3>2, <3>3
  <2>5. \A d \in Threads : \A x \in (carry[d] \union copy[d]) \intersect Items :
          Twins(x) \intersect (chat' \union removed' \union carry'[d] \union copy'[d]) # {}
    BY <2>2, <2>4, OwnTwin DEF OthersKept
  <2>6. CASE m \in pong
    <3>1. m \in Twins(m) /\ m \in copy'[c]
      BY <2>1, <2>6, MessageKinds, OwnTwin DEF MergePushes, Becomes
    <3> QED
      BY <2>2, <3>1 DEF Pending
  <2>7. CASE m \in store
    BY <2>2, <2>5, <2>7, StillAccounted DEF FilesKept, TypeOK
  <2> QED
    BY <2>2, <2>6, <2>7
<1>5. ASSUME NEW c \in Senders, NEW m \in Outgoing, StartSend(c, m)
      PROVE  LossHasCause'
  BY <1>5, ThreadKinds, StartSendEffect DEF OthersKept, Becomes, Roles, LossHasCause, Shown, Pending
<1>6. ASSUME NEW c \in Senders, RecordOutgoing(c)
      PROVE  LossHasCause'
  <2> SUFFICES ASSUME NEW m \in store', Lossless'
               PROVE  (Shown(m) \/ Pending(m))'
    BY DEF LossHasCause, Lossless
  <2>1. /\ c \in Threads /\ store' = store \union carry[c] /\ carry[c] \subseteq Outgoing
        /\ UNCHANGED <<carry, copy, faults>> /\ FilesKept
    BY <1>6, ThreadKinds, RecordOutgoingEffect DEF Roles
  <2>2. CASE m \in carry[c]
    BY <2>1, <2>2, MessageKinds, OwnTwin DEF Pending
  <2>3. CASE m \in store
    <3>1. \A d \in Threads : \A x \in (carry[d] \union copy[d]) \intersect Items :
            Twins(x) \intersect (chat' \union removed' \union carry'[d] \union copy'[d]) # {}
      BY <2>1, OwnTwin
    <3> QED
      BY <2>1, <2>3, <3>1, StillAccounted DEF FilesKept, TypeOK, Lossless
  <2> QED
    BY <2>1, <2>2, <2>3
<1>7. ASSUME NEW c \in Senders, LoadForSend(c)
      PROVE  LossHasCause'
  BY <1>7, ThreadKinds, LoadForSendEffect DEF OthersKept, FilesKept, Becomes, Roles,
     LossHasCause, Shown, Pending
<1>8. ASSUME NEW c \in Keepers, LoadForHousekeeping(c)
      PROVE  LossHasCause'
  BY <1>8, ThreadKinds, LoadForHousekeepingEffect DEF OthersKept, FilesKept, Roles,
     LossHasCause, Shown, Pending
<1>9. ASSUME NEW c \in Savers, NEW gone \in SUBSET window, CallSaveChat(c, gone)
      PROVE  LossHasCause'
  BY <1>9, ThreadKinds, CallSaveChatEffect DEF OthersKept, FilesKept, Becomes, Roles,
     LossHasCause, Shown, Pending
<1>10. ASSUME NEW c \in Threads, Save(c)
      PROVE  LossHasCause'
  <2> SUFFICES ASSUME NEW m \in store', Lossless'
               PROVE  (Shown(m) \/ Pending(m))'
    BY DEF LossHasCause, Lossless
  <2>1. /\ phase[c] = "saving" /\ chat' = copy[c] /\ store' = store
        /\ removed' = IF c \in Savers THEN removed \union carry[c] ELSE removed
        /\ OthersKept(c)
    BY <1>10, SaveEffect
  <2>2. ~stale[c] /\ Lossless
    BY <1>10, SaveEffect DEF Lossless
  <2>3. (chat \union removed) \intersect Items \subseteq chat' \union removed'
    BY <2>1, <2>2, SavedIsKept
  <2>4. ASSUME NEW x \in (carry[c] \union copy[c]) \intersect Items
        PROVE  Twins(x) \intersect (chat' \union removed') # {}
    <3>1. CASE x \in copy[c]
      BY <2>1, <3>1, OwnTwin
    <3>2. CASE x \in carry[c] /\ c \in Importers
      BY <2>1, <3>2 DEF Traced
    <3>3. CASE x \in carry[c] /\ c \notin Importers
      BY <2>1, <3>3, OwnTwin DEF Traced, Roles, Threads
    <3> QED
      BY <3>1, <3>2, <3>3
  <2>5. \A d \in Threads : \A x \in (carry[d] \union copy[d]) \intersect Items :
          Twins(x) \intersect (chat' \union removed' \union carry'[d] \union copy'[d]) # {}
    BY <2>1, <2>4, OwnTwin DEF OthersKept
  <2> QED
    BY <2>1, <2>2, <2>3, <2>5, StillAccounted DEF TypeOK
<1>11. ASSUME NEW c \in Threads, Fail(c)
      PROVE  LossHasCause'
  <2> SUFFICES ASSUME NEW m \in store', Lossless'
               PROVE  (Shown(m) \/ Pending(m))'
    BY DEF LossHasCause, Lossless
  <2>1. /\ carry[c] = {} /\ store' = store /\ Lossless /\ OthersKept(c) /\ FilesKept
    BY <1>11, FailEffect DEF Lossless
  <2>2. copy[c] \intersect Items \subseteq chat \union removed
    BY <2>1 DEF Traced, Roles
  <2>3. \A d \in Threads : \A x \in (carry[d] \union copy[d]) \intersect Items :
          Twins(x) \intersect (chat' \union removed' \union carry'[d] \union copy'[d]) # {}
    BY <2>1, <2>2, OwnTwin DEF OthersKept, FilesKept
  <2> QED
    BY <2>1, <2>3, StillAccounted DEF FilesKept, TypeOK
<1>12. CASE Snapshot
  BY <1>12 DEF Snapshot, LossHasCause, Shown, Pending
<1>13. CASE Crash
  BY <1>13, ThreadKinds, CrashEffect, MessageKinds DEF Becomes, TypeOK, Roles, Current, Traced,
     Entries, Lossless, LossHasCause, Shown, Pending
<1>14. CASE UNCHANGED vars
  BY <1>14 DEF vars, LossHasCause, Shown, Pending
<1> QED
  BY <1>1, <1>2, <1>3, <1>4, <1>5, <1>6, <1>7, <1>8, <1>9, <1>10, <1>11, <1>12, <1>13, <1>14 DEF
     Next

LEMMA ReturnStep ==
  ASSUME TypeOK, Roles, Current, ReturnHasCause,
         [Next]_vars
  PROVE  ReturnHasCause'
<1>1. ASSUME NEW c \in Importers, NEW objects \in SUBSET Incoming \ {{}}, LookUp(c, objects)
      PROVE  ReturnHasCause'
  BY <1>1, ThreadKinds, LookUpEffect DEF OthersKept, Becomes, ReturnHasCause
<1>2. ASSUME NEW c \in Importers, Insert(c)
      PROVE  ReturnHasCause'
  BY <1>2, ThreadKinds, InsertEffect DEF OthersKept, FilesKept, Becomes, ReturnHasCause
<1>3. ASSUME NEW c \in Importers, LoadForMerge(c)
      PROVE  ReturnHasCause'
  BY <1>3, ThreadKinds, LoadForMergeEffect DEF FilesKept, ReturnHasCause
<1>4. ASSUME NEW c \in Importers, Merge(c)
      PROVE  ReturnHasCause'
  <2>1. PICK new \in SUBSET carry[c], pong \in SUBSET Pongs : MergePushes(c, new, pong)
    BY <1>4, ThreadKinds, MergeEffect
  <2> QED
    BY <1>4, ThreadKinds, MergeEffect DEF FilesKept, ReturnHasCause
<1>5. ASSUME NEW c \in Senders, NEW m \in Outgoing, StartSend(c, m)
      PROVE  ReturnHasCause'
  BY <1>5, ThreadKinds, StartSendEffect DEF OthersKept, Becomes, ReturnHasCause
<1>6. ASSUME NEW c \in Senders, RecordOutgoing(c)
      PROVE  ReturnHasCause'
  BY <1>6, ThreadKinds, RecordOutgoingEffect DEF OthersKept, FilesKept, Becomes, ReturnHasCause
<1>7. ASSUME NEW c \in Senders, LoadForSend(c)
      PROVE  ReturnHasCause'
  BY <1>7, ThreadKinds, LoadForSendEffect DEF FilesKept, Becomes, ReturnHasCause
<1>8. ASSUME NEW c \in Keepers, LoadForHousekeeping(c)
      PROVE  ReturnHasCause'
  BY <1>8, ThreadKinds, LoadForHousekeepingEffect DEF FilesKept, ReturnHasCause
<1>9. ASSUME NEW c \in Savers, NEW gone \in SUBSET window, CallSaveChat(c, gone)
      PROVE  ReturnHasCause'
  BY <1>9, ThreadKinds, CallSaveChatEffect DEF FilesKept, Becomes, ReturnHasCause
<1>10. ASSUME NEW c \in Threads, Save(c)
      PROVE  ReturnHasCause'
  <2> SUFFICES ASSUME Calm'
               PROVE  removed' \intersect chat' \intersect Items = {}
    BY DEF ReturnHasCause, Calm, Upsets
  <2>1. /\ phase[c] = "saving" /\ chat' = copy[c] /\ faults \subseteq faults' /\ ~stale[c]
        /\ removed' = IF c \in Savers THEN removed \union carry[c] ELSE removed
    BY <1>10, SaveEffect DEF Calm, Upsets
  <2>2. Calm /\ removed \intersect chat \intersect Items = {}
    BY <2>1 DEF ReturnHasCause, Calm, Upsets
  <2>3. CASE c \in Importers \union Senders
    BY <2>1, <2>2, <2>3, ThreadKinds DEF Current
  <2>4. CASE c \in Savers
    BY <2>1, <2>2, <2>4, ThreadKinds DEF Current
  <2>5. CASE c \in Keepers
    BY <2>1, <2>2, <2>5, ThreadKinds DEF Current
  <2> QED
    BY <2>3, <2>4, <2>5 DEF Threads
<1>11. ASSUME NEW c \in Threads, Fail(c)
      PROVE  ReturnHasCause'
  BY <1>11, FailEffect DEF FilesKept, ReturnHasCause
<1>12. CASE Snapshot
  BY <1>12 DEF Snapshot, ReturnHasCause
<1>13. CASE Crash
  BY <1>13, ThreadKinds, CrashEffect DEF Becomes, ReturnHasCause
<1>14. CASE UNCHANGED vars
  BY <1>14 DEF vars, ReturnHasCause
<1> QED
  BY <1>1, <1>2, <1>3, <1>4, <1>5, <1>6, <1>7, <1>8, <1>9, <1>10, <1>11, <1>12, <1>13, <1>14 DEF
     Next

IInv ==
  /\ TypeOK
  /\ Roles
  /\ AllStored
  /\ OneOfEach
  /\ Fresh
  /\ Current
  /\ Traced
  /\ LossHasCause
  /\ ReturnHasCause

LEMMA InitInv == Init => IInv
<1> SUFFICES ASSUME Init PROVE IInv
  OBVIOUS
<1>1. TypeOK
  BY TypeInit
<1>2. Roles /\ AllStored /\ OneOfEach
  BY ThreadKinds DEF Init, Roles, AllStored, OneOfEach, OneBody
<1>3. Fresh /\ Current /\ Traced
  BY ThreadKinds DEF Init, Fresh, Current, Traced
<1>4. LossHasCause /\ ReturnHasCause
  BY DEF Init, LossHasCause, ReturnHasCause
<1> QED
  BY <1>1, <1>2, <1>3, <1>4 DEF IInv

LEMMA StepInv == IInv /\ [Next]_vars => IInv'
<1> SUFFICES ASSUME IInv, [Next]_vars PROVE IInv'
  OBVIOUS
<1> USE DEF IInv
<1>1. TypeOK' /\ Roles'
  BY TypeStep, RolesStep
<1>2. AllStored' /\ Fresh' /\ OneOfEach'
  BY AllStoredStep, FreshStep, OneOfEachStep
<1>3. Current' /\ Traced'
  BY CurrentStep, TracedStep
<1>4. LossHasCause' /\ ReturnHasCause'
  BY LossStep, ReturnStep
<1> QED
  BY <1>1, <1>2, <1>3, <1>4

\* The invariant the other theorems rest on.
THEOREM Invariant == Spec => []IInv
<1> QED
  BY InitInv, StepInv, PTL DEF Spec

\* The state has its type in every behaviour.
THEOREM TypeCorrect == Spec => []TypeOK
<1>1. IInv => TypeOK
  BY DEF IInv
<1> QED
  BY <1>1, Invariant, PTL

\* Every message the chat file shows is in the store, whichever thread wrote the
\* file last and wherever a crash or an error fell.
THEOREM ShownWasAccepted == Spec => []ShownWasStored
<1>1. IInv => ShownWasStored
  BY DEF IInv, AllStored, ShownWasStored
<1> QED
  BY <1>1, Invariant, PTL

\* No body is shown twice, over any number of copies of it, of importers and of
\* saves from stale copies.
THEOREM BodiesShowOnce == Spec => []OneCopyPerBody
<1>1. IInv => OneCopyPerBody
  BY DEF IInv, OneOfEach, OneBody, OneCopyPerBody
<1> QED
  BY <1>1, Invariant, PTL

\* A message of the store that neither shows nor is on its way was removed, or
\* lost to an error, a crash or a save from a stale copy: there is no other way.
THEOREM LossesHaveCauses == Spec => []LossHasCause
<1>1. IInv => LossHasCause
  BY DEF IInv
<1> QED
  BY <1>1, Invariant, PTL

\* A removed message comes back only after a save from a stale copy, or when two
\* imports both reported it as new.
THEOREM ReturnsHaveCauses == Spec => []ReturnHasCause
<1>1. IInv => ReturnHasCause
  BY DEF IInv
<1> QED
  BY <1>1, Invariant, PTL

LEMMA InitRefines == Init => Inbox!Init
BY DEF Init, Inbox!Init, Upsets

\* What a save overwrites when its copy is stale, or after an upset.
LEMMA SaveOverwrites ==
  ASSUME IInv, NEW c \in Threads, Save(c), stale[c] \/ ~Calm
  PROVE  Inbox!Next
<1> DEFINE gone == IF c \in Savers THEN carry[c] \intersect Items ELSE {}
<1>1. /\ phase[c] = "saving" /\ chat' = copy[c] /\ store' = store /\ faults \subseteq faults'
      /\ removed' = IF c \in Savers THEN removed \union carry[c] ELSE removed
      /\ stale[c] => "overlap" \in faults'
  BY SaveEffect DEF IInv
<1>2. faults' \intersect Upsets # {}
  BY <1>1 DEF Calm, Upsets
<1>3. Inbox!Showable(copy[c] \intersect Items)
  BY DEF IInv, AllStored, OneOfEach, OneBody, Inbox!Showable
<1>4. gone \subseteq store
  BY <1>1 DEF IInv, AllStored
<1>5. Inbox!Overwrite(copy[c] \intersect Items, gone)
  BY <1>1, <1>2, <1>3, <1>4 DEF Inbox!Overwrite
<1>6. copy[c] \intersect Items \in SUBSET Items /\ gone \in SUBSET Items
  OBVIOUS
<1> QED
  BY <1>5, <1>6 DEF Inbox!Next

\* A save from a copy that is not stale shows what the thread set out to show, or
\* removes what the user chose.
LEMMA SaveShowsOrRemoves ==
  ASSUME IInv, NEW c \in Threads, Save(c), ~stale[c], Calm
  PROVE  Inbox!Next \/ UNCHANGED Inbox!vars
<1>1. /\ phase[c] = "saving" /\ chat' = copy[c] /\ store' = store /\ faults' = faults
      /\ removed' = IF c \in Savers THEN removed \union carry[c] ELSE removed
  BY SaveEffect DEF IInv
<1>2. CASE c \in Importers \union Senders
  <2> DEFINE new == (copy[c] \ chat) \intersect Items
  <2>1. removed' = removed
    BY <1>1, <1>2, ThreadKinds
  <2>2. chat \intersect Items \subseteq copy[c] /\ copy[c] \intersect removed \intersect Items \subseteq chat
    BY <1>1, <1>2 DEF IInv, Current
  <2>3. (chat \intersect Items) \union new = copy[c] \intersect Items
    BY <2>2
  <2>4. Inbox!Showable((chat \intersect Items) \union new)
    BY <2>3 DEF IInv, AllStored, OneOfEach, OneBody, Inbox!Showable
  <2>5. new \intersect (removed \intersect Items) = {}
    BY <2>2
  <2>6. Inbox!Show(new)
    BY <1>1, <2>1, <2>3, <2>4, <2>5 DEF Inbox!Show
  <2>7. new \in SUBSET Items
    OBVIOUS
  <2> QED
    BY <2>6, <2>7 DEF Inbox!Next
<1>3. CASE c \in Savers
  <2>1. /\ copy[c] \intersect Items = (chat \intersect Items) \ carry[c]
        /\ carry[c] \intersect Items \subseteq chat
    BY <1>1, <1>3 DEF IInv, Current
  <2>2. Inbox!Remove(carry[c] \intersect Items)
    BY <1>1, <1>3, <2>1 DEF Inbox!Remove
  <2>3. carry[c] \intersect Items \in SUBSET Items
    OBVIOUS
  <2> QED
    BY <2>2, <2>3 DEF Inbox!Next
<1>4. CASE c \in Keepers
  <2>1. copy[c] = chat /\ removed' = removed
    BY <1>1, <1>4, ThreadKinds DEF IInv, Current
  <2> QED
    BY <1>1, <2>1 DEF Inbox!vars
<1> QED
  BY <1>2, <1>3, <1>4 DEF Threads

LEMMA StepRefines ==
  ASSUME IInv,
         [Next]_vars
  PROVE  Inbox!Next \/ UNCHANGED Inbox!vars
<1>1. ASSUME NEW c \in Importers, NEW objects \in SUBSET Incoming \ {{}}, LookUp(c, objects)
      PROVE  Inbox!Next \/ UNCHANGED Inbox!vars
  BY <1>1 DEF LookUp, Inbox!vars
<1>2. ASSUME NEW c \in Importers, Insert(c)
      PROVE  Inbox!Next \/ UNCHANGED Inbox!vars
  <2>1. batch[c] \in SUBSET Items
    BY <1>2, ThreadKinds, MessageKinds DEF IInv, TypeOK
  <2>2. Inbox!Accept(batch[c])
    BY <1>2 DEF Insert, Note, Inbox!Accept, Upsets
  <2> QED
    BY <2>1, <2>2 DEF Inbox!Next
<1>3. ASSUME NEW c \in Importers, LoadForMerge(c)
      PROVE  Inbox!Next \/ UNCHANGED Inbox!vars
  BY <1>3 DEF LoadForMerge, Inbox!vars
<1>4. ASSUME NEW c \in Importers, Merge(c)
      PROVE  Inbox!Next \/ UNCHANGED Inbox!vars
  <2>1. PICK new \in SUBSET carry[c], pong \in SUBSET Pongs : MergePushes(c, new, pong)
    BY <1>4, ThreadKinds, MergeEffect DEF IInv
  <2>2. pong \in SUBSET Items
    BY MessageKinds
  <2>3. Inbox!Accept(pong)
    BY <1>4, <2>1 DEF Merge, MergePushes, Inbox!Accept
  <2> QED
    BY <2>2, <2>3 DEF Inbox!Next
<1>5. ASSUME NEW c \in Senders, NEW m \in Outgoing, StartSend(c, m)
      PROVE  Inbox!Next \/ UNCHANGED Inbox!vars
  BY <1>5 DEF StartSend, Inbox!vars
<1>6. ASSUME NEW c \in Senders, RecordOutgoing(c)
      PROVE  Inbox!Next \/ UNCHANGED Inbox!vars
  <2>1. carry[c] \in SUBSET Items
    BY <1>6, MessageKinds DEF IInv, Roles
  <2>2. carry[c] \intersect store = {}
    BY <1>6, ThreadKinds DEF RecordOutgoing, IInv, AllStored
  <2>3. Inbox!Accept(carry[c])
    BY <1>6, <2>2 DEF RecordOutgoing, Inbox!Accept
  <2> QED
    BY <2>1, <2>3 DEF Inbox!Next
<1>7. ASSUME NEW c \in Senders, LoadForSend(c)
      PROVE  Inbox!Next \/ UNCHANGED Inbox!vars
  BY <1>7 DEF LoadForSend, Inbox!vars
<1>8. ASSUME NEW c \in Keepers, LoadForHousekeeping(c)
      PROVE  Inbox!Next \/ UNCHANGED Inbox!vars
  BY <1>8 DEF LoadForHousekeeping, Inbox!vars
<1>9. ASSUME NEW c \in Savers, NEW gone \in SUBSET window, CallSaveChat(c, gone)
      PROVE  Inbox!Next \/ UNCHANGED Inbox!vars
  BY <1>9 DEF CallSaveChat, Inbox!vars
<1>10. ASSUME NEW c \in Threads, Save(c)
      PROVE  Inbox!Next \/ UNCHANGED Inbox!vars
  BY <1>10, SaveOverwrites, SaveShowsOrRemoves
<1>11. ASSUME NEW c \in Threads, Fail(c)
      PROVE  Inbox!Next \/ UNCHANGED Inbox!vars
  BY <1>11 DEF Fail, Inbox!vars, Note, Upsets
<1>12. CASE Snapshot
  BY <1>12 DEF Snapshot, Inbox!vars
<1>13. CASE Crash
  BY <1>13 DEF Crash, Inbox!vars, Upsets
<1>14. CASE UNCHANGED vars
  BY <1>14 DEF vars, Inbox!vars
<1> QED
  BY <1>1, <1>2, <1>3, <1>4, <1>5, <1>6, <1>7, <1>8, <1>9, <1>10, <1>11, <1>12, <1>13, <1>14 DEF
     Next

\* Every step of any number of threads is a step of the simple inbox or leaves
\* it alone.
THEOREM ImplementsInbox == Spec => Refines
<1>1. Init => Inbox!Init
  BY InitRefines
<1>2. IInv /\ [Next]_vars => [Inbox!Next]_(Inbox!vars)
  BY StepRefines
<1> QED
  BY <1>1, <1>2, Invariant, PTL DEF Spec, Refines, Inbox!Spec
====
