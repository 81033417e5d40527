---- MODULE MediaTransfer ----
(***************************************************************************)
(* The receiving side of media transfers, media_v1.rs: a manifest and the  *)
(* chunks of an object come in any order and number on several bearers,    *)
(* chunks are kept as files, the object is assembled when all are there,   *)
(* and the chat shows how far it is.                                       *)
(*                                                                         *)
(* Everything is files, and nothing locks them: a handler reads state.json *)
(* into `copy`, looks at the chunk files, and writes the whole of state.json *)
(* back.  The threads are the gossip worker (frames, the pulse), the relay *)
(* worker and the commands of the window (housekeeping); each works on one *)
(* transfer at a time.  A step of a thread is what happens between two     *)
(* points at which another thread or a crash can make a difference.        *)
(*                                                                         *)
(* The chunk messages are honest about their own bytes or recognisably     *)
(* damaged.  A chunk has the size 1, and 0 while its file is empty.        *)
(***************************************************************************)
EXTENDS Integers, FiniteSets

CONSTANTS
  Threads,     \* threads that handle media messages or keep house
  Transfers,   \* transfer ids, each with its one manifest
  Objects,     \* digests of objects
  Indices,     \* chunk indices
  Object,      \* the digest a transfer's manifest names
  Chunks,      \* the chunks of a transfer
  Forged,      \* transfers whose chunks do not add up to the object named
  Damaged,     \* pairs of a transfer and a chunk of which damaged copies come
  MaxStrikes,  \* CORRUPT_CHUNK_ABORT_STRIKES
  Quota,       \* the smaller of SPOOL_PER_PEER_ and SPOOL_GLOBAL_PARTIAL_BYTES
  MaxCrashes,  \* bound on the stops of the process
  NoState,     \* there is no state.json
  NoJob        \* a thread that works on nothing

State == [failed : BOOLEAN, done : BOOLEAN, strikes : [Indices -> Nat], received : Nat]
Kinds == {"chunk", "ingested", "manifest", "pulse", "sweep", "settle"}
Job == [kind : Kinds, t : Transfers, c : Indices \cup {NoState}, damaged : BOOLEAN]

ASSUME MediaConstants ==
  /\ Object \in [Transfers -> Objects]
  /\ Chunks \in [Transfers -> SUBSET Indices]
  /\ \A t \in Transfers : Chunks[t] # {}
  /\ IsFiniteSet(Transfers) /\ IsFiniteSet(Indices)
  /\ Forged \subseteq Transfers
  /\ Damaged \subseteq Transfers \X Indices
  /\ MaxStrikes \in Nat \ {0}
  /\ Quota \in Nat
  /\ MaxCrashes \in Nat
  /\ NoState \notin State
  /\ NoJob \notin Job

VARIABLES
  expired,    \* transfers whose expires_at_unix_ms has passed
  state,      \* state.json: IncomingTransferState, or NoState
  full,       \* the chunks whose file is complete
  empty,      \* the chunks whose file has been created and not been filled
  lock,       \* transfers with an .active.lock file
  usage,      \* the spool usage cache
  store,      \* the complete store: none, whole or spoilt bytes under a digest
  chat,       \* the status the chat shows
  pc,         \* where each thread is
  job,        \* what it works on
  copy,       \* the IncomingTransferState it holds in memory
  assembled,  \* objects that have been in the store (history)
  contended,  \* transfers two threads have worked on at once (history)
  torn,       \* transfers with a chunk file a crash left unfinished (history)
  crashes     \* number of stops of the process

disk == <<state, full, empty, lock, usage, store>>
threads == <<pc, job, copy>>
history == <<assembled, contended, torn>>
vars == <<expired, disk, chat, threads, history, crashes>>

Fresh(t) == [failed |-> FALSE, done |-> FALSE, strikes |-> [c \in Indices |-> 0],
             received |-> 0]

Init ==
  /\ expired = {} /\ lock = {} /\ assembled = {} /\ contended = {} /\ torn = {}
  /\ state = [t \in Transfers |-> NoState]
  /\ full = [t \in Transfers |-> {}] /\ empty = [t \in Transfers |-> {}]
  /\ usage = 0 /\ crashes = 0
  /\ store = [o \in Objects |-> "none"]
  /\ chat = [t \in Transfers |-> "none"]
  /\ pc = [a \in Threads |-> "idle"]
  /\ job = [a \in Threads |-> NoJob]
  /\ copy = [a \in Threads |-> NoState]

-----------------------------------------------------------------------------
(* Helpers. *)

Terminal(s) == s.failed \/ s.done
Status(s) == IF s.failed THEN "failed" ELSE IF s.done THEN "complete" ELSE "receiving"

Complete(t) == full[t] = Chunks[t]
Count(t) == Cardinality(Chunks[t])

Less(m, n) == IF n > m THEN 0 ELSE m - n

\* dir_size_bytes finds nothing in a directory of empty files, and leaves it.
RemoveChunks(t) ==
  IF full[t] = {}
  THEN UNCHANGED <<full, empty, usage>>
  ELSE /\ full' = [full EXCEPT ![t] = {}]
       /\ empty' = [empty EXCEPT ![t] = {}]
       /\ usage' = Less(usage, Cardinality(full[t]))

Persist(t, s) == state' = [state EXCEPT ![t] = s]
Show(t, status) == chat' = [chat EXCEPT ![t] = status]
\* A transfer without a message in the chat is not shown.
ShowIfListed(t, status) == IF chat[t] = "none" THEN UNCHANGED chat ELSE Show(t, status)

Failing(s) == [s EXCEPT !.failed = TRUE, !.received = 0]

\* mark_transfer_failed: with a state.json of its own reading.
MarkFailed(t) ==
  IF state[t] # NoState /\ ~Terminal(state[t])
  THEN RemoveChunks(t) /\ Persist(t, Failing(state[t]))
  ELSE UNCHANGED <<state, full, empty, usage>>

At(a, p) == pc[a] = p
Hold(a, p, s) == pc' = [pc EXCEPT ![a] = p] /\ copy' = [copy EXCEPT ![a] = s]
Rest(a) == Hold(a, "idle", NoState) /\ job' = [job EXCEPT ![a] = NoJob]

Busy(a, t) == pc[a] # "idle" /\ job[a].t = t
Enter(a, t) ==
  /\ At(a, "idle")
  /\ contended' = IF \E b \in Threads \ {a} : Busy(b, t) THEN contended \cup {t} ELSE contended

\* A thread has read state.json and goes on to recover_transfer_progress_from_disk.
Begin(a, kind, t, c, damaged) ==
  /\ Enter(a, t)
  /\ state[t] # NoState
  /\ job' = [job EXCEPT ![a] = [kind |-> kind, t |-> t, c |-> c, damaged |-> damaged]]
  /\ Hold(a, "recover", state[t])
  /\ UNCHANGED <<expired, disk, chat, assembled, torn, crashes>>

AfterRecovery(kind) ==
  CASE kind = "chunk" -> "ingest"
    [] kind = "ingested" -> "report"
    [] kind = "manifest" -> "update"
    [] kind = "pulse" -> "request"
    [] kind = "sweep" -> "expire"
    [] kind = "settle" -> "show"

-----------------------------------------------------------------------------
(* recover_transfer_progress_from_disk and finalize_completed_transfer.    *)

Recovering(a) == At(a, "recover")
Resume(a) == AfterRecovery(job[a].kind)

\* The object is in the complete store, from this transfer or another.
RecoverFromStore(a) ==
  LET t == job[a].t
      s == [copy[a] EXCEPT !.done = TRUE, !.received = Count(t)]
  IN  /\ Recovering(a)
      /\ ~copy[a].done /\ store[Object[t]] # "none"
      /\ Persist(t, s)
      /\ Hold(a, Resume(a), s)
      /\ UNCHANGED <<expired, full, empty, lock, usage, store, chat, job, history, crashes>>

\* What is on disk is counted; state.json is written when the count was another.
Counted(a, n) ==
  LET s == [copy[a] EXCEPT !.received = n]
  IN  /\ IF copy[a] = s THEN UNCHANGED state ELSE Persist(job[a].t, s)
      /\ Hold(a, Resume(a), s)
      /\ UNCHANGED <<expired, full, empty, lock, usage, store, chat, job, history, crashes>>

RecoverDone(a) == Recovering(a) /\ copy[a].done /\ Counted(a, Count(job[a].t))

NotDone(a) == Recovering(a) /\ ~copy[a].done /\ store[Object[job[a].t]] = "none"

\* Gives a transfer up: the chunks go, and the failure is written.
GiveUp(a) ==
  LET t == job[a].t
  IN  /\ RemoveChunks(t)
      /\ Persist(t, Failing(copy[a]))
      /\ Hold(a, Resume(a), Failing(copy[a]))
      /\ UNCHANGED <<expired, store, chat, job, history, crashes>>

\* Mutant: a count that differs from state.json is taken for damage.
RecoverTorn_Miscount(a) ==
  /\ NotDone(a)
  /\ empty[job[a].t] # {} \/ Cardinality(full[job[a].t]) # copy[a].received
  /\ GiveUp(a)
  /\ UNCHANGED lock

\* chunk_expected_length_mismatch
RecoverTorn(a) ==
  /\ NotDone(a) /\ empty[job[a].t] # {}
  /\ GiveUp(a)
  /\ UNCHANGED lock

Assemblable(a) == Complete(job[a].t) /\ ~copy[a].failed

RecoverCount(a) ==
  /\ NotDone(a) /\ empty[job[a].t] = {}
  /\ ~Assemblable(a)
  /\ Counted(a, Cardinality(full[job[a].t]))

\* Mutant: state.json is written before the object is in the store.
StartFinalize_MarksDone(a) ==
  LET t == job[a].t
  IN  /\ NotDone(a) /\ empty[t] = {}
      /\ Assemblable(a)
      /\ lock' = lock \cup {t}
      /\ Persist(t, [copy[a] EXCEPT !.done = TRUE, !.received = Count(t)])
      /\ Hold(a, "assemble", [copy[a] EXCEPT !.received = Count(t)])
      /\ UNCHANGED <<expired, full, empty, usage, store, chat, job, history, crashes>>

\* All chunks are there: ActiveTransferLock::acquire, which excludes nobody.
StartFinalize(a) ==
  LET t == job[a].t
  IN  /\ NotDone(a) /\ empty[t] = {}
      /\ Assemblable(a)
      /\ lock' = lock \cup {t}
      /\ Hold(a, "assemble", [copy[a] EXCEPT !.received = Count(t)])
      /\ UNCHANGED <<expired, state, full, empty, usage, store, chat, job, history, crashes>>

\* Mutant: the digest of the assembled object is not compared.
HashMatches_Unchecked(t) == TRUE

HashMatches(t) == t \notin Forged

\* The chunks are read into a temporary file and its digest is compared.
Assemble(a) ==
  LET t == job[a].t
  IN  /\ At(a, "assemble")
      /\ Complete(t) /\ HashMatches(t)
      /\ Hold(a, "publish", copy[a])
      /\ UNCHANGED <<expired, disk, chat, job, history, crashes>>

\* missing_chunk_at_finalize, chunk_expected_length_mismatch, object_hash_mismatch
FinalizeFails(a) ==
  LET t == job[a].t
  IN  /\ At(a, "assemble")
      /\ ~Complete(t) \/ ~HashMatches(t)
      /\ lock' = lock \ {t}
      /\ GiveUp(a)

\* The rename into the complete store, and the .json beside it.
Publish(a) ==
  LET t == job[a].t
  IN  /\ At(a, "publish")
      /\ store' = [store EXCEPT ![Object[t]] = IF t \in Forged THEN "spoilt" ELSE "whole"]
      /\ assembled' = assembled \cup {Object[t]}
      /\ Hold(a, "finish", copy[a])
      /\ UNCHANGED <<expired, state, full, empty, lock, usage, chat, job, contended, torn, crashes>>

Finish(a) ==
  LET t == job[a].t
      s == [copy[a] EXCEPT !.done = TRUE, !.received = Count(t)]
  IN  /\ At(a, "finish")
      /\ RemoveChunks(t)
      /\ lock' = lock \ {t}
      /\ Persist(t, s)
      /\ Hold(a, Resume(a), s)
      /\ UNCHANGED <<expired, store, chat, job, history, crashes>>

Recover(a) ==
  \/ RecoverFromStore(a) \/ RecoverDone(a) \/ RecoverTorn(a) \/ RecoverCount(a)
  \/ StartFinalize(a) \/ Assemble(a) \/ FinalizeFails(a) \/ Publish(a) \/ Finish(a)

-----------------------------------------------------------------------------
(* process_incoming_media_message: a chunk.                                *)

ReceiveChunk(a, t, c, damaged) ==
  t \notin expired /\ Begin(a, "chunk", t, c, damaged)

\* chunk_expired
ReceiveLateChunk(a, t) ==
  /\ Enter(a, t)
  /\ t \in expired
  /\ MarkFailed(t)
  /\ ShowIfListed(t, "failed")
  /\ UNCHANGED <<expired, lock, store, threads, assembled, torn, crashes>>

Ingesting(a) == At(a, "ingest") /\ ~Terminal(copy[a])

\* The handler returns: nothing to do, or the quota is an error.
IgnoreChunk(a) ==
  /\ At(a, "ingest")
  /\ \/ Terminal(copy[a])
     \/ job[a].t \notin expired /\ ~job[a].damaged /\ usage + 1 > Quota
  /\ Rest(a)
  /\ UNCHANGED <<expired, disk, chat, history, crashes>>

\* expired_transfer: the chunks stay.
ExpireAtChunk(a) ==
  LET t == job[a].t
  IN  /\ Ingesting(a) /\ t \in expired
      /\ Persist(t, [copy[a] EXCEPT !.failed = TRUE])
      /\ ShowIfListed(t, "failed")
      /\ Rest(a)
      /\ UNCHANGED <<expired, full, empty, lock, usage, store, history, crashes>>

Struck(a) == [copy[a] EXCEPT !.strikes[job[a].c] = @ + 1]

\* strike_or_abort_corrupt_chunk
Strike(a) ==
  LET t == job[a].t
      c == job[a].c
  IN  /\ Ingesting(a) /\ t \notin expired /\ job[a].damaged
      /\ IF Struck(a).strikes[c] >= MaxStrikes
         THEN /\ RemoveChunks(t)
              /\ Persist(t, Failing(Struck(a)))
              /\ ShowIfListed(t, "failed")
         ELSE /\ Persist(t, Struck(a))
              /\ UNCHANGED <<full, empty, usage, chat>>
      /\ Rest(a)
      /\ UNCHANGED <<expired, lock, store, history, crashes>>

Accepting(a) ==
  /\ Ingesting(a) /\ job[a].t \notin expired /\ ~job[a].damaged
  /\ usage + 1 <= Quota

\* write_chunk_file creates the file, then fills it.
CreateChunk(a) ==
  LET t == job[a].t
  IN  /\ Accepting(a) /\ job[a].c \notin full[t] \cup empty[t]
      /\ empty' = [empty EXCEPT ![t] = @ \cup {job[a].c}]
      /\ Hold(a, "write", copy[a])
      /\ UNCHANGED <<expired, state, full, lock, usage, store, chat, job, history, crashes>>

Again(a) == job' = [job EXCEPT ![a].kind = "ingested"]

\* The file that was created may have been removed with its directory.
WriteChunk(a) ==
  LET t == job[a].t
      c == job[a].c
  IN  /\ At(a, "write")
      /\ full' = IF c \in empty[t] THEN [full EXCEPT ![t] = @ \cup {c}] ELSE full
      /\ empty' = [empty EXCEPT ![t] = @ \ {c}]
      /\ Hold(a, "account", copy[a])
      /\ UNCHANGED <<expired, state, lock, usage, store, chat, job, history, crashes>>

\* apply_spool_usage_increase and the chunk's count in state.json.
CountChunk(a) ==
  LET t == job[a].t
      s == [copy[a] EXCEPT !.received = @ + 1]
  IN  /\ At(a, "account")
      /\ usage' = usage + 1
      /\ Persist(t, s)
      /\ Again(a)
      /\ Hold(a, "recover", s)
      /\ UNCHANGED <<expired, full, empty, lock, store, chat, history, crashes>>

DuplicateChunk(a) ==
  LET t == job[a].t
  IN  /\ Accepting(a) /\ job[a].c \in full[t] \cup empty[t]
      /\ Persist(t, copy[a])
      /\ Again(a)
      /\ Hold(a, "recover", copy[a])
      /\ UNCHANGED <<expired, full, empty, lock, usage, store, chat, history, crashes>>

Report(a) ==
  /\ At(a, "report")
  /\ ShowIfListed(job[a].t, Status(copy[a]))
  /\ Hold(a, "request", copy[a])
  /\ UNCHANGED <<expired, disk, job, history, crashes>>

Chunk(a) ==
  \/ \E t \in Transfers :
       \/ \E c \in Chunks[t] : ReceiveChunk(a, t, c, FALSE)
       \/ \E c \in Chunks[t] : <<t, c>> \in Damaged /\ ReceiveChunk(a, t, c, TRUE)
       \/ ReceiveLateChunk(a, t)
  \/ IgnoreChunk(a) \/ ExpireAtChunk(a) \/ Strike(a)
  \/ CreateChunk(a) \/ WriteChunk(a) \/ CountChunk(a) \/ DuplicateChunk(a) \/ Report(a)

-----------------------------------------------------------------------------
(* process_incoming_media_message: a manifest.                             *)

\* Mutant: a manifest starts its transfer anew.
NewManifest_Restarts(a, t) ==
  /\ Enter(a, t)
  /\ t \notin expired
  /\ Persist(t, Fresh(t))
  /\ Show(t, "receiving")
  /\ job' = [job EXCEPT ![a] = [kind |-> "manifest", t |-> t, c |-> NoState, damaged |-> FALSE]]
  /\ Hold(a, "request", Fresh(t))
  /\ UNCHANGED <<expired, full, empty, lock, usage, store, assembled, torn, crashes>>

\* An unknown transfer.
NewManifest(a, t) ==
  /\ Enter(a, t)
  /\ state[t] = NoState /\ t \notin expired
  /\ Persist(t, Fresh(t))
  /\ Show(t, "receiving")
  /\ job' = [job EXCEPT ![a] = [kind |-> "manifest", t |-> t, c |-> NoState, damaged |-> FALSE]]
  /\ Hold(a, "request", Fresh(t))
  /\ UNCHANGED <<expired, full, empty, lock, usage, store, assembled, torn, crashes>>

\* expired_manifest
LateManifest(a, t) ==
  /\ Enter(a, t)
  /\ state[t] = NoState /\ t \in expired
  /\ Show(t, "failed")
  /\ UNCHANGED <<expired, disk, threads, assembled, torn, crashes>>

\* A known one: the handler goes on after the recovery.
UpdateManifest(a) ==
  LET t == job[a].t
  IN  /\ At(a, "update")
      /\ Show(t, Status(copy[a]))
      /\ IF Terminal(copy[a])
         THEN Rest(a) /\ UNCHANGED state
         ELSE Persist(t, copy[a]) /\ Hold(a, "request", copy[a]) /\ UNCHANGED job
      /\ UNCHANGED <<expired, full, empty, lock, usage, store, history, crashes>>

\* send_missing_request_if_due, which notes the time in state.json.
SendRequest(a) ==
  LET t == job[a].t
  IN  /\ At(a, "request")
      /\ ~Terminal(copy[a]) /\ t \notin expired
      /\ full[t] \cup empty[t] # Chunks[t]
      /\ Persist(t, copy[a])
      /\ Rest(a)
      /\ UNCHANGED <<expired, full, empty, lock, usage, store, chat, history, crashes>>

\* Nothing to request, too early, or over a limit.
SkipRequest(a) ==
  /\ At(a, "request")
  /\ Rest(a)
  /\ UNCHANGED <<expired, disk, chat, history, crashes>>

Manifest(a) ==
  \/ \E t \in Transfers :
       NewManifest(a, t) \/ LateManifest(a, t) \/ Begin(a, "manifest", t, NoState, FALSE)
  \/ UpdateManifest(a) \/ SendRequest(a) \/ SkipRequest(a)

-----------------------------------------------------------------------------
(* pulse_missing_requests_for_receiving_transfers and run_housekeeping_tick, *)
(* one transfer at a time.                                                 *)

Pulse(a, t) ==
  /\ state[t] # NoState /\ ~Terminal(state[t])
  /\ t \notin lock /\ t \notin expired
  /\ Begin(a, "pulse", t, NoState, FALSE)

\* sweep_expired_incoming_transfers
Sweep(a, t) ==
  /\ state[t] # NoState /\ ~state[t].done
  /\ t \notin lock
  /\ Begin(a, "sweep", t, NoState, FALSE)

Expire(a) ==
  LET t == job[a].t
  IN  /\ At(a, "expire")
      /\ IF ~copy[a].done /\ t \in expired
         THEN MarkFailed(t)
         ELSE UNCHANGED <<state, full, empty, usage>>
      /\ Rest(a)
      /\ UNCHANGED <<expired, lock, store, chat, history, crashes>>

\* Mutant: a transfer with a lock file is passed over here as well.
Settle_Unlocked(a, t) ==
  /\ chat[t] # "none" /\ t \notin lock
  /\ Begin(a, "settle", t, NoState, FALSE)

\* expire_chat_media_messages
Settle(a, t) ==
  /\ chat[t] # "none"
  /\ Begin(a, "settle", t, NoState, FALSE)

\* Mutant: the chat is left to the sweep of expired transfers.
ShowSettled_AsStored(a) ==
  /\ At(a, "show")
  /\ Show(job[a].t, Status(copy[a]))
  /\ Rest(a)
  /\ UNCHANGED <<expired, disk, history, crashes>>

ShowSettled(a) ==
  LET t == job[a].t
  IN  /\ At(a, "show")
      /\ Show(t, IF ~Terminal(copy[a]) /\ t \in expired THEN "failed" ELSE Status(copy[a]))
      /\ Rest(a)
      /\ UNCHANGED <<expired, disk, history, crashes>>

UnderWay(t) == state[t] = NoState \/ ~Terminal(state[t])

\* reconcile_spool_usage_cache counts the chunks of transfers still under way.
Reconcile ==
  /\ usage' = Cardinality({tc \in Transfers \X Indices :
                             tc[2] \in full[tc[1]] /\ UnderWay(tc[1])})
  /\ UNCHANGED <<expired, state, full, empty, lock, store, chat, threads, history, crashes>>

\* sweep_complete_store: the object is too old, or the store too large.
SweepComplete(o) ==
  /\ store' = [store EXCEPT ![o] = "none"]
  /\ UNCHANGED <<expired, state, full, empty, lock, usage, chat, threads, history, crashes>>

Housekeeping(a) ==
  \/ \E t \in Transfers : Pulse(a, t) \/ Sweep(a, t) \/ Settle(a, t)
  \/ Expire(a) \/ ShowSettled(a)

-----------------------------------------------------------------------------

TimePasses ==
  /\ \E t \in Transfers \ expired : expired' = expired \cup {t}
  /\ UNCHANGED <<disk, chat, threads, history, crashes>>

\* The process stops and is started again; the files stay as they are.
Crash ==
  /\ crashes < MaxCrashes
  /\ crashes' = crashes + 1
  /\ torn' = torn \cup {t \in Transfers : \E a \in Threads : At(a, "write") /\ job[a].t = t}
  /\ pc' = [a \in Threads |-> "idle"]
  /\ job' = [a \in Threads |-> NoJob]
  /\ copy' = [a \in Threads |-> NoState]
  /\ UNCHANGED <<expired, disk, chat, assembled, contended>>

Next ==
  \/ \E a \in Threads : Recover(a) \/ Chunk(a) \/ Manifest(a) \/ Housekeeping(a)
  \/ Reconcile
  \/ \E o \in Objects : SweepComplete(o)
  \/ TimePasses \/ Crash

Spec == Init /\ [][Next]_vars

\* A thread finishes what it has begun.
Continue(a) == pc[a] # "idle" /\ (Recover(a) \/ Chunk(a) \/ Manifest(a) \/ Housekeeping(a))

\* Housekeeping comes round to every message with a transfer.
FairSpec ==
  /\ Spec
  /\ \A a \in Threads : WF_vars(Continue(a))
  /\ \A t \in Transfers : SF_vars(\E a \in Threads : Settle(a, t))

-----------------------------------------------------------------------------
(* Properties. *)

Places == {"idle", "recover", "assemble", "publish", "finish", "ingest", "write", "account", "report",
           "update", "request", "expire", "show"}

\* State, files and threads have their types; a thread that is doing something
\* holds the state of the transfer it works on.
TypeOK ==
  /\ expired \subseteq Transfers /\ lock \subseteq Transfers
  /\ state \in [Transfers -> State \cup {NoState}]
  /\ full \in [Transfers -> SUBSET Indices] /\ empty \in [Transfers -> SUBSET Indices]
  /\ \A t \in Transfers : full[t] \cup empty[t] \subseteq Chunks[t]
  /\ usage \in Nat
  /\ store \in [Objects -> {"none", "whole", "spoilt"}]
  /\ chat \in [Transfers -> {"none", "receiving", "failed", "complete"}]
  /\ pc \in [Threads -> Places]
  /\ job \in [Threads -> Job \cup {NoJob}] /\ copy \in [Threads -> State \cup {NoState}]
  /\ \A a \in Threads : pc[a] # "idle" => job[a] \in Job /\ copy[a] \in State
  /\ assembled \subseteq Objects /\ contended \subseteq Transfers /\ torn \subseteq Transfers
  /\ crashes \in 0..MaxCrashes

\* What lies under a digest in the complete store has that digest, whatever was
\* received and whoever changed the chunk files meanwhile.
StoredIsWhole == \A o \in Objects : store[o] # "spoilt"

\* The chat shows a transfer complete only when its object has been assembled
\* and put into the complete store, by this transfer or another.
CompleteWasStored ==
  \A t \in Transfers : chat[t] = "complete" => Object[t] \in assembled

Struckout(t) == \E c \in Chunks[t] : state[t].strikes[c] >= MaxStrikes

\* A transfer fails for a reason: it has expired, its chunks were damaged too
\* often or do not add up, a crash left a chunk file unfinished, or two threads
\* worked on it at once.  Duplicates, reordering, a full spool, a repeated
\* manifest and a crash anywhere else do not fail it.
FailureHasCause ==
  \A t \in Transfers : state[t] # NoState /\ state[t].failed =>
    t \in expired \cup Forged \cup torn \cup contended \/ Struckout(t)

\* Failed or complete, a transfer stays so, unless two threads worked on it at once.
OutcomeIsFinal ==
  [][\A t \in Transfers : state[t] # NoState /\ t \notin contended' =>
       /\ state[t].failed => state'[t].failed
       /\ state[t].done => state'[t].done]_vars

AllThere(t) ==
  /\ state[t] # NoState /\ ~Terminal(state[t]) /\ chat[t] # "none"
  /\ Complete(t)

\* When all chunks of a transfer are there it is assembled or given up, also
\* after a crash in the middle of that.
WholeIsFinished == \A t \in Transfers : AllThere(t) ~> ~AllThere(t)

\* The chat does not show an expired transfer as receiving for ever.
ExpiredIsShown ==
  \A t \in Transfers : (t \in expired /\ chat[t] = "receiving") ~> chat[t] # "receiving"
====
