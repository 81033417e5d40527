---- MODULE MediaTransfer_proofs ----
(***************************************************************************)
(* Proofs about MediaTransfer, for any number of threads, transfers and    *)
(* chunks.                                                                 *)
(***************************************************************************)
EXTENDS MediaTransfer, FiniteSetTheorems, TLAPS

-----------------------------------------------------------------------------
(* Types. *)

\* A thread that handles a chunk has a chunk of its transfer in hand.
JobOK ==
  \A a \in Threads : pc[a] # "idle" =>
    /\ job[a].kind \in {"chunk", "ingested"} => job[a].c \in Chunks[job[a].t]
    /\ pc[a] \in {"ingest", "write", "account"} => job[a].kind = "chunk"

\* The counts that are written are numbers.
LEMMA CountsAreNat ==
  ASSUME TypeOK
  PROVE  /\ \A t \in Transfers : Count(t) \in Nat /\ Cardinality(full[t]) \in Nat
         /\ \A n \in Nat : Less(usage, n) \in Nat
<1>1. ASSUME NEW t \in Transfers
      PROVE  Count(t) \in Nat /\ Cardinality(full[t]) \in Nat
  <2>1. Chunks[t] \subseteq Indices /\ full[t] \subseteq Indices
    BY MediaConstants DEF TypeOK
  <2>2. IsFiniteSet(Chunks[t]) /\ IsFiniteSet(full[t])
    BY <2>1, MediaConstants, FS_Subset
  <2> QED  BY <2>2, FS_CardinalityType DEF Count
<1>2. ASSUME NEW n \in Nat
      PROVE  Less(usage, n) \in Nat
  <2>1. usage \in Nat
    BY DEF TypeOK
  <2> QED  BY <2>1 DEF Less
<1> QED  BY <1>1, <1>2

\* Removing the chunks of a transfer keeps the types of the files.
LEMMA RemovalTyped ==
  ASSUME TypeOK, NEW t \in Transfers, RemoveChunks(t)
  PROVE  /\ full' \in [Transfers -> SUBSET Indices] /\ empty' \in [Transfers -> SUBSET Indices]
         /\ \A u \in Transfers : full'[u] \cup empty'[u] \subseteq Chunks[u]
         /\ usage' \in Nat
<1>1. Cardinality(full[t]) \in Nat /\ Less(usage, Cardinality(full[t])) \in Nat
  BY CountsAreNat
<1> QED  BY <1>1 DEF RemoveChunks, TypeOK

\* What is written to state.json is a state.
LEMMA StatesTyped ==
  /\ \A t \in Transfers : Fresh(t) \in State
  /\ \A s \in State : Failing(s) \in State /\ Status(s) \in {"receiving", "failed", "complete"}
BY DEF Fresh, Failing, Status, State

\* A thread goes on where its job says.
LEMMA ResumeTyped ==
  ASSUME NEW a \in Threads, job[a] \in Job
  PROVE  /\ Resume(a) \in Places \ {"idle", "assemble", "publish", "finish", "write", "account"}
         /\ Resume(a) = "ingest" => job[a].kind = "chunk"
BY DEF Job, Kinds, Resume, AfterRecovery, Places

LEMMA RecoverTyped ==
  ASSUME TypeOK, JobOK, NEW a \in Threads, Recover(a)
  PROVE  TypeOK' /\ JobOK'
<1>0. /\ job[a] \in Job /\ copy[a] \in State /\ pc[a] # "idle" /\ job[a].t \in Transfers
      /\ Count(job[a].t) \in Nat /\ Cardinality(full[job[a].t]) \in Nat
      /\ Failing(copy[a]) \in State
      /\ Object[job[a].t] \in Objects
  <2>1. pc[a] # "idle"
    BY DEF Recover, RecoverFromStore, RecoverDone, RecoverTorn, RecoverCount, StartFinalize,
           Assemble, FinalizeFails, Publish, Finish, NotDone, Recovering, At
  <2>2. job[a] \in Job /\ copy[a] \in State
    BY <2>1 DEF TypeOK
  <2> QED  BY <2>1, <2>2, CountsAreNat, StatesTyped, MediaConstants DEF Job
<1>r. /\ Resume(a) \in Places \ {"idle", "assemble", "publish", "finish", "write", "account"}
      /\ Resume(a) = "ingest" => job[a].kind = "chunk"
  BY <1>0, ResumeTyped
<1>1. CASE RecoverFromStore(a)
  BY <1>0, <1>r, <1>1 DEF RecoverFromStore, Recovering, At, Persist, Hold, TypeOK, JobOK, State, history
<1>2. CASE RecoverDone(a)
  BY <1>0, <1>r, <1>2 DEF RecoverDone, Counted, Recovering, At, Persist, Hold, TypeOK, JobOK, State, history
<1>3. CASE RecoverTorn(a)
  BY <1>0, <1>r, <1>3, RemovalTyped DEF RecoverTorn, GiveUp, NotDone, Recovering, At, Persist, Hold, TypeOK, JobOK, history
<1>4. CASE RecoverCount(a)
  BY <1>0, <1>r, <1>4 DEF RecoverCount, Counted, NotDone, Recovering, At, Persist, Hold, TypeOK, JobOK, State, history
<1>5. CASE StartFinalize(a)
  BY <1>0, <1>5 DEF StartFinalize, NotDone, Recovering, At, Hold, TypeOK, JobOK, State, Places, history
<1>6. CASE Assemble(a)
  BY <1>0, <1>6 DEF Assemble, At, Hold, TypeOK, JobOK, Places, disk, history
<1>7. CASE FinalizeFails(a)
  BY <1>0, <1>r, <1>7, RemovalTyped DEF FinalizeFails, GiveUp, At, Persist, Hold, TypeOK, JobOK, history
<1>8. CASE Publish(a)
  BY <1>0, <1>8 DEF Publish, At, Hold, TypeOK, JobOK, Places
<1>9. CASE Finish(a)
  BY <1>0, <1>r, <1>9, RemovalTyped DEF Finish, At, Persist, Hold, TypeOK, JobOK, State, history
<1> QED  BY <1>1, <1>2, <1>3, <1>4, <1>5, <1>6, <1>7, <1>8, <1>9 DEF Recover

\* A thread that begins has a job of the right type.
LEMMA BeginTyped ==
  ASSUME TypeOK, JobOK, NEW a \in Threads, NEW t \in Transfers,
         NEW kind \in Kinds \ {"ingested"}, NEW c \in Indices \cup {NoState},
         NEW damaged \in BOOLEAN, kind = "chunk" => c \in Chunks[t],
         Begin(a, kind, t, c, damaged)
  PROVE  TypeOK' /\ JobOK'
<1>1. [kind |-> kind, t |-> t, c |-> c, damaged |-> damaged] \in Job
  BY DEF Job
<1>2. state[t] \in State /\ contended' \subseteq Transfers
  BY DEF Begin, Enter, TypeOK
<1> QED  BY <1>1, <1>2 DEF Begin, Enter, At, Hold, TypeOK, JobOK, Places, disk

\* A thread that is at a place other than idle has a job and a copy.
LEMMA HoldsJob ==
  ASSUME TypeOK, NEW a \in Threads, pc[a] # "idle"
  PROVE  /\ job[a] \in Job /\ copy[a] \in State
         /\ job[a].t \in Transfers
         /\ Failing(copy[a]) \in State
         /\ Status(copy[a]) \in {"receiving", "failed", "complete"}
BY StatesTyped DEF TypeOK, Job

LEMMA MarkFailedTyped ==
  ASSUME TypeOK, NEW t \in Transfers, MarkFailed(t)
  PROVE  /\ full' \in [Transfers -> SUBSET Indices] /\ empty' \in [Transfers -> SUBSET Indices]
         /\ \A u \in Transfers : full'[u] \cup empty'[u] \subseteq Chunks[u]
         /\ usage' \in Nat
         /\ state' \in [Transfers -> State \cup {NoState}]
<1>1. CASE state[t] # NoState /\ ~Terminal(state[t])
  <2>1. state[t] \in State
    BY <1>1 DEF TypeOK
  <2> QED  BY <1>1, <2>1, RemovalTyped, StatesTyped DEF MarkFailed, Persist, TypeOK
<1>2. CASE ~(state[t] # NoState /\ ~Terminal(state[t]))
  BY <1>2 DEF MarkFailed, TypeOK
<1> QED  BY <1>1, <1>2

LEMMA ChunkTyped ==
  ASSUME TypeOK, JobOK, NEW a \in Threads, Chunk(a)
  PROVE  TypeOK' /\ JobOK'
<1>1. ASSUME NEW t \in Transfers, NEW c \in Chunks[t], NEW damaged \in BOOLEAN,
             ReceiveChunk(a, t, c, damaged)
      PROVE  TypeOK' /\ JobOK'
  <2>1. c \in Indices
    BY MediaConstants
  <2> QED  BY <1>1, <2>1, BeginTyped DEF ReceiveChunk, Kinds
<1>2. ASSUME NEW t \in Transfers, ReceiveLateChunk(a, t)
      PROVE  TypeOK' /\ JobOK'
  <2>1. contended' \subseteq Transfers
    BY <1>2 DEF ReceiveLateChunk, Enter, TypeOK
  <2> QED  BY <1>2, <2>1, MarkFailedTyped DEF ReceiveLateChunk, ShowIfListed, Show, TypeOK, JobOK, threads
<1>3. CASE IgnoreChunk(a)
  BY <1>3 DEF IgnoreChunk, At, Rest, Hold, TypeOK, JobOK, Places, disk, history
<1>4. CASE ExpireAtChunk(a)
  <2>1. pc[a] # "idle"
    BY <1>4 DEF ExpireAtChunk, Ingesting, At
  <2>2. job[a].t \in Transfers /\ copy[a] \in State
    BY <2>1, HoldsJob
  <2>3. [copy[a] EXCEPT !.failed = TRUE] \in State
    BY <2>2 DEF State
  <2> QED  BY <1>4, <2>2, <2>3 DEF ExpireAtChunk, Persist, ShowIfListed, Show, Rest, Hold, TypeOK, JobOK, Places, history
<1>5. CASE Strike(a)
  <2>1. pc[a] = "ingest"
    BY <1>5 DEF Strike, Ingesting, At
  <2>2. job[a] \in Job /\ copy[a] \in State /\ job[a].c \in Chunks[job[a].t] /\ job[a].t \in Transfers
    BY <2>1, HoldsJob DEF JobOK
  <2>3. Struck(a) \in State /\ Failing(Struck(a)) \in State
    <3>1. job[a].c \in Indices
      BY <2>2, MediaConstants
    <3>2. copy[a].strikes \in [Indices -> Nat]
      BY <2>2 DEF State
    <3>3. [copy[a].strikes EXCEPT ![job[a].c] = @ + 1] \in [Indices -> Nat]
      BY <3>1, <3>2
    <3>4. Struck(a) = [copy[a] EXCEPT !.strikes = [copy[a].strikes EXCEPT ![job[a].c] = @ + 1]]
      BY DEF Struck
    <3>5. Struck(a) \in State
      BY <2>2, <3>3, <3>4 DEF State
    <3> QED  BY <3>5, StatesTyped
  <2>4. CASE Struck(a).strikes[job[a].c] >= MaxStrikes
    BY <1>5, <2>2, <2>3, <2>4, RemovalTyped DEF Strike, Persist, ShowIfListed, Show, Rest, Hold, TypeOK, JobOK, Places, history
  <2>5. CASE ~(Struck(a).strikes[job[a].c] >= MaxStrikes)
    BY <1>5, <2>2, <2>3, <2>5 DEF Strike, Persist, Rest, Hold, TypeOK, JobOK, Places, history
  <2> QED  BY <2>4, <2>5
<1>6. CASE CreateChunk(a)
  <2>1. pc[a] = "ingest"
    BY <1>6 DEF CreateChunk, Accepting, Ingesting, At
  <2>2. job[a] \in Job /\ copy[a] \in State /\ job[a].t \in Transfers /\ job[a].kind = "chunk"
    BY <2>1, HoldsJob DEF JobOK
  <2>3. job[a].c \in Chunks[job[a].t] /\ job[a].c \in Indices
    BY <2>1, <2>2, MediaConstants DEF JobOK
  <2> QED  BY <1>6, <2>1, <2>2, <2>3 DEF CreateChunk, Hold, TypeOK, JobOK, Places, history
<1>7. CASE WriteChunk(a)
  <2>1. pc[a] = "write" /\ job[a] \in Job /\ copy[a] \in State /\ job[a].t \in Transfers /\ job[a].kind = "chunk"
    BY <1>7, HoldsJob DEF WriteChunk, At, JobOK
  <2> QED  BY <1>7, <2>1 DEF WriteChunk, Hold, TypeOK, JobOK, Places, history
<1>8. CASE CountChunk(a)
  <2>1. pc[a] = "account" /\ job[a] \in Job /\ copy[a] \in State /\ job[a].t \in Transfers /\ job[a].kind = "chunk"
    BY <1>8, HoldsJob DEF CountChunk, At, JobOK
  <2>2. [copy[a] EXCEPT !.received = @ + 1] \in State /\ usage + 1 \in Nat
    BY <2>1 DEF State, TypeOK
  <2>3. [job[a] EXCEPT !.kind = "ingested"] \in Job
    BY <2>1 DEF Job, Kinds
  <2>4. job' = [job EXCEPT ![a] = [job[a] EXCEPT !.kind = "ingested"]]
    BY <1>8 DEF CountChunk, Again
  <2> QED  BY <1>8, <2>1, <2>2, <2>3, <2>4 DEF CountChunk, Persist, Hold, TypeOK, JobOK, Places, Job, history
<1>9. CASE DuplicateChunk(a)
  <2>1. pc[a] = "ingest"
    BY <1>9 DEF DuplicateChunk, Accepting, Ingesting, At
  <2>2. job[a] \in Job /\ copy[a] \in State /\ job[a].t \in Transfers /\ job[a].kind = "chunk"
    BY <2>1, HoldsJob DEF JobOK
  <2>3. [job[a] EXCEPT !.kind = "ingested"] \in Job
    BY <2>2 DEF Job, Kinds
  <2>4. job' = [job EXCEPT ![a] = [job[a] EXCEPT !.kind = "ingested"]]
    BY <1>9 DEF DuplicateChunk, Again
  <2> QED  BY <1>9, <2>1, <2>2, <2>3, <2>4 DEF DuplicateChunk, Persist, Hold, TypeOK, JobOK, Places, Job, history
<1>10. CASE Report(a)
  <2>1. pc[a] = "report"
    BY <1>10 DEF Report, At
  <2> QED  BY <1>10, <2>1, HoldsJob DEF Report, ShowIfListed, Show, Hold, TypeOK, JobOK, Places, disk, history
<1> QED  BY <1>1, <1>2, <1>3, <1>4, <1>5, <1>6, <1>7, <1>8, <1>9, <1>10 DEF Chunk

LEMMA ManifestTyped ==
  ASSUME TypeOK, JobOK, NEW a \in Threads, Manifest(a)
  PROVE  TypeOK' /\ JobOK'
<1>1. ASSUME NEW t \in Transfers, NewManifest(a, t)
      PROVE  TypeOK' /\ JobOK'
  <2>1. contended' \subseteq Transfers
    BY <1>1 DEF NewManifest, Enter, TypeOK
  <2>2. [kind |-> "manifest", t |-> t, c |-> NoState, damaged |-> FALSE] \in Job
    BY DEF Job, Kinds
  <2> QED  BY <1>1, <2>1, <2>2, StatesTyped DEF NewManifest, Persist, Show, Hold, TypeOK, JobOK, Places
<1>2. ASSUME NEW t \in Transfers, LateManifest(a, t)
      PROVE  TypeOK' /\ JobOK'
  <2>1. contended' \subseteq Transfers
    BY <1>2 DEF LateManifest, Enter, TypeOK
  <2> QED  BY <1>2, <2>1 DEF LateManifest, Show, TypeOK, JobOK, disk, threads
<1>3. ASSUME NEW t \in Transfers, Begin(a, "manifest", t, NoState, FALSE)
      PROVE  TypeOK' /\ JobOK'
  BY <1>3, BeginTyped DEF Kinds
<1>4. CASE UpdateManifest(a)
  <2>1. pc[a] = "update"
    BY <1>4 DEF UpdateManifest, At
  <2>2. CASE Terminal(copy[a])
    BY <1>4, <2>1, <2>2, HoldsJob DEF UpdateManifest, Show, Rest, Hold, TypeOK, JobOK, Places, history
  <2>3. CASE ~Terminal(copy[a])
    BY <1>4, <2>1, <2>3, HoldsJob DEF UpdateManifest, Show, Persist, Hold, TypeOK, JobOK, Places, history
  <2> QED  BY <2>2, <2>3
<1>5. CASE SendRequest(a)
  <2>1. pc[a] = "request"
    BY <1>5 DEF SendRequest, At
  <2> QED  BY <1>5, <2>1, HoldsJob DEF SendRequest, Persist, Rest, Hold, TypeOK, JobOK, Places, history
<1>6. CASE SkipRequest(a)
  BY <1>6 DEF SkipRequest, Rest, Hold, TypeOK, JobOK, Places, disk, history
<1> QED  BY <1>1, <1>2, <1>3, <1>4, <1>5, <1>6 DEF Manifest

LEMMA HousekeepingTyped ==
  ASSUME TypeOK, JobOK, NEW a \in Threads, Housekeeping(a)
  PROVE  TypeOK' /\ JobOK'
<1>1. ASSUME NEW t \in Transfers, Pulse(a, t) \/ Sweep(a, t) \/ Settle(a, t)
      PROVE  TypeOK' /\ JobOK'
  BY <1>1, BeginTyped DEF Pulse, Sweep, Settle, Kinds
<1>2. CASE Expire(a)
  <2>1. pc[a] = "expire"
    BY <1>2 DEF Expire, At
  <2>2. job[a].t \in Transfers
    BY <2>1, HoldsJob
  <2>3. CASE ~copy[a].done /\ job[a].t \in expired
    BY <1>2, <2>2, <2>3, MarkFailedTyped DEF Expire, Rest, Hold, TypeOK, JobOK, Places, history
  <2>4. CASE ~(~copy[a].done /\ job[a].t \in expired)
    BY <1>2, <2>2, <2>4 DEF Expire, Rest, Hold, TypeOK, JobOK, Places, history
  <2> QED  BY <2>3, <2>4
<1>3. CASE ShowSettled(a)
  <2>1. pc[a] = "show"
    BY <1>3 DEF ShowSettled, At
  <2> QED  BY <1>3, <2>1, HoldsJob DEF ShowSettled, Show, Rest, Hold, TypeOK, JobOK, Places, disk, history
<1> QED  BY <1>1, <1>2, <1>3 DEF Housekeeping

LEMMA ReconcileTyped ==
  ASSUME TypeOK, JobOK, Reconcile
  PROVE  TypeOK' /\ JobOK'
<1> DEFINE S == {tc \in Transfers \X Indices : tc[2] \in full[tc[1]] /\ UnderWay(tc[1])}
<1>1. IsFiniteSet(Transfers \X Indices)
  BY MediaConstants, FS_Product
<1>2. IsFiniteSet(S)
  BY <1>1, FS_Subset
<1>3. Cardinality(S) \in Nat
  BY <1>2, FS_CardinalityType
<1>4. usage' \in Nat
  BY <1>3 DEF Reconcile
<1> QED  BY <1>4 DEF Reconcile, TypeOK, JobOK, threads, history

LEMMA NextTyped ==
  ASSUME TypeOK, JobOK, [Next]_vars
  PROVE  TypeOK' /\ JobOK'
<1>1. ASSUME NEW a \in Threads, Recover(a) \/ Chunk(a) \/ Manifest(a) \/ Housekeeping(a)
      PROVE  TypeOK' /\ JobOK'
  BY <1>1, RecoverTyped, ChunkTyped, ManifestTyped, HousekeepingTyped
<1>2. CASE Reconcile
  BY <1>2, ReconcileTyped
<1>3. ASSUME NEW x \in Objects, SweepComplete(x)
      PROVE  TypeOK' /\ JobOK'
  BY <1>3 DEF SweepComplete, TypeOK, JobOK, threads, history
<1>4. CASE TimePasses
  BY <1>4 DEF TimePasses, TypeOK, JobOK, disk, threads, history
<1>5. CASE Crash
  BY <1>5, MediaConstants DEF Crash, TypeOK, JobOK, Places, disk
<1>6. CASE UNCHANGED vars
  BY <1>6 DEF vars, TypeOK, JobOK, disk, threads, history
<1> QED  BY <1>1, <1>2, <1>3, <1>4, <1>5, <1>6 DEF Next

LEMMA InitTyped ==
  ASSUME Init
  PROVE  TypeOK /\ JobOK
BY MediaConstants DEF Init, TypeOK, JobOK, Places

\* State, files and threads have their types, for any number of threads.
THEOREM TypeCorrect == Spec => []TypeOK
<1>1. Init => TypeOK /\ JobOK
  BY InitTyped
<1>2. TypeOK /\ JobOK /\ [Next]_vars => TypeOK' /\ JobOK'
  BY NextTyped
<1> QED  BY <1>1, <1>2, PTL DEF Spec

-----------------------------------------------------------------------------
(* The complete store. *)

\* Whatever is taken for complete has been in the complete store, and what is
\* about to be put there has the digest of its name.
StoreInv ==
  /\ StoredIsWhole /\ CompleteWasStored
  /\ \A o \in Objects : store[o] # "none" => o \in assembled
  /\ \A t \in Transfers : state[t] # NoState /\ state[t].done => Object[t] \in assembled
  /\ \A a \in Threads : pc[a] # "idle" =>
       /\ copy[a].done => Object[job[a].t] \in assembled
       /\ pc[a] = "finish" => Object[job[a].t] \in assembled
       /\ pc[a] = "publish" => job[a].t \notin Forged

\* Only what is done has the status complete.
LEMMA StatusComplete ==
  ASSUME NEW s
  PROVE  Status(s) = "complete" => s.done
BY DEF Status

LEMMA StoreRecover ==
  ASSUME TypeOK, JobOK, StoreInv, NEW a \in Threads, Recover(a)
  PROVE  StoreInv'
<1>0. pc[a] # "idle" /\ job[a].t \in Transfers /\ copy[a] \in State /\ Object[job[a].t] \in Objects
  <2>1. pc[a] # "idle"
    BY DEF Recover, RecoverFromStore, RecoverDone, RecoverTorn, RecoverCount, StartFinalize,
           Assemble, FinalizeFails, Publish, Finish, NotDone, Recovering, At
  <2> QED  BY <2>1, HoldsJob, MediaConstants
<1>r. Resume(a) \notin {"finish", "publish", "idle"}
  BY <1>0, HoldsJob, ResumeTyped
<1>1. CASE RecoverFromStore(a)
  <2>1. Object[job[a].t] \in assembled
    BY <1>0, <1>1 DEF RecoverFromStore, StoreInv
  <2> QED  BY <1>0, <1>r, <1>1, <2>1 DEF RecoverFromStore, Persist, Hold, TypeOK, StoreInv, StoredIsWhole, CompleteWasStored, history
<1>2. CASE RecoverDone(a)
  <2>1. Object[job[a].t] \in assembled
    BY <1>0, <1>2 DEF RecoverDone, StoreInv
  <2> QED  BY <1>0, <1>r, <1>2, <2>1 DEF RecoverDone, Counted, Persist, Hold, TypeOK, StoreInv, StoredIsWhole, CompleteWasStored, history
<1>3. CASE RecoverTorn(a)
  BY <1>0, <1>r, <1>3 DEF RecoverTorn, GiveUp, Failing, NotDone, Persist, Hold, State, TypeOK, StoreInv, StoredIsWhole, CompleteWasStored, history
<1>4. CASE RecoverCount(a)
  BY <1>0, <1>r, <1>4 DEF RecoverCount, Counted, NotDone, Persist, Hold, State, TypeOK, StoreInv, StoredIsWhole, CompleteWasStored, history
<1>5. CASE StartFinalize(a)
  BY <1>0, <1>5 DEF StartFinalize, NotDone, Hold, State, TypeOK, StoreInv, StoredIsWhole, CompleteWasStored, history
<1>6. CASE Assemble(a)
  BY <1>0, <1>6 DEF Assemble, HashMatches, Hold, TypeOK, StoreInv, StoredIsWhole, CompleteWasStored, disk, history
<1>7. CASE FinalizeFails(a)
  BY <1>0, <1>r, <1>7 DEF FinalizeFails, GiveUp, Failing, Persist, Hold, State, TypeOK, StoreInv, StoredIsWhole, CompleteWasStored, history
<1>8. CASE Publish(a)
  <2>1. job[a].t \notin Forged
    BY <1>0, <1>8 DEF Publish, At, StoreInv
  <2> QED  BY <1>0, <1>8, <2>1 DEF Publish, Hold, TypeOK, StoreInv, StoredIsWhole, CompleteWasStored
<1>9. CASE Finish(a)
  <2>1. Object[job[a].t] \in assembled
    BY <1>0, <1>9 DEF Finish, At, StoreInv
  <2> QED  BY <1>0, <1>r, <1>9, <2>1 DEF Finish, Persist, Hold, TypeOK, StoreInv, StoredIsWhole, CompleteWasStored, history
<1> QED  BY <1>1, <1>2, <1>3, <1>4, <1>5, <1>6, <1>7, <1>8, <1>9 DEF Recover

LEMMA StoreBegin ==
  ASSUME TypeOK, StoreInv, NEW a \in Threads, NEW t \in Transfers,
         NEW kind, NEW c, NEW damaged, Begin(a, kind, t, c, damaged)
  PROVE  StoreInv'
BY DEF Begin, Hold, TypeOK, StoreInv, StoredIsWhole, CompleteWasStored, disk

\* mark_transfer_failed completes nothing.
LEMMA MarkFailedNotDone ==
  ASSUME TypeOK, NEW t \in Transfers, MarkFailed(t)
  PROVE  \A u \in Transfers : state'[u] # NoState /\ state'[u].done => state[u] # NoState /\ state[u].done
<1>1. CASE state[t] # NoState /\ ~Terminal(state[t])
  <2>1. state[t] \in State
    BY <1>1 DEF TypeOK
  <2>2. Failing(state[t]).done = state[t].done
    BY <2>1 DEF Failing, State
  <2> QED  BY <1>1, <2>2 DEF MarkFailed, Persist, TypeOK
<1> QED  BY <1>1 DEF MarkFailed

LEMMA StoreChunk ==
  ASSUME TypeOK, JobOK, StoreInv, NEW a \in Threads, Chunk(a)
  PROVE  StoreInv'
<1>1. ASSUME NEW t \in Transfers, NEW c \in Chunks[t], NEW damaged \in BOOLEAN,
             ReceiveChunk(a, t, c, damaged)
      PROVE  StoreInv'
  BY <1>1, StoreBegin DEF ReceiveChunk
<1>2. ASSUME NEW t \in Transfers, ReceiveLateChunk(a, t)
      PROVE  StoreInv'
  BY <1>2, MarkFailedNotDone DEF ReceiveLateChunk, ShowIfListed, Show, TypeOK, StoreInv, StoredIsWhole, CompleteWasStored, threads
<1>3. CASE IgnoreChunk(a)
  BY <1>3 DEF IgnoreChunk, Rest, Hold, TypeOK, StoreInv, StoredIsWhole, CompleteWasStored, disk, history
<1>4. CASE ExpireAtChunk(a)
  <2>1. pc[a] # "idle"
    BY <1>4 DEF ExpireAtChunk, Ingesting, At
  <2> QED  BY <1>4, <2>1, HoldsJob DEF ExpireAtChunk, Persist, ShowIfListed, Show, Rest, Hold, State, TypeOK, StoreInv, StoredIsWhole, CompleteWasStored, history
<1>5. CASE Strike(a)
  <2>1. pc[a] # "idle" /\ ~copy[a].done
    BY <1>5 DEF Strike, Ingesting, At, Terminal
  <2>2. ~Struck(a).done /\ ~Failing(Struck(a)).done
    BY <2>1, HoldsJob DEF Struck, Failing, State
  <2> QED  BY <1>5, <2>1, <2>2, HoldsJob DEF Strike, Persist, ShowIfListed, Show, Rest, Hold, TypeOK, StoreInv, StoredIsWhole, CompleteWasStored, history
<1>6. CASE CreateChunk(a)
  BY <1>6 DEF CreateChunk, Accepting, Ingesting, At, Hold, TypeOK, StoreInv, StoredIsWhole, CompleteWasStored, history
<1>7. CASE WriteChunk(a)
  BY <1>7 DEF WriteChunk, At, Hold, TypeOK, StoreInv, StoredIsWhole, CompleteWasStored, history
<1>8. CASE CountChunk(a)
  <2>1. pc[a] # "idle"
    BY <1>8 DEF CountChunk, At
  <2>2. job[a] \in Job /\ copy[a] \in State /\ job[a].t \in Transfers
    BY <2>1, HoldsJob
  <2>3. job'[a].t = job[a].t /\ \A b \in Threads \ {a} : job'[b] = job[b]
    BY <1>8, <2>2 DEF CountChunk, Again, Job, TypeOK
  <2>4. [copy[a] EXCEPT !.received = @ + 1].done = copy[a].done
    BY <2>2 DEF State
  <2> QED  BY <1>8, <2>1, <2>2, <2>3, <2>4 DEF CountChunk, Persist, Hold, TypeOK, StoreInv, StoredIsWhole, CompleteWasStored, history
<1>9. CASE DuplicateChunk(a)
  <2>1. pc[a] # "idle"
    BY <1>9 DEF DuplicateChunk, Accepting, Ingesting, At
  <2>2. job[a] \in Job /\ job[a].t \in Transfers
    BY <2>1, HoldsJob
  <2>3. job'[a].t = job[a].t /\ \A b \in Threads \ {a} : job'[b] = job[b]
    BY <1>9, <2>2 DEF DuplicateChunk, Again, Job, TypeOK
  <2> QED  BY <1>9, <2>1, <2>2, <2>3 DEF DuplicateChunk, Persist, Hold, TypeOK, StoreInv, StoredIsWhole, CompleteWasStored, history
<1>10. CASE Report(a)
  <2>1. pc[a] # "idle"
    BY <1>10 DEF Report, At
  <2> QED  BY <1>10, <2>1, HoldsJob, StatusComplete DEF Report, ShowIfListed, Show, Hold, TypeOK, StoreInv, StoredIsWhole, CompleteWasStored, disk, history
<1> QED  BY <1>1, <1>2, <1>3, <1>4, <1>5, <1>6, <1>7, <1>8, <1>9, <1>10 DEF Chunk

LEMMA StoreManifest ==
  ASSUME TypeOK, JobOK, StoreInv, NEW a \in Threads, Manifest(a)
  PROVE  StoreInv'
<1>1. ASSUME NEW t \in Transfers, NewManifest(a, t)
      PROVE  StoreInv'
  <2>1. ~Fresh(t).done
    BY DEF Fresh
  <2>2. job'[a].t = t
    BY <1>1 DEF NewManifest, TypeOK
  <2> QED  BY <1>1, <2>1, <2>2 DEF NewManifest, Persist, Show, Hold, TypeOK, StoreInv, StoredIsWhole, CompleteWasStored
<1>2. ASSUME NEW t \in Transfers, LateManifest(a, t)
      PROVE  StoreInv'
  BY <1>2 DEF LateManifest, Show, TypeOK, StoreInv, StoredIsWhole, CompleteWasStored, disk, threads
<1>3. ASSUME NEW t \in Transfers, Begin(a, "manifest", t, NoState, FALSE)
      PROVE  StoreInv'
  BY <1>3, StoreBegin
<1>4. CASE UpdateManifest(a)
  <2>1. pc[a] # "idle" /\ job[a].t \in Transfers
    BY <1>4, HoldsJob DEF UpdateManifest, At
  <2>2. Status(copy[a]) = "complete" => Object[job[a].t] \in assembled
    BY <2>1, StatusComplete DEF StoreInv
  <2> QED  BY <1>4, <2>1, <2>2 DEF UpdateManifest, Persist, Show, Rest, Hold, TypeOK, StoreInv, StoredIsWhole, CompleteWasStored, history
<1>5. CASE SendRequest(a)
  <2>1. pc[a] # "idle" /\ job[a].t \in Transfers
    BY <1>5, HoldsJob DEF SendRequest, At
  <2> QED  BY <1>5, <2>1 DEF SendRequest, Persist, Rest, Hold, TypeOK, StoreInv, StoredIsWhole, CompleteWasStored, history
<1>6. CASE SkipRequest(a)
  BY <1>6 DEF SkipRequest, Rest, Hold, TypeOK, StoreInv, StoredIsWhole, CompleteWasStored, disk, history
<1> QED  BY <1>1, <1>2, <1>3, <1>4, <1>5, <1>6 DEF Manifest

LEMMA StoreHousekeeping ==
  ASSUME TypeOK, JobOK, StoreInv, NEW a \in Threads, Housekeeping(a)
  PROVE  StoreInv'
<1>1. ASSUME NEW t \in Transfers, Pulse(a, t) \/ Sweep(a, t) \/ Settle(a, t)
      PROVE  StoreInv'
  BY <1>1, StoreBegin DEF Pulse, Sweep, Settle
<1>2. CASE Expire(a)
  <2>1. job[a].t \in Transfers
    BY <1>2, HoldsJob DEF Expire, At
  <2>2. \A u \in Transfers : state'[u] # NoState /\ state'[u].done => state[u] # NoState /\ state[u].done
    BY <1>2, <2>1, MarkFailedNotDone DEF Expire
  <2> QED  BY <1>2, <2>2 DEF Expire, Rest, Hold, TypeOK, StoreInv, StoredIsWhole, CompleteWasStored, history
<1>3. CASE ShowSettled(a)
  <2>1. pc[a] # "idle" /\ job[a].t \in Transfers
    BY <1>3, HoldsJob DEF ShowSettled, At
  <2>2. Status(copy[a]) = "complete" => Object[job[a].t] \in assembled
    BY <2>1, StatusComplete DEF StoreInv
  <2> QED  BY <1>3, <2>1, <2>2 DEF ShowSettled, Show, Rest, Hold, TypeOK, StoreInv, StoredIsWhole, CompleteWasStored, disk, history
<1> QED  BY <1>1, <1>2, <1>3 DEF Housekeeping

LEMMA StoreNext ==
  ASSUME TypeOK, JobOK, StoreInv, [Next]_vars
  PROVE  StoreInv'
<1>1. ASSUME NEW a \in Threads, Recover(a) \/ Chunk(a) \/ Manifest(a) \/ Housekeeping(a)
      PROVE  StoreInv'
  BY <1>1, StoreRecover, StoreChunk, StoreManifest, StoreHousekeeping
<1>2. CASE Reconcile
  BY <1>2 DEF Reconcile, StoreInv, StoredIsWhole, CompleteWasStored, threads, history
<1>3. ASSUME NEW x \in Objects, SweepComplete(x)
      PROVE  StoreInv'
  BY <1>3 DEF SweepComplete, TypeOK, StoreInv, StoredIsWhole, CompleteWasStored, threads, history
<1>4. CASE TimePasses
  BY <1>4 DEF TimePasses, StoreInv, StoredIsWhole, CompleteWasStored, disk, threads, history
<1>5. CASE Crash
  BY <1>5 DEF Crash, StoreInv, StoredIsWhole, CompleteWasStored, disk
<1>6. CASE UNCHANGED vars
  BY <1>6 DEF vars, StoreInv, StoredIsWhole, CompleteWasStored, disk, threads, history
<1> QED  BY <1>1, <1>2, <1>3, <1>4, <1>5, <1>6 DEF Next

LEMMA StoreInitially ==
  ASSUME Init
  PROVE  StoreInv
BY MediaConstants DEF Init, StoreInv, StoredIsWhole, CompleteWasStored

\* Under a digest lie only bytes of that digest, for any number of threads.
THEOREM NeverSpoilt == Spec => []StoredIsWhole
<1>1. Init => TypeOK /\ JobOK /\ StoreInv
  BY InitTyped, StoreInitially
<1>2. TypeOK /\ JobOK /\ StoreInv /\ [Next]_vars => TypeOK' /\ JobOK' /\ StoreInv'
  BY NextTyped, StoreNext
<1>3. StoreInv => StoredIsWhole
  BY DEF StoreInv
<1> QED  BY <1>1, <1>2, <1>3, PTL DEF Spec

\* A transfer the chat shows complete has been in the store.
THEOREM CompleteMeansStored == Spec => []CompleteWasStored
<1>1. Init => TypeOK /\ JobOK /\ StoreInv
  BY InitTyped, StoreInitially
<1>2. TypeOK /\ JobOK /\ StoreInv /\ [Next]_vars => TypeOK' /\ JobOK' /\ StoreInv'
  BY NextTyped, StoreNext
<1>3. StoreInv => CompleteWasStored
  BY DEF StoreInv
<1> QED  BY <1>1, <1>2, <1>3, PTL DEF Spec

-----------------------------------------------------------------------------
(* Transfers one thread at a time works on. *)

Agree(r, s) == r.failed = s.failed /\ r.done = s.done /\ r.strikes = s.strikes

\* Of two threads on one transfer the transfer is marked.  Where it is not, a
\* thread's copy is what state.json holds, an empty file is being filled, and
\* nobody takes away the chunks a thread is about to assemble.
Single ==
  /\ FailureHasCause
  /\ \A a, b \in Threads : a # b /\ Busy(b, job[a].t) /\ pc[a] # "idle" => job[a].t \in contended
  /\ \A a \in Threads : pc[a] # "idle" /\ job[a].t \notin contended =>
       /\ state[job[a].t] # NoState /\ Agree(state[job[a].t], copy[a])
       /\ pc[a] = "assemble" => Complete(job[a].t)
  /\ \A t \in Transfers \ (contended \cup torn) : \A x \in empty[t] :
       \E a \in Threads : pc[a] = "write" /\ job[a].t = t /\ job[a].c = x

\* Struckout after the step, of a transfer named by a variable before it.
StruckThen(t) == \E c \in Chunks[t] : state'[t].strikes[c] >= MaxStrikes

\* What a step owes to the transfer it works on.
Owes(a, t) ==
  /\ pc'[a] # "idle" => state'[t] # NoState /\ Agree(state'[t], copy'[a])
  /\ pc'[a] = "assemble" => full'[t] = Chunks[t]
  /\ t \notin torn => \A x \in empty'[t] : pc'[a] = "write" /\ job'[a].c = x
  /\ state'[t] # NoState /\ state'[t].failed => t \in expired \cup Forged \cup torn \/ StruckThen(t)
  /\ state[t] # NoState =>
       /\ state[t].failed => state'[t].failed
       /\ state[t].done => state'[t].done

\* A step of thread a that concerns transfer t only.
Acts(a, t) ==
  /\ pc[a] # "idle" => job[a].t = t
  /\ pc'[a] # "idle" => job'[a].t = t
  /\ contended \subseteq contended' /\ contended' \subseteq contended \cup {t}
  /\ (\E b \in Threads \ {a} : Busy(b, t)) => t \in contended'
  /\ torn' = torn /\ expired' = expired
  /\ \A u \in Transfers \ {t} : state'[u] = state[u] /\ full'[u] = full[u] /\ empty'[u] = empty[u]
  /\ \A b \in Threads \ {a} : pc'[b] = pc[b] /\ job'[b] = job[b] /\ copy'[b] = copy[b]
  /\ t \notin contended' => Owes(a, t)

Final ==
  \A t \in Transfers : state[t] # NoState /\ t \notin contended' =>
    /\ state[t].failed => state'[t].failed
    /\ state[t].done => state'[t].done

\* A step that does what it owes keeps Single and the outcomes.
LEMMA ActsKeep ==
  ASSUME TypeOK, Single, NEW a \in Threads, NEW t \in Transfers, Acts(a, t)
  PROVE  Single' /\ Final
<1>1. FailureHasCause'
  <2> SUFFICES ASSUME NEW u \in Transfers, state'[u] # NoState, state'[u].failed,
                      u \notin (expired \cup Forged \cup torn \cup contended)'
               PROVE  Struckout(u)'
    BY DEF FailureHasCause
  <2>1. CASE u = t
    BY <2>1 DEF Acts, Owes, StruckThen, Struckout
  <2>2. CASE u # t
    <3>1. Struckout(u)
      BY <2>2 DEF Acts, Single, FailureHasCause
    <3> QED  BY <2>2, <3>1 DEF Acts, Struckout
  <2> QED  BY <2>1, <2>2
<1>2. ASSUME NEW b \in Threads, NEW d \in Threads, b # d, Busy(d, job[b].t)', pc'[b] # "idle"
      PROVE  job'[b].t \in contended'
  <2>1. CASE b = a
    BY <1>2, <2>1 DEF Acts, Busy
  <2>2. CASE d = a
    BY <1>2, <2>2 DEF Acts, Busy
  <2>3. CASE b # a /\ d # a
    BY <1>2, <2>3 DEF Acts, Busy, Single
  <2> QED  BY <2>1, <2>2, <2>3
<1>3. ASSUME NEW b \in Threads, pc'[b] # "idle", job'[b].t \notin contended'
      PROVE  /\ state'[job'[b].t] # NoState /\ Agree(state'[job'[b].t], copy'[b])
             /\ pc'[b] = "assemble" => full'[job'[b].t] = Chunks[job'[b].t]
  <2>1. CASE b = a
    BY <1>3, <2>1 DEF Acts, Owes
  <2>2. CASE b # a
    <3>1. pc[b] # "idle" /\ job'[b] = job[b] /\ copy'[b] = copy[b] /\ pc'[b] = pc[b]
      BY <1>3, <2>2 DEF Acts
    <3>2. job[b].t # t /\ job[b].t \notin contended /\ job[b].t \in Transfers
      BY <1>3, <2>2, <3>1, HoldsJob DEF Acts, Busy
    <3>3. state'[job[b].t] = state[job[b].t] /\ full'[job[b].t] = full[job[b].t]
      BY <3>2 DEF Acts
    <3> QED  BY <3>1, <3>2, <3>3 DEF Single, Complete
  <2> QED  BY <2>1, <2>2
<1>4. ASSUME NEW u \in Transfers, u \notin contended' \cup torn', NEW x \in empty'[u]
      PROVE  \E b \in Threads : pc'[b] = "write" /\ job'[b].t = u /\ job'[b].c = x
  <2>1. CASE u = t
    BY <1>4, <2>1 DEF Acts, Owes
  <2>2. CASE u # t
    <3>1. PICK b \in Threads : pc[b] = "write" /\ job[b].t = u /\ job[b].c = x
      BY <1>4, <2>2 DEF Acts, Single
    <3>2. b # a
      BY <2>2, <3>1 DEF Acts
    <3> QED  BY <3>1, <3>2 DEF Acts
  <2> QED  BY <2>1, <2>2
<1>5. Final
  <2> SUFFICES ASSUME NEW u \in Transfers, state[u] # NoState, u \notin contended'
               PROVE  /\ state[u].failed => state'[u].failed
                      /\ state[u].done => state'[u].done
    BY DEF Final
  <2>1. CASE u = t
    BY <2>1 DEF Acts, Owes
  <2>2. CASE u # t
    BY <2>2 DEF Acts
  <2> QED  BY <2>1, <2>2
<1> QED  BY <1>1, <1>2, <1>3, <1>4, <1>5 DEF Single, Complete

\* What holds of a thread at work and of its transfer.
LEMMA AtWork ==
  ASSUME TypeOK, Single, NEW a \in Threads, pc[a] # "idle"
  PROVE  /\ job[a].t \in Transfers /\ copy[a] \in State /\ job[a] \in Job
         /\ (\E b \in Threads \ {a} : Busy(b, job[a].t)) => job[a].t \in contended
         /\ job[a].t \notin contended =>
              /\ state[job[a].t] \in State /\ Agree(state[job[a].t], copy[a])
              /\ pc[a] = "assemble" => full[job[a].t] = Chunks[job[a].t]
              /\ job[a].t \notin torn => \A x \in empty[job[a].t] : pc[a] = "write" /\ job[a].c = x
              /\ copy[a].failed => job[a].t \in expired \cup Forged \cup torn \/ Struckout(job[a].t)
<1>1. job[a].t \in Transfers /\ copy[a] \in State /\ job[a] \in Job
  BY HoldsJob
<1>2. ASSUME NEW b \in Threads \ {a}, Busy(b, job[a].t)
      PROVE  job[a].t \in contended
  BY <1>2 DEF Single
<1>3. ASSUME job[a].t \notin contended
      PROVE  /\ state[job[a].t] \in State /\ Agree(state[job[a].t], copy[a])
             /\ pc[a] = "assemble" => full[job[a].t] = Chunks[job[a].t]
             /\ copy[a].failed => job[a].t \in expired \cup Forged \cup torn \/ Struckout(job[a].t)
  <2>1. state[job[a].t] # NoState /\ Agree(state[job[a].t], copy[a])
    BY <1>3 DEF Single
  <2>2. state[job[a].t] \in State
    BY <1>1, <2>1 DEF TypeOK
  <2>3. pc[a] = "assemble" => full[job[a].t] = Chunks[job[a].t]
    BY <1>3 DEF Single, Complete
  <2>4. copy[a].failed => job[a].t \in expired \cup Forged \cup torn \/ Struckout(job[a].t)
    BY <1>1, <1>3, <2>1 DEF Single, FailureHasCause, Agree
  <2> QED  BY <2>1, <2>2, <2>3, <2>4
<1>4. ASSUME job[a].t \notin contended, job[a].t \notin torn, NEW x \in empty[job[a].t]
      PROVE  pc[a] = "write" /\ job[a].c = x
  <2>1. PICK b \in Threads : pc[b] = "write" /\ job[b].t = job[a].t /\ job[b].c = x
    BY <1>1, <1>4 DEF Single
  <2>2. b = a
    BY <1>2, <1>4, <2>1 DEF Busy
  <2> QED  BY <2>1, <2>2
<1> QED  BY <1>1, <1>2, <1>3, <1>4

\* A step at work that leaves failed, done and strikes as they are in state.json.
LEMMA StrikesStay ==
  ASSUME NEW t \in Transfers, Struckout(t), state'[t].strikes = state[t].strikes
  PROVE  StruckThen(t)
BY DEF Struckout, StruckThen

\* RemoveChunks touches the files of one transfer, and adds none.
LEMMA RemovalLocal ==
  ASSUME TypeOK, NEW t \in Transfers, RemoveChunks(t)
  PROVE  /\ \A u \in Transfers \ {t} : full'[u] = full[u] /\ empty'[u] = empty[u]
         /\ empty'[t] \subseteq empty[t]
BY DEF RemoveChunks, TypeOK

LEMMA RecoverActs ==
  ASSUME TypeOK, JobOK, Single, NEW a \in Threads, Recover(a)
  PROVE  Acts(a, job[a].t)
<1>0. pc[a] # "idle"
  BY DEF Recover, RecoverFromStore, RecoverDone, RecoverTorn, RecoverCount, StartFinalize,
         Assemble, FinalizeFails, Publish, Finish, NotDone, Recovering, At
<1>w. /\ job[a].t \in Transfers /\ copy[a] \in State
      /\ (\E b \in Threads \ {a} : Busy(b, job[a].t)) => job[a].t \in contended
  BY <1>0, AtWork
<1>o. ASSUME job[a].t \notin contended
      PROVE  /\ state[job[a].t] \in State /\ Agree(state[job[a].t], copy[a])
             /\ pc[a] = "assemble" => full[job[a].t] = Chunks[job[a].t]
             /\ job[a].t \notin torn => \A x \in empty[job[a].t] : pc[a] = "write" /\ job[a].c = x
             /\ copy[a].failed => job[a].t \in expired \cup Forged \cup torn \/ Struckout(job[a].t)
  BY <1>0, <1>o, AtWork
<1>r. Resume(a) \notin {"assemble", "write"}
  BY <1>0, HoldsJob, ResumeTyped
<1>n. \A s \in State : s # NoState
  BY MediaConstants
\* Recovery that keeps what the copy says, or notes that the transfer is done.
<1>k. ASSUME NEW s \in State, s.failed = copy[a].failed, s.strikes = copy[a].strikes,
             copy[a].done => s.done,
             state' = [state EXCEPT ![job[a].t] = s] \/ (state' = state /\ s = copy[a]),
             pc' = [pc EXCEPT ![a] = Resume(a)], copy' = [copy EXCEPT ![a] = s],
             empty'[job[a].t] \subseteq empty[job[a].t], pc[a] # "write",
             \A u \in Transfers \ {job[a].t} : full'[u] = full[u] /\ empty'[u] = empty[u],
             UNCHANGED <<job, history, expired>>
      PROVE  Acts(a, job[a].t)
  <2>1. state[job[a].t] \in State /\ Agree(state[job[a].t], copy[a]) => state'[job[a].t].strikes = state[job[a].t].strikes
    BY <1>k, <1>w DEF TypeOK, Agree
  <2>2. job[a].t \notin contended => Owes(a, job[a].t)
    <3> SUFFICES ASSUME job[a].t \notin contended
                 PROVE  Owes(a, job[a].t)
      OBVIOUS
    <3>1. pc'[a] = Resume(a) /\ copy'[a] = s
      BY <1>k DEF TypeOK
    <3>2. state'[job[a].t] \in State /\ Agree(state'[job[a].t], s)
      BY <1>k, <1>w, <1>o DEF TypeOK, Agree
    <3>3. s.failed => job[a].t \in expired \cup Forged \cup torn \/ StruckThen(job[a].t)
      BY <1>k, <1>w, <1>o, <2>1, StrikesStay
    <3> QED  BY <1>k, <1>n, <1>r, <1>o, <3>1, <3>2, <3>3 DEF Owes, Agree
  <2> QED  BY <1>k, <1>w, <2>2 DEF Acts, TypeOK, history
<1>1. CASE RecoverFromStore(a)
  <2>1. [copy[a] EXCEPT !.done = TRUE, !.received = Count(job[a].t)] \in State
    BY <1>w, CountsAreNat DEF State
  <2> QED  BY <1>1, <1>w, <1>k, <2>1 DEF RecoverFromStore, Recovering, At, Persist, Hold, State, history
<1>2. CASE RecoverDone(a)
  <2>1. [copy[a] EXCEPT !.received = Count(job[a].t)] \in State
    BY <1>w, CountsAreNat DEF State
  <2> QED  BY <1>2, <1>w, <1>k, <2>1 DEF RecoverDone, Counted, Recovering, At, Persist, Hold, State, history
<1>4. CASE RecoverCount(a)
  <2>1. [copy[a] EXCEPT !.received = Cardinality(full[job[a].t])] \in State
    BY <1>w, CountsAreNat DEF State
  <2> QED  BY <1>4, <1>w, <1>k, <2>1 DEF RecoverCount, NotDone, Counted, Recovering, At, Persist, Hold, State, history
<1>9. CASE Finish(a)
  <2>1. [copy[a] EXCEPT !.done = TRUE, !.received = Count(job[a].t)] \in State
    BY <1>w, CountsAreNat DEF State
  <2> QED  BY <1>9, <1>w, <1>k, <2>1, RemovalLocal DEF Finish, At, Persist, Hold, State, history
\* Giving the transfer up, for a reason.
<1>g. ASSUME GiveUp(a), pc[a] # "write",
             job[a].t \notin contended => job[a].t \in Forged \cup torn
      PROVE  Acts(a, job[a].t)
  <2>1. Failing(copy[a]) \in State /\ Failing(copy[a]).failed /\ Failing(copy[a]).done = copy[a].done
    BY <1>w, StatesTyped DEF Failing, State
  <2>2. job[a].t \notin contended => Owes(a, job[a].t)
    <3> SUFFICES ASSUME job[a].t \notin contended
                 PROVE  Owes(a, job[a].t)
      OBVIOUS
    <3>1. pc'[a] = Resume(a) /\ copy'[a] = Failing(copy[a]) /\ state'[job[a].t] = Failing(copy[a])
      BY <1>g, <1>w DEF GiveUp, Hold, Persist, TypeOK
    <3>2. empty'[job[a].t] \subseteq empty[job[a].t]
      BY <1>g, <1>w, RemovalLocal DEF GiveUp
    <3> QED  BY <1>g, <1>n, <1>r, <1>o, <2>1, <3>1, <3>2 DEF Owes, Agree
  <2> QED  BY <1>g, <1>w, <2>2, RemovalLocal DEF Acts, GiveUp, Hold, Persist, TypeOK, history
<1>3. CASE RecoverTorn(a)
  <2>1. job[a].t \notin contended => job[a].t \in torn
    BY <1>3, <1>o DEF RecoverTorn, NotDone, Recovering, At
  <2> QED  BY <1>3, <1>g, <2>1 DEF RecoverTorn, NotDone, Recovering, At
<1>7. CASE FinalizeFails(a)
  <2>1. job[a].t \notin contended => job[a].t \in Forged
    BY <1>7, <1>o DEF FinalizeFails, At, Complete, HashMatches
  <2> QED  BY <1>7, <1>g, <2>1 DEF FinalizeFails, At
\* Steps of the assembly before its end: state.json is left alone.
<1>m. ASSUME NEW s \in State, Agree(s, copy[a]), NEW p \in {"assemble", "publish", "finish"},
             p = "assemble" => full[job[a].t] = Chunks[job[a].t],
             pc' = [pc EXCEPT ![a] = p], copy' = [copy EXCEPT ![a] = s], pc[a] # "write",
             UNCHANGED <<state, full, empty, job, contended, torn, expired>>
      PROVE  Acts(a, job[a].t)
  <2>1. job[a].t \notin contended => Owes(a, job[a].t)
    <3> SUFFICES ASSUME job[a].t \notin contended
                 PROVE  Owes(a, job[a].t)
      OBVIOUS
    <3>1. pc'[a] = p /\ copy'[a] = s
      BY <1>m DEF TypeOK
    <3>2. copy[a].failed => job[a].t \in expired \cup Forged \cup torn \/ StruckThen(job[a].t)
      BY <1>m, <1>w, <1>o, StrikesStay
    <3> QED  BY <1>m, <1>n, <1>o, <3>1, <3>2 DEF Owes, Agree
  <2> QED  BY <1>m, <1>w, <2>1 DEF Acts, TypeOK
<1>5. CASE StartFinalize(a)
  <2>1. [copy[a] EXCEPT !.received = Count(job[a].t)] \in State
    BY <1>w, CountsAreNat DEF State
  <2> QED  BY <1>5, <1>w, <1>m, <2>1 DEF StartFinalize, Assemblable, Complete, NotDone, Recovering, At, Hold, Agree, State, history
<1>6. CASE Assemble(a)
  BY <1>6, <1>w, <1>m DEF Assemble, At, Hold, Agree, disk, history
<1>8. CASE Publish(a)
  BY <1>8, <1>w, <1>m DEF Publish, At, Hold, Agree
<1> QED  BY <1>1, <1>2, <1>3, <1>4, <1>5, <1>6, <1>7, <1>8, <1>9 DEF Recover

\* A step at work after which state.json and the copy agree on s.
LEMMA WorkStep ==
  ASSUME TypeOK, Single, NEW a \in Threads, pc[a] # "idle",
         NEW s \in State, copy[a].failed => s.failed, copy[a].done => s.done,
         \/ ~s.failed \/ job[a].t \in expired
         \/ s.strikes = copy[a].strikes /\ copy[a].failed
         \/ \E c \in Chunks[job[a].t] : s.strikes[c] >= MaxStrikes,
         state' = [state EXCEPT ![job[a].t] = s] \/ (state' = state /\ Agree(s, copy[a])),
         NEW p \in Places \ {"assemble"}, pc' = [pc EXCEPT ![a] = p],
         p # "idle" => Agree(s, copy'[a]) /\ job'[a].t = job[a].t,
         \A b \in Threads \ {a} : job'[b] = job[b] /\ copy'[b] = copy[b],
         \A x \in empty'[job[a].t] :
           \/ p = "write" /\ job'[a].c = x
           \/ x \in empty[job[a].t] /\ (pc[a] = "write" => job[a].c # x),
         \A u \in Transfers \ {job[a].t} : full'[u] = full[u] /\ empty'[u] = empty[u],
         UNCHANGED <<history, expired>>
  PROVE  Acts(a, job[a].t)
<1>w. /\ job[a].t \in Transfers /\ copy[a] \in State
      /\ (\E b \in Threads \ {a} : Busy(b, job[a].t)) => job[a].t \in contended
  BY AtWork
<1>o. ASSUME job[a].t \notin contended
      PROVE  /\ state[job[a].t] \in State /\ Agree(state[job[a].t], copy[a])
             /\ job[a].t \notin torn => \A x \in empty[job[a].t] : pc[a] = "write" /\ job[a].c = x
             /\ copy[a].failed => job[a].t \in expired \cup Forged \cup torn \/ Struckout(job[a].t)
  BY <1>o, AtWork
<1>n. \A r \in State : r # NoState
  BY MediaConstants
<1>p. pc'[a] = p
  BY DEF TypeOK
<1>1. ASSUME job[a].t \notin contended
      PROVE  Owes(a, job[a].t)
  <2>1. state'[job[a].t] \in State /\ Agree(state'[job[a].t], s)
    BY <1>1, <1>w, <1>o DEF TypeOK, Agree
  <2>2. s.failed => job[a].t \in expired \cup Forged \cup torn \/ StruckThen(job[a].t)
    <3>0. CASE ~s.failed \/ job[a].t \in expired
      BY <3>0
    <3>1. CASE s.strikes = copy[a].strikes /\ copy[a].failed
      <4>1. state'[job[a].t].strikes = state[job[a].t].strikes
        BY <1>1, <1>o, <2>1, <3>1 DEF Agree
      <4> QED  BY <1>1, <1>w, <1>o, <3>1, <4>1, StrikesStay
    <3>2. CASE \E c \in Chunks[job[a].t] : s.strikes[c] >= MaxStrikes
      BY <2>1, <3>2 DEF StruckThen, Agree
    <3> QED  BY <3>0, <3>1, <3>2
  <2>3. job[a].t \notin torn => \A x \in empty'[job[a].t] : pc'[a] = "write" /\ job'[a].c = x
    BY <1>1, <1>o, <1>p
  <2> QED  BY <1>1, <1>n, <1>o, <1>p, <2>1, <2>2, <2>3 DEF Owes, Agree
<1> QED  BY <1>w, <1>p, <1>1 DEF Acts, TypeOK, history

\* A step at work that writes nothing and rests.
LEMMA RestStep ==
  ASSUME TypeOK, Single, NEW a \in Threads, pc[a] # "idle", pc[a] # "write", Rest(a),
         UNCHANGED <<state, full, empty, history, expired>>
  PROVE  Acts(a, job[a].t)
<1>1. copy[a] \in State
  BY AtWork
<1> QED  BY <1>1, WorkStep DEF Rest, Hold, Agree, Places, TypeOK

\* A step of a thread that enters a transfer.
LEMMA EnterStep ==
  ASSUME TypeOK, Single, NEW a \in Threads, NEW t \in Transfers, Enter(a, t),
         UNCHANGED <<torn, expired>>,
         pc'[a] # "idle" => job'[a].t = t,
         \A u \in Transfers \ {t} : state'[u] = state[u] /\ full'[u] = full[u] /\ empty'[u] = empty[u],
         \A b \in Threads \ {a} : pc'[b] = pc[b] /\ job'[b] = job[b] /\ copy'[b] = copy[b],
         pc'[a] # "idle" => state'[t] # NoState /\ Agree(state'[t], copy'[a]),
         pc'[a] # "assemble", empty'[t] \subseteq empty[t],
         state'[t] # NoState /\ state'[t].failed =>
           t \in expired \/ (state[t] # NoState /\ state[t].failed /\ state'[t].strikes = state[t].strikes),
         state[t] # NoState => /\ state[t].failed => state'[t].failed
                               /\ state[t].done => state'[t].done
  PROVE  Acts(a, t)
<1>1. /\ pc[a] = "idle"
      /\ contended \subseteq contended' /\ contended' \subseteq contended \cup {t}
      /\ (\E b \in Threads \ {a} : Busy(b, t)) => t \in contended'
  BY DEF Enter, At
<1>2. ASSUME t \notin contended'
      PROVE  Owes(a, t)
  <2>1. t \notin contended /\ \A b \in Threads \ {a} : ~Busy(b, t)
    BY <1>1, <1>2
  <2>2. t \notin torn => empty[t] = {}
    BY <1>1, <2>1 DEF Single, Busy
  <2>3. state'[t] # NoState /\ state'[t].failed => t \in expired \cup Forged \cup torn \/ StruckThen(t)
    BY <2>1, StrikesStay DEF Single, FailureHasCause
  <2> QED  BY <2>2, <2>3 DEF Owes
<1> QED  BY <1>1, <1>2 DEF Acts

LEMMA BeginActs ==
  ASSUME TypeOK, Single, NEW a \in Threads, NEW t \in Transfers,
         NEW kind, NEW c, NEW damaged, Begin(a, kind, t, c, damaged)
  PROVE  Acts(a, t)
<1>1. pc'[a] = "recover" /\ copy'[a] = state[t] /\ job'[a].t = t
  BY DEF Begin, Hold, TypeOK
<1> QED  BY <1>1, EnterStep DEF Begin, Hold, Agree, disk, TypeOK

\* mark_transfer_failed on an expired transfer.
LEMMA MarkFailedStep ==
  ASSUME TypeOK, NEW t \in Transfers, MarkFailed(t)
  PROVE  /\ \A u \in Transfers \ {t} : state'[u] = state[u] /\ full'[u] = full[u] /\ empty'[u] = empty[u]
         /\ empty'[t] \subseteq empty[t]
         /\ state[t] # NoState => /\ state'[t] \in State
                                  /\ state[t].failed => state'[t].failed
                                  /\ state[t].done <=> state'[t].done
         /\ state[t] = NoState => state'[t] = NoState
<1>1. CASE state[t] # NoState /\ ~Terminal(state[t])
  <2>1. state[t] \in State
    BY <1>1 DEF TypeOK
  <2>2. Failing(state[t]) \in State /\ Failing(state[t]).failed /\ Failing(state[t]).done = state[t].done
    BY <2>1, StatesTyped DEF Failing, State
  <2> QED  BY <1>1, <2>2, RemovalLocal DEF MarkFailed, Persist, TypeOK
<1>2. CASE ~(state[t] # NoState /\ ~Terminal(state[t]))
  BY <1>2 DEF MarkFailed, TypeOK
<1> QED  BY <1>1, <1>2

LEMMA ChunkActs ==
  ASSUME TypeOK, JobOK, Single, NEW a \in Threads, Chunk(a)
  PROVE  \E t \in Transfers : Acts(a, t)
<1>1. ASSUME NEW t \in Transfers, NEW c \in Chunks[t], NEW damaged \in BOOLEAN,
             ReceiveChunk(a, t, c, damaged)
      PROVE  Acts(a, t)
  BY <1>1, BeginActs DEF ReceiveChunk
<1>2. ASSUME NEW t \in Transfers, ReceiveLateChunk(a, t)
      PROVE  Acts(a, t)
  BY <1>2, MarkFailedStep, EnterStep DEF ReceiveLateChunk, Enter, At, threads
<1>3. CASE IgnoreChunk(a)
  BY <1>3, RestStep, AtWork DEF IgnoreChunk, At, disk
<1>4. CASE ExpireAtChunk(a)
  <2>1. pc[a] = "ingest" /\ copy[a] \in State /\ job[a].t \in expired
    BY <1>4, AtWork DEF ExpireAtChunk, Ingesting, At
  <2>2. [copy[a] EXCEPT !.failed = TRUE] \in State
    BY <2>1 DEF State
  <2> QED  BY <1>4, <2>1, <2>2, WorkStep, AtWork DEF ExpireAtChunk, Persist, Rest, Hold, Places, State, TypeOK
<1>5. CASE Strike(a)
  <2>1. pc[a] = "ingest" /\ copy[a] \in State /\ ~copy[a].failed /\ ~copy[a].done /\ job[a].t \in Transfers
        /\ job[a].c \in Chunks[job[a].t]
    BY <1>5, AtWork DEF Strike, Ingesting, At, Terminal, JobOK
  <2>2. Struck(a) \in State /\ ~Struck(a).failed
    <3>1. job[a].c \in Indices
      BY <2>1, MediaConstants
    <3>2. [copy[a].strikes EXCEPT ![job[a].c] = @ + 1] \in [Indices -> Nat]
      BY <2>1, <3>1 DEF State
    <3>3. Struck(a) = [copy[a] EXCEPT !.strikes = [copy[a].strikes EXCEPT ![job[a].c] = @ + 1]]
      BY DEF Struck
    <3> QED  BY <2>1, <3>2, <3>3 DEF State
  <2>3. Failing(Struck(a)) \in State /\ Failing(Struck(a)).strikes = Struck(a).strikes
    BY <2>2 DEF Failing, State
  <2>4. CASE Struck(a).strikes[job[a].c] >= MaxStrikes
    <3>1. Failing(Struck(a)).strikes[job[a].c] >= MaxStrikes
      BY <2>3, <2>4
    <3> QED  BY <1>5, <2>1, <2>3, <2>4, <3>1, RemovalLocal, WorkStep DEF Strike, Persist, Rest, Hold, Places, TypeOK
  <2>5. CASE ~(Struck(a).strikes[job[a].c] >= MaxStrikes)
    BY <1>5, <2>1, <2>2, <2>5, WorkStep DEF Strike, Persist, Rest, Hold, Places, TypeOK
  <2> QED  BY <2>1, <2>4, <2>5
<1>6. CASE CreateChunk(a)
  <2>1. pc[a] = "ingest" /\ copy[a] \in State /\ ~copy[a].failed /\ job[a].t \in Transfers
    BY <1>6, AtWork DEF CreateChunk, Accepting, Ingesting, At, Terminal
  <2>2. \A x \in empty'[job[a].t] : job'[a].c = x \/ x \in empty[job[a].t]
    BY <1>6, <2>1 DEF CreateChunk, TypeOK
  <2> QED  BY <1>6, <2>1, <2>2, WorkStep DEF CreateChunk, Hold, Agree, Places, TypeOK
<1>7. CASE WriteChunk(a)
  <2>1. pc[a] = "write" /\ copy[a] \in State /\ job[a].t \in Transfers
    BY <1>7, AtWork DEF WriteChunk, At
  <2>2. empty'[job[a].t] = empty[job[a].t] \ {job[a].c}
    BY <1>7, <2>1 DEF WriteChunk, TypeOK
  <2>3. \A u \in Transfers \ {job[a].t} : full'[u] = full[u] /\ empty'[u] = empty[u]
    BY <1>7, <2>1 DEF WriteChunk, TypeOK
  <2>4. ~copy[a].failed \/ copy[a].failed
    OBVIOUS
  <2> QED  BY <1>7, <2>1, <2>2, <2>3, <2>4, WorkStep DEF WriteChunk, Hold, Agree, Places, TypeOK
<1>8. CASE CountChunk(a)
  <2>1. pc[a] = "account" /\ copy[a] \in State /\ job[a].t \in Transfers /\ job[a] \in Job
    BY <1>8, AtWork DEF CountChunk, At
  <2>2. [copy[a] EXCEPT !.received = @ + 1] \in State /\ Agree([copy[a] EXCEPT !.received = @ + 1], copy[a])
    BY <2>1 DEF State, Agree
  <2>3. job'[a].t = job[a].t /\ \A b \in Threads \ {a} : job'[b] = job[b]
    BY <1>8, <2>1 DEF CountChunk, Again, Job, TypeOK
  <2> QED  BY <1>8, <2>1, <2>2, <2>3, WorkStep DEF CountChunk, Persist, Hold, Agree, Places, TypeOK
<1>9. CASE DuplicateChunk(a)
  <2>1. pc[a] = "ingest" /\ copy[a] \in State /\ job[a].t \in Transfers /\ job[a] \in Job
    BY <1>9, AtWork DEF DuplicateChunk, Accepting, Ingesting, At
  <2>2. job'[a].t = job[a].t /\ \A b \in Threads \ {a} : job'[b] = job[b]
    BY <1>9, <2>1 DEF DuplicateChunk, Again, Job, TypeOK
  <2> QED  BY <1>9, <2>1, <2>2, WorkStep DEF DuplicateChunk, Persist, Hold, Agree, Places, TypeOK
<1>10. CASE Report(a)
  <2>1. pc[a] = "report" /\ copy[a] \in State /\ job[a].t \in Transfers
    BY <1>10, AtWork DEF Report, At
  <2> QED  BY <1>10, <2>1, WorkStep DEF Report, Hold, Agree, Places, TypeOK, disk
<1> QED  BY <1>1, <1>2, <1>3, <1>4, <1>5, <1>6, <1>7, <1>8, <1>9, <1>10, AtWork DEF Chunk,
            IgnoreChunk, ExpireAtChunk, Strike, CreateChunk, WriteChunk, CountChunk, DuplicateChunk,
            Report, Accepting, Ingesting, At

LEMMA ManifestActs ==
  ASSUME TypeOK, JobOK, Single, NEW a \in Threads, Manifest(a)
  PROVE  \E t \in Transfers : Acts(a, t)
<1>1. ASSUME NEW t \in Transfers, NewManifest(a, t)
      PROVE  Acts(a, t)
  <2>1. state'[t] = Fresh(t) /\ ~Fresh(t).failed /\ Fresh(t) \in State /\ Fresh(t) # NoState
    BY <1>1, StatesTyped, MediaConstants DEF NewManifest, Persist, Fresh, TypeOK
  <2>2. pc'[a] = "request" /\ copy'[a] = Fresh(t) /\ job'[a].t = t
    BY <1>1 DEF NewManifest, Hold, TypeOK
  <2> QED  BY <1>1, <2>1, <2>2, EnterStep DEF NewManifest, Persist, Hold, Agree, TypeOK
<1>2. ASSUME NEW t \in Transfers, LateManifest(a, t)
      PROVE  Acts(a, t)
  BY <1>2, EnterStep DEF LateManifest, Enter, At, disk, threads
<1>3. ASSUME NEW t \in Transfers, Begin(a, "manifest", t, NoState, FALSE)
      PROVE  Acts(a, t)
  BY <1>3, BeginActs
<1>4. CASE UpdateManifest(a)
  <2>1. pc[a] = "update" /\ copy[a] \in State /\ job[a].t \in Transfers
    BY <1>4, AtWork DEF UpdateManifest, At
  <2>2. CASE Terminal(copy[a])
    BY <1>4, <2>1, <2>2, RestStep DEF UpdateManifest
  <2>3. CASE ~Terminal(copy[a])
    BY <1>4, <2>1, <2>3, WorkStep DEF UpdateManifest, Terminal, Persist, Hold, Agree, Places, TypeOK
  <2> QED  BY <2>1, <2>2, <2>3
<1>5. CASE SendRequest(a)
  <2>1. pc[a] = "request" /\ copy[a] \in State /\ job[a].t \in Transfers
    BY <1>5, AtWork DEF SendRequest, At
  <2> QED  BY <1>5, <2>1, WorkStep DEF SendRequest, Terminal, Persist, Rest, Hold, Agree, Places, TypeOK
<1>6. CASE SkipRequest(a)
  BY <1>6, RestStep, AtWork DEF SkipRequest, At, disk
<1> QED  BY <1>1, <1>2, <1>3, <1>4, <1>5, <1>6, AtWork DEF Manifest, UpdateManifest, SendRequest, SkipRequest, At

LEMMA HousekeepingActs ==
  ASSUME TypeOK, JobOK, Single, NEW a \in Threads, Housekeeping(a)
  PROVE  \E t \in Transfers : Acts(a, t)
<1>1. ASSUME NEW t \in Transfers, Pulse(a, t) \/ Sweep(a, t) \/ Settle(a, t)
      PROVE  Acts(a, t)
  BY <1>1, BeginActs DEF Pulse, Sweep, Settle
<1>2. CASE Expire(a)
  <2>1. pc[a] = "expire" /\ copy[a] \in State /\ job[a].t \in Transfers
    BY <1>2, AtWork DEF Expire, At
  <2>2. CASE ~(~copy[a].done /\ job[a].t \in expired)
    BY <1>2, <2>1, <2>2, RestStep DEF Expire
  <2>3. CASE ~copy[a].done /\ job[a].t \in expired
    <3>1. /\ \A u \in Transfers \ {job[a].t} : state'[u] = state[u] /\ full'[u] = full[u] /\ empty'[u] = empty[u]
          /\ empty'[job[a].t] \subseteq empty[job[a].t]
          /\ state[job[a].t] # NoState => /\ state[job[a].t].failed => state'[job[a].t].failed
                                          /\ state[job[a].t].done <=> state'[job[a].t].done
      BY <1>2, <2>1, <2>3, MarkFailedStep DEF Expire
    <3>2. pc'[a] = "idle" /\ \A b \in Threads \ {a} : pc'[b] = pc[b] /\ job'[b] = job[b] /\ copy'[b] = copy[b]
      BY <1>2 DEF Expire, Rest, Hold, TypeOK
    <3>3. job[a].t \notin contended => Owes(a, job[a].t)
      BY <2>1, <2>3, <3>1, <3>2, AtWork DEF Owes
    <3> QED  BY <1>2, <2>1, <3>1, <3>2, <3>3, AtWork DEF Expire, Acts, history
  <2> QED  BY <2>1, <2>2, <2>3
<1>3. CASE ShowSettled(a)
  BY <1>3, RestStep, AtWork DEF ShowSettled, At, disk
<1> QED  BY <1>1, <1>2, <1>3, AtWork DEF Housekeeping, Expire, ShowSettled, At

LEMMA SingleNext ==
  ASSUME TypeOK, JobOK, Single, [Next]_vars
  PROVE  Single' /\ Final
<1>1. ASSUME NEW a \in Threads, Recover(a) \/ Chunk(a) \/ Manifest(a) \/ Housekeeping(a)
      PROVE  Single' /\ Final
  <2>1. Recover(a) => job[a].t \in Transfers
    BY HoldsJob DEF Recover, RecoverFromStore, RecoverDone, RecoverTorn, RecoverCount, StartFinalize,
         Assemble, FinalizeFails, Publish, Finish, NotDone, Recovering, At
  <2> QED  BY <1>1, <2>1, RecoverActs, ChunkActs, ManifestActs, HousekeepingActs, ActsKeep
<1>2. CASE Reconcile
  BY <1>2 DEF Reconcile, Single, FailureHasCause, Struckout, Busy, Complete, Final, threads, history
<1>3. ASSUME NEW x \in Objects, SweepComplete(x)
      PROVE  Single' /\ Final
  BY <1>3 DEF SweepComplete, Single, FailureHasCause, Struckout, Busy, Complete, Final, threads, history
<1>4. CASE TimePasses
  <2>1. expired \subseteq expired'
    BY <1>4 DEF TimePasses
  <2> QED  BY <1>4, <2>1 DEF TimePasses, Single, FailureHasCause, Struckout, Busy, Complete, Final, disk, threads, history
<1>5. CASE Crash
  <2>1. \A t \in Transfers \ (contended \cup torn') : empty[t] = {}
    BY <1>5 DEF Crash, Single, At
  <2>2. torn \subseteq torn'
    BY <1>5 DEF Crash
  <2>3. \A a \in Threads : pc'[a] = "idle"
    BY <1>5 DEF Crash
  <2> QED  BY <1>5, <2>1, <2>2, <2>3 DEF Crash, Single, FailureHasCause, Struckout, Busy, Final, disk
<1>6. CASE UNCHANGED vars
  BY <1>6 DEF vars, Single, FailureHasCause, Struckout, Busy, Complete, Final, disk, threads, history
<1> QED  BY <1>1, <1>2, <1>3, <1>4, <1>5, <1>6 DEF Next

LEMMA SingleInitially ==
  ASSUME Init
  PROVE  Single
BY DEF Init, Single, FailureHasCause, Busy

\* A transfer no two threads worked on at once fails only for a reason.
THEOREM FailuresHaveCauses == Spec => []FailureHasCause
<1>1. Init => TypeOK /\ JobOK /\ Single
  BY InitTyped, SingleInitially
<1>2. TypeOK /\ JobOK /\ Single /\ [Next]_vars => TypeOK' /\ JobOK' /\ Single'
  BY NextTyped, SingleNext
<1>3. Single => FailureHasCause
  BY DEF Single
<1> QED  BY <1>1, <1>2, <1>3, PTL DEF Spec

\* A transfer no two threads work on at once keeps its outcome.
THEOREM OutcomesAreFinal == Spec => OutcomeIsFinal
<1>1. Init => TypeOK /\ JobOK /\ Single
  BY InitTyped, SingleInitially
<1>2. TypeOK /\ JobOK /\ Single /\ [Next]_vars => TypeOK' /\ JobOK' /\ Single'
  BY NextTyped, SingleNext
<1>3. TypeOK /\ JobOK /\ Single /\ [Next]_vars => Final
  BY SingleNext
<1>4. Final =>
        [\A t \in Transfers : state[t] # NoState /\ t \notin contended' =>
           /\ state[t].failed => state'[t].failed
           /\ state[t].done => state'[t].done]_vars
  BY DEF Final
<1> QED  BY <1>1, <1>2, <1>3, <1>4, PTL DEF Spec, OutcomeIsFinal
====
