---- MODULE MediaRepair_proofs ----
(***************************************************************************)
(* Whoever has a manifest can be served, and no request passes over a      *)
(* chunk that is missing, for transfers of any length, any ceilings and    *)
(* queues, and any number of faults.                                       *)
(*                                                                         *)
(* The first invariant, IInv, says where the send stands: until the bytes  *)
(* are written the manifest is in neither store, and once they are they    *)
(* stay.  The second, TInv, is the types together with Listing, by which   *)
(* no request is made for nothing: After has no value for an empty set.    *)
(***************************************************************************)
EXTENDS MediaRepair, FiniteSetTheorems, TLAPS

-----------------------------------------------------------------------------
(* The bytes are there before the manifest.                                *)

\* The manifest is in one of the two stores.
Out == Manifest \in published \cup seen

IInv ==
  /\ Out => outbound = "whole" /\ sending \notin {"ready", "source"}
  /\ sending \in {"manifest", "chunks", "done"} => outbound = "whole"

LEMMA InitInv == Init => IInv
BY DEF Init, IInv, Out

\* A step of neither the send nor the stores.
LEMMA Elsewhere ==
  ASSUME IInv, UNCHANGED <<sending, outbound, published, seen>>
  PROVE  IInv'
BY DEF IInv, Out

\* Chunks that are stored on either side say nothing of the manifest.
LEMMA ChunksStored ==
  ASSUME IInv, NEW S \in SUBSET Chunks, NEW R \in SUBSET Chunks,
         published' = published \cup S, seen' = seen \cup R,
         UNCHANGED <<sending, outbound>>
  PROVE  IInv'
<1>1. Manifest \notin Chunks BY RepairConstants DEF Chunks
<1> QED BY <1>1 DEF IInv, Out

LEMMA SendKeeps ==
  ASSUME IInv, Send \/ WriteSource \/ PublishManifest \/ PublishChunk \/ Sent \/ SendFails
  PROVE  IInv'
<1>1. seen' = seen
  BY DEF Send, WriteSource, PublishManifest, PublishChunk, Sent, SendFails, Stage, receiver
<1>2. CASE Send
  BY <1>1, <1>2 DEF Send, Stage, IInv, Out
<1>3. CASE WriteSource
  BY <1>1, <1>3 DEF WriteSource, Stage, IInv, Out
<1>4. CASE PublishManifest
  BY <1>1, <1>4 DEF PublishManifest, Stage, IInv, Out
<1>5. CASE PublishChunk
  BY <1>1, <1>5 DEF PublishChunk, Stage, IInv, Out
<1>6. CASE Sent
  BY <1>1, <1>6 DEF Sent, Stage, IInv, Out
<1>7. CASE SendFails
  BY <1>1, <1>7 DEF SendFails, Stage, IInv, Out
<1> QED BY <1>2, <1>3, <1>4, <1>5, <1>6, <1>7

LEMMA StepInv == IInv /\ [Next]_vars => IInv'
<1> SUFFICES ASSUME IInv, [Next]_vars PROVE IInv'
  OBVIOUS
<1>1. CASE Send \/ WriteSource \/ PublishManifest \/ PublishChunk \/ Sent \/ SendFails
  BY <1>1, SendKeeps
<1>2. CASE Announce \/ Learn
  BY <1>2, Elsewhere DEF Announce, Learn, receiver
<1>3. CASE Pulse \/ Ripen \/ Reopen
  BY <1>3, Elsewhere DEF Pulse, Ripen, Reopen, sender, receiver
<1>4. ASSUME NEW c \in Chunks, Forget(c) \/ PassChunk(c) \/ KeepChunk(c) \/ RefuseChunk(c)
      PROVE  IInv'
  BY <1>4, Elsewhere DEF Forget, PassChunk, KeepChunk, RefuseChunk, sender, receiver
<1>5. ASSUME NEW r \in Request, Ignore(r) \/ LoseRequest(r)
      PROVE  IInv'
  BY <1>5, Elsewhere DEF Ignore, LoseRequest, sender, receiver
<1>6. ASSUME NEW r \in Request, NEW sent \in SUBSET Chunks, Serve(r, sent)
      PROVE  IInv'
  <2>1. published' = published \cup sent /\ UNCHANGED <<sending, outbound, seen>>
    BY <1>6 DEF Serve, Queue, receiver
  <2>2. seen' = seen \cup {} /\ {} \in SUBSET Chunks
    BY <2>1
  <2> QED BY <2>1, <2>2, ChunksStored
<1>7. ASSUME NEW S \in SUBSET Items, Gossip(S)
      PROVE  IInv'
  <2>1. S \subseteq published /\ seen' = seen \cup S /\ UNCHANGED <<sending, outbound, published>>
    BY <1>7 DEF Gossip, Import, sender
  <2> QED BY <2>1 DEF IInv, Out
<1>8. ASSUME NEW got \in SUBSET Chunks, Flush(got)
      PROVE  IInv'
  <2>1. UNCHANGED <<sending, outbound, published>>
    BY <1>8 DEF Flush
  <2>2. published' = published \cup {} /\ {} \in SUBSET Chunks
    BY <2>1
  <2>3. seen' = seen \cup {} \/ seen' = seen \cup got
    BY <1>8 DEF Flush, Bring, Import, receiver
  <2> QED BY <2>1, <2>2, <2>3, ChunksStored
<1>9. CASE HandleManifest \/ Expire
  BY <1>9, Elsewhere DEF HandleManifest, Expire, sender, receiver
<1>10. CASE SenderStops
  BY <1>10 DEF SenderStops, receiver, IInv, Out
<1>11. CASE ReceiverStops
  BY <1>11, Elsewhere DEF ReceiverStops, sender
<1>12. CASE UNCHANGED vars
  BY <1>12, Elsewhere DEF vars, sender, receiver
<1> QED
  BY <1>1, <1>2, <1>3, <1>4, <1>5, <1>6, <1>7, <1>8, <1>9, <1>10, <1>11, <1>12 DEF Next

\* The manifest is never in a store before the bytes of the object are on the
\* sender's disk, whatever fails or stops (send_media_manifest_and_chunks).
THEOREM ManifestHasItsBytes == Spec => []ManifestIsBacked
<1>1. IInv => ManifestIsBacked
  BY DEF IInv, Out, ManifestIsBacked
<1> QED
  BY InitInv, StepInv, <1>1, PTL DEF Spec

-----------------------------------------------------------------------------
(* The cursor: chunks numbered from a place on.                            *)

LEMMA ModSmall ==
  ASSUME NEW n \in Nat \ {0}, NEW a \in 0 .. n - 1
  PROVE  a % n = a /\ (a + n) % n = a
OBVIOUS

LEMMA AwayIs ==
  ASSUME NEW c \in Chunks, NEW from \in Chunks
  PROVE  Away(c, from) = IF c >= from THEN c - from ELSE c - from + ChunkCount
<1>1. ChunkCount \in Nat \ {0} /\ c \in 0 .. ChunkCount - 1 /\ from \in 0 .. ChunkCount - 1
  BY RepairConstants DEF Chunks
<1>2. CASE c >= from
  <2>1. c - from \in 0 .. ChunkCount - 1 /\ c + ChunkCount - from = (c - from) + ChunkCount
    BY <1>1, <1>2
  <2>2. ((c - from) + ChunkCount) % ChunkCount = c - from
    BY <1>1, <2>1, ModSmall
  <2>3. Away(c, from) = c - from
    BY <2>1, <2>2 DEF Away
  <2> QED BY <1>2, <2>3
<1>3. CASE c < from
  <2>1. c + ChunkCount - from \in 0 .. ChunkCount - 1
    BY <1>1, <1>3
  <2>2. Away(c, from) = c + ChunkCount - from
    BY <1>1, <2>1, ModSmall DEF Away
  <2>3. c + ChunkCount - from = c - from + ChunkCount /\ ~(c >= from)
    BY <1>1, <1>3
  <2> QED BY <2>2, <2>3
<1> QED BY <1>1, <1>2, <1>3

\* The number of elements before one is a numbering of the set.
LEMMA RankIsNumbering ==
  ASSUME NEW S, IsFiniteSet(S), NEW f \in [S -> Int],
         \A x, y \in S : f[x] = f[y] => x = y
  PROVE  [x \in S |-> Cardinality({y \in S : f[y] < f[x]})]
           \in Bijection(S, 0 .. Cardinality(S) - 1)
<1> DEFINE before(x) == {y \in S : f[y] < f[x]}
           r == [x \in S |-> Cardinality(before(x))]
           T == 0 .. Cardinality(S) - 1
<1>1. \A x \in S : IsFiniteSet(before(x)) /\ Cardinality(before(x)) \in Nat
  BY FS_Subset, FS_CardinalityType
<1>2. Cardinality(S) \in Nat
  BY FS_CardinalityType
<1>3. ASSUME NEW x \in S PROVE Cardinality(before(x)) \in T
  <2>1. before(x) \in SUBSET S /\ before(x) # S
    OBVIOUS
  <2>2. Cardinality(before(x)) <= Cardinality(S) /\ Cardinality(S) # Cardinality(before(x))
    BY <2>1, FS_Subset
  <2> QED BY <1>1, <1>2, <2>2
<1>4. ASSUME NEW x \in S, NEW y \in S, f[x] < f[y]
      PROVE  Cardinality(before(x)) # Cardinality(before(y))
  <2>1. before(x) \in SUBSET before(y) /\ before(x) # before(y)
    BY <1>4
  <2>2. IsFiniteSet(before(y))
    BY <1>1
  <2> QED BY <2>1, <2>2, FS_Subset
<1>5. \A x, y \in S : x # y => f[x] < f[y] \/ f[y] < f[x]
  OBVIOUS
<1>6. r \in Injection(S, T)
  <2>1. r \in [S -> T]
    BY <1>3
  <2>2. \A x, y \in S : r[x] = r[y] => x = y
    BY <1>4, <1>5
  <2> HIDE DEF r
  <2> QED BY <2>1, <2>2 DEF Injection, IsInjective
<1>7. IsFiniteSet(T) /\ Cardinality(T) = Cardinality(S)
  BY <1>2, 0 \in Int, Cardinality(S) - 1 \in Int, FS_Interval
<1> HIDE DEF r, T
<1>8. r \in Surjection(S, T)
  BY <1>6, <1>7, FS_Injection
<1>9. r \in Bijection(S, T)
  BY <1>6, <1>8 DEF Bijection
<1> QED BY <1>9 DEF r, T

LEMMA AwayFacts ==
  ASSUME NEW from \in Chunks
  PROVE  /\ \A c \in Chunks : Away(c, from) \in 0 .. ChunkCount - 1
         /\ \A c, d \in Chunks : Away(c, from) = Away(d, from) => c = d
<1>1. ChunkCount \in Nat \ {0} /\ from \in 0 .. ChunkCount - 1
  BY RepairConstants DEF Chunks
<1>2. \A c \in Chunks : Away(c, from) = IF c >= from THEN c - from ELSE c - from + ChunkCount
  BY AwayIs
<1> QED BY <1>1, <1>2 DEF Chunks

\* The place of a chunk among those of S, counted from a chunk on.
Place(c, S, from) == Cardinality({d \in S : Away(d, from) < Away(c, from)})

LEMMA PlacesAreTaken ==
  ASSUME NEW S \in SUBSET Chunks, NEW from \in Chunks
  PROVE  /\ IsFiniteSet(S) /\ Cardinality(S) \in Nat
         /\ \A c \in S : Place(c, S, from) \in 0 .. Cardinality(S) - 1
         /\ \A n \in 0 .. Cardinality(S) - 1 : \E c \in S : Place(c, S, from) = n
         /\ \A c, d \in S : Place(c, S, from) = Place(d, S, from) => c = d
         /\ \A c, d \in S : Place(c, S, from) < Place(d, S, from) => Away(c, from) < Away(d, from)
<1> DEFINE f == [c \in S |-> Away(c, from)]
           r == [c \in S |-> Cardinality({d \in S : f[d] < f[c]})]
<1>1. IsFiniteSet(S)
  <2>1. 0 \in Int /\ ChunkCount - 1 \in Int
    BY RepairConstants
  <2>2. IsFiniteSet(Chunks)
    BY <2>1, FS_Interval DEF Chunks
  <2> QED BY <2>2, FS_Subset
<1>2. Cardinality(S) \in Nat
  BY <1>1, FS_CardinalityType
<1>3. f \in [S -> Int] /\ \A c, d \in S : f[c] = f[d] => c = d
  BY AwayFacts
<1>4. r \in Bijection(S, 0 .. Cardinality(S) - 1)
  <2> HIDE DEF f
  <2> QED BY <1>1, <1>3, RankIsNumbering
<1>5. \A c \in S : r[c] = Place(c, S, from)
  BY DEF Place
<1>6. /\ r \in [S -> 0 .. Cardinality(S) - 1]
      /\ \A n \in 0 .. Cardinality(S) - 1 : \E c \in S : r[c] = n
      /\ \A c, d \in S : r[c] = r[d] => c = d
  <2> HIDE DEF r
  <2> QED BY <1>4 DEF Bijection, Injection, IsInjective, Surjection
<1>7. ASSUME NEW c \in S, NEW d \in S, ~(Away(c, from) < Away(d, from))
      PROVE  Place(d, S, from) <= Place(c, S, from)
  <2> DEFINE before(x) == {y \in S : Away(y, from) < Away(x, from)}
  <2>1. before(d) \in SUBSET before(c)
    BY <1>7, AwayFacts
  <2>2. IsFiniteSet(before(c))
    BY <1>1, FS_Subset
  <2> QED BY <2>1, <2>2, FS_Subset DEF Place
<1> HIDE DEF r, f
<1>8. \A c \in S : Place(c, S, from) \in 0 .. Cardinality(S) - 1
  BY <1>5, <1>6
<1>9. \A n \in 0 .. Cardinality(S) - 1 : \E c \in S : Place(c, S, from) = n
  BY <1>5, <1>6
<1>10. \A c, d \in S : Place(c, S, from) < Place(d, S, from) => Away(c, from) < Away(d, from)
  BY <1>2, <1>7, <1>8
<1>11. \A c, d \in S : Place(c, S, from) = Place(d, S, from) => c = d
  BY <1>5, <1>6
<1> QED BY <1>1, <1>2, <1>8, <1>9, <1>10, <1>11

\* The first n of a set are some of it; there are some, and the last of them is
\* nearer than what is left out.
LEMMA FirstOfFacts ==
  ASSUME NEW S \in SUBSET Chunks, S # {}, NEW from \in Chunks, NEW n \in Nat \ {0}
  PROVE  /\ FirstOf(n, S, from) \subseteq S
         /\ FirstOf(n, S, from) # {}
         /\ \A c \in FirstOf(n, S, from), d \in S \ FirstOf(n, S, from) :
              Away(c, from) < Away(d, from)
<1>1. FirstOf(n, S, from) = {c \in S : Place(c, S, from) < n}
  BY DEF FirstOf, Place
<1>2. Cardinality(S) # 0
  BY PlacesAreTaken, FS_EmptySet
<1>3. PICK c \in S : Place(c, S, from) = 0
  BY <1>2, PlacesAreTaken
<1>4. \A d \in S : Place(d, S, from) \in Int
  <2> SUFFICES ASSUME NEW e \in S PROVE Place(e, S, from) \in Int
    OBVIOUS
  <2>1. Place(e, S, from) \in 0 .. Cardinality(S) - 1
    BY PlacesAreTaken
  <2> QED BY <2>1
<1>5. ASSUME NEW a \in S, Place(a, S, from) < n, NEW d \in S, ~(Place(d, S, from) < n)
      PROVE  Away(a, from) < Away(d, from)
  <2>1. Place(a, S, from) < Place(d, S, from)
    BY <1>4, <1>5
  <2> QED BY <2>1, PlacesAreTaken
<1>6. c \in FirstOf(n, S, from)
  BY <1>1, <1>3
<1> QED BY <1>1, <1>5, <1>6

\* The last of a set, counted from a chunk on, is what After follows.
LEMMA AfterFollowsTheLast ==
  ASSUME NEW S \in SUBSET Chunks, S # {}, NEW from \in Chunks
  PROVE  \E c \in S : /\ \A d \in S : Away(d, from) <= Away(c, from)
                       /\ After(S, from) = (1 + c) % ChunkCount
<1> DEFINE Last(c) == \A d \in S : Away(d, from) <= Away(c, from)
<1>1. Cardinality(S) \in Nat \ {0}
  BY PlacesAreTaken, FS_EmptySet
<1>2. PICK c \in S : Place(c, S, from) = Cardinality(S) - 1
  BY <1>1, PlacesAreTaken
<1>3. Last(c)
  <2> SUFFICES ASSUME NEW d \in S PROVE Away(d, from) <= Away(c, from)
    OBVIOUS
  <2>1. Place(d, S, from) \in 0 .. Cardinality(S) - 1
    BY PlacesAreTaken
  <2>2. Away(c, from) \in Int /\ Away(d, from) \in Int
    BY AwayFacts
  <2>3. CASE Place(d, S, from) = Place(c, S, from)
    <3>1. d = c
      BY <2>3, PlacesAreTaken
    <3> QED BY <2>2, <3>1
  <2>4. CASE Place(d, S, from) # Place(c, S, from)
    <3>1. Place(d, S, from) < Place(c, S, from)
      BY <1>1, <1>2, <2>1, <2>4
    <3>2. Away(d, from) < Away(c, from)
      BY <3>1, PlacesAreTaken
    <3> QED BY <2>2, <3>2
  <2> QED BY <2>3, <2>4
<1> QED BY <1>2, <1>3 DEF After

-----------------------------------------------------------------------------
(* Requests, answers and the queue.                                        *)

\* A request that is made asks for what is missing, and leaves the cursor on a
\* chunk that is nearer to everything it left out.
LEMMA AskedOrNearer ==
  ASSUME NEW S \in SUBSET Chunks, S # {}, NEW from \in Chunks
  PROVE  LET wants == FirstOf(Target, S, from)
         IN  /\ wants \in SUBSET Chunks
             /\ After(wants, from) \in Chunks
             /\ \A c \in S : c \in wants \/ Away(c, After(wants, from)) < Away(c, from)
<1> DEFINE wants == FirstOf(Target, S, from)
           new == After(wants, from)
<1>1. Target \in Nat \ {0} /\ ChunkCount \in Nat \ {0}
  BY RepairConstants
<1>2. /\ wants \in SUBSET Chunks /\ wants # {}
      /\ \A c \in wants, d \in S \ wants : Away(c, from) < Away(d, from)
  BY <1>1, FirstOfFacts
<1> HIDE DEF wants
<1>3. PICK a \in wants : new = (1 + a) % ChunkCount
  BY <1>2, AfterFollowsTheLast
<1>4. new = IF a = ChunkCount - 1 THEN 0 ELSE a + 1
  BY <1>1, <1>2, <1>3 DEF Chunks
<1>5. new \in Chunks
  BY <1>1, <1>2, <1>4 DEF Chunks
<1> HIDE DEF new
<1>6. ASSUME NEW c \in S, c \notin wants
      PROVE  Away(c, new) < Away(c, from)
  <2>1. Away(a, from) < Away(c, from)
    BY <1>2, <1>6
  <2>2. /\ Away(a, from) = IF a >= from THEN a - from ELSE a - from + ChunkCount
        /\ Away(c, from) = IF c >= from THEN c - from ELSE c - from + ChunkCount
        /\ Away(c, new) = IF c >= new THEN c - new ELSE c - new + ChunkCount
    BY <1>2, <1>5, AwayIs
  <2>3. /\ ChunkCount \in Nat \ {0} /\ a \in 0 .. ChunkCount - 1
        /\ c \in 0 .. ChunkCount - 1 /\ from \in 0 .. ChunkCount - 1
    BY <1>1, <1>2 DEF Chunks
  <2> QED BY <1>4, <2>1, <2>2, <2>3
<1> QED BY <1>2, <1>5, <1>6 DEF wants, new

\* The answers to a request are chunks, one after the other.
LEMMA AnswersInOrder ==
  ASSUME NEW S \in SUBSET Chunks, NEW from \in Chunks
  PROVE  InOrder(S, from) \in Seq(Chunks)
<1> DEFINE At(i) == CHOOSE c \in S : Place(c, S, from) = i - 1
<1>1. Cardinality(S) \in Nat
  BY PlacesAreTaken
<1>2. ASSUME NEW i \in 1 .. Cardinality(S) PROVE At(i) \in Chunks
  <2>1. i - 1 \in 0 .. Cardinality(S) - 1
    BY <1>1
  <2>2. \E c \in S : Place(c, S, from) = i - 1
    BY <2>1, PlacesAreTaken
  <2> QED BY <2>2
<1>3. InOrder(S, from) = [i \in 1 .. Cardinality(S) |-> At(i)]
  BY DEF InOrder, Place
<1> HIDE DEF At
<1> QED BY <1>1, <1>2, <1>3

LEMMA LatestFits ==
  ASSUME NEW q \in Seq(Chunks)
  PROVE  Latest(q) \in Seq(Chunks) /\ Len(Latest(q)) <= QueueMax
<1>1. QueueMax \in Nat \ {0} /\ Len(q) \in Nat
  BY RepairConstants
<1>2. CASE Len(q) <= QueueMax
  BY <1>2 DEF Latest
<1>3. CASE ~(Len(q) <= QueueMax)
  <2>1. Latest(q) = SubSeq(q, Len(q) - QueueMax + 1, Len(q))
    BY <1>3 DEF Latest
  <2>2. Len(q) - QueueMax + 1 \in 1 .. Len(q)
    BY <1>1, <1>3
  <2>3. /\ SubSeq(q, Len(q) - QueueMax + 1, Len(q)) \in Seq(Chunks)
        /\ Len(SubSeq(q, Len(q) - QueueMax + 1, Len(q))) = QueueMax
    BY <1>1, <2>2
  <2> QED BY <1>1, <2>1, <2>3
<1> QED BY <1>2, <1>3

\* What a flush leaves in the queue.
LEMMA RestFits ==
  ASSUME queue \in Seq(Chunks), Len(queue) <= QueueMax
  PROVE  /\ SubSeq(queue, Len(Drained) + 1, Len(queue)) \in Seq(Chunks)
         /\ Len(SubSeq(queue, Len(Drained) + 1, Len(queue))) <= QueueMax
<1> DEFINE n == IF Len(queue) <= FlushMax THEN Len(queue) ELSE FlushMax
<1>1. FlushMax \in Nat \ {0} /\ QueueMax \in Nat \ {0} /\ Len(queue) \in Nat
  BY RepairConstants
<1>2. n \in 0 .. Len(queue)
  BY <1>1
<1> HIDE DEF n
<1>3. Len(SubSeq(queue, 1, n)) = n
  BY <1>1, <1>2
<1>4. Len(Drained) = n
  BY <1>3 DEF Drained, n
<1>5. /\ SubSeq(queue, n + 1, Len(queue)) \in Seq(Chunks)
      /\ Len(SubSeq(queue, n + 1, Len(queue))) <= Len(queue)
  BY <1>1, <1>2
<1> QED BY <1>1, <1>4, <1>5

-----------------------------------------------------------------------------
(* Types, and what the receiver has listed.                                *)

SenderTyped ==
  /\ gate \in BOOLEAN
  /\ capable \in {"unknown", "announced", "known"}
  /\ sending \in Stages /\ next \in 0 .. First
  /\ outbound \in {"none", "state", "whole"}
  /\ published \subseteq Items /\ recent \subseteq Chunks
  /\ queue \in Seq(Chunks) /\ Len(queue) <= QueueMax

ReceiverTyped ==
  /\ due \in BOOLEAN
  /\ seen \subseteq Items /\ carried \subseteq Items /\ kept \subseteq Chunks
  /\ listed \in {"none", "receiving", "complete"}
  /\ cursor \in Chunks

WireTyped ==
  /\ requests \subseteq Request /\ expired \in BOOLEAN /\ faults \in 0 .. MaxFaults

\* What the receiver works on is in its store; a transfer is listed once its
\* manifest has been handled, is receiving while chunks are missing, and has
\* all of them when it is complete.
Listing ==
  /\ carried \subseteq seen
  /\ Manifest \notin seen \/ Manifest \in carried => listed = "none"
  /\ listed = "none" => kept = {}
  /\ listed = "receiving" => Chunks \ kept # {}
  /\ listed = "complete" => kept = Chunks

TInv == SenderTyped /\ ReceiverTyped /\ WireTyped /\ Listing

LEMMA Constants ==
  /\ ChunkCount \in Nat \ {0} /\ First \in Nat /\ First <= ChunkCount
  /\ QueueMax \in Nat \ {0} /\ MaxFaults \in Nat
  /\ 0 \in Chunks /\ Manifest \notin Chunks
  /\ \A n \in 0 .. First : n < First => n \in Chunks /\ n + 1 \in 0 .. First
BY RepairConstants DEF First, Chunks

LEMMA TypedAtFirst == Init => TInv
<1> SUFFICES ASSUME Init PROVE TInv
  OBVIOUS
<1>1. SenderTyped
  BY Constants DEF Init, SenderTyped, Stages
<1>2. ReceiverTyped
  BY Constants DEF Init, ReceiverTyped
<1>3. WireTyped
  <2>1. requests \subseteq Request
    BY DEF Init
  <2>2. expired \in BOOLEAN
    BY DEF Init
  <2>3. faults \in 0 .. MaxFaults
    BY Constants DEF Init
  <2> QED BY <2>1, <2>2, <2>3 DEF WireTyped
<1>4. Listing
  BY DEF Init, Listing
<1> QED BY <1>1, <1>2, <1>3, <1>4 DEF TInv

LEMMA FaultTyped == ASSUME WireTyped, Fault \/ UNCHANGED faults PROVE faults' \in 0 .. MaxFaults
BY Constants DEF WireTyped, Fault

LEMMA SendTyped ==
  ASSUME TInv, Announce \/ Learn \/ Send \/ WriteSource \/ PublishManifest \/ PublishChunk
               \/ Sent \/ SendFails \/ Reopen
  PROVE  TInv'
<1>1. SenderTyped' /\ UNCHANGED <<receiver, requests, expired, faults>>
  <2>1. CASE Announce \/ Learn \/ Reopen
    BY <2>1 DEF TInv, SenderTyped, Announce, Learn, Reopen
  <2>2. CASE Send \/ WriteSource \/ Sent \/ SendFails
    BY <2>2 DEF TInv, SenderTyped, Send, WriteSource, Sent, SendFails, Stage, Stages
  <2>3. CASE PublishManifest
    BY <2>3 DEF TInv, SenderTyped, PublishManifest, Stage, Stages, Items
  <2>4. CASE PublishChunk
    <3>1. next \in Chunks /\ next + 1 \in 0 .. First
      BY <2>4, Constants DEF TInv, SenderTyped, PublishChunk
    <3> QED BY <2>4, <3>1 DEF TInv, SenderTyped, PublishChunk, Stage, Stages, Items
  <2> QED BY <2>1, <2>2, <2>3, <2>4
<1> QED BY <1>1 DEF TInv, ReceiverTyped, WireTyped, Listing, receiver

LEMMA RequestTyped ==
  ASSUME TInv, NEW S \in SUBSET Chunks, S # {}, RequestIfDue(S)
  PROVE  /\ cursor' \in Chunks /\ due' \in BOOLEAN
         /\ requests' \subseteq Request /\ faults' \in 0 .. MaxFaults
<1> DEFINE wants == FirstOf(Target, S, cursor)
<1>1. cursor \in Chunks
  BY DEF TInv, ReceiverTyped
<1>2. wants \in SUBSET Chunks /\ After(wants, cursor) \in Chunks
  BY <1>1, AskedOrNearer
<1>3. Ranges(wants) \in Request
  BY <1>1, <1>2 DEF Ranges, Request
<1>4. Fault \/ UNCHANGED faults
  BY DEF RequestIfDue
<1>5. faults' \in 0 .. MaxFaults
  BY <1>4, FaultTyped DEF TInv
<1>6. /\ cursor' = After(wants, cursor) \/ UNCHANGED cursor
      /\ due' = FALSE \/ UNCHANGED due
      /\ requests' = requests \cup {Ranges(wants)} \/ UNCHANGED requests
  BY DEF RequestIfDue
<1> HIDE DEF wants
<1> QED BY <1>1, <1>2, <1>3, <1>5, <1>6 DEF TInv, ReceiverTyped, WireTyped

LEMMA ReceiveTyped ==
  ASSUME TInv, NEW c \in Chunks,
         Pulse \/ HandleManifest \/ PassChunk(c) \/ KeepChunk(c) \/ RefuseChunk(c)
  PROVE  TInv'
<1>1. CASE Pulse
  <2>1. Chunks \ kept # {} /\ RequestIfDue(Chunks \ kept)
        /\ UNCHANGED <<sender, seen, carried, listed, kept, expired>>
    BY <1>1 DEF TInv, Listing, Pulse
  <2>2. /\ cursor' \in Chunks /\ due' \in BOOLEAN
        /\ requests' \subseteq Request /\ faults' \in 0 .. MaxFaults
    BY <2>1, RequestTyped
  <2> QED BY <2>1, <2>2 DEF TInv, SenderTyped, ReceiverTyped, WireTyped, Listing, sender
<1>2. CASE HandleManifest
  <2>1. /\ RequestIfDue(Chunks) /\ carried' = carried \ {Manifest} /\ listed' = "receiving"
        /\ UNCHANGED <<sender, seen, kept, expired>>
    BY <1>2 DEF HandleManifest, Handled
  <2>2. Manifest \in seen /\ kept = {}
    BY <1>2 DEF TInv, Listing, HandleManifest
  <2>3. Chunks # {}
    BY Constants
  <2>4. /\ cursor' \in Chunks /\ due' \in BOOLEAN
        /\ requests' \subseteq Request /\ faults' \in 0 .. MaxFaults
    BY <2>1, <2>3, RequestTyped
  <2> QED BY <2>1, <2>2, <2>3, <2>4 DEF TInv, SenderTyped, ReceiverTyped, WireTyped, Listing, sender
<1>3. CASE PassChunk(c) \/ RefuseChunk(c)
  <2>1. /\ carried' = carried \ {c} /\ UNCHANGED <<sender, seen, listed, kept, cursor, due>>
        /\ UNCHANGED <<requests, expired>> /\ (Fault \/ UNCHANGED faults)
    BY <1>3 DEF PassChunk, RefuseChunk, Handled
  <2>2. faults' \in 0 .. MaxFaults
    BY <2>1, FaultTyped DEF TInv
  <2> QED BY <2>1, <2>2 DEF TInv, SenderTyped, ReceiverTyped, WireTyped, Listing, sender
<1>4. CASE KeepChunk(c)
  <2> DEFINE missing == Chunks \ (kept \cup {c})
  <2>1. /\ c \in carried /\ listed = "receiving"
        /\ carried' = carried \ {c} /\ kept' = kept \cup {c} /\ UNCHANGED <<sender, seen, expired>>
    BY <1>4 DEF KeepChunk, Handled
  <2>2. Manifest \in seen /\ Manifest \notin carried
    BY <2>1 DEF TInv, Listing
  <2>3. CASE missing = {}
    <3>1. listed' = "complete" /\ UNCHANGED <<cursor, due, requests, faults>>
      BY <1>4, <2>3 DEF KeepChunk
    <3>2. kept' = Chunks
      BY <2>1, <2>3 DEF TInv, ReceiverTyped
    <3> QED BY <2>1, <2>2, <3>1, <3>2
            DEF TInv, SenderTyped, ReceiverTyped, WireTyped, Listing, sender
  <2>4. CASE missing # {}
    <3>1. RequestIfDue(missing) /\ UNCHANGED listed
      BY <1>4, <2>4 DEF KeepChunk
    <3>2. /\ cursor' \in Chunks /\ due' \in BOOLEAN
          /\ requests' \subseteq Request /\ faults' \in 0 .. MaxFaults
      BY <2>4, <3>1, RequestTyped
    <3> QED BY <2>1, <2>2, <2>4, <3>1, <3>2
            DEF TInv, SenderTyped, ReceiverTyped, WireTyped, Listing, sender
  <2> QED BY <2>3, <2>4
<1> QED BY <1>1, <1>2, <1>3, <1>4

\* What is imported is stored, and is handled before more is read.
LEMMA ImportTyped ==
  ASSUME TInv, NEW S \in SUBSET Items, Import(S)
  PROVE  ReceiverTyped' /\ Listing'
<1>1. /\ carried = {} /\ seen' = seen \cup S /\ carried' = S \ seen
      /\ UNCHANGED <<listed, kept, cursor, due>>
  BY DEF Import
<1>2. ReceiverTyped'
  BY <1>1 DEF TInv, ReceiverTyped
<1>3. Manifest \notin seen' \/ Manifest \in carried' => Manifest \notin seen
  BY <1>1
<1> QED BY <1>1, <1>2, <1>3 DEF TInv, Listing

LEMMA ServeTyped ==
  ASSUME TInv, NEW r \in Request, NEW sent \in SUBSET Chunks, Serve(r, sent)
  PROVE  TInv'
<1>1. /\ UNCHANGED <<capable, sending, next, outbound, receiver, expired>>
      /\ requests' = requests \ {r} /\ gate' = FALSE /\ recent' = recent \cup sent
      /\ published' = published \cup sent
      /\ queue' = Latest(queue \o InOrder(sent, r.from))
      /\ Fault \/ UNCHANGED faults
  BY DEF Serve, Queue
<1>2. r.from \in Chunks
  BY DEF Request
<1>3. queue \o InOrder(sent, r.from) \in Seq(Chunks)
  BY <1>2, AnswersInOrder DEF TInv, SenderTyped
<1>4. queue' \in Seq(Chunks) /\ Len(queue') <= QueueMax
  BY <1>1, <1>3, LatestFits
<1>5. SenderTyped'
  BY <1>1, <1>4 DEF TInv, SenderTyped, Items
<1>6. WireTyped'
  BY <1>1, FaultTyped DEF TInv, WireTyped
<1> QED BY <1>1, <1>5, <1>6 DEF TInv, ReceiverTyped, Listing, receiver

LEMMA FlushTyped ==
  ASSUME TInv, NEW got \in SUBSET Chunks, Flush(got)
  PROVE  TInv'
<1>1. /\ UNCHANGED <<capable, sending, next, outbound, published, recent, gate, requests, expired>>
      /\ queue' = SubSeq(queue, Len(Drained) + 1, Len(queue))
      /\ Fault \/ UNCHANGED faults
      /\ Import(got) \/ UNCHANGED receiver
  BY DEF Flush, Bring
<1>2. queue' \in Seq(Chunks) /\ Len(queue') <= QueueMax
  BY <1>1, RestFits DEF TInv, SenderTyped
<1>3. SenderTyped'
  BY <1>1, <1>2 DEF TInv, SenderTyped
<1>4. WireTyped'
  BY <1>1, FaultTyped DEF TInv, WireTyped
<1>5. got \in SUBSET Items
  BY DEF Items
<1>6. ReceiverTyped' /\ Listing'
  BY <1>1, <1>5, ImportTyped DEF TInv, ReceiverTyped, Listing, receiver
<1> QED BY <1>3, <1>4, <1>6 DEF TInv

LEMMA RestTyped ==
  ASSUME TInv, Ripen \/ Expire \/ SenderStops \/ ReceiverStops \/ UNCHANGED vars
               \/ (\E c \in Chunks : Forget(c))
               \/ (\E r \in Request : Ignore(r) \/ LoseRequest(r))
               \/ (\E S \in SUBSET Items : Gossip(S))
  PROVE  TInv'
<1>1. CASE Ripen
  <2>1. /\ Fault \/ UNCHANGED faults
        /\ due' = TRUE
        /\ UNCHANGED <<sender, seen, carried, listed, kept, cursor, requests, expired>>
    BY <1>1 DEF Ripen
  <2>2. faults' \in 0 .. MaxFaults
    BY <2>1, FaultTyped DEF TInv
  <2> QED BY <2>1, <2>2 DEF TInv, SenderTyped, ReceiverTyped, WireTyped, Listing, sender
<1>2. CASE Expire
  BY <1>2 DEF Expire, TInv, SenderTyped, ReceiverTyped, WireTyped, Listing, sender, receiver
<1>3. CASE SenderStops
  <2>1. faults' \in 0 .. MaxFaults
    BY <1>3, FaultTyped DEF TInv, SenderStops
  <2>2. queue' \in Seq(Chunks) /\ Len(queue') <= QueueMax
    BY <1>3, Constants DEF SenderStops
  <2>3. SenderTyped'
    BY <1>3, <2>2 DEF SenderStops, TInv, SenderTyped, Stages
  <2> QED BY <1>3, <2>1, <2>3 DEF SenderStops, TInv, ReceiverTyped, WireTyped, Listing, receiver
<1>4. CASE ReceiverStops
  <2>1. faults' \in 0 .. MaxFaults
    BY <1>4, FaultTyped DEF TInv, ReceiverStops
  <2> QED BY <1>4, <2>1, Constants
          DEF ReceiverStops, TInv, SenderTyped, ReceiverTyped, WireTyped, Listing, sender
<1>5. CASE UNCHANGED vars
  BY <1>5 DEF vars, TInv, SenderTyped, ReceiverTyped, WireTyped, Listing, sender, receiver
<1>6. ASSUME NEW c \in Chunks, Forget(c) PROVE TInv'
  BY <1>6 DEF Forget, TInv, SenderTyped, ReceiverTyped, WireTyped, Listing, receiver
<1>7. ASSUME NEW r \in Request, Ignore(r) \/ LoseRequest(r) PROVE TInv'
  <2>1. /\ Fault \/ UNCHANGED faults
        /\ requests' = requests \ {r} /\ UNCHANGED <<sender, receiver, expired>>
    BY <1>7 DEF Ignore, LoseRequest
  <2>2. faults' \in 0 .. MaxFaults
    BY <2>1, FaultTyped DEF TInv
  <2> QED BY <2>1, <2>2 DEF TInv, SenderTyped, ReceiverTyped, WireTyped, Listing, sender, receiver
<1>8. ASSUME NEW S \in SUBSET Items, Gossip(S) PROVE TInv'
  <2>1. Import(S) /\ UNCHANGED <<sender, requests, expired, faults>>
    BY <1>8 DEF Gossip
  <2>2. ReceiverTyped' /\ Listing'
    BY <2>1, ImportTyped
  <2> QED BY <2>1, <2>2 DEF TInv, SenderTyped, WireTyped, sender
<1> QED BY <1>1, <1>2, <1>3, <1>4, <1>5, <1>6, <1>7, <1>8

LEMMA StaysTyped == TInv /\ [Next]_vars => TInv'
<1> SUFFICES ASSUME TInv, [Next]_vars PROVE TInv'
  OBVIOUS
<1>1. 0 \in Chunks
  BY Constants
<1>2. CASE Announce \/ Learn \/ Send \/ WriteSource \/ PublishManifest \/ PublishChunk
           \/ Sent \/ SendFails \/ Reopen
  BY <1>2, SendTyped
<1>3. CASE Pulse \/ HandleManifest
  BY <1>1, <1>3, ReceiveTyped
<1>4. ASSUME NEW c \in Chunks, PassChunk(c) \/ KeepChunk(c) \/ RefuseChunk(c) PROVE TInv'
  BY <1>4, ReceiveTyped
<1>5. ASSUME NEW r \in Request, NEW sent \in SUBSET Chunks, Serve(r, sent) PROVE TInv'
  BY <1>5, ServeTyped
<1>6. ASSUME NEW got \in SUBSET Chunks, Flush(got) PROVE TInv'
  BY <1>6, FlushTyped
<1>7. CASE \/ Ripen \/ Expire \/ SenderStops \/ ReceiverStops \/ UNCHANGED vars
           \/ \E c \in Chunks : Forget(c)
           \/ \E r \in Request : Ignore(r) \/ LoseRequest(r)
           \/ \E S \in SUBSET Items : Gossip(S)
  BY <1>7, RestTyped
<1> QED BY <1>2, <1>3, <1>4, <1>5, <1>6, <1>7 DEF Next

\* The two ends have their types in every behaviour: the cursor is the number of
\* a chunk, and the queue keeps to its size (missing_request_cursor_tracker,
\* queue_pending_media_control_unicast).
THEOREM TypeCorrect == Spec => []TypeOK
<1>1. TInv => TypeOK
  BY DEF TInv, SenderTyped, ReceiverTyped, WireTyped, TypeOK
<1> QED BY TypedAtFirst, StaysTyped, <1>1, PTL DEF Spec

\* A request for what is missing, and what it does to the cursor.
Rounds(S) ==
  \/ UNCHANGED <<cursor, requests>>
  \/ \A c \in S : c \in FirstOf(Target, S, cursor) \/ Away(c, cursor') < Away(c, cursor)

LEMMA RequestRounds ==
  ASSUME TInv, NEW S \in SUBSET Chunks, S # {}, RequestIfDue(S)
  PROVE  Rounds(S)
<1>1. cursor \in Chunks
  BY DEF TInv, ReceiverTyped
<1>2. cursor' = After(FirstOf(Target, S, cursor), cursor) \/ UNCHANGED <<cursor, requests>>
  BY DEF RequestIfDue
<1> QED BY <1>1, <1>2, AskedOrNearer DEF Rounds

\* What one step may do to the cursor and to the requests.
Turn ==
  \/ ReceiverStops
  \/ UNCHANGED cursor /\ requests' \subseteq requests
  \/ Rounds(Chunks \ kept')

LEMMA StepTurns == TInv /\ [Next]_vars => Turn
<1> SUFFICES ASSUME TInv, [Next]_vars PROVE Turn
  OBVIOUS
<1>1. CASE Pulse
  <2>1. Chunks \ kept # {} /\ RequestIfDue(Chunks \ kept) /\ kept' = kept
    BY <1>1 DEF TInv, Listing, Pulse
  <2> QED BY <2>1, RequestRounds DEF Turn
<1>2. CASE HandleManifest
  <2>1. RequestIfDue(Chunks) /\ kept' = kept /\ kept = {}
    BY <1>2 DEF TInv, Listing, HandleManifest
  <2>2. Chunks # {} /\ Chunks \ kept' = Chunks
    BY <2>1, Constants
  <2> QED BY <2>1, <2>2, RequestRounds DEF Turn
<1>3. ASSUME NEW c \in Chunks, KeepChunk(c) PROVE Turn
  <2> DEFINE missing == Chunks \ (kept \cup {c})
  <2>1. kept' = kept \cup {c} /\ missing = Chunks \ kept'
    BY <1>3 DEF KeepChunk
  <2>2. CASE missing = {}
    BY <1>3, <2>2 DEF KeepChunk, Turn
  <2>3. CASE missing # {}
    <3>1. RequestIfDue(missing)
      BY <1>3, <2>3 DEF KeepChunk
    <3>2. Rounds(missing)
      BY <2>3, <3>1, RequestRounds
    <3> QED BY <2>1, <3>2 DEF Turn
  <2> QED BY <2>2, <2>3
<1>4. CASE ReceiverStops
  BY <1>4 DEF Turn
<1>5. CASE \/ Announce \/ Learn \/ Reopen \/ Ripen \/ Expire \/ SenderStops \/ UNCHANGED vars
           \/ Send \/ WriteSource \/ PublishManifest \/ PublishChunk \/ Sent \/ SendFails
  <2>1. UNCHANGED <<cursor, requests>>
    BY <1>5 DEF Announce, Learn, Reopen, Ripen, Expire, SenderStops, vars, Send, WriteSource,
                PublishManifest, PublishChunk, Sent, SendFails, Stage, sender, receiver
  <2> QED BY <2>1 DEF Turn
<1>6. ASSUME NEW c \in Chunks, Forget(c) \/ PassChunk(c) \/ RefuseChunk(c) PROVE Turn
  BY <1>6 DEF Forget, PassChunk, RefuseChunk, receiver, Turn
<1>7. ASSUME NEW r \in Request, NEW sent \in SUBSET Chunks,
             Ignore(r) \/ LoseRequest(r) \/ Serve(r, sent)
      PROVE  Turn
  BY <1>7 DEF Ignore, LoseRequest, Serve, receiver, Turn
<1>8. ASSUME NEW S \in SUBSET Items, Gossip(S) PROVE Turn
  BY <1>8 DEF Gossip, Import, Turn
<1>9. ASSUME NEW got \in SUBSET Chunks, Flush(got) PROVE Turn
  BY <1>9 DEF Flush, Bring, Import, receiver, Turn
<1>10. {} \in SUBSET Chunks
  OBVIOUS
<1> QED BY <1>1, <1>2, <1>3, <1>4, <1>5, <1>6, <1>7, <1>8, <1>9, <1>10 DEF Next

\* Whatever is refused, lost or kept in between, a request asks for a missing
\* chunk or brings the cursor nearer to it (compute_missing_plan).
THEOREM NoChunkIsPassedOver == Spec => CursorComesRound
<1>1. TInv /\ [Next]_vars =>
        [\/ ReceiverStops
         \/ UNCHANGED cursor /\ requests' \subseteq requests
         \/ \A c \in Chunks \ kept' : \/ c \in FirstOf(Target, Chunks \ kept', cursor)
                                      \/ Away(c, cursor') < Away(c, cursor)]_<<cursor, requests>>
  BY StepTurns DEF Turn, Rounds
<1> QED BY TypedAtFirst, StaysTyped, <1>1, PTL DEF Spec, CursorComesRound
====
