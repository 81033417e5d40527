---- MODULE LanEncounter_proofs ----
(***************************************************************************)
(* Proofs about LanEncounter, for any set of nodes and items, any ranking  *)
(* and any budgets.                                                        *)
(*                                                                         *)
(* What a node sends follows from what it was asked for, what it was asked *)
(* for from what it advertised, perhaps long ago.  The invariant IInv      *)
(* follows an item along that way: through the frames in flight, the       *)
(* summary a peer remembers, and the request a worker is serving.          *)
(*                                                                         *)
(* Stores only grow, so that what was in the sender's store when a         *)
(* TRANSFER was sent is there when it arrives (SentIsHeld): with IInv this *)
(* is why LanEncounter implements Exchange.                                *)
(***************************************************************************)
EXTENDS LanEncounter, FiniteSetTheorems, TLAPS

\* What node n may send: the rest ends its way here, and was never named by it
\* while it could not tell who it is (x is what each node so exposed).
Forwardable(x, n) == {i \in Items : Target[i] # n \/ i \in x[n]}

GoodFrame(x, m) ==
  \/ m \in Hellos
  \/ m \in Summaries /\ m.summary.preview \subseteq Forwardable(x, m.from)
  \/ m \in Ingests /\ m.ids \subseteq Forwardable(x, m.from)
  \/ m \in Requests /\ m.want \subseteq Forwardable(x, m.to)
  \/ m \in Transfers /\ m.objects \subseteq Forwardable(x, m.from)

GoodEncounter(x, p, e) ==
  e \in Encounter /\ e.rounds <= MaxRounds /\ e.latest.preview \subseteq Forwardable(x, p)

GoodServing(x, n, s) == s \in Serving /\ s.pending \subseteq Forwardable(x, n)

FramesAreGood == \A m \in net : GoodFrame(exposed, m)
EncountersAreGood ==
  /\ enc \in [Nodes -> [Nodes -> Encounter]]
  /\ \A n, p \in Nodes : GoodEncounter(exposed, p, enc[n][p])
ServingIsGood ==
  serving \in [Nodes -> Serving] /\ \A n \in Nodes : GoodServing(exposed, n, serving[n])
RestIsTyped ==
  /\ have \in [Nodes -> SUBSET Items]
  /\ asked \in [Nodes -> [Nodes -> SUBSET Items]]
  /\ served \in [Nodes -> [Nodes -> SUBSET Items]]
  /\ exposed \in [Nodes -> SUBSET Items]
  /\ faults \in Nat

IInv == FramesAreGood /\ EncountersAreGood /\ ServingIsGood /\ RestIsTyped

----
(* What the operators of a worker return. *)

LEMMA FreshIsGood ==
  \A x : \A p \in Nodes : GoodEncounter(x, p, Fresh) /\ GoodEncounter(x, p, Over)
<1>1. NoSummary \in Summary /\ NoSummary.preview = {}
  BY DEF NoSummary, Summary
<1>2. Fresh \in Encounter /\ Fresh.rounds = 0 /\ Fresh.latest = NoSummary
  BY <1>1 DEF Fresh, Encounter
<1>3. Over \in Encounter /\ Over.rounds = 0 /\ Over.latest = NoSummary
  BY <1>2 DEF Over, Encounter
<1>4. 0 <= MaxRounds
  BY LanConstants
<1> QED
  BY <1>1, <1>2, <1>3, <1>4 DEF GoodEncounter

LEMMA IdleIsGood == \A x : \A n \in Nodes : GoodServing(x, n, Idle(n))
BY DEF GoodServing, Idle, Serving

\* What is good stays so when more is exposed.
LEMMA ExposureGrows ==
  ASSUME NEW x, NEW y, \A n \in Nodes : x[n] \subseteq y[n]
  PROVE  /\ \A m : GoodFrame(x, m) => GoodFrame(y, m)
         /\ \A p \in Nodes : \A e : GoodEncounter(x, p, e) => GoodEncounter(y, p, e)
         /\ \A n \in Nodes : \A s : GoodServing(x, n, s) => GoodServing(y, n, s)
<1>1. \A n \in Nodes : Forwardable(x, n) \subseteq Forwardable(y, n)
  BY DEF Forwardable
<1>2. \A m : GoodFrame(x, m) => GoodFrame(y, m)
  BY <1>1 DEF GoodFrame, Summaries, Ingests, Requests, Transfers
<1>3. \A p \in Nodes : \A e : GoodEncounter(x, p, e) => GoodEncounter(y, p, e)
  BY <1>1 DEF GoodEncounter
<1>4. \A n \in Nodes : \A s : GoodServing(x, n, s) => GoodServing(y, n, s)
  BY <1>1 DEF GoodServing
<1> QED
  BY <1>2, <1>3, <1>4

\* What a node names is what it may send, or gets exposed.
LEMMA AnnouncedIsGood ==
  ASSUME RestIsTyped, NEW n \in Nodes, NEW p \in Nodes, NEW known, NEW x,
         \A i \in SummaryOf(n, p, known).summary.preview \union IngestOf(n, p, known).ids :
           Target[i] = n => i \in x[n]
  PROVE  GoodFrame(x, SummaryOf(n, p, known)) /\ GoodFrame(x, IngestOf(n, p, known))
<1>1. \A S, b : Advertised(n, S, b) \subseteq S
  BY DEF Advertised
<1>2. \A S, k, rank : First(S, k, rank) \subseteq S
  BY DEF First
<1> DEFINE held == Advertised(n, have[n], "summary" \in known)
           shown == Advertised(n, have[n], "preview" \in known)
           preview == First(shown, PreviewMax, Order[n])
           first == First(have[n], IngestMax, Order[n])
           ids == Advertised(n, first, "ingest" \in known)
<1>3. held \subseteq Items /\ preview \subseteq Items /\ ids \subseteq Items
  <2>1. have[n] \subseteq Items
    BY DEF RestIsTyped
  <2>2. held \subseteq have[n] /\ shown \subseteq have[n] /\ first \subseteq have[n]
    BY <1>1, <1>2
  <2>3. preview \subseteq shown /\ ids \subseteq first
    BY <1>1, <1>2
  <2> QED
    BY <2>1, <2>2, <2>3
<1>4. /\ SummaryOf(n, p, known) =
           [kind |-> "SUMMARY", from |-> n, to |-> p,
            summary |-> [held |-> held, preview |-> preview]]
      /\ IngestOf(n, p, known) = [kind |-> "RELAY_INGEST", from |-> n, to |-> p, ids |-> ids]
  BY DEF SummaryOf, IngestOf
<1> HIDE DEF held, preview, ids
<1>5. preview \subseteq Forwardable(x, n) /\ ids \subseteq Forwardable(x, n)
  BY <1>3, <1>4 DEF Forwardable
<1>6. SummaryOf(n, p, known) \in Summaries
  BY <1>3, <1>4 DEF Summaries, Summary
<1>7. IngestOf(n, p, known) \in Ingests
  BY <1>3, <1>4 DEF Ingests
<1> QED
  BY <1>4, <1>5, <1>6, <1>7 DEF GoodFrame

LEMMA RequestIsGood ==
  ASSUME NEW n \in Nodes, NEW p \in Nodes, NEW want, want \subseteq Forwardable(exposed, p)
  PROVE  \A m \in RequestOf(n, p, want) : GoodFrame(exposed, m)
BY DEF RequestOf, GoodFrame, Requests, Forwardable

LEMMA CurrentIsGood ==
  ASSUME EncountersAreGood, NEW n \in Nodes, NEW p \in Nodes
  PROVE  GoodEncounter(exposed, p, Current(n, p))
BY FreshIsGood DEF EncountersAreGood, Current

\* A round asks for what the summary holds, and stays within the budget.
LEMMA RoundIsGood ==
  ASSUME NEW n \in Nodes, NEW p \in Nodes, NEW store, NEW e, GoodEncounter(exposed, p, e),
         NEW s \in Summary, s.preview \subseteq Forwardable(exposed, p)
  PROVE  /\ ToAsk(n, p, store, e, s) \subseteq Forwardable(exposed, p)
         /\ GoodEncounter(exposed, p, AfterRound(n, p, store, e, s))
<1> DEFINE want == Missing(store, s, {}) \ e.requested
<1>1. want \subseteq s.preview /\ want \subseteq Items
  BY DEF Missing, Forwardable
<1>2. ToAsk(n, p, store, e, s) \subseteq Forwardable(exposed, p)
  BY <1>1 DEF ToAsk
<1>3. e \in Encounter /\ e.rounds \in Nat /\ e.rounds <= MaxRounds /\ MaxRounds \in Nat
  BY LanConstants DEF GoodEncounter, Encounter
<1>4. ASSUME ~Exhausted(e) PROVE e.rounds + 1 <= MaxRounds
  BY <1>3, <1>4 DEF Exhausted
<1>5. ASSUME ~Exhausted(e), NEW q \in SUBSET Items, NEW k \in Nat
      PROVE  /\ GoodEncounter(exposed, p, [[e EXCEPT !.rounds = @ + 1] EXCEPT !.streak = k])
             /\ GoodEncounter(exposed, p, [[e EXCEPT !.rounds = @ + 1]
                                    EXCEPT !.requested = q, !.streak = k])
  <2> DEFINE f == [e EXCEPT !.rounds = @ + 1]
             g == [f EXCEPT !.streak = k]
             h == [f EXCEPT !.requested = q, !.streak = k]
  <2>1. f \in Encounter /\ f.rounds = e.rounds + 1 /\ f.latest = e.latest
    BY <1>3 DEF Encounter
  <2> HIDE DEF f
  <2>2. g \in Encounter /\ g.rounds = f.rounds /\ g.latest = f.latest
    BY <2>1, <1>5 DEF Encounter
  <2>3. h \in Encounter /\ h.rounds = f.rounds /\ h.latest = f.latest
    BY <2>1, <1>5 DEF Encounter
  <2>4. e.latest.preview \subseteq Forwardable(exposed, p)
    BY DEF GoodEncounter
  <2> HIDE DEF g, h
  <2>5. GoodEncounter(exposed, p, g) /\ GoodEncounter(exposed, p, h)
    BY <1>4, <1>5, <2>1, <2>2, <2>3, <2>4 DEF GoodEncounter
  <2> QED
    BY <2>5 DEF f, g, h
<1>6. GoodEncounter(exposed, p, AfterRound(n, p, store, e, s))
  <2>1. e.requested \union want \in SUBSET Items /\ e.streak + 1 \in Nat /\ 0 \in Nat
    BY <1>1, <1>3 DEF Encounter
  <2>2. [e EXCEPT !.rounds = @ + 1].streak = e.streak
        /\ [e EXCEPT !.rounds = @ + 1].requested = e.requested
    BY <1>3 DEF Encounter
  <2> QED
    BY <1>5, <2>1, <2>2, FreshIsGood DEF AfterRound
<1> QED
  BY <1>2, <1>6

----
(* What a step of a worker leaves behind. *)

LEMMA ReceiveKeeps ==
  ASSUME IInv, NEW m, NEW sent, Receive(m, sent), \A f \in sent : GoodFrame(exposed, f),
         UNCHANGED exposed
  PROVE  FramesAreGood' /\ faults' \in Nat
BY DEF IInv, FramesAreGood, Receive, Fault, RestIsTyped

LEMMA EncounterKeeps ==
  ASSUME EncountersAreGood, NEW n \in Nodes, NEW p \in Nodes, NEW e, GoodEncounter(exposed, p, e),
         enc' = [enc EXCEPT ![n][p] = e],
         UNCHANGED exposed
  PROVE  EncountersAreGood'
BY DEF EncountersAreGood, GoodEncounter

LEMMA RememberKeeps ==
  ASSUME RestIsTyped, NEW n \in Nodes, NEW p \in Nodes, NEW want \in SUBSET Items,
         Remember(n, p, want)
  PROVE  asked' \in [Nodes -> [Nodes -> SUBSET Items]]
BY DEF RestIsTyped, Remember

LEMMA ServingKeeps ==
  ASSUME ServingIsGood, NEW n \in Nodes, NEW s, GoodServing(exposed, n, s),
         serving' = [serving EXCEPT ![n] = s],
         UNCHANGED exposed
  PROVE  ServingIsGood'
BY DEF ServingIsGood, GoodServing

LEMMA UnchangedKeeps ==
  /\ EncountersAreGood /\ UNCHANGED <<enc, exposed>> => EncountersAreGood'
  /\ ServingIsGood /\ UNCHANGED <<serving, exposed>> => ServingIsGood'
  /\ FramesAreGood /\ UNCHANGED <<net, exposed>> => FramesAreGood'
BY DEF EncountersAreGood, ServingIsGood, FramesAreGood

----
(* The frames a worker handles. *)

\* The parties of a frame are nodes, and what it carries may be sent.
LEMMA FrameFacts ==
  ASSUME NEW x, NEW m, GoodFrame(x, m)
  PROVE  /\ m.from \in Nodes /\ m.to \in Nodes
         /\ m.kind = "SUMMARY" =>
              m.summary \in Summary /\ m.summary.preview \subseteq Forwardable(x, m.from)
         /\ m.kind = "RELAY_INGEST" => m.ids \subseteq Forwardable(x, m.from)
         /\ m.kind = "REQUEST" =>
              m.want \in SUBSET Items /\ m.want \subseteq Forwardable(x, m.to)
         /\ m.kind = "TRANSFER" => m.objects \in SUBSET Items
BY DEF GoodFrame, Hellos, Summaries, Ingests, Requests, Transfers

\* A greeted peer keeps a good encounter.
LEMMA GreetedKeeps ==
  ASSUME IInv, NEW n \in Nodes, NEW p \in Nodes, Greeted(n, p), UNCHANGED exposed
  PROVE  EncountersAreGood'
<1> DEFINE e == [Current(n, p) EXCEPT !.latest = NoSummary]
<1>1. GoodEncounter(exposed, p, Current(n, p))
  BY CurrentIsGood DEF IInv
<1>2. GoodEncounter(exposed, p, e)
  BY <1>1 DEF GoodEncounter, NoSummary, Encounter, Summary
<1>3. enc' = [enc EXCEPT ![n][p] = e]
  BY DEF Greeted
<1> HIDE DEF e
<1> QED
  BY <1>2, <1>3, EncounterKeeps DEF IInv

LEMMA HelloKeeps ==
  ASSUME IInv, NEW m \in net, HandleHello(m, m.to, m.from)
  PROVE  IInv'
<1> DEFINE n == m.to
           p == m.from
<1>1. n \in Nodes /\ p \in Nodes
  BY FrameFacts DEF IInv, FramesAreGood
<1>2. FramesAreGood' /\ faults' \in Nat
  <2>1. \A i \in SummaryOf(n, p, Reads).summary.preview \union IngestOf(n, p, Reads).ids :
          Target[i] # n
    BY DEF SummaryOf, IngestOf, Advertised, First, Reads
  <2>2. \A f \in {SummaryOf(n, p, Reads), IngestOf(n, p, Reads)} : GoodFrame(exposed, f)
    BY <1>1, <2>1, AnnouncedIsGood DEF IInv
  <2> QED
    BY <2>2, ReceiveKeeps DEF HandleHello
<1>3. EncountersAreGood'
  BY <1>1, GreetedKeeps DEF HandleHello
<1> QED
  BY <1>2, <1>3, UnchangedKeeps DEF IInv, HandleHello, RestIsTyped

\* What a node names without knowing itself is exposed from then on.
LEMMA HelloBlindKeeps ==
  ASSUME IInv, NEW m \in net, HandleHelloBlind(m, m.to, m.from)
  PROVE  IInv'
<1> DEFINE n == m.to
           p == m.from
<1>1. n \in Nodes /\ p \in Nodes
  BY FrameFacts DEF IInv, FramesAreGood
<1>2. PICK known \in SUBSET Reads \ {Reads} :
        LET summary == SummaryOf(n, p, known)
            ingest == IngestOf(n, p, known)
            named == summary.summary.preview \union ingest.ids
        IN  /\ net' = (net \ {m}) \union {summary, ingest}
            /\ exposed' = [exposed EXCEPT ![n] = @ \union {i \in named : Target[i] = n}]
  BY DEF HandleHelloBlind
<1> DEFINE summary == SummaryOf(n, p, known)
           ingest == IngestOf(n, p, known)
           named == summary.summary.preview \union ingest.ids
<1>3. named \subseteq Items
  <2>1. have[n] \subseteq Items
    BY <1>1 DEF IInv, RestIsTyped
  <2> QED
    BY <2>1 DEF SummaryOf, IngestOf, Advertised, First
<1>4. /\ net' = (net \ {m}) \union {summary, ingest}
      /\ exposed' = [exposed EXCEPT ![n] = exposed[n] \union {i \in named : Target[i] = n}]
      /\ UNCHANGED <<have, asked, served, serving>> /\ Greeted(n, p) /\ faults' = faults + 1
  BY <1>2 DEF HandleHelloBlind, Fault
<1> HIDE DEF named, n, p, summary, ingest
<1>5. /\ exposed' \in [Nodes -> SUBSET Items]
      /\ \A k \in Nodes : exposed[k] \subseteq exposed'[k]
      /\ \A i \in named : Target[i] = n => i \in exposed'[n]
  BY <1>1, <1>3, <1>4 DEF IInv, RestIsTyped
<1>6. GoodFrame(exposed', summary) /\ GoodFrame(exposed', ingest)
  <2>1. \A i \in SummaryOf(n, p, known).summary.preview \union IngestOf(n, p, known).ids :
          Target[i] = n => i \in exposed'[n]
    BY <1>5 DEF named, summary, ingest
  <2> DEFINE x == exposed'
  <2>2. \A i \in SummaryOf(n, p, known).summary.preview \union IngestOf(n, p, known).ids :
          Target[i] = n => i \in x[n]
    BY <2>1
  <2> HIDE DEF x
  <2>3. GoodFrame(x, SummaryOf(n, p, known)) /\ GoodFrame(x, IngestOf(n, p, known))
    BY <1>1, <2>2, AnnouncedIsGood DEF IInv
  <2> QED
    BY <2>3 DEF x, summary, ingest
<1>7. FramesAreGood'
  BY <1>4, <1>5, <1>6, ExposureGrows DEF IInv, FramesAreGood
<1>8. EncountersAreGood'
  <2> DEFINE e == [Current(n, p) EXCEPT !.latest = NoSummary]
  <2>1. GoodEncounter(exposed, p, Current(n, p))
    BY <1>1, CurrentIsGood DEF IInv
  <2>2. GoodEncounter(exposed, p, e)
    BY <2>1 DEF GoodEncounter, NoSummary, Encounter, Summary
  <2>3. enc' = [enc EXCEPT ![n][p] = e]
    BY <1>4 DEF Greeted
  <2>4. e \in Encounter
    BY <2>2 DEF GoodEncounter
  <2> HIDE DEF e
  <2>5. enc' \in [Nodes -> [Nodes -> Encounter]]
        /\ \A k, q \in Nodes : GoodEncounter(exposed, q, enc'[k][q])
    BY <1>1, <2>2, <2>3, <2>4 DEF IInv, EncountersAreGood
  <2> QED
    BY <1>5, <2>5, ExposureGrows DEF EncountersAreGood
<1>9. ServingIsGood'
  BY <1>4, <1>5, ExposureGrows DEF IInv, ServingIsGood
<1> QED
  BY <1>4, <1>5, <1>7, <1>8, <1>9 DEF IInv, RestIsTyped

LEMMA SummaryKeeps ==
  ASSUME IInv, NEW m \in net, HandleSummary(m, m.to, m.from)
  PROVE  IInv'
<1> DEFINE n == m.to
           p == m.from
           e == [Current(n, p) EXCEPT !.latest = m.summary]
           want == ToAsk(n, p, have[n], e, m.summary)
           next == AfterRound(n, p, have[n], e, m.summary)
<1>1. /\ n \in Nodes /\ p \in Nodes
      /\ m.summary \in Summary /\ m.summary.preview \subseteq Forwardable(exposed, p)
  BY FrameFacts DEF IInv, FramesAreGood, HandleSummary
<1>2. GoodEncounter(exposed, p, Current(n, p))
  BY <1>1, CurrentIsGood DEF IInv
<1>3. GoodEncounter(exposed, p, e)
  BY <1>1, <1>2 DEF GoodEncounter, Encounter
<1>4. want \subseteq Forwardable(exposed, p) /\ GoodEncounter(exposed, p, next)
  BY <1>1, <1>3, RoundIsGood
<1>5. /\ Receive(m, RequestOf(n, p, want))
      /\ enc' = [enc EXCEPT ![n][p] = next]
      /\ Remember(n, p, want)
      /\ UNCHANGED <<have, served, serving, exposed>>
  BY DEF HandleSummary
<1> HIDE DEF n, p, e, want, next
<1>6. FramesAreGood' /\ faults' \in Nat
  BY <1>1, <1>4, <1>5, RequestIsGood, ReceiveKeeps
<1>7. EncountersAreGood'
  BY <1>1, <1>4, <1>5, EncounterKeeps DEF IInv
<1>8. asked' \in [Nodes -> [Nodes -> SUBSET Items]]
  <2>1. want \in SUBSET Items
    BY <1>4 DEF Forwardable
  <2> QED
    BY <1>1, <1>5, <2>1, RememberKeeps DEF IInv
<1> QED
  BY <1>5, <1>6, <1>7, <1>8, UnchangedKeeps DEF IInv, RestIsTyped

LEMMA RequestKeeps ==
  ASSUME IInv, NEW m \in net, HandleRequest(m, m.to, m.from)
  PROVE  IInv'
<1> DEFINE n == m.to
           s == [to |-> m.from, want |-> m.want, pending |-> m.want, sent |-> 0]
<1>1. /\ n \in Nodes /\ m.from \in Nodes
      /\ m.want \in SUBSET Items /\ m.want \subseteq Forwardable(exposed, n)
  BY FrameFacts DEF IInv, FramesAreGood, HandleRequest
<1>2. GoodServing(exposed, n, s)
  BY <1>1 DEF GoodServing, Serving
<1>3. FramesAreGood' /\ faults' \in Nat
  BY ReceiveKeeps DEF HandleRequest
<1>4. UNCHANGED exposed /\ (serving' = serving \/ serving' = [serving EXCEPT ![n] = s])
  BY DEF HandleRequest
<1> HIDE DEF n, s
<1>5. ServingIsGood'
  BY <1>1, <1>2, <1>4, ServingKeeps, UnchangedKeeps DEF IInv
<1> QED
  BY <1>3, <1>5, UnchangedKeeps DEF IInv, RestIsTyped, HandleRequest

\* An offer is asked for, or the summary at hand, or nothing.
LEMMA IngestKeeps ==
  ASSUME IInv, NEW m \in net, HandleIngest(m, m.to, m.from)
  PROVE  IInv'
<1> DEFINE n == m.to
           p == m.from
           e == Current(n, p)
           candidates == (m.ids \ have[n]) \ e.requested
           want == IF e.latest = NoSummary THEN candidates
                   ELSE Missing(have[n], e.latest, candidates)
           stops == candidates = {} \/ want = {} \/ Exhausted(e)
           again == want = asked[n][p]
           sent == IF stops \/ again THEN {} ELSE RequestOf(n, p, want)
           remembered == IF stops THEN {} ELSE want
           asking == [e EXCEPT !.requested = @ \union want, !.rounds = @ + 1, !.streak = 0]
           next == IF stops THEN Over ELSE IF again THEN e ELSE asking
<1>1. n \in Nodes /\ p \in Nodes /\ m.ids \subseteq Forwardable(exposed, p)
  BY FrameFacts DEF IInv, FramesAreGood, HandleIngest
<1>2. GoodEncounter(exposed, p, e)
  BY <1>1, CurrentIsGood DEF IInv
<1>3. want \subseteq Forwardable(exposed, p)
  BY <1>1, <1>2 DEF GoodEncounter, Missing
<1>4. /\ Receive(m, sent)
      /\ enc' = [enc EXCEPT ![n][p] = next]
      /\ Remember(n, p, remembered)
      /\ UNCHANGED <<have, served, serving, exposed>>
  BY DEF HandleIngest
<1> HIDE DEF n, p, e, candidates, want
<1>5. GoodEncounter(exposed, p, next)
  <2>1. CASE stops \/ again
    BY <1>1, <1>2, <2>1, FreshIsGood
  <2>2. CASE ~stops /\ ~again
    <3>1. e.rounds \in Nat /\ e.rounds + 1 <= MaxRounds
      BY <1>2, <2>2, LanConstants DEF Exhausted, GoodEncounter, Encounter
    <3>2. want \subseteq Items
      BY <1>3 DEF Forwardable
    <3>3. asking \in Encounter /\ asking.rounds = e.rounds + 1 /\ asking.latest = e.latest
      <4>1. e \in Encounter
        BY <1>2 DEF GoodEncounter
      <4>2. e.requested \union want \in SUBSET Items /\ e.rounds + 1 \in Nat
        BY <3>1, <3>2, <4>1 DEF Encounter
      <4> QED
        BY <4>1, <4>2 DEF Encounter
    <3>4. GoodEncounter(exposed, p, asking)
      BY <1>2, <3>1, <3>3 DEF GoodEncounter
    <3> QED
      BY <2>2, <3>4
  <2> QED
    BY <2>1, <2>2
<1>6. FramesAreGood' /\ faults' \in Nat
  BY <1>1, <1>3, <1>4, RequestIsGood, ReceiveKeeps
<1>7. asked' \in [Nodes -> [Nodes -> SUBSET Items]]
  <2>1. remembered \in SUBSET Items
    BY <1>3 DEF Forwardable
  <2> QED
    BY <1>1, <1>4, <2>1, RememberKeeps DEF IInv
<1> HIDE DEF next
<1>8. EncountersAreGood'
  BY <1>1, <1>4, <1>5, EncounterKeeps DEF IInv
<1> QED
  BY <1>4, <1>6, <1>7, <1>8, UnchangedKeeps DEF IInv, RestIsTyped

\* Counting a transfer changes neither the summary nor the rounds.
LEMMA CountedIsGood ==
  ASSUME NEW p, NEW e, GoodEncounter(exposed, p, e), NEW objects \in SUBSET Items,
         NEW accepted \in SUBSET objects
  PROVE  GoodEncounter(exposed, p, Counted(e, objects, accepted))
<1>1. Cardinality(objects) \in Nat
  BY LanConstants, FS_Subset, FS_CardinalityType
<1>2. e \in Encounter /\ e.imported \in Nat
  BY DEF GoodEncounter, Encounter
<1>3. e.imported + Cardinality(objects) \in Nat
  BY <1>1, <1>2
<1>4. /\ Counted(e, objects, accepted) \in Encounter
      /\ Counted(e, objects, accepted).rounds = e.rounds
      /\ Counted(e, objects, accepted).latest = e.latest
  BY <1>2, <1>3 DEF Counted, Encounter
<1> QED
  BY <1>4 DEF GoodEncounter

LEMMA StreakIsGood ==
  ASSUME NEW p, NEW e, GoodEncounter(exposed, p, e), NEW k \in Nat
  PROVE  GoodEncounter(exposed, p, [e EXCEPT !.streak = k])
BY DEF GoodEncounter, Encounter

LEMMA TransferKeeps ==
  ASSUME IInv, NEW m \in net, HandleTransfer(m, m.to, m.from)
  PROVE  IInv'
<1> DEFINE n == m.to
           p == m.from
<1>1. n \in Nodes /\ p \in Nodes /\ m.objects \in SUBSET Items
  BY FrameFacts DEF IInv, FramesAreGood, HandleTransfer
<1>2. PICK accepted \in Imports(n, m.objects) :
        LET store == have[n] \union accepted
            useful == ~(accepted \subseteq Current(n, p).accepted)
            e == Counted(Current(n, p), m.objects, accepted)
            want == IF useful THEN ToAsk(n, p, store, e, e.latest) ELSE {}
        IN  /\ Receive(m, RequestOf(n, p, want))
            /\ have' = [have EXCEPT ![n] = store]
            /\ enc' = [enc EXCEPT ![n][p] =
                 IF useful THEN AfterRound(n, p, store, [e EXCEPT !.streak = 0], e.latest)
                 ELSE IF e.streak + 1 >= MaxStreak \/ e.imported >= MaxImported THEN Over
                 ELSE [e EXCEPT !.streak = @ + 1]]
            /\ Remember(n, p, want)
            /\ UNCHANGED <<served, serving, exposed>>
  BY DEF HandleTransfer
<1> DEFINE store == have[n] \union accepted
           useful == ~(accepted \subseteq Current(n, p).accepted)
           e == Counted(Current(n, p), m.objects, accepted)
           want == IF useful THEN ToAsk(n, p, store, e, e.latest) ELSE {}
           next == IF useful THEN AfterRound(n, p, store, [e EXCEPT !.streak = 0], e.latest)
                   ELSE IF e.streak + 1 >= MaxStreak \/ e.imported >= MaxImported THEN Over
                   ELSE [e EXCEPT !.streak = @ + 1]
<1>3. accepted \in SUBSET m.objects
  BY <1>2 DEF Imports
<1>4. /\ Receive(m, RequestOf(n, p, want))
      /\ have' = [have EXCEPT ![n] = store]
      /\ enc' = [enc EXCEPT ![n][p] = next]
      /\ Remember(n, p, want)
      /\ UNCHANGED <<served, serving, exposed>>
  BY <1>2
<1>5. GoodEncounter(exposed, p, Current(n, p))
  BY <1>1, CurrentIsGood DEF IInv
<1>6. GoodEncounter(exposed, p, e)
  BY <1>1, <1>3, <1>5, CountedIsGood
<1> HIDE DEF e, n, p, store, useful
<1>7. e.latest \in Summary /\ e.latest.preview \subseteq Forwardable(exposed, p) /\ e.streak + 1 \in Nat
  BY <1>6 DEF GoodEncounter, Encounter
<1>8. want \subseteq Forwardable(exposed, p)
  BY <1>1, <1>6, <1>7, RoundIsGood
<1>9. GoodEncounter(exposed, p, next)
  <2>1. GoodEncounter(exposed, p, [e EXCEPT !.streak = 0])
    BY <1>6, StreakIsGood
  <2>2. GoodEncounter(exposed, p, AfterRound(n, p, store, [e EXCEPT !.streak = 0], e.latest))
    BY <1>1, <1>7, <2>1, RoundIsGood
  <2>3. GoodEncounter(exposed, p, [e EXCEPT !.streak = e.streak + 1])
    BY <1>6, <1>7, StreakIsGood
  <2> QED
    BY <1>1, <2>2, <2>3, FreshIsGood
<1> HIDE DEF next, want
<1>10. FramesAreGood' /\ faults' \in Nat
  BY <1>1, <1>4, <1>8, RequestIsGood, ReceiveKeeps
<1>11. asked' \in [Nodes -> [Nodes -> SUBSET Items]]
  <2>1. want \in SUBSET Items
    BY <1>8 DEF Forwardable
  <2> QED
    BY <1>1, <1>4, <2>1, RememberKeeps DEF IInv
<1>12. EncountersAreGood'
  BY <1>1, <1>4, <1>9, EncounterKeeps DEF IInv
<1>13. have' \in [Nodes -> SUBSET Items]
  BY <1>1, <1>3, <1>4 DEF IInv, RestIsTyped, store
<1> QED
  BY <1>4, <1>10, <1>11, <1>12, <1>13, UnchangedKeeps DEF IInv, RestIsTyped

LEMMA FailTransferKeeps ==
  ASSUME IInv, NEW m \in net, FailTransfer(m, m.to, m.from)
  PROVE  IInv'
<1> DEFINE n == m.to
           p == m.from
<1>1. n \in Nodes /\ p \in Nodes /\ m.objects \in SUBSET Items
  BY FrameFacts DEF IInv, FramesAreGood, FailTransfer
<1>2. PICK accepted \in Imports(n, m.objects) :
        /\ Receive(m, {})
        /\ have' = [have EXCEPT ![n] = @ \union accepted]
        /\ enc' = [enc EXCEPT ![n][p] = Counted(Current(n, p), m.objects, accepted)]
        /\ UNCHANGED <<asked, served, serving, exposed>>
  BY DEF FailTransfer
<1>3. accepted \in SUBSET m.objects
  BY <1>2 DEF Imports
<1>4. GoodEncounter(exposed, p, Counted(Current(n, p), m.objects, accepted))
  BY <1>1, <1>3, CurrentIsGood, CountedIsGood DEF IInv
<1>5. FramesAreGood' /\ faults' \in Nat
  BY <1>2, ReceiveKeeps
<1> HIDE DEF n, p
<1>6. EncountersAreGood'
  BY <1>1, <1>2, <1>4, EncounterKeeps DEF IInv
<1>7. have' \in [Nodes -> SUBSET Items]
  BY <1>1, <1>2, <1>3 DEF IInv, RestIsTyped
<1> QED
  BY <1>2, <1>5, <1>6, <1>7, UnchangedKeeps DEF IInv, RestIsTyped

----
(* Serving, the network, time and restarts. *)

LEMMA BroadcastKeeps ==
  ASSUME IInv, NEW n \in Nodes, Broadcast(n)
  PROVE  IInv'
<1>1. \A p \in Nodes : GoodFrame(exposed, Frame("HELLO", n, p))
  BY DEF GoodFrame, Frame, Hellos
<1>2. FramesAreGood'
  BY <1>1 DEF IInv, FramesAreGood, Broadcast
<1> QED
  BY <1>2, UnchangedKeeps DEF IInv, RestIsTyped, Broadcast, workerVars

\* A datagram holds what was asked for, as far as it is in the store.
LEMMA ServeKeeps ==
  ASSUME IInv, NEW n \in Nodes, ServeChunk(n)
  PROVE  IInv'
<1> DEFINE s == serving[n]
           chunk == Chunk(n, s.pending)
           next == [s EXCEPT !.pending = @ \ chunk, !.sent = @ + Cardinality(chunk)]
<1>1. GoodServing(exposed, n, s) /\ s.to \in Nodes /\ s.sent \in Nat /\ s.pending \in SUBSET Items
  BY DEF IInv, ServingIsGood, GoodServing, Serving
<1>2. chunk \subseteq s.pending
  BY DEF Chunk
<1>3. Cardinality(chunk) \in Nat
  BY <1>1, <1>2, LanConstants, FS_Subset, FS_CardinalityType
<1>4. /\ net' = net \union {[kind |-> "TRANSFER", from |-> n, to |-> s.to,
                             objects |-> chunk]}
      /\ serving' = [serving EXCEPT ![n] = next]
      /\ UNCHANGED <<have, enc, asked, served, faults, exposed>>
  <2>1. serving' = [serving EXCEPT ![n].pending = @ \ chunk,
                                   ![n].sent = @ + Cardinality(chunk)]
    BY DEF ServeChunk
  <2> HIDE DEF chunk
  <2>2. serving' = [serving EXCEPT ![n] = next]
    BY <2>1 DEF IInv, ServingIsGood
  <2> QED
    BY <2>2 DEF ServeChunk, chunk
<1> HIDE DEF chunk
<1>5. FramesAreGood'
  <2>1. GoodFrame(exposed, [kind |-> "TRANSFER", from |-> n, to |-> s.to, objects |-> chunk])
    BY <1>1, <1>2 DEF GoodFrame, GoodServing, Transfers
  <2> QED
    BY <1>4, <2>1 DEF IInv, FramesAreGood
<1>6. GoodServing(exposed, n, next)
  <2>1. s \in Serving /\ s.pending \ chunk \in SUBSET Items /\ s.sent + Cardinality(chunk) \in Nat
    BY <1>1, <1>3 DEF GoodServing
  <2>2. next \in Serving /\ next.pending = s.pending \ chunk
    BY <2>1 DEF Serving
  <2> QED
    BY <1>1, <2>2 DEF GoodServing
<1> HIDE DEF next
<1>7. ServingIsGood'
  BY <1>4, <1>6, ServingKeeps DEF IInv
<1> QED
  BY <1>4, <1>5, <1>7, UnchangedKeeps DEF IInv, RestIsTyped

LEMMA EndServeKeeps ==
  ASSUME IInv, NEW n \in Nodes, EndServe(n) \/ FailServe(n)
  PROVE  IInv'
<1>1. ServingIsGood'
  <2>1. serving' = [serving EXCEPT ![n] = Idle(n)] /\ UNCHANGED exposed
    BY DEF EndServe, FailServe
  <2>2. GoodServing(exposed, n, Idle(n))
    BY IdleIsGood
  <2> QED
    BY <2>1, <2>2, ServingKeeps DEF IInv
<1>2. served' \in [Nodes -> [Nodes -> SUBSET Items]]
  <2>1. serving[n].to \in Nodes /\ serving[n].want \in SUBSET Items
    BY DEF IInv, ServingIsGood, Serving
  <2>2. served' = served \/ served' = [served EXCEPT ![n][serving[n].to] = serving[n].want]
    BY DEF EndServe, FailServe
  <2>3. served \in [Nodes -> [Nodes -> SUBSET Items]]
    BY DEF IInv, RestIsTyped
  <2> DEFINE to == serving[n].to
             want == serving[n].want
  <2>4. to \in Nodes /\ want \in SUBSET Items /\ served[n] \in [Nodes -> SUBSET Items]
    BY <2>1, <2>3
  <2>5. served' = served \/ served' = [served EXCEPT ![n][to] = want]
    BY <2>2
  <2> HIDE DEF to, want
  <2>6. CASE served' = served
    BY <2>3, <2>6
  <2>7. CASE served' = [served EXCEPT ![n][to] = want]
    <3>1. [served[n] EXCEPT ![to] = want] \in [Nodes -> SUBSET Items]
      BY <2>4
    <3>2. served' = [served EXCEPT ![n] = [served[n] EXCEPT ![to] = want]]
      BY <2>3, <2>7
    <3> QED BY <2>3, <3>1, <3>2
  <2> QED
    BY <2>5, <2>6, <2>7
<1>3. faults' \in Nat
  BY DEF IInv, RestIsTyped, EndServe, FailServe, Fault
<1>4. UNCHANGED <<have, enc, asked, net, exposed>>
  BY DEF EndServe, FailServe
<1> QED
  BY <1>1, <1>2, <1>3, <1>4, UnchangedKeeps DEF IInv, RestIsTyped

LEMMA TimersKeep ==
  ASSUME IInv, NEW n \in Nodes, NEW p \in Nodes,
         TimeOut(n, p) \/ ForgetAsked(n, p) \/ ForgetServed(n, p)
  PROVE  IInv'
<1>1. EncountersAreGood'
  <2>1. enc' = enc \/ enc' = [enc EXCEPT ![n][p] = Over]
    BY DEF TimeOut, ForgetAsked, ForgetServed
  <2>2. GoodEncounter(exposed, p, Over)
    BY FreshIsGood
  <2> QED
    BY <2>1, <2>2, EncounterKeeps, UnchangedKeeps DEF IInv, TimeOut, ForgetAsked, ForgetServed
<1>2. RestIsTyped'
  <2>1. RestIsTyped
    BY DEF IInv
  <2>2. CASE TimeOut(n, p)
    BY <2>1, <2>2 DEF RestIsTyped, TimeOut
  <2>3. CASE ForgetAsked(n, p)
    BY <2>1, <2>3 DEF RestIsTyped, ForgetAsked
  <2>4. CASE ForgetServed(n, p)
    BY <2>1, <2>4 DEF RestIsTyped, ForgetServed
  <2> QED
    BY <2>2, <2>3, <2>4
<1>3. UNCHANGED <<serving, net, exposed>>
  BY DEF TimeOut, ForgetAsked, ForgetServed
<1> QED
  BY <1>1, <1>2, <1>3, UnchangedKeeps DEF IInv

LEMMA RestartKeeps ==
  ASSUME IInv, NEW n \in Nodes, Restart(n)
  PROVE  IInv'
<1>1. EncountersAreGood'
  BY FreshIsGood DEF IInv, EncountersAreGood, GoodEncounter, Restart
<1>2. ServingIsGood'
  <2>1. /\ serving' = [serving EXCEPT ![n] = Idle(n)] /\ UNCHANGED exposed
        /\ GoodServing(exposed, n, Idle(n))
    BY IdleIsGood DEF Restart
  <2> QED
    BY <2>1, ServingKeeps DEF IInv
<1>3. RestIsTyped' /\ UNCHANGED <<net, exposed>>
  BY DEF IInv, RestIsTyped, Restart, Fault
<1> QED
  BY <1>1, <1>2, <1>3, UnchangedKeeps DEF IInv

----

LEMMA InitInv == Init => IInv
<1> SUFFICES ASSUME Init PROVE IInv
  OBVIOUS
<1>1. EncountersAreGood
  BY FreshIsGood DEF Init, EncountersAreGood, GoodEncounter
<1>2. ServingIsGood
  BY IdleIsGood DEF Init, ServingIsGood, GoodServing
<1> QED
  BY <1>1, <1>2, LanConstants DEF Init, IInv, FramesAreGood, RestIsTyped

LEMMA StepInv == IInv /\ [Next]_vars => IInv'
<1> SUFFICES ASSUME IInv, [Next]_vars PROVE IInv'
  OBVIOUS
<1>1. ASSUME NEW m \in net, Handle(m) PROVE IInv'
  BY <1>1, HelloKeeps, SummaryKeeps, IngestKeeps, RequestKeeps, TransferKeeps DEF Handle
<1>2. ASSUME NEW m \in net, FailTransfer(m, m.to, m.from) PROVE IInv'
  BY <1>2, FailTransferKeeps
<1>11. ASSUME NEW m \in net, HandleHelloBlind(m, m.to, m.from) PROVE IInv'
  BY <1>11, HelloBlindKeeps
<1>3. ASSUME NEW m \in net, Lose(m) PROVE IInv'
  BY <1>3, UnchangedKeeps
     DEF IInv, FramesAreGood, RestIsTyped, Lose, Fault, workerVars
<1>4. ASSUME NEW n \in Nodes, Broadcast(n) PROVE IInv'
  BY <1>4, BroadcastKeeps
<1>5. ASSUME NEW n \in Nodes, ServeChunk(n) PROVE IInv'
  BY <1>5, ServeKeeps
<1>6. ASSUME NEW n \in Nodes, EndServe(n) \/ FailServe(n) PROVE IInv'
  BY <1>6, EndServeKeeps
<1>7. ASSUME NEW n \in Nodes, Restart(n) PROVE IInv'
  BY <1>7, RestartKeeps
<1>8. ASSUME NEW n \in Nodes, NEW i \in Items, Gain(n, i) PROVE IInv'
  BY <1>8, UnchangedKeeps DEF IInv, RestIsTyped, Gain, workerVars
<1>9. ASSUME NEW n \in Nodes, NEW p \in Nodes,
             TimeOut(n, p) \/ ForgetAsked(n, p) \/ ForgetServed(n, p)
      PROVE  IInv'
  BY <1>9, TimersKeep
<1>10. CASE UNCHANGED vars
  BY <1>10, UnchangedKeeps DEF IInv, RestIsTyped, vars, workerVars
<1> QED
  BY <1>1, <1>2, <1>3, <1>4, <1>5, <1>6, <1>7, <1>8, <1>9, <1>10, <1>11 DEF Next

LEMMA InvHolds == Spec => []IInv
BY InitInv, StepInv, PTL DEF Spec

\* Every reachable state has its type.
THEOREM TypeCorrect == Spec => []TypeOK
<1>1. IInv => TypeOK
  BY DEF IInv, RestIsTyped, EncountersAreGood, ServingIsGood, FramesAreGood, GoodFrame,
         Datagrams, TypeOK
<1> QED
  BY <1>1, InvHolds, PTL

\* However many nodes there are and however frames are reordered, lost or
\* repeated, and whenever the identity of a node cannot be read, a node sends on
\* what is addressed to it only if it named it itself at such a moment: a request
\* made from a summary, an offer or a memory of either brings out nothing else.
THEOREM NoneSentOn == Spec => []EndsAtTarget
<1>1. IInv => EndsAtTarget
  BY DEF IInv, FramesAreGood, GoodFrame, Hellos, Summaries, Ingests, Requests, Transfers,
         Forwardable, EndsAtTarget
<1> QED
  BY <1>1, InvHolds, PTL

\* Each of the three paths that send a REQUEST looks at the budget first.
THEOREM BudgetIsKept == Spec => []RoundsBounded
<1>1. IInv => RoundsBounded
  BY DEF IInv, EncountersAreGood, GoodEncounter, RoundsBounded
<1> QED
  BY <1>1, InvHolds, PTL

----
(* The exchange. *)

\* A TRANSFER in flight carries what its sender holds.
SentIsHeld == \A m \in net : m.kind = "TRANSFER" => m.objects \subseteq have[m.from]

LEMMA Answered ==
  ASSUME NEW n, NEW p, NEW want
  PROVE  \A m \in RequestOf(n, p, want) : m.kind = "REQUEST"
BY DEF RequestOf

\* A step of a worker adds to its store or leaves all stores alone.
LEMMA StoresGrow ==
  ASSUME RestIsTyped, [Next]_vars
  PROVE  \A n \in Nodes : have[n] \subseteq have'[n]
<1>1. have \in [Nodes -> SUBSET Items]
  BY DEF RestIsTyped
<1>2. ASSUME NEW n, NEW S, have' = [have EXCEPT ![n] = have[n] \union S]
      PROVE  \A k \in Nodes : have[k] \subseteq have'[k]
  BY <1>1, <1>2
<1>3. ASSUME NEW m \in net, Handle(m)
      PROVE  \/ UNCHANGED have
             \/ \E accepted : have' = [have EXCEPT ![m.to] = have[m.to] \union accepted]
  BY <1>3 DEF Handle, HandleHello, HandleSummary, HandleIngest, HandleRequest, HandleTransfer
<1>4. ASSUME NEW m \in net,
             \/ Handle(m) \/ HandleHelloBlind(m, m.to, m.from)
             \/ FailTransfer(m, m.to, m.from) \/ Lose(m)
      PROVE  \A k \in Nodes : have[k] \subseteq have'[k]
  BY <1>2, <1>3, <1>4 DEF HandleHelloBlind, FailTransfer, Lose
<1>5. ASSUME NEW n \in Nodes, NEW i \in Items, Gain(n, i)
      PROVE  \A k \in Nodes : have[k] \subseteq have'[k]
  BY <1>2, <1>5 DEF Gain
<1>6. ASSUME NEW n \in Nodes,
             \/ Broadcast(n) \/ ServeChunk(n) \/ EndServe(n) \/ FailServe(n) \/ Restart(n)
             \/ \E p \in Nodes : TimeOut(n, p) \/ ForgetAsked(n, p) \/ ForgetServed(n, p)
      PROVE  UNCHANGED have
  BY <1>6 DEF Broadcast, ServeChunk, EndServe, FailServe, Restart, TimeOut, ForgetAsked,
              ForgetServed
<1> QED
  BY <1>4, <1>5, <1>6 DEF Next, vars

\* Only serving sends a TRANSFER, of what is in the store.
LEMMA TransfersSent ==
  ASSUME [Next]_vars, NEW f \in net' \ net, f.kind = "TRANSFER"
  PROVE  f.objects \subseteq have[f.from] /\ \E n \in Nodes : ServeChunk(n)
<1>1. ASSUME NEW m, NEW sent, Receive(m, sent), \A g \in sent : g.kind # "TRANSFER" PROVE FALSE
  BY <1>1 DEF Receive
<1>2. ASSUME NEW m \in net, Handle(m) PROVE FALSE
  <2>1. CASE HandleHello(m, m.to, m.from)
    <3>1. /\ SummaryOf(m.to, m.from, Reads).kind = "SUMMARY"
          /\ IngestOf(m.to, m.from, Reads).kind = "RELAY_INGEST"
      BY DEF SummaryOf, IngestOf
    <3> QED BY <1>1, <2>1, <3>1 DEF HandleHello
  <2>2. CASE HandleSummary(m, m.to, m.from)
    BY <1>1, <2>2, Answered DEF HandleSummary
  <2>3. CASE HandleIngest(m, m.to, m.from)
    <3>1. PICK stops, want :
            Receive(m, IF stops THEN {} ELSE RequestOf(m.to, m.from, want))
      <4> DEFINE n == m.to
                 p == m.from
                 e == Current(n, p)
                 candidates == (m.ids \ have[n]) \ e.requested
                 want == IF e.latest = NoSummary THEN candidates
                         ELSE Missing(have[n], e.latest, candidates)
                 quiet == (candidates = {} \/ want = {} \/ Exhausted(e)) \/ want = asked[n][p]
      <4>1. Receive(m, IF quiet THEN {} ELSE RequestOf(n, p, want))
        BY <2>3 DEF HandleIngest
      <4>2. quiet \in BOOLEAN
        OBVIOUS
      <4> HIDE DEF quiet, want
      <4> QED BY <4>1, <4>2
    <3> QED BY <1>1, <3>1, Answered
  <2>4. CASE HandleRequest(m, m.to, m.from)
    BY <1>1, <2>4 DEF HandleRequest
  <2>5. CASE HandleTransfer(m, m.to, m.from)
    <3>1. PICK want : Receive(m, RequestOf(m.to, m.from, want))
      BY <2>5 DEF HandleTransfer
    <3> QED BY <1>1, <3>1, Answered
  <2> QED BY <1>2, <2>1, <2>2, <2>3, <2>4, <2>5 DEF Handle
<1>3. ASSUME NEW m \in net,
             \/ HandleHelloBlind(m, m.to, m.from)
             \/ FailTransfer(m, m.to, m.from) \/ Lose(m)
      PROVE  FALSE
  <2>1. CASE FailTransfer(m, m.to, m.from)
    <3>1. Receive(m, {})
      BY <2>1 DEF FailTransfer
    <3> QED BY <1>1, <3>1
  <2>2. CASE Lose(m)
    BY <2>2 DEF Lose
  <2>3. CASE HandleHelloBlind(m, m.to, m.from)
    <3>1. PICK known : net' = (net \ {m}) \union {SummaryOf(m.to, m.from, known),
                                                  IngestOf(m.to, m.from, known)}
      BY <2>3 DEF HandleHelloBlind
    <3>2. /\ SummaryOf(m.to, m.from, known).kind = "SUMMARY"
          /\ IngestOf(m.to, m.from, known).kind = "RELAY_INGEST"
      BY DEF SummaryOf, IngestOf
    <3> QED BY <3>1, <3>2
  <2> QED BY <1>3, <2>1, <2>2, <2>3
<1>4. ASSUME NEW n \in Nodes, Broadcast(n) PROVE FALSE
  BY <1>4 DEF Broadcast, Frame
<1>5. ASSUME NEW n \in Nodes,
             \/ EndServe(n) \/ FailServe(n) \/ Restart(n) \/ \E i \in Items : Gain(n, i)
             \/ \E p \in Nodes : TimeOut(n, p) \/ ForgetAsked(n, p) \/ ForgetServed(n, p)
      PROVE  FALSE
  BY <1>5 DEF EndServe, FailServe, Restart, Gain, TimeOut, ForgetAsked, ForgetServed
<1>6. PICK n \in Nodes : ServeChunk(n)
  BY <1>2, <1>3, <1>4, <1>5 DEF Next, vars
<1>7. f.from = n /\ f.objects = Chunk(n, serving[n].pending)
  BY <1>6 DEF ServeChunk
<1>8. Chunk(n, serving[n].pending) \subseteq have[n]
  BY DEF Chunk
<1> QED BY <1>6, <1>7, <1>8

\* What was in the sender's store when it was sent is there when it arrives.
LEMMA SentStaysHeld ==
  ASSUME IInv, SentIsHeld, [Next]_vars
  PROVE  SentIsHeld'
<1> SUFFICES ASSUME NEW m \in net', m.kind = "TRANSFER"
             PROVE  m.objects \subseteq have'[m.from]
  BY DEF SentIsHeld
<1>1. m.objects \subseteq have[m.from]
  BY TransfersSent DEF SentIsHeld
<1>2. m.from \in Nodes
  BY StepInv, FrameFacts DEF IInv, FramesAreGood
<1> QED BY <1>1, <1>2, StoresGrow DEF IInv

\* A TRANSFER is handled.
LEMMA TransferPasses ==
  ASSUME IInv, SentIsHeld, NEW m \in net, m.kind = "TRANSFER",
         NEW accepted \in Imports(m.to, m.objects),
         have' = [have EXCEPT ![m.to] = have[m.to] \union accepted], UNCHANGED exposed
  PROVE  Exchange!Next
<1>1. m.from \in Nodes /\ m.to \in Nodes /\ m.objects \in SUBSET Items
  BY FrameFacts DEF IInv, FramesAreGood
<1>2. m.objects \subseteq Forwardable(exposed, m.from)
  BY DEF IInv, FramesAreGood, GoodFrame, Hellos, Summaries, Ingests, Requests
<1>3. accepted \in SUBSET Items /\ accepted \subseteq m.objects
  BY <1>1 DEF Imports
<1>4. /\ accepted \subseteq have[m.from]
      /\ accepted \intersect {i \in Items : Target[i] = m.from} \subseteq exposed[m.from]
  BY <1>2, <1>3 DEF SentIsHeld, Forwardable
<1>5. Exchange!Pass(m.from, m.to, accepted)
  BY <1>1, <1>4 DEF Exchange!Pass, Exchange!TakesIn
<1> QED BY <1>1, <1>3, <1>5 DEF Exchange!Next

LEMMA StepExchanges ==
  ASSUME IInv, SentIsHeld, [Next]_vars
  PROVE  [Exchange!Next]_(Exchange!vars)
<1>1. ASSUME NEW m \in net, Handle(m) PROVE Exchange!Next \/ UNCHANGED <<have, exposed>>
  <2>1. CASE HandleTransfer(m, m.to, m.from)
    <3>1. /\ m.kind = "TRANSFER" /\ UNCHANGED exposed
          /\ \E accepted \in Imports(m.to, m.objects) :
               have' = [have EXCEPT ![m.to] = have[m.to] \union accepted]
      BY <2>1 DEF HandleTransfer
    <3> QED BY <3>1, TransferPasses
  <2>2. CASE ~HandleTransfer(m, m.to, m.from)
    BY <1>1, <2>2 DEF Handle, HandleHello, HandleSummary, HandleIngest, HandleRequest
  <2> QED BY <2>1, <2>2
<1>2. ASSUME NEW m \in net, FailTransfer(m, m.to, m.from) PROVE Exchange!Next
  BY <1>2, TransferPasses DEF FailTransfer
<1>3. ASSUME NEW n \in Nodes, NEW i \in Items, Gain(n, i) PROVE Exchange!Next
  BY <1>3 DEF Gain, Exchange!Next, Exchange!Appear, Exchange!TakesIn
<1>4. ASSUME NEW n \in Nodes,
             \/ Broadcast(n) \/ ServeChunk(n) \/ EndServe(n) \/ FailServe(n) \/ Restart(n)
             \/ \E p \in Nodes : TimeOut(n, p) \/ ForgetAsked(n, p) \/ ForgetServed(n, p)
      PROVE  UNCHANGED <<have, exposed>>
  BY <1>4 DEF Broadcast, ServeChunk, EndServe, FailServe, Restart, TimeOut, ForgetAsked,
              ForgetServed
<1>5. ASSUME NEW m \in net, Lose(m) PROVE UNCHANGED <<have, exposed>>
  BY <1>5 DEF Lose
<1>6. ASSUME NEW m \in net, HandleHelloBlind(m, m.to, m.from) PROVE Exchange!Next
  <2> DEFINE n == m.to
             own == {i \in Items : Target[i] = n}
  <2>1. n \in Nodes /\ have[n] \subseteq Items
    BY FrameFacts DEF IInv, FramesAreGood, RestIsTyped
  <2>2. PICK known :
          exposed' = [exposed EXCEPT ![n] = @ \union
            {i \in SummaryOf(n, m.from, known).summary.preview \union
                   IngestOf(n, m.from, known).ids : Target[i] = n}]
    BY <1>6 DEF HandleHelloBlind
  <2> DEFINE S == {i \in SummaryOf(n, m.from, known).summary.preview \union
                         IngestOf(n, m.from, known).ids : Target[i] = n}
  <2>3. S \subseteq have[n] /\ S \subseteq own
    <3>1. \A i \in S : i \in have[n] /\ Target[i] = n
      BY DEF SummaryOf, IngestOf, Advertised, First
    <3> QED BY <2>1, <3>1
  <2>4. exposed' = [exposed EXCEPT ![n] = @ \union S] /\ UNCHANGED have
    BY <1>6, <2>2 DEF HandleHelloBlind
  <2> HIDE DEF S, n
  <2>5. Exchange!Expose(n, S)
    BY <2>1, <2>3, <2>4 DEF Exchange!Expose
  <2> QED BY <2>1, <2>3, <2>5 DEF Exchange!Next
<1> QED BY <1>1, <1>2, <1>3, <1>4, <1>5, <1>6 DEF Next, vars, Exchange!vars

\* However frames are reordered, repeated, lost or served late, and whoever
\* restarts, what a store takes in another holds at that moment, and it does not
\* end there unless it was named by a node that could not tell who it is.
THEOREM ImplementsExchange == Spec => RefinesExchange
<1>1. Init => Exchange!Init /\ SentIsHeld
  BY DEF Init, Exchange!Init, SentIsHeld
<1>2. IInv /\ SentIsHeld /\ [Next]_vars => SentIsHeld'
  BY SentStaysHeld
<1>3. IInv /\ SentIsHeld /\ [Next]_vars => [Exchange!Next]_(Exchange!vars)
  BY StepExchanges
<1>4. Spec => Init /\ []IInv /\ [][Next]_vars
  BY InvHolds, PTL DEF Spec
<1> QED BY <1>1, <1>2, <1>3, <1>4, PTL DEF RefinesExchange, Exchange!Spec

----
(* When every store is full. *)

\* Every store is full, no frame asks for items or carries any, and no worker is
\* in the middle of serving.
Settled ==
  /\ \A n \in Nodes : have[n] = Items
  /\ \A m \in net : m.kind \notin {"REQUEST", "TRANSFER"}
  /\ \A n \in Nodes : serving[n].pending = {}

\* A node that has everything finds nothing in a summary or an offer to ask for.
LEMMA NothingMissing ==
  ASSUME NEW n, NEW p, NEW e, NEW s \in Summary
  PROVE  ToAsk(n, p, Items, e, s) = {}
BY DEF ToAsk, Missing, Summary

LEMMA SilentReceive ==
  ASSUME \A f \in net : f.kind \notin {"REQUEST", "TRANSFER"},
         NEW m, NEW sent, Receive(m, sent),
         \A f \in sent : f.kind \notin {"REQUEST", "TRANSFER"}
  PROVE  \A f \in net' : f.kind \notin {"REQUEST", "TRANSFER"}
BY DEF Receive

LEMMA SettledHandle ==
  ASSUME IInv, Settled, NEW m \in net, Handle(m)
  PROVE  /\ UNCHANGED <<have, serving>>
         /\ \A f \in net' : f.kind \notin {"REQUEST", "TRANSFER"}
<1> DEFINE n == m.to
           p == m.from
<1>1. n \in Nodes /\ p \in Nodes /\ have[n] = Items
  BY FrameFacts DEF IInv, FramesAreGood, Settled
<1>2. m.kind \notin {"REQUEST", "TRANSFER"} /\ \A f \in net : f.kind \notin {"REQUEST", "TRANSFER"}
  BY DEF Settled
<1>3. CASE HandleHello(m, n, p)
  <2>1. SummaryOf(n, p, Reads).kind = "SUMMARY" /\ IngestOf(n, p, Reads).kind = "RELAY_INGEST"
    BY DEF SummaryOf, IngestOf
  <2>2. Receive(m, {SummaryOf(n, p, Reads), IngestOf(n, p, Reads)}) /\ UNCHANGED <<have, serving>>
    BY <1>3 DEF HandleHello
  <2> QED BY <1>2, <2>1, <2>2, SilentReceive
<1>4. CASE HandleSummary(m, n, p)
  <2> DEFINE e == [Current(n, p) EXCEPT !.latest = m.summary]
             want == ToAsk(n, p, have[n], e, m.summary)
  <2>1. Receive(m, RequestOf(n, p, want)) /\ UNCHANGED <<have, serving>> /\ m.kind = "SUMMARY"
    BY <1>4 DEF HandleSummary
  <2>2. m.summary \in Summary
    BY <2>1, FrameFacts DEF IInv, FramesAreGood
  <2>3. want = {}
    BY <1>1, <2>2, NothingMissing
  <2> HIDE DEF want
  <2>4. Receive(m, {})
    BY <2>1, <2>3 DEF RequestOf
  <2> QED BY <1>2, <2>1, <2>4, SilentReceive
<1>5. CASE HandleIngest(m, n, p)
  <2>1. m.kind = "RELAY_INGEST" /\ UNCHANGED <<have, serving>>
    BY <1>5 DEF HandleIngest
  <2>2. (m.ids \ have[n]) \ Current(n, p).requested = {}
    BY <1>1, <2>1, FrameFacts DEF IInv, FramesAreGood, Forwardable
  <2>3. Receive(m, {})
    BY <1>5, <2>2 DEF HandleIngest
  <2> QED BY <1>2, <2>1, <2>3, SilentReceive
<1>6. CASE HandleRequest(m, n, p) \/ HandleTransfer(m, n, p)
  BY <1>2, <1>6 DEF HandleRequest, HandleTransfer
<1> QED BY <1>3, <1>4, <1>5, <1>6 DEF Handle

LEMMA SettledStep ==
  ASSUME IInv, Settled, [Next]_vars
  PROVE  Settled'
<1>1. have \in [Nodes -> SUBSET Items] /\ have' \in [Nodes -> SUBSET Items]
  BY StepInv DEF IInv, RestIsTyped
<1>2. \A n \in Nodes : have'[n] = Items
  <2>1. \A n \in Nodes : have[n] \subseteq have'[n]
    BY StoresGrow DEF IInv
  <2> QED BY <1>1, <2>1 DEF Settled
<1>3. /\ \A f \in net : f.kind \notin {"REQUEST", "TRANSFER"}
      /\ \A n \in Nodes : serving[n].pending = {}
      /\ serving \in [Nodes -> Serving]
  BY DEF Settled, IInv, ServingIsGood
<1>4. ASSUME UNCHANGED serving, \A f \in net' : f.kind \notin {"REQUEST", "TRANSFER"}
      PROVE  Settled'
  BY <1>2, <1>3, <1>4 DEF Settled
<1>5. ASSUME NEW m \in net, Handle(m) PROVE Settled'
  BY <1>4, <1>5, SettledHandle
<1>6. ASSUME NEW m \in net, FailTransfer(m, m.to, m.from) \/ Lose(m) PROVE Settled'
  <2>1. Lose(m)
    BY <1>3, <1>6 DEF FailTransfer
  <2> QED BY <1>3, <1>4, <2>1 DEF Lose, workerVars
<1>13. ASSUME NEW m \in net, HandleHelloBlind(m, m.to, m.from) PROVE Settled'
  <2>1. PICK known : net' = (net \ {m}) \union {SummaryOf(m.to, m.from, known),
                                                IngestOf(m.to, m.from, known)}
    BY <1>13 DEF HandleHelloBlind
  <2>2. /\ SummaryOf(m.to, m.from, known).kind = "SUMMARY"
        /\ IngestOf(m.to, m.from, known).kind = "RELAY_INGEST"
    BY DEF SummaryOf, IngestOf
  <2> QED BY <1>3, <1>4, <1>13, <2>1, <2>2 DEF HandleHelloBlind
<1>7. ASSUME NEW n \in Nodes, Broadcast(n) PROVE Settled'
  <2>1. \A f \in net' : f.kind \notin {"REQUEST", "TRANSFER"}
    BY <1>3, <1>7 DEF Broadcast, Frame
  <2> QED BY <1>4, <1>7, <2>1 DEF Broadcast, workerVars
<1>8. ASSUME NEW n \in Nodes, ServeChunk(n) PROVE FALSE
  <2>1. Chunk(n, serving[n].pending) # {}
    BY <1>8 DEF ServeChunk
  <2>2. Chunk(n, {}) = {}
    BY DEF Chunk
  <2> QED BY <1>3, <2>1, <2>2
<1>9. ASSUME NEW n \in Nodes, EndServe(n) \/ FailServe(n) \/ Restart(n) PROVE Settled'
  <2>1. serving' = [serving EXCEPT ![n] = Idle(n)] /\ UNCHANGED net
    BY <1>9 DEF EndServe, FailServe, Restart
  <2>2. \A k \in Nodes : serving'[k].pending = {}
    BY <1>3, <2>1 DEF Idle
  <2> QED BY <1>2, <1>3, <2>1, <2>2 DEF Settled
<1>10. ASSUME NEW n \in Nodes,
              \/ \E i \in Items : Gain(n, i)
              \/ \E p \in Nodes : TimeOut(n, p) \/ ForgetAsked(n, p) \/ ForgetServed(n, p)
       PROVE  UNCHANGED <<serving, net>>
  BY <1>10 DEF Gain, TimeOut, ForgetAsked, ForgetServed, workerVars
<1>11. CASE UNCHANGED vars
  BY <1>3, <1>4, <1>11 DEF vars, workerVars
<1>12. ASSUME UNCHANGED <<serving, net>> PROVE Settled'
  BY <1>3, <1>4, <1>12
<1> QED BY <1>5, <1>6, <1>7, <1>8, <1>9, <1>10, <1>11, <1>12, <1>13
   DEF Next

\* Once every store is full and nothing that was asked for or sent is under way,
\* it stays so, through restarts, repeated announcements and forgotten requests:
\* the safety part of Quiet.
THEOREM QuietLasts == Spec => [](Settled => []Settled)
<1>1. IInv /\ Settled /\ [Next]_vars => Settled'
  BY SettledStep
<1>2. Spec => []IInv /\ [][Next]_vars
  BY InvHolds, PTL DEF Spec
<1> QED BY <1>1, <1>2, PTL
====
