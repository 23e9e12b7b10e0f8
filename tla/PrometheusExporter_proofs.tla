---------------------- MODULE PrometheusExporter_proofs ----------------------
(* Proofs about PrometheusExporter: what scrapes read, next to any other    *)
(* exporters, flush() callers and record calls.                             *)
EXTENDS PrometheusExporter, FlushWorker_proofs, ExportFormats_proofs

-----------------------------------------------------------------------------
(* The client that the exporter belongs to.                                *)

\* The client makes its own steps, whatever the texts are.
LEMMA ClientStep == [PNext]_pvars => [FNext]_fvars
  BY DEF PNext, PrometheusExports, OtherReturns, FNext, pvars

\* It is the client of FlushWorker.
THEOREM ClientOfPrometheus == PSpec => FSpec
<1>1. PInit => FInit
  BY DEF PInit
<1> QED BY <1>1, ClientStep, PTL DEF PSpec, FSpec

\* What is known of its map.
LEMMA PrometheusMap == PSpec => [](FTyped /\ StopInv /\ IInv /\ GInv)
<1>1. FSpec => Spec
  BY MapOfClient
<1>2. Spec => []GInv
  BY GaugeInit, GaugeNext, PTL DEF Spec
<1> QED BY <1>1, <1>2, ClientInv, ClientOfPrometheus, PTL

-----------------------------------------------------------------------------
(* TextsInOrder.                                                           *)

\* The metrics of this pass that will be the next text.
Coming ==
    IF wpc \in {"exporting", "awaiting"} /\ phase = "metrics" /\ exporter <= Prometheus
    THEN metrics ELSE {}

Shown == former \cup latest

\* Everything in N comes after everything of the same series in M, gauges of the
\* series in G left aside: those whose stripes have grown their tables.
FollowsBut(m, n, G) ==
    \A i \in m.from, j \in n.from : i < j \/ (IsGauge(m) /\ (i = j \/ m.key \in G))
Before(M, N, G) == \A m \in M, n \in N : m.key = n.key => FollowsBut(m, n, G)
Anew == {s \in Series : PlacedAnew(s)}

\* Texts, the pass, the running flush of the worker and the map: each comes
\* after those before it.
TextsTyped == latest \in Batches /\ former \in Batches
Chain ==
    /\ Before(former, latest, Anew)
    /\ Before(Shown, Coming, Anew)
    /\ Before(Shown \cup Coming, batch[Worker], Anew)
    /\ Before(Shown \cup Coming \cup batch[Worker], Slots, Anew)

\* What has grown has grown for good.
LEMMA AnewGrows ==
  ASSUME IInv, [Next]_vars
  PROVE  Anew \subseteq Anew'
<1> SUFFICES ASSUME NEW s \in Series, PlacedAnew(s) PROVE PlacedAnew(s)'
  BY DEF Anew
<1>1. CombineHash(s) \in Hashes /\ Regrown(CombineHash(s))
  BY DEF Hashes, PlacedAnew, Regrown
<1>2. Regrown(CombineHash(s))'
  <2> DEFINE h == CombineHash(s)
  <2>1. h \in Hashes /\ Regrown(h)
    BY <1>1
  <2> HIDE DEF h
  <2>2. Regrown(h)'
    BY <2>1, RegrownStays
  <2> QED BY <2>2 DEF h, Regrown, Home, CombineHash
<1> QED BY <1>2 DEF Regrown, PlacedAnew

\* Smaller sets stay in order, and so they do where more has grown.
LEMMA BeforeSmaller ==
  ASSUME NEW M, NEW N, NEW G, Before(M, N, G),
         NEW K, NEW L, NEW H, K \subseteq M, L \subseteq N, G \subseteq H
  PROVE  Before(K, L, H)
  BY DEF Before, FollowsBut

\* A record call adds only its own number to a slot.
LEMMA SlotsRecorded ==
  ASSUME IInv, NEW s \in Series, NEW v \in Values \cup {NaN},
         RecordCount(s, v) \/ RecordGauge(s, v) \/ RecordHistogram(s, v)
  PROVE  \A n \in Slots' : \A j \in n.from :
            j = NextId \/ \E old \in Slots : old.key = n.key /\ j \in old.from
<1>1. CASE entries' = entries
  BY <1>1 DEF Slots
<1>2. ASSUME NEW p, NEW old, NEW e, RecordedInto(p, old, e, s, v)
      PROVE  \A n \in Slots' : \A j \in n.from :
                j = NextId \/ \E x \in Slots : x.key = n.key /\ j \in x.from
  <2>1. /\ entries' = Put(p, e) /\ e.key = old.key
        /\ e.from = Contributors(Kind[s], old.from, NextId, v)
        /\ p \in DOMAIN entries => old = entries[p]
        /\ p \notin DOMAIN entries => old.from = {}
    BY <1>2 DEF RecordedInto, NewSlot
  <2>2. e.from \subseteq old.from \cup {NextId}
    BY <2>1, SeriesAssumption, ContributorsType
  <2>3. \A n \in Slots' : n \in Slots \/ n = e
    BY <2>1 DEF Put, Slots
  <2>4. p \in DOMAIN entries => old \in Slots
    BY <2>1 DEF Slots
  <2> QED BY <2>1, <2>2, <2>3, <2>4
<1>3. CASE Upsert(s, v) /\ (Kind[s] = "count" => v # NaN)
  <2>1. Log(s, v)
    BY RecordKinds
  <2> QED BY <1>1, <1>2, <1>3, <2>1, UpsertStep DEF IInv
<1> QED BY <1>1, <1>3, RecordKinds

\* What follows all of M still does after a record call, in the slots.
LEMMA BeforeRecord ==
  ASSUME IInv, NEW s \in Series, NEW v \in Values \cup {NaN},
         RecordCount(s, v) \/ RecordGauge(s, v) \/ RecordHistogram(s, v),
         NEW M \in Batches, NEW G, Before(M, Slots, G)
  PROVE  Before(M, Slots', G)
<1> SUFFICES ASSUME NEW m \in M, NEW n \in Slots', m.key = n.key,
                    NEW i \in m.from, NEW j \in n.from
             PROVE  i < j \/ (IsGauge(m) /\ (i = j \/ m.key \in G))
  BY DEF Before, FollowsBut
<1>1. i \in Ids
  BY DEF Batches, Entries
<1>2. i < NextId
  BY <1>1 DEF Ids, NextId, IInv, TypeOK
<1>3. CASE j = NextId
  BY <1>2, <1>3
<1>4. CASE \E old \in Slots : old.key = n.key /\ j \in old.from
  BY <1>4 DEF Before, FollowsBut
<1> QED BY <1>3, <1>4, SlotsRecorded

\* The flush of a stripe takes slots from the map: of a series that adds up all, and a
\* gauge stays there as it is, and comes after itself.
LEMMA ChainStripe ==
  ASSUME GInv, NEW M, Before(M \cup batch[Worker], Slots, Anew), Before(M, batch[Worker], Anew),
         FlushStripe(Worker)
  PROVE  /\ Before(M, batch'[Worker], Anew)
         /\ Before(M \cup batch'[Worker], Slots', Anew)
<1> DEFINE locked == InStripe(cursor[Worker])
           taken == {entries[p] : p \in {x \in locked : Emitted(entries[x])}}
<1>1. batch'[Worker] = batch[Worker] \cup taken
  BY WorkerAssumption DEF FlushStripe, GInv, IInv, TypeOK
<1>2. taken \subseteq Slots
  BY DEF Slots, InStripe
<1>3. Slots' \subseteq Slots
  BY DEF FlushStripe, Slots
<1>4. Before(M, batch'[Worker], Anew)
  BY <1>1, <1>2 DEF Before
<1>5. Before(taken, Slots', Anew)
  <2> SUFFICES ASSUME NEW p \in DOMAIN entries, p \in locked, Emitted(entries[p]),
                      NEW q \in DOMAIN entries', entries[p].key = entries'[q].key
               PROVE  FollowsBut(entries[p], entries'[q], Anew)
    BY DEF Before, Slots, InStripe
  <2>1. entries'[q] = entries[q] /\ q \in DOMAIN entries
    BY DEF FlushStripe
  <2>2. q.hash = p.hash /\ p.hash = CombineHash(entries[p].key)
    BY <2>1 DEF GInv, IInv, Origins
  <2>3. IsGauge(entries[p])
    <3>1. q \in locked
      BY <2>1, <2>2 DEF InStripe
    <3> QED BY <2>1, <3>1 DEF FlushStripe, Retained, IsGauge
  <2>4. CASE entries[p].key \in Anew
    BY <2>3, <2>4 DEF FollowsBut
  <2>5. CASE entries[p].key \notin Anew
    <3>1. entries[p].key \in Series
      BY DEF GInv, IInv, TypeOK, Entries
    <3>2. ~Regrown(p.hash)
      BY <2>2, <2>5, <3>1 DEF Anew, PlacedAnew, Regrown
    <3>3. q = p
      BY <2>1, <2>2, <3>2, OneSlot DEF GInv, IInv
    <3>4. PICK id \in GaugeSets(p.hash) : entries[p].from = {id}
      BY <2>3 DEF GInv, EachSet, IsSetBy
    <3> QED BY <2>1, <2>3, <3>3, <3>4 DEF FollowsBut
  <2> QED BY <2>4, <2>5
<1>6. Before(M \cup batch'[Worker], Slots', Anew)
  <2> HIDE DEF taken
  <2> QED BY <1>1, <1>3, <1>5 DEF Before
<1> QED BY <1>4, <1>6

\* Metrics and texts are made of known record calls, and stay so.
LEMMA TextsTypedNext == FTyped /\ TextsTyped /\ [PNext]_pvars => TextsTyped'
<1> SUFFICES ASSUME FTyped, TextsTyped, [PNext]_pvars PROVE TextsTyped'
  OBVIOUS
<1>1. [FNext]_fvars
  BY ClientStep
<1>2. Batches \subseteq Batches'
  BY <1>1, MapStep, HandedGrows
<1>3. latest \in Batches' /\ former \in Batches' /\ metrics \in Batches'
  BY <1>2 DEF TextsTyped, FTyped, HandedTyped
<1>4. CASE PrometheusExports
  BY <1>3, <1>4 DEF PrometheusExports, Rendered, TextsTyped, Batches
<1>5. CASE UNCHANGED texts
  BY <1>3, <1>5 DEF texts, TextsTyped
<1> QED BY <1>4, <1>5 DEF PNext, OtherReturns, pvars, texts

\* The steps of the client that leave the texts alone keep the chain.
LEMMA ChainClient ==
  ASSUME FTyped, StopInv, GInv, TextsTyped, Chain, UNCHANGED texts,
         ApplicationStep \/ WorkerStep \/ ExportPanic \/ OtherReturns \/ UNCHANGED fvars
  PROVE  Chain'
<1> USE DEF Chain
<1>1. Shown' = Shown /\ former' = former /\ latest' = latest
  BY DEF texts, Shown
<1>2. /\ Shown \in Batches /\ Coming \in Batches /\ batch[Worker] \in Batches
      /\ Worker \in Flushers
  BY WorkerAssumption DEF FTyped, TypeOK, HandedTyped, TextsTyped, Shown, Coming, Batches
<1>0. [Next]_vars /\ Anew \subseteq Anew'
  <2>1. [FNext]_fvars
    BY DEF FNext, OtherReturns
  <2> QED BY <2>1, MapStep, AnewGrows DEF GInv
<1>3. ASSUME Coming' \subseteq Coming, batch'[Worker] = batch[Worker], Slots' \subseteq Slots
      PROVE  Chain'
  BY <1>0, <1>1, <1>3 DEF Before, FollowsBut
<1>4. ASSUME RecordCall PROVE Chain'
  <2>1. PICK s \in Series, v \in Values \cup {NaN} :
           RecordCount(s, v) \/ RecordGauge(s, v) \/ RecordHistogram(s, v)
    BY <1>4 DEF RecordCall, Record
  <2>2. Coming' = Coming /\ batch' = batch
    BY <1>4, <2>1, RecordKinds DEF RecordCall, workerVars, Coming
  <2>3. Shown \cup Coming \cup batch[Worker] \in Batches
    BY <1>2 DEF Batches
  <2>4. Before(Shown \cup Coming \cup batch[Worker], Slots', Anew)
    BY <2>1, <2>3, BeforeRecord DEF GInv
  <2> QED BY <1>0, <1>1, <2>2, <2>4, BeforeSmaller
<1>5. ASSUME NEW f \in Flushers \ {Worker}, ManualFlush(f) \/ ManualReturn(f)
      PROVE  Chain'
  <2>1. Coming' = Coming
    BY <1>5 DEF ManualFlush, ManualReturn, workerVars, Coming
  <2>2. batch'[Worker] = batch[Worker]
    BY <1>2, <1>5 DEF ManualFlush, ManualReturn, FlushStart, FlushStripe, FlushReturn,
                      FTyped, TypeOK
  <2>3. Slots' \subseteq Slots
    BY <1>5 DEF ManualFlush, ManualReturn, FlushStart, FlushStripe, FlushReturn, Slots
  <2> QED BY <1>3, <2>1, <2>2, <2>3
<1>6. ASSUME NEW t \in Stoppers, StopStep(t) PROVE Chain'
  <2>1. UNCHANGED <<vars, workerVars>>
    BY <1>6 DEF StopStep, NotifyOne, TakeHandle, Join
  <2> QED BY <1>3, <2>1 DEF vars, workerVars, Coming, Slots
<1>7. ASSUME Tick \/ Notified PROVE Chain'
  <2>1. Coming' = {} /\ batch' = batch /\ entries' = entries
    BY <1>7 DEF Tick, Notified, Wake, FlushStart, Coming
  <2> QED BY <1>3, <2>1 DEF Slots
<1>8. ASSUME WorkerFlushStripe PROVE Chain'
  <2>1. Coming' = Coming /\ FlushStripe(Worker)
    BY <1>8 DEF WorkerFlushStripe, workerVars, Coming
  <2>2. /\ Before(Shown \cup Coming, batch'[Worker], Anew)
        /\ Before(Shown \cup Coming \cup batch'[Worker], Slots', Anew)
    BY <2>1, ChainStripe
  <2> QED BY <1>0, <1>1, <2>1, <2>2, BeforeSmaller
<1>9. ASSUME WorkerFlushReturn PROVE Chain'
  <2>1. /\ metrics' = batch[Worker] /\ batch'[Worker] = {} /\ entries' = entries
    BY <1>2, <1>9 DEF WorkerFlushReturn, FlushReturn, FTyped, TypeOK
  <2>2. Coming' \subseteq batch[Worker] /\ Slots' = Slots
    BY <2>1 DEF Coming, Slots
  <2>3. /\ Before(Shown, batch[Worker], Anew)
        /\ Before(Shown \cup batch[Worker], Slots, Anew)
        /\ Before(Shown \cup batch[Worker], {}, Anew)
    BY DEF Before
  <2> QED BY <1>0, <1>1, <2>1, <2>2, <2>3, BeforeSmaller
<1>10. ASSUME \/ ExportCall \/ ExportedAll \/ DrainEmpty \/ NextPass \/ Break
              \/ OtherReturns \/ ExportPanic
       PROVE  Chain'
  <2>1. batch' = batch /\ entries' = entries
    BY <1>10 DEF ExportCall, ExportedAll, DrainEmpty, NextPass, Break, OtherReturns, ExportReturn,
                 ExportPanic, DropReceiver, RawReceiverDropped, vars
  <2>2. metrics' = metrics /\ exporter \in Nat
    BY <1>10 DEF ExportCall, ExportedAll, DrainEmpty, NextPass, Break, OtherReturns, ExportReturn,
                 ExportPanic, FTyped, WorkerTyped
  <2>3. CASE ExportCall
    BY <1>3, <2>1, <2>2, <2>3 DEF ExportCall, Coming, Slots
  <2>4. CASE ExportedAll \/ DrainEmpty \/ NextPass \/ Break \/ ExportPanic
    <3>1. Coming' = {}
      BY <2>4 DEF ExportedAll, DrainEmpty, NextPass, Break, ExportPanic, Coming
    <3> QED BY <1>3, <2>1, <3>1 DEF Slots
  <2>5. CASE OtherReturns
    <3>1. /\ wpc = "awaiting" /\ wpc' = "exporting" /\ phase' = phase
          /\ exporter' = exporter + 1
      BY <2>5 DEF OtherReturns, ExportReturn, AfterExport
    <3>2. Coming' \subseteq Coming
      BY <2>2, <3>1, PrometheusAssumption DEF Coming
    <3> QED BY <1>3, <2>1, <3>2 DEF Slots
  <2> QED BY <1>10, <2>3, <2>4, <2>5
<1>11. ASSUME DrainOne PROVE Chain'
  <2>1. Coming' = Coming /\ batch' = batch /\ entries' = entries
    BY <1>11 DEF DrainOne, RawTryRecv, Coming
  <2> QED BY <1>3, <2>1 DEF Slots
<1>12. ASSUME UNCHANGED fvars PROVE Chain'
  BY <1>3, <1>12 DEF fvars, vars, workerVars, Coming, Slots
<1> QED BY <1>4, <1>5, <1>6, <1>7, <1>8, <1>9, <1>10, <1>11, <1>12
        DEF ApplicationStep, WorkerStep, WorkerOwn

\* The metrics in the exporter's hands become the text, the text a former one.
LEMMA ChainExports ==
  ASSUME FTyped, Chain, PrometheusExports
  PROVE  Chain'
<1>1. /\ Coming = metrics /\ latest' = metrics /\ former' = Shown
      /\ UNCHANGED <<batch, entries, epoch>>
  BY PrometheusAssumption
     DEF PrometheusExports, ExportReturn, Rendered, Coming, Shown, vars
<1>2. Coming' = {}
  BY PrometheusAssumption DEF PrometheusExports, ExportReturn, AfterExport, Coming
<1>3. Shown' = Shown \cup Coming /\ Slots' = Slots /\ Anew' = Anew
  BY <1>1 DEF Shown, Slots, Anew, PlacedAnew, Home, StripeOf, CombineHash
<1> QED BY <1>1, <1>2, <1>3 DEF Chain, Before

\* Every step keeps the chain.
LEMMA ChainNext ==
  FTyped /\ StopInv /\ GInv /\ TextsTyped /\ Chain /\ [PNext]_pvars => Chain'
  BY ChainClient, ChainExports DEF PNext, OtherReturns, pvars, texts

\* Of one series a text shows later record calls than any text before it: no
\* count and no observation of a scrape is shown again by a later text, and no
\* gauge goes back to an older value while the table of its stripe has not grown,
\* whatever the other exporters answer and whoever else flushes.
THEOREM TextsInOrderHolds == PSpec => []TextsInOrder
<1>1. PInit => TextsTyped /\ Chain
  <2> SUFFICES ASSUME PInit PROVE TextsTyped /\ Chain
    OBVIOUS
  <2>1. latest = {} /\ former = {} /\ metrics = {} /\ batch[Worker] = {} /\ Slots = {}
    BY WorkerAssumption DEF PInit, FInit, Init, Slots
  <2> QED BY <2>1 DEF TextsTyped, Chain, Before, Shown, Coming, Batches
<1>2. Chain => TextsInOrder
  BY DEF Chain, Before, FollowsBut, Follows, Anew, TextsInOrder
<1> QED BY <1>1, <1>2, PrometheusMap, TextsTypedNext, ChainNext, PTL DEF PSpec

-----------------------------------------------------------------------------
(* ScrapesDistinct.                                                        *)

\* Metrics of known series only, one for each series that is not in G, and no
\* record call in two of them.
OnePerSeries(M, G) ==
    /\ \A m, n \in M : m.key \in Series /\ (m.key = n.key => m = n \/ m.key \in G)
    /\ Apart(M)
PassOnce == OnePerSeries(metrics, Anew) /\ OnePerSeries(latest, Anew)

\* What a flush takes is that.
LEMMA BatchPerSeries ==
  ASSUME IInv, BatchOnce, NEW f \in Flushers
  PROVE  OnePerSeries(batch[f], Anew)
<1>1. ASSUME NEW m \in batch[f], NEW n \in batch[f]
      PROVE  m.key \in Series /\ (m.key = n.key => m = n \/ m.key \in Anew)
  <2>1. m.key \in Series
    BY DEF IInv, TypeOK, Entries
  <2>2. m.key = n.key => m = n \/ Regrown(CombineHash(m.key))
    BY DEF BatchOnce
  <2> QED BY <2>1, <2>2 DEF Regrown, Anew, PlacedAnew
<1>2. Apart(batch[f])
  BY DEF IInv, ExactlyOnce, NoneTwice
<1> QED BY <1>1, <1>2 DEF OnePerSeries

LEMMA PassOnceNext == IInv /\ BatchOnce /\ PassOnce /\ [PNext]_pvars => PassOnce'
<1> SUFFICES ASSUME IInv, BatchOnce, PassOnce, [PNext]_pvars PROVE PassOnce'
  OBVIOUS
<1>1. metrics' = metrics \/ metrics' = batch[Worker]
  <2>1. CASE ApplicationStep \/ UNCHANGED fvars
    BY <2>1, ApplicationKeeps
  <2>2. CASE WorkerStep \/ ExportReturn \/ ExportPanic
    BY <2>2 DEF WorkerStep, WorkerOwn, Tick, Notified, Wake, WorkerFlushStripe,
                WorkerFlushReturn, ExportCall, ExportedAll, DrainOne, DrainEmpty, NextPass,
                Break, ExportReturn, ExportPanic, workerVars
  <2> QED BY <2>1, <2>2, ClientStep DEF FNext
<1>2. latest' = latest \/ latest' = metrics
  BY DEF PNext, PrometheusExports, OtherReturns, Rendered, texts, pvars
<1>3. OnePerSeries(batch[Worker], Anew)
  BY BatchPerSeries, WorkerAssumption
<1>4. Anew \subseteq Anew'
  BY ClientStep, MapStep, AnewGrows
<1>5. \A M : OnePerSeries(M, Anew) => OnePerSeries(M, Anew')
  BY <1>4 DEF OnePerSeries
<1> QED BY <1>1, <1>2, <1>3, <1>5 DEF PassOnce

\* No scrape shows a record call twice, nor a series whose stripe has not grown its
\* table, nor a line that may be taken for one of another series, where definitions
\* and options keep names, keys, variants and labels apart: whoever flushes and records
\* meanwhile, and whatever the exporters answer.
THEOREM ScrapesDistinctHolds ==
  ASSUME Distinguishable
  PROVE  PSpec => []ScrapesDistinct
<1>1. PInit => BatchOnce /\ PassOnce
  BY DEF PInit, FInit, Init, BatchOnce, PassOnce, OnePerSeries, Apart
<1>2. PassOnce => ScrapesDistinct
  <2>1. \A s \in Series : Unmistakable(PrometheusOf, s)
    BY SeriesReadable DEF Readable
  <2> QED BY <2>1 DEF PassOnce, OnePerSeries, Anew, ScrapesDistinct
<1>3. [PNext]_pvars => [Next]_vars
  BY ClientStep, MapStep
<1>4. IInv /\ BatchOnce /\ PassOnce /\ [PNext]_pvars => (BatchOnce /\ PassOnce)'
  BY <1>3, BatchOnceNext, PassOnceNext
<1> QED BY <1>1, <1>2, <1>4, PrometheusMap, PTL DEF PSpec

-----------------------------------------------------------------------------
(* GaugesStay.                                                             *)

\* The gauges of M are what calls of their own series have set them to.
StandsFor(m, id) ==
    id \in GaugeSets(CombineHash(m.key)) /\ IsSetBy(m, id) /\ log[id].series = m.key
GaugesKnown(M) ==
    \A m \in M : IsGauge(m) => m.value # NaN /\ \E id \in Ids : StandsFor(m, id)
Known == GaugesKnown(latest \cup metrics \cup batch[Worker])

\* What the text shows was set before the worker's flush began, ...
Recent ==
    cursor[Worker] # Idle =>
        \A m \in latest : IsGauge(m) => \A i \in m.from : i <= since[Worker]

\* ... so that the flush finds every gauge of the text again.
Found(M) == \A m \in latest : IsGauge(m) => UnsetAfter(m) \/ \E n \in M : n.key = m.key
InPass == wpc \in {"exporting", "awaiting"} /\ phase = "metrics" /\ exporter <= Prometheus
Refound == InPass => Found(metrics)

\* Calls that set a gauge are never forgotten.
LEMMA GaugeSetsGrow ==
  ASSUME IInv, [Next]_vars
  PROVE  /\ \A h : GaugeSets(h) \subseteq GaugeSets(h)'
         /\ \A id \in Ids : id \in Ids' /\ log'[id] = log[id]
<1>1. ASSUME NEW s \in Series, NEW v \in Values \cup {NaN},
             RecordCount(s, v) \/ RecordGauge(s, v) \/ RecordHistogram(s, v)
      PROVE  \A h : GaugeSets(h) \subseteq GaugeSets(h)'
  BY <1>1, RecordKinds, GaugeSetsRecord DEF IInv
<1>2. ASSUME \/ \E f \in Flushers : FlushStep(f)
             \/ RawTryRecv \/ RawReceiverDropped \/ UNCHANGED vars
      PROVE  \A h : GaugeSets(h) \subseteq GaugeSets(h)'
  BY <1>2, OtherStep, GaugeSetsSame
<1>3. \A h : GaugeSets(h) \subseteq GaugeSets(h)'
  BY <1>1, <1>2 DEF Next, Record
<1>4. \A id \in Ids : id \in Ids' /\ log'[id] = log[id]
  BY LogGrows DEF IInv
<1> QED BY <1>3, <1>4

\* What was known of a gauge stays known,
LEMMA KnownStays ==
  ASSUME IInv, [Next]_vars, NEW M, GaugesKnown(M)
  PROVE  \A m \in M : IsGauge(m) => m.value # NaN /\ \E id \in Ids' : StandsFor(m, id)'
<1>1. ASSUME NEW m \in M, NEW id \in Ids, StandsFor(m, id)
      PROVE  id \in Ids' /\ StandsFor(m, id)'
  BY <1>1, GaugeSetsGrow DEF StandsFor, IsSetBy, CombineHash
<1> QED BY <1>1 DEF GaugesKnown

\* ... and what was set to the value that reads as unset stays so.
LEMMA FoundStays ==
  ASSUME IInv, [Next]_vars, NEW M, Found(M), latest' = latest
  PROVE  Found(M)'
<1> SUFFICES ASSUME NEW m \in latest, UnsetAfter(m) PROVE UnsetAfter(m)'
  BY DEF Found
<1>1. PICK id \in Ids : /\ log[id] = [series |-> m.key, value |-> NaN]
                        /\ \A i \in m.from : i < id
  BY DEF UnsetAfter
<1>2. id \in Ids' /\ log'[id] = log[id]
  BY GaugeSetsGrow
<1> QED BY <1>1, <1>2 DEF UnsetAfter

\* A flush that has visited all stripes has every gauge of the text again.
LEMMA FlushFinds ==
  ASSUME \A s, t \in Series : CombineHash(s) = CombineHash(t) => s = t,
         FTyped, TextsTyped, GInv, OwnSeries, Known, Recent, FlushReturn(Worker)
  PROVE  Found(batch[Worker])
<1> SUFFICES ASSUME NEW m \in latest, IsGauge(m)
             PROVE  UnsetAfter(m) \/ \E n \in batch[Worker] : n.key = m.key
  BY DEF Found
<1> DEFINE h == CombineHash(m.key)
<1>1. m.key \in Series /\ h \in Hashes /\ Worker \in Flushers
  BY WorkerAssumption DEF TextsTyped, Batches, Entries, Hashes
<1>2. PICK j \in Ids : StandsFor(m, j)
  BY DEF Known, GaugesKnown
<1>3. m.value # NaN
  BY DEF Known, GaugesKnown
<1>4. cursor[Worker] = StripeCount /\ cursor[Worker] # Idle
  BY SizeAssumption DEF FlushReturn, Finished, Idle
<1>5. j <= since[Worker] /\ j \in GaugeSets(h)
  BY <1>2, <1>4 DEF Recent, StandsFor, IsSetBy
<1>6. StripeOf(h) < cursor[Worker]
  <2>1. h \in Nat
    BY <1>1, HashType
  <2> QED BY <1>4, <2>1, SizeAssumption DEF StripeOf
<1>7. PICK id \in GaugeSets(h) :
         /\ j <= id
         /\ log[id].value = NaN \/ \E n \in batch[Worker] : IsSetBy(n, id)
  <2> HIDE DEF h
  <2> QED BY <1>1, <1>5, <1>6 DEF GInv, TakenLast
<1>8. id \in Ids /\ log[id].series = m.key
  <2>1. id \in Ids /\ CombineHash(log[id].series) = CombineHash(m.key)
    BY <1>7 DEF GaugeSets, HashOf
  <2>2. log[id].series \in Series
    BY <2>1, LogType DEF GInv, IInv
  <2> QED BY <1>1, <2>1, <2>2
<1>9. CASE log[id].value = NaN
  <2>1. id # j
    BY <1>2, <1>3, <1>9 DEF StandsFor, IsSetBy
  <2>2. j < id
    BY <1>7, <1>8, <2>1 DEF Ids, FTyped, TypeOK
  <2>3. log[id] = [series |-> m.key, value |-> NaN]
    <3>1. log[id] \in [series : Series, value : Values \cup {NaN}]
      <4>1. log \in Seq([series : Series, value : Values \cup {NaN}])
        BY DEF FTyped, TypeOK
      <4>2. id \in 1 .. Len(log)
        BY <1>8 DEF Ids
      <4> QED BY <4>1, <4>2, ElementOfSeq
    <3>2. \A r \in [series : Series, value : Values \cup {NaN}] :
             r = [series |-> r.series, value |-> r.value]
      OBVIOUS
    <3> QED BY <1>8, <1>9, <3>1, <3>2
  <2>4. m.from = {j}
    BY <1>2 DEF StandsFor, IsSetBy
  <2> QED BY <1>8, <2>2, <2>3, <2>4 DEF UnsetAfter
<1>10. CASE \E n \in batch[Worker] : IsSetBy(n, id)
  <2>1. PICK n \in batch[Worker] : n.from = {id}
    BY <1>10 DEF IsSetBy
  <2>2. n \in Metrics
    BY <1>1 DEF Metrics
  <2>3. log[id].series = n.key
    BY <2>1, <2>2 DEF OwnSeries
  <2> QED BY <1>8, <2>3
<1> QED BY <1>7, <1>9, <1>10

\* The worker takes only gauges that are known.
LEMMA TakenKnown ==
  ASSUME GInv, OwnSeries, Known, FlushStripe(Worker)
  PROVE  GaugesKnown(batch'[Worker])
<1> SUFFICES ASSUME NEW m \in batch'[Worker], IsGauge(m)
             PROVE  m.value # NaN /\ \E id \in Ids : StandsFor(m, id)
  BY DEF GaugesKnown
<1>1. CASE m \in batch[Worker]
  BY <1>1 DEF Known, GaugesKnown
<1>2. ASSUME m \notin batch[Worker]
      PROVE  m.value # NaN /\ \E id \in Ids : StandsFor(m, id)
  <2>1. PICK p \in DOMAIN entries : m = entries[p] /\ Emitted(entries[p])
    BY <1>2, WorkerAssumption DEF FlushStripe, InStripe, GInv, IInv, TypeOK
  <2>2. PICK id \in GaugeSets(p.hash) : IsSetBy(m, id)
    BY <2>1 DEF GInv, EachSet
  <2>3. p.hash = CombineHash(m.key) /\ m \in Metrics
    BY <2>1 DEF GInv, IInv, Origins, Metrics, Slots
  <2>4. log[id].series = m.key
    BY <2>2, <2>3 DEF OwnSeries, IsSetBy
  <2>5. m.value # NaN
    BY <2>1 DEF Emitted, IsGauge
  <2>6. id \in Ids
    BY <2>2 DEF GaugeSets
  <2> QED BY <2>2, <2>3, <2>4, <2>5, <2>6 DEF StandsFor
<1> QED BY <1>1, <1>2

\* Every step keeps the gauges of the text, the pass and the flush known.
LEMMA KnownNext ==
  ASSUME FTyped, GInv, OwnSeries, Known, [PNext]_pvars
  PROVE  Known'
<1>1. [FNext]_fvars /\ [Next]_vars /\ IInv
  BY ClientStep, MapStep DEF GInv
<1>2. ASSUME latest' \cup metrics' \cup batch'[Worker] \subseteq latest \cup metrics \cup batch[Worker]
      PROVE  Known'
  BY <1>1, <1>2, KnownStays DEF Known, GaugesKnown, IsGauge
<1>3. ASSUME WorkerFlushStripe, UNCHANGED texts PROVE Known'
  <2>1. latest' = latest /\ metrics' = metrics
    BY <1>3 DEF WorkerFlushStripe, workerVars, texts
  <2>2. GaugesKnown(batch'[Worker])
    BY <1>3, TakenKnown DEF WorkerFlushStripe
  <2>3. GaugesKnown(latest \cup metrics \cup batch'[Worker])
    BY <2>2 DEF Known, GaugesKnown
  <2> QED BY <1>1, <2>1, <2>3, KnownStays DEF Known, GaugesKnown, IsGauge
<1>4. ASSUME WorkerFlushReturn, UNCHANGED texts PROVE Known'
  <2>1. latest' = latest /\ metrics' = batch[Worker] /\ batch'[Worker] = {}
    BY <1>4, WorkerAssumption DEF WorkerFlushReturn, FlushReturn, texts, FTyped, TypeOK
  <2> QED BY <1>2, <2>1
<1>5. ASSUME NEW f \in Flushers \ {Worker}, ManualFlush(f) \/ ManualReturn(f), UNCHANGED texts
      PROVE  Known'
  <2>1. latest' = latest /\ metrics' = metrics
    BY <1>5 DEF ManualFlush, ManualReturn, workerVars, texts
  <2>2. batch'[Worker] = batch[Worker]
    BY <1>5, WorkerAssumption DEF ManualFlush, ManualReturn, FlushStart, FlushStripe, FlushReturn,
                      FTyped, TypeOK
  <2> QED BY <1>2, <2>1, <2>2
<1>6. ASSUME PrometheusExports PROVE Known'
  <2>1. latest' = metrics /\ metrics' = metrics /\ batch' = batch
    BY <1>6 DEF PrometheusExports, Rendered, ExportReturn, vars
  <2> QED BY <1>2, <2>1
<1>7. ASSUME \/ Tick \/ Notified \/ ExportCall \/ ExportedAll \/ DrainOne \/ DrainEmpty
             \/ NextPass \/ Break \/ ExportPanic \/ ExportReturn \/ UNCHANGED fvars,
             UNCHANGED texts
      PROVE  Known'
  <2>1. latest' = latest /\ metrics' = metrics /\ batch' = batch
    BY <1>7 DEF Tick, Notified, Wake, FlushStart, ExportCall, ExportedAll, DrainOne, RawTryRecv,
                DrainEmpty, NextPass, Break, ExportPanic, ExportReturn, DropReceiver,
                RawReceiverDropped, fvars, workerVars, vars, texts
  <2> QED BY <1>2, <2>1
<1>8. ASSUME RecordCall, UNCHANGED texts PROVE Known'
  <2>1. latest' = latest /\ metrics' = metrics
    BY <1>8 DEF RecordCall, workerVars, texts
  <2>2. batch' = batch
    BY <1>8, RecordKinds DEF RecordCall, Record
  <2> QED BY <1>2, <2>1, <2>2
<1>9. ASSUME NEW t \in Stoppers, StopStep(t), UNCHANGED texts PROVE Known'
  <2>1. latest' = latest /\ metrics' = metrics /\ batch' = batch
    BY <1>9 DEF StopStep, NotifyOne, TakeHandle, Join, vars, workerVars, texts
  <2> QED BY <1>2, <2>1
<1> QED BY <1>3, <1>4, <1>5, <1>6, <1>7, <1>8, <1>9
        DEF PNext, OtherReturns, pvars, texts, ApplicationStep, WorkerStep, WorkerOwn

\* What the text shows stays older than the flush that is running.
LEMMA RecentNext ==
  ASSUME FTyped, TextsTyped, StopInv, Recent, [PNext]_pvars
  PROVE  Recent'
<1>1. Worker \in Flushers /\ \A m \in latest : m.from \subseteq Ids
  BY WorkerAssumption DEF TextsTyped, Batches, Entries
<1>2. ASSUME latest' = latest, since'[Worker] = since[Worker],
             cursor'[Worker] # Idle => cursor[Worker] # Idle
      PROVE  Recent'
  BY <1>2 DEF Recent, IsGauge
<1>3. ASSUME cursor'[Worker] = Idle PROVE Recent'
  BY <1>3 DEF Recent
<1>4. ASSUME WorkerFlushStripe, UNCHANGED texts PROVE Recent'
  <2>1. cursor[Worker] # Idle /\ since' = since /\ latest' = latest
    BY <1>4 DEF WorkerFlushStripe, FlushStripe, Visiting, Idle, texts
  <2> QED BY <1>2, <2>1
<1>5. ASSUME WorkerFlushReturn PROVE Recent'
  <2>1. cursor'[Worker] = Idle
    BY <1>1, <1>5 DEF WorkerFlushReturn, FlushReturn, FTyped, TypeOK
  <2> QED BY <1>3, <2>1
<1>6. ASSUME Tick \/ Notified, UNCHANGED texts PROVE Recent'
  <2>1. latest' = latest /\ since'[Worker] = Len(log)
    BY <1>1, <1>6 DEF Tick, Notified, Wake, FlushStart, texts, FTyped, TypeOK
  <2>2. \A i \in Ids : i <= Len(log)
    BY DEF Ids
  <2> QED BY <1>1, <2>1, <2>2 DEF Recent
<1>7. ASSUME NEW f \in Flushers \ {Worker}, ManualFlush(f) \/ ManualReturn(f), UNCHANGED texts
      PROVE  Recent'
  <2>1. latest' = latest /\ cursor'[Worker] = cursor[Worker] /\ since'[Worker] = since[Worker]
    BY <1>1, <1>7 DEF ManualFlush, ManualReturn, FlushStart, FlushStripe, FlushReturn, texts,
                      FTyped, TypeOK
  <2> QED BY <1>2, <2>1
<1>8. ASSUME RecordCall, UNCHANGED texts PROVE Recent'
  <2>1. latest' = latest /\ cursor' = cursor /\ since' = since
    BY <1>8, RecordKinds DEF RecordCall, Record, texts
  <2> QED BY <1>2, <2>1
<1>9. ASSUME ExportReturn PROVE Recent'
  <2>1. cursor'[Worker] = Idle
    BY <1>9 DEF ExportReturn, StopInv, vars
  <2> QED BY <1>3, <2>1
<1>10. ASSUME NEW t \in Stoppers, StopStep(t), UNCHANGED texts PROVE Recent'
  <2>1. latest' = latest /\ cursor' = cursor /\ since' = since
    BY <1>10 DEF StopStep, NotifyOne, TakeHandle, Join, vars, texts
  <2> QED BY <1>2, <2>1
<1>11. ASSUME \/ ExportCall \/ ExportedAll \/ DrainOne \/ DrainEmpty
              \/ NextPass \/ Break \/ ExportPanic \/ UNCHANGED fvars,
              UNCHANGED texts
       PROVE  Recent'
  <2>1. latest' = latest /\ cursor' = cursor /\ since' = since
    BY <1>11 DEF ExportCall, ExportedAll, DrainOne, RawTryRecv,
                DrainEmpty, NextPass, Break, ExportPanic, DropReceiver,
                RawReceiverDropped, fvars, vars, texts
  <2> QED BY <1>2, <2>1
<1> QED BY <1>4, <1>5, <1>6, <1>7, <1>8, <1>9, <1>10, <1>11
        DEF PNext, PrometheusExports, OtherReturns, pvars, texts, ApplicationStep, WorkerStep,
            WorkerOwn

\* The metrics in the exporter's hands keep every gauge of the text.
LEMMA RefoundNext ==
  ASSUME \A s, t \in Series : CombineHash(s) = CombineHash(t) => s = t,
         FTyped, TextsTyped, GInv, OwnSeries, Known, Recent, Refound, [PNext]_pvars
  PROVE  Refound'
<1>1. [FNext]_fvars /\ [Next]_vars /\ IInv
  BY ClientStep, MapStep DEF GInv
<1>2. ASSUME latest' = latest, metrics' = metrics, InPass' => InPass
      PROVE  Refound'
  <2> SUFFICES ASSUME InPass' PROVE Found(metrics)'
    BY DEF Refound
  <2>1. \A M : Found(M) => \A m \in latest : IsGauge(m) =>
           UnsetAfter(m)' \/ \E n \in M : n.key = m.key
    BY <1>1, <1>2, FoundStays DEF Found, IsGauge
  <2> QED BY <1>2, <2>1 DEF Refound, Found, IsGauge
<1>3. ASSUME ~InPass' PROVE Refound'
  BY <1>3 DEF Refound
<1>4. ASSUME WorkerFlushReturn, UNCHANGED texts PROVE Refound'
  <2>1. metrics' = batch[Worker] /\ latest' = latest
    BY <1>4 DEF WorkerFlushReturn, texts
  <2>2. Found(batch[Worker])
    BY <1>4, FlushFinds DEF WorkerFlushReturn
  <2>3. \A M : Found(M) => \A m \in latest : IsGauge(m) =>
           UnsetAfter(m)' \/ \E n \in M : n.key = m.key
    BY <1>1, <2>1, FoundStays DEF Found, IsGauge
  <2> QED BY <2>1, <2>2, <2>3 DEF Refound, Found, IsGauge
<1>5. ASSUME PrometheusExports PROVE Refound'
  <2>1. ~InPass'
    BY <1>5, PrometheusAssumption DEF PrometheusExports, ExportReturn, AfterExport, InPass
  <2> QED BY <1>3, <2>1
<1>6. ASSUME OtherReturns PROVE Refound'
  <2>1. /\ wpc = "awaiting" /\ phase' = phase /\ exporter' = exporter + 1
        /\ latest' = latest /\ metrics' = metrics /\ exporter \in Nat
    BY <1>6 DEF OtherReturns, ExportReturn, AfterExport, texts, FTyped, WorkerTyped
  <2>2. InPass' => InPass
    BY <2>1, PrometheusAssumption DEF InPass
  <2> QED BY <1>2, <2>1, <2>2
<1>7. ASSUME Tick \/ Notified \/ ExportedAll \/ DrainEmpty \/ NextPass \/ Break \/ ExportPanic
      PROVE  Refound'
  <2>1. ~InPass'
    BY <1>7 DEF Tick, Notified, Wake, ExportedAll, DrainEmpty, NextPass, Break, ExportPanic, InPass
  <2> QED BY <1>3, <2>1
<1>8. ASSUME WorkerFlushStripe \/ ExportCall \/ DrainOne, UNCHANGED texts PROVE Refound'
  <2>1. latest' = latest /\ metrics' = metrics /\ (InPass' => InPass)
    BY <1>8 DEF WorkerFlushStripe, ExportCall, DrainOne, workerVars, texts, InPass
  <2> QED BY <1>2, <2>1
<1>9. ASSUME ApplicationStep \/ UNCHANGED fvars, UNCHANGED texts PROVE Refound'
  <2>1. latest' = latest /\ metrics' = metrics /\ (InPass' => InPass)
    BY <1>9, ApplicationKeeps DEF texts, InPass
  <2> QED BY <1>2, <2>1
<1> QED BY <1>4, <1>5, <1>6, <1>7, <1>8, <1>9
        DEF PNext, pvars, texts, WorkerStep, WorkerOwn

\* If combine_hash tells all series apart, a gauge that a scrape shows stays in
\* all later texts, unless it was set to the value that reads as unset.
THEOREM GaugesStayHolds ==
  ASSUME \A s, t \in Series : CombineHash(s) = CombineHash(t) => s = t
  PROVE  PSpec => GaugesStay
<1> DEFINE PInv == /\ FTyped /\ StopInv /\ GInv /\ OwnSeries /\ TextsTyped
                   /\ Known /\ Recent /\ Refound
<1>1. PInit => TextsTyped /\ Known /\ Recent /\ Refound
  <2> SUFFICES ASSUME PInit PROVE TextsTyped /\ Known /\ Recent /\ Refound
    OBVIOUS
  <2>1. latest = {} /\ former = {} /\ metrics = {} /\ batch[Worker] = {}
    BY WorkerAssumption DEF PInit, FInit, Init
  <2> QED BY <2>1 DEF TextsTyped, Known, GaugesKnown, Recent, Refound, Found, Batches
<1>2. PSpec => []OwnSeries
  BY ClientOfPrometheus, MapOfClient, OwnSeriesHolds, PTL
<1>3. PInv /\ [PNext]_pvars => TextsTyped' /\ Known' /\ Recent' /\ Refound'
  BY TextsTypedNext, KnownNext, RecentNext, RefoundNext
<1>4. ASSUME PInv, [PNext]_pvars
      PROVE  [\A m \in latest : IsGauge(m) =>
                 UnsetAfter(m) \/ \E n \in latest' : n.key = m.key]_latest
  <2>1. ASSUME PrometheusExports
        PROVE  \A m \in latest : IsGauge(m) =>
                 UnsetAfter(m) \/ \E n \in latest' : n.key = m.key
    <3>1. InPass /\ latest' = metrics
      BY <2>1, PrometheusAssumption DEF PrometheusExports, ExportReturn, Rendered, InPass
    <3> QED BY <1>4, <3>1 DEF Refound, Found
  <2>2. ~PrometheusExports => latest' = latest
    BY <1>4 DEF PNext, OtherReturns, pvars, texts
  <2> QED BY <2>1, <2>2
<1> QED BY <1>1, <1>2, <1>3, <1>4, PrometheusMap, PTL DEF PSpec, GaugesStay
=============================================================================
