------------------------ MODULE StripedAggMap_proofs ------------------------
(* Proofs about StripedAggMap, for every value of its constants.            *)
EXTENDS StripedAggMap, SequenceTheorems, InductionTheorems

-----------------------------------------------------------------------------
(* Lemmas about the operators.                                             *)

\* A wrapped sum is an integer again.
LEMMA WrappedType == \A x \in Int : Wrapped(x) \in Int
  BY SizeAssumption DEF Wrapped

\* What a record call appends to the log, and what it leaves alone.
LEMMA LogStep ==
  ASSUME TypeOK, NEW s \in Series, NEW v \in Values \cup {NaN}, Log(s, v)
  PROVE  /\ Len(log) \in Nat
         /\ Len(log') = NextId
         /\ Ids' = Ids \cup {NextId}
         /\ NextId \notin Ids
         /\ \A id \in Ids : id \in Nat /\ log'[id] = log[id]
         /\ log'[NextId] = [series |-> s, value |-> v]
         /\ log' \in Seq([series : Series, value : Values \cup {NaN}])
  BY DEF TypeOK, Log, Ids, NextId

\* Sequences over a set are sequences over any larger one.
LEMMA SeqGrows ==
  ASSUME NEW S, NEW T, S \subseteq T
  PROVE  Seq(S) \subseteq Seq(T)
  BY SeqDef

\* The value a slot holds after a record call.
LEMMA RecordedType ==
  ASSUME NEW kind \in Kinds, NEW x \in Int \cup {NaN}, NEW v \in Values \cup {NaN},
         kind = "count" => v # NaN,
         kind = "gauge" \/ x \in Int
  PROVE  /\ Recorded(kind, x, v) \in Int \cup {NaN}
         /\ kind = "gauge" \/ Recorded(kind, x, v) \in Int
<1>1. CASE kind = "count"
  BY <1>1, ValueAssumption, WrappedType DEF Recorded
<1>2. CASE kind = "gauge"
  BY <1>2, ValueAssumption DEF Recorded
<1>3. CASE kind = "histogram"
  BY <1>3, ValueAssumption DEF Recorded
<1> QED BY <1>1, <1>2, <1>3 DEF Kinds

\* The record calls a slot is made of after a record call.
LEMMA ContributorsType ==
  ASSUME NEW kind \in Kinds, NEW from, NEW id, NEW v
  PROVE  Contributors(kind, from, id, v) \subseteq from \cup {id}
  BY DEF Contributors, Kinds

\* A slot of the map, or the new one of series s, at place p takes the record call
\* and becomes e.
RecordedInto(p, old, e, s, v) ==
    /\ p \in [hash : Hashes, epoch : Nat] /\ p.hash = CombineHash(s)
    /\ refused' = refused
    /\ entries' = Put(p, e)
    /\ e.key = old.key /\ Kind[old.key] = Kind[s]
    /\ e.from = Contributors(Kind[s], old.from, NextId, v)
    /\ e.value = Recorded(Kind[s], old.value, v)
    /\ p \in DOMAIN entries => old = entries[p] /\ epoch' = epoch
    /\ p \notin DOMAIN entries =>
          /\ old = NewSlot(s) /\ p = Home(CombineHash(s))'
          /\ Home(CombineHash(s)) \notin DOMAIN entries

\* Hashes are natural numbers, and their stripes exist.
LEMMA HashType ==
  ASSUME NEW h \in Hashes
  PROVE  h \in Nat /\ StripeOf(h) \in Stripes
<1>1. PICK s \in Series : h = CombineHash(s)
  BY DEF Hashes
<1>2. TagsHash[s] \in Nat /\ NamePtr[s] \in Nat
  BY SeriesAssumption
<1>3. TagsHash[s] * Multiplier \in Nat
  BY <1>2, SizeAssumption
<1>4. h \in Nat
  BY <1>1, <1>2, <1>3, SizeAssumption DEF CombineHash
<1> QED BY <1>4, SizeAssumption DEF StripeOf, Stripes

\* The epochs of stripes only grow, and only when a slot is inserted.
EpochGrows ==
    epoch' \in [Stripes -> Nat] /\ \A i \in Stripes : epoch[i] <= epoch'[i]

\* Inserting puts a new slot in a place that no slot is in.
LEMMA InsertStep ==
  ASSUME TypeOK, NEW s \in Series, NEW v,
         Home(CombineHash(s)) \notin At(CombineHash(s)), InsertNew(s, v)
  PROVE  /\ refused' = refused /\ EpochGrows
         /\ Home(CombineHash(s))' \in [hash : Hashes, epoch : Nat]
         /\ Home(CombineHash(s))'.hash = CombineHash(s)
         /\ Home(CombineHash(s))' \notin DOMAIN entries
         /\ Home(CombineHash(s)) \notin DOMAIN entries
         /\ entries' = Put(Home(CombineHash(s))', AfterRecord(NewSlot(s), v))
<1> DEFINE h == CombineHash(s)
           i == StripeOf(h)
<1>1. h \in Hashes /\ i \in Stripes
  BY HashType DEF Hashes
<1>2. PICK full \in TableFull(i) :
         epoch' = [epoch EXCEPT ![i] = IF full THEN @ + 1 ELSE @]
  BY DEF InsertNew
<1>3. epoch \in [Stripes -> Nat] /\ epoch[i] \in Nat
  BY <1>1 DEF TypeOK
<1>4. EpochGrows /\ epoch'[i] \in {epoch[i], epoch[i] + 1}
  <2> HIDE DEF i
  <2> QED BY <1>1, <1>2, <1>3 DEF EpochGrows
<1>5. /\ Home(h) = [hash |-> h, epoch |-> epoch[i]]
      /\ Home(h)' = [hash |-> h, epoch |-> epoch'[i]]
  BY DEF Home
<1>6. Home(h) \notin DOMAIN entries
  BY <1>5 DEF At
<1>7. \A p \in DOMAIN entries : p.hash = h => p.epoch <= epoch[i]
  BY DEF TypeOK, Home
<1>8. Home(h)' \notin DOMAIN entries
  <2>1. CASE epoch'[i] = epoch[i]
    BY <1>5, <1>6, <2>1
  <2>2. CASE epoch'[i] = epoch[i] + 1
    <3> HIDE DEF h, i
    <3> QED BY <1>3, <1>5, <1>7, <2>2
  <2> QED BY <1>4, <2>1, <2>2
<1>9. Home(h)' \in [hash : Hashes, epoch : Nat] /\ Home(h)'.hash = h
  <2> HIDE DEF h, i
  <2> QED BY <1>1, <1>3, <1>4, <1>5
<1>10. refused' = refused /\ entries' = Put(Home(h)', AfterRecord(NewSlot(s), v))
  BY <1>5 DEF InsertNew
<1> QED BY <1>4, <1>6, <1>8, <1>9, <1>10

\* What a slot of the kind that is recorded becomes.
LEMMA AfterRecordType ==
  ASSUME TypeOK, NEW s \in Series, NEW v \in Values \cup {NaN},
         Kind[s] = "count" => v # NaN, Log(s, v),
         NEW old \in Entries, Kind[old.key] = Kind[s],
         NEW e, e = AfterRecord(old, v)
  PROVE  /\ e \in Entries' /\ e.key = old.key
         /\ e.from = Contributors(Kind[s], old.from, NextId, v)
         /\ e.value = Recorded(Kind[s], old.value, v)
<1>1. e = [key   |-> old.key,
           value |-> Recorded(Kind[s], old.value, v),
           from  |-> Contributors(Kind[s], old.from, NextId, v)]
  BY DEF AfterRecord
<1>2. Kind[s] \in Kinds
  BY SeriesAssumption
<1>3. old.from \subseteq Ids /\ Ids' = Ids \cup {NextId}
  BY LogStep DEF Entries
<1>4. e.from \subseteq Ids'
  BY <1>1, <1>2, <1>3, ContributorsType
<1>5. old.key \in Series /\ old.value \in Int \cup {NaN}
      /\ (Kind[s] = "gauge" \/ old.value \in Int)
  BY DEF Entries, IsGauge
<1>6. /\ Recorded(Kind[s], old.value, v) \in Int \cup {NaN}
      /\ Kind[s] = "gauge" \/ Recorded(Kind[s], old.value, v) \in Int
  BY <1>2, <1>5, RecordedType
<1>7. e.key = old.key /\ e.value = Recorded(Kind[s], old.value, v)
      /\ e.from = Contributors(Kind[s], old.from, NextId, v)
  BY <1>1
<1>8. e \in Entries'
  BY <1>1, <1>4, <1>5, <1>6, <1>7 DEF Entries, IsGauge
<1> QED BY <1>7, <1>8

\* Either the call is refused, or one slot of its hash takes it.
LEMMA UpsertStep ==
  ASSUME TypeOK, NEW s \in Series, NEW v \in Values \cup {NaN},
         Kind[s] = "count" => v # NaN,
         Log(s, v), Upsert(s, v)
  PROVE  /\ EpochGrows
         /\ \/ refused' = refused \cup {NextId} /\ entries' = entries /\ epoch' = epoch
            \/ \E p, old : \E e \in Entries' : RecordedInto(p, old, e, s, v)
<1> DEFINE h == CombineHash(s)
<1>1. CASE Home(h) \notin At(h) /\ InsertNew(s, v)
  <2> DEFINE p == Home(h)'
             e == AfterRecord(NewSlot(s), v)
  <2>1. NewSlot(s) \in Entries /\ Kind[NewSlot(s).key] = Kind[s]
    BY SeriesAssumption, ValueAssumption DEF NewSlot, Entries, Fresh, IsGauge, Kinds
  <2>2. /\ refused' = refused /\ EpochGrows
        /\ p \in [hash : Hashes, epoch : Nat] /\ p.hash = h
        /\ p \notin DOMAIN entries /\ Home(h) \notin DOMAIN entries
        /\ entries' = Put(p, e)
    BY <1>1, InsertStep
  <2> HIDE DEF e
  <2>3. /\ e \in Entries' /\ e.key = NewSlot(s).key
        /\ e.from = Contributors(Kind[s], NewSlot(s).from, NextId, v)
        /\ e.value = Recorded(Kind[s], NewSlot(s).value, v)
    BY <2>1, AfterRecordType DEF e
  <2>4. RecordedInto(p, NewSlot(s), e, s, v)
    BY <2>1, <2>2, <2>3 DEF RecordedInto
  <2> QED BY <2>2, <2>3, <2>4
<1>2. ASSUME NEW p \in At(h), RecordAt(p, s, v)
      PROVE  /\ EpochGrows
             /\ \/ refused' = refused \cup {NextId} /\ entries' = entries /\ epoch' = epoch
                \/ \E q, old : \E e \in Entries' : RecordedInto(q, old, e, s, v)
  <2>1. p \in DOMAIN entries /\ p.hash = h /\ entries[p] \in Entries
        /\ p \in [hash : Hashes, epoch : Nat]
    BY DEF At, TypeOK
  <2>2. epoch' = epoch /\ EpochGrows
    BY <1>2 DEF RecordAt, EpochGrows, TypeOK
  <2>3. CASE Kind[entries[p].key] = Kind[s]
    <3> DEFINE e == AfterRecord(entries[p], v)
    <3>1. refused' = refused /\ entries' = Put(p, e)
      BY <1>2, <2>3 DEF RecordAt
    <3> HIDE DEF e
    <3>2. /\ e \in Entries' /\ e.key = entries[p].key
          /\ e.from = Contributors(Kind[s], entries[p].from, NextId, v)
          /\ e.value = Recorded(Kind[s], entries[p].value, v)
      BY <2>1, <2>3, AfterRecordType DEF e
    <3>3. RecordedInto(p, entries[p], e, s, v)
      BY <2>1, <2>2, <2>3, <3>1, <3>2 DEF RecordedInto
    <3> QED BY <2>2, <3>2, <3>3
  <2>4. CASE Kind[entries[p].key] # Kind[s]
    BY <1>2, <2>2, <2>4 DEF RecordAt
  <2> QED BY <2>3, <2>4
<1> QED BY <1>1, <1>2 DEF Upsert

-----------------------------------------------------------------------------
(* Type correctness.                                                       *)

\* The initial state is well-formed.
LEMMA TypeInit == Init => TypeOK
  BY SizeAssumption DEF Init, TypeOK, Entries, Idle, Ids

\* Ids only grows, and everything that is typed by it stays typed.
LEMMA EntriesGrow ==
  ASSUME TypeOK, NEW s \in Series, NEW v \in Values \cup {NaN}, Log(s, v)
  PROVE  Entries \subseteq Entries'
<1>1. Ids \subseteq Ids'
  BY LogStep
<1> QED BY <1>1 DEF Entries, IsGauge

\* The map of a well-formed state.
MapType ==
    /\ epoch \in [Stripes -> Nat]
    /\ DOMAIN entries \subseteq [hash : Hashes, epoch : Nat]
    /\ \A p \in DOMAIN entries : entries[p] \in Entries /\ p.epoch <= Home(p.hash).epoch

\* What the three record calls have in common.
LEMMA RecordType ==
  ASSUME TypeOK, NEW s \in Series, NEW v \in Values \cup {NaN}, Log(s, v),
         UNCHANGED <<cursor, batch, returned, rawOpen, since>>,
         MapType',
         rawQueue' \in Seq(Ids'),
         refused' \subseteq Ids'
  PROVE  TypeOK'
<1>1. Entries \subseteq Entries'
  BY EntriesGrow
<1>2. log' \in Seq([series : Series, value : Values \cup {NaN}])
      /\ Len(log) \in Nat /\ Len(log') = Len(log) + 1
  BY LogStep DEF NextId
<1>3. since' \in [Flushers -> 0 .. Len(log')]
  BY <1>2 DEF TypeOK
<1>4. batch' \in [Flushers -> SUBSET Entries'] /\ returned' \subseteq Entries'
  BY <1>1 DEF TypeOK
<1> QED BY <1>2, <1>3, <1>4 DEF TypeOK, MapType

\* A map whose slots and epochs stay is still well-formed.
LEMMA MapTypeKept ==
  ASSUME TypeOK, NEW s \in Series, NEW v \in Values \cup {NaN}, Log(s, v),
         UNCHANGED <<entries, epoch>>
  PROVE  MapType'
<1>1. Entries \subseteq Entries'
  BY EntriesGrow
<1>2. \A p \in DOMAIN entries : Home(p.hash)' = Home(p.hash)
  BY DEF Home
<1> QED BY <1>1, <1>2 DEF TypeOK, MapType

\* Recording into the map keeps it, and what is refused, well-formed.
LEMMA UpsertType ==
  ASSUME TypeOK, NEW s \in Series, NEW v \in Values \cup {NaN},
         Kind[s] = "count" => v # NaN,
         Log(s, v), Upsert(s, v)
  PROVE  MapType' /\ refused' \subseteq Ids'
<1>1. Ids' = Ids \cup {NextId} /\ Entries \subseteq Entries'
  BY LogStep, EntriesGrow
<1>2. CASE refused' = refused \cup {NextId} /\ entries' = entries /\ epoch' = epoch
  BY <1>1, <1>2, MapTypeKept DEF TypeOK
<1>3. ASSUME NEW p, NEW old, NEW e \in Entries', RecordedInto(p, old, e, s, v), EpochGrows
      PROVE  MapType' /\ refused' \subseteq Ids'
  <2>1. /\ DOMAIN entries' = DOMAIN entries \cup {p}
        /\ entries'[p] = e
        /\ \A x \in DOMAIN entries : x # p => entries'[x] = entries[x]
    BY <1>3 DEF Put, RecordedInto
  <2>2. p \in [hash : Hashes, epoch : Nat]
    BY <1>3 DEF RecordedInto
  <2>3. \A x \in DOMAIN entries' : x \in [hash : Hashes, epoch : Nat] /\ entries'[x] \in Entries'
    BY <1>1, <2>1, <2>2 DEF TypeOK
  <2>4. \A x \in DOMAIN entries : x.epoch <= Home(x.hash)'.epoch
    <3> SUFFICES ASSUME NEW x \in DOMAIN entries PROVE x.epoch <= Home(x.hash)'.epoch
      OBVIOUS
    <3> DEFINE i == StripeOf(x.hash)
    <3>1. x \in [hash : Hashes, epoch : Nat] /\ x.epoch <= epoch[i]
      BY DEF TypeOK, Home
    <3>2. i \in Stripes
      BY <3>1, HashType
    <3>3. Home(x.hash)'.epoch = epoch'[i]
      BY DEF Home
    <3>4. epoch[i] \in Nat /\ epoch'[i] \in Nat /\ epoch[i] <= epoch'[i] /\ x.epoch \in Nat
      BY <1>3, <3>1, <3>2 DEF EpochGrows, TypeOK
    <3> QED BY <3>1, <3>3, <3>4
  <2>5. p.epoch <= Home(p.hash)'.epoch
    <3>1. CASE p \in DOMAIN entries
      BY <2>4, <3>1
    <3>2. CASE p \notin DOMAIN entries
      <4>1. p = Home(p.hash)'
        BY <1>3, <3>2 DEF RecordedInto
      <4>2. p.epoch \in Nat
        BY <2>2
      <4> QED BY <4>1, <4>2
    <3> QED BY <3>1, <3>2
  <2>6. epoch' \in [Stripes -> Nat] /\ refused' = refused
    BY <1>3 DEF EpochGrows, RecordedInto
  <2>7. DOMAIN entries' \subseteq [hash : Hashes, epoch : Nat]
    BY <2>3
  <2>8. \A x \in DOMAIN entries' : x.epoch <= Home(x.hash)'.epoch
    BY <2>1, <2>4, <2>5
  <2>9. MapType'
    BY <2>3, <2>6, <2>7, <2>8 DEF MapType
  <2> QED BY <1>1, <2>6, <2>9 DEF TypeOK
<1> QED BY <1>2, <1>3, UpsertStep

\* Recording a histogram, into the map or into the raw channel, keeps the types.
LEMMA RecordHistogramType ==
  ASSUME TypeOK, NEW s \in Series, NEW v \in Values \cup {NaN}, RecordHistogram(s, v)
  PROVE  TypeOK'
<1>1. Log(s, v) /\ Kind[s] # "count"
      /\ UNCHANGED <<cursor, batch, returned, rawOpen, since>>
  BY DEF RecordHistogram
<1>2. Ids' = Ids \cup {NextId} /\ Entries \subseteq Entries'
  BY <1>1, LogStep, EntriesGrow
<1>3. rawQueue \in Seq(Ids')
  BY <1>2, SeqGrows DEF TypeOK
<1>4. CASE Passthrough
  <2>1. TrySend(s, v) /\ UNCHANGED <<entries, epoch>>
    BY <1>4 DEF RecordHistogram
  <2>2. rawQueue' \in Seq(Ids') /\ refused' \subseteq Ids'
    <3>1. CASE rawOpen /\ Len(rawQueue) < Capacity
      <4>1. rawQueue' = Append(rawQueue, NextId) /\ refused' = refused
        BY <3>1, <2>1 DEF TrySend
      <4>2. NextId \in Ids' /\ refused \subseteq Ids'
        BY <1>2 DEF TypeOK
      <4> QED BY <4>1, <4>2, <1>3, AppendProperties
    <3>2. CASE ~(rawOpen /\ Len(rawQueue) < Capacity)
      BY <3>2, <2>1, <1>2, <1>3 DEF TrySend, TypeOK
    <3> QED BY <3>1, <3>2
  <2>3. MapType'
    BY <1>1, <2>1, MapTypeKept
  <2> QED BY <1>1, <2>2, <2>3, RecordType
<1>5. CASE ~Passthrough
  <2>1. Upsert(s, v) /\ rawQueue' = rawQueue
    BY <1>5 DEF RecordHistogram
  <2> QED BY <1>1, <1>3, <2>1, UpsertType, RecordType
<1> QED BY <1>4, <1>5

\* Every step keeps the types.
LEMMA TypeNext == TypeOK /\ [Next]_vars => TypeOK'
<1> SUFFICES ASSUME TypeOK, [Next]_vars PROVE TypeOK'
  OBVIOUS
<1>1. ASSUME NEW s \in Series, NEW v \in Values \cup {NaN},
             RecordCount(s, v) \/ RecordGauge(s, v)
      PROVE  TypeOK'
  <2>1. /\ Log(s, v) /\ Upsert(s, v) /\ rawQueue' = rawQueue
        /\ Kind[s] = "count" => v # NaN
        /\ UNCHANGED <<cursor, batch, returned, rawOpen, since>>
    BY <1>1 DEF RecordCount, RecordGauge
  <2>2. rawQueue' \in Seq(Ids')
    BY <2>1, LogStep, SeqGrows DEF TypeOK
  <2> QED BY <2>1, <2>2, UpsertType, RecordType
<1>2. ASSUME NEW s \in Series, NEW v \in Values \cup {NaN}, RecordHistogram(s, v)
      PROVE  TypeOK'
  BY <1>2, RecordHistogramType
<1>3. ASSUME NEW f \in Flushers, FlushStart(f)
      PROVE  TypeOK'
  BY <1>3, SizeAssumption DEF FlushStart, TypeOK, Entries, IsGauge, Ids, Home
<1>4. ASSUME NEW f \in Flushers, FlushStripe(f)
      PROVE  TypeOK'
  <2>1. Ids' = Ids /\ Entries' = Entries /\ \A h : Home(h)' = Home(h)
    BY <1>4 DEF FlushStripe, Ids, Entries, IsGauge, Home
  <2>2. cursor' \in [Flushers -> {Idle} \cup 0 .. StripeCount]
    BY <1>4, SizeAssumption DEF FlushStripe, TypeOK, Visiting, Idle
  <2>3. batch' \in [Flushers -> SUBSET Entries]
    BY <1>4 DEF FlushStripe, TypeOK, InStripe
  <2>4. DOMAIN entries' \subseteq DOMAIN entries
        /\ \A h \in DOMAIN entries' : entries'[h] = entries[h]
    BY <1>4 DEF FlushStripe
  <2> QED BY <1>4, <2>1, <2>2, <2>3, <2>4 DEF FlushStripe, TypeOK
<1>5. ASSUME NEW f \in Flushers, FlushReturn(f)
      PROVE  TypeOK'
  <2>1. Ids' = Ids /\ Entries' = Entries /\ \A h : Home(h)' = Home(h)
    BY <1>5 DEF FlushReturn, Ids, Entries, IsGauge, Home
  <2> QED BY <1>5, <2>1 DEF FlushReturn, TypeOK
<1>6. CASE RawTryRecv \/ RawReceiverDropped
  <2>1. Ids' = Ids /\ Entries' = Entries /\ \A h : Home(h)' = Home(h)
    BY <1>6 DEF RawTryRecv, RawReceiverDropped, Ids, Entries, IsGauge, Home
  <2>2. rawQueue' \in Seq(Ids)
    <3>1. ASSUME RawTryRecv PROVE rawQueue' \in Seq(Ids)
      BY <3>1, HeadTailProperties DEF RawTryRecv, TypeOK
    <3>2. ASSUME RawReceiverDropped PROVE rawQueue' \in Seq(Ids)
      BY <3>2 DEF RawReceiverDropped
    <3> QED BY <1>6, <3>1, <3>2
  <2> QED BY <1>6, <2>1, <2>2 DEF RawTryRecv, RawReceiverDropped, TypeOK
<1>7. CASE UNCHANGED vars
  BY <1>7 DEF vars, TypeOK, Entries, IsGauge, Ids, Home
<1> QED BY <1>1, <1>2, <1>3, <1>4, <1>5, <1>6, <1>7 DEF Next, Record, FlushStep

\* The map, the running flushes and the raw channel stay well-formed under any
\* interleaving of records and flushes.
THEOREM TypeCorrect == Spec => []TypeOK
  BY TypeInit, TypeNext, PTL DEF Spec

-----------------------------------------------------------------------------
(* Where the additive record calls are: how each action moves them.        *)

\* What it means to be a source of a set of slots,
LEMMA InSources ==
  ASSUME NEW M, NEW x
  PROVE  x \in Sources(M) <=> \E m \in M : ~IsGauge(m) /\ x \in m.from
  BY DEF Sources

\* ... of the slots in the map,
LEMMA InPending ==
  ASSUME NEW x
  PROVE  x \in Pending <=>
            \E h \in DOMAIN entries : ~IsGauge(entries[h]) /\ x \in entries[h].from
  BY DEF Pending, Sources, Slots

\* ... and of those in the map after a step.
LEMMA InPendingNext ==
  ASSUME NEW x
  PROVE  x \in Pending' <=>
            \E h \in DOMAIN entries' : ~IsGauge(entries'[h]) /\ x \in entries'[h].from
  BY DEF Pending, Sources, Slots, IsGauge

\* Is the record call of v into s one the map adds up?
Counted(s, v) ==
    Kind[s] # "gauge" /\ v # NaN /\ ~(Passthrough /\ Kind[s] = "histogram")

\* A record call that the map adds up becomes accepted unless it is refused, and
\* nothing else changes its state.
LEMMA AcceptedStep ==
  ASSUME TypeOK, NEW s \in Series, NEW v \in Values \cup {NaN}, Log(s, v)
  PROVE  /\ refused' = refused /\ Counted(s, v) => Accepted' = Accepted \cup {NextId}
         /\ refused' = refused /\ ~Counted(s, v) => Accepted' = Accepted
         /\ refused' = refused \cup {NextId} => Accepted' = Accepted
         /\ NextId \notin Accepted
<1>1. /\ Ids' = Ids \cup {NextId} /\ NextId \notin Ids
      /\ \A id \in Ids : log'[id] = log[id]
      /\ log'[NextId] = [series |-> s, value |-> v]
  BY LogStep
<1>2. \A id \in Ids : IsAdditive(id)' <=> IsAdditive(id)
  BY <1>1 DEF IsAdditive, KindOf, IsRaw
<1>3. \A id : id = NextId => (IsAdditive(id)' <=> Counted(s, v))
  BY <1>1 DEF IsAdditive, KindOf, IsRaw, Counted
<1>4. \A x : x \in Accepted <=> x \in Ids /\ IsAdditive(x) /\ x \notin refused
  BY DEF Accepted
<1>5. \A x : x \in Accepted' <=> x \in Ids' /\ IsAdditive(x)' /\ x \notin refused'
  BY DEF Accepted
<1>6. refused \subseteq Ids
  BY DEF TypeOK
<1>7. \A x : x \in Accepted' <=>
                /\ (x \in Ids /\ IsAdditive(x)) \/ (x = NextId /\ Counted(s, v))
                /\ x \notin refused'
  BY <1>1, <1>2, <1>3, <1>5
<1>8. NextId \notin Accepted
  BY <1>1, <1>4
<1>9. ASSUME refused' = refused, Counted(s, v) PROVE Accepted' = Accepted \cup {NextId}
  BY <1>1, <1>4, <1>6, <1>7, <1>9
<1>10. ASSUME refused' = refused, ~Counted(s, v) PROVE Accepted' = Accepted
  BY <1>1, <1>4, <1>6, <1>7, <1>10
<1>11. ASSUME refused' = refused \cup {NextId} PROVE Accepted' = Accepted
  BY <1>1, <1>4, <1>6, <1>7, <1>11
<1> QED BY <1>8, <1>9, <1>10, <1>11

\* A record call into the map: refused, or added to what is pending.
LEMMA PendingUpsert ==
  ASSUME IInv, NEW s \in Series, NEW v \in Values \cup {NaN},
         Kind[s] = "count" => v # NaN, Kind[s] = "histogram" => ~Passthrough,
         Log(s, v), Upsert(s, v)
  PROVE  \/ Accepted' = Accepted /\ Pending' = Pending
         \/ /\ Accepted' = Accepted \cup {NextId}
            /\ Pending' = Pending \cup {NextId}
            /\ NextId \notin Accepted
<1> USE DEF IInv
<1>1. CASE refused' = refused \cup {NextId} /\ entries' = entries
  <2>1. Pending' = Pending
    BY <1>1 DEF Pending, Sources, Slots, IsGauge
  <2> QED BY <1>1, <2>1, AcceptedStep
<1>2. ASSUME NEW p, NEW old, NEW e, RecordedInto(p, old, e, s, v)
      PROVE  \/ Accepted' = Accepted /\ Pending' = Pending
             \/ /\ Accepted' = Accepted \cup {NextId}
                /\ Pending' = Pending \cup {NextId}
                /\ NextId \notin Accepted
  <2>1. /\ e.from = Contributors(Kind[s], old.from, NextId, v) /\ refused' = refused
        /\ Kind[old.key] = Kind[s] /\ Kind[e.key] = Kind[s]
    BY <1>2 DEF RecordedInto
  <2>2. /\ DOMAIN entries' = DOMAIN entries \cup {p}
        /\ entries'[p] = e
        /\ \A x \in DOMAIN entries : x # p => entries'[x] = entries[x]
    BY <1>2 DEF Put, RecordedInto
  <2>3. IF p \in DOMAIN entries THEN entries[p] = old ELSE old.from = {}
    BY <1>2 DEF RecordedInto, NewSlot
  <2>4. CASE Kind[s] = "gauge"
    <3>1. IsGauge(e) /\ IsGauge(old)
      BY <2>1, <2>4 DEF IsGauge
    <3>2. \A x : x \in Pending' <=> x \in Pending
      BY <2>2, <2>3, <3>1, InPending, InPendingNext
    <3>3. ~Counted(s, v)
      BY <2>4 DEF Counted
    <3> QED BY <2>1, <3>2, <3>3, AcceptedStep
  <2>5. CASE Kind[s] # "gauge"
    <3>1. e.from = IF v = NaN THEN old.from ELSE old.from \cup {NextId}
      BY <2>1, <2>5, SeriesAssumption DEF Contributors, Kinds
    <3>2. Counted(s, v) <=> v # NaN
      BY <2>5 DEF Counted
    <3>3. ~IsGauge(e) /\ ~IsGauge(old)
      BY <2>1, <2>5 DEF IsGauge
    <3>4. \A x : x \in Pending <=> x \in old.from
                    \/ \E y \in DOMAIN entries \ {p} : ~IsGauge(entries[y]) /\ x \in entries[y].from
      BY <2>3, <3>3, InPending
    <3>5. \A x : x \in Pending' <=> x \in e.from
                    \/ \E y \in DOMAIN entries \ {p} : ~IsGauge(entries[y]) /\ x \in entries[y].from
      BY <2>2, <3>3, InPendingNext
    <3>6. \A x : x \in Pending' <=> x \in Pending \/ (v # NaN /\ x = NextId)
      BY <3>1, <3>4, <3>5
    <3> QED BY <2>1, <3>2, <3>6, AcceptedStep
  <2> QED BY <2>4, <2>5
<1> QED BY <1>1, <1>2, UpsertStep

-----------------------------------------------------------------------------
(* The inductive invariant.                                                *)

\* A record call into the map keeps the slots in order.
LEMMA UpsertSlots ==
  ASSUME IInv, NEW s \in Series, NEW v \in Values \cup {NaN},
         Kind[s] = "count" => v # NaN,
         Log(s, v), Upsert(s, v)
  PROVE  Origins' /\ SilentSlots' /\ SlotsApart'
<1> USE DEF IInv
<1>1. /\ Ids' = Ids \cup {NextId} /\ NextId \notin Ids
      /\ \A id \in Ids : log'[id] = log[id]
      /\ log'[NextId] = [series |-> s, value |-> v]
  BY LogStep
<1>2. \A x \in DOMAIN entries :
         /\ entries[x].key \in Series /\ entries[x].from \subseteq Ids
         /\ CombineHash(entries[x].key) = x.hash
  BY DEF TypeOK, Entries, Origins
<1>3. \A x \in DOMAIN entries : \A id \in entries[x].from :
         /\ CombineHash(log'[id].series) = x.hash
         /\ Kind[log'[id].series] = Kind[entries[x].key]
  BY <1>1, <1>2 DEF Origins, MadeOf, HashOf, KindOf
<1>4. CASE refused' = refused \cup {NextId} /\ entries' = entries
  <2>1. Origins'
    BY <1>2, <1>3, <1>4 DEF Origins, MadeOf, HashOf, KindOf
  <2>2. SilentSlots'
    BY <1>4 DEF SilentSlots
  <2>3. SlotsApart'
    BY <1>4 DEF ExactlyOnce, NoneTwice, SlotsApart, IsGauge
  <2> QED BY <2>1, <2>2, <2>3
<1>5. ASSUME NEW p, NEW old, NEW e \in Entries', RecordedInto(p, old, e, s, v)
      PROVE  Origins' /\ SilentSlots' /\ SlotsApart'
  <2>1. /\ DOMAIN entries' = DOMAIN entries \cup {p}
        /\ entries'[p] = e
        /\ \A x \in DOMAIN entries : x # p => entries'[x] = entries[x]
    BY <1>5 DEF Put, RecordedInto
  <2>2. /\ Kind[s] \in Kinds /\ Kind[old.key] = Kind[s] /\ e.key = old.key
        /\ p.hash = CombineHash(s)
        /\ e.from = Contributors(Kind[s], old.from, NextId, v)
        /\ e.value = Recorded(Kind[s], old.value, v)
    BY <1>5, SeriesAssumption DEF RecordedInto
  <2>3. /\ p \in DOMAIN entries => old = entries[p]
        /\ p \notin DOMAIN entries =>
              old.key = s /\ old.from = {} /\ old.value = Fresh(Kind[s])
    BY <1>5 DEF RecordedInto, NewSlot
  <2>4. CombineHash(e.key) = p.hash
    BY <1>2, <2>2, <2>3
  <2>5. /\ e.from \subseteq {NextId} \cup old.from
        /\ old.from \subseteq Ids
    BY <1>2, <2>2, <2>3, ContributorsType
  <2>6. \A id \in e.from : CombineHash(log'[id].series) = p.hash /\ Kind[log'[id].series] = Kind[e.key]
    BY <1>1, <1>3, <2>2, <2>3, <2>5
  <2>7. Origins'
    <3>1. \A x \in DOMAIN entries' :
             /\ CombineHash(entries'[x].key) = x.hash
             /\ \A id \in entries'[x].from :
                   /\ CombineHash(log'[id].series) = CombineHash(entries'[x].key)
                   /\ Kind[log'[id].series] = Kind[entries'[x].key]
      BY <1>2, <1>3, <2>1, <2>4, <2>6
    <3> QED BY <3>1 DEF Origins, MadeOf, HashOf, KindOf
  <2>8. SilentSlots'
    <3>1. Kind[e.key] = "histogram" => e.value >= 0 /\ (e.value = 0 => e.from = {})
      <4>1. SUFFICES ASSUME Kind[s] = "histogram"
                     PROVE  e.value >= 0 /\ (e.value = 0 => e.from = {})
        BY <2>2
      <4>2. /\ old.value \in Int /\ old.value >= 0
            /\ old.value = 0 => old.from = {}
        BY <2>2, <2>3, <4>1 DEF SilentSlots, TypeOK, Entries, IsGauge, Fresh
      <4> QED BY <2>2, <4>1, <4>2, ValueAssumption DEF Recorded, Contributors
    <3> QED BY <2>1, <3>1 DEF SilentSlots
  <2>9. SlotsApart'
    <3>1. \A x, y \in DOMAIN entries :
             x # y /\ ~IsGauge(entries[x]) /\ ~IsGauge(entries[y])
             => entries[x].from \cap entries[y].from = {}
      BY DEF ExactlyOnce, NoneTwice, SlotsApart
    <3>2. \A x \in DOMAIN entries \ {p} :
             ~IsGauge(entries[x]) /\ ~IsGauge(e) => entries[x].from \cap e.from = {}
      <4> SUFFICES ASSUME NEW x \in DOMAIN entries, x # p,
                          ~IsGauge(entries[x]), ~IsGauge(e)
                   PROVE  entries[x].from \cap e.from = {}
        OBVIOUS
      <4>1. entries[x].from \cap old.from = {}
        BY <2>2, <2>3, <3>1 DEF IsGauge
      <4> QED BY <1>1, <1>2, <2>5, <4>1
    <3>3. \A x, y \in DOMAIN entries' :
             x # y /\ ~IsGauge(entries'[x]) /\ ~IsGauge(entries'[y])
             => entries'[x].from \cap entries'[y].from = {}
      BY <2>1, <3>1, <3>2
    <3> QED BY <3>3 DEF SlotsApart, IsGauge
  <2> QED BY <2>7, <2>8, <2>9
<1> QED BY <1>4, <1>5, UpsertStep

\* What any record call does, to the places and to the slots.
LEMMA RecordEffect ==
  ASSUME IInv, NEW s \in Series, NEW v \in Values \cup {NaN},
         RecordCount(s, v) \/ RecordGauge(s, v) \/ RecordHistogram(s, v)
  PROVE  /\ Log(s, v)
         /\ UNCHANGED <<cursor, batch, returned, since>>
         /\ \/ Accepted' = Accepted /\ Pending' = Pending
            \/ /\ Accepted' = Accepted \cup {NextId}
               /\ Pending' = Pending \cup {NextId}
               /\ NextId \notin Accepted
         /\ Origins' /\ SilentSlots' /\ SlotsApart'
<1>1. Log(s, v) /\ UNCHANGED <<cursor, batch, returned, since>>
  BY DEF RecordCount, RecordGauge, RecordHistogram
<1>2. CASE RecordHistogram(s, v) /\ Passthrough
  <2>1. entries' = entries /\ Kind[s] = "histogram"
        /\ (refused' = refused \/ refused' = refused \cup {NextId})
    BY <1>2 DEF RecordHistogram, TrySend
  <2>2. ~Counted(s, v)
    BY <1>2, <2>1 DEF Counted
  <2>3. Accepted' = Accepted
    BY <1>1, <2>1, <2>2, AcceptedStep DEF IInv
  <2>4. Pending' = Pending
    BY <2>1 DEF Pending, Sources, Slots, IsGauge
  <2>5. \A h \in DOMAIN entries : \A id \in entries[h].from : log'[id] = log[id]
    BY <1>1, LogStep DEF IInv, TypeOK, Entries
  <2>6. Origins'
    BY <2>1, <2>5 DEF IInv, Origins, MadeOf, HashOf, KindOf
  <2>7. SilentSlots' /\ SlotsApart'
    BY <2>1 DEF IInv, SilentSlots, ExactlyOnce, NoneTwice, SlotsApart, IsGauge
  <2> QED BY <1>1, <2>3, <2>4, <2>6, <2>7
<1>3. CASE ~(RecordHistogram(s, v) /\ Passthrough)
  <2>1. /\ Upsert(s, v)
        /\ Kind[s] = "count" => v # NaN
        /\ Kind[s] = "histogram" => ~Passthrough
    BY <1>3 DEF RecordCount, RecordGauge, RecordHistogram
  <2> QED BY <1>1, <2>1, PendingUpsert, UpsertSlots
<1> QED BY <1>2, <1>3

\* A record call adds nothing to what a running flush has to cover.
LEMMA DueRecord ==
  ASSUME IInv, NEW s \in Series, NEW v \in Values \cup {NaN},
         RecordCount(s, v) \/ RecordGauge(s, v) \/ RecordHistogram(s, v),
         NEW f \in Flushers
  PROVE  Due(f)' = Due(f)
<1>1. /\ cursor' = cursor /\ since' = since
      /\ Accepted' = Accepted \/ Accepted' = Accepted \cup {NextId}
  BY RecordEffect
<1>2. ~(NextId <= since[f])
  BY DEF IInv, TypeOK, NextId
<1> QED BY <1>1, <1>2 DEF Due

\* Record calls keep the invariant.
LEMMA RecordInv ==
  ASSUME IInv, NEW s \in Series, NEW v \in Values \cup {NaN},
         RecordCount(s, v) \/ RecordGauge(s, v) \/ RecordHistogram(s, v)
  PROVE  IInv'
<1> USE DEF IInv
<1>1. /\ Log(s, v)
      /\ UNCHANGED <<cursor, batch, returned, since>>
      /\ \/ Accepted' = Accepted /\ Pending' = Pending
         \/ /\ Accepted' = Accepted \cup {NextId}
            /\ Pending' = Pending \cup {NextId}
            /\ NextId \notin Accepted
      /\ Origins' /\ SilentSlots' /\ SlotsApart'
  BY RecordEffect
<1>2. TypeOK'
  BY TypeNext DEF Next, Record
<1>3. IdleHoldsNothing'
  BY <1>1 DEF IdleHoldsNothing
<1>4. /\ Sources(returned)' = Sources(returned)
      /\ \A f \in Flushers : Sources(batch[f])' = Sources(batch[f])
      /\ Apart(returned)' /\ \A f \in Flushers : Apart(batch[f])'
  BY <1>1 DEF ExactlyOnce, NoneTwice, Sources, Apart, IsGauge
<1>5. NoneLost'
  BY <1>1, <1>4 DEF ExactlyOnce, NoneLost
<1>6. Sources(returned) \subseteq Accepted /\ \A f \in Flushers : Sources(batch[f]) \subseteq Accepted
  BY DEF ExactlyOnce, NoneLost
<1>7. NoneTwice'
  <2>1. Pending' \cap Sources(returned)' = {}
    BY <1>1, <1>4, <1>6 DEF ExactlyOnce, NoneTwice
  <2>2. \A f \in Flushers :
           /\ Sources(batch[f])' \cap (Pending' \cup Sources(returned)') = {}
           /\ \A g \in Flushers \ {f} : Sources(batch[f])' \cap Sources(batch[g])' = {}
    BY <1>1, <1>4, <1>6 DEF ExactlyOnce, NoneTwice
  <2> QED BY <1>1, <1>4, <2>1, <2>2 DEF NoneTwice
<1>8. FlushCovers'
  <2> SUFFICES ASSUME NEW f \in Flushers, NEW id \in Due(f)',
                      (StripeOf(HashOf(id)) < cursor[f])'
               PROVE  id \notin Pending'
    BY DEF FlushCovers
  <2>1. id \in Due(f) /\ id \in Accepted
    BY DueRecord DEF Due
  <2>2. id \in Ids /\ id # NextId
    BY <2>1, <1>1, LogStep DEF Accepted
  <2>3. StripeOf(HashOf(id)) < cursor[f]
    BY <1>1, <2>2, LogStep DEF HashOf
  <2>4. id \notin Pending
    BY <2>1, <2>3 DEF FlushCovers
  <2> QED BY <1>1, <2>2, <2>4
<1> QED BY <1>2, <1>3, <1>1, <1>5, <1>7, <1>8 DEF ExactlyOnce

\* A flush step leaves the record calls as they are.
LEMMA SameCalls ==
  ASSUME UNCHANGED <<log, refused>>
  PROVE  /\ Accepted' = Accepted /\ Ids' = Ids
         /\ \A id : HashOf(id)' = HashOf(id) /\ KindOf(id)' = KindOf(id)
  BY DEF Accepted, Ids, IsAdditive, KindOf, HashOf, IsRaw

\* The log holds record calls of known series.
LEMMA LogType ==
  ASSUME TypeOK, NEW id \in Ids
  PROVE  id <= Len(log) /\ log[id].series \in Series
<1> DEFINE Call == [series : Series, value : Values \cup {NaN}]
<1>1. log \in Seq(Call) /\ Len(log) \in Nat /\ id \in 1 .. Len(log)
  BY LenProperties DEF Ids, TypeOK
<1>2. log[id] \in Call
  <2> HIDE DEF Call
  <2> QED BY <1>1, ElementOfSeq
<1> QED BY <1>1, <1>2

\* Accepted calls are in the log, and their stripes exist.
LEMMA AcceptedType ==
  ASSUME TypeOK, NEW id \in Accepted
  PROVE  /\ id \in Ids /\ id <= Len(log)
         /\ HashOf(id) \in Nat /\ StripeOf(HashOf(id)) \in 0 .. StripeCount - 1
<1>1. id \in Ids
  BY DEF Accepted
<1>2. id <= Len(log) /\ log[id].series \in Series
  BY <1>1, LogType
<1>3. TagsHash[log[id].series] \in Nat /\ NamePtr[log[id].series] \in Nat
  BY <1>2, SeriesAssumption
<1>4. TagsHash[log[id].series] * Multiplier \in Nat
  BY <1>3, SizeAssumption
<1>5. HashOf(id) \in Nat
  BY <1>3, <1>4, SizeAssumption DEF HashOf, CombineHash
<1>6. StripeOf(HashOf(id)) \in 0 .. StripeCount - 1
  BY <1>5, SizeAssumption DEF StripeOf
<1> QED BY <1>1, <1>2, <1>5, <1>6

\* A flush that begins has everything accepted so far to cover.
LEMMA FlushStartEffect ==
  ASSUME IInv, NEW f \in Flushers, FlushStart(f)
  PROVE  /\ Accepted' = Accepted /\ Pending' = Pending
         /\ Due(f)' = Accepted
         /\ \A g \in Flushers \ {f} : Due(g)' = Due(g)
<1>1. Accepted' = Accepted
  BY SameCalls DEF FlushStart
<1>2. Pending' = Pending
  BY DEF FlushStart, Pending, Sources, Slots, IsGauge
<1>3. cursor'[f] = 0 /\ since'[f] = Len(log)
      /\ \A g \in Flushers \ {f} : cursor'[g] = cursor[g] /\ since'[g] = since[g]
  BY DEF FlushStart, IInv, TypeOK
<1>4. \A id \in Accepted : id <= Len(log)
  BY AcceptedType DEF IInv
<1>5. \A x : x \in Due(f)' <=> x \in Accepted
  BY <1>1, <1>3, <1>4 DEF Due, Idle
<1>6. \A g \in Flushers \ {f} : Due(g)' = Due(g)
  BY <1>1, <1>3 DEF Due
<1> QED BY <1>1, <1>2, <1>5, <1>6

\* Beginning a flush keeps the invariant.
LEMMA FlushStartInv ==
  ASSUME IInv, NEW f \in Flushers, FlushStart(f)
  PROVE  IInv'
<1> USE DEF IInv
<1>1. TypeOK'
  BY TypeNext DEF Next, FlushStep
<1>2. UNCHANGED <<entries, batch, returned, log, refused>>
  BY DEF FlushStart
<1>3. Origins' /\ SilentSlots'
  BY <1>2 DEF Origins, MadeOf, HashOf, KindOf, SilentSlots
<1>4. IdleHoldsNothing'
  BY DEF FlushStart, IdleHoldsNothing, TypeOK
<1>5. ExactlyOnce'
  <2>1. Accepted' = Accepted /\ Pending' = Pending
    BY FlushStartEffect
  <2> QED BY <1>2, <2>1 DEF ExactlyOnce, NoneLost, NoneTwice, SlotsApart, Apart, Sources, IsGauge
<1>6. FlushCovers'
  <2> SUFFICES ASSUME NEW g \in Flushers, NEW id \in Due(g)',
                      (StripeOf(HashOf(id)) < cursor[g])'
               PROVE  id \notin Pending'
    BY DEF FlushCovers
  <2>1. Pending' = Pending /\ HashOf(id)' = HashOf(id)
    BY <1>2, FlushStartEffect, SameCalls
  <2>2. CASE g = f
    <3>1. cursor'[f] = 0
      BY DEF FlushStart, TypeOK
    <3>2. StripeOf(HashOf(id)) \in Nat
      <4>1. id \in Accepted
        BY <2>2, FlushStartEffect
      <4> QED BY <4>1, AcceptedType
    <3> QED BY <2>1, <2>2, <3>1, <3>2 DEF StripeOf
  <2>3. CASE g # f
    <3>1. id \in Due(g) /\ cursor'[g] = cursor[g]
      BY <2>3, FlushStartEffect DEF FlushStart, TypeOK
    <3> QED BY <2>1, <3>1 DEF FlushCovers, StripeOf
  <2> QED BY <2>2, <2>3
<1> QED BY <1>1, <1>3, <1>4, <1>5, <1>6

\* The record calls of the stripe a flush is about to visit.
StripeSources(f) == Sources({entries[h] : h \in InStripe(cursor[f])})

\* A flush of a stripe moves what the stripe holds into the flusher's vector,
\* all of it and nothing else.
LEMMA FlushStripeEffect ==
  ASSUME IInv, NEW f \in Flushers, FlushStripe(f)
  PROVE  /\ StripeSources(f) \subseteq Pending
         /\ Accepted' = Accepted
         /\ Pending' = Pending \ StripeSources(f)
         /\ Sources(batch[f])' = Sources(batch[f]) \cup StripeSources(f)
         /\ \A g \in Flushers \ {f} : batch'[g] = batch[g]
         /\ returned' = returned
         /\ \A g \in Flushers : Due(g)' = Due(g)
<1> DEFINE Locked == InStripe(cursor[f])
           Removed == {h \in Locked : ~Retained(entries[h])}
<1> USE DEF IInv
<1>1. Locked \subseteq DOMAIN entries
  BY DEF InStripe
<1>2. \A x : x \in StripeSources(f) <=>
                \E h \in Locked : ~IsGauge(entries[h]) /\ x \in entries[h].from
  BY DEF StripeSources, Sources
<1>3. entries' = [h \in DOMAIN entries \ Removed |-> entries[h]]
  BY DEF FlushStripe
<1>4. \A h : h \in DOMAIN entries' /\ ~IsGauge(entries'[h])
             <=> h \in DOMAIN entries \ Locked /\ ~IsGauge(entries[h])
  BY <1>1, <1>3 DEF Retained, IsGauge
<1>5. \A h, k \in DOMAIN entries :
         h # k /\ ~IsGauge(entries[h]) /\ ~IsGauge(entries[k])
         => entries[h].from \cap entries[k].from = {}
  BY DEF ExactlyOnce, NoneTwice, SlotsApart
<1>6. Pending' = Pending \ StripeSources(f)
  <2>1. \A x : x \in Pending' <=>
                  \E h \in DOMAIN entries \ Locked : ~IsGauge(entries[h]) /\ x \in entries[h].from
    <3> HIDE DEF Locked
    <3> QED BY <1>3, <1>4, InPendingNext
  <2>2. \A x : x \in Pending' <=> x \in Pending /\ x \notin StripeSources(f)
    <3> HIDE DEF Locked
    <3> QED BY <1>1, <1>2, <1>5, <2>1, InPending
  <2> QED BY <2>2
<1>7. StripeSources(f) \subseteq Pending
  BY <1>1, <1>2, InPending
<1>8. Accepted' = Accepted
  BY SameCalls DEF FlushStripe
<1>9. Sources(batch[f])' = Sources(batch[f]) \cup StripeSources(f)
  <2>1. batch'[f] = batch[f] \cup {entries[h] : h \in {x \in Locked : Emitted(entries[x])}}
    BY DEF FlushStripe, TypeOK
  <2>2. \A h \in Locked : ~IsGauge(entries[h]) /\ entries[h].from # {} => Emitted(entries[h])
    <3> SUFFICES ASSUME NEW h \in Locked, ~IsGauge(entries[h]), entries[h].from # {}
                 PROVE  Emitted(entries[h])
      OBVIOUS
    <3>1. entries[h] \in Entries /\ Kind[entries[h].key] \in Kinds
      BY <1>1, SeriesAssumption DEF TypeOK, Entries
    <3>2. CASE Kind[entries[h].key] = "count"
      BY <3>2 DEF Emitted
    <3>3. CASE Kind[entries[h].key] = "histogram"
      BY <1>1, <3>1, <3>3 DEF Emitted, SilentSlots, Entries, IsGauge
    <3> QED BY <3>1, <3>2, <3>3 DEF Kinds, IsGauge
  <2>3. \A x : x \in Sources(batch'[f]) <=> x \in Sources(batch[f]) \/ x \in StripeSources(f)
    <3> HIDE DEF Locked
    <3> QED BY <1>2, <2>1, <2>2, InSources
  <2> QED BY <2>3 DEF Sources, IsGauge
<1>10. \A g \in Flushers : Due(g)' = Due(g)
  BY <1>8, SizeAssumption DEF FlushStripe, Due, Idle, TypeOK, Visiting
<1> QED BY <1>6, <1>7, <1>8, <1>9, <1>10 DEF FlushStripe, TypeOK

\* Flushing a stripe keeps the invariant.
LEMMA FlushStripeInv ==
  ASSUME IInv, NEW f \in Flushers, FlushStripe(f)
  PROVE  IInv'
<1> DEFINE Locked == InStripe(cursor[f])
<1> USE DEF IInv
<1>1. TypeOK'
  BY TypeNext DEF Next, FlushStep
<1>2. /\ StripeSources(f) \subseteq Pending
      /\ Accepted' = Accepted
      /\ Pending' = Pending \ StripeSources(f)
      /\ Sources(batch[f])' = Sources(batch[f]) \cup StripeSources(f)
      /\ \A g \in Flushers \ {f} : batch'[g] = batch[g]
      /\ returned' = returned
      /\ \A g \in Flushers : Due(g)' = Due(g)
  BY FlushStripeEffect
<1>3. DOMAIN entries' \subseteq DOMAIN entries
      /\ \A h \in DOMAIN entries' : entries'[h] = entries[h]
  BY DEF FlushStripe
<1>4. log' = log /\ refused' = refused
  BY DEF FlushStripe
<1>5. Origins' /\ SilentSlots'
  BY <1>3, <1>4 DEF Origins, MadeOf, HashOf, KindOf, SilentSlots
<1>6. IdleHoldsNothing'
  BY SizeAssumption DEF FlushStripe, IdleHoldsNothing, TypeOK, Idle, Visiting
<1>7. /\ Sources(returned)' = Sources(returned)
      /\ \A g \in Flushers \ {f} : Sources(batch[g])' = Sources(batch[g])
  BY <1>2 DEF Sources, IsGauge
<1>8. NoneLost'
  <2>1. \A x : (\E g \in Flushers : x \in Sources(batch[g])')
                  <=> (\E g \in Flushers : x \in Sources(batch[g])) \/ x \in StripeSources(f)
    BY <1>2, <1>7
  <2>2. \A x : x \in Accepted <=> \/ x \in Pending \/ x \in Sources(returned)
                                  \/ \E g \in Flushers : x \in Sources(batch[g])
    BY DEF ExactlyOnce, NoneLost
  <2>3. \A x : x \in Accepted' <=> \/ x \in Pending' \/ x \in Sources(returned)'
                                   \/ \E g \in Flushers : x \in Sources(batch[g])'
    BY <1>2, <1>7, <2>1, <2>2
  <2> QED BY <2>3 DEF NoneLost
<1>9. NoneTwice'
  <2>1. Pending' \cap Sources(returned)' = {}
    BY <1>2, <1>7 DEF ExactlyOnce, NoneTwice
  <2>2. \A g \in Flushers : Sources(batch[g])' \cap (Pending' \cup Sources(returned)') = {}
    BY <1>2, <1>7 DEF ExactlyOnce, NoneTwice
  <2>3. \A g \in Flushers : \A k \in Flushers \ {g} :
           Sources(batch[g])' \cap Sources(batch[k])' = {}
    BY <1>2, <1>7 DEF ExactlyOnce, NoneTwice
  <2>4. SlotsApart' /\ Apart(returned)'
    BY <1>2, <1>3 DEF ExactlyOnce, NoneTwice, SlotsApart, Apart, IsGauge
  <2>5. \A g \in Flushers : Apart(batch[g])'
    <3> SUFFICES ASSUME NEW g \in Flushers PROVE Apart(batch[g])'
      OBVIOUS
    <3>1. CASE g # f
      BY <1>2, <3>1 DEF ExactlyOnce, NoneTwice, Apart, IsGauge
    <3>2. CASE g = f
      <4>1. batch'[f] \subseteq batch[f] \cup {entries[h] : h \in Locked}
        BY DEF FlushStripe, TypeOK
      <4>2. Locked \subseteq DOMAIN entries
        BY DEF InStripe
      <4>3. Apart(batch[f]) /\ Apart(Slots)
        BY DEF ExactlyOnce, NoneTwice, SlotsApart, Apart, Slots
      <4>4. \A m \in batch[f], n \in Slots :
               ~IsGauge(m) /\ ~IsGauge(n) => m.from \cap n.from = {}
        <5>1. Sources(batch[f]) \cap Sources(Slots) = {}
          BY DEF ExactlyOnce, NoneTwice, Pending
        <5> QED BY <5>1, InSources
      <4>5. \A m \in batch'[f] : m \in batch[f] \/ m \in Slots
        BY <4>1, <4>2 DEF Slots
      <4> QED BY <3>2, <4>3, <4>4, <4>5 DEF Apart, IsGauge
    <3> QED BY <3>1, <3>2
  <2> QED BY <2>1, <2>2, <2>3, <2>4, <2>5 DEF NoneTwice
<1>10. FlushCovers'
  <2> SUFFICES ASSUME NEW g \in Flushers, NEW id \in Due(g)',
                      (StripeOf(HashOf(id)) < cursor[g])',
                      id \in Pending'
               PROVE  FALSE
    BY DEF FlushCovers
  <2>1. id \in Due(g) /\ id \in Pending /\ id \notin StripeSources(f)
        /\ HashOf(id)' = HashOf(id)
    BY <1>2, <1>4, SameCalls
  <2>2. StripeOf(HashOf(id)) \in Nat
    BY <2>1, AcceptedType DEF Due
  <2>3. PICK h \in DOMAIN entries : ~IsGauge(entries[h]) /\ id \in entries[h].from
    BY <2>1, InPending
  <2>4. HashOf(id) = h.hash
    BY <2>3 DEF Origins, MadeOf
  <2>5. h \notin Locked
    BY <2>1, <2>3, InSources DEF StripeSources
  <2>6. CASE g = f
    <3>1. StripeOf(HashOf(id)) < cursor[f] + 1 /\ cursor[f] \in Nat
      BY <2>1, <2>6, SizeAssumption DEF FlushStripe, TypeOK, Visiting, StripeOf
    <3>2. StripeOf(HashOf(id)) # cursor[f]
      BY <2>3, <2>4, <2>5 DEF InStripe
    <3>3. StripeOf(HashOf(id)) < cursor[f]
      BY <2>2, <3>1, <3>2
    <3> QED BY <2>1, <2>6, <3>3 DEF FlushCovers
  <2>7. CASE g # f
    <3>1. cursor'[g] = cursor[g]
      BY <2>7 DEF FlushStripe, TypeOK
    <3> QED BY <2>1, <3>1 DEF FlushCovers, StripeOf
  <2> QED BY <2>6, <2>7
<1> QED BY <1>1, <1>5, <1>6, <1>8, <1>9, <1>10 DEF ExactlyOnce

\* A flush that returns hands over its vector, and leaves nothing it had to
\* cover in the map.
LEMMA FlushReturnEffect ==
  ASSUME IInv, NEW f \in Flushers, FlushReturn(f)
  PROVE  /\ Accepted' = Accepted /\ Pending' = Pending
         /\ Due(f) \cap Pending = {} /\ Due(f)' = {}
         /\ Sources(returned)' = Sources(returned) \cup Sources(batch[f])
         /\ batch'[f] = {} /\ Sources(batch[f])' = {}
         /\ \A g \in Flushers \ {f} : batch'[g] = batch[g] /\ Due(g)' = Due(g)
<1> USE DEF IInv
<1>1. Accepted' = Accepted
  BY SameCalls DEF FlushReturn
<1>2. Pending' = Pending
  BY DEF FlushReturn, Pending, Sources, Slots, IsGauge
<1>3. batch'[f] = {} /\ \A g \in Flushers \ {f} : batch'[g] = batch[g]
  BY DEF FlushReturn, TypeOK
<1>4. Due(f)' = {} /\ \A g \in Flushers \ {f} : Due(g)' = Due(g)
  BY <1>1 DEF FlushReturn, TypeOK, Due
<1>5. Due(f) \cap Pending = {}
  <2> SUFFICES ASSUME NEW id \in Due(f) PROVE id \notin Pending
    OBVIOUS
  <2>1. StripeOf(HashOf(id)) < cursor[f]
    BY AcceptedType, SizeAssumption DEF FlushReturn, Finished, Due
  <2> QED BY <2>1 DEF FlushCovers
<1>6. \A x : x \in Sources(returned') <=> x \in Sources(returned) \/ x \in Sources(batch[f])
  BY InSources DEF FlushReturn
<1>7. Sources(returned)' = Sources(returned) \cup Sources(batch[f])
  BY <1>6 DEF Sources, IsGauge
<1>8. Sources(batch[f])' = {}
  BY <1>3 DEF Sources
<1> QED BY <1>1, <1>2, <1>3, <1>4, <1>5, <1>7, <1>8

\* Returning from a flush keeps the invariant.
LEMMA FlushReturnInv ==
  ASSUME IInv, NEW f \in Flushers, FlushReturn(f)
  PROVE  IInv'
<1> USE DEF IInv
<1>1. TypeOK'
  BY TypeNext DEF Next, FlushStep
<1>2. /\ Accepted' = Accepted /\ Pending' = Pending
      /\ Sources(returned)' = Sources(returned) \cup Sources(batch[f])
      /\ batch'[f] = {} /\ Sources(batch[f])' = {}
      /\ \A g \in Flushers \ {f} : batch'[g] = batch[g] /\ Due(g)' = Due(g)
      /\ Due(f)' = {}
  BY FlushReturnEffect
<1>3. UNCHANGED <<entries, log, refused>> /\ returned' = returned \cup batch[f]
  BY DEF FlushReturn
<1>4. Origins' /\ SilentSlots'
  BY <1>3 DEF Origins, MadeOf, HashOf, KindOf, SilentSlots
<1>5. IdleHoldsNothing'
  BY <1>2 DEF FlushReturn, IdleHoldsNothing, TypeOK
<1>6. \A g \in Flushers \ {f} : Sources(batch[g])' = Sources(batch[g])
  BY <1>2 DEF Sources, IsGauge
<1>7. NoneLost'
  <2>1. \A x : x \in Accepted <=> \/ x \in Pending \/ x \in Sources(returned)
                                  \/ \E g \in Flushers : x \in Sources(batch[g])
    BY DEF ExactlyOnce, NoneLost
  <2>2. \A x : x \in Accepted' <=> \/ x \in Pending' \/ x \in Sources(returned)'
                                   \/ \E g \in Flushers : x \in Sources(batch[g])'
    BY <1>2, <1>6, <2>1
  <2> QED BY <2>2 DEF NoneLost
<1>8. NoneTwice'
  <2>1. Pending' \cap Sources(returned)' = {}
    BY <1>2 DEF ExactlyOnce, NoneTwice
  <2>2. \A g \in Flushers : Sources(batch[g])' \cap (Pending' \cup Sources(returned)') = {}
    BY <1>2, <1>6 DEF ExactlyOnce, NoneTwice
  <2>3. \A g \in Flushers : \A k \in Flushers \ {g} :
           Sources(batch[g])' \cap Sources(batch[k])' = {}
    BY <1>2, <1>6 DEF ExactlyOnce, NoneTwice
  <2>4. SlotsApart' /\ \A g \in Flushers : Apart(batch[g])'
    BY <1>2, <1>3 DEF ExactlyOnce, NoneTwice, SlotsApart, Apart, IsGauge
  <2>5. Apart(returned)'
    <3>1. Apart(returned) /\ Apart(batch[f])
      BY DEF ExactlyOnce, NoneTwice
    <3>2. \A m \in batch[f], n \in returned :
             ~IsGauge(m) /\ ~IsGauge(n) => m.from \cap n.from = {}
      <4>1. Sources(batch[f]) \cap Sources(returned) = {}
        BY DEF ExactlyOnce, NoneTwice
      <4> QED BY <4>1, InSources
    <3> QED BY <1>3, <3>1, <3>2 DEF Apart, IsGauge
  <2> QED BY <2>1, <2>2, <2>3, <2>4, <2>5 DEF NoneTwice
<1>9. FlushCovers'
  <2> SUFFICES ASSUME NEW g \in Flushers, NEW id \in Due(g)',
                      (StripeOf(HashOf(id)) < cursor[g])'
               PROVE  id \notin Pending'
    BY DEF FlushCovers
  <2>1. g # f /\ id \in Due(g) /\ HashOf(id)' = HashOf(id)
    BY <1>2, <1>3, SameCalls
  <2>2. cursor'[g] = cursor[g]
    BY <2>1 DEF FlushReturn, TypeOK
  <2> QED BY <1>2, <2>1, <2>2 DEF FlushCovers, StripeOf
<1> QED BY <1>1, <1>4, <1>5, <1>7, <1>8, <1>9 DEF ExactlyOnce

\* Whatever leaves the map, the flushes and the calls alone.
LEMMA OtherInv ==
  ASSUME IInv, TypeOK', UNCHANGED <<entries, cursor, batch, returned, log, since, refused>>
  PROVE  IInv' /\ UNCHANGED <<Accepted, Pending>>
               /\ Sources(returned)' = Sources(returned)
               /\ \A f \in Flushers : Due(f)' = Due(f) /\ Sources(batch[f])' = Sources(batch[f])
<1>1. Accepted' = Accepted
  BY SameCalls
<1>2. /\ Pending' = Pending /\ Slots' = Slots
      /\ Sources(returned)' = Sources(returned)
      /\ \A f \in Flushers : Due(f)' = Due(f) /\ Sources(batch[f])' = Sources(batch[f])
  BY <1>1 DEF Pending, Sources, Slots, IsGauge, Due
<1>3. Origins' /\ SilentSlots' /\ IdleHoldsNothing'
  BY DEF IInv, Origins, MadeOf, HashOf, KindOf, SilentSlots, IdleHoldsNothing
<1>4. ExactlyOnce'
  BY <1>1, <1>2 DEF IInv, ExactlyOnce, NoneLost, NoneTwice, SlotsApart, Apart, IsGauge
<1>5. FlushCovers'
  BY <1>2 DEF IInv, FlushCovers, HashOf, StripeOf
<1> QED BY <1>1, <1>2, <1>3, <1>4, <1>5 DEF IInv

\* The invariant holds initially,
LEMMA InvInit == Init => IInv
<1> SUFFICES ASSUME Init PROVE IInv
  OBVIOUS
<1>1. TypeOK
  BY TypeInit
<1>2. Ids = {} /\ Accepted = {}
  BY DEF Init, Ids, Accepted
<1>3. Slots = {} /\ Pending = {} /\ Sources(returned) = {}
      /\ \A f \in Flushers : Sources(batch[f]) = {}
  BY DEF Init, Slots, Pending, Sources
<1>4. Origins /\ SilentSlots /\ IdleHoldsNothing
  BY DEF Init, Origins, SilentSlots, IdleHoldsNothing
<1>5. ExactlyOnce
  BY <1>2, <1>3 DEF Init, ExactlyOnce, NoneLost, NoneTwice, SlotsApart, Apart
<1>6. FlushCovers
  BY <1>3 DEF FlushCovers
<1> QED BY <1>1, <1>4, <1>5, <1>6 DEF IInv

\* ... and every step keeps it.
LEMMA InvNext == IInv /\ [Next]_vars => IInv'
<1> SUFFICES ASSUME IInv, [Next]_vars PROVE IInv'
  OBVIOUS
<1>1. ASSUME NEW s \in Series, NEW v \in Values \cup {NaN},
             RecordCount(s, v) \/ RecordGauge(s, v) \/ RecordHistogram(s, v)
      PROVE  IInv'
  BY <1>1, RecordInv
<1>2. ASSUME NEW f \in Flushers, FlushStart(f) PROVE IInv'
  BY <1>2, FlushStartInv
<1>3. ASSUME NEW f \in Flushers, FlushStripe(f) PROVE IInv'
  BY <1>3, FlushStripeInv
<1>4. ASSUME NEW f \in Flushers, FlushReturn(f) PROVE IInv'
  BY <1>4, FlushReturnInv
<1>5. CASE RawTryRecv \/ RawReceiverDropped \/ UNCHANGED vars
  <2>1. TypeOK'
    BY TypeNext DEF IInv
  <2>2. UNCHANGED <<entries, cursor, batch, returned, log, since, refused>>
    BY <1>5 DEF RawTryRecv, RawReceiverDropped, vars
  <2> QED BY <2>1, <2>2, OtherInv
<1> QED BY <1>1, <1>2, <1>3, <1>4, <1>5 DEF Next, Record, FlushStep

\* No delta and no observation is lost or reported twice, whatever the
\* interleaving of record calls and of any number of flushes, and whatever
\* series share a hash.
THEOREM ExactlyOnceHolds == Spec => []ExactlyOnce
<1>1. IInv => ExactlyOnce
  BY DEF IInv
<1> QED BY <1>1, InvInit, InvNext, PTL DEF Spec

\* A flush leaves nothing behind, in the stripes it has visited, of what was
\* recorded before it began.
THEOREM FlushCoversHolds == Spec => []FlushCovers
<1>1. IInv => FlushCovers
  BY DEF IInv
<1> QED BY <1>1, InvInit, InvNext, PTL DEF Spec

\* What both rest on holds in every reachable state: slots lie at the hash of
\* their series and of the calls they are made of, a sketch without values is
\* made of none, and a flusher that is not flushing holds nothing.
THEOREM InvHolds == Spec => []IInv
  BY InvInit, InvNext, PTL DEF Spec

-----------------------------------------------------------------------------
(* Refinement of Aggregation.                                              *)

Running == {f \in Flushers : cursor[f] # Idle}

\* Initial states of the map are initial states of the abstract aggregation.
LEMMA RefineInit == Init => Abstract!Init
<1> SUFFICES ASSUME Init PROVE Abstract!Init
  OBVIOUS
<1>1. Accepted = {} /\ Running = {} /\ \A f \in Flushers : Due(f) = {}
  BY DEF Init, Ids, Accepted, Running, Due
<1>2. Pending = {} /\ Sources(returned) = {} /\ \A f \in Flushers : Sources(batch[f]) = {}
  BY DEF Init, Slots, Pending, Sources
<1> QED BY <1>1, <1>2 DEF Abstract!Init, Running

\* Every step of the map is a step of the abstract aggregation, or a stutter.
LEMMA RefineNext == IInv /\ [Next]_vars => [Abstract!Next]_Abstract!vars
<1> SUFFICES ASSUME IInv, [Next]_vars PROVE [Abstract!Next]_Abstract!vars
  OBVIOUS
<1> DEFINE D == [f \in Flushers |-> Due(f)]
           H == [f \in Flushers |-> Sources(batch[f])]
<1>1. ASSUME NEW s \in Series, NEW v \in Values \cup {NaN},
             RecordCount(s, v) \/ RecordGauge(s, v) \/ RecordHistogram(s, v)
      PROVE  [Abstract!Next]_Abstract!vars
  <2>1. /\ Log(s, v)
        /\ UNCHANGED <<cursor, batch, returned, since>>
        /\ \/ Accepted' = Accepted /\ Pending' = Pending
           \/ /\ Accepted' = Accepted \cup {NextId}
              /\ Pending' = Pending \cup {NextId}
              /\ NextId \notin Accepted
    BY <1>1, RecordEffect
  <2>2. Running' = Running /\ Sources(returned)' = Sources(returned) /\ H' = H
    BY <2>1 DEF Running, Sources, IsGauge
  <2>3. D' = D
    BY <1>1, DueRecord
  <2>4. NextId \in 1 .. MaxRecords
    BY <2>1, SizeAssumption DEF Log, NextId, IInv, TypeOK
  <2>5. CASE Accepted' = Accepted /\ Pending' = Pending
    BY <2>2, <2>3, <2>5 DEF Abstract!vars, Running
  <2>6. CASE /\ Accepted' = Accepted \cup {NextId}
             /\ Pending' = Pending \cup {NextId}
             /\ NextId \notin Accepted
    <3>1. Abstract!Accept(NextId)
      BY <2>2, <2>3, <2>4, <2>6 DEF Abstract!Accept, Running
    <3> QED BY <2>4, <3>1 DEF Abstract!Next
  <2> QED BY <2>1, <2>5, <2>6
<1>2. ASSUME NEW f \in Flushers, FlushStart(f)
      PROVE  [Abstract!Next]_Abstract!vars
  <2>1. f \notin Running /\ Running' = Running \cup {f}
    BY <1>2, SizeAssumption DEF FlushStart, Running, IInv, TypeOK, Idle
  <2>2. D' = [D EXCEPT ![f] = Accepted]
    BY <1>2, FlushStartEffect
  <2>3. H' = H /\ Sources(returned)' = Sources(returned)
    BY <1>2 DEF FlushStart, Sources, IsGauge
  <2>4. Abstract!Begin(f)
    BY <1>2, <2>1, <2>2, <2>3, FlushStartEffect DEF Abstract!Begin, Running
  <2> QED BY <2>4 DEF Abstract!Next
<1>3. ASSUME NEW f \in Flushers, FlushStripe(f)
      PROVE  [Abstract!Next]_Abstract!vars
  <2>1. f \in Running /\ Running' = Running
    BY <1>3, SizeAssumption DEF FlushStripe, Visiting, Running, IInv, TypeOK, Idle
  <2>2. H' = [H EXCEPT ![f] = @ \cup StripeSources(f)]
    BY <1>3, FlushStripeEffect DEF Sources, IsGauge
  <2>3. D' = D /\ Sources(returned)' = Sources(returned)
    BY <1>3, FlushStripeEffect DEF Sources, IsGauge
  <2>4. Abstract!Take(f, StripeSources(f))
    BY <1>3, <2>1, <2>2, <2>3, FlushStripeEffect DEF Abstract!Take, Running
  <2>5. StripeSources(f) \in SUBSET Pending
    BY <1>3, FlushStripeEffect
  <2> QED BY <2>4, <2>5 DEF Abstract!Next
<1>4. ASSUME NEW f \in Flushers, FlushReturn(f)
      PROVE  [Abstract!Next]_Abstract!vars
  <2>1. f \in Running /\ Running' = Running \ {f}
    BY <1>4, SizeAssumption DEF FlushReturn, Finished, Running, IInv, TypeOK, Idle
  <2>2. H' = [H EXCEPT ![f] = {}] /\ D' = [D EXCEPT ![f] = {}]
    BY <1>4, FlushReturnEffect DEF Sources, IsGauge
  <2>3. Abstract!Return(f)
    BY <1>4, <2>1, <2>2, FlushReturnEffect DEF Abstract!Return, Running
  <2> QED BY <2>3 DEF Abstract!Next
<1>5. CASE RawTryRecv \/ RawReceiverDropped \/ UNCHANGED vars
  <2>1. TypeOK'
    BY TypeNext DEF IInv
  <2>2. UNCHANGED <<entries, cursor, batch, returned, log, since, refused>>
    BY <1>5 DEF RawTryRecv, RawReceiverDropped, vars
  <2>3. Accepted' = Accepted /\ Pending' = Pending
        /\ Sources(returned)' = Sources(returned) /\ D' = D /\ H' = H
    BY <2>1, <2>2, OtherInv
  <2> QED BY <2>2, <2>3 DEF Abstract!vars
<1> QED BY <1>1, <1>2, <1>3, <1>4, <1>5 DEF Next, Record, FlushStep

\* The striped map implements the abstract aggregation: it behaves as one set
\* of pending calls that flushes empty, for every hash, number of stripes and
\* number of flushing threads.
THEOREM Refinement == Spec => AbstractSpec
  BY RefineInit, RefineNext, InvInit, InvNext, PTL DEF Spec, AbstractSpec, Abstract!Spec

-----------------------------------------------------------------------------
(* What a metric is made of.                                               *)

\* Flushed metrics keep the origin of the slot they were flushed from.
AllMadeOf == \A m \in Metrics : MadeOf(m)

\* Every step keeps the origins of what has been flushed.
LEMMA MadeOfNext == IInv /\ AllMadeOf /\ [Next]_vars => AllMadeOf'
<1> SUFFICES ASSUME IInv, AllMadeOf, [Next]_vars, NEW m \in Metrics'
             PROVE  MadeOf(m)'
  BY DEF AllMadeOf
<1>1. Origins'
  BY InvNext DEF IInv
<1>2. \A n \in Slots' : MadeOf(n)'
  BY <1>1 DEF Origins, Slots
<1>3. \A n \in Metrics : n.from \subseteq Ids
  BY DEF IInv, TypeOK, Metrics, Slots, Entries
<1>4. \A id \in Ids : log'[id] = log[id]
  <2>1. ASSUME NEW s \in Series, NEW v \in Values \cup {NaN},
               RecordCount(s, v) \/ RecordGauge(s, v) \/ RecordHistogram(s, v)
        PROVE  \A id \in Ids : log'[id] = log[id]
    BY <2>1, RecordEffect, LogStep DEF IInv
  <2>2. CASE \/ \E f \in Flushers : FlushStep(f)
             \/ RawTryRecv \/ RawReceiverDropped \/ UNCHANGED vars
    BY <2>2 DEF FlushStep, FlushStart, FlushStripe, FlushReturn,
                RawTryRecv, RawReceiverDropped, vars
  <2> QED BY <2>1, <2>2 DEF Next, Record
<1>5. \A n \in Metrics : MadeOf(n)'
  BY <1>3, <1>4 DEF AllMadeOf, MadeOf, HashOf, KindOf
<1>6. m \in Slots' \/ m \in Metrics
  <2>1. ASSUME NEW s \in Series, NEW v \in Values \cup {NaN},
               RecordCount(s, v) \/ RecordGauge(s, v) \/ RecordHistogram(s, v)
        PROVE  m \in Slots' \/ m \in Metrics
    BY <2>1, RecordEffect DEF Metrics
  <2>2. ASSUME NEW f \in Flushers, FlushStart(f)
        PROVE  m \in Slots' \/ m \in Metrics
    BY <2>2 DEF FlushStart, Metrics
  <2>3. ASSUME NEW f \in Flushers, FlushStripe(f)
        PROVE  m \in Slots' \/ m \in Metrics
    <3>1. \A n \in batch'[f] : n \in batch[f] \/ n \in Slots
      BY <2>3 DEF FlushStripe, IInv, TypeOK, InStripe, Slots
    <3>2. returned' = returned /\ \A g \in Flushers \ {f} : batch'[g] = batch[g]
      BY <2>3, FlushStripeEffect
    <3> QED BY <3>1, <3>2 DEF Metrics
  <2>4. ASSUME NEW f \in Flushers, FlushReturn(f)
        PROVE  m \in Slots' \/ m \in Metrics
    <3>1. /\ returned' = returned \cup batch[f]
          /\ batch'[f] = {} /\ \A g \in Flushers \ {f} : batch'[g] = batch[g]
      BY <2>4, FlushReturnEffect DEF FlushReturn
    <3> QED BY <3>1 DEF Metrics
  <2>5. CASE RawTryRecv \/ RawReceiverDropped \/ UNCHANGED vars
    BY <2>5 DEF RawTryRecv, RawReceiverDropped, vars, Metrics
  <2> QED BY <2>1, <2>2, <2>3, <2>4, <2>5 DEF Next, Record, FlushStep
<1> QED BY <1>2, <1>5, <1>6

\* If combine_hash tells all series apart, a metric is only made of record
\* calls of the series it is reported as.
THEOREM OwnSeriesHolds ==
  ASSUME \A s, t \in Series : CombineHash(s) = CombineHash(t) => s = t
  PROVE  Spec => []OwnSeries
<1>1. Init => AllMadeOf
  BY DEF Init, AllMadeOf, Metrics, Slots
<1>2. IInv /\ AllMadeOf => OwnSeries
  <2> SUFFICES ASSUME IInv, AllMadeOf, NEW m \in Metrics, NEW id \in m.from
               PROVE  log[id].series = m.key
    BY DEF OwnSeries
  <2>1. m.key \in Series /\ id \in Ids
    BY DEF IInv, TypeOK, Metrics, Slots, Entries
  <2>2. log[id].series \in Series
    BY <2>1, LogType DEF IInv
  <2>3. CombineHash(log[id].series) = CombineHash(m.key)
    BY DEF AllMadeOf, MadeOf, HashOf
  <2> QED BY <2>1, <2>2, <2>3
<1> QED BY <1>1, <1>2, InvInit, InvNext, MadeOfNext, PTL DEF Spec

-----------------------------------------------------------------------------
(* What any step does to the record calls.                                 *)

\* A record call is either refused or not, and what it leaves of the flushes.
LEMMA RecordKinds ==
  ASSUME NEW s \in Series, NEW v \in Values \cup {NaN},
         RecordCount(s, v) \/ RecordGauge(s, v) \/ RecordHistogram(s, v)
  PROVE  /\ Log(s, v)
         /\ UNCHANGED <<cursor, batch, returned, since>>
         /\ refused' = refused \/ refused' = refused \cup {NextId}
         /\ \/ /\ Upsert(s, v)
               /\ Kind[s] = "count" => v # NaN
            \/ /\ Passthrough /\ Kind[s] = "histogram" /\ TrySend(s, v)
               /\ UNCHANGED <<entries, epoch>>
<1>1. Upsert(s, v) => refused' = refused \/ refused' = refused \cup {NextId}
  BY DEF Upsert, InsertNew, RecordAt
<1>2. CASE RecordCount(s, v) \/ RecordGauge(s, v)
  BY <1>1, <1>2 DEF RecordCount, RecordGauge
<1>3. CASE RecordHistogram(s, v) /\ Passthrough
  BY <1>3 DEF RecordHistogram, TrySend
<1>4. CASE RecordHistogram(s, v) /\ ~Passthrough
  BY <1>1, <1>4 DEF RecordHistogram
<1> QED BY <1>2, <1>3, <1>4

\* The steps that are no record call leave the calls alone.
LEMMA OtherStep ==
  ASSUME \/ \E f \in Flushers : FlushStep(f)
         \/ RawTryRecv \/ RawReceiverDropped \/ UNCHANGED vars
  PROVE  UNCHANGED <<log, refused>>
  BY DEF FlushStep, FlushStart, FlushStripe, FlushReturn, RawTryRecv, RawReceiverDropped, vars

-----------------------------------------------------------------------------
(* NoneMistaken.                                                           *)

\* Where the hash keeps the kinds apart, no record call into the map is dropped,
LEMMA UpsertAccepts ==
  ASSUME \A s, t \in Series : CombineHash(s) = CombineHash(t) => Kind[s] = Kind[t],
         IInv, NEW s \in Series, NEW v \in Values \cup {NaN}, Upsert(s, v)
  PROVE  refused' = refused
<1>1. ASSUME NEW p \in At(CombineHash(s)) PROVE Kind[entries[p].key] = Kind[s]
  <2>1. entries[p].key \in Series /\ CombineHash(entries[p].key) = CombineHash(s)
    BY <1>1 DEF IInv, TypeOK, Entries, Origins, At
  <2> QED BY <2>1
<1> QED BY <1>1 DEF Upsert, InsertNew, RecordAt

\* ... so that every step keeps NoneMistaken.
LEMMA MistakenNext ==
  ASSUME \A s, t \in Series : CombineHash(s) = CombineHash(t) => Kind[s] = Kind[t]
  PROVE  IInv /\ NoneMistaken /\ [Next]_vars => NoneMistaken'
<1> SUFFICES ASSUME IInv, NoneMistaken, [Next]_vars PROVE NoneMistaken'
  OBVIOUS
<1>1. refused \subseteq Ids
  BY DEF IInv, TypeOK
<1>2. ASSUME NEW s \in Series, NEW v \in Values \cup {NaN},
             RecordCount(s, v) \/ RecordGauge(s, v) \/ RecordHistogram(s, v)
      PROVE  NoneMistaken'
  <2>1. /\ \A id \in Ids : log'[id] = log[id]
        /\ log'[NextId] = [series |-> s, value |-> v]
    BY <1>2, RecordKinds, LogStep DEF IInv
  <2>2. \A id \in refused : IsRaw(id)'
    BY <1>1, <2>1 DEF NoneMistaken, IsRaw, KindOf
  <2>3. CASE refused' = refused
    BY <2>2, <2>3 DEF NoneMistaken
  <2>4. CASE Passthrough /\ Kind[s] = "histogram" /\ refused' = refused \cup {NextId}
    <3>1. \A id : id = NextId => IsRaw(id)'
      BY <2>1, <2>4 DEF IsRaw, KindOf
    <3>2. \A id \in refused' : id \in refused \/ id = NextId
      BY <2>4
    <3>3. \A id \in refused' : IsRaw(id)'
      BY <2>2, <3>1, <3>2
    <3> QED BY <3>3 DEF NoneMistaken
  <2> QED BY <1>2, <2>3, <2>4, RecordKinds, UpsertAccepts
<1>3. CASE UNCHANGED <<log, refused>>
  BY <1>3 DEF NoneMistaken, IsRaw, KindOf
<1> QED BY <1>2, <1>3, OtherStep DEF Next, Record

\* Unless two series of different kinds share a combined hash, no record call
\* into the map is dropped: only full or closed raw channels refuse a value.
THEOREM NoneMistakenHolds ==
  ASSUME \A s, t \in Series : CombineHash(s) = CombineHash(t) => Kind[s] = Kind[t]
  PROVE  Spec => []NoneMistaken
<1>1. Init => NoneMistaken
  BY DEF Init, NoneMistaken
<1> QED BY <1>1, InvInit, InvNext, MistakenNext, PTL DEF Spec

-----------------------------------------------------------------------------
(* LastValueKept: the inductive invariant.                                 *)

\* The three parts of LastValueKept: some slot holds the last value of a gauge,
SomeHolds ==
    \A h \in Hashes : GaugeSets(h) # {} =>
       \E p \in At(h) : IsGauge(entries[p]) /\ HoldsLast(p)

\* ... every slot does while none has been placed anew,
FirstHolds ==
    \A p \in DOMAIN entries : IsGauge(entries[p]) /\ Home(p.hash).epoch = 0 => HoldsLast(p)

\* ... and what the running flushes have taken.
TakenLast ==
    \A f \in Flushers, h \in Hashes :
       \A j \in {id \in GaugeSets(h) : StripeOf(h) < cursor[f] /\ id <= since[f]} :
          \E id \in GaugeSets(h) :
             /\ j <= id
             /\ log[id].value = NaN \/ \E m \in batch[f] : IsSetBy(m, id)

\* Every slot of a gauge holds a value that was set.
EachSet ==
    \A p \in DOMAIN entries : IsGauge(entries[p]) =>
       \E id \in GaugeSets(p.hash) : IsSetBy(entries[p], id)

GInv == IInv /\ EachSet /\ SomeHolds /\ FirstHolds /\ TakenLast

\* A call that sets a gauge and is not refused is the newest of its gauge; any
\* other call leaves all gauges as they are.
LEMMA GaugeSetsRecord ==
  ASSUME TypeOK, NEW s \in Series, NEW v \in Values \cup {NaN}, Log(s, v),
         refused' = refused \/ refused' = refused \cup {NextId},
         NEW h
  PROVE  /\ ~(Kind[s] = "gauge" /\ h = CombineHash(s) /\ refused' = refused)
               => GaugeSets(h)' = GaugeSets(h)
         /\ Kind[s] = "gauge" /\ h = CombineHash(s) /\ refused' = refused
               => GaugeSets(h)' = GaugeSets(h) \cup {NextId}
         /\ \A id \in GaugeSets(h) : id <= NextId /\ id # NextId /\ log'[id] = log[id]
<1>1. /\ Ids' = Ids \cup {NextId} /\ NextId \notin Ids
      /\ \A id \in Ids : log'[id] = log[id]
      /\ log'[NextId] = [series |-> s, value |-> v]
  BY LogStep
<1>2. \A id : id \in GaugeSets(h) <=>
                 /\ id \in Ids /\ id \notin refused
                 /\ Kind[log[id].series] = "gauge" /\ CombineHash(log[id].series) = h
  BY DEF GaugeSets, KindOf, HashOf
<1>3. \A id : id \in GaugeSets(h)' <=>
                 /\ id \in Ids' /\ id \notin refused'
                 /\ Kind[log'[id].series] = "gauge" /\ CombineHash(log'[id].series) = h
  BY DEF GaugeSets, KindOf, HashOf
<1>4. NextId \notin refused
  BY <1>1 DEF TypeOK
<1>5. \A id : id # NextId => (id \in GaugeSets(h)' <=> id \in GaugeSets(h))
  BY <1>1, <1>2, <1>3
<1>6. NextId \notin GaugeSets(h)
  BY <1>1, <1>2
<1>7. NextId \in GaugeSets(h)' <=> Kind[s] = "gauge" /\ h = CombineHash(s) /\ refused' = refused
  <2>1. NextId \in GaugeSets(h)' <=>
           NextId \notin refused' /\ Kind[s] = "gauge" /\ CombineHash(s) = h
    BY <1>1, <1>3
  <2> QED BY <1>4, <2>1
<1>8. \A id \in Ids : id <= NextId
  BY DEF TypeOK, Ids, NextId
<1>9. \A id \in GaugeSets(h) : id <= NextId /\ id # NextId /\ log'[id] = log[id]
  BY <1>1, <1>2, <1>8
<1>10. GaugeSets(h)' = IF NextId \in GaugeSets(h)' THEN GaugeSets(h) \cup {NextId} ELSE GaugeSets(h)
  BY <1>5, <1>6
<1> QED BY <1>7, <1>9, <1>10

\* Steps that are no record call leave the gauges' calls alone.
LEMMA GaugeSetsSame ==
  ASSUME UNCHANGED <<log, refused>>
  PROVE  \A h : GaugeSets(h)' = GaugeSets(h)
  BY DEF GaugeSets, Ids, KindOf, HashOf

\* What a record call does to the slots, for the gauges.
LEMMA GaugeUpsert ==
  ASSUME IInv, NEW s \in Series, NEW v \in Values \cup {NaN},
         RecordCount(s, v) \/ RecordGauge(s, v) \/ RecordHistogram(s, v)
  PROVE  /\ EpochGrows
         /\ \/ /\ entries' = entries
               /\ \A h : GaugeSets(h)' = GaugeSets(h)
            \/ \E p \in DOMAIN entries' :
                  /\ p.hash = CombineHash(s)
                  /\ DOMAIN entries' = DOMAIN entries \cup {p}
                  /\ \A q \in DOMAIN entries \ {p} : entries'[q] = entries[q]
                  /\ IsGauge(entries'[p]) <=> Kind[s] = "gauge"
                  /\ p \in DOMAIN entries => (IsGauge(entries[p]) <=> Kind[s] = "gauge")
                  /\ Kind[s] = "gauge" => entries'[p].from = {NextId} /\ entries'[p].value = v
                  /\ refused' = refused
<1>1. /\ Log(s, v)
      /\ refused' = refused \/ refused' = refused \cup {NextId}
  BY RecordKinds
<1>2. refused' = refused \cup {NextId} => refused' # refused
  BY LogStep, <1>1 DEF IInv, TypeOK
<1>3. CASE Kind[s] = "histogram" /\ UNCHANGED <<entries, epoch>>
  <2>1. EpochGrows
    BY <1>3 DEF IInv, TypeOK, EpochGrows
  <2> QED BY <1>1, <1>3, <2>1, GaugeSetsRecord DEF IInv
<1>4. CASE refused' = refused \cup {NextId} /\ entries' = entries /\ EpochGrows
  BY <1>1, <1>2, <1>4, GaugeSetsRecord DEF IInv
<1>5. ASSUME NEW p, NEW old, NEW e, RecordedInto(p, old, e, s, v)
      PROVE  /\ p \in DOMAIN entries' /\ p.hash = CombineHash(s)
             /\ DOMAIN entries' = DOMAIN entries \cup {p}
             /\ \A q \in DOMAIN entries \ {p} : entries'[q] = entries[q]
             /\ IsGauge(entries'[p]) <=> Kind[s] = "gauge"
             /\ p \in DOMAIN entries => (IsGauge(entries[p]) <=> Kind[s] = "gauge")
             /\ Kind[s] = "gauge" => entries'[p].from = {NextId} /\ entries'[p].value = v
             /\ refused' = refused
  <2>1. /\ DOMAIN entries' = DOMAIN entries \cup {p}
        /\ entries'[p] = e
        /\ \A q \in DOMAIN entries \ {p} : entries'[q] = entries[q]
    BY <1>5 DEF Put, RecordedInto
  <2>2. /\ p.hash = CombineHash(s) /\ refused' = refused
        /\ Kind[e.key] = Kind[s] /\ Kind[old.key] = Kind[s]
        /\ p \in DOMAIN entries => old = entries[p]
    BY <1>5 DEF RecordedInto
  <2>3. Kind[s] = "gauge" => e.from = {NextId} /\ e.value = v
    BY <1>5 DEF RecordedInto, Contributors, Recorded
  <2> QED BY <2>1, <2>2, <2>3 DEF IsGauge
<1>6. CASE Upsert(s, v) /\ (Kind[s] = "count" => v # NaN)
  <2>1. /\ EpochGrows
        /\ \/ refused' = refused \cup {NextId} /\ entries' = entries
           \/ \E p, old, e : RecordedInto(p, old, e, s, v)
    BY <1>1, <1>6, UpsertStep DEF IInv
  <2>2. CASE refused' = refused \cup {NextId} /\ entries' = entries
    BY <1>4, <2>1, <2>2
  <2>3. ASSUME NEW p, NEW old, NEW e, RecordedInto(p, old, e, s, v)
        PROVE  \E q \in DOMAIN entries' :
                  /\ q.hash = CombineHash(s)
                  /\ DOMAIN entries' = DOMAIN entries \cup {q}
                  /\ \A x \in DOMAIN entries \ {q} : entries'[x] = entries[x]
                  /\ IsGauge(entries'[q]) <=> Kind[s] = "gauge"
                  /\ q \in DOMAIN entries => (IsGauge(entries[q]) <=> Kind[s] = "gauge")
                  /\ Kind[s] = "gauge" => entries'[q].from = {NextId} /\ entries'[q].value = v
                  /\ refused' = refused
    <3>1. p \in DOMAIN entries'
      BY <1>5, <2>3
    <3> QED BY <1>5, <2>3, <3>1
  <2> QED BY <2>1, <2>2, <2>3
<1> QED BY <1>3, <1>6, RecordKinds

\* Record calls keep the newest value of each gauge.
LEMMA GaugeRecord ==
  ASSUME GInv, NEW s \in Series, NEW v \in Values \cup {NaN},
         RecordCount(s, v) \/ RecordGauge(s, v) \/ RecordHistogram(s, v)
  PROVE  EachSet' /\ SomeHolds' /\ FirstHolds' /\ TakenLast'
<1> USE DEF GInv
<1> DEFINE hash == CombineHash(s)
<1>1. /\ Log(s, v)
      /\ UNCHANGED <<cursor, batch, returned, since>>
      /\ refused' = refused \/ refused' = refused \cup {NextId}
  BY RecordKinds
<1>2. log'[NextId] = [series |-> s, value |-> v] /\ Hashes' = Hashes
  BY <1>1, LogStep DEF IInv, Hashes, CombineHash
<1>3. \A h : /\ ~(Kind[s] = "gauge" /\ h = hash /\ refused' = refused)
                   => GaugeSets(h)' = GaugeSets(h)
             /\ Kind[s] = "gauge" /\ h = hash /\ refused' = refused
                   => GaugeSets(h)' = GaugeSets(h) \cup {NextId}
             /\ \A id \in GaugeSets(h) : id <= NextId /\ id # NextId /\ log'[id] = log[id]
  BY <1>1, GaugeSetsRecord DEF IInv
<1>4. TakenLast'
  <2> SUFFICES ASSUME NEW f \in Flushers, NEW h \in Hashes, NEW j \in GaugeSets(h)',
                      StripeOf(h) < cursor[f], j <= since[f]
               PROVE  \E id \in GaugeSets(h)' :
                         /\ j <= id
                         /\ log'[id].value = NaN
                            \/ \E m \in batch[f] : m.from = {id} /\ m.value = log'[id].value
    BY <1>1, <1>2 DEF TakenLast, IsSetBy, StripeOf
  <2>1. j # NextId
    BY DEF IInv, TypeOK, NextId
  <2>2. j \in GaugeSets(h)
    BY <1>1, <1>3, <2>1
  <2>3. PICK id \in GaugeSets(h) :
           /\ j <= id
           /\ log[id].value = NaN \/ \E m \in batch[f] : IsSetBy(m, id)
    BY <2>2 DEF TakenLast
  <2>4. id \in GaugeSets(h)' /\ log'[id] = log[id]
    BY <1>3
  <2> QED BY <2>3, <2>4 DEF IsSetBy
<1>5. EpochGrows /\ TypeOK'
  BY GaugeUpsert, TypeNext DEF IInv, Next, Record
<1>6. \A p \in DOMAIN entries : Home(p.hash)'.epoch = 0 => Home(p.hash).epoch = 0
  <2> SUFFICES ASSUME NEW p \in DOMAIN entries, epoch'[StripeOf(p.hash)] = 0
               PROVE  epoch[StripeOf(p.hash)] = 0
    BY DEF Home
  <2>1. StripeOf(p.hash) \in Stripes
    <3>1. p.hash \in Hashes
      BY DEF IInv, TypeOK
    <3> QED BY <3>1, HashType
  <2> QED BY <1>5, <2>1 DEF EpochGrows, IInv, TypeOK
<1>7. \A p : HoldsLast(p)' <=>
         \E id \in GaugeSets(p.hash)' :
            /\ entries'[p].from = {id} /\ entries'[p].value = log'[id].value
            /\ \A j \in GaugeSets(p.hash)' : j <= id
  BY DEF HoldsLast, IsSetBy
<1>8. \A p : entries'[p] = entries[p] /\ GaugeSets(p.hash)' = GaugeSets(p.hash)
         => (HoldsLast(p) => HoldsLast(p)')
  BY <1>3, <1>7 DEF HoldsLast, IsSetBy
<1>9. CASE entries' = entries /\ \A h : GaugeSets(h)' = GaugeSets(h)
  <2>1. SomeHolds'
    BY <1>2, <1>8, <1>9 DEF SomeHolds, At, IsGauge
  <2>2. FirstHolds'
    BY <1>6, <1>8, <1>9 DEF FirstHolds, IsGauge
  <2>3. EachSet'
    BY <1>3, <1>9 DEF EachSet, IsGauge, IsSetBy
  <2> QED BY <1>4, <2>1, <2>2, <2>3
<1>10. ASSUME NEW p \in DOMAIN entries',
              p.hash = hash,
              DOMAIN entries' = DOMAIN entries \cup {p},
              \A q \in DOMAIN entries \ {p} : entries'[q] = entries[q],
              IsGauge(entries'[p]) <=> Kind[s] = "gauge",
              p \in DOMAIN entries => (IsGauge(entries[p]) <=> Kind[s] = "gauge"),
              Kind[s] = "gauge" => entries'[p].from = {NextId} /\ entries'[p].value = v,
              refused' = refused
       PROVE  EachSet' /\ SomeHolds' /\ FirstHolds'
  <2> HIDE DEF hash
  <2>1. Kind[s] = "gauge" => HoldsLast(p)'
    <3> SUFFICES ASSUME Kind[s] = "gauge" PROVE HoldsLast(p)'
      OBVIOUS
    <3>1. GaugeSets(p.hash)' = GaugeSets(p.hash) \cup {NextId} /\ log'[NextId].value = v
      BY <1>2, <1>3, <1>10
    <3>2. NextId \in Int
      BY DEF IInv, TypeOK, NextId
    <3>3. \A j \in GaugeSets(p.hash)' : j <= NextId
      BY <1>3, <3>1, <3>2
    <3> QED BY <1>7, <1>10, <3>1, <3>3
  <2>2. SomeHolds'
    <3> SUFFICES ASSUME NEW h \in Hashes, GaugeSets(h)' # {}
                 PROVE  \E q \in At(h)' : IsGauge(entries'[q]) /\ HoldsLast(q)'
      BY <1>2 DEF SomeHolds, IsGauge
    <3>1. CASE Kind[s] = "gauge" /\ h = hash
      <4>1. p \in At(h)'
        BY <1>10, <3>1 DEF At
      <4> QED BY <1>10, <2>1, <3>1, <4>1
    <3>2. CASE ~(Kind[s] = "gauge" /\ h = hash)
      <4>1. GaugeSets(h)' = GaugeSets(h)
        BY <1>3, <3>2
      <4>2. PICK q \in At(h) : IsGauge(entries[q]) /\ HoldsLast(q)
        BY <4>1 DEF SomeHolds
      <4>3. q \in DOMAIN entries /\ q.hash = h /\ q # p
        BY <1>10, <3>2, <4>2 DEF At
      <4>4. q \in At(h)' /\ entries'[q] = entries[q]
        BY <1>10, <4>3 DEF At
      <4> QED BY <1>8, <4>1, <4>2, <4>3, <4>4
    <3> QED BY <3>1, <3>2
  <2>3. FirstHolds'
    <3> SUFFICES ASSUME NEW q \in DOMAIN entries', IsGauge(entries'[q]), Home(q.hash)'.epoch = 0
                 PROVE  HoldsLast(q)'
      BY DEF FirstHolds, IsGauge
    <3>1. CASE q = p
      BY <1>10, <2>1, <3>1
    <3>2. CASE q # p
      <4>1. q \in DOMAIN entries /\ entries'[q] = entries[q]
        BY <1>10, <3>2
      <4>2. HoldsLast(q)
        BY <1>6, <4>1 DEF FirstHolds, IsGauge
      <4>3. ~(Kind[s] = "gauge" /\ q.hash = hash)
        <5> SUFFICES ASSUME q.hash = p.hash PROVE FALSE
          BY <1>10
        <5>1. /\ q \in [hash : Hashes, epoch : Nat] /\ p \in [hash : Hashes, epoch : Nat]
              /\ q.epoch <= Home(q.hash)'.epoch /\ p.epoch <= Home(p.hash)'.epoch
          BY <1>2, <1>5, <1>10 DEF TypeOK
        <5>2. q.epoch = 0 /\ p.epoch = 0
          BY <5>1
        <5>3. /\ q = [hash |-> q.hash, epoch |-> q.epoch]
              /\ p = [hash |-> p.hash, epoch |-> p.epoch]
          BY <5>1
        <5>4. q = p
          BY <5>2, <5>3
        <5> QED BY <3>2, <5>4
      <4>4. GaugeSets(q.hash)' = GaugeSets(q.hash)
        BY <1>3, <4>3
      <4> QED BY <1>8, <4>1, <4>2, <4>4
    <3> QED BY <3>1, <3>2
  <2>4. EachSet'
    <3> SUFFICES ASSUME NEW q \in DOMAIN entries', IsGauge(entries'[q])
                 PROVE  \E id \in GaugeSets(q.hash)' : IsSetBy(entries[q], id)'
      BY DEF EachSet, IsGauge
    <3>1. CASE q = p
      BY <1>7, <1>10, <2>1, <3>1 DEF IsSetBy
    <3>2. CASE q # p
      <4>1. q \in DOMAIN entries /\ entries'[q] = entries[q]
        BY <1>10, <3>2
      <4>2. PICK id \in GaugeSets(q.hash) : IsSetBy(entries[q], id)
        BY <4>1 DEF EachSet, IsGauge
      <4>3. id \in GaugeSets(q.hash)' /\ log'[id] = log[id]
        BY <1>3
      <4> QED BY <4>1, <4>2, <4>3 DEF IsSetBy
    <3> QED BY <3>1, <3>2
  <2> QED BY <2>2, <2>3, <2>4
<1>11. \/ entries' = entries /\ \A h : GaugeSets(h)' = GaugeSets(h)
       \/ \E p \in DOMAIN entries' :
             /\ p.hash = hash
             /\ DOMAIN entries' = DOMAIN entries \cup {p}
             /\ \A q \in DOMAIN entries \ {p} : entries'[q] = entries[q]
             /\ IsGauge(entries'[p]) <=> Kind[s] = "gauge"
             /\ p \in DOMAIN entries => (IsGauge(entries[p]) <=> Kind[s] = "gauge")
             /\ Kind[s] = "gauge" => entries'[p].from = {NextId} /\ entries'[p].value = v
             /\ refused' = refused
  BY GaugeUpsert
<1> HIDE DEF hash
<1>12. CASE \E p \in DOMAIN entries' :
             /\ p.hash = hash
             /\ DOMAIN entries' = DOMAIN entries \cup {p}
             /\ \A q \in DOMAIN entries \ {p} : entries'[q] = entries[q]
             /\ IsGauge(entries'[p]) <=> Kind[s] = "gauge"
             /\ p \in DOMAIN entries => (IsGauge(entries[p]) <=> Kind[s] = "gauge")
             /\ Kind[s] = "gauge" => entries'[p].from = {NextId} /\ entries'[p].value = v
             /\ refused' = refused
  BY <1>4, <1>10, <1>12
<1> QED BY <1>9, <1>11, <1>12

\* A flush that begins has visited no stripe yet.
LEMMA GaugeFlushStart ==
  ASSUME GInv, NEW f \in Flushers, FlushStart(f)
  PROVE  EachSet' /\ SomeHolds' /\ FirstHolds' /\ TakenLast'
<1> USE DEF GInv
<1>1. UNCHANGED <<entries, epoch, batch, log, refused>> /\ Hashes' = Hashes
  BY DEF FlushStart, Hashes, CombineHash
<1>2. \A h : GaugeSets(h)' = GaugeSets(h)
  BY <1>1, GaugeSetsSame
<1>3. EachSet' /\ SomeHolds' /\ FirstHolds'
  BY <1>1, <1>2 DEF EachSet, SomeHolds, FirstHolds, HoldsLast, At, Home, IsGauge, IsSetBy
<1>4. TakenLast'
  <2> SUFFICES ASSUME NEW g \in Flushers, NEW h \in Hashes, NEW j \in GaugeSets(h),
                      StripeOf(h) < cursor'[g], j <= since'[g]
               PROVE  \E id \in GaugeSets(h) :
                         /\ j <= id
                         /\ log[id].value = NaN \/ \E m \in batch[g] : IsSetBy(m, id)
    BY <1>1, <1>2 DEF TakenLast, IsSetBy, StripeOf
  <2>1. CASE g = f
    <3>1. cursor'[f] = 0
      BY DEF FlushStart, IInv, TypeOK
    <3> QED BY <2>1, <3>1, HashType, SizeAssumption DEF Stripes
  <2>2. CASE g # f
    <3>1. cursor'[g] = cursor[g] /\ since'[g] = since[g]
      BY <2>2 DEF FlushStart, IInv, TypeOK
    <3> QED BY <3>1 DEF TakenLast
  <2> QED BY <2>1, <2>2
<1> QED BY <1>3, <1>4

\* A flush of a stripe keeps the gauges in the map, and takes the newest value
\* of each gauge of the stripe along.
LEMMA GaugeFlushStripe ==
  ASSUME GInv, NEW f \in Flushers, FlushStripe(f)
  PROVE  EachSet' /\ SomeHolds' /\ FirstHolds' /\ TakenLast'
<1> USE DEF GInv
<1> DEFINE Locked == InStripe(cursor[f])
<1>1. UNCHANGED <<epoch, log, refused, since>> /\ Hashes' = Hashes
  BY DEF FlushStripe, Hashes, CombineHash
<1>2. \A h : GaugeSets(h)' = GaugeSets(h)
  BY <1>1, GaugeSetsSame
<1>3. /\ DOMAIN entries' \subseteq DOMAIN entries
      /\ \A h \in DOMAIN entries' : entries'[h] = entries[h]
      /\ \A h \in DOMAIN entries : IsGauge(entries[h]) => h \in DOMAIN entries'
  BY DEF FlushStripe, Retained, IsGauge
<1>4. EachSet' /\ SomeHolds' /\ FirstHolds'
  <2>1. \A p \in DOMAIN entries' : HoldsLast(p)' <=> HoldsLast(p)
    BY <1>1, <1>2, <1>3 DEF HoldsLast, IsSetBy
  <2>2. \A h : Home(h)' = Home(h)
    BY <1>1 DEF Home
  <2>3. SomeHolds'
    <3> SUFFICES ASSUME NEW h \in Hashes, GaugeSets(h) # {}
                 PROVE  \E p \in At(h)' : IsGauge(entries'[p]) /\ HoldsLast(p)'
      BY <1>1, <1>2 DEF SomeHolds, IsGauge
    <3>1. PICK p \in At(h) : IsGauge(entries[p]) /\ HoldsLast(p)
      BY DEF SomeHolds
    <3>2. p \in At(h)' /\ entries'[p] = entries[p] /\ p \in DOMAIN entries'
      BY <1>3, <3>1 DEF At
    <3> QED BY <2>1, <3>1, <3>2
  <2>4. FirstHolds'
    BY <1>3, <2>1, <2>2 DEF FirstHolds, IsGauge
  <2>5. EachSet'
    BY <1>1, <1>2, <1>3 DEF EachSet, IsGauge, IsSetBy
  <2> QED BY <2>3, <2>4, <2>5
<1>5. TakenLast'
  <2> SUFFICES ASSUME NEW g \in Flushers, NEW h \in Hashes, NEW j \in GaugeSets(h),
                      StripeOf(h) < cursor'[g], j <= since[g]
               PROVE  \E id \in GaugeSets(h) :
                         /\ j <= id
                         /\ log[id].value = NaN \/ \E m \in batch'[g] : IsSetBy(m, id)
    BY <1>1, <1>2 DEF TakenLast, IsSetBy, StripeOf
  <2>1. batch[g] \subseteq batch'[g]
    BY DEF FlushStripe, IInv, TypeOK
  <2>2. CASE StripeOf(h) < cursor[g]
    BY <2>1, <2>2 DEF TakenLast
  <2>3. CASE ~(StripeOf(h) < cursor[g])
    <3>1. g = f /\ cursor'[f] = cursor[f] + 1 /\ cursor[f] \in Nat
      BY <2>3, SizeAssumption DEF FlushStripe, IInv, TypeOK, Visiting
    <3>2. StripeOf(h) = cursor[f]
      BY <2>3, <3>1, HashType, SizeAssumption DEF Stripes
    <3>3. PICK p \in At(h) : IsGauge(entries[p]) /\ HoldsLast(p)
      BY DEF SomeHolds
    <3>4. p \in Locked /\ p.hash = h
      BY <3>2 DEF At, InStripe
    <3>5. PICK id \in GaugeSets(h) :
             IsSetBy(entries[p], id) /\ \A k \in GaugeSets(h) : k <= id
      BY <3>3, <3>4 DEF HoldsLast
    <3>6. CASE entries[p].value = NaN
      BY <3>5, <3>6 DEF IsSetBy
    <3>7. CASE entries[p].value # NaN
      <4>1. Emitted(entries[p])
        BY <3>3, <3>7 DEF Emitted, IsGauge
      <4>2. batch'[f] = batch[f] \cup {entries[x] : x \in {y \in Locked : Emitted(entries[y])}}
        BY DEF FlushStripe, IInv, TypeOK
      <4>3. entries[p] \in batch'[f]
        BY <3>4, <4>1, <4>2
      <4> QED BY <3>1, <3>5, <4>3
    <3> QED BY <3>6, <3>7
  <2> QED BY <2>2, <2>3
<1> QED BY <1>4, <1>5

\* A flush that returns no longer vouches for anything.
LEMMA GaugeFlushReturn ==
  ASSUME GInv, NEW f \in Flushers, FlushReturn(f)
  PROVE  EachSet' /\ SomeHolds' /\ FirstHolds' /\ TakenLast'
<1> USE DEF GInv
<1>1. UNCHANGED <<entries, epoch, log, refused, since>> /\ Hashes' = Hashes
  BY DEF FlushReturn, Hashes, CombineHash
<1>2. \A h : GaugeSets(h)' = GaugeSets(h)
  BY <1>1, GaugeSetsSame
<1>3. EachSet' /\ SomeHolds' /\ FirstHolds'
  BY <1>1, <1>2 DEF EachSet, SomeHolds, FirstHolds, HoldsLast, At, Home, IsGauge, IsSetBy
<1>4. TakenLast'
  <2> SUFFICES ASSUME NEW g \in Flushers, NEW h \in Hashes, NEW j \in GaugeSets(h),
                      StripeOf(h) < cursor'[g], j <= since[g]
               PROVE  \E id \in GaugeSets(h) :
                         /\ j <= id
                         /\ log[id].value = NaN \/ \E m \in batch'[g] : IsSetBy(m, id)
    BY <1>1, <1>2 DEF TakenLast, IsSetBy, StripeOf
  <2>1. g # f
    BY HashType, SizeAssumption DEF FlushReturn, IInv, TypeOK, Idle, Stripes
  <2>2. cursor'[g] = cursor[g] /\ batch'[g] = batch[g]
    BY <2>1 DEF FlushReturn, IInv, TypeOK
  <2> QED BY <2>2 DEF TakenLast
<1> QED BY <1>3, <1>4

\* The invariant holds initially,
LEMMA GaugeInit == Init => GInv
<1> SUFFICES ASSUME Init PROVE GInv
  OBVIOUS
<1>1. \A h : GaugeSets(h) = {}
  BY DEF Init, GaugeSets, Ids
<1>2. EachSet /\ SomeHolds /\ FirstHolds /\ TakenLast
  BY <1>1 DEF Init, EachSet, SomeHolds, FirstHolds, TakenLast
<1> QED BY <1>2, InvInit DEF GInv

\* ... and every step keeps it.
LEMMA GaugeNext == GInv /\ [Next]_vars => GInv'
<1> SUFFICES ASSUME GInv, [Next]_vars PROVE EachSet' /\ SomeHolds' /\ FirstHolds' /\ TakenLast'
  BY InvNext DEF GInv
<1>1. ASSUME NEW s \in Series, NEW v \in Values \cup {NaN},
             RecordCount(s, v) \/ RecordGauge(s, v) \/ RecordHistogram(s, v)
      PROVE  EachSet' /\ SomeHolds' /\ FirstHolds' /\ TakenLast'
  BY <1>1, GaugeRecord
<1>2. ASSUME NEW f \in Flushers, FlushStep(f)
      PROVE  EachSet' /\ SomeHolds' /\ FirstHolds' /\ TakenLast'
  BY <1>2, GaugeFlushStart, GaugeFlushStripe, GaugeFlushReturn DEF FlushStep
<1>3. CASE RawTryRecv \/ RawReceiverDropped \/ UNCHANGED vars
  <2>1. UNCHANGED <<entries, epoch, cursor, batch, log, since, refused>> /\ Hashes' = Hashes
    BY <1>3 DEF RawTryRecv, RawReceiverDropped, vars, Hashes, CombineHash
  <2>2. \A h : GaugeSets(h)' = GaugeSets(h)
    BY <2>1, GaugeSetsSame
  <2>3. SomeHolds'
    BY <2>1, <2>2 DEF GInv, SomeHolds, HoldsLast, At, IsGauge, IsSetBy
  <2>4. FirstHolds'
    BY <2>1, <2>2 DEF GInv, FirstHolds, HoldsLast, Home, IsGauge, IsSetBy
  <2>5. TakenLast'
    BY <2>1, <2>2 DEF GInv, TakenLast, IsSetBy, StripeOf
  <2>6. EachSet'
    BY <2>1, <2>2 DEF GInv, EachSet, IsGauge, IsSetBy
  <2> QED BY <2>3, <2>4, <2>5, <2>6
<1> QED BY <1>1, <1>2, <1>3 DEF Next, Record

\* A slot of every gauge that was set holds the last value set for it, every slot does
\* as long as the stripe's slots have not been placed anew, and a flush that has visited
\* a gauge's stripe has taken a value that is no older than the last one set before the
\* flush began.
THEOREM LastValueKeptHolds == Spec => []LastValueKept
<1>1. GInv => LastValueKept
  BY DEF GInv, SomeHolds, FirstHolds, TakenLast, LastValueKept
<1> QED BY <1>1, GaugeInit, GaugeNext, PTL DEF Spec

-----------------------------------------------------------------------------
(* Sums.                                                                   *)

\* Remainders of numbers that differ by a multiple are the same.
LEMMA SameRemainder ==
  ASSUME NEW m \in Int, m > 0, NEW q \in Int, NEW z \in Int
  PROVE  (m * q + z) % m = z % m
<1> DEFINE b == z \div m
           a == z % m
<1>1. b \in Int /\ a \in 0 .. m - 1 /\ z = m * b + a
  OBVIOUS
<1> HIDE DEF a, b
<1>2. m * q + z = m * (q + b) + a
  <2>1. m * (q + b) = m * q + m * b
    BY <1>1
  <2>2. m * q \in Int /\ m * b \in Int /\ m * (q + b) \in Int
    BY <1>1
  <2> QED BY <1>1, <2>1, <2>2
<1>3. (m * (q + b) + a) % m = a
  <2> DEFINE k == q + b
  <2>1. k \in Int
    BY <1>1
  <2> HIDE DEF k
  <2>2. (m * k + a) % m = a
    BY <1>1, <2>1
  <2> QED BY <2>2 DEF k
<1> QED BY <1>2, <1>3 DEF a

\* Wrapping at every addition is wrapping at the end.
LEMMA WrappedAdds ==
  ASSUME NEW x \in Int, NEW y \in Int
  PROVE  Wrapped(Wrapped(x) + y) = Wrapped(x + y)
<1> DEFINE m == 2 * Half
           q == (x + Half) \div m
           r == (x + Half) % m
<1>1. m \in Int /\ m > 0 /\ Half \in Int
  BY SizeAssumption
<1>2. q \in Int /\ r \in Int /\ x + Half = m * q + r
  <2> DEFINE z == x + Half
  <2>1. z \in Int
    BY <1>1
  <2> HIDE DEF m, z
  <2>2. z \div m \in Int /\ z % m \in Int /\ z = m * (z \div m) + (z % m)
    BY <1>1, <2>1
  <2> QED BY <2>2 DEF z
<1>3. Wrapped(x) = r - Half
  BY DEF Wrapped
<1>4. Wrapped(Wrapped(x) + y) = ((r + y) % m) - Half
  <2>1. ((r - Half) + y) + Half = r + y
    BY <1>1, <1>2
  <2> QED BY <1>3, <2>1 DEF Wrapped
<1>5. Wrapped(x + y) = ((m * q + (r + y)) % m) - Half
  <2>1. (x + y) + Half = m * q + (r + y)
    <3> HIDE DEF m, q, r
    <3>1. m * q \in Int
      BY <1>1, <1>2
    <3> QED BY <1>1, <1>2, <3>1
  <2> QED BY <2>1 DEF Wrapped
<1>6. (m * q + (r + y)) % m = (r + y) % m
  <2> HIDE DEF m, q, r
  <2>1. r + y \in Int
    BY <1>2
  <2> QED BY <1>1, <1>2, <2>1, SameRemainder
<1> QED BY <1>4, <1>5, <1>6

\* Only 0 is left of nothing added up.
LEMMA WrappedZero == Wrapped(0) = 0
<1>1. Half \in Int /\ Half > 0 /\ 0 + Half = Half /\ 2 * Half \in Int /\ 2 * Half > Half
  BY SizeAssumption
<1>2. Half % (2 * Half) = Half
  <2> DEFINE m == 2 * Half
  <2>1. m \in Int /\ m > Half
    BY <1>1
  <2> HIDE DEF m
  <2>2. Half % m = Half
    BY <1>1, <2>1
  <2> QED BY <2>2 DEF m
<1> QED BY <1>1, <1>2 DEF Wrapped

\* A record call leaves the totals of the calls before it alone, and adds its
\* value to those it is part of.
LEMMA TotalStep ==
  ASSUME TypeOK, NEW s \in Series, NEW v \in Values \cup {NaN}, Log(s, v),
         NEW S \in SUBSET Ids, \A id \in S : log[id].value \in Int,
         NEW n, n = NextId
  PROVE  /\ Total(S) \in Int
         /\ Total(S)' = Total(S)
         /\ v \in Int => Total(S \cup {n})' = Total(S) + v
<1> DEFINE T == S \cup {n}
           d == [id \in S |-> log[id].value]
           c == [id \in S |-> log'[id].value]
           e == [id \in T |-> log'[id].value]
<1>1. /\ n \notin S
      /\ \A id \in S : log'[id] = log[id]
      /\ log'[n].value = v
  <2>1. n \notin Ids /\ log'[n] = [series |-> s, value |-> v]
    BY LogStep
  <2>2. \A id \in Ids : log'[id] = log[id]
    BY LogStep
  <2> QED BY <2>1, <2>2
<1>2. IsFiniteSet(S)
  <2>1. IsFiniteSet(Ids)
    BY FS_Interval DEF Ids, TypeOK
  <2> QED BY <2>1, FS_Subset
<1>3. Total(S) = SumOver(d, S) /\ Total(S)' = SumOver(c, S)
  BY DEF Total
<1>4. Total(T)' = SumOver(e, T)
  <2> HIDE DEF T
  <2> QED BY DEF Total
<1>5. d = c /\ (\A id \in S : d[id] \in Int /\ d[id] = e[id]) /\ e[n] = v
  BY <1>1
<1> HIDE DEF c, d, e
<1>6. SumOver(d, S) \in Int /\ SumOver(d, S) = SumOver(e, S)
  BY <1>2, <1>5, SumType, SumSame
<1>7. v \in Int => SumOver(e, T) = SumOver(e, S) + v
  <2> SUFFICES ASSUME v \in Int PROVE SumOver(e, T) = SumOver(e, S) + v
    OBVIOUS
  <2>1. e[n] \in Int /\ \A id \in S : e[id] \in Int
    BY <1>5
  <2> QED BY <1>1, <1>2, <1>5, <2>1, SumAdd
<1> QED BY <1>3, <1>4, <1>5, <1>6, <1>7

-----------------------------------------------------------------------------
(* ValuesAddUp: the inductive invariant.                                   *)

\* A slot, or a metric flushed from one, is made of calls that can be added up,
\* and has the value they add up to.
Adds(m) ==
    CASE Kind[m.key] = "count" ->
            /\ \A id \in m.from : log[id].value \in Int
            /\ m.value = Wrapped(Total(m.from))
      [] Kind[m.key] = "gauge" -> \E id \in Ids : IsSetBy(m, id)
      [] Kind[m.key] = "histogram" -> m.value = Cardinality(m.from)

AllAdd ==
    /\ \A h \in DOMAIN entries : Adds(entries[h])
    /\ \A m \in returned : Adds(m)
    /\ \A f \in Flushers : \A m \in batch[f] : Adds(m)

\* The same, one kind at a time.
LEMMA AddsKinds ==
  ASSUME NEW m, Kind[m.key] \in Kinds
  PROVE  Adds(m) <=>
            /\ Kind[m.key] = "count" =>
                  /\ \A id \in m.from : log[id].value \in Int
                  /\ m.value = Wrapped(Total(m.from))
            /\ Kind[m.key] = "gauge" =>
                  \E id \in Ids : m.from = {id} /\ m.value = log[id].value
            /\ Kind[m.key] = "histogram" => m.value = Cardinality(m.from)
  BY DEF Adds, Kinds, IsSetBy

\* What adds up adds up as AddsUp says.
LEMMA AddsAddsUp ==
  ASSUME NEW m, Kind[m.key] \in Kinds, Adds(m)
  PROVE  AddsUp(m)
<1>1. CASE Kind[m.key] = "count"
  BY <1>1 DEF Adds, AddsUp
<1>2. CASE Kind[m.key] = "gauge"
  <2>1. PICK id \in Ids : m.from = {id} /\ m.value = log[id].value
    BY <1>2 DEF Adds, IsSetBy
  <2>2. (CHOOSE j \in m.from : TRUE) = id
    BY <2>1
  <2> QED BY <1>2, <2>1, <2>2 DEF AddsUp
<1>3. CASE Kind[m.key] = "histogram"
  BY <1>3 DEF Adds, AddsUp
<1> QED BY <1>1, <1>2, <1>3 DEF Kinds

\* A record call changes nothing about the slots made before it.
LEMMA AddsKept ==
  ASSUME TypeOK, NEW s \in Series, NEW v \in Values \cup {NaN}, Log(s, v),
         NEW m \in Entries, Adds(m)
  PROVE  Adds(m)'
<1>1. Kind[m.key] \in Kinds /\ m.from \subseteq Ids
  BY SeriesAssumption DEF Entries
<1>2. Ids \subseteq Ids' /\ \A id \in Ids : log'[id] = log[id]
  BY LogStep
<1>3. Kind[m.key] = "count" => Total(m.from)' = Total(m.from)
  <2> SUFFICES ASSUME Kind[m.key] = "count" PROVE Total(m.from)' = Total(m.from)
    OBVIOUS
  <2>1. m.from \in SUBSET Ids /\ \A id \in m.from : log[id].value \in Int
    BY <1>1, AddsKinds
  <2> QED BY <2>1, TotalStep
<1>4. Kind[m.key] = "count" =>
         /\ \A id \in m.from : log'[id].value \in Int
         /\ m.value = Wrapped(Total(m.from)')
  BY <1>1, <1>2, <1>3, AddsKinds
<1>5. Kind[m.key] = "gauge" =>
         \E id \in Ids' : m.from = {id} /\ m.value = log'[id].value
  BY <1>1, <1>2, AddsKinds
<1>6. Kind[m.key] = "histogram" => m.value = Cardinality(m.from)
  BY <1>1, AddsKinds
<1>7. CASE Kind[m.key] = "count"
  BY <1>4, <1>7 DEF Adds, Wrapped
<1>8. CASE Kind[m.key] = "gauge"
  BY <1>5, <1>8 DEF Adds, IsSetBy
<1>9. CASE Kind[m.key] = "histogram"
  BY <1>6, <1>9 DEF Adds
<1> QED BY <1>1, <1>7, <1>8, <1>9 DEF Kinds

\* A slot that a record call is recorded into adds up again.
LEMMA AddsRecorded ==
  ASSUME TypeOK, NEW s \in Series, NEW v \in Values \cup {NaN}, Log(s, v),
         Kind[s] = "count" => v # NaN,
         NEW old, old.from \subseteq Ids, Kind[old.key] = Kind[s],
         Kind[s] = "gauge" \/ Adds(old),
         NEW e, Kind[e.key] = Kind[s], 
         NEW n, n = NextId,
         e.from = Contributors(Kind[s], old.from, n, v),
         e.value = Recorded(Kind[s], old.value, v)
  PROVE  Adds(e)'
<1>1. /\ Kind[s] \in Kinds
      /\ Ids' = Ids \cup {n} /\ n \notin Ids
      /\ \A id \in Ids : log'[id] = log[id]
      /\ log'[n].value = v
  <2>1. Ids' = Ids \cup {n} /\ n \notin Ids /\ log'[n] = [series |-> s, value |-> v]
    BY LogStep
  <2>2. \A id \in Ids : log'[id] = log[id]
    BY LogStep
  <2> QED BY <2>1, <2>2, SeriesAssumption
<1>2. CASE Kind[s] = "count"
  <2>1. v \in Int /\ e.from = old.from \cup {n} /\ e.value = Wrapped(old.value + v)
    BY <1>2, ValueAssumption DEF Contributors, Recorded
  <2>2. (\A id \in old.from : log[id].value \in Int) /\ old.value = Wrapped(Total(old.from))
    BY <1>2 DEF Adds
  <2>3. \A id \in e.from : log'[id].value \in Int
    BY <1>1, <2>1, <2>2
  <2>4. Total(old.from) \in Int /\ Total(old.from \cup {n})' = Total(old.from) + v
    BY <2>1, <2>2, TotalStep
  <2>5. e.value = Wrapped(Total(old.from) + v)
    BY <2>1, <2>2, <2>4, WrappedAdds
  <2>6. e.value = Wrapped(Total(e.from)')
    <3>1. Total(e.from)' = Total(old.from \cup {n})'
      BY <2>1 DEF Total
    <3> QED BY <2>4, <2>5, <3>1
  <2> QED BY <1>2, <2>3, <2>6 DEF Adds, Wrapped
<1>3. CASE Kind[s] = "gauge"
  <2>1. e.from = {n} /\ e.value = v
    BY <1>3 DEF Contributors, Recorded
  <2> QED BY <1>1, <1>3, <2>1 DEF Adds, IsSetBy
<1>4. CASE Kind[s] = "histogram"
  <2>1. old.value = Cardinality(old.from)
    BY <1>4 DEF Adds
  <2>2. CASE v = NaN
    BY <1>4, <2>1, <2>2 DEF Contributors, Recorded, Adds
  <2>3. CASE v # NaN
    <3>1. e.from = old.from \cup {n} /\ e.value = old.value + 1
      BY <1>4, <2>3 DEF Contributors, Recorded
    <3>2. IsFiniteSet(old.from)
      <4>1. IsFiniteSet(Ids)
        BY FS_Interval DEF Ids, TypeOK
      <4> QED BY <4>1, FS_Subset
    <3>3. Cardinality(e.from) = Cardinality(old.from) + 1
      <4>1. n \notin old.from /\ e.from = old.from \cup {n}
        BY <1>1, <3>1
      <4>2. Cardinality(old.from \cup {n}) = Cardinality(old.from) + 1
        BY <3>2, <4>1, FS_AddElement
      <4> QED BY <4>1, <4>2
    <3> QED BY <1>4, <2>1, <3>1, <3>3 DEF Adds
  <2> QED BY <2>2, <2>3
<1> QED BY <1>1, <1>2, <1>3, <1>4 DEF Kinds

\* A slot that is made for a record call adds up to nothing.
LEMMA AddsFresh ==
  ASSUME TypeOK, NEW s \in Series, Kind[s] # "gauge",
         NEW old, Kind[old.key] = Kind[s], old.from = {}, old.value = Fresh(Kind[s])
  PROVE  Adds(old)
<1>1. old.value = 0 /\ Kind[s] \in {"count", "histogram"}
  BY SeriesAssumption DEF Fresh, Kinds
<1>2. CASE Kind[s] = "count"
  <2>1. IsFiniteSet({}) /\ \A f : SumOver(f, {}) = 0
    BY FS_EmptySet, SumType
  <2>2. Total(old.from) = 0
    BY <2>1 DEF Total
  <2> QED BY <1>1, <1>2, <2>2, WrappedZero DEF Adds
<1>3. CASE Kind[s] = "histogram"
  BY <1>1, <1>3, FS_EmptySet DEF Adds
<1> QED BY <1>1, <1>2, <1>3

\* Record calls keep the sums.
LEMMA AddsRecord ==
  ASSUME IInv, AllAdd, NEW s \in Series, NEW v \in Values \cup {NaN},
         RecordCount(s, v) \/ RecordGauge(s, v) \/ RecordHistogram(s, v)
  PROVE  AllAdd'
<1>1. TypeOK
  BY DEF IInv
<1>2. /\ Log(s, v)
      /\ UNCHANGED <<batch, returned>>
  BY RecordKinds
<1>3. \A m \in Entries : Adds(m) => Adds(m)'
  BY <1>1, <1>2, AddsKept
<1>4. /\ \A m \in returned : Adds(m)'
      /\ \A f \in Flushers : \A m \in batch[f] : Adds(m)'
  BY <1>1, <1>3 DEF AllAdd, TypeOK
<1>5. \A h \in DOMAIN entries : entries[h] \in Entries /\ Adds(entries[h])
  BY <1>1 DEF AllAdd, TypeOK
<1>6. \A m : (\E h \in DOMAIN entries : m = entries[h]) => Adds(m)'
  BY <1>3, <1>5
<1>7. CASE entries' = entries
  <2>1. \A m : (\E h \in DOMAIN entries' : m = entries'[h]) => Adds(m)'
    BY <1>6, <1>7
  <2> QED BY <1>2, <1>4, <2>1 DEF AllAdd, Adds, IsSetBy, Total, Wrapped, Ids
<1>8. ASSUME Kind[s] = "count" => v # NaN,
             NEW p, NEW old, NEW e, RecordedInto(p, old, e, s, v)
      PROVE  AllAdd'
  <2>1. /\ entries' = Put(p, e)
        /\ Kind[e.key] = Kind[s] /\ Kind[old.key] = Kind[s]
        /\ e.from = Contributors(Kind[s], old.from, NextId, v)
        /\ e.value = Recorded(Kind[s], old.value, v)
        /\ p \in DOMAIN entries => old = entries[p]
        /\ p \notin DOMAIN entries => old.from = {} /\ old.value = Fresh(Kind[s])
    BY <1>8 DEF RecordedInto, NewSlot
  <2>2. old.from \subseteq Ids
    BY <1>5, <2>1 DEF Entries
  <2>3. Kind[s] = "gauge" \/ Adds(old)
    <3>1. CASE p \in DOMAIN entries
      BY <1>5, <2>1, <3>1
    <3>2. CASE p \notin DOMAIN entries /\ Kind[s] # "gauge"
      BY <1>1, <2>1, <3>2, AddsFresh
    <3> QED BY <3>1, <3>2
  <2>4. Adds(e)'
    <3> DEFINE n == NextId
    <3>1. n = NextId /\ e.from = Contributors(Kind[s], old.from, n, v)
      BY <2>1
    <3> HIDE DEF n
    <3> QED BY <1>1, <1>2, <1>8, <2>1, <2>2, <2>3, <3>1, AddsRecorded
  <2>5. \A x \in DOMAIN entries' : entries'[x] = e \/ (x \in DOMAIN entries /\ entries'[x] = entries[x])
    BY <2>1 DEF Put
  <2>6. \A m : (\E x \in DOMAIN entries' : m = entries'[x]) => Adds(m)'
    BY <1>6, <2>4, <2>5
  <2> QED BY <1>2, <1>4, <2>6 DEF AllAdd, Adds, IsSetBy, Total, Wrapped, Ids
<1>9. CASE Upsert(s, v) /\ (Kind[s] = "count" => v # NaN)
  BY <1>1, <1>2, <1>7, <1>8, <1>9, UpsertStep
<1> QED BY <1>7, <1>9, RecordKinds

\* The steps that are no record call change nothing about the slots.
LEMMA AddsSame ==
  ASSUME log' = log, NEW m
  PROVE  Adds(m)' <=> Adds(m)
  BY DEF Adds, IsSetBy, Total, Wrapped, Ids

\* A flush moves slots around, and keeps the sums.
LEMMA AddsOther ==
  ASSUME TypeOK, AllAdd,
         \/ \E f \in Flushers : FlushStep(f)
         \/ RawTryRecv \/ RawReceiverDropped \/ UNCHANGED vars
  PROVE  AllAdd'
<1>1. log' = log
  BY OtherStep
<1>2. \A m : Adds(m)' <=> Adds(m)
  BY <1>1, AddsSame
<1>3. /\ \A h \in DOMAIN entries' : h \in DOMAIN entries /\ entries'[h] = entries[h]
      /\ \A m \in returned' : m \in returned \/ \E f \in Flushers : m \in batch[f]
      /\ \A f \in Flushers : \A m \in batch'[f] :
            m \in batch[f] \/ \E h \in DOMAIN entries : m = entries[h]
  <2>1. ASSUME NEW f \in Flushers, FlushStart(f) PROVE UNCHANGED <<entries, batch, returned>>
    BY <2>1 DEF FlushStart
  <2>2. ASSUME NEW f \in Flushers, FlushStripe(f)
        PROVE  /\ \A h \in DOMAIN entries' : h \in DOMAIN entries /\ entries'[h] = entries[h]
               /\ returned' = returned
               /\ \A g \in Flushers : \A m \in batch'[g] :
                     m \in batch[g] \/ \E h \in DOMAIN entries : m = entries[h]
    BY <2>2 DEF FlushStripe, InStripe, TypeOK
  <2>3. ASSUME NEW f \in Flushers, FlushReturn(f)
        PROVE  /\ entries' = entries
               /\ returned' = returned \cup batch[f]
               /\ \A g \in Flushers : batch'[g] \subseteq batch[g]
    BY <2>3 DEF FlushReturn, TypeOK
  <2>4. CASE RawTryRecv \/ RawReceiverDropped \/ UNCHANGED vars
    BY <2>4 DEF RawTryRecv, RawReceiverDropped, vars
  <2>5. CASE \E f \in Flushers : FlushStep(f)
    <3>1. PICK f \in Flushers : FlushStart(f) \/ FlushStripe(f) \/ FlushReturn(f)
      BY <2>5 DEF FlushStep
    <3> QED BY <2>1, <2>2, <2>3, <3>1
  <2> QED BY <2>4, <2>5
<1>4. /\ \A h \in DOMAIN entries' : Adds(entries[h])
      /\ \A m \in returned' : Adds(m)
      /\ \A f \in Flushers : \A m \in batch'[f] : Adds(m)
  BY <1>3 DEF AllAdd
<1>5. \A m : (\E x \in DOMAIN entries' : m = entries'[x]) => Adds(m)'
  BY <1>2, <1>3, <1>4
<1>6. /\ \A m \in returned' : Adds(m)'
      /\ \A f \in Flushers : \A m \in batch'[f] : Adds(m)'
  BY <1>2, <1>4
<1> QED BY <1>5, <1>6 DEF AllAdd, Adds, IsSetBy, Total, Wrapped, Ids

\* Every slot, and every metric flushed from one, has the value its record calls
\* add up to: the sum of the deltas modulo 2^64 as a signed number, the number of
\* observations, the last value of a gauge.
THEOREM ValuesAddUpHolds == Spec => []ValuesAddUp
<1>1. Init => AllAdd
  BY DEF Init, AllAdd
<1>2. IInv /\ AllAdd /\ [Next]_vars => AllAdd'
  <2> SUFFICES ASSUME IInv, AllAdd, [Next]_vars PROVE AllAdd'
    OBVIOUS
  <2> QED BY AddsRecord, AddsOther DEF Next, Record, IInv
<1>3. IInv /\ AllAdd => ValuesAddUp
  <2> SUFFICES ASSUME IInv, AllAdd, NEW m \in Metrics PROVE AddsUp(m)
    BY DEF ValuesAddUp
  <2>1. m \in Entries /\ Adds(m)
    BY DEF Metrics, Slots, IInv, TypeOK, AllAdd
  <2>2. Kind[m.key] \in Kinds
    BY <2>1, SeriesAssumption DEF Entries
  <2> QED BY <2>1, <2>2, AddsAddsUp
<1> QED BY <1>1, <1>2, <1>3, InvInit, InvNext, PTL DEF Spec
=============================================================================
