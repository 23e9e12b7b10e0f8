---------------------------- MODULE StripedAggMap ----------------------------
(***************************************************************************)
(* The aggregation map of src/src/aggregator/striped_map.rs: hash-keyed    *)
(* slots spread over locked stripes.  A record call takes one stripe lock  *)
(* and is one step.  A flush takes the stripe locks one after the other    *)
(* and is one step per stripe, so records and other flushes run between.   *)
(*                                                                         *)
(* Slots are inserted where their combined hash puts them, but a table     *)
(* that grows places the slots it has anew, with the map's own hasher,     *)
(* where a lookup by the combined hash mostly misses them.  A place is the *)
(* combined hash of a slot, with the stripe's epoch at its insertion; the  *)
(* slots of the current epoch are found, older ones only by chance.        *)
(*                                                                         *)
(* Slots carry, next to their value, the set of record calls the value is  *)
(* made of; `log' numbers the record calls in the order of their locks.    *)
(* Both are history: no guard reads them, except the bound MaxRecords.     *)
(***************************************************************************)
EXTENDS Integers, Sequences, FiniteSets, Sums

CONSTANTS
    Series,       \* what is recorded into: a namespace, name, kind and tag set
    Kind,         \* the kind of each series
    NamePtr,      \* the address of the series' metric name
    TagsHash,     \* the macro-generated hash of the series' tag values
    Multiplier,   \* the odd factor of combine_hash
    HashSize,     \* 2^64 in the code
    StripeCount,  \* 64 in the code
    TableRoom,    \* the slots that the first table of a stripe holds: 3
    Half,         \* 2^63 in the code: counters hold -Half .. Half - 1
    Values,       \* the deltas, gauge values and observations recorded
    NaN,          \* the all-ones NaN: unset for a gauge, skipped by a sketch
    Passthrough,  \* TRUE iff raw_sender is Some
    Capacity,     \* capacity of the raw point channel
    Flushers,     \* threads that call flush: the worker, and flush() callers
    MaxRecords    \* bound on the record calls of a behaviour

Kinds == {"count", "gauge", "histogram"}

ASSUME SeriesAssumption ==
    /\ Kind \in [Series -> Kinds]
    /\ NamePtr \in [Series -> Nat]
    /\ TagsHash \in [Series -> Nat]

ASSUME SizeAssumption ==
    /\ Multiplier \in Nat
    /\ HashSize \in Nat \ {0}
    /\ StripeCount \in Nat \ {0}
    /\ TableRoom \in Nat
    /\ Half \in Nat \ {0}
    /\ Capacity \in Nat
    /\ MaxRecords \in Nat

ASSUME ValueAssumption ==
    /\ Values \subseteq Int
    /\ NaN \notin Int
    /\ Passthrough \in BOOLEAN

VARIABLES
    entries,   \* place -> slot, for the slots present in the map
    epoch,     \* stripe -> how often its slots have been placed anew
    cursor,    \* flusher -> the next stripe its flush locks, or Idle
    batch,     \* flusher -> the `flushed' vector of its running flush
    returned,  \* what flush calls have returned
    rawQueue,  \* the raw point channel
    rawOpen,   \* FALSE once the receiver is dropped
    log,       \* history: the record calls, in lock order
    since,     \* history: Len(log) when the running flush began
    refused    \* history: the record calls that were dropped silently

vars == <<entries, epoch, cursor, batch, returned, rawQueue, rawOpen, log, since, refused>>

Idle == -1
Ids == 1 .. Len(log)
NextId == Len(log) + 1

-----------------------------------------------------------------------------
(* Slots: aggregator/count.rs, gauge.rs, histogram.rs.                     *)

\* AtomicI64::fetch_add wraps around.
Wrapped(x) == ((x + Half) % (2 * Half)) - Half

\* A new counter is 0, a new gauge unset, a new sketch empty.
Fresh(kind) == IF kind = "gauge" THEN NaN ELSE 0

\* Mutant: the first value of a gauge wins, a counter saturates.
RecordedSticky(kind, x, v) ==
    CASE kind = "count"     -> IF x + v < Half THEN x + v ELSE Half - 1
      [] kind = "gauge"     -> IF x = NaN THEN v ELSE x
      [] kind = "histogram" -> IF v = NaN THEN x ELSE x + 1

\* A sketch is abstracted to the number of values it holds.
Recorded(kind, x, v) ==
    CASE kind = "count"     -> Wrapped(x + v)
      [] kind = "gauge"     -> v
      [] kind = "histogram" -> IF v = NaN THEN x ELSE x + 1

\* What the slot is made of after the record call id: a gauge forgets what it
\* held, the others add up, and a NaN adds nothing to a sketch.
Contributors(kind, from, id, v) ==
    CASE kind = "count"     -> from \cup {id}
      [] kind = "gauge"     -> {id}
      [] kind = "histogram" -> IF v = NaN THEN from ELSE from \cup {id}

\* The slots whose flush pushes a metric.
Emitted(e) ==
    CASE Kind[e.key] = "count"     -> TRUE
      [] Kind[e.key] = "gauge"     -> e.value # NaN
      [] Kind[e.key] = "histogram" -> e.value > 0

\* Mutant: counters are kept, and not reset.
RetainedCounts(e) == Kind[e.key] \in {"count", "gauge"}

\* Mutant: gauges, too, are removed.
RetainedNone(e) == FALSE

\* `retain' keeps the gauges only.
Retained(e) == Kind[e.key] = "gauge"

-----------------------------------------------------------------------------
(* Keys.  The namespace and the kind of a series are not hashed.           *)

\* Mutant: the name is not mixed in.
CombineHashOfTags(s) == (TagsHash[s] * Multiplier) % HashSize

CombineHash(s) == (TagsHash[s] * Multiplier + NamePtr[s]) % HashSize
StripeOf(h) == h % StripeCount
Stripes == 0 .. StripeCount - 1
Hashes == {CombineHash(s) : s \in Series}

KindOf(id) == Kind[log[id].series]
HashOf(id) == CombineHash(log[id].series)

\* Does the record call id go to the raw channel?
IsRaw(id) == Passthrough /\ KindOf(id) = "histogram"

-----------------------------------------------------------------------------
Init ==
    /\ entries = [p \in {} |-> {}]
    /\ epoch = [i \in Stripes |-> 0]
    /\ cursor = [f \in Flushers |-> Idle]
    /\ batch = [f \in Flushers |-> {}]
    /\ returned = {}
    /\ rawQueue = <<>>
    /\ rawOpen = TRUE
    /\ log = <<>>
    /\ since = [f \in Flushers |-> 0]
    /\ refused = {}

\* Where a slot of hash h is inserted, and where the map has any.
Home(h) == [hash |-> h, epoch |-> epoch[StripeOf(h)]]
At(h) == {p \in DOMAIN entries : p.hash = h}

\* Mutant: a mask that does not fit the number of stripes.
InStripeMisMasked(i) == {p \in DOMAIN entries : p.hash % (StripeCount + 1) = i}

\* Mutant: a mask that is one bit short.
InStripeShort(i) ==
    {p \in DOMAIN entries : p.hash % (StripeCount \div 2) = i % (StripeCount \div 2)}

InStripe(i) == {p \in DOMAIN entries : StripeOf(p.hash) = i}

\* May an insertion find the table full?  The first table has no tombstones: it is
\* full when it holds TableRoom slots.  Of later tables it is left open.
TableFull(i) == IF epoch[i] = 0 THEN {Cardinality(InStripe(i)) >= TableRoom} ELSE BOOLEAN

Put(p, e) == [x \in DOMAIN entries \cup {p} |-> IF x = p THEN e ELSE entries[x]]

NewSlot(s) == [key |-> s, value |-> Fresh(Kind[s]), from |-> {}]
AfterRecord(slot, v) ==
    LET kind == Kind[slot.key]
    IN  [key   |-> slot.key,
         value |-> Recorded(kind, slot.value, v),
         from  |-> Contributors(kind, slot.from, NextId, v)]

\* Occupied: record into the slot, whatever series made it, unless it is of another
\* kind.
RecordAt(p, s, v) ==
    /\ IF Kind[entries[p].key] = Kind[s]
       THEN entries' = Put(p, AfterRecord(entries[p], v)) /\ UNCHANGED refused
       ELSE refused' = refused \cup {NextId} /\ UNCHANGED entries
    /\ UNCHANGED epoch

\* Vacant: insert_hashed_nocheck, which lets a full table grow first.
InsertNew(s, v) ==
    LET h == CombineHash(s)
        i == StripeOf(h)
    IN  /\ \E full \in TableFull(i) : epoch' = [epoch EXCEPT ![i] = IF full THEN @ + 1 ELSE @]
        /\ entries' = Put([hash |-> h, epoch |-> epoch'[i]], AfterRecord(NewSlot(s), v))
        /\ UNCHANGED refused

\* raw_entry_mut().from_hash(..) finds a slot that is where its hash puts it, and may
\* find one that was placed anew.
Upsert(s, v) ==
    LET h == CombineHash(s)
    IN  \/ Home(h) \notin At(h) /\ InsertNew(s, v)
        \/ \E p \in At(h) : RecordAt(p, s, v)

\* try_send: a full or closed channel drops the point.
TrySend(s, v) ==
    IF rawOpen /\ Len(rawQueue) < Capacity
    THEN /\ rawQueue' = Append(rawQueue, NextId)
         /\ UNCHANGED refused
    ELSE /\ refused' = refused \cup {NextId}
         /\ UNCHANGED rawQueue

Log(s, v) ==
    /\ Len(log) < MaxRecords
    /\ log' = Append(log, [series |-> s, value |-> v])

RecordCount(s, v) ==
    /\ Kind[s] = "count" /\ v # NaN
    /\ Log(s, v)
    /\ Upsert(s, v)
    /\ UNCHANGED <<cursor, batch, returned, rawQueue, rawOpen, since>>

RecordGauge(s, v) ==
    /\ Kind[s] = "gauge"
    /\ Log(s, v)
    /\ Upsert(s, v)
    /\ UNCHANGED <<cursor, batch, returned, rawQueue, rawOpen, since>>

RecordHistogram(s, v) ==
    /\ Kind[s] = "histogram"
    /\ Log(s, v)
    /\ IF Passthrough THEN TrySend(s, v) /\ UNCHANGED <<entries, epoch>>
                      ELSE Upsert(s, v) /\ UNCHANGED rawQueue
    /\ UNCHANGED <<cursor, batch, returned, rawOpen, since>>

FlushStart(f) ==
    /\ cursor[f] = Idle
    /\ cursor' = [cursor EXCEPT ![f] = 0]
    /\ since' = [since EXCEPT ![f] = Len(log)]
    /\ UNCHANGED <<entries, epoch, batch, returned, rawQueue, rawOpen, log, refused>>

\* Mutant: one stripe too many.
VisitingPastEnd(f) == cursor[f] \in 0 .. StripeCount

Visiting(f) == cursor[f] \in 0 .. StripeCount - 1

\* One stripe, under its lock.
FlushStripe(f) ==
    LET locked == InStripe(cursor[f])
        removed == {p \in locked : ~Retained(entries[p])}
    IN  /\ Visiting(f)
        /\ batch' = [batch EXCEPT ![f] =
                        @ \cup {entries[p] : p \in {x \in locked : Emitted(entries[x])}}]
        /\ entries' = [p \in DOMAIN entries \ removed |-> entries[p]]
        /\ cursor' = [cursor EXCEPT ![f] = @ + 1]
        /\ UNCHANGED <<epoch, returned, rawQueue, rawOpen, log, since, refused>>

\* Mutant: the last stripe is skipped.
FinishedEarly(f) == cursor[f] = StripeCount - 1

Finished(f) == cursor[f] = StripeCount

FlushReturn(f) ==
    /\ Finished(f)
    /\ returned' = returned \cup batch[f]
    /\ batch' = [batch EXCEPT ![f] = {}]
    /\ cursor' = [cursor EXCEPT ![f] = Idle]
    /\ UNCHANGED <<entries, epoch, rawQueue, rawOpen, log, since, refused>>

\* The owner of the raw receiver (the worker): try_recv, and its drop.
RawTryRecv ==
    /\ rawQueue # <<>>
    /\ rawQueue' = Tail(rawQueue)
    /\ UNCHANGED <<entries, epoch, cursor, batch, returned, rawOpen, log, since, refused>>

RawReceiverDropped ==
    /\ Passthrough /\ rawOpen
    /\ rawOpen' = FALSE
    /\ rawQueue' = <<>>
    /\ UNCHANGED <<entries, epoch, cursor, batch, returned, log, since, refused>>

Record ==
    \E s \in Series, v \in Values \cup {NaN} :
        RecordCount(s, v) \/ RecordGauge(s, v) \/ RecordHistogram(s, v)

FlushStep(f) == FlushStart(f) \/ FlushStripe(f) \/ FlushReturn(f)

Next ==
    \/ Record
    \/ \E f \in Flushers : FlushStep(f)
    \/ RawTryRecv
    \/ RawReceiverDropped

Spec == Init /\ [][Next]_vars

\* Where histograms are aggregated there is no channel, and nobody to receive from it.
AggregatingSpec == Init /\ [][Record \/ \E f \in Flushers : FlushStep(f)]_vars

-----------------------------------------------------------------------------
(* Where the record calls that add up (counts, observations) are.          *)

IsGauge(m) == Kind[m.key] = "gauge"
Sources(M) == UNION {m.from : m \in {n \in M : ~IsGauge(n)}}
Slots == {entries[p] : p \in DOMAIN entries}

IsAdditive(id) ==
    KindOf(id) # "gauge" /\ log[id].value # NaN /\ ~IsRaw(id)
Accepted == {id \in Ids : IsAdditive(id)} \ refused
Pending == Sources(Slots)
Due(f) == IF cursor[f] = Idle THEN {} ELSE {id \in Accepted : id <= since[f]}

\* Only a gauge can be unset.
Entries == {e \in [key : Series, value : Int \cup {NaN}, from : SUBSET Ids] :
               IsGauge(e) \/ e.value \in Int}

\* The map, the running flushes, the raw channel and the histories are well-formed.
TypeOK ==
    /\ epoch \in [Stripes -> Nat]
    /\ DOMAIN entries \subseteq [hash : Hashes, epoch : Nat]
    /\ \A p \in DOMAIN entries : entries[p] \in Entries /\ p.epoch <= Home(p.hash).epoch
    /\ cursor \in [Flushers -> {Idle} \cup 0 .. StripeCount]
    /\ batch \in [Flushers -> SUBSET Entries]
    /\ returned \subseteq Entries
    /\ rawQueue \in Seq(Ids)
    /\ rawOpen \in BOOLEAN
    /\ log \in Seq([series : Series, value : Values \cup {NaN}])
    /\ since \in [Flushers -> 0 .. Len(log)]
    /\ refused \subseteq Ids

\* Every delta and every observation that was not refused is in the map, in
\* the vector of one running flush, or in what one flush returned: in exactly
\* one of them, and there in exactly one slot.  (striped_map.rs flush drains
\* stripe by stripe while records and other flushes go on.)
NoneLost ==
    Accepted = Pending \cup Sources(returned) \cup UNION {Sources(batch[f]) : f \in Flushers}
Apart(M) ==
    \A m, n \in M : m # n /\ ~IsGauge(m) /\ ~IsGauge(n) => m.from \cap n.from = {}
SlotsApart ==
    \A p, q \in DOMAIN entries : p # q /\ ~IsGauge(entries[p]) /\ ~IsGauge(entries[q]) =>
        entries[p].from \cap entries[q].from = {}
NoneTwice ==
    /\ Pending \cap Sources(returned) = {}
    /\ \A f \in Flushers :
          /\ Sources(batch[f]) \cap (Pending \cup Sources(returned)) = {}
          /\ \A g \in Flushers \ {f} : Sources(batch[f]) \cap Sources(batch[g]) = {}
    /\ SlotsApart /\ Apart(returned) /\ \A f \in Flushers : Apart(batch[f])
ExactlyOnce == NoneLost /\ NoneTwice

\* When a flush has visited a stripe, nothing recorded into that stripe before
\* the flush began is left there (count and histogram slots).
FlushCovers ==
    \A f \in Flushers : \A id \in Due(f) :
        StripeOf(HashOf(id)) < cursor[f] => id \notin Pending

GaugeSets(h) == {id \in Ids \ refused : KindOf(id) = "gauge" /\ HashOf(id) = h}
IsSetBy(m, id) == m.from = {id} /\ m.value = log[id].value
HoldsLast(p) ==
    \E id \in GaugeSets(p.hash) :
        IsSetBy(entries[p], id) /\ \A j \in GaugeSets(p.hash) : j <= id

\* A gauge's slot holds the last value set.  (gauge.rs:6, gauge.rs:23: "last-writer-wins";
\* the test at striped_map.rs:279 finds one slot after two values are set.)
LastWriterWins == \A p \in DOMAIN entries : IsGauge(entries[p]) => HoldsLast(p)

\* What holds instead: some slot of every gauge that was set holds the last value set,
\* and while the stripe's slots have not been placed anew, each does.  A flush that has
\* visited a gauge's stripe returns a value that is not older than the last one set before
\* the flush began (unless that value reads as unset).
LastValueKept ==
    /\ \A h \in Hashes : GaugeSets(h) # {} =>
          \E p \in At(h) : IsGauge(entries[p]) /\ HoldsLast(p)
    /\ \A p \in DOMAIN entries :
          IsGauge(entries[p]) /\ Home(p.hash).epoch = 0 => HoldsLast(p)
    /\ \A f \in Flushers, h \in Hashes :
          \A j \in {id \in GaugeSets(h) : StripeOf(h) < cursor[f] /\ id <= since[f]} :
             \E id \in GaugeSets(h) :
                /\ j <= id
                /\ log[id].value = NaN \/ \E m \in batch[f] : IsSetBy(m, id)

\* The sum of the values that the record calls of S recorded.
Total(S) == SumOver([id \in S |-> log[id].value], S)

\* Every slot, and every metric flushed from one, has the value its record
\* calls add up to: the sum of the deltas modulo 2^64 as a signed number, the
\* number of observations, the last value of a gauge.
AddsUp(m) ==
    m.value = CASE Kind[m.key] = "count" -> Wrapped(Total(m.from))
                [] Kind[m.key] = "gauge" -> log[CHOOSE id \in m.from : TRUE].value
                [] Kind[m.key] = "histogram" -> Cardinality(m.from)
Metrics == Slots \cup returned \cup UNION {batch[f] : f \in Flushers}
ValuesAddUp == \A m \in Metrics : AddsUp(m)

\* A metric is made of records of the series (namespace, name, tags) it is
\* reported as.  Holds when combine_hash tells the series apart; it hashes the
\* address of the name and the tag values, and no namespace.
OwnSeries ==
    \A m \in Metrics : \A id \in m.from : log[id].series = m.key

\* No record into the map is dropped because another kind of metric has its
\* hash (record_count, record_gauge and record_histogram drop it silently).
NoneMistaken == \A id \in refused : IsRaw(id)

\* The map implements the abstract aggregation, whatever the hash does.
Abstract == INSTANCE Aggregation WITH
    Calls     <- 1 .. MaxRecords,
    accepted  <- Accepted,
    pending   <- Pending,
    running   <- {f \in Flushers : cursor[f] # Idle},
    due       <- [f \in Flushers |-> Due(f)],
    held      <- [f \in Flushers |-> Sources(batch[f])],
    delivered <- Sources(returned)
\* ... as a property.
AbstractSpec == Abstract!Spec

-----------------------------------------------------------------------------
(* What makes ExactlyOnce and FlushCovers inductive.                       *)

\* A slot, and a metric flushed from it, is made of calls of its hash and kind.
MadeOf(m) ==
    \A id \in m.from :
        /\ HashOf(id) = CombineHash(m.key)
        /\ KindOf(id) = Kind[m.key]
Origins ==
    \A p \in DOMAIN entries : CombineHash(entries[p].key) = p.hash /\ MadeOf(entries[p])
\* A slot whose flush emits nothing holds nothing.
SilentSlots ==
    \A p \in DOMAIN entries : Kind[entries[p].key] = "histogram" =>
        /\ entries[p].value >= 0
        /\ entries[p].value = 0 => entries[p].from = {}
IdleHoldsNothing == \A f \in Flushers : cursor[f] = Idle => batch[f] = {}

\* The inductive invariant of record_* and flush.
IInv == /\ TypeOK /\ Origins /\ SilentSlots /\ IdleHoldsNothing
        /\ ExactlyOnce /\ FlushCovers
=============================================================================
