# chalk-metrics in TLA+

chalk-metrics aggregates metrics inside a process and exports them from a
background thread. This directory holds TLA+ modules translated from its Rust
source, TLC configurations that check them on small instances, and TLAPS proofs
of every safety property and refinement that their passing runs check, for every
value of the constants. Line numbers refer to `src/` of the repository.

## 1. The system

| Component | Code | State it keeps | Operations |
|---|---|---|---|
| Aggregation map | `aggregator/striped_map.rs` | 64 locked stripes of slots keyed by a 64-bit hash; the sender of the raw point channel | `record_count`, `record_gauge`, `record_histogram`, `flush` |
| Slots | `aggregator/{count,gauge,histogram}.rs` | an atomic `i64`; the bits of an `f64` or "unset"; a locked sketch | `record`, `flush` |
| Quantile sketch | `aggregator/sketch.rs` | a hash map of logarithmic buckets linked in increasing order, the number of compactions and of values | `add_value`, `merge_sketch`, `compact_buckets`, `estimate_quantile`, `estimate_quantile_at_value` |
| Flush worker | `worker.rs` | the loop's position, the metrics and raw points of the pass | tick, notified, flush and export, drain and export |
| Client | `client.rs` | `GLOBAL`, `SHUTDOWN_CALLED`, the handler at exit; per client the notification and the worker's handle | `try_init`/`init`, `build_local`, `record_*`, `flush`, `shutdown` |
| Exporter interface | `export/mod.rs` | none | `export`, `export_raw_points` |
| StatsD exporter | `export/statsd.rs` | socket, last seen inode, line buffer | `export`, `export_raw_points`, reconnection |
| Prometheus exporter | `export/prometheus.rs` | the last rendered text | `export`, `get_metrics_text`, `text_handle` |
| Definition macros | `chalk-metrics-macros`, `macros.rs`, `private.rs` | none (compile time) | `define_tags!`, `define_namespaces!` and `define_metrics!` generate the structs that call `record_*` with a hash of their tags and their exported pairs |
| Built-in definitions | `generated.rs` | none | three tags, three namespaces, six metrics |

How they interact. Application threads call `record_*`; each call takes the lock
of one stripe and records into one slot, or, when histograms are not aggregated,
sends a point to a bounded channel without waiting. The worker wakes on an
interval or on the notification of `shutdown()`, calls `flush`, which empties
the map stripe by stripe, hands the vector to the exporters one after the other,
then drains the raw channel and hands out those points. The last pass, after the
notification, is the same pass. `shutdown()` notifies, takes the join handle out
of a mutex and joins with the mutex held. The global client adds a flag that
lets one `shutdown()` through, and a handler that calls it at exit.

What is hard. A flush is not atomic: records and other flushes go on between its
stripes. A slot is found by a hash that leaves out the namespace and the kind,
and a table that grows loses sight of the slots it has.
The notification meets the worker anywhere in a pass. Exporters fail, panic or
hang. Several threads shut down, initialise and exit at the same time. The
sketch's list must survive compactions that leave gaps, and its loop must end.
The socket that the StatsD exporter is connected to is replaced under it. The
Prometheus text outlives the batch that it renders. What the macros hash of a
struct and what the exporters write of it are two different things, and both
have to tell it from every other struct.
`PROJECT.json` lists these hazards at their lines.

What makes each component correct:

- map: every record that is accepted is exported by exactly one flush, under its
  own series, with the values added up; a flush covers what came before it; the
  last value of a gauge is in the map and in what a flush returns;
- sketch: sorted list, counts that match the values, ranks that match the
  counts, a bounded number of buckets, an end to every loop;
- worker: a complete last pass, exporters independent of each other's errors,
  raw points in order and once;
- client: one client per process, a `shutdown()` that returns after the last
  export and not before, unless an exporter has panicked, an exit that exports
  and ends;
- StatsD: lines batched whole and in order, datagrams that follow the path;
- Prometheus: texts that go forward, gauges that stay, bucket lines between what
  is surely below a boundary and what may be;
- definitions: one slot per struct, and no line that may be taken for one of
  another struct.

## 2. Modules

    Aggregation       <- StripedAggMap (implements it)
    MetricDefinitions <- BuiltinMetrics
    StripedAggMap, BuiltinMetrics <- ExportFormats
    StripedAggMap <- FlushWorker
    FlushWorker, ExportFormats <- PrometheusExporter
    ClientPromise <- FlushWorker, ClientLifecycle (both implement it)

`UDDSketch` and `StatsdExporter` stand for themselves. Every `MC*` module only adds the
constants of its configurations. `Sums` has the sum over a finite set, in the
form in which it can be reasoned about. Every `*_proofs` module extends the
module it is about, and `InductionTheorems` is what they all rest on (section 4). Definitions marked "Mutant" are the broken
variants that the mutation entries of `PROJECT.json` put in place of the
definition below them, to show that each property notices a bug.

**Aggregation** says what the map promises about counts and observations,
without hashes, slots or stripes: a set of pending calls from which flushes take,
and a flush that returns only when nothing it has to cover is pending.

**StripedAggMap** is the map. `entries` is the union of the stripes: a slot lies at a
place, which is its combined hash (which determines the stripe) and the `epoch`
of the stripe when it was inserted. The code inserts a slot under its combined hash
(`insert_hashed_nocheck`, striped_map.rs:93) into a `HashMap` with a hasher of
its own, and hashbrown uses that hasher to place all slots of a table anew when
it grows. So `InsertNew` into a full table (`TableFull`) begins a new epoch, and
a lookup (`Upsert`) finds the slot of the current epoch; one of an earlier epoch
it may find, as chance has it, or miss, and then the series gets a second slot.
The first table holds `TableRoom` slots (3 in the code, of 4 buckets) and no
tombstones, so it is full exactly then; when later ones are is left open.
`FlushStripe` visits every slot, whatever its epoch, as `retain` does. `RecordCount`, `RecordGauge` and `RecordHistogram` are
the three functions, each one step because it holds one lock; `FlushStart`,
`FlushStripe` and `FlushReturn` are `flush`, one step per lock. `CombineHash` is
`combine_hash` with the word size as a constant; namespace, name, kind and tags
together are a member of `Series`, and the constants `NamePtr` and `TagsHash` say
what the hash sees of it. Slots also carry the calls that their value is made of
(`from`), and `log` lists all calls in lock order: history that no guard reads.
A sketch is the number of its values. `RawTryRecv` and `RawReceiverDropped` are
the receiver's side of the channel, which belongs to the worker. `Spec` has
both; `AggregatingSpec`, of the runs `map_*`, is what it comes to where histograms are
aggregated. In the runs of `FlushWorker` they are parts of `DrainOne`, `Break` and
`ExportPanic`.

**FlushWorker** extends it with the worker's thread (`wpc`), the exporters and the
callers of `MetricsClient::shutdown` and `MetricsClient::flush`. The two
branches of `select!` are `Tick` and `Notified`; the permit of `Notify` is a
Boolean, as tokio stores one. An exporter's call and the end of its future are
two steps, with everything else in between. A panic unwinds `block_on`, ends
the thread and drops the receiver. What an exporter was called with (`seen`) is
history; a batch that equals the one before it, as gauges alone make them,
is noted once, so that a worker that keeps ticking has finitely many states.

**MetricDefinitions** is the three macros: a tag type with its variants, a
reference to it (optional, renamed), a group whose arguments come in any order,
and for each metric the fields of its struct, what a derived `Hash` feeds the
hasher (`Hashed`) and what `export_pairs` returns (`ExportPairs`). The derived
hash of an enum is its discriminant, of a string its bytes, of an option its
discriminant and what it holds; neither the metric nor the keys are hashed.
**BuiltinMetrics** is `generated.rs`, one definition per tag, namespace and
group, and the constants that `StripedAggMap` takes, computed for any set of
structs: the kind, the address of the name (equal literals have one), the hash
(the hasher itself is taken to be injective on what is fed to it).

**ExportFormats** gives the lines that the StatsD and the Prometheus exporter write for a
metric, each reduced to what it names: the parts of its name, its tags, a percentile label
or a bucket boundary. The underscore that Prometheus joins name parts with also
separates the words inside a part, so a name is there the sequence of its words;
StatsD keeps the parts apart.

**PrometheusExporter** is the worker of `FlushWorker` with the Prometheus exporter as
one of its exporters: `export` replaces the text in one step (a write lock),
and a scrape reads `latest` at any moment. `former` is the history of texts.

**ClientPromise** says what a client promises, without map, worker, channel, mutex or
flags: what it accepts is handed to its exporters or taken by a `flush()` of
the application, not both; its worker ends in order only after `shutdown()` was
called and all that had been accepted by then has left; `shutdown()` returns only
when the worker has ended or failed. `FlushWorker` implements it
with a client in full, `ClientLifecycle` with each of its clients (`PromiseSpec` in
both). That both do is no statement about one another: `ClientLifecycle` has fewer
behaviours of a worker than `FlushWorker` (section 5).

**ClientLifecycle** is the global client. The map of a client is the set of records
pending in it, and a pass of its worker two steps, the flush (`WorkerPass`,
`WorkerLastPass`) and the end of the exporters: all have returned (`PassDone`), or
one has panicked (`ExporterPanics`), which ends the thread with the batch and all
that is pending unexported. What is modelled in full is `try_init` (build, set,
register), the flag, the handler, and the end of the process, which takes every
thread with it. An exporter that calls `shutdown()` itself (`ExporterShutdown`) joins
its own thread: the join panics (the worker ends as `panicked`, and others that join it
return) or never returns (`stuck`); both end the worker's passes.

**UDDSketch** is the sketch. A value is its sign and its bucket index in a sketch
that was never compacted; a compaction squares gamma, so the index after c
compactions is the index divided by 2^c, rounded up (`KeyOf`). The code
computes the logarithm anew for every value; that the two agree to the last bit of floating
point is an assumption of the model. `SketchHashMap` is kept as it is: keys,
counts, links, head. The loop that ends `add_value` and `merge_sketch` is one
step per round, so that a loop without end is a behaviour. `Flush` is
`HistogramSlot::flush`, which moves the sketch out and starts a new one, at
compaction level 0, which the next merge has to notice. `TwiceAtValue` is
`estimate_quantile_at_value` (doubled, to keep its halves integers) and
`BucketCounts` and `Cumulative` what the Prometheus exporter makes of it.

**StatsdExporter** is `build`, `send_lines` and `send_buffer`, with the agents that
bind, open, rename and leave the socket's path as steps of the environment. A
line is its length. A new socket gets an inode of its own or one that has been freed.

## 3. Runs

| Run | Instance | Shows |
|---|---|---|
| `map_core` | 4 series (a counter and a gauge share a hash, another counter their stripe), 2 stripes with room for one slot before they grow, 2 flushers, 3 records, counters -2..1, values 1 and NaN | `ExactlyOnce`, `FlushCovers`, `LastValueKept`, `ValuesAddUp`, `IInv` (which includes `TypeOK`), `AbstractSpec` (the refinement of `Aggregation`) |
| `map_own` | the 18 structs that the built-in definitions have with one string, a prefix and a default tag, 2 stripes with room for one slot, histograms aggregated, 1 flusher, 2 records | `OwnSeries`, `NoneMistaken`, `LinesDistinct` |
| `map_namespaces` | 4 series (three of which share a hash), 2 stripes, 1 flusher, 2 records | violation of `OwnSeries` |
| `map_regrown` | a gauge and 3 counters in one stripe with the room of the code, 5 records | violation of `LastWriterWins` |
| `worker_safety` | 2 exporters (ok, error, panic), raw channel of one place, worker and one `flush()` caller, 2 callers of `shutdown()`, 2 records | `FTypeOK`, `FinalFlush`, `ErrorsIsolated`, `RawInOrder`, `NoEarlyReturn`, `HandedOnce`, `PromiseSpec` (the refinement of `ClientPromise`) |
| `worker_raw` | an exporter that fails or panics and one after it, a counter in the map and a histogram in a raw channel of one place, 2 callers of `shutdown()`, 2 records | `ShutdownReturns`, `EventuallyExported` |
| `worker_live` | an exporter that fails or panics, the Prometheus exporter after it, a counter and a gauge of the built-in definitions in a stripe with room for one slot, 1 caller of `shutdown()`, 3 records | `TextsInOrder`, `ScrapesDistinct`, `GaugesStay`, `GaugesReachScrapes` |
| `life_all` | 3 threads that initialise, record, shut down and exit, exporters that may panic or call `shutdown()`, 2 records | `SingleClient`, `FinalFlush`, `AutomaticIfNotAsked`, `ExitEnds`, `PromiseSpec` |
| `sketch_ops` | 2 sketches of at most 3 buckets, 6 values, 6 added in all, 5 bucket boundaries | `TypeOK`, `ListInOrder`, `CountsMatch`, `Bounded`, `QuantileIsRank`, `BucketsBracket`, `LoopTerminates` |
| `sketch_tiny` | 1 sketch of 1 bucket, values 1.0 and larger | violation of `LoopTerminates` |
| `statsd_renamed` | lines of length 1, 2 and 6, at most 3, buffer of 5; 3 sockets renamed to the path when open, with new or freed inodes | `TypeOK`, `Batched`, `ReachesThePath`, `Reconnects` |
| `statsd_inplace` | 1 socket bound at the path before it is open | violation of `Reconnects` |

Why the bounds are enough. Three records and two flushes over two stripes cover
a record before, between and behind both flushes in the same or the other
stripe; three additions overflow a counter of two bits both in one slot and
across a flush. With `TableRoom` 1 three records are enough for a slot, another one that
makes the table grow, and a second slot of the first series; `map_regrown` does it
with the room of the code. In the worker every pair of a record and a position of the pass
occurs, with the raw channel full, and two callers of `shutdown()` are enough to
contend for the mutex. Three threads let two race in `try_init` while the third
exits. In the sketch six values let one be compacted twice and then merged with
one that was not; `MaxRounds` is so large that no bucket changes any more when
it is reached. Three sockets allow two replacements in one `send_buffer`,
and an inode that is freed by the first and used again by the third. The 18
structs of `map_own` are all that the definitions have up to the content of
their strings, and two records let every pair of them meet; what goes to the raw channel
is made of the same series. `worker_live` has batches
of gauges alone, which repeat for ever, and of both kinds, and three records, so
that one text follows another, and a gauge has two slots in the batch of one
text. `worker_raw` keeps to the other half of a pass: batches that are empty while raw points
wait, with the channel full or not. In `life_all` two records, before and after a
pass, tell what a panic loses from what has been exported.
The boundaries of `sketch_ops` include values of the sketch, values between
them and values outside them.
The bounds are the constants `TableRoom` (3 in the code), `MaxRecords`, `MaxValues`, `MaxRounds`,
`MaxLines` and `MaxBinds`; of the others the code has none.

Deadlock is checked where the system cannot stop (`map_*`, `statsd_*`): flushes
and exports go on for ever, whatever the bound on what is recorded.
Elsewhere the runs end: all threads have returned and the worker has left
(`worker_*`), the process is dead (`life_*`), or the bound on values is reached
(`sketch_*`).

Fairness. `worker_raw` and `worker_live` assume that the worker's thread runs (`WF` of its own
steps and of `Tick`: the interval keeps ticking) and that a notification which is
there at every wake is taken at some (`SF` of `Notified`: `select!` polls its
branches in random order); that threads inside `shutdown()` run; and that
exporters return or panic. `PLiveSpec` says this of the composition with the
Prometheus exporter. The safety runs assume nothing: there an exporter may hang for ever. `life_all` assumes that threads inside a call run, that exporters return or panic
(`WF` of `PassDone`), and that a notified worker comes to its last pass (`SF` of
`WorkerLastPass`, as above), nothing of callers. `sketch_*` assume that the thread that holds the lock runs,
`statsd_*` that the worker keeps exporting; agents owe nothing.

### What the violations say

- `map_namespaces`: `combine_hash` (striped_map.rs:237) mixes the address of the
  leaf name and the hash of the tag values. Two metrics that share the literal
  and the tags in two namespaces share a slot, and what is recorded
  into the second is reported as the first. Metrics of different kinds share it
  too; then records are dropped. (README.md:202 leaves duplicate *exported*
  names to the user; these have different exported names.)
- `map_regrown`: the fourth slot of a stripe makes its first table grow, and the slots
  it had are no longer where `from_hash` looks for them (striped_map.rs:111). The
  next set of the gauge makes a second slot; the first one keeps the outdated
  value and is flushed beside it for ever. gauge.rs:6 and :23 promise
  last-writer-wins, and the test at striped_map.rs:279, with a single series,
  finds one slot. Counts and observations are not affected: `retain` visits
  every slot, and what two slots hold adds up. `map_core` shows both.
- `sketch_tiny`: indices 0 and 1, signs, zero and infinity never merge, so the
  loop at sketch.rs:213 does not end when `max_buckets` is smaller than what is left.
- `statsd_inplace`: `last_inode` is stored before the connection is tried
  (statsd.rs:263), so a failed one is not tried again.

Three more places where the code does not do what is written of it were met while
modelling, and have no run of their own. export/mod.rs:98 says that exporters are
called concurrently; worker.rs:69 calls them in turn on one task, so that one that
hangs holds up the others (liveness is only claimed for exporters that return or
panic). A `shutdown()` before `init` sets the flag (client.rs:182), and there is
no shutdown at exit any more, which README.md:335 promises
(`AutomaticIfNotAsked` is for applications that never call it). An exporter's
panic ends the worker (worker.rs:72); the next `shutdown()` joins it, discards the
error (client.rs:170) and returns without the final flush of client.rs:164
(`FinalFlush` and `AutomaticIfNotAsked` name the panic as the exception).

## 4. Proofs

Each theorem is `Spec => []P`, for the specification of its module and the
property `P` that a run checks, unless it says otherwise.

| Module | For every | Theorems |
|---|---|---|
| `StripedAggMap_proofs` | set of series, assignment of names, tag hashes and kinds, number of stripes and flushers, room of their tables, width of a counter, both modes of histograms | `TypeCorrect`, `ExactlyOnceHolds`, `FlushCoversHolds`, `InvHolds`, `LastValueKeptHolds`, `ValuesAddUpHolds`; `Refinement`: `Spec => AbstractSpec`, the implementation of `Aggregation`; `OwnSeriesHolds`, if `CombineHash` is injective; `NoneMistakenHolds`, if series of different kinds have different hashes |
| `ExportFormats_proofs` | the same, and tags, metrics, prefixes, default tags, percentiles and boundaries | `HashTellsStructs` and `PairsTellStructs`, about the structs of any metric; `SeriesReadable`; `StructsKeptApart`: `OwnSeries` and `NoneMistaken`, if `HashTells` and `LeafNamesDiffer`; `LinesDistinctHolds`, if `Distinguishable` |
| `FlushWorker_proofs` | number of exporters, each with any outcomes, of `flush()` callers and of stoppers, capacity of the raw channel | `ClientRefinement`: `FSpec => AbstractSpec`; `FTypeCorrect`, `NoEarlyReturnHolds`, `ErrorsIsolatedHolds`, `RawInOrderHolds`, `FinalFlushHolds`, `HandedOnceHolds`; `PromiseHolds`: `FSpec => PromiseSpec` |
| `PrometheusExporter_proofs` | the same, and place of the exporter among the others | `ClientOfPrometheus`: `PSpec => FSpec`; `TextsInOrderHolds`; `ScrapesDistinctHolds`, if `Distinguishable`; `GaugesStayHolds` (an action property), if `CombineHash` is injective |
| `ClientLifecycle_proofs` | number of threads and records, choice of calls | `TypeCorrect`, `SingleClientHolds`, `FinalFlushHolds`, `AutomaticIfNotAskedHolds`; `PromiseHolds`: `Spec => PromiseSpec` |
| `UDDSketch_proofs` | number of sketches, values, boundaries and buckets, number of compactions | `TypeCorrect`, `ListInOrderHolds`, `CountsMatchHolds`, `BoundedHolds`, `QuantileIsRankHolds`, `BucketsBracketHolds` |
| `StatsdExporter_proofs` | lines, buffer size, number of sockets and inodes | `TypeCorrect`, `BatchedHolds`; `ReachesThePathHolds`, unless agents bind in place |

The assumptions on the constants are those of the modules. They type the
constants, keep NaN apart from the numbers and `Nobody` and `Unset` apart from
threads; TLC evaluates them in every run. The hypotheses that some theorems add
are about what the code does not control: hashes that collide (without them
`OwnSeries` fails, as `map_namespaces` shows), definitions that share names, keys or
variants, and sockets that are bound at the path before they listen
(`statsd_inplace`). TLC evaluates those about definitions and hashes for
`generated.rs`: `LeafNamesDiffer` and `Distinguishable` in `map_own`, `HashTells` in
`worker_live`.

**Induction and sums.** The library states induction with an operator as
parameter, which the provers cannot instantiate. `InductionTheorems` states it
with sets in the place of predicates (`NatSetInduction`: a set with 0 that is closed
under successor holds all naturals; `SubsetInduction`, for subsets of a finite
set), existence by recursion with functions in the place of operators
(`RecursionExists`), and from these that `SumOver` adds up whichever element is
taken first (`SumAdd`, `SumUnion`, `SumPlus`, `SumNat`). Recursive functions and
sums can so be proved about; `RECURSIVE` operators cannot.

**The map.** `ExactlyOnce` is not inductive: `FlushStripe` throws away the
slots it does not emit, and puts what it emits into a batch that need not be
empty. That a hash may have several slots changes nothing of this: `SlotsApart`
says that no two of them share a call. `IInv` adds what is missing: `Origins` (a slot sits under the hash of its
key, and the calls in it have that hash and its kind, so that a call's stripe
is known from the slot it is in), `SilentSlots` (a histogram slot that emits
nothing holds nothing) and `IdleHoldsNothing` (a flush starts with an empty
vector). `FlushCovers` is part of it: a flush that has passed a stripe has all
that was due there, and new calls are not due. Each action has one lemma on its
effect, in terms of the places where calls are (`PendingUpsert`, `RecordEffect`,
`FlushStartEffect`, `FlushStripeEffect`, `FlushReturnEffect`), and one that
derives `IInv'` from it; the refinement uses the same effects, step by step:
a record call is `Accept` or a stutter, `FlushStart` is `Begin`, `FlushStripe` is
`Take`, `FlushReturn` is `Return`. TLC checks `IInv` in `map_core`.

**Its values.** `LastValueKept` has three parts, which `GInv` keeps together with one
more: `SomeHolds` (some slot of a gauge that was ever set holds the last
call that set it), `FirstHolds` (every slot does, in the first table of a stripe),
`TakenLast` (a flush beyond the stripe has a value no older than the last one
set before it began) and `EachSet` (a gauge's slot holds a value that was set, so
that one placed anew holds an older one, and not an invented one). While a table
has not grown, a slot is where a lookup finds it; afterwards, a set makes or
finds some slot, and that one holds the last value. `ValuesAddUp` is stated with a sum; `Adds` says it of one slot, and
a record call adds one element to the set that is summed, modulo the counter's
width.

**Definitions.** The hash of a struct and its exported pairs are sequences put
together from its fields, without a mark between the parts. `HashTellsStructs` says
that the first still determines the struct: the codes of two values of a field,
`None` included, differ at a place that both have (`Diverge`, `FieldTells`), so that
none is the beginning of the other, and what is put together of such codes tells them (`CodesApart`).
`PairsTellStructs` says it of the second, from keys that are distinct and variants whose
strings are: a pair that is there in one struct is missed, or is another, in the
other. `SeriesReadable` adds names, suffixes, percentiles and boundaries, and the default
tags. What they need is in the hypotheses, all about constants: `LeafNamesDiffer` (no two
metrics have one leaf name, which the code does not check), `HashTells` (64
bits suffice), `Distinguishable` (`NamesApart`, `KeysApart`, `ValuesApart`,
`LabelsApart`). `StructsKeptApart` is then `OwnSeriesHolds` and `NoneMistakenHolds`
for what the macros generate. `LinesDistinct` also needs `BatchOnce`: a flush's vector
has a series once, and none whose stripe is still to come, unless its stripe has
grown its table (`PlacedAnew`, `Regrown`), which once true stays true.

**Inside a client.** `MapStep` shows that every step of the worker, the exporters
and the callers is a step of the map or none, so that all theorems about the map
are theorems about the client, the implementation of `Aggregation` included
(`ClientRefinement`; TLC checks that one on the map alone).

- `NoEarlyReturn` needs to know why the handle is gone: `StopInv` says that then
  the worker has ended or a caller is joining, and that who joins holds the
  mutex, so that the next caller to see an empty handle comes after the join.
- `ErrorsIsolated` speaks of the time between passes. `Lockstep` says what holds
  inside one: the exporters that have been called are ahead of the others by
  this one batch or these points.
- `RawInOrder`: the points an exporter was handed, those on their way to it, and
  the channel form one sequence (`Stream`), which is increasing, and while the
  worker lives is all that was sent (`RawInv`).
- `FinalFlush` joins three facts. `Cover`: the flush of the last pass begins after
  `shutdown()` was called, and after it nothing of what was accepted before is
  pending (by `FlushCovers`). `Handed`: what flushes have returned has been
  handed to each exporter, is about to be, or went to a `flush()` of the
  application (with `ExactlyOnce`, there is no other place). `RawCover`: the same
  for the points of the channel.
- `HandedOnce` says that no call is handed to one exporter twice, nor to an exporter and
  to a `flush()` of the application. `Once` is inductive: what an exporter
  has got, what it is to get in this pass and what `flush()` callers got are apart, and
  were all returned by flushes, so that (`ExactlyOnce`) no later flush has them.
- `PromiseHolds` maps every step to a step of `ClientPromise` or to none: `FInv` joins
  the invariants above, so that what the exporters have been handed is what `Work`
  may hand out (`HandedOnce`), and what is owed has left when the worker exits
  (`FinalFlush`).

**Prometheus.** `Chain` orders the texts that were shown, the one shown, the batch on
its way, the vector of the running flush, and the slots: each shows calls that
come after those of the one before, gauges in a stripe that has grown its table
(`PlacedAnew`) excepted: one of their slots may be outdated. A flush by somebody else
only removes links. `ScrapesDistinct` follows the batch of a pass from the flush (`BatchOnce`)
through the exporters to the text (`PassOnce`, `BatchPerSeries`). For `GaugesStay` three parts are kept together: gauges in texts and
batches were really set (`Known`), before the worker's flush began (`Recent`), and
the batch of a pass has every gauge of the text again (`Refound`), because by
`GInv` some slot of a gauge stays and a flush finds it.

**The client's life.** The invariant has these parts. `Racing` ties GLOBAL to the one
thread that registers or has succeeded, and every map in use to GLOBAL.
`Accounted` says where each record is: pending, in the batch of a pass, which a
panic leaves there, or exported. `OneStops` says that the flag lets one
thread through, `Covered` that what it has to wait for is in the batch of the last pass,
and exported when the worker has ended; without `OneStops` a second notification
could follow the end of the worker. `Owed` and `MainAlone` describe an exit: while nobody calls
`shutdown()` but the handler, only Main can be inside it, and the process can
die only after its join; that is the end of the worker in order, or a panic. `PromiseHolds` is about each client, that of a
failed `try_init` included, whose worker is never notified and so never ends in order.

**The sketch.** `SketchInv` ties the hash map to the values added. `Linked`
replaces the walk by a fact about each bucket: `head` is the least key, and `next`
of a bucket the least key above its own. `WalkAll` and `ListedSorted` show by
induction on the walk that the list is then the sorted keys (`Sorted`). `Holds` adds that
the buckets are the keys with a positive count, and have that count; `Counted`
is the count that the values give a key. Every operation is then a lemma on counts: `IncreasedHolds`
adds to one key, `CompactHolds` adds up the keys that become one,
`MergedHolds` (an induction on the walk through the other sketch) adds two counts. `KeyOfCompacted` says
that compacting a key is rounding the value's index once more, from
`RoundUpTwice`: an index rounded up to a multiple of w and then of 2w. The queries
rest on `CountOfValues`: the counts at some places of the list are a sum over the
values whose keys stand there. `BucketsBracket` also needs that keys keep
the order of the boundaries through compactions (`KeyOfOrder`).

The proof corrected the model's assumption on indices. In TLC's instance `MaxRounds` is
where `compactions` stops to grow, which is sound only if no index changes any
more by then; an index of exactly -2^(MaxRounds - 1), which `SketchAssumption`
used to admit, still does. With the corrected bound any finite set of values has
a `MaxRounds`, so that nothing is lost in the theorems.

**StatsD.** `Batched` does not say what the buffer holds. `Packed` does: it fits, and
began with the line for which there was no place in the last datagram; when it
is empty, the next line is that line. `InStep` says that a buffer on its way to the
socket is full or the last one, and that nothing stays from one export to the next.
`LinesOf` and `Length` are a recursion and a sum, of which the proof needs what
one more datagram (`LinesOfAppend`) and one more line (`LengthAppend`) make of them.
`ReachesThePath` rests on `Bound` (what is at the path has been
opened, and `lastInode` is that of the socket that was there when it was
stored) and `Connected`: outside a reconnection, if the socket last seen is still
at the path and lives, the exporter is connected to it. The second fails when a socket
is bound before it listens.

### Only model-checked

- Liveness (`ShutdownReturns`, `EventuallyExported`, `GaugesReachScrapes`, `ExitEnds`,
  `LoopTerminates`, `Reconnects`): the prover does not handle `ENABLED`.
- That the hashes of concrete structs tell them apart (`HashTells`): TLC evaluates it
  with the model's word size; of the hash function in use nothing is known.

## 5. Not modelled

- Characters: what a name, a tag or a number looks like in a line, HELP and TYPE
  lines, escapes. `ExportFormats` keeps what a line names. Its strings are
  given by their identity, not their content.
- Floating point: `sum`, `min`, `max`, the logarithm, the rank of a quantile and the
  value of a bucket in the sketch, and with them its error bounds.
- Bucket boundaries that are not sorted: `Cumulative` is the running maximum of the
  code for boundaries in increasing order, as the default ones are.
- Of the macros, the Python wrappers, descriptions and syntax errors. The hasher
  is taken to be injective on what is fed to it; the model's combination of the
  two hashes is the code's.
- How hashbrown places slots. A growing table places its slots anew, and whether a
  later lookup meets one is left open at every lookup, though in the code the same slot is met
  or missed until the table grows again. When a later table is full
  depends on its size and tombstones and is left open too.
- In `ClientLifecycle`, what `FlushWorker` has in detail: a flush of its clients is one step,
  with neither stripes nor raw channel, the exporters of a pass are one step too, and no
  exporter hangs other than in a `shutdown()` of its own; the mutex of the handle, which
  only the one caller that the flag lets through takes; `flush()` callers and
  `MetricsClient::shutdown` of a local client.
- An exporter's panic other than in a future that is awaited, and a panic of the
  worker's own code.
- One name with two addresses, as a compiler may give a literal in two codegen
  units: a series would have two slots, and be exported twice in a batch.
- `make_tags`, which runs under the stripe's lock and is taken to return.
- An exporter that calls `exit`; a reader that keeps the lock of the text.
- A drain of the raw channel that never ends because records keep coming in:
  the bound on records ends it.
- The multi-threaded runtime (`worker_threads`) changes nothing: `block_on` polls
  one task.
- Benchmarks, examples and tests, which are clients of the library.

## 6. State of the project

Modelled, checked and proved: the map, the worker composed with it, the definitions and what the
exporters write of them, the Prometheus exporter composed with the worker, the
client's life, with exporters that panic, the abstract client that worker and life both implement, the
sketch with the flush of its slot, the StatsD exporter with reused inodes.

Left: names with two addresses (one series in two slots), and boundaries that
are not sorted.
