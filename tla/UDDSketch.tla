------------------------------ MODULE UDDSketch ------------------------------
(***************************************************************************)
(* The quantile sketch of src/src/aggregator/sketch.rs, the slot that it   *)
(* lives in (histogram.rs), and what the exporters ask it: a hash map of   *)
(* logarithmic buckets threaded into a list in increasing order, compacted *)
(* while it has too many buckets.  A value is abstracted to its sign and   *)
(* the bucket index it has in a sketch that was never compacted.  Adding a *)
(* value and merging run under the slot's lock; the compaction loop they   *)
(* end in is one step per round, so that a loop without end can be seen.   *)
(***************************************************************************)
EXTENDS Integers, Sequences, FiniteSets, FiniteSetsExt, Sums

CONSTANTS
    Sketches,    \* the sketches: those of slots, and others
    Values,      \* the values added: <<sign, index>>
    Boundaries,  \* bucket_boundaries of the Prometheus exporter, likewise
    MaxBuckets,  \* max_buckets
    MaxIndex,    \* i64::MAX: the index of an infinite value
    MaxValues,   \* bound on the values of a behaviour
    MaxRounds    \* bound on `compactions', of which the last two alternate: so
                 \* large that by then every index has become 0 or 1, and no
                 \* compaction changes anything any more

Zero == <<0, 0>>
Invalid == <<2, 0>>
\* Negative(i), Zero and Positive(i), with i an i64.
Keys == {k \in {-1, 0, 1} \X Int : k[2] <= MaxIndex /\ (k[1] = 0 => k = Zero)}

\* Every round squares gamma: a bucket is then twice as wide, in logarithms.
Width[c \in Nat] == IF c = 0 THEN 1 ELSE 2 * Width[c - 1]

ASSUME SketchAssumption ==
    /\ MaxBuckets \in Nat /\ MaxIndex \in Nat \ {0}
    /\ MaxValues \in Nat /\ MaxRounds \in Nat \ {0}
    /\ IsFiniteSet(Sketches) /\ IsFiniteSet(Values) /\ Values \cup Boundaries \subseteq Keys
    /\ \A v \in Values \cup Boundaries :
          v[2] = MaxIndex \/ v[2] \in 1 - Width[MaxRounds - 1] .. Width[MaxRounds - 1]

VARIABLES
    sketch,   \* the sketches
    growing,  \* the sketches inside the loop that ends add and merge
    added     \* history: sketch -> value -> how often it is in it

vars == <<sketch, growing, added>>

-----------------------------------------------------------------------------
(* Keys                                                                    *)

\* partial_cmp: Negative (reversed) < Zero < Positive < Invalid.
Less(k, l) ==
    \/ k[1] < l[1]
    \/ k[1] = l[1] /\ k[1] = -1 /\ l[2] < k[2]
    \/ k[1] = l[1] /\ k[1] = 1 /\ k[2] < l[2]

\* Mutant: an integer division that rounds to minus infinity.
HalvedDown(x) == x \div 2

\* (x + 1) / 2 above zero, x / 2 (towards zero) below: both round up.
Halved(x) == (x + 1) \div 2

Indexed(k) == k[1] \in {-1, 1} /\ k[2] # MaxIndex
CompactKey(k) == IF Indexed(k) THEN <<k[1], Halved(k[2])>> ELSE k

\* The key of v in a sketch compacted c times: the logarithm of v to its base is
\* 2^c times smaller, and rounded up.
KeyOf(v, c) ==
    IF Indexed(v) THEN <<v[1], (v[2] + (Width[c] - 1)) \div Width[c]>> ELSE v

-----------------------------------------------------------------------------
(* SketchHashMap: map is key -> [count, next], head the first key.         *)

Empty == [map |-> [k \in {} |-> {}], head |-> Invalid]

\* A walk along the links: the n-th key after the head, Invalid past the last.
Walk(m) ==
    LET link == [k \in DOMAIN m.map \cup {Invalid} |-> IF k = Invalid THEN k ELSE m.map[k].next]
        walk[n \in Nat] == IF n = 0 THEN m.head ELSE link[walk[n - 1]]
    IN  walk

\* The keys it meets.
Listed(m) ==
    LET walk == Walk(m)
    IN  [i \in {n \in 1 .. Cardinality(DOMAIN m.map) : walk[n - 1] # Invalid} |-> walk[i - 1]]

\* Mutant: the list is not searched.
BeforeUnsearched(m, key) == m.head

\* The last key the loop of `entry' passes on its way to key.
Before(m, key) ==
    LET keys == Listed(m)
        passed == CHOOSE n \in 1 .. Len(keys) :
                     /\ \A i \in 1 .. n : Less(keys[i], key)
                     /\ n = Len(keys) \/ ~Less(keys[n + 1], key)
    IN  keys[passed]

With(map, k, e) == [j \in DOMAIN map \cup {k} |-> IF j = k THEN e ELSE map[j]]

\* entry: a missing key is linked in front of the head, or after Before.
Entry(m, key) ==
    IF key \in DOMAIN m.map THEN m
    ELSE IF Less(key, m.head)
    THEN [head |-> key, map |-> With(m.map, key, [count |-> 0, next |-> m.head])]
    ELSE LET p == Before(m, key)
             linked == [m.map EXCEPT ![p].next = key]
         IN  [m EXCEPT !.map = With(linked, key, [count |-> 0, next |-> m.map[p].next])]

\* Mutant: a bucket that was not there is made, and left empty.
IncreasedIfThere(m, key, n) ==
    IF key \in DOMAIN m.map THEN [m EXCEPT !.map[key].count = @ + n] ELSE Entry(m, key)

Increased(m, key, n) == [Entry(m, key) EXCEPT !.map[key].count = @ + n]

\* The new link of a new bucket, seen from its first old key: past the second
\* old key, if there is one.
NewNext(m, k) ==
    LET n == m.map[k].next
    IN  IF CompactKey(n) = CompactKey(k) THEN CompactKey(m.map[n].next) ELSE CompactKey(n)

Compact(m) ==
    LET keys == Listed(m)
        met == {keys[i] : i \in DOMAIN keys}
        Old(k) == {j \in met : CompactKey(j) = k}
        First(k) == CHOOSE i \in DOMAIN keys :
                       /\ CompactKey(keys[i]) = k
                       /\ \A j \in 1 .. i - 1 : CompactKey(keys[j]) # k
    IN  [head |-> CompactKey(m.head),
         map  |-> [k \in {CompactKey(j) : j \in met} |->
                     [count |-> SumOver([j \in met |-> m.map[j].count], Old(k)),
                      next  |-> NewNext(m, keys[First(k)])]]]

\* The buckets of o, in the order of the walk, are counted in those of m.
Merged(m, o) ==
    LET keys == Listed(o)
        merged[i \in Nat] ==
            IF i \in DOMAIN keys
            THEN Increased(merged[i - 1], keys[i], o.map[keys[i]].count) ELSE m
    IN  merged[Len(keys)]

-----------------------------------------------------------------------------
(* UDDSketch                                                               *)

New == [buckets |-> Empty, compactions |-> 0, num |-> 0]

CompactBuckets(s) ==
    [s EXCEPT !.buckets = Compact(@),
              !.compactions = IF @ < MaxRounds THEN @ + 1 ELSE MaxRounds - 1]

CompactedTo(s, c) ==
    LET compacted[i \in Nat] == IF i = 0 THEN s ELSE CompactBuckets(compacted[i - 1])
    IN  compacted[c - s.compactions]

Init ==
    /\ sketch = [x \in Sketches |-> New]
    /\ growing = {}
    /\ added = [x \in Sketches |-> [v \in Values |-> 0]]

NumAdded(x) == SumOver(added[x], Values)
NumAll == SumOver([x \in Sketches |-> NumAdded(x)], Sketches)

WithValue(s, v) ==
    [s EXCEPT !.buckets = Increased(@, KeyOf(v, s.compactions), 1), !.num = @ + 1]

\* add_value, up to its loop; num_values, which the code raises after the loop,
\* is raised with the count.  (A NaN returns at once and is left out.)
AddValue(x, v) ==
    /\ growing = {}
    /\ NumAll < MaxValues
    /\ sketch' = [sketch EXCEPT ![x] = WithValue(@, v)]
    /\ added' = [added EXCEPT ![x][v] = @ + 1]
    /\ growing' = {x}

\* Mutant: the sketches are merged as they are.
Unlevelled(s, c) == s

Levelled(s, c) == IF s.compactions < c THEN CompactedTo(s, c) ELSE s

WithSketch(s, o) == [s EXCEPT !.buckets = Merged(@, o.buckets), !.num = @ + o.num]

\* merge_sketch, up to its loop: both are compacted to the same level first.
MergeSketch(x, y) ==
    /\ growing = {} /\ x # y /\ sketch[y].num > 0
    /\ NumAll + NumAdded(y) <= MaxValues
    /\ IF sketch[x].num = 0
       THEN sketch' = [sketch EXCEPT ![x] = sketch[y]] /\ growing' = {}
       ELSE LET s == Levelled(sketch[x], sketch[y].compactions)
                o == Levelled(sketch[y], sketch[x].compactions)
            IN  /\ sketch' = [sketch EXCEPT ![x] = WithSketch(s, o)]
                /\ growing' = {x}
    /\ added' = [added EXCEPT ![x] = [v \in Values |-> @[v] + added[y][v]]]

\* Mutant: the loop goes on when there are just as many buckets as allowed.
TooManyIfAll(n) == n >= MaxBuckets

\* Mutant: the loop stops one bucket late.
TooManyButOne(n) == n > MaxBuckets + 1

TooMany(n) == n > MaxBuckets

NumBuckets(x) == Cardinality(DOMAIN sketch[x].buckets.map)

\* while self.buckets.len() > self.max_buckets { self.compact_buckets() }
CompactRound(x) ==
    /\ x \in growing /\ TooMany(NumBuckets(x))
    /\ sketch' = [sketch EXCEPT ![x] = CompactBuckets(@)]
    /\ UNCHANGED <<growing, added>>

LoopEnds(x) ==
    /\ x \in growing /\ ~TooMany(NumBuckets(x))
    /\ growing' = growing \ {x}
    /\ UNCHANGED <<sketch, added>>

\* HistogramSlot::flush, under the lock: the slot's sketch is cloned, to y, and
\* replaced with a new one.
Flush(x, y) ==
    /\ growing = {} /\ x # y
    /\ sketch' = [sketch EXCEPT ![x] = New, ![y] = sketch[x]]
    /\ added' = [added EXCEPT ![x] = [v \in Values |-> 0], ![y] = added[x]]
    /\ UNCHANGED growing

Next == \E x \in Sketches :
    \/ \E v \in Values : AddValue(x, v)
    \/ \E y \in Sketches : MergeSketch(x, y) \/ Flush(x, y)
    \/ CompactRound(x) \/ LoopEnds(x)

Spec == Init /\ [][Next]_vars
\* The thread that holds the slot's lock goes on.
LiveSpec == Spec /\ WF_vars(\E x \in Sketches : CompactRound(x) \/ LoopEnds(x))

-----------------------------------------------------------------------------
(* Queries                                                                 *)

\* The counts of the buckets at the places I of the list.
CountOf(m, I) ==
    LET keys == Listed(m)
    IN  SumOver([i \in I |-> m.map[keys[i]].count], I)

\* Mutant: the rank starts at zero.
RankFromZero(remaining, below) == remaining < below

Reached(remaining, below) == remaining <= below

\* estimate_quantile, for the rank `remaining' it computes from the quantile:
\* the last key, or the first one the counts up to which reach the rank.  No
\* such key is the code's unreachable!().
EstimateQuantile(s, remaining) ==
    LET keys == Listed(s.buckets)
        hits == {i \in DOMAIN keys : Reached(remaining, CountOf(s.buckets, 1 .. i))}
    IN  IF remaining >= s.num
        THEN IF keys = <<>> THEN Zero ELSE keys[Len(keys)]
        ELSE IF hits = {} THEN Invalid ELSE keys[Min(hits)]

\* Mutant: the key is that of a sketch that was never compacted.
TargetOfNew(s, v) == v

Target(s, v) == KeyOf(v, s.compactions)

\* estimate_quantile_at_value, times twice the number of values: the buckets
\* below that of v, and half of its own.
TwiceAtValue(s, v) ==
    LET keys == Listed(s.buckets)
        target == Target(s, v)
        below == {i \in DOMAIN keys : Less(keys[i], target)}
    IN  2 * CountOf(s.buckets, below)
        + IF target \in DOMAIN s.buckets.map THEN s.buckets.map[target].count ELSE 0

\* Prometheus, render: that fraction times the count, rounded.  A half is
\* rounded up, unless its floating point is a little less: up is 1 or 0.
BucketCounts(s, up) == [le \in Boundaries |-> (TwiceAtValue(s, le) + up) \div 2]

\* Mutant: the counts, each of which counts from below, are added up.
AddedUp(counts, le) == SumOver(counts, {b \in Boundaries : ~Less(le, b)})

\* ... and the greatest of those so far, the boundaries being in order.
Cumulative(counts, le) == Max({counts[b] : b \in {x \in Boundaries : ~Less(le, x)}})

-----------------------------------------------------------------------------
\* A bucket that exists counts something, under a key that is not Invalid.
TypeOK ==
    /\ growing \in SUBSET Sketches
    /\ added \in [Sketches -> [Values -> Nat]]
    /\ \A x \in Sketches :
          /\ sketch[x].num \in Nat /\ sketch[x].compactions \in Nat
          /\ \A k \in DOMAIN sketch[x].buckets.map :
                k \in {-1, 0, 1} \X Int /\ sketch[x].buckets.map[k].count \in Nat \ {0}

\* The links visit every bucket once, in increasing order of the values, also
\* after any mix of compactions and merges.
ListInOrder ==
    \A x \in Sketches :
        LET keys == Listed(sketch[x].buckets)
        IN  /\ {keys[i] : i \in DOMAIN keys} = DOMAIN sketch[x].buckets.map
            /\ \A i \in 2 .. Len(keys) : Less(keys[i - 1], keys[i])

\* A bucket counts exactly the values that would be put into it now: values
\* added before a compaction or a merge and after it end up together.
CountsMatch ==
    \A x \in Sketches :
        LET In(k) == {v \in Values : KeyOf(v, sketch[x].compactions) = k}
            map == sketch[x].buckets.map
        IN  /\ \A v \in Values : added[x][v] > 0 => KeyOf(v, sketch[x].compactions) \in DOMAIN map
            /\ \A k \in DOMAIN map : map[k].count = SumOver(added[x], In(k))

\* Between operations a sketch has no more buckets than it may.
Bounded == \A x \in Sketches \ growing : NumBuckets(x) <= MaxBuckets

\* The estimate for a rank is the bucket of the value of that rank, and
\* unreachable!() is not reached.
NotAbove(x, k) == {v \in Values : ~Less(k, KeyOf(v, sketch[x].compactions))}
RankOf(x, k) == SumOver(added[x], NotAbove(x, k))
QuantileIsRank ==
    \A x \in Sketches \ growing : \A r \in 1 .. sketch[x].num + 1 :
        sketch[x].num > 0 =>
            LET k == EstimateQuantile(sketch[x], r)
            IN  /\ k # Invalid
                /\ RankOf(x, k) >= r \/ RankOf(x, k) = sketch[x].num
                /\ \A l \in DOMAIN sketch[x].buckets.map : Less(l, k) => RankOf(x, l) < r

\* The line of a Prometheus bucket counts every value of a lower bucket than that
\* of its boundary and no value of a higher one, also after compactions have
\* widened the buckets, and whichever way halves are rounded.
Below(x, k) == {v \in Values : Less(KeyOf(v, sketch[x].compactions), k)}
BucketsBracket ==
    \A x \in Sketches \ growing : \A up \in {0, 1} :
        LET counts == BucketCounts(sketch[x], up)
        IN  \A le \in Boundaries :
              LET k == KeyOf(le, sketch[x].compactions)
              IN  Cumulative(counts, le) \in
                    SumOver(added[x], Below(x, k)) .. RankOf(x, k)

\* Adding and merging return.  (The loop has no end when more buckets than
\* max_buckets are left that a compaction maps to themselves.)
LoopTerminates == growing # {} ~> growing = {}
=============================================================================
