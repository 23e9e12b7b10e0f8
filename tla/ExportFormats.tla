----------------------------- MODULE ExportFormats -----------------------------
(***************************************************************************)
(* Flushes of macro-generated metrics, and the lines that the StatsD and   *)
(* Prometheus exporters write for what a flush returns (src/src/export/    *)
(* statsd.rs, prometheus.rs).  A line is what it names: the parts that its *)
(* name is joined from, and its tags.  Values are left out, except that a  *)
(* quantile and a bucket boundary are part of what a line names.           *)
(***************************************************************************)
EXTENDS StripedAggMap, BuiltinMetrics

CONSTANTS
    Prefix,       \* the exporter's namespace, as an Option
    DefaultTags,  \* default_tags of the StatsD exporter
    Distribution, \* TRUE iff the histogram_mode is Distribution
    Percentiles,  \* those of the other mode, in 1/1000
    Boundaries    \* bucket_boundaries, in increasing order, in 1/1000

ASSUME FormatsAssumption ==
    /\ Prefix \in Seq(Words)
    /\ DefaultTags \in Seq(STRING \X STRING)
    /\ Distribution \in BOOLEAN
    /\ Percentiles \in Seq(0 .. 1000)
    /\ Boundaries \in Seq(Int)

Line(name, tags) == [name |-> name, tags |-> tags]

\* full_name, before the parts are joined, by dots or by underscores.
FullName(metric) == Prefix \o metric.namespace \o <<metric.name>>

Pairs(s) == ExportPairs(Definition[s.metric], s.fields)

-----------------------------------------------------------------------------
(* StatsD                                                                  *)

\* Mutant: percentiles are cut to tens.
PercentileDecile(p) == <<"p", ToString(p \div 100)>>

\* The label of a percentile is rounded to a whole one.
PercentileLabel(p) == <<"p", ToString((p + 5) \div 10)>>

\* The default tags come first, and stay also under a key that the metric has.
FormatTags(pairs) == DefaultTags \o pairs

\* send_metrics for one metric, and send_raw_points for one point, which is
\* written as a distribution.  A name and its suffix are joined by a dot.
StatsdLines(s) ==
    LET name == FullName(Definition[s.metric])
        tags == FormatTags(Pairs(s))
        suffixes == <<<<"count">>, <<"avg">>>> \o
                    [i \in DOMAIN Percentiles |-> PercentileLabel(Percentiles[i])]
    IN  IF Kind[s] = "histogram" /\ ~Passthrough /\ ~Distribution
        THEN [i \in DOMAIN suffixes |-> Line(Append(name, suffixes[i]), tags)]
        ELSE <<Line(name, tags)>>

-----------------------------------------------------------------------------
(* Prometheus                                                              *)

\* Parts are joined by the character that separates the words.
Joined(parts) == FlattenSeq(parts)

\* Both forms of a boundary are as long as they must be to tell it from others.
FormatLe(boundary) == ToString(boundary)

\* render, for one metric.
PrometheusLines(s) ==
    LET name == Joined(FullName(Definition[s.metric]))
        tags == Pairs(s)
        Bucket(le) == Line(Append(name, "bucket"), Append(tags, <<"le", le>>))
    IN  CASE Kind[s] = "count" -> <<Line(Append(name, "total"), tags)>>
          [] Kind[s] = "gauge" -> <<Line(name, tags)>>
          [] Kind[s] = "histogram" ->
                [i \in DOMAIN Boundaries |-> Bucket(FormatLe(Boundaries[i]))] \o
                <<Bucket("+Inf"), Line(Append(name, "sum"), tags), Line(Append(name, "count"), tags)>>

-----------------------------------------------------------------------------
(* What a reader of the lines can tell                                     *)

StatsdOf == [s \in Series |-> StatsdLines(s)]
PrometheusOf == [s \in Series |-> PrometheusLines(s)]
KeysDistinct(tags) == IsInjective([i \in DOMAIN tags |-> tags[i][1]])

\* None of the lines of s names what another of them, or a line of another
\* series, names, or has two tags of one key.
Unmistakable(lines, s) ==
    /\ IsInjective(lines[s])
    /\ \A t \in Series \ {s} : Range(lines[s]) \cap Range(lines[t]) = {}
    /\ \A line \in Range(lines[s]) : KeysDistinct(line.tags)

\* The series that no reader takes for another one.
Readable == {s \in Series : Unmistakable(StatsdOf, s) /\ Unmistakable(PrometheusOf, s)}

\* The stripe of s has grown its table, and may hold s in several slots.
PlacedAnew(s) == Home(CombineHash(s)).epoch # 0

\* What the exporters write for a flush or for raw points has no line that may be
\* taken for one of another series, and names no series twice while the table of its
\* stripe has not grown: a struct has one slot, its stripe is visited once, and what
\* tells structs apart in the map is exported of them.  (striped_map.rs:93, 129, 176:
\* a table that grows loses slots, and their series get second ones.)
LinesDistinct ==
    /\ \A f \in Flushers : \A m, n \in batch[f] :
          m.key \in Readable /\ (m.key = n.key => m = n \/ PlacedAnew(m.key))
    /\ \A k \in DOMAIN rawQueue : log[rawQueue[k]].series \in Readable

-----------------------------------------------------------------------------
(* What OwnSeries takes of the definitions, and of the hash.               *)

\* No two metrics have one leaf name, whatever their namespaces are.
LeafNamesDiffer == \A m, n \in Definitions : m.name = n.name => m = n

\* combine_hash confuses neither names nor what the hasher is fed with.
HashTells ==
    \A s, t \in Series : CombineHash(s) = CombineHash(t) =>
        LET m == Definition[s.metric]
            n == Definition[t.metric]
        IN  m.name = n.name /\ Hashed(m, s.fields) = Hashed(n, t.fields)

-----------------------------------------------------------------------------
(* What LinesDistinct takes of the definitions.                            *)

\* No two tags of a metric have one key, nor one of them and a tag that an
\* exporter adds.
KeysApart(metric) ==
    LET keys == [i \in DOMAIN metric.tags |-> <<ExportKey(metric.tags[i])>>]
    IN  /\ KeysDistinct(FormatTags(keys))
        /\ metric.kind = "histogram" => KeysDistinct(Append(keys, <<"le">>))

\* No two variants of a tag are exported as one string.
ValuesApart(ty) ==
    IsEnum(ty) => IsInjective([i \in DOMAIN Variants(ty) |-> Variants(ty)[i][2]])

\* No two metrics write a line of one name.
NamesOf(lines, s) == {line.name : line \in Range(lines[s])}
NamesApart(lines) ==
    \A s, t \in Series :
        s.metric # t.metric => NamesOf(lines, s) \cap NamesOf(lines, t) = {}

\* Rounding leaves no two percentiles, and no two boundaries, the same.
LabelsApart ==
    /\ IsInjective([i \in DOMAIN Percentiles |-> PercentileLabel(Percentiles[i])])
    /\ IsInjective([i \in DOMAIN Boundaries |-> FormatLe(Boundaries[i])])
    /\ \A i \in DOMAIN Boundaries : FormatLe(Boundaries[i]) # "+Inf"

\* The series are structs of the definitions, and the definitions, the prefix and
\* the options of the exporters keep them apart.
Distinguishable ==
    /\ Series \subseteq Structs /\ Kind = KindOfStruct(Series)
    /\ \A metric \in Definitions :
          KeysApart(metric) /\ \A i \in DOMAIN metric.tags : ValuesApart(metric.tags[i].ty)
    /\ NamesApart(StatsdOf) /\ NamesApart(PrometheusOf) /\ LabelsApart
=============================================================================
