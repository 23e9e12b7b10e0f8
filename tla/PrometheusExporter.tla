-------------------------- MODULE PrometheusExporter --------------------------
(***************************************************************************)
(* The Prometheus exporter of src/src/export/prometheus.rs at work: one of *)
(* the exporters that the worker of FlushWorker calls.  It keeps the text  *)
(* of its last export, which scrapes read at any moment.  The text is what *)
(* it renders: a set of metrics, whose lines ExportFormats gives.          *)
(***************************************************************************)
EXTENDS FlushWorker, ExportFormats

CONSTANT Prometheus  \* its index among the exporters

\* render cannot fail.  Raw points are left to the trait's default, which
\* drops them.
ASSUME PrometheusAssumption ==
    Prometheus \in 1 .. NumExporters /\ Outcomes[Prometheus] = {"ok"}

VARIABLES
    latest,  \* what get_metrics_text and the holders of text_handle read
    former   \* history: the metrics of the texts before it

pvars == <<fvars, latest, former>>
texts == <<latest, former>>

PInit == FInit /\ latest = {} /\ former = {}

\* Mutant: the new text is appended to the old one.
Appended == latest \cup metrics

\* self.render(metrics)
Rendered == metrics

\* export: the text is replaced, in one step.
PrometheusExports ==
    /\ ExportReturn
    /\ exporter = Prometheus /\ phase = "metrics"
    /\ latest' = Rendered
    /\ former' = former \cup latest

OtherReturns ==
    /\ ExportReturn
    /\ exporter # Prometheus \/ phase = "raw"
    /\ UNCHANGED texts

PNext ==
    \/ PrometheusExports \/ OtherReturns
    \/ ApplicationStep /\ UNCHANGED texts
    \/ WorkerStep /\ UNCHANGED texts
    \/ ExportPanic /\ UNCHANGED texts

PSpec == PInit /\ [][PNext]_pvars
PLiveSpec == PSpec /\ WorkerFairness /\ StopFairness /\ ExporterFairness

-----------------------------------------------------------------------------
\* Of one series a text shows later record calls than any text before it: the
\* counts and observations of a scrape, deltas under the name of a counter
\* (prometheus.rs:111), are never shown again by a later text.  An older value of a
\* gauge is not either, while the table of its stripe has not grown.
Follows(m, n) ==
    \A i \in m.from, j \in n.from :
        i < j \/ (IsGauge(m) /\ (i = j \/ PlacedAnew(m.key)))
TextsInOrder ==
    \A m \in former, n \in latest : m.key = n.key => Follows(m, n)

\* A scrape has no line that may be taken for one of another series, and shows no
\* record call under two metrics, neither of one flush nor of two.  It shows no series
\* twice, while the table of the stripe has not grown: neither two values of a gauge
\* that was set while the flush ran, nor a counter of the last text next to one of this.
ScrapesDistinct ==
    /\ \A m, n \in latest :
          /\ Unmistakable(PrometheusOf, m.key)
          /\ m.key = n.key => m = n \/ PlacedAnew(m.key)
    /\ Apart(latest)

\* A gauge that a scrape shows stays in all later texts, unless it was set to
\* the value that reads as unset.  (Counters and histograms vanish from a text
\* whenever nothing was recorded into them.)
UnsetAfter(m) ==
    \E id \in Ids : log[id] = [series |-> m.key, value |-> NaN] /\ \A i \in m.from : i < id
GaugesStay ==
    [][\A m \in latest : IsGauge(m) =>
          UnsetAfter(m) \/ \E n \in latest' : n.key = m.key]_latest

\* The value of a gauge that is not set again reaches the scrapes, whatever the
\* other exporters answer, unless the worker ends first (prometheus.rs:189 is
\* called for non-empty batches only, and a gauge keeps every batch from being empty).
IsSet(id) == id \in Ids /\ KindOf(id) = "gauge" /\ log[id].value # NaN
SetAgain(id) == \E j \in Ids : j > id /\ log[j].series = log[id].series
GaugesReachScrapes ==
    \A id \in 1 .. MaxRecords :
        IsSet(id) ~> Gone \/ SetAgain(id) \/ \E m \in latest : id \in m.from
=============================================================================
