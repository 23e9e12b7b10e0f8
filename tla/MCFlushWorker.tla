---------------------------- MODULE MCFlushWorker ----------------------------
(* Small instances of FlushWorker for TLC.                                  *)
EXTENDS FlushWorker, TLC

\* A counter and a histogram, in stripes of their own.
smallSeries == {"requests", "latency"}
smallKind == "requests" :> "count" @@ "latency" :> "histogram"
smallName == "requests" :> 1 @@ "latency" :> 0
smallTags == [s \in smallSeries |-> 0]

anyOutcome == [i \in 1 .. 2 |-> {"ok", "err", "panic"}]
failingFirst == <<{"ok", "err", "panic"}, {"ok"}>>
=============================================================================
