--------------------------- MODULE MCStripedAggMap ---------------------------
(* Small instances of StripedAggMap for TLC.                                *)
EXTENDS StripedAggMap, TLC

\* The hash loses what it loses in the code: `requests' is a leaf name of two
\* namespaces and, as a gauge, of a third; `latency' lives in the other stripe.
collidingSeries == {"http_requests", "grpc_requests", "pool_requests", "latency"}
collidingKind ==
    "http_requests" :> "count" @@ "grpc_requests" :> "count" @@
    "pool_requests" :> "gauge" @@ "latency" :> "histogram"
collidingName ==
    [s \in collidingSeries |-> IF s = "latency" THEN 5 ELSE 0]
noTags == [s \in collidingSeries |-> 0]

\* One more counter shares the stripe of `requests', whose table grows for it.
coreSeries == {"http_requests", "pool_requests", "errors", "latency"}
coreKind ==
    "http_requests" :> "count" @@ "pool_requests" :> "gauge" @@
    "errors" :> "count" @@ "latency" :> "histogram"
coreName ==
    "http_requests" :> 0 @@ "pool_requests" :> 0 @@ "errors" :> 2 @@ "latency" :> 5
coreTags == [s \in coreSeries |-> 0]

\* A gauge and as many counters as fill the first table of the code.
growingSeries == {"connections", "a", "b", "c"}
growingKind == [s \in growingSeries |-> IF s = "connections" THEN "gauge" ELSE "count"]
growingName == "connections" :> 0 @@ "a" :> 1 @@ "b" :> 2 @@ "c" :> 3
growingTags == [s \in growingSeries |-> 0]
=============================================================================
