------------------------- MODULE MCPrometheusExporter -------------------------
(* A small instance of PrometheusExporter for TLC.                          *)
EXTENDS PrometheusExporter

\* A counter and a gauge of the built-in definitions, in one stripe: with room for one
\* slot, its table grows for the second, and the next call makes a third.
countAndGauge ==
    {[metric |-> "HttpRequestCount", fields |-> <<Some("a"), Some("Success")>>],
     [metric |-> "HttpActiveConnections", fields |-> <<Some("a"), None>>]}
fewKind == KindOfStruct(countAndGauge)
fewName == NameAddress(countAndGauge)
fewTags == HashOfStruct(countAndGauge)

failingFirst == <<{"ok", "err", "panic"}, {"ok"}>>

noPrefix == None
noTags == <<>>
defaultPercentiles == <<500, 900, 950, 990>>
fewBoundaries == <<5, 1000>>

\* What StructsKeptApart and GaugesStayHolds assume of the hash is true here.
ASSUME HashAssumption == HashTells
=============================================================================
