--------------------------- MODULE MCStatsdExporter ---------------------------
(* Small instances of StatsdExporter for TLC.                               *)
EXTENDS StatsdExporter

\* With a buffer of 5: the second joined to itself fills it exactly (2 + 1 + 2),
\* and the third never fits.
threeSizes == {1, 2, 6}
=============================================================================
