----------------------------- MODULE MCUDDSketch -----------------------------
(* Small instances of UDDSketch for TLC.                                    *)
EXTENDS UDDSketch

\* Both signs, an infinity, and neighbours that merge at once and later.  No
\* compaction merges <<-1, 1>>, <<1, 1>> and the infinity: three buckets are enough.
mixedValues == {<<-1, 3>>, <<-1, 4>>, <<1, 1>>, <<1, 4>>, <<1, 5>>, <<1, 99>>}
\* Values, zero, one between them, and the infinity.
mixedBoundaries == {<<-1, 4>>, <<0, 0>>, <<1, 2>>, <<1, 4>>, <<1, 99>>}
\* 1.0 and any larger number.
twoValues == {<<1, 0>>, <<1, 2>>}
=============================================================================
