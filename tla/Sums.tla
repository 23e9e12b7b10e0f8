-------------------------------- MODULE Sums --------------------------------
(* Sums of numbers.                                                        *)
EXTENDS Integers, FiniteSets, Folds

\* The sum of f[x], for the elements x of the finite set S.
SumOver(f, S) ==
    MapThenFoldSet(+, 0, LAMBDA x : f[x], LAMBDA T : CHOOSE x \in T : TRUE, S)
=============================================================================
