------------------------------- MODULE MCScoring -------------------------------
(* Instances of Scoring for TLC.                                           *)
EXTENDS Scoring, TLC

CONSTANTS i1, i2, p1, p2, q

\* Two attempts of p1 on the only problem and one of p2.
ThreeAttempts == {<<p1, q, 1>>, <<p1, q, 2>>, <<p2, q, 1>>}
TwoAttempts == {<<p1, q, 1>>, <<p2, q, 1>>}

\* Bound: three attempts undisturbed, or two with a join or a failure.
FewEvents == Cardinality(sent) <= 2 \/ joins + failures = 0

Symmetry == Permutations(Instances)
===============================================================================
