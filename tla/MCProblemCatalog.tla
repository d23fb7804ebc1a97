--------------------------- MODULE MCProblemCatalog ---------------------------
(* Instances of ProblemCatalog for TLC.                                    *)
EXTENDS ProblemCatalog, TLC

CONSTANTS t1, t2

\* An easy problem about t1, a hard one about both: an update changes both.
TwoContents ==
    {[difficulty |-> 1, tags |-> {t1}], [difficulty |-> 2, tags |-> {t1, t2}]}

OneOfEach ==
    <<[difficulty |-> 1, count |-> 1], [difficulty |-> 2, count |-> 1]>>

Symmetry ==
    Permutations(Handlers) \cup Permutations(Problems) \cup Permutations(Names)
===============================================================================
