---------------------------- MODULE MCRegistration ----------------------------
(* Instances of Registration for TLC.                                      *)
EXTENDS Registration, TLC

CONSTANTS g1, g2, g3, g4, e1, e2

\* Every request comes from g1, and only g1 chooses members.
FromG1 == [q \in Requests |-> g1]
OneRoster == [g \in Guilds |-> IF g = g1 THEN Users ELSE {}]

Symmetry ==
    Permutations({g2, g3, g4}) \cup Permutations({e1, e2})
    \cup Permutations(Handlers)
===============================================================================
