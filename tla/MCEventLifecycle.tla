--------------------------- MODULE MCEventLifecycle ---------------------------
(* Small instances of EventLifecycle.                                      *)
EXTENDS EventLifecycle, TLC

Symmetry == Permutations(Instances)
===============================================================================
