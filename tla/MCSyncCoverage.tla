--------------------------- MODULE MCSyncCoverage ---------------------------
(* Model-checking instances of SyncCoverage: getters are model values.     *)
EXTENDS SyncCoverage, TLC

Symmetry == Permutations(Getters)
=============================================================================
