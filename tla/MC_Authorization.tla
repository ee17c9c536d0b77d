-------------------------- MODULE MC_Authorization --------------------------
EXTENDS Authorization, TLC

Symmetry == Permutations(Required) \cup Permutations(Worker)
=============================================================================
