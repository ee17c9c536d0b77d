---------------------------- MODULE MC_Delivery ----------------------------
EXTENDS Delivery, TLC

Symmetry == Permutations(AttemptId) \cup Permutations(Worker)
=============================================================================
