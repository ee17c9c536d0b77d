---------------------------- MODULE MC_Challenge ----------------------------
EXTENDS Challenge, TLC

Symmetry == Permutations(ChallengeId) \cup Permutations(Key)
=============================================================================
