-------------------------- MODULE MCViewingAccess --------------------------
EXTENDS ViewingAccess, TLC

Symmetry == Permutations(Endpoints) \cup Permutations(Sessions) \cup Permutations(Threads)
=============================================================================
