-------------------------- MODULE MCAdminSessions --------------------------
EXTENDS AdminSessions, TLC

Symmetry == Permutations(Users) \cup Permutations(Tokens) \cup Permutations(Threads)
=============================================================================
