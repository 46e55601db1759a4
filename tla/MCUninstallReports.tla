------------------------- MODULE MCUninstallReports -------------------------
EXTENDS UninstallReports, TLC

Symmetry == Permutations(AlertIds) \cup Permutations(Handlers) \cup Permutations(Attempts)
=============================================================================
