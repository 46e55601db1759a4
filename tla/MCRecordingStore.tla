-------------------------- MODULE MCRecordingStore --------------------------
EXTENDS RecordingStore, TLC

Symmetry == Permutations(Files) \cup Permutations(Hosts) \cup Permutations(Threads)
=============================================================================
