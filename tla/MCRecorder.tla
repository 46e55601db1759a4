----------------------------- MODULE MCRecorder -----------------------------
(* Instances of Recorder for TLC: the agent socket threads are interchangeable. *)
EXTENDS Recorder, TLC

Symmetry == Permutations(Feeders)
=============================================================================
