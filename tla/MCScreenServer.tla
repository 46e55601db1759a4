--------------------------- MODULE MCScreenServer ---------------------------
(* Instances of ScreenServer for TLC. *)
EXTENDS ScreenServer, TLC

\* Connections and request threads are interchangeable.
Symmetry ==
    Permutations(AgentConns) \cup Permutations(Viewers) \cup Permutations(Admins)
=============================================================================
