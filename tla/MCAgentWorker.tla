--------------------------- MODULE MCAgentWorker ---------------------------
(* Instances of AgentWorker for TLC: ids, secrets and threads are             *)
(* interchangeable.                                                           *)
EXTENDS AgentWorker, TLC

Symmetry ==
    Permutations(EndpointIds) \cup Permutations(CredentialIds)
        \cup Permutations(Workers) \cup Permutations(Admins)
=============================================================================
