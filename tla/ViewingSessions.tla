-------------------------- MODULE ViewingSessions --------------------------
(***************************************************************************)
(* What the server promises of the viewing of screens (models/screen.py:   *)
(* every view must be reconstructable): a session is announced -- its row  *)
(* and its audit entry are there, for one endpoint -- before anything of   *)
(* that endpoint is seen; it shows that endpoint, to one viewer, and when  *)
(* it is over it is over.                                                  *)
(***************************************************************************)
CONSTANTS Sessions, Endpoints, None

VARIABLES
    phase,      \* none, announced, watching or over
    shows       \* the endpoint the session is for

vars == <<phase, shows>>

Init ==
    /\ phase = [s \in Sessions |-> "none"]
    /\ shows = [s \in Sessions |-> None]

Announce(s) ==
    /\ phase[s] = "none"
    /\ \E e \in Endpoints : shows' = [shows EXCEPT ![s] = e]
    /\ phase' = [phase EXCEPT ![s] = "announced"]

Watch(s) ==
    /\ phase[s] = "announced"
    /\ phase' = [phase EXCEPT ![s] = "watching"]
    /\ UNCHANGED shows

\* One session ends, or the server restarts and all of them do.
End ==
    /\ \E S \in SUBSET {s \in Sessions : phase[s] \in {"announced", "watching"}} :
         phase' = [s \in Sessions |-> IF s \in S THEN "over" ELSE phase[s]]
    /\ UNCHANGED shows

Next ==
    \/ \E s \in Sessions : Announce(s) \/ Watch(s)
    \/ End

Spec == Init /\ [][Next]_vars
=============================================================================
