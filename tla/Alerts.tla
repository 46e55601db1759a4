------------------------------- MODULE Alerts -------------------------------
(***************************************************************************)
(* The alert centre (server/app/services/alerting.py, api/alerts.py and    *)
(* the handlers of api/agent.py that raise alerts), seen for one endpoint. *)
(*                                                                         *)
(* A handler first looks: it reads the condition it reports and the open   *)
(* alerts of the condition's key.  Then it notifies the channels, which    *)
(* takes up to ten seconds each, and only then commits, so other handlers  *)
(* commit in between.  What it writes to a row is absolute: the status it  *)
(* decided on when it looked.                                              *)
(***************************************************************************)
EXTENDS Naturals, FiniteSets

CONSTANTS
    AlertIds,       \* rows of the alerts table
    Handlers,       \* server threads
    None            \* no key

\* dedup_key, less the endpoint's id.  One standing condition stands for the
\* three of them, which are raised and resolved alike: offline, low disk and
\* expiring credential.
Keys == {"condition", "tamper"}

ASSUME AlertsAssumption == None \notin Keys

Statuses == {"none", "open", "acknowledged", "resolved"}

VARIABLES
    alert,          \* per row, its key and status
    handler,        \* per thread, what it looked at and will commit
    holds,          \* the condition holds: the endpoint is quiet, its disk full...
    active,         \* the endpoint is in state ACTIVE
    contended       \* keys two handlers have been busy with at once

alertVars == <<alert, handler, holds, active, contended>>

NoAlert == [key |-> None, status |-> "none"]
Idle == [op |-> "idle", key |-> None, raise |-> FALSE, rows |-> {}]
Busy ==
    [op: {"evaluate", "report", "acknowledge"}, key: Keys,
     raise: BOOLEAN, rows: SUBSET AlertIds]

AlertsTypeOK ==
    /\ alert \in [AlertIds -> [key: Keys \cup {None}, status: Statuses]]
    /\ handler \in [Handlers -> Busy \cup {Idle}]
    /\ holds \in BOOLEAN
    /\ active \in BOOLEAN
    /\ contended \in SUBSET Keys

AlertsInit ==
    /\ alert = [r \in AlertIds |-> NoAlert]
    /\ handler = [h \in Handlers |-> Idle]
    /\ holds = FALSE
    /\ active = TRUE
    /\ contended = {}

-----------------------------------------------------------------------------
(* raise_alert and resolve                                                 *)

\* Mutant of OpenStates: an acknowledged alert no longer counts.
OpenStatesUnseen == {"open"}

OpenStates == {"open", "acknowledged"}

OpenRows(k) == {r \in AlertIds : alert[r].key = k /\ alert[r].status \in OpenStates}

\* A resolved row is history: when no handler holds it, its id stands for the
\* next row's.
FreshRows ==
    {r \in AlertIds : alert[r].status \in {"none", "resolved"}
                        /\ \A h \in Handlers : r \notin handler[h].rows}

Look(h, op, k, raise, rows) ==
    /\ handler[h] = Idle
    /\ handler' = [handler EXCEPT ![h] = [op |-> op, key |-> k, raise |-> raise, rows |-> rows]]
    /\ contended' = IF \E g \in Handlers : handler[g].key = k THEN contended \cup {k}
                    ELSE contended

raise_alert(h, op, k) == Look(h, op, k, OpenRows(k) = {}, {})

resolve(h, op, k) == Look(h, op, k, FALSE, OpenRows(k))

\* The rows the handler leaves behind.
Written(h) ==
    LET w == handler[h]
        status == IF w.op = "acknowledge" THEN "acknowledged" ELSE "resolved"
    IN
    IF w.raise
    THEN {[alert EXCEPT ![r] = [key |-> w.key, status |-> "open"]] : r \in FreshRows}
    ELSE {[r \in AlertIds |->
             IF r \in w.rows THEN [alert[r] EXCEPT !.status = status] ELSE alert[r]]}

Done(h) == handler' = [handler EXCEPT ![h] = Idle]

AlertCommit(h) ==
    /\ alert' \in Written(h)
    /\ Done(h)
    /\ UNCHANGED contended

-----------------------------------------------------------------------------
(* The handlers                                                            *)

\* A heartbeat's _evaluate_endpoint_alerts, and the offline sweep likewise.
evaluate_condition(h) ==
    IF holds THEN raise_alert(h, "evaluate", "condition") ELSE resolve(h, "evaluate", "condition")

\* evaluate_offline looks at active endpoints only, and the heartbeats of
\* others are refused.
evaluate(h) ==
    /\ active
    /\ evaluate_condition(h)
    /\ UNCHANGED <<alert, holds, active>>

acknowledge(h) ==
    /\ \E r \in AlertIds :
         alert[r].status = "open" /\ Look(h, "acknowledge", alert[r].key, FALSE, {r})
    /\ UNCHANGED <<alert, holds, active>>

\* The commit of a handler that reports nothing else.
commit_alert(h) ==
    /\ handler[h].op \in {"evaluate", "acknowledge"}
    /\ AlertCommit(h)
    /\ UNCHANGED <<holds, active>>

\* Heartbeats stop or come again, the disk fills, a credential is rotated.
change_condition ==
    /\ holds' = ~holds
    /\ UNCHANGED <<alert, handler, active, contended>>

\* An administrator disables the endpoint or enables it again.
set_active ==
    /\ active' = ~active
    /\ UNCHANGED <<alert, handler, holds, contended>>

AlertsNext ==
    \/ \E h \in Handlers :
         \/ evaluate(h)
         \/ acknowledge(h)
         \/ commit_alert(h)
    \/ change_condition
    \/ set_active

-----------------------------------------------------------------------------

Unresolved(k) == {r \in AlertIds : alert[r].key = k /\ alert[r].status # "resolved"}

\* At most one open alert per key (models/alert.py), as long as no two handlers
\* were ever busy with the key at once.
OneOpenAlert ==
    \A k \in Keys \ contended : Cardinality(Unresolved(k)) <= 1
=============================================================================
