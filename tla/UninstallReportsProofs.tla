----------------------- MODULE UninstallReportsProofs -----------------------
(***************************************************************************)
(* Proofs about UninstallReports and the Alerts it extends, for any        *)
(* numbers of attempts, server threads, alert rows and mishaps.            *)
(***************************************************************************)
EXTENDS UninstallReports, FiniteSetTheorems, TLAPS

\* A handler writes to rows of its own key; what it reports is what it is.
HandlerInv ==
    \A h \in Handlers :
        /\ \A r \in handler[h].rows : alert[r].key = handler[h].key
        /\ handler[h].op = "evaluate" => handler[h].key = "condition"
        /\ handler[h].op = "report" => handler[h].key = "tamper" /\ handler[h].rows = {}
        /\ handler[h].op = "acknowledge" => ~handler[h].raise

\* A row has a key from when it is written.
RowInv == \A r \in AlertIds : alert[r].status # "none" <=> alert[r].key \in Keys

\* A tamper alert is never resolved, and one that a report found is there.
TamperInv ==
    /\ \A r \in AlertIds :
         alert[r].key = "tamper" => alert[r].status \in {"open", "acknowledged"}
    /\ \A h \in Handlers :
         handler[h].op = "report" /\ ~handler[h].raise => OpenRows("tamper") # {}
    /\ audited # {} => OpenRows("tamper") # {}

\* As long as no two handlers were busy with a key at once, what one read is so.
AloneInv ==
    \A k \in Keys \ contended :
        /\ \A g, h \in Handlers : handler[g].key = k /\ handler[h].key = k => g = h
        /\ \A r, s \in Unresolved(k) : r = s
        /\ \A h \in Handlers : handler[h].key = k =>
             /\ handler[h].raise => Unresolved(k) = {}
             /\ handler[h].op = "acknowledge" =>
                  \A r \in handler[h].rows : alert[r].status # "resolved"

\* What the agent may drop is elsewhere.
AgentInv ==
    /\ agent = "fold" => read \subseteq claimed
    /\ agent = "done" => claimed \subseteq audited
    /\ agent \in Handlers => handler[agent].op = "report" /\ body[agent] = claimed

AlertInv == RowInv /\ HandlerInv /\ TamperInv /\ AloneInv

-----------------------------------------------------------------------------
(* The alerts                                                              *)

\* What any step does to the alerts.
LookStep(h) ==
    /\ \/ raise_alert(h, "evaluate", "condition")
       \/ resolve(h, "evaluate", "condition")
       \/ raise_alert(h, "report", "tamper")
       \/ \E r \in AlertIds :
            alert[r].status = "open" /\ Look(h, "acknowledge", alert[r].key, FALSE, {r})
    /\ UNCHANGED <<alert, audited>>

CommitStep(h) ==
    /\ handler[h].op \in {"evaluate", "acknowledge", "report"}
    /\ AlertCommit(h)
    /\ handler[h].op # "report" => UNCHANGED audited

AlertStep ==
    \/ \E h \in Handlers : LookStep(h) \/ CommitStep(h)
    \/ UNCHANGED <<alert, handler, contended, audited>>

\* Every step is a look, a commit, or leaves the alerts alone.
LEMMA AlertSteps == [Next]_vars => AlertStep
<1> SUFFICES ASSUME [Next]_vars PROVE AlertStep
  OBVIOUS
<1>1. CASE AlertsNext /\ UNCHANGED audited
  BY <1>1 DEF AlertsNext, evaluate, evaluate_condition, acknowledge, commit_alert,
     change_condition, set_active, AlertStep, LookStep, CommitStep
<1>2. ASSUME NEW h \in Handlers, NEW b, Receive(h, b), UNCHANGED audited PROVE AlertStep
  BY <1>2 DEF Receive, AlertStep, LookStep
<1>3. ASSUME NEW h \in Handlers, uninstall_attempt(h) PROVE AlertStep
  BY <1>3 DEF uninstall_attempt, AlertStep, CommitStep
<1>4. CASE UNCHANGED <<alert, handler, contended, audited>>
  BY <1>4 DEF AlertStep
<1> QED
  <2>1. CASE CheckUninstallPassword \/ WrongGuess \/ Refuse \/ Remove
    BY <2>1, <1>4 DEF CheckUninstallPassword, WrongGuess, Refuse, Remove, alertVars, WipeFolder
  <2>2. CASE TakePending \/ DeleteFolded \/ Commit \/ CycleFails
    BY <2>2, <1>4 DEF TakePending, DeleteFolded, Commit, CycleFails, alertVars
  <2>3. CASE RemoveUnprotected
    BY <2>3, <1>2, <1>4 DEF RemoveUnprotected, WipeFolder, alertVars
  <2>4. CASE TryReport
    BY <2>4, <1>2, <1>4 DEF TryReport, alertVars
  <2>5. CASE ReportUninstallAttempts
    BY <2>5, <1>2 DEF ReportUninstallAttempts
  <2>6. CASE UNCHANGED vars
    BY <2>6, <1>4 DEF vars, alertVars
  <2> QED BY <1>1, <1>3, <2>1, <2>2, <2>3, <2>4, <2>5, <2>6 DEF Next

AlertTypes ==
    /\ alert \in [AlertIds -> [key: Keys \cup {None}, status: Statuses]]
    /\ handler \in [Handlers -> Busy \cup {Idle}]
    /\ contended \in SUBSET Keys

\* A look keeps the types of the alerts, ...
LEMMA LookTypes ==
    ASSUME AlertTypes, NEW h \in Handlers, NEW op \in {"evaluate", "report", "acknowledge"},
           NEW k \in Keys, NEW raise \in BOOLEAN, NEW rows \in SUBSET AlertIds,
           Look(h, op, k, raise, rows), UNCHANGED alert
    PROVE  AlertTypes'
<1>1. [op |-> op, key |-> k, raise |-> raise, rows |-> rows] \in Busy
  BY DEF Busy
<1>2. handler' \in [Handlers -> Busy \cup {Idle}]
  BY <1>1 DEF AlertTypes, Look
<1> QED BY <1>2 DEF AlertTypes, Look

\* (what raise_alert decides is a Boolean)
LEMMA RaiseLooks ==
    ASSUME NEW h, NEW op, NEW k, raise_alert(h, op, k)
    PROVE  \E b \in BOOLEAN : Look(h, op, k, b, {}) /\ (b <=> OpenRows(k) = {})
<1>1. CASE OpenRows(k) = {}
  <2>1. (OpenRows(k) = {}) = TRUE
    BY <1>1
  <2>2. Look(h, op, k, TRUE, {})
    BY <2>1, Zenon DEF raise_alert
  <2> QED BY <1>1, <2>2
<1>2. CASE OpenRows(k) # {}
  <2>1. (OpenRows(k) = {}) = FALSE
    BY <1>2
  <2>2. Look(h, op, k, FALSE, {})
    BY <2>1, Zenon DEF raise_alert
  <2> QED BY <1>2, <2>2
<1> QED BY <1>1, <1>2

\* ... and so does every step.
LEMMA AlertTypeStep ==
    ASSUME AlertTypes, RowInv, AlertStep PROVE AlertTypes'
<1>1. ASSUME NEW h \in Handlers, LookStep(h) PROVE AlertTypes'
  <2>1. OpenRows("condition") \in SUBSET AlertIds
    BY DEF OpenRows
  <2>2. ASSUME NEW op \in {"evaluate", "report"}, NEW k \in Keys, raise_alert(h, op, k)
        PROVE  AlertTypes'
    <3>1. PICK b \in BOOLEAN : Look(h, op, k, b, {})
      BY <2>2, RaiseLooks
    <3> QED BY <1>1, <3>1, LookTypes DEF LookStep
  <2>3. CASE resolve(h, "evaluate", "condition")
    BY <1>1, <2>1, <2>3, LookTypes DEF LookStep, resolve, Keys
  <2>4. ASSUME NEW r \in AlertIds, alert[r].status = "open",
               Look(h, "acknowledge", alert[r].key, FALSE, {r})
        PROVE  AlertTypes'
    <3>1. alert[r].key \in Keys
      BY <2>4 DEF RowInv
    <3>2. UNCHANGED alert /\ {r} \in SUBSET AlertIds /\ FALSE \in BOOLEAN
      BY <1>1 DEF LookStep
    <3> HIDE DEF Keys
    <3> QED BY <2>4, <3>1, <3>2, LookTypes
  <2> QED BY <1>1, <2>2, <2>3, <2>4 DEF LookStep, Keys
<1>2. ASSUME NEW h \in Handlers, CommitStep(h) PROVE AlertTypes'
  BY <1>2 DEF CommitStep, AlertCommit, Written, Done, FreshRows, AlertTypes, Busy, Idle, Statuses
<1> QED
  BY <1>1, <1>2 DEF AlertStep, AlertTypes

\* What a commit leaves in the rows: a fresh one, ...
Raised(h, r) ==
    /\ r \in FreshRows
    /\ \A q \in AlertIds :
         /\ alert'[q].key = IF q = r THEN handler[h].key ELSE alert[q].key
         /\ alert'[q].status = IF q = r THEN "open" ELSE alert[q].status

\* ... or another status in those it looked at.
Resolved(h) ==
    \A q \in AlertIds :
      /\ alert'[q].key = alert[q].key
      /\ alert'[q].status =
           IF q \notin handler[h].rows THEN alert[q].status
           ELSE IF handler[h].op = "acknowledge" THEN "acknowledged" ELSE "resolved"

\* A commit does one or the other.
LEMMA CommitRows ==
    ASSUME AlertTypes, NEW h \in Handlers, CommitStep(h)
    PROVE  /\ handler' = [handler EXCEPT ![h] = Idle] /\ contended' = contended
           /\ \/ handler[h].raise /\ \E r \in AlertIds : Raised(h, r)
              \/ ~handler[h].raise /\ Resolved(h)
<1>1. handler' = [handler EXCEPT ![h] = Idle] /\ contended' = contended /\ alert' \in Written(h)
  BY DEF CommitStep, AlertCommit, Done
<1>2. CASE handler[h].raise
  <2>1. PICK r \in FreshRows :
           alert' = [alert EXCEPT ![r] = [key |-> handler[h].key, status |-> "open"]]
    BY <1>1, <1>2 DEF Written
  <2>2. Raised(h, r)
    BY <2>1 DEF AlertTypes, FreshRows, Raised
  <2> QED BY <1>1, <1>2, <2>1, <2>2 DEF FreshRows
<1>3. CASE ~handler[h].raise
  <2> DEFINE s == IF handler[h].op = "acknowledge" THEN "acknowledged" ELSE "resolved"
  <2>1. alert' = [r \in AlertIds |->
             IF r \in handler[h].rows THEN [alert[r] EXCEPT !.status = s] ELSE alert[r]]
    BY <1>1, <1>3 DEF Written
  <2>2. Resolved(h)
    BY <2>1 DEF AlertTypes, Resolved
  <2> QED BY <1>1, <1>3, <2>2
<1> QED BY <1>2, <1>3

\* What a handler decides on when it looks.
Fits(op, k, b, R) ==
    /\ \A r \in R : alert[r].key = k /\ alert[r].status # "resolved"
    /\ op = "evaluate" => k = "condition"
    /\ op = "report" => k = "tamper" /\ R = {} /\ (~b => OpenRows(k) # {})
    /\ op = "acknowledge" => ~b
    /\ b => OpenRows(k) = {}

\* Every look is of that kind.
LEMMA LookFits ==
    ASSUME AlertTypes, RowInv, NEW h \in Handlers, LookStep(h)
    PROVE  /\ UNCHANGED <<alert, audited>> /\ handler[h] = Idle
           /\ \E op \in {"evaluate", "report", "acknowledge"}, k \in Keys, b \in BOOLEAN,
                 R \in SUBSET AlertIds : Look(h, op, k, b, R) /\ Fits(op, k, b, R)
<1>1. UNCHANGED <<alert, audited>> /\ handler[h] = Idle
  BY DEF LookStep, raise_alert, resolve, Look
<1> DEFINE Found == \E op \in {"evaluate", "report", "acknowledge"}, k \in Keys, b \in BOOLEAN,
                       R \in SUBSET AlertIds : Look(h, op, k, b, R) /\ Fits(op, k, b, R)
<1>2. ASSUME raise_alert(h, "evaluate", "condition") PROVE Found
  <2>1. PICK b \in BOOLEAN : Look(h, "evaluate", "condition", b, {}) /\ (b <=> OpenRows("condition") = {})
    BY <1>2, RaiseLooks
  <2>2. Fits("evaluate", "condition", b, {})
    BY <2>1 DEF Fits
  <2>3. {} \in SUBSET AlertIds /\ "condition" \in Keys /\ "evaluate" \in {"evaluate", "report", "acknowledge"}
    BY DEF Keys
  <2> QED BY <2>1, <2>2, <2>3, Zenon
<1>3. ASSUME raise_alert(h, "report", "tamper") PROVE Found
  <2>1. PICK b \in BOOLEAN : Look(h, "report", "tamper", b, {}) /\ (b <=> OpenRows("tamper") = {})
    BY <1>3, RaiseLooks
  <2>2. Fits("report", "tamper", b, {})
    BY <2>1 DEF Fits
  <2>3. {} \in SUBSET AlertIds /\ "tamper" \in Keys /\ "report" \in {"evaluate", "report", "acknowledge"}
    BY DEF Keys
  <2> QED BY <2>1, <2>2, <2>3, Zenon
<1>4. ASSUME resolve(h, "evaluate", "condition") PROVE Found
  <2> DEFINE R == OpenRows("condition")
  <2>1. Look(h, "evaluate", "condition", FALSE, R)
    BY <1>4 DEF resolve
  <2>2. Fits("evaluate", "condition", FALSE, R)
    BY DEF Fits, OpenRows, OpenStates
  <2>3. R \in SUBSET AlertIds /\ "condition" \in Keys /\ "evaluate" \in {"evaluate", "report", "acknowledge"}
    BY DEF Keys, OpenRows
  <2> HIDE DEF R
  <2> QED BY <2>1, <2>2, <2>3, Zenon
<1>5. ASSUME NEW r \in AlertIds, alert[r].status = "open",
             Look(h, "acknowledge", alert[r].key, FALSE, {r})
      PROVE  Found
  <2>1. Fits("acknowledge", alert[r].key, FALSE, {r})
    BY <1>5 DEF Fits
  <2>2. {r} \in SUBSET AlertIds /\ alert[r].key \in Keys
        /\ "acknowledge" \in {"evaluate", "report", "acknowledge"}
    BY <1>5 DEF RowInv
  <2> QED BY <1>5, <2>1, <2>2, Zenon
<1> QED BY <1>1, <1>2, <1>3, <1>4, <1>5 DEF LookStep

-----------------------------------------------------------------------------

\* A fresh row gets a key, and no row loses it.
LEMMA RowStep ==
    ASSUME AlertTypes, RowInv, HandlerInv, AlertStep PROVE RowInv'
<1>1. ASSUME NEW h \in Handlers, LookStep(h) PROVE RowInv'
  BY <1>1, LookFits DEF RowInv
<1>2. ASSUME NEW h \in Handlers, CommitStep(h) PROVE RowInv'
  <2>1. handler[h] \in Busy
    BY <1>2 DEF CommitStep, AlertTypes, Idle
  <2>2. handler[h].key \in Keys
    BY <2>1 DEF Busy
  <2>3. CASE \E r \in AlertIds : Raised(h, r)
    BY <2>2, <2>3 DEF RowInv, Raised
  <2>4. CASE Resolved(h)
    <3>1. ASSUME NEW q \in AlertIds, q \in handler[h].rows PROVE alert[q].key \in Keys
      BY <2>2, <3>1 DEF HandlerInv
    <3> QED BY <2>4, <3>1 DEF RowInv, Resolved
  <2> QED BY <1>2, <2>3, <2>4, CommitRows
<1> QED BY <1>1, <1>2 DEF AlertStep, RowInv

\* Rows that a handler holds keep their key: they are not fresh.
LEMMA HandlerStep ==
    ASSUME AlertTypes, RowInv, HandlerInv, AlertStep PROVE HandlerInv'
<1> USE DEF AlertTypes, HandlerInv
<1>1. ASSUME NEW h \in Handlers, LookStep(h) PROVE HandlerInv'
  <2>1. PICK op \in {"evaluate", "report", "acknowledge"}, k \in Keys, b \in BOOLEAN,
             R \in SUBSET AlertIds : Look(h, op, k, b, R) /\ Fits(op, k, b, R)
    BY <1>1, LookFits
  <2>2. alert' = alert
    BY <1>1, LookFits
  <2> QED BY <2>1, <2>2 DEF Look, Fits
<1>2. ASSUME NEW h \in Handlers, CommitStep(h) PROVE HandlerInv'
  <2>1. handler' = [handler EXCEPT ![h] = Idle]
    BY <1>2, CommitRows
  <2>2. ASSUME NEW g \in Handlers, NEW q \in handler[g].rows, g # h PROVE alert'[q].key = alert[q].key
    BY <1>2, <2>2, CommitRows DEF Raised, Resolved, FreshRows, Busy, Idle
  <2> QED BY <2>1, <2>2 DEF Idle
<1> QED BY <1>1, <1>2 DEF AlertStep

\* Only a standing condition is resolved; a report raises an alert, or found one.
LEMMA TamperStep ==
    ASSUME AlertTypes, RowInv, HandlerInv, TamperInv, AlertStep PROVE TamperInv'
<1> USE DEF AlertTypes, TamperInv, OpenRows, OpenStates
<1>1. ASSUME NEW h \in Handlers, LookStep(h) PROVE TamperInv'
  <2>1. PICK op \in {"evaluate", "report", "acknowledge"}, k \in Keys, b \in BOOLEAN,
             R \in SUBSET AlertIds : Look(h, op, k, b, R) /\ Fits(op, k, b, R)
    BY <1>1, LookFits
  <2>2. alert' = alert /\ audited' = audited
    BY <1>1, LookFits
  <2> QED BY <2>1, <2>2 DEF Look, Fits
<1>2. ASSUME NEW h \in Handlers, CommitStep(h) PROVE TamperInv'
  <2>1. handler' = [handler EXCEPT ![h] = Idle]
    BY <1>2, CommitRows
  <2>2. \A r \in AlertIds : alert'[r].key = "tamper" => alert'[r].status \in {"open", "acknowledged"}
    BY <1>2, CommitRows DEF Raised, Resolved, HandlerInv, CommitStep
  <2>3. OpenRows("tamper") \subseteq OpenRows("tamper")'
    BY <1>2, <2>2, CommitRows DEF Raised, Resolved, FreshRows
  <2>4. handler[h].op = "report" => OpenRows("tamper")' # {}
    BY <1>2, <2>3, CommitRows DEF Raised, HandlerInv
  <2> QED BY <1>2, <2>1, <2>2, <2>3, <2>4 DEF Idle, CommitStep
<1> QED BY <1>1, <1>2 DEF AlertStep

\* A handler that is alone with its key finds what it read.
LEMMA AloneStep ==
    ASSUME AlertTypes, HandlerInv, RowInv, AloneInv, AlertStep PROVE AloneInv'
<1> USE AlertsAssumption DEF AlertTypes, Unresolved
<1>1. ASSUME NEW h \in Handlers, LookStep(h) PROVE AloneInv'
  <2>1. PICK op \in {"evaluate", "report", "acknowledge"}, k \in Keys, b \in BOOLEAN,
             R \in SUBSET AlertIds : Look(h, op, k, b, R) /\ Fits(op, k, b, R)
    BY <1>1, LookFits
  <2>2. alert' = alert
    BY <1>1, LookFits
  <2>3. b => Unresolved(k) = {}
    BY <2>1 DEF Fits, OpenRows, OpenStates, RowInv, Statuses
  <2>4. k \notin contended' => \A g \in Handlers : handler[g].key # k
    BY <2>1 DEF Look
  <2>5. handler' = [handler EXCEPT ![h] = [op |-> op, key |-> k, raise |-> b, rows |-> R]]
        /\ contended \subseteq contended'
    BY <2>1 DEF Look
  <2> QED BY <2>1, <2>2, <2>3, <2>4, <2>5 DEF AloneInv, Fits
<1>2. ASSUME NEW h \in Handlers, CommitStep(h) PROVE AloneInv'
  <2>1. handler' = [handler EXCEPT ![h] = Idle] /\ contended' = contended
    BY <1>2, CommitRows
  <2> SUFFICES ASSUME NEW k \in Keys \ contended
               PROVE  /\ \A r, s \in Unresolved(k)' : r = s
                      /\ \A g \in Handlers \ {h} : handler[g].key = k =>
                           /\ handler[g].raise => Unresolved(k)' = {}
                           /\ handler[g].op = "acknowledge" =>
                                \A r \in handler[g].rows : alert'[r].status # "resolved"
    BY <2>1 DEF AloneInv, Idle
  <2>2. ASSUME NEW r \in AlertIds, handler[h].raise, Raised(h, r)
        PROVE  /\ Unresolved(k)' = IF handler[h].key = k THEN {r} ELSE Unresolved(k)
               /\ \A g \in Handlers \ {h} : \A q \in handler[g].rows :
                    alert'[q].status = alert[q].status
    <3>1. \A g \in Handlers : r \notin handler[g].rows /\ handler[g].rows \subseteq AlertIds
      BY <2>2 DEF Raised, FreshRows, Busy, Idle
    <3>2. CASE handler[h].key = k
      <4>1. Unresolved(k) = {}
        BY <2>2, <3>2 DEF AloneInv
      <4> QED BY <2>2, <3>1, <3>2, <4>1 DEF Raised
    <3>3. CASE handler[h].key # k
      <4>1. r \notin Unresolved(k)
        BY <2>2 DEF Raised, FreshRows, RowInv
      <4> QED BY <2>2, <3>1, <3>3, <4>1 DEF Raised
    <3> QED BY <3>2, <3>3
  <2>3. ASSUME ~handler[h].raise, Resolved(h)
        PROVE  /\ Unresolved(k)' \subseteq Unresolved(k)
               /\ \A g \in Handlers \ {h} : handler[g].key = k =>
                    \A q \in handler[g].rows : alert'[q].status = alert[q].status
    <3>1. CASE handler[h].key = k
      BY <2>3, <3>1 DEF AloneInv, Resolved, HandlerInv
    <3>2. CASE handler[h].key # k
      <4>1. \A g \in Handlers : handler[g].rows \subseteq AlertIds
        BY DEF Busy, Idle
      <4> QED BY <2>3, <3>2, <4>1 DEF Resolved, HandlerInv
    <3> QED BY <3>1, <3>2
  <2>4. CASE \E r \in AlertIds : handler[h].raise /\ Raised(h, r)
    BY <2>2, <2>4 DEF AloneInv
  <2>5. CASE ~handler[h].raise /\ Resolved(h)
    BY <2>3, <2>5 DEF AloneInv
  <2> QED BY <1>2, <2>4, <2>5, CommitRows
<1> QED BY <1>1, <1>2 DEF AlertStep, AloneInv

-----------------------------------------------------------------------------
(* The reports                                                             *)

FileTypes ==
    /\ log \in SUBSET Attempts /\ claimed \in SUBSET Attempts
    /\ agent \in {"idle", "fold", "send", "done"} \cup Handlers
    /\ read \in SUBSET Attempts
    /\ installer \in {"idle", "prompt", "blocked"}
    /\ body \in [Handlers -> SUBSET Attempts]
    /\ audited \in SUBSET Attempts /\ made \in SUBSET Attempts /\ lost \in SUBSET Attempts

\* Reports carry attempts that were made.
LEMMA FileTypeStep ==
    ASSUME FileTypes, [Next]_vars PROVE FileTypes'
<1> USE DEF FileTypes, fileVars
<1>1. CASE AlertsNext /\ UNCHANGED <<fileVars, agent, read, installer, body, audited, made, removed, mishaps>>
  BY <1>1
<1>2. CASE CheckUninstallPassword
  BY <1>2 DEF CheckUninstallPassword
<1>3. CASE WrongGuess \/ Refuse
  BY <1>3 DEF WrongGuess, Refuse, Record
<1>4. CASE Remove
  BY <1>4 DEF Remove, WipeFolder
<1>5. CASE RemoveUnprotected
  BY <1>5 DEF RemoveUnprotected, WipeFolder, Receive
<1>6. CASE TryReport
  BY <1>6 DEF TryReport, Receive
<1>7. ASSUME NEW h \in Handlers, uninstall_attempt(h) PROVE FileTypes'
  BY <1>7 DEF uninstall_attempt
<1>8. CASE TakePending \/ DeleteFolded
  BY <1>8 DEF TakePending, DeleteFolded
<1>9. CASE ReportUninstallAttempts
  BY <1>9 DEF ReportUninstallAttempts, Receive
<1>10. CASE Commit \/ CycleFails
  BY <1>10 DEF Commit, CycleFails
<1>11. CASE UNCHANGED vars
  BY <1>11 DEF vars
<1> QED
  BY <1>1, <1>2, <1>3, <1>4, <1>5, <1>6, <1>7, <1>8, <1>9, <1>10, <1>11 DEF Next

\* A thread that serves a report is not taken by another call, ...
LEMMA ReportStays ==
    ASSUME AlertTypes, NEW h \in Handlers, handler[h].op = "report"
    PROVE  /\ AlertsNext => handler'[h] = handler[h]
           /\ \A g \in Handlers : \A b : Receive(g, b) => handler'[h] = handler[h] /\ body'[h] = body[h]
<1>1. handler[h] # Idle
  BY DEF Idle
<1>2. ASSUME NEW g \in Handlers, NEW op, NEW k, NEW b, NEW R, Look(g, op, k, b, R)
      PROVE  handler'[h] = handler[h] /\ g # h
  BY <1>1, <1>2 DEF Look, AlertTypes
<1>3. ASSUME AlertsNext PROVE handler'[h] = handler[h]
  <2>1. ASSUME NEW g \in Handlers, commit_alert(g) PROVE handler'[h] = handler[h]
    BY <2>1 DEF commit_alert, AlertCommit, Done, AlertTypes
  <2>2. ASSUME NEW g \in Handlers, evaluate(g) PROVE handler'[h] = handler[h]
    BY <2>2, <1>2 DEF evaluate, evaluate_condition, raise_alert, resolve
  <2>3. ASSUME NEW g \in Handlers, acknowledge(g) PROVE handler'[h] = handler[h]
    BY <2>3, <1>2 DEF acknowledge
  <2>4. CASE change_condition \/ set_active
    BY <2>4 DEF change_condition, set_active
  <2> QED BY <1>3, <2>1, <2>2, <2>3, <2>4 DEF AlertsNext
<1>4. ASSUME NEW g \in Handlers, NEW b, Receive(g, b)
      PROVE  handler'[h] = handler[h] /\ body'[h] = body[h]
  <2>1. handler'[h] = handler[h] /\ g # h
    BY <1>2, <1>4 DEF Receive, raise_alert
  <2> QED BY <1>4, <2>1 DEF Receive
<1> QED BY <1>3, <1>4

\* ... and a report that arrives has one.
LEMMA ReportArrives ==
    ASSUME AlertTypes, NEW h \in Handlers, NEW b, Receive(h, b)
    PROVE  handler'[h].op = "report"
<1>1. PICK c \in BOOLEAN : Look(h, "report", "tamper", c, {})
  BY RaiseLooks DEF Receive
<1> QED BY <1>1 DEF Look, AlertTypes

\* Every attempt stays somewhere.
LEMMA KeptStep ==
    ASSUME AlertTypes, FileTypes, AgentInv, AttemptsAreKept, [Next]_vars
    PROVE  AgentInv' /\ AttemptsAreKept'
<1> USE ReportsAssumption DEF FileTypes, fileVars, AgentInv, AttemptsAreKept
<1>1. CASE AlertsNext /\ UNCHANGED <<fileVars, agent, read, installer, body, audited, made, removed, mishaps>>
  BY <1>1, ReportStays
<1>2. CASE CheckUninstallPassword
  BY <1>2 DEF CheckUninstallPassword, alertVars
<1>3. CASE WrongGuess \/ Refuse
  BY <1>3 DEF WrongGuess, Refuse, Record, alertVars
<1>4. CASE Remove
  BY <1>4 DEF Remove, WipeFolder, alertVars
<1>5. CASE RemoveUnprotected
  BY <1>5 DEF RemoveUnprotected, WipeFolder
<1>6. CASE TryReport
  <2>1. UNCHANGED <<fileVars, agent, read, audited, made, removed>>
    BY <1>6 DEF TryReport
  <2>2. agent \in Handlers => handler'[agent] = handler[agent] /\ body'[agent] = body[agent]
    BY <1>6, ReportStays DEF TryReport, alertVars
  <2> QED BY <2>1, <2>2
<1>7. ASSUME NEW h \in Handlers, uninstall_attempt(h) PROVE AgentInv' /\ AttemptsAreKept'
  <2>1. /\ handler' = [handler EXCEPT ![h] = Idle] /\ body' = [body EXCEPT ![h] = {}]
        /\ audited' = audited \cup body[h] /\ UNCHANGED <<log, claimed, lost, read, made, removed>>
        /\ agent' = IF agent = h THEN "done" ELSE agent
    BY <1>7 DEF uninstall_attempt, AlertCommit, Done
  <2>2. CASE agent = h
    BY <2>1, <2>2
  <2>3. CASE agent # h
    BY <2>1, <2>3 DEF AlertTypes
  <2> QED BY <2>2, <2>3
<1>8. CASE TakePending \/ DeleteFolded
  BY <1>8 DEF TakePending, DeleteFolded, alertVars
<1>9. CASE ReportUninstallAttempts
  <2>1. PICK h \in Handlers : Receive(h, claimed) /\ agent' = h
    BY <1>9 DEF ReportUninstallAttempts
  <2>2. handler'[h].op = "report" /\ body'[h] = claimed
    BY <2>1, ReportArrives DEF Receive
  <2>3. UNCHANGED <<log, claimed, lost, audited, made, removed>>
    BY <1>9 DEF ReportUninstallAttempts
  <2> QED BY <2>1, <2>2, <2>3
<1>10. CASE Commit \/ CycleFails
  BY <1>10 DEF Commit, CycleFails, alertVars
<1>11. CASE UNCHANGED vars
  BY <1>11 DEF vars, alertVars
<1> QED
  BY <1>1, <1>2, <1>3, <1>4, <1>5, <1>6, <1>7, <1>8, <1>9, <1>10, <1>11 DEF Next

-----------------------------------------------------------------------------

Inv == AlertTypes /\ AlertInv /\ FileTypes /\ AgentInv /\ AttemptsAreKept

\* The invariant holds in every reachable state.
LEMMA Invariance == Spec => []Inv
<1>1. Init => Inv
  <2>1. Init => AlertTypes
    BY DEF Init, AlertsInit, AlertTypes, NoAlert, Statuses
  <2>2. Init => AlertInv
    BY AlertsAssumption DEF Init, AlertsInit, AlertInv, RowInv, HandlerInv, TamperInv, AloneInv,
       NoAlert, Idle, Unresolved, Keys
  <2>3. Init => FileTypes /\ AgentInv /\ AttemptsAreKept
    BY ReportsAssumption DEF Init, FileTypes, AgentInv, AttemptsAreKept
  <2> QED BY <2>1, <2>2, <2>3 DEF Inv
<1>2. Inv /\ [Next]_vars => Inv'
  BY AlertSteps, AlertTypeStep, RowStep, HandlerStep, TamperStep, AloneStep, FileTypeStep, KeptStep
     DEF Inv, AlertInv
<1> QED
  BY <1>1, <1>2, PTL DEF Spec

\* An attempt that was recorded is in the log, in the claimed batch or in the
\* audit log until the agent is removed, or is known to be lost.
THEOREM KeptAttempts == Spec => []AttemptsAreKept
BY Invariance, PTL DEF Inv

\* An attempt in the audit log has a tamper alert that is not resolved.
THEOREM AlertedAttempts == Spec => []AuditedAttemptsAlert
<1>1. Inv => AuditedAttemptsAlert
  BY DEF Inv, AlertInv, TamperInv, AuditedAttemptsAlert, OpenRows, OpenStates, Unresolved
<1> QED
  BY <1>1, Invariance, PTL

\* There is at most one open alert of a key no two handlers were busy with at once.
THEOREM SingleAlert == Spec => []OneOpenAlert
<1>1. ASSUME NEW S, \A r, s \in S : r = s PROVE Cardinality(S) <= 1
  <2>1. CASE S = {}
    BY <2>1, FS_EmptySet
  <2>2. ASSUME NEW r \in S PROVE Cardinality(S) = 1
    <3>1. S = {r}
      BY <1>1
    <3> QED BY <3>1, FS_Singleton
  <2> QED BY <2>1, <2>2
<1>2. Inv => OneOpenAlert
  BY <1>1 DEF Inv, AlertInv, AloneInv, OneOpenAlert
<1> QED
  BY <1>2, Invariance, PTL
=============================================================================
