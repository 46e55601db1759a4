-------------------------- MODULE UninstallReports --------------------------
(***************************************************************************)
(* What becomes of an attempt to remove the agent: the installer's custom  *)
(* action records it in a log (CustomActions.cs, UninstallAttempts.cs) and *)
(* tells the server directly (UninstallReporter.cs); the agent claims the  *)
(* log and forwards it after its next heartbeat (UninstallAttemptLog.cs,   *)
(* AgentWorker.cs); the server audits it and raises the tamper alert       *)
(* (uninstall_attempt of api/agent.py).  Two programs share the log file   *)
(* without a lock.                                                         *)
(***************************************************************************)
EXTENDS Alerts

CONSTANTS
    Attempts,       \* wrong guesses and cancellations
    MaxMishaps      \* bound: I/O errors, crashes, lost calls and lost replies

ASSUME ReportsAssumption ==
    /\ Handlers \cap {"idle", "fold", "send", "done"} = {}
    /\ MaxMishaps \in Nat

VARIABLES
    log,            \* attempts in uninstall-attempts.log
    claimed,        \* attempts in uninstall-attempts.log.sending
    agent,          \* the agent's place in its reporting cycle, or the thread it waits for
    read,           \* what the agent read of the log it is about to delete
    installer,      \* the custom action's place
    body,           \* per server thread, the attempts it was sent
    audited,        \* attempts with a row in the audit log
    made,           \* attempts that were made
    lost,           \* attempts the log did not take, or that were deleted unread
    removed,        \* the agent was uninstalled and its folder wiped
    mishaps         \* bounded count of mishaps

fileVars == <<log, claimed, lost>>
vars == <<alertVars, fileVars, agent, read, installer, body, audited, made, removed, mishaps>>

TypeOK ==
    /\ AlertsTypeOK
    /\ log \in SUBSET Attempts /\ claimed \in SUBSET Attempts
    /\ agent \in {"idle", "fold", "send", "done"} \cup Handlers
    /\ read \in SUBSET Attempts
    /\ installer \in {"idle", "prompt", "blocked"}
    /\ body \in [Handlers -> SUBSET Attempts]
    /\ audited \in SUBSET Attempts /\ made \in SUBSET Attempts /\ lost \in SUBSET Attempts
    /\ removed \in BOOLEAN
    /\ mishaps \in 0..MaxMishaps

Init ==
    /\ AlertsInit
    /\ log = {} /\ claimed = {}
    /\ agent = "idle" /\ read = {}
    /\ installer = "idle"
    /\ body = [h \in Handlers |-> {}]
    /\ audited = {} /\ made = {} /\ lost = {}
    /\ removed = FALSE
    /\ mishaps = 0

Mishap == mishaps < MaxMishaps /\ mishaps' = mishaps + 1

-----------------------------------------------------------------------------
(* The installer                                                           *)

\* UninstallAttempts.Record.  A log past its cap, and one the agent has open,
\* takes nothing, and nobody is told.
Record(a) ==
    /\ a \notin made
    /\ made' = made \cup {a}
    /\ \/ log' = log \cup {a} /\ UNCHANGED <<lost, mishaps>>
       \/ Mishap /\ lost' = lost \cup {a} /\ UNCHANGED log
    /\ UNCHANGED claimed

\* CheckUninstallPassword: a password is required and none came along, so ask.
CheckUninstallPassword ==
    /\ ~removed /\ installer = "idle"
    /\ installer' = "prompt"
    /\ UNCHANGED <<alertVars, fileVars, agent, read, body, audited, made, removed, mishaps>>

\* PromptForPassword: each wrong guess is recorded as it is made.
WrongGuess ==
    /\ installer = "prompt"
    /\ \E a \in Attempts : Record(a)
    /\ UNCHANGED <<alertVars, agent, read, installer, body, audited, removed>>

\* Cancelled, a wrong password on the command line, or none where none can be
\* asked for: recorded, and blocked.
Refuse ==
    /\ installer = "prompt"
    /\ installer' = "blocked"
    /\ \E a \in Attempts : Record(a)
    /\ UNCHANGED <<alertVars, agent, read, body, audited, removed>>

\* The folder goes, and with it the guesses that were not forwarded.
WipeFolder ==
    /\ removed' = TRUE
    /\ log' = {} /\ claimed' = {}
    /\ agent' = "idle" /\ read' = {}
    /\ UNCHANGED <<lost, audited, made, mishaps>>

\* The right password.
Remove ==
    /\ installer = "prompt"
    /\ installer' = "idle"
    /\ WipeFolder
    /\ UNCHANGED <<alertVars, body>>

-----------------------------------------------------------------------------
(* The server                                                              *)

\* The report arrives, unless the endpoint is disabled: the handler looks.
Receive(h, batch) ==
    /\ active
    /\ raise_alert(h, "report", "tamper")
    /\ body' = [body EXCEPT ![h] = batch]
    /\ UNCHANGED <<alert, holds, active>>

\* Mutant of uninstall_attempt: the audit rows are committed without the alert.
uninstall_attempt_unalerted(h) ==
    /\ handler[h].op = "report"
    /\ Done(h)
    /\ audited' = audited \cup body[h]
    /\ body' = [body EXCEPT ![h] = {}]
    /\ agent' = IF agent = h THEN "done" ELSE agent
    /\ UNCHANGED <<alert, contended, holds, active, fileVars, read, installer, made, removed, mishaps>>

\* uninstall_attempt: its audit rows and its alert commit together.
uninstall_attempt(h) ==
    /\ handler[h].op = "report"
    /\ AlertCommit(h)
    /\ audited' = audited \cup body[h]
    /\ body' = [body EXCEPT ![h] = {}]
    /\ agent' = IF agent = h THEN "done" ELSE agent
    /\ UNCHANGED <<holds, active, fileVars, read, installer, made, removed, mishaps>>

\* UninstallReporter.TryReport: the blocked attempt is reported once more, at
\* once, if the server can be reached.
TryReport ==
    /\ installer = "blocked"
    /\ installer' = "idle"
    /\ \/ \E h \in Handlers : Receive(h, {})
       \/ UNCHANGED <<alertVars, body>>
    /\ UNCHANGED <<fileVars, agent, read, audited, made, removed, mishaps>>

\* No password is configured, or the configuration cannot be read: the removal
\* is reported if that is possible, and allowed.
RemoveUnprotected ==
    /\ ~removed /\ installer = "idle"
    /\ \/ \E h \in Handlers : Receive(h, {})
       \/ UNCHANGED <<alertVars, body>>
    /\ WipeFolder
    /\ UNCHANGED installer

-----------------------------------------------------------------------------
(* The agent                                                               *)

Running == ~removed /\ active

\* TakePending: no log, nothing to do -- even when a claimed batch is left over.
TakePending ==
    /\ Running /\ agent = "idle" /\ log # {}
    /\ IF claimed # {}
       THEN /\ claimed' = claimed \cup log
            /\ read' = log
            /\ agent' = "fold"
            /\ UNCHANGED log
       ELSE /\ claimed' = log
            /\ log' = {}
            /\ agent' = "send"
            /\ UNCHANGED read
    /\ UNCHANGED <<alertVars, lost, installer, body, audited, made, removed, mishaps>>

\* The log that was folded in is deleted, with whatever was appended since.
DeleteFolded ==
    /\ agent = "fold"
    /\ log' = {}
    /\ lost' = lost \cup (log \ read)
    /\ read' = {}
    /\ agent' = "send"
    /\ UNCHANGED <<alertVars, claimed, installer, body, audited, made, removed, mishaps>>

ReportUninstallAttempts ==
    /\ agent = "send"
    /\ \E h \in Handlers : Receive(h, claimed) /\ agent' = h
    /\ UNCHANGED <<fileVars, read, installer, audited, made, removed, mishaps>>

\* Mutant of Commit: the batch is dropped without waiting for the server.
CommitEarly ==
    /\ agent \in Handlers \cup {"done"}
    /\ agent' = "idle"
    /\ claimed' = {}
    /\ UNCHANGED <<alertVars, log, lost, read, installer, body, audited, made, removed, mishaps>>

Commit ==
    /\ agent = "done"
    /\ agent' = "idle"
    /\ claimed' = {}
    /\ UNCHANGED <<alertVars, log, lost, read, installer, body, audited, made, removed, mishaps>>

\* An I/O error, a call or a reply that is lost, or a crash of the agent: the
\* cycle ends where it is and the files stay as they are.
CycleFails ==
    /\ agent # "idle"
    /\ Mishap
    /\ agent' = "idle" /\ read' = {}
    /\ UNCHANGED <<alertVars, fileVars, installer, body, audited, made, removed>>

-----------------------------------------------------------------------------

Next ==
    \/ AlertsNext /\ UNCHANGED <<fileVars, agent, read, installer, body, audited, made,
                                 removed, mishaps>>
    \/ CheckUninstallPassword
    \/ WrongGuess
    \/ Refuse
    \/ Remove
    \/ RemoveUnprotected
    \/ TryReport
    \/ \E h \in Handlers : uninstall_attempt(h)
    \/ TakePending
    \/ DeleteFolded
    \/ ReportUninstallAttempts
    \/ Commit
    \/ CycleFails

Spec == Init /\ [][Next]_vars

-----------------------------------------------------------------------------

\* An attempt the installer recorded is in the log, in the claimed batch or in
\* the audit log until the agent is removed -- unless it was appended between
\* the agent's reading the log and its deleting it (UninstallAttemptLog.cs),
\* or the log was full or locked.
AttemptsAreKept ==
    removed \/ made \subseteq log \cup claimed \cup audited \cup lost

\* Every attempt an administrator can read of in the audit log has a tamper
\* alert that is not resolved (api/agent.py): the two commit together.
AuditedAttemptsAlert ==
    audited # {} => Unresolved("tamper") # {}

\* A report that arrives when no tamper alert is open -- the earlier ones were
\* acknowledged -- raises a new one: "Deduplicated per endpoint until
\* acknowledged." (api/agent.py)
NewAttemptIsRaised ==
    [][audited' # audited => \E r \in AlertIds : alert'[r] = [key |-> "tamper", status |-> "open"]]_vars
=============================================================================
