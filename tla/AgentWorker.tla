---------------------------- MODULE AgentWorker ----------------------------
(***************************************************************************)
(* The agent service of one machine (AgentWorker.cs with its               *)
(* ManagementClient, CredentialStore and AgentConfig) as the client of the *)
(* identity server of module DeviceIdentity.  Calls are lost or time out,  *)
(* after which the server still finishes them; the process may die between *)
(* any two of its steps and starts again from its two files.               *)
(***************************************************************************)
EXTENDS DeviceIdentity

CONSTANTS
    MaxMishaps,     \* bound: lost answers, failed writes and crashes together
    MaxPackages     \* bound: packages installed after the first one

ASSUME BoundsAssumption == MaxMishaps \in Nat /\ MaxPackages \in Nat
ASSUME WorkersAssumption == None \notin Workers

VARIABLES
    at,             \* where ExecuteAsync is
    worker,         \* the server thread that serves the call in progress
    credential,     \* the credential in memory
    token,          \* _config.EnrollmentToken in memory
    got,            \* the credential the last answer brought
    credFile,       \* device.cred
    configToken,    \* enrollmentToken in agent.config.json
    turnedAway,     \* history: what the server last called revoked, if it did
    mishaps,        \* how many there were
    packages

memory == <<at, worker, credential, token, got>>
disk == <<credFile, configToken>>
history == <<turnedAway, mishaps, packages>>
agentVars == <<memory, disk, history>>
allVars == <<vars, agentVars>>

Places == {"down", "ended", "enroll", "enrolling", "save_credential", "save_config",
           "beat", "beating", "rotate", "rotating", "save_rotated", "save_refused"}
Writing == {"save_credential", "save_config", "save_rotated", "save_refused"}

Mishap == mishaps < MaxMishaps /\ mishaps' = mishaps + 1

-----------------------------------------------------------------------------
(* Calls                                                                   *)

\* Send a request to an idle server thread and wait for the answer.
CallServer(r, place) ==
    /\ \E w \in Workers : Receive(w, r) /\ worker' = w
    /\ at' = place
    /\ UNCHANGED <<credential, token, got, disk, history>>

\* The answer to the call in progress.
AnswerTo(place) == at = place /\ Answered(worker) /\ worker' = None
Answer == req[worker]

\* Where a call that fails in transport leaves the agent: it tries again.
Retry == [enrolling |-> "enroll", beating |-> "beat", rotating |-> "beat"]

\* The connection breaks, the 30 seconds are over or the service is asked to
\* stop: the agent gives up, the server does not.
CallLost ==
    /\ at \in DOMAIN Retry
    /\ Mishap
    /\ at' = Retry[at]
    /\ worker' = None
    /\ UNCHANGED <<vars, credential, token, got, disk, turnedAway, packages>>

\* The server's answer to a call that was given up goes nowhere.
AnswerLost ==
    /\ \E w \in Workers \ {worker} : Answered(w)
    /\ UNCHANGED agentVars

-----------------------------------------------------------------------------
(* Start and enrollment                                                    *)

\* ExecuteAsync: the configuration and the credential are read from disk; a
\* credential wins over a token.
Start ==
    /\ at = "down"
    /\ token' = configToken
    /\ credential' = credFile
    /\ at' = CASE credFile # None -> "beat"
               [] credFile = None /\ configToken # None -> "enroll"
               [] OTHER -> "ended"
    /\ UNCHANGED <<vars, worker, got, disk, history>>

\* One turn of EnrollAsync's loop.  Without a token the server answers 400,
\* which is retried like a broken connection.
EnrollSend ==
    /\ at = "enroll" /\ token # None
    /\ CallServer(EnrollRequest(token), "enrolling")

EnrollAnswer ==
    /\ AnswerTo("enrolling")
    /\ got' = Answer.cred
    /\ at' = IF Answer.result = "enrolled" THEN "save_credential" ELSE "ended"
    /\ UNCHANGED <<credential, token, disk, history>>

\* CredentialStore.Save, then the token is forgotten in memory ...
SaveCredential ==
    /\ at = "save_credential"
    /\ credFile' = got
    /\ token' = None
    /\ at' = "save_config"
    /\ UNCHANGED <<vars, worker, credential, got, configToken, history>>

\* ... and on disk.
SaveConfig ==
    /\ at = "save_config"
    /\ configToken' = token
    /\ credential' = got /\ got' = None
    /\ at' = "beat"
    /\ UNCHANGED <<vars, worker, token, credFile, history>>

-----------------------------------------------------------------------------
(* Heartbeats                                                              *)

BeatSend == at = "beat" /\ CallServer(AgentRequest("heartbeat", credential), "beating")

\* The answer may carry the warning that asks for a rotation.
BeatOk ==
    /\ AnswerTo("beating")
    /\ Answer.result = "ok"
    /\ at' \in {"beat", "rotate"}
    /\ UNCHANGED <<credential, token, got, disk, history>>

\* Mutant of Renewable: whatever the server refuses may be replaced.
RenewableAlways(result) == result # "ok"

\* CredentialRejectedException.Renewable
Renewable(result) == result \in {"unknown_credential", "expired"}

\* Remembers whether a refusal says "revoked", and whether the credential is: a
\* deleted endpoint's credential is refused in the same words.
Refused ==
    /\ AnswerTo("beating")
    /\ Answer.result # "ok"
    /\ turnedAway' = CASE Answer.result # "revoked" -> turnedAway
                       [] Answer.result = "revoked" /\ credential \in revoked -> "credential"
                       [] OTHER -> "endpoint"
    /\ UNCHANGED <<credential, got, mishaps, packages>>

\* The server has no record of the credential or it ran out: it is dropped, and
\* replaced if there is a token.
BeatRenews ==
    /\ Refused
    /\ Renewable(Answer.result)
    /\ credFile' = None
    /\ at' = IF token # None THEN "enroll" ELSE "ended"
    /\ UNCHANGED <<token, configToken>>

\* An administrator turned the device away: the dead credential stays, a token
\* goes.
BeatRefused ==
    /\ Refused
    /\ ~Renewable(Answer.result)
    /\ token' = None
    /\ at' = IF token # None THEN "save_refused" ELSE "ended"
    /\ UNCHANGED disk

SaveRefused ==
    /\ at = "save_refused"
    /\ configToken' = token
    /\ at' = "ended"
    /\ UNCHANGED <<vars, worker, credential, token, got, credFile, history>>

-----------------------------------------------------------------------------
(* Rotation                                                                *)

RotateSend == at = "rotate" /\ CallServer(AgentRequest("rotate", credential), "rotating")

\* RotateAsync takes every failure as a reason to go on as before.
RotateAnswer ==
    /\ AnswerTo("rotating")
    /\ got' = Answer.cred
    /\ at' = IF Answer.result = "rotated" THEN "save_rotated" ELSE "beat"
    /\ UNCHANGED <<credential, token, disk, history>>

\* Mutant of SaveRotated: the new credential is taken into use but not kept.
SaveRotatedInMemoryOnly ==
    /\ at = "save_rotated"
    /\ credential' = got /\ got' = None
    /\ at' = "beat"
    /\ UNCHANGED <<vars, worker, token, disk, history>>

SaveRotated ==
    /\ at = "save_rotated"
    /\ credFile' = got
    /\ credential' = got /\ got' = None
    /\ at' = "beat"
    /\ UNCHANGED <<vars, worker, token, configToken, history>>

-----------------------------------------------------------------------------
(* Failures and maintenance                                                *)

\* A write to disk throws.  EnrollAsync takes that for a transport failure and
\* tries again, by then perhaps without a token; RotateAsync goes on with the
\* old credential; in the handler of a refusal it ends the service.
SaveFails ==
    /\ at \in Writing
    /\ Mishap
    /\ at' = CASE at \in {"save_credential", "save_config"} -> "enroll"
               [] at = "save_rotated" -> "beat"
               [] OTHER -> "ended"
    /\ got' = None
    /\ UNCHANGED <<vars, worker, credential, token, disk, turnedAway, packages>>

\* The process is gone, with all it had in memory.
Dies ==
    /\ at' = "down"
    /\ worker' = None /\ credential' = None /\ token' = None /\ got' = None
    /\ UNCHANGED <<vars, disk, turnedAway, packages>>

\* The service is stopped while it waits, or after ExecuteAsync returned.
Waiting == {"enroll", "beat", "ended"}
Stops == at \in Waiting /\ Dies /\ UNCHANGED mishaps

Crash == at \notin Waiting \cup {"down"} /\ Mishap /\ Dies

\* A later package (an upgrade) brings a token and keeps the data folder; a
\* reinstallation or reset-enrollment also removes the credential, the latter
\* perhaps without a new token.  All find the service stopped.
Deploys(t) ==
    /\ at = "down"
    /\ packages < MaxPackages
    /\ packages' = packages + 1
    /\ configToken' = t
    /\ UNCHANGED <<vars, memory, mishaps>>

Upgrade(t) == Deploys(t) /\ UNCHANGED <<credFile, turnedAway>>

Reinstall(t) == Deploys(t) /\ credFile' = None /\ turnedAway' = "nothing"

-----------------------------------------------------------------------------

AgentInit ==
    /\ Init
    /\ at = "down" /\ worker = None /\ credential = None /\ token = None /\ got = None
    /\ credFile = None
    /\ configToken \in Tokens
    /\ turnedAway = "nothing" /\ mishaps = 0 /\ packages = 0

AgentStep ==
    \/ Start
    \/ EnrollSend
    \/ EnrollAnswer
    \/ SaveCredential
    \/ SaveConfig
    \/ BeatSend
    \/ BeatOk
    \/ BeatRenews
    \/ BeatRefused
    \/ SaveRefused
    \/ RotateSend
    \/ RotateAnswer
    \/ SaveRotated

\* The server, its administrators and its clock.
ServerStep ==
    /\ \/ \E w \in Workers : Serve(w)
       \/ \E a \in Admins : Administer(a)
       \/ \E t \in Tokens : revoke_token(t) \/ TokenExpires(t)
       \/ \E c \in CredentialIds : CredentialExpires(c)
    /\ UNCHANGED agentVars

AgentNext ==
    \/ AgentStep
    \/ ServerStep
    \/ CallLost
    \/ AnswerLost
    \/ SaveFails
    \/ Stops
    \/ Crash
    \/ \E t \in Tokens : Upgrade(t)
    \/ \E t \in Tokens \cup {configToken} : Reinstall(t)

AgentSpec == AgentInit /\ [][AgentNext]_allVars

-----------------------------------------------------------------------------
(* Properties                                                              *)

\* Types of the agent's state; what it has in hand fits where it is.
AgentTypeOK ==
    /\ at \in Places
    /\ worker \in Workers \cup {None}
    /\ {credential, got, credFile} \subseteq CredentialIds \cup {None}
    /\ {token, configToken} \subseteq Tokens \cup {None}
    /\ turnedAway \in {"nothing", "credential", "endpoint"}
    /\ mishaps \in 0 .. MaxMishaps /\ packages \in 0 .. MaxPackages
    /\ (worker # None) = (at \in {"enrolling", "beating", "rotating"})
    /\ (got # None) = (at \in {"save_credential", "save_config", "save_rotated"})
    /\ at \in {"beat", "beating", "rotate", "rotating", "save_rotated"} => credential # None

\* A device whose credential an administrator revoked never enrolls again by
\* itself, whatever crashes and whatever token a later package brings: "Keep the
\* dead credential, so every restart gets the same answer instead of enrolling
\* afresh" (HeartbeatLoopAsync).
TurnedAwayStaysOut == turnedAway = "credential" => at \notin {"enroll", "enrolling"}

\* Is a credential in the agent's hands, or in an answer on its way to it?
Held(c) ==
    \/ c \in {credFile, got}
    \/ worker # None /\ req[worker].stage = "reply" /\ req[worker].cred = c

\* While every answer arrives, every write succeeds and the process is only
\* stopped when it waits, each credential the server would accept is on the
\* agent's disk or about to be: enrollments and rotations leave no working
\* secret behind.
EveryWorkingCredentialIsHeld ==
    mishaps + packages = 0 =>
        \A c \in CredentialIds : authenticate(c) = "ok" => Held(c)

\* "An administrator turned this device away (disabled, deleted or revoked)"
\* (HeartbeatLoopAsync), and of a failed rotation "Keep using the current
\* credential: it still works until it does not, and the warning will fire again
\* on the next heartbeat" (RotateAsync): nothing the device does by itself makes
\* the server refuse it as revoked.
OnlyAdministratorsTurnAway == Admins = {} => turnedAway = "nothing"
=============================================================================
