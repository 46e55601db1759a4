---------------------------- MODULE ScreenServer ----------------------------
(***************************************************************************)
(* The whole live-screen path of one endpoint: the two WebSocket handlers  *)
(* of server/app/api/screen_ws.py over the hub and recording control, the  *)
(* ScreenStreamer of the agent at the other end of each agent connection,  *)
(* consoles that come and go, and administrators who change policies.      *)
(*                                                                         *)
(* The tray helper that hosts the streamer is one per interactive Windows  *)
(* session (TrayApplication.cs), all with the same device credential, so   *)
(* an endpoint may have one streamer per session.  A streamer uses one     *)
(* connection at a time and opens a new one after a drop.                  *)
(***************************************************************************)
EXTENDS RecordingControl, Functions

CONSTANTS
    Sessions,       \* interactive sessions of the endpoint, each with a streamer
    Screen,         \* class of the endpoint's primary monitor: "hd" or "uhd"
    LateDetection,  \* may the agent be back before the server noticed the drop?
    MaxOutbox,      \* bound: a frame is sent only behind fewer messages in flight
    MaxSwitches     \* bound: set_monitor requests by viewers

ASSUME ScreenAssumption == Screen \in {"hd", "uhd"}
ASSUME EnvironmentAssumption ==
    LateDetection \in BOOLEAN /\ MaxOutbox \in Nat /\ MaxSwitches \in Nat
ASSUME NoneIsNoCapture == None \notin [fps: Nat, allowSkip: BOOLEAN]

VARIABLES
    phase,          \* of a socket: "new", "open" (receive loop), "closing"
    owner,          \* the session whose streamer opened an agent connection
    outbox,         \* per agent connection, messages on their way to the server
    capture,        \* per agent connection, the capture loop's settings or None
    monitor,        \* per session, the monitor the streamer captures
    switches        \* set_monitor requests made

socketVars == <<phase, owner, outbox, capture, monitor, switches>>
vars == <<hubVars, calls, inbox, up, recordingVars, socketVars>>

Sockets == AgentConns \cup Viewers
PrimaryMonitor == 0
OtherMonitor == 1

\* A socket's handler has ended: its finally block ran to the end.
Done(s) == phase[s] = "closing" /\ calls[s] = <<>>

Quiescent ==
    /\ \A t \in Threads : calls[t] = <<>>
    /\ \A c \in AgentConns : inbox[c] = <<>> /\ outbox[c] = <<>>
    /\ \A s \in Sockets : phase[s] = "open" => s \in up

-----------------------------------------------------------------------------
(* agent_socket                                                            *)

\* ConnectAndServeAsync opens the socket and sends the monitor list first; the
\* server's handler registers the connection.
AgentConnect(c, s) ==
    /\ phase[c] = "new"
    /\ MayRun(c)
    /\ \A d \in AgentConns : owner[d] = s =>
         /\ d \notin up
         /\ LateDetection \/ Done(d)
    /\ phase' = [phase EXCEPT ![c] = "open"]
    /\ owner' = [owner EXCEPT ![c] = s]
    /\ up' = up \cup {c}
    /\ outbox' = [outbox EXCEPT ![c] = <<"monitors">>]
    /\ calls' = [calls EXCEPT ![c] = <<Call("register_agent")>>]
    /\ UNCHANGED <<hubVars, inbox, recordingVars, capture, monitor, switches>>

\* One turn of the handler's receive loop: a frame goes to the hub and to the
\* recorder, a monitor list to the hub and then to recording control.
AgentSocketReceive(c) ==
    /\ phase[c] = "open" /\ calls[c] = <<>>
    /\ MayRun(c)
    /\ outbox[c] # <<>>
    /\ calls' = [calls EXCEPT ![c] =
         IF Head(outbox[c]) = "frame"
         THEN <<Call("on_agent_frame")>>
         ELSE <<[op |-> "on_agent_monitors", monitors |-> Screen], Call("on_agent_connected")>>]
    /\ outbox' = [outbox EXCEPT ![c] = Tail(@)]
    /\ UNCHANGED <<hubVars, inbox, up, recordingVars, phase, owner, capture, monitor, switches>>

\* The receive loop ends on a dead socket; the finally block stops the
\* endpoint's recording and unregisters the connection.
AgentSocketClose(c) ==
    /\ phase[c] = "open" /\ calls[c] = <<>>
    /\ MayRun(c)
    /\ c \notin up /\ outbox[c] = <<>>
    /\ phase' = [phase EXCEPT ![c] = "closing"]
    /\ calls' = [calls EXCEPT ![c] = <<Call("on_agent_disconnected"), Call("unregister_agent")>>]
    /\ UNCHANGED <<hubVars, inbox, up, recordingVars, owner, outbox, capture, monitor, switches>>

-----------------------------------------------------------------------------
(* viewer_socket                                                           *)

ViewerConnect(v) ==
    /\ phase[v] = "new"
    /\ MayRun(v)
    /\ phase' = [phase EXCEPT ![v] = "open"]
    /\ up' = up \cup {v}
    /\ calls' = [calls EXCEPT ![v] = <<Call("register_viewer")>>]
    /\ UNCHANGED <<hubVars, inbox, recordingVars, owner, outbox, capture, monitor, switches>>

ViewerSetMonitor(v) ==
    /\ phase[v] = "open" /\ calls[v] = <<>> /\ v \in up
    /\ MayRun(v)
    /\ switches < MaxSwitches
    /\ switches' = switches + 1
    /\ \E i \in {PrimaryMonitor, OtherMonitor} :
         calls' = [calls EXCEPT ![v] = <<[op |-> "set_monitor", index |-> i]>>]
    /\ UNCHANGED <<hubVars, inbox, up, recordingVars, phase, owner, outbox, capture, monitor>>

ViewerSocketClose(v) ==
    /\ phase[v] = "open" /\ calls[v] = <<>> /\ v \notin up
    /\ MayRun(v)
    /\ phase' = [phase EXCEPT ![v] = "closing"]
    /\ calls' = [calls EXCEPT ![v] = <<[op |-> "drop_viewer", conn |-> v]>>]
    /\ UNCHANGED <<hubVars, inbox, up, recordingVars, owner, outbox, capture, monitor, switches>>

\* A console closes its tab, or its link dies.
ViewerLeaves(v) ==
    /\ v \in up /\ phase[v] = "open"
    /\ up' = up \ {v}
    /\ UNCHANGED <<hubVars, calls, inbox, recordingVars, socketVars>>

-----------------------------------------------------------------------------
(* ScreenStreamer                                                          *)

\* HandleControl: start replaces the capture loop, stop ends it, set_monitor is
\* read by the running loop; "superseded" is not a message the agent knows.
HandleControl(c) ==
    /\ c \in up
    /\ inbox[c] # <<>>
    /\ LET msg == Head(inbox[c]) IN
       /\ capture' = [capture EXCEPT ![c] =
            CASE msg.type = "start" -> [fps |-> msg.fps, allowSkip |-> msg.allowSkip]
              [] msg.type = "stop" -> None
              [] OTHER -> @]
       /\ monitor' = IF msg.type = "set_monitor"
                     THEN [monitor EXCEPT ![owner[c]] = msg.index] ELSE monitor
    /\ inbox' = [inbox EXCEPT ![c] = Tail(@)]
    /\ UNCHANGED <<hubVars, calls, up, recordingVars, phase, owner, outbox, switches>>

\* CaptureInProcessAsync: the capture loop sends a frame.
SendFrame(c) ==
    /\ c \in up
    /\ capture[c] # None
    /\ Len(outbox[c]) < MaxOutbox
    /\ outbox' = [outbox EXCEPT ![c] = Append(@, "frame")]
    /\ UNCHANGED <<hubVars, calls, inbox, up, recordingVars, phase, owner, capture, monitor, switches>>

\* The link of an agent connection dies: RunAsync stops the capture; what was in
\* flight to the agent is lost, what was in flight to the server may be.
AgentDrops(c) ==
    /\ c \in up
    /\ up' = up \ {c}
    /\ capture' = [capture EXCEPT ![c] = None]
    /\ inbox' = [inbox EXCEPT ![c] = <<>>]
    /\ outbox' \in {outbox, [outbox EXCEPT ![c] = <<>>]}
    /\ UNCHANGED <<hubVars, calls, recordingVars, phase, owner, monitor, switches>>

-----------------------------------------------------------------------------

Init ==
    /\ HubInit
    /\ RecordingInit
    /\ phase = [s \in Sockets |-> "new"]
    /\ owner = [c \in AgentConns |-> None]
    /\ outbox = [c \in AgentConns |-> <<>>]
    /\ capture = [c \in AgentConns |-> None]
    /\ monitor = [s \in Sessions |-> PrimaryMonitor]
    /\ switches = 0

\* What a server thread does of its own accord, once a socket is open.
ServerStep(t) ==
    \/ HubStep(t) /\ UNCHANGED <<recordingVars, socketVars>>
    \/ RecordingStep(t) /\ UNCHANGED socketVars
    \/ t \in AgentConns /\ (AgentSocketReceive(t) \/ AgentSocketClose(t))
    \/ t \in Viewers /\ ViewerSocketClose(t)

Next ==
    \/ \E t \in Threads : ServerStep(t)
    \/ \E t \in Admins : AdminRequest(t) /\ UNCHANGED socketVars
    \/ \E c \in AgentConns : \/ \E s \in Sessions : AgentConnect(c, s)
                             \/ HandleControl(c)
                             \/ SendFrame(c)
                             \/ AgentDrops(c)
    \/ \E v \in Viewers : ViewerConnect(v) \/ ViewerSetMonitor(v) \/ ViewerLeaves(v)

Spec == Init /\ [][Next]_vars

\* Threads the operating system schedules make progress, and so does the
\* streamer's receive loop.  People and networks owe nothing.
Fairness ==
    /\ \A t \in Threads : WF_vars(ServerStep(t))
    /\ \A c \in AgentConns : WF_vars(HandleControl(c))

FairSpec == Spec /\ Fairness

-----------------------------------------------------------------------------
(* Properties                                                              *)

Messages ==
    {StopMessage, SupersededMessage} \cup {SetMonitorMessage(i) : i \in {PrimaryMonitor, OtherMonitor}}
        \cup {StartMessage(r) : r \in {None} \cup PolicyFps \cup {Fps4K}}

\* Types of the hub's dictionaries, the recorder registry, the sockets and the
\* streamers.
TypeOK ==
    /\ agent \in AgentConns \cup {None} /\ lastReg \in AgentConns \cup {None}
    /\ viewers \subseteq Viewers
    /\ recording \in {None, Fps4K} \cup PolicyFps
    /\ lastFrame \in BOOLEAN /\ monitors \in {None, Screen}
    /\ \A c \in AgentConns : \A i \in DOMAIN inbox[c] : inbox[c][i] \in Messages
    /\ up \subseteq Sockets
    /\ registry \in {None} \cup DOMAIN recorders
    /\ \A r \in DOMAIN recorders :
         recorders[r].state \in {"created", "running", "cancelled", "stopped"}
    /\ phase \in [Sockets -> {"new", "open", "closing"}]
    /\ owner \in [AgentConns -> Sessions \cup {None}]
    /\ capture \in [AgentConns ->
         {None} \cup [fps: PolicyFps \cup {Fps4K, LiveFps}, allowSkip: BOOLEAN]]

\* However connects, reconnects and teardowns of agent sockets interleave, the
\* hub's agent is the connection that registered last, and nothing once that
\* connection's handler has ended: a superseded connection never evicts its
\* successor, and no dead connection stays registered (register_agent and the
\* identity test of unregister_agent).
RegistrationTracksNewest ==
    agent = IF lastReg # None /\ ~Done(lastReg) THEN lastReg ELSE None

\* A console whose socket is open and alive is in the hub's viewer set from the
\* end of register_viewer on, whatever the fan-out drops meanwhile; a console
\* whose handler has ended is not in it, so no departed viewer keeps the
\* endpoint captured.
ViewersAreOpenSockets ==
    /\ \A v \in viewers : phase[v] # "new" /\ ~Done(v)
    /\ \A v \in Viewers :
         phase[v] = "open" /\ v \in up /\ Call("register_viewer") \notin Range(calls[v])
            => v \in viewers

\* Once every handler is idle, a registered recorder is one the hub keeps the
\* agent capturing for: on_agent_disconnected ends the hub's demand before it
\* takes the recorder out, on_agent_connected registers it before it demands.
RecorderIsFed == Quiescent /\ registry # None => recording # None

\* When all is quiet the registered agent captures exactly when somebody
\* watches or something records, and otherwise nothing captures: "When the last
\* viewer leaves, the agent is told to stop -- an endpoint is never captured
\* with nobody watching" (screen_hub.py, with recording counted as a viewer).
CaptureMatchesDemand ==
    Quiescent =>
        /\ agent # None /\ ShouldCapture(viewers, recording) => capture[agent] # None
        /\ ~ShouldCapture(viewers, recording) => \A c \in AgentConns : capture[c] = None

\* While a recorder runs the agent captures at exactly the recorder's rate and
\* sends every frame: "the recorder's timeline assumes a steady frame rate, so
\* the two must not disagree" (screen_hub.py, _recording).
RatesAgree ==
    Quiescent /\ registry # None /\ agent # None =>
        /\ recording = recorders[registry].fps
        /\ capture[agent] = [fps |-> recorders[registry].fps, allowSkip |-> FALSE]

\* A connected agent of an endpoint that a policy covers is recorded: recording
\* "runs the whole time the agent is present, independent of any live viewer"
\* (recording_control.py).
RecordsWhilePresent ==
    Quiescent /\ agent # None /\ resolve_policy # None /\ failures = 0 => registry # None

\* A recorder runs only for a connected agent of an endpoint that a policy
\* covers: "when the agent disconnects, recording stops" (recording_control.py),
\* and _apply_policy_change stops recorders "right now" (recordings.py).
RecordsOnlyUnderPolicy ==
    Quiescent /\ registry # None => agent # None /\ resolve_policy # None

\* "One Recorder per endpoint being recorded" (recorder.py): no two recorders
\* have their FFmpeg running for the endpoint when all is quiet.
OneRecorderRuns ==
    Quiescent => \A r \in DOMAIN recorders : recorders[r].state = "running" => r = registry

\* The same however handlers overlap, as long as every launch succeeds: also a
\* recorder that is stopped between its registration and its launch, or while
\* another is being started, is not left running with nobody to stop it.
OneRecorderUnlessLaunchFails == failures = 0 => OneRecorderRuns

\* If from some point on nobody watches and nothing records, capture ends for
\* good: no stop is lost to an agent that stays connected, and no later start
\* undoes it.
UnwatchedCaptureEnds ==
    <>[](~ShouldCapture(viewers, recording)) => <>[](\A c \in AgentConns : capture[c] = None)
=============================================================================
