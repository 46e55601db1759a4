----------------------------- MODULE ScreenHub -----------------------------
(***************************************************************************)
(* The in-process relay of server/app/services/screen_hub.py, for one      *)
(* endpoint (every dictionary of the hub is keyed by endpoint id and no    *)
(* operation touches two keys).                                            *)
(*                                                                         *)
(* The server is threaded.  A hub method computes what to send while it    *)
(* holds the hub lock and sends after it has let the lock go, so the unit  *)
(* of interleaving is the locked section and the send, not the method.     *)
(* Every server thread has a stack of calls it has still to make: an       *)
(* action performs the call on top of one thread's stack and may push the  *)
(* calls that the method makes after its locked section.                   *)
(***************************************************************************)
EXTENDS Naturals, Sequences, FiniteSets

CONSTANTS
    AgentConns,     \* WebSockets the endpoint's agent may open
    Viewers,        \* WebSockets consoles may open to watch the endpoint
    Admins,         \* request threads that change recording policies
    None,           \* no connection, no recorder, no policy, not known
    LiveFps,        \* SCREEN_TARGET_FPS
    Overlap         \* may two threads be inside handlers at the same time?

ASSUME OverlapAssumption == Overlap \in BOOLEAN
ASSUME LiveFpsAssumption == LiveFps \in Nat \ {0}
ASSUME ThreadsAssumption ==
    /\ None \notin AgentConns \cup Viewers \cup Admins
    /\ AgentConns \cap Viewers = {}
    /\ AgentConns \cap Admins = {}
    /\ Viewers \cap Admins = {}

Threads == AgentConns \cup Viewers \cup Admins

VARIABLES
    agent,          \* hub._agents[endpoint], None when absent
    viewers,        \* hub._viewers[endpoint]
    recording,      \* hub._recording[endpoint]: a frame rate, None when absent
    lastFrame,      \* is there a hub._last_frame[endpoint]?
    monitors,       \* hub._monitors[endpoint]: screen class, None when absent
    calls,          \* per thread, the calls it has still to make
    inbox,          \* per agent connection, messages on their way to the agent
    up,             \* the agent and viewer connections whose link is alive
    lastReg         \* history: the connection that registered last

hubVars == <<agent, viewers, recording, lastFrame, monitors, lastReg>>

-----------------------------------------------------------------------------
(* Calls and messages                                                      *)

Call(op) == [op |-> op]

\* send_text on an agent's connection
Send(conn, msg) == [op |-> "send", conn |-> conn, msg |-> msg]

\* _should_capture, over the values a locked section leaves behind
ShouldCapture(vs, rec) == vs # {} \/ rec # None

\* Mutant of StartMessage: the live rate whatever is recorded.
StartMessageAtLiveRate(rec) == [type |-> "start", fps |-> LiveFps, allowSkip |-> rec = None]

\* The start message of _tell_agent_start: the recorder's rate and no skipping
\* of unchanged frames while recording, the live rate otherwise.
StartMessage(rec) ==
    [type |-> "start", fps |-> IF rec = None THEN LiveFps ELSE rec, allowSkip |-> rec = None]

StopMessage == [type |-> "stop"]
SupersededMessage == [type |-> "superseded"]
SetMonitorMessage(i) == [type |-> "set_monitor", index |-> i]

\* With Overlap a thread may run at any time; without it a handler that has
\* begun runs to its end before another thread's handler makes a step.
MayRun(t) == Overlap \/ \A u \in Threads \ {t} : calls[u] = <<>>

Calling(t, op) == calls[t] # <<>> /\ Head(calls[t]).op = op /\ MayRun(t)

\* Thread t finishes the call on top of its stack and has `more` to do first.
Return(t, more) == calls' = [calls EXCEPT ![t] = more \o Tail(@)]

\* WsConnection._send on an agent's connection: text for a dead peer is lost
\* (the agent side of the protocol never learns of it).
Delivered(conn, msg) ==
    IF conn \in up THEN [inbox EXCEPT ![conn] = Append(@, msg)] ELSE inbox

-----------------------------------------------------------------------------
(* The agent's side                                                        *)

\* register_agent: the newer connection replaces the older one, which is told
\* so inside the locked section.
register_agent(t) ==
    /\ Calling(t, "register_agent")
    /\ inbox' = IF agent \notin {None, t} THEN Delivered(agent, SupersededMessage) ELSE inbox
    /\ agent' = t
    /\ lastReg' = t
    /\ Return(t, IF ShouldCapture(viewers, recording) THEN <<Call("tell_agent_start")>> ELSE <<>>)
    /\ UNCHANGED <<viewers, recording, lastFrame, monitors, up>>

\* Mutant of EndsRegistration: the identity test is missing.
EndsAnyRegistration(conn) == agent # None

\* Is the connection that goes away the registered one?
EndsRegistration(conn) == agent = conn

\* unregister_agent: only the registered connection takes the registration,
\* the last frame and the monitor list with it.
unregister_agent(t) ==
    /\ Calling(t, "unregister_agent")
    /\ IF EndsRegistration(t)
       THEN agent' = None /\ lastFrame' = FALSE /\ monitors' = None
       ELSE UNCHANGED <<agent, lastFrame, monitors>>
    /\ Return(t, <<>>)
    /\ UNCHANGED <<viewers, recording, lastReg, inbox, up>>

\* on_agent_frame: remember the frame, then send it to the viewers there were.
on_agent_frame(t) ==
    /\ Calling(t, "on_agent_frame")
    /\ lastFrame' = TRUE
    /\ Return(t, <<[op |-> "fan_out", to |-> viewers]>>)
    /\ UNCHANGED <<agent, viewers, recording, monitors, lastReg, inbox, up>>

\* One send of the fan-out.  A viewer whose link is dead may still take the
\* bytes (buffered) or make the send fail, which drops it from the hub.
fan_out(t) ==
    /\ Calling(t, "fan_out")
    /\ LET to == Head(calls[t]).to IN
       \/ to = {} /\ Return(t, <<>>)
       \/ \E v \in to :
            \/ Return(t, <<[op |-> "fan_out", to |-> to \ {v}]>>)
            \/ /\ v \notin up
               /\ Return(t, <<[op |-> "drop_viewer", conn |-> v],
                              [op |-> "fan_out", to |-> to \ {v}]>>)
    /\ UNCHANGED <<hubVars, inbox, up>>

\* on_agent_monitors: remember the screen class of the agent's monitor list.
on_agent_monitors(t) ==
    /\ Calling(t, "on_agent_monitors")
    /\ monitors' = Head(calls[t]).monitors
    /\ Return(t, <<>>)
    /\ UNCHANGED <<agent, viewers, recording, lastFrame, lastReg, inbox, up>>

-----------------------------------------------------------------------------
(* The viewers' side                                                       *)

\* register_viewer: the first viewer of an endpoint whose agent is connected
\* has the agent told to start.
register_viewer(t) ==
    /\ Calling(t, "register_viewer")
    /\ viewers' = viewers \cup {t}
    /\ Return(t, IF viewers = {} /\ agent # None THEN <<Call("tell_agent_start")>> ELSE <<>>)
    /\ UNCHANGED <<agent, recording, lastFrame, monitors, lastReg, inbox, up>>

\* Mutant of ViewersWithout: a viewer is removed only with the whole set.
ViewersUnlessLast(conn) == IF viewers = {conn} THEN {} ELSE viewers

ViewersWithout(conn) == viewers \ {conn}

\* Mutant of DropStops: it is asked before the viewer is taken out.
DropStopsTooEarly(conn) == ~ShouldCapture(viewers, recording) /\ agent # None

\* Mutant of DropStops: a recording does not keep the agent capturing.
DropStopsAlways(conn) == viewers = {conn} /\ agent # None

\* Is the viewer that goes the last reason to capture?
DropStops(conn) == viewers = {conn} /\ ~ShouldCapture({}, recording) /\ agent # None

\* _drop_viewer: when the last viewer goes and nothing records, the agent is
\* told to stop.
drop_viewer(t) ==
    /\ Calling(t, "drop_viewer")
    /\ LET conn == Head(calls[t]).conn IN
       /\ viewers' = ViewersWithout(conn)
       /\ Return(t, IF DropStops(conn) THEN <<Send(agent, StopMessage)>> ELSE <<>>)
    /\ UNCHANGED <<agent, recording, lastFrame, monitors, lastReg, inbox, up>>

\* set_monitor: hand a viewer's choice of monitor to the agent.
set_monitor(t) ==
    /\ Calling(t, "set_monitor")
    /\ Return(t, IF agent = None THEN <<>>
                 ELSE <<Send(agent, SetMonitorMessage(Head(calls[t]).index))>>)
    /\ UNCHANGED <<hubVars, inbox, up>>

-----------------------------------------------------------------------------
(* Recording's side                                                        *)

\* start_recording
start_recording(t) ==
    /\ Calling(t, "start_recording")
    /\ recording' = Head(calls[t]).fps
    /\ Return(t, IF agent # None THEN <<Call("tell_agent_start")>> ELSE <<>>)
    /\ UNCHANGED <<agent, viewers, lastFrame, monitors, lastReg, inbox, up>>

\* Stop the agent, or put it back in live mode for the viewers that are still
\* there.
AfterRecording ==
    CASE agent = None -> <<>>
      [] agent # None /\ ~ShouldCapture(viewers, None) -> <<Send(agent, StopMessage)>>
      [] OTHER -> <<Call("tell_agent_start")>>

\* stop_recording
stop_recording(t) ==
    /\ Calling(t, "stop_recording")
    /\ recording' = None
    /\ Return(t, AfterRecording)
    /\ UNCHANGED <<agent, viewers, lastFrame, monitors, lastReg, inbox, up>>

\* _tell_agent_start: a locked read of the agent and of the recording rate...
tell_agent_start(t) ==
    /\ Calling(t, "tell_agent_start")
    /\ Return(t, IF agent = None THEN <<>> ELSE <<Send(agent, StartMessage(recording))>>)
    /\ UNCHANGED <<hubVars, inbox, up>>

\* ...and, like every other message to an agent, a send outside the lock.
send_text(t) ==
    /\ Calling(t, "send")
    /\ inbox' = Delivered(Head(calls[t]).conn, Head(calls[t]).msg)
    /\ Return(t, <<>>)
    /\ UNCHANGED <<hubVars, up>>

HubStep(t) ==
    \/ register_agent(t)
    \/ unregister_agent(t)
    \/ on_agent_frame(t)
    \/ fan_out(t)
    \/ on_agent_monitors(t)
    \/ register_viewer(t)
    \/ drop_viewer(t)
    \/ set_monitor(t)
    \/ start_recording(t)
    \/ stop_recording(t)
    \/ tell_agent_start(t)
    \/ send_text(t)

HubInit ==
    /\ agent = None
    /\ viewers = {}
    /\ recording = None
    /\ lastFrame = FALSE
    /\ monitors = None
    /\ lastReg = None
    /\ calls = [t \in Threads |-> <<>>]
    /\ inbox = [c \in AgentConns |-> <<>>]
    /\ up = {}
=============================================================================
