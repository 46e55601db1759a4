------------------------- MODULE ScreenServerProofs -------------------------
(***************************************************************************)
(* Proofs about ScreenServer: first for threads that overlap in any way,   *)
(* then for handlers that run one at a time.                               *)
(***************************************************************************)
EXTENDS ScreenServer, SequenceTheorems, TLAPS

-----------------------------------------------------------------------------
(* The types of all state, the calls on the stacks included.                 *)

Rates == PolicyFps \cup {Fps4K}

PlainCalls ==
    [op: {"register_agent", "unregister_agent", "on_agent_frame", "register_viewer",
          "tell_agent_start", "stop_recording", "on_agent_connected", "connected_resolve",
          "manager_forget", "on_agent_disconnected", "manager_stop", "refresh_endpoint",
          "refresh_resolve"}]
SendCalls == [op: {"send"}, conn: AgentConns, msg: Messages]
FanOutCalls == [op: {"fan_out"}, to: SUBSET Viewers]
DropCalls == [op: {"drop_viewer"}, conn: Viewers]
MonitorsCalls == [op: {"on_agent_monitors"}, monitors: {Screen}]
SetMonitorCalls == [op: {"set_monitor"}, index: {PrimaryMonitor, OtherMonitor}]
RateCalls ==
    [op: {"start_recording", "manager_start"}, fps: Rates]
        \cup [op: {"connected_rate"}, base: PolicyFps]
RecorderCalls == [op: {"recorder_start", "recorder_stop"}, rec: DOMAIN recorders]
DecideCalls == [op: {"refresh_decide"}, covered: BOOLEAN]

Calls ==
    PlainCalls \cup SendCalls \cup FanOutCalls \cup DropCalls \cup MonitorsCalls
        \cup SetMonitorCalls \cup RateCalls \cup RecorderCalls \cup DecideCalls

Policies == {None} \cup [fps: PolicyFps, enabled: BOOLEAN]
Recorders == [fps: Rates, state: {"created", "running", "cancelled", "stopped"}]
Captures == [fps: PolicyFps \cup {Fps4K, LiveFps}, allowSkip: BOOLEAN]

HubTypeOK ==
    /\ agent \in AgentConns \cup {None} /\ lastReg \in AgentConns \cup {None}
    /\ viewers \subseteq Viewers
    /\ recording \in Rates \cup {None}
    /\ lastFrame \in BOOLEAN /\ monitors \in {None, Screen}
    /\ up \subseteq Sockets

StacksTypeOK == calls \in [Threads -> Seq(Calls)]

InboxTypeOK == inbox \in [AgentConns -> Seq(Messages)]

RecordingTypeOK ==
    /\ policies \in [TargetTypes -> Policies] /\ member \in BOOLEAN
    /\ recorders \in Seq(Recorders)
    /\ registry \in {None} \cup DOMAIN recorders
    /\ failures \in Nat /\ changes \in Nat

SocketTypeOK ==
    /\ phase \in [Sockets -> {"new", "open", "closing"}]
    /\ owner \in [AgentConns -> Sessions \cup {None}]
    /\ outbox \in [AgentConns -> Seq({"monitors", "frame"})]
    /\ capture \in [AgentConns -> {None} \cup Captures]
    /\ monitor \in [Sessions -> {PrimaryMonitor, OtherMonitor}]
    /\ switches \in Nat

ServerTypeOK == HubTypeOK /\ StacksTypeOK /\ InboxTypeOK /\ RecordingTypeOK /\ SocketTypeOK

-----------------------------------------------------------------------------
(* What a thread has to return to.                                           *)

Connecting == <<Call("on_agent_connected")>>
Stopping == <<Call("manager_stop")>>
Leaving == <<Call("unregister_agent")>>
StoppingLeaving == <<Call("manager_stop"), Call("unregister_agent")>>
FanOuts == {<<f>> : f \in FanOutCalls}

Top(t) == Head(calls[t])
Rest(t) == Tail(calls[t])

\* May a call be performed on top of what is left to do after it?
Fits(op, rest) ==
    /\ rest \in {<<>>, Connecting, Stopping, Leaving, StoppingLeaving} \cup FanOuts
    /\ rest \in FanOuts => op \in {"drop_viewer", "send"}
    /\ rest = Connecting <=> op = "on_agent_monitors"
    /\ rest \in {Stopping, StoppingLeaving} => op \in {"stop_recording", "tell_agent_start", "send"}
    /\ rest = Leaving => op \in {"manager_stop", "recorder_stop", "on_agent_disconnected"}
    /\ op = "stop_recording" => rest \in {Stopping, StoppingLeaving}

StacksFit == \A t \in Threads : calls[t] # <<>> => Fits(Top(t).op, Rest(t))

\* A socket's thread works only once the socket is open, and the thread of a
\* closing agent connection, and no other, has to unregister it at last.
StacksInPhase ==
    \A t \in Threads : calls[t] # <<>> =>
        /\ t \in Sockets => phase[t] # "new"
        /\ Top(t).op = "register_agent" => t \in AgentConns /\ phase[t] = "open"
        /\ Top(t).op = "register_viewer" => t \in Viewers /\ phase[t] = "open"
        /\ Top(t).op = "unregister_agent" \/ Rest(t) \in {Leaving, StoppingLeaving}
             <=> t \in AgentConns /\ phase[t] = "closing"

SocketsInPhase ==
    \A s \in Sockets : /\ s \in up => phase[s] # "new"
                       /\ phase[s] = "closing" => s \notin up

StackInv == StacksFit /\ StacksInPhase /\ SocketsInPhase

-----------------------------------------------------------------------------

\* The newest registration is in force until its connection is done.
RegistrationInv ==
    /\ lastReg # None => phase[lastReg] # "new"
    /\ RegistrationTracksNewest

\* What a thread drops is a viewer that was connected and whose link is dead.
DropsTheDead(t) ==
    calls[t] # <<>> =>
        /\ Top(t).op = "drop_viewer" => Top(t).conn \notin up /\ phase[Top(t).conn] # "new"
        /\ Top(t).op = "fan_out" => \A v \in Top(t).to : phase[v] # "new"
        /\ Rest(t) \in FanOuts => \A v \in Head(Rest(t)).to : phase[v] # "new"

\* A viewer that leaves is dropped by its own thread if by no other, and one
\* whose link is alive stays.
ViewersInv ==
    /\ \A v \in viewers :
         /\ phase[v] # "new"
         /\ phase[v] = "closing" => calls[v] # <<>> /\ Top(v) = [op |-> "drop_viewer", conn |-> v]
    /\ \A t \in Threads : DropsTheDead(t)
    /\ \A v \in Viewers :
         phase[v] = "open" /\ v \in up =>
             \/ calls[v] # <<>> /\ Top(v).op = "register_viewer"
             \/ v \in viewers

\* While a recorder is registered the hub demands capturing, unless a thread has
\* still to demand it or to take the recorder out.
Settling(t) ==
    /\ calls[t] # <<>>
    /\ \/ Top(t).op \in {"recorder_start", "start_recording", "manager_forget", "manager_stop"}
       \/ Rest(t) \in {Stopping, StoppingLeaving}

FedInv == registry # None /\ recording = None => \E t \in Threads : Settling(t)

-----------------------------------------------------------------------------
(* Stacks.                                                                   *)

\* Nothing pushed leaves the stack.
LEMMA PushNone == ASSUME NEW S, NEW s \in Seq(S) PROVE <<>> \o s = s
OBVIOUS

\* A call pushed is on top of the stack.
LEMMA PushOne ==
    ASSUME NEW S, NEW s \in Seq(S), NEW x \in S
    PROVE  /\ <<x>> \o s \in Seq(S) /\ <<x>> \o s # <<>>
           /\ Head(<<x>> \o s) = x /\ Tail(<<x>> \o s) = s
<1>1. <<x>> \o s \in Seq(S) /\ <<x>> \o s # <<>> /\ Head(<<x>> \o s) = x
  OBVIOUS
<1>2. Tail(<<x>> \o s) = s
  OBVIOUS
<1> QED BY <1>1, <1>2

\* Two calls are the one on the other.
LEMMA Pair == ASSUME NEW x, NEW y PROVE <<x, y>> = <<x>> \o <<y>>
<1> DEFINE S == {x, y}
<1>1. <<x, y>> \in Seq(S) /\ <<x>> \in Seq(S) /\ <<y>> \in Seq(S) /\ <<x>> \o <<y>> \in Seq(S)
  OBVIOUS
<1>2. Len(<<x, y>>) = 2 /\ Len(<<x>> \o <<y>>) = 2
  OBVIOUS
<1>3. \A i \in 1 .. 2 : <<x, y>>[i] = (<<x>> \o <<y>>)[i]
  OBVIOUS
<1> HIDE DEF S
<1> QED BY <1>1, <1>2, <1>3, SeqEqual

\* Two calls pushed are the one pushed on the other.
LEMMA PushTwo ==
    ASSUME NEW S, NEW s \in Seq(S), NEW x \in S, NEW y \in S
    PROVE  <<x, y>> \o s = <<x>> \o (<<y>> \o s)
<1>1. <<x>> \in Seq(S) /\ <<y>> \in Seq(S)
  OBVIOUS
<1>2. <<x, y>> = <<x>> \o <<y>>
  BY Pair
<1> QED BY <1>1, <1>2, ConcatAssociative

\* A thread that returns resumes what was under the call ...
LEMMA ReturnNone ==
    ASSUME StacksTypeOK, NEW t \in Threads, calls[t] # <<>>, Return(t, <<>>)
    PROVE  /\ calls' \in [Threads -> Seq(Calls)]
           /\ calls'[t] = Rest(t)
           /\ \A u \in Threads \ {t} : calls'[u] = calls[u]
<1>1. Rest(t) \in Seq(Calls)
  BY DEF StacksTypeOK, Rest
<1>2. <<>> \o Rest(t) = Rest(t)
  BY <1>1, PushNone
<1> QED BY <1>1, <1>2 DEF Return, Rest, StacksTypeOK

\* ... or goes on with another call in its place ...
LEMMA ReturnOne ==
    ASSUME NEW S, calls \in [Threads -> Seq(S)], NEW t \in Threads, calls[t] # <<>>,
           NEW x \in S, Return(t, <<x>>)
    PROVE  /\ calls' \in [Threads -> Seq(S)]
           /\ calls'[t] # <<>> /\ Top(t)' = x /\ Rest(t)' = Rest(t)
           /\ \A u \in Threads \ {t} : calls'[u] = calls[u]
<1>1. Rest(t) \in Seq(S)
  BY DEF Rest
<1>2. calls' = [calls EXCEPT ![t] = <<x>> \o Rest(t)]
  BY DEF Return, Rest
<1>3. calls'[t] = <<x>> \o Rest(t)
  BY <1>2
<1> QED BY <1>1, <1>2, <1>3, PushOne DEF Top, Rest

\* ... or with two.
LEMMA ReturnTwo ==
    ASSUME NEW S, calls \in [Threads -> Seq(S)], NEW t \in Threads, calls[t] # <<>>,
           NEW x \in S, NEW y \in S, Return(t, <<x, y>>)
    PROVE  /\ calls' \in [Threads -> Seq(S)]
           /\ calls'[t] # <<>> /\ Top(t)' = x /\ Rest(t)' = <<y>> \o Rest(t)
           /\ \A u \in Threads \ {t} : calls'[u] = calls[u]
<1>1. Rest(t) \in Seq(S) /\ <<y>> \o Rest(t) \in Seq(S)
  BY PushOne DEF Rest
<1>2. calls' = [calls EXCEPT ![t] = <<x>> \o (<<y>> \o Rest(t))]
  BY <1>1, PushTwo DEF Return, Rest
<1>3. calls'[t] = <<x>> \o (<<y>> \o Rest(t))
  BY <1>2
<1> QED BY <1>1, <1>2, <1>3, PushOne DEF Top, Rest

\* Stacks keep their type when recorders are added.
LEMMA StacksGrow ==
    ASSUME NEW f \in [Threads -> Seq(Calls)], DOMAIN recorders \subseteq DOMAIN recorders'
    PROVE  f \in [Threads -> Seq(Calls')]
<1>1. Calls \subseteq Calls'
  BY DEF Calls, PlainCalls, SendCalls, FanOutCalls, DropCalls, MonitorsCalls, SetMonitorCalls,
         RateCalls, RecorderCalls, DecideCalls
<1>2. \A t \in Threads : f[t] \in Seq(Calls')
  BY <1>1, SeqMonotonic
<1> QED BY <1>2

\* What the calls on a stack carry.
LEMMA CallFields ==
    ASSUME NEW c \in Calls
    PROVE  /\ c.op = "send" => c.conn \in AgentConns /\ c.msg \in Messages
           /\ c.op = "fan_out" => c.to \subseteq Viewers /\ c \in FanOutCalls
           /\ c.op = "drop_viewer" => c.conn \in Viewers
           /\ c.op = "on_agent_monitors" => c.monitors = Screen
           /\ c.op = "set_monitor" => c.index \in {PrimaryMonitor, OtherMonitor}
           /\ c.op \in {"start_recording", "manager_start"} => c.fps \in Rates
           /\ c.op = "connected_rate" => c.base \in PolicyFps
           /\ c.op \in {"recorder_start", "recorder_stop"} => c.rec \in DOMAIN recorders
           /\ c.op = "refresh_decide" => c.covered \in BOOLEAN
BY DEF Calls, PlainCalls, SendCalls, FanOutCalls, DropCalls, MonitorsCalls, SetMonitorCalls,
       RateCalls, RecorderCalls, DecideCalls

\* The call on top is one the program makes.
LEMMA TopIsCall ==
    ASSUME StacksTypeOK, NEW t \in Threads, calls[t] # <<>>
    PROVE  Top(t) \in Calls
BY DEF StacksTypeOK, Top

\* Which call may take the place of another on top of a stack.
Follows(op, next) ==
    /\ next \in {"fan_out", "tell_agent_start", "send", "start_recording", "manager_forget",
                 "connected_resolve", "connected_rate", "manager_start", "recorder_start",
                 "recorder_stop", "refresh_resolve", "refresh_decide", "on_agent_connected",
                 "on_agent_disconnected"}
    /\ next = "fan_out" => op \in {"on_agent_frame", "fan_out"}
    /\ next = "tell_agent_start" =>
         op \in {"register_agent", "register_viewer", "start_recording", "stop_recording"}
    /\ next = "send" => op \in {"drop_viewer", "set_monitor", "stop_recording", "tell_agent_start"}
    /\ next \in {"start_recording", "manager_forget"} => op = "recorder_start"
    /\ next = "recorder_start" => op = "manager_start"
    /\ next = "manager_start" => op = "connected_rate"
    /\ next = "connected_rate" => op = "connected_resolve"
    /\ next = "connected_resolve" => op = "on_agent_connected"
    /\ next = "recorder_stop" => op = "manager_stop"
    /\ next \in {"on_agent_connected", "on_agent_disconnected"} => op = "refresh_decide"
    /\ next = "refresh_decide" => op = "refresh_resolve"
    /\ next = "refresh_resolve" => op = "refresh_endpoint"

\* What a server thread does to its stack.
Moves(t) ==
    /\ calls[t] # <<>>
    /\ \/ Return(t, <<>>)
       \/ \E x \in Calls' : Return(t, <<x>>) /\ Follows(Top(t).op, x.op)
       \/ /\ Top(t).op = "fan_out"
          /\ \E x \in DropCalls, y \in FanOutCalls : Return(t, <<x, y>>)
       \/ Top(t).op = "on_agent_disconnected" /\ Return(t, DisconnectCalls)

\* The calls without arguments.
LEMMA PlainCall ==
    ASSUME NEW op \in {"register_agent", "unregister_agent", "on_agent_frame", "register_viewer",
          "tell_agent_start", "stop_recording", "on_agent_connected", "connected_resolve",
          "manager_forget", "on_agent_disconnected", "manager_stop", "refresh_endpoint",
          "refresh_resolve"}
    PROVE  Call(op) \in Calls /\ Call(op).op = op
BY DEF Call, Calls, PlainCalls

\* A message to an agent.
LEMMA SendCall ==
    ASSUME NEW c \in AgentConns, NEW m \in Messages
    PROVE  Send(c, m) \in Calls /\ Send(c, m).op = "send"
           /\ Send(c, m).conn = c /\ Send(c, m).msg = m
BY DEF Send, Calls, SendCalls

\* What the hub sends are messages the protocol has.
LEMMA HubMessages ==
    /\ StopMessage \in Messages /\ SupersededMessage \in Messages
    /\ \A i \in {PrimaryMonitor, OtherMonitor} : SetMonitorMessage(i) \in Messages
    /\ \A r \in Rates \cup {None} : StartMessage(r) \in Messages
BY DEF Messages, Rates

\* What a step of the hub does to the stack of its thread.
LEMMA HubMoves ==
    ASSUME HubTypeOK, StacksTypeOK, NEW t \in Threads, HubStep(t), UNCHANGED recorders
    PROVE  Moves(t)
<1>a. Calls' = Calls
  BY DEF Calls, RecorderCalls, PlainCalls, SendCalls, FanOutCalls, DropCalls, MonitorsCalls,
         SetMonitorCalls, RateCalls, DecideCalls
<1>b. calls[t] # <<>> /\ Top(t) \in Calls
  BY TopIsCall DEF HubStep, Calling, register_agent, unregister_agent, on_agent_frame, fan_out,
     on_agent_monitors, register_viewer, drop_viewer, set_monitor, start_recording, stop_recording,
     tell_agent_start, send_text
<1>c. ASSUME NEW x \in Calls, Return(t, <<x>>), Follows(Top(t).op, x.op) PROVE Moves(t)
  BY <1>a, <1>b, <1>c DEF Moves
<1>d. ASSUME Return(t, <<>>) PROVE Moves(t)
  BY <1>b, <1>d DEF Moves
<1>e. /\ Call("tell_agent_start") \in Calls /\ Call("tell_agent_start").op = "tell_agent_start"
  BY PlainCall
<1>1. CASE register_agent(t)
  BY <1>1, <1>c, <1>d, <1>e DEF register_agent, Calling, Top, Follows
<1>2. CASE unregister_agent(t)
  BY <1>2, <1>d DEF unregister_agent
<1>3. CASE on_agent_frame(t)
  <2>1. [op |-> "fan_out", to |-> viewers] \in Calls
    BY DEF HubTypeOK, Calls, FanOutCalls
  <2> QED BY <1>3, <1>c, <2>1 DEF on_agent_frame, Calling, Top, Follows
<1>4. CASE fan_out(t)
  <2>1. Top(t).op = "fan_out" /\ Top(t).to \subseteq Viewers
    BY <1>b, <1>4, CallFields DEF fan_out, Calling, Top
  <2>2. CASE Return(t, <<>>)
    BY <2>2, <1>d
  <2>3. ASSUME NEW v \in Top(t).to, Return(t, <<[op |-> "fan_out", to |-> Top(t).to \ {v}]>>)
        PROVE  Moves(t)
    <3>1. [op |-> "fan_out", to |-> Top(t).to \ {v}] \in Calls
      BY <2>1 DEF Calls, FanOutCalls
    <3> QED BY <1>c, <2>1, <2>3, <3>1 DEF Follows
  <2>4. ASSUME NEW v \in Top(t).to,
               Return(t, <<[op |-> "drop_viewer", conn |-> v],
                           [op |-> "fan_out", to |-> Top(t).to \ {v}]>>)
        PROVE  Moves(t)
    <3>1. /\ [op |-> "fan_out", to |-> Top(t).to \ {v}] \in FanOutCalls
          /\ [op |-> "drop_viewer", conn |-> v] \in DropCalls
      BY <2>1 DEF FanOutCalls, DropCalls
    <3> QED BY <1>b, <2>1, <2>4, <3>1 DEF Moves
  <2> QED BY <1>4, <2>2, <2>3, <2>4 DEF fan_out, Top
<1>5. CASE on_agent_monitors(t)
  BY <1>5, <1>d DEF on_agent_monitors
<1>6. CASE register_viewer(t)
  BY <1>6, <1>c, <1>d, <1>e DEF register_viewer, Calling, Top, Follows
<1>7. CASE drop_viewer(t)
  <2>1. Top(t).op = "drop_viewer"
    BY <1>7 DEF drop_viewer, Calling, Top
  <2>2. CASE Return(t, <<>>)
    BY <2>2, <1>d
  <2>3. CASE agent # None /\ Return(t, <<Send(agent, StopMessage)>>)
    BY <1>c, <2>1, <2>3, SendCall, HubMessages DEF HubTypeOK, Follows
  <2> QED BY <1>7, <2>2, <2>3 DEF drop_viewer, DropStops
<1>8. CASE set_monitor(t)
  <2>1. Top(t).op = "set_monitor" /\ Top(t).index \in {PrimaryMonitor, OtherMonitor}
    BY <1>b, <1>8, CallFields DEF set_monitor, Calling, Top
  <2>2. CASE agent # None /\ Return(t, <<Send(agent, SetMonitorMessage(Top(t).index))>>)
    BY <1>c, <2>1, <2>2, SendCall, HubMessages DEF HubTypeOK, Follows
  <2> QED BY <1>8, <1>d, <2>2 DEF set_monitor, Top
<1>9. CASE start_recording(t)
  BY <1>9, <1>c, <1>d, <1>e DEF start_recording, Calling, Top, Follows
<1>10. CASE stop_recording(t)
  <2>1. Top(t).op = "stop_recording"
    BY <1>10 DEF stop_recording, Calling, Top
  <2>2. CASE agent # None /\ Return(t, <<Send(agent, StopMessage)>>)
    BY <1>c, <2>1, <2>2, SendCall, HubMessages DEF HubTypeOK, Follows
  <2>3. CASE Return(t, <<Call("tell_agent_start")>>)
    BY <1>c, <1>e, <2>1, <2>3 DEF Follows
  <2> QED BY <1>10, <1>d, <2>2, <2>3 DEF stop_recording, AfterRecording
<1>11. CASE tell_agent_start(t)
  <2>1. Top(t).op = "tell_agent_start"
    BY <1>11 DEF tell_agent_start, Calling, Top
  <2>2. CASE agent # None /\ Return(t, <<Send(agent, StartMessage(recording))>>)
    BY <1>c, <2>1, <2>2, SendCall, HubMessages DEF HubTypeOK, Follows
  <2> QED BY <1>11, <1>d, <2>2 DEF tell_agent_start
<1>12. CASE send_text(t)
  BY <1>12, <1>d DEF send_text
<1> QED BY <1>1, <1>2, <1>3, <1>4, <1>5, <1>6, <1>7, <1>8, <1>9, <1>10, <1>11, <1>12 DEF HubStep
\* The rate a policy asks for, and the rate a recorder gets.
LEMMA RateTypes ==
    ASSUME RecordingTypeOK
    PROVE  /\ resolve_policy \in PolicyFps \cup {None}
           /\ \A screen : \A base \in PolicyFps : effective_recording_fps(screen, base) \in Rates
<1>1. \A tt \in TargetTypes : Covers(tt) => policies[tt].fps \in PolicyFps
  BY DEF RecordingTypeOK, Policies, Covers
<1> QED BY <1>1 DEF resolve_policy, TargetTypes, effective_recording_fps, Rates

\* What a step of recording control does to the stack of its thread; recorders
\* are only added.
LEMMA RecordingMoves ==
    ASSUME StacksTypeOK, RecordingTypeOK, NEW t \in Threads, RecordingStep(t)
    PROVE  Moves(t) /\ DOMAIN recorders \subseteq DOMAIN recorders'
<1>b. calls[t] # <<>> /\ Top(t) \in Calls
  BY TopIsCall DEF RecordingStep, Calling, connected_check, connected_resolve, connected_rate,
     manager_start, recorder_start, manager_forget, disconnected_check, manager_stop,
     recorder_stop, refresh_online, refresh_resolve, refresh_decide
<1>d. ASSUME Return(t, <<>>) PROVE Moves(t)
  BY <1>b, <1>d DEF Moves
<1>e. ASSUME NEW x, x \in Calls, recorders' = recorders, Return(t, <<x>>), Follows(Top(t).op, x.op)
      PROVE  Moves(t)
  <2>1. Calls' = Calls
    BY <1>e DEF Calls, RecorderCalls, PlainCalls, SendCalls, FanOutCalls, DropCalls,
       MonitorsCalls, SetMonitorCalls, RateCalls, DecideCalls
  <2> QED BY <1>b, <1>e, <2>1 DEF Moves
<1>f. ASSUME NEW op \in {"connected_resolve", "manager_forget", "refresh_resolve",
                         "on_agent_connected", "on_agent_disconnected"},
             recorders' = recorders, Return(t, <<Call(op)>>), Follows(Top(t).op, op)
      PROVE  Moves(t)
  BY <1>e, <1>f, PlainCall
<1>1. CASE connected_check(t)
  BY <1>1, <1>d, <1>f DEF connected_check, Calling, Top, Follows, recordingVars
<1>2. CASE connected_resolve(t)
  <2>1. Top(t).op = "connected_resolve"
    BY <1>2 DEF connected_resolve, Calling, Top
  <2>2. CASE resolve_policy # None /\ Return(t, <<[op |-> "connected_rate", base |-> resolve_policy]>>)
    <3>1. [op |-> "connected_rate", base |-> resolve_policy] \in Calls
      BY <2>2, RateTypes DEF Calls, RateCalls
    <3> QED BY <1>2, <1>e, <2>1, <2>2, <3>1 DEF connected_resolve, recordingVars, Follows
  <2> QED BY <1>2, <1>d, <2>2 DEF connected_resolve, recordingVars
<1>3. CASE connected_rate(t)
  <2> DEFINE x == [op |-> "manager_start", fps |-> effective_recording_fps(monitors, Top(t).base)]
  <2>1. Top(t).op = "connected_rate" /\ Top(t).base \in PolicyFps
    BY <1>b, <1>3, CallFields DEF connected_rate, Calling, Top
  <2>2. x \in Calls
    BY <2>1, RateTypes DEF Calls, RateCalls
  <2> QED BY <1>3, <1>e, <2>1, <2>2 DEF connected_rate, Top, recordingVars, Follows
<1>4. CASE manager_start(t)
  <2>1. Top(t).op = "manager_start" /\ Top(t).fps \in Rates
    BY <1>b, <1>4, CallFields DEF manager_start, Calling, Top
  <2>2. CASE registry # None
    BY <1>4, <1>d, <2>2 DEF manager_start
  <2>3. CASE registry = None
    <3> DEFINE x == [op |-> "recorder_start", rec |-> Len(recorders) + 1]
    <3>1. Return(t, <<x>>)
          /\ recorders' = Append(recorders, [fps |-> Top(t).fps, state |-> "created"])
      BY <1>4, <2>3 DEF manager_start, Top
    <3>2. /\ DOMAIN recorders \subseteq DOMAIN recorders'
          /\ Len(recorders) + 1 \in DOMAIN recorders'
      BY <2>1, <3>1 DEF RecordingTypeOK, Recorders
    <3>3. x \in Calls'
      BY <3>2 DEF Calls, RecorderCalls
    <3> QED BY <1>b, <2>1, <3>1, <3>2, <3>3 DEF Moves, Follows
  <2> QED BY <2>2, <2>3, <1>4 DEF manager_start
<1>5. CASE recorder_start(t)
  <2>1. Top(t).op = "recorder_start" /\ Top(t).rec \in DOMAIN recorders
    BY <1>b, <1>5, CallFields DEF recorder_start, Calling, Top
  <2>2. DOMAIN recorders' = DOMAIN recorders /\ Calls' = Calls
    <3>1. DOMAIN recorders' = DOMAIN recorders
      BY <1>5 DEF recorder_start, Top
    <3> QED BY <3>1 DEF Calls, RecorderCalls, PlainCalls, SendCalls, FanOutCalls, DropCalls,
       MonitorsCalls, SetMonitorCalls, RateCalls, DecideCalls
  <2>3. CASE Return(t, <<[op |-> "start_recording", fps |-> recorders[Top(t).rec].fps]>>)
    <3>0. recorders[Top(t).rec] \in Recorders
      BY <2>1 DEF RecordingTypeOK
    <3>1. recorders[Top(t).rec].fps \in Rates
      BY <3>0 DEF Recorders
    <3>2. [op |-> "start_recording", fps |-> recorders[Top(t).rec].fps] \in Calls
      BY <3>1 DEF Calls, RateCalls
    <3> QED BY <1>b, <2>1, <2>2, <2>3, <3>2 DEF Moves, Follows
  <2>4. CASE Return(t, <<Call("manager_forget")>>)
    BY <1>b, <2>1, <2>2, <2>4, PlainCall DEF Moves, Follows
  <2> QED BY <1>5, <2>2, <2>3, <2>4 DEF recorder_start, Top
<1>6. CASE manager_forget(t)
  BY <1>6, <1>d DEF manager_forget
<1>7. CASE disconnected_check(t)
  <2>1. Top(t).op = "on_agent_disconnected"
    BY <1>7 DEF disconnected_check, Calling, Top
  <2> QED BY <1>7, <1>b, <2>1 DEF disconnected_check, Moves, recordingVars
<1>8. CASE manager_stop(t)
  <2>1. Top(t).op = "manager_stop"
    BY <1>8 DEF manager_stop, Calling, Top
  <2>2. CASE registry # None /\ Return(t, <<[op |-> "recorder_stop", rec |-> registry]>>)
    <3>1. [op |-> "recorder_stop", rec |-> registry] \in Calls
      BY <2>2 DEF RecordingTypeOK, Calls, RecorderCalls
    <3> QED BY <1>8, <1>e, <2>1, <2>2, <3>1 DEF manager_stop, Follows
  <2> QED BY <1>8, <1>d, <2>2 DEF manager_stop, StopRegistered
<1>9. CASE recorder_stop(t)
  BY <1>9, <1>d DEF recorder_stop
<1>10. CASE refresh_online(t)
  BY <1>10, <1>d, <1>f DEF refresh_online, Calling, Top, Follows, recordingVars
<1>11. CASE refresh_resolve(t)
  <2>1. Top(t).op = "refresh_resolve"
    BY <1>11 DEF refresh_resolve, Calling, Top
  <2>2. [op |-> "refresh_decide", covered |-> resolve_policy # None] \in Calls
    BY DEF Calls, DecideCalls
  <2> QED BY <1>11, <1>e, <2>1, <2>2 DEF refresh_resolve, recordingVars, Follows
<1>12. CASE refresh_decide(t)
  BY <1>12, <1>d, <1>f DEF refresh_decide, RefreshCalls, Calling, Top, Follows, recordingVars
<1> QED BY <1>1, <1>2, <1>3, <1>4, <1>5, <1>6, <1>7, <1>8, <1>9, <1>10, <1>11, <1>12
        DEF RecordingStep
\* A stack that moves keeps its type.
LEMMA MovesType ==
    ASSUME StacksTypeOK, NEW t \in Threads, Moves(t), DOMAIN recorders \subseteq DOMAIN recorders'
    PROVE  StacksTypeOK'
<1>1. CASE Return(t, <<>>)
  BY <1>1, ReturnNone, StacksGrow DEF Moves, StacksTypeOK
<1>2. calls \in [Threads -> Seq(Calls')]
  BY StacksGrow DEF StacksTypeOK
<1>3. CASE \E x \in Calls' : Return(t, <<x>>)
  BY <1>2, <1>3, ReturnOne DEF Moves, StacksTypeOK
<1>4. CASE \E x \in DropCalls, y \in FanOutCalls : Return(t, <<x, y>>)
  <2>1. DropCalls \subseteq Calls' /\ FanOutCalls \subseteq Calls'
    BY DEF Calls, DropCalls, FanOutCalls
  <2> QED BY <1>2, <1>4, <2>1, ReturnTwo DEF Moves, StacksTypeOK
<1>5. CASE Return(t, DisconnectCalls)
  <2>1. Call("stop_recording") \in Calls' /\ Call("manager_stop") \in Calls'
    BY DEF Call, Calls, PlainCalls
  <2> QED BY <1>2, <1>5, <2>1, ReturnTwo DEF Moves, DisconnectCalls, StacksTypeOK
<1> QED BY <1>1, <1>3, <1>4, <1>5 DEF Moves

-----------------------------------------------------------------------------
(* Types.                                                                    *)

\* A message that reaches an agent's link is one of the protocol's.
LEMMA DeliveredType ==
    ASSUME InboxTypeOK, NEW c \in AgentConns, NEW m \in Messages
    PROVE  Delivered(c, m) \in [AgentConns -> Seq(Messages)]
BY DEF InboxTypeOK, Delivered

\* The hub keeps its types.
LEMMA HubTypeStep ==
    ASSUME ServerTypeOK, StacksInPhase, NEW t \in Threads, HubStep(t),
           UNCHANGED <<recordingVars, socketVars>>
    PROVE  ServerTypeOK'
<1> USE DEF ServerTypeOK
<1>a. recorders' = recorders
  BY DEF recordingVars
<1>b. calls[t] # <<>> /\ Top(t) \in Calls
  BY <1>a, HubMoves, TopIsCall DEF Moves
<1>c. StacksTypeOK'
  BY <1>a, HubMoves, MovesType
<1>d. RecordingTypeOK' /\ SocketTypeOK'
  BY DEF RecordingTypeOK, SocketTypeOK, recordingVars, socketVars
<1>e. HubTypeOK'
  <2> USE DEF HubTypeOK
  <2>1. CASE register_agent(t)
    BY <1>b, <2>1 DEF register_agent, Calling, Top, StacksInPhase
  <2>2. CASE unregister_agent(t)
    BY <2>2 DEF unregister_agent
  <2>3. CASE register_viewer(t)
    BY <1>b, <2>3 DEF register_viewer, Calling, Top, StacksInPhase
  <2>4. CASE drop_viewer(t)
    BY <2>4 DEF drop_viewer, ViewersWithout
  <2>5. CASE start_recording(t)
    BY <1>b, <2>5, CallFields DEF start_recording, Calling, Top
  <2>6. CASE stop_recording(t)
    BY <2>6 DEF stop_recording
  <2>7. CASE on_agent_monitors(t)
    BY <1>b, <2>7, CallFields DEF on_agent_monitors, Calling, Top
  <2>8. CASE on_agent_frame(t)
    BY <2>8 DEF on_agent_frame
  <2>9. CASE fan_out(t) \/ set_monitor(t) \/ tell_agent_start(t) \/ send_text(t)
    BY <2>9 DEF fan_out, set_monitor, tell_agent_start, send_text, hubVars
  <2> QED BY <2>1, <2>2, <2>3, <2>4, <2>5, <2>6, <2>7, <2>8, <2>9 DEF HubStep
<1>f. InboxTypeOK'
  <2>1. CASE register_agent(t)
    BY <2>1, DeliveredType, HubMessages DEF register_agent, HubTypeOK, InboxTypeOK
  <2>2. CASE send_text(t)
    BY <1>b, <2>2, CallFields, DeliveredType DEF send_text, Calling, Top, InboxTypeOK
  <2>3. CASE \/ unregister_agent(t) \/ on_agent_frame(t) \/ fan_out(t) \/ on_agent_monitors(t)
             \/ register_viewer(t) \/ drop_viewer(t) \/ set_monitor(t) \/ start_recording(t)
             \/ stop_recording(t) \/ tell_agent_start(t)
    BY <2>3 DEF unregister_agent, on_agent_frame, fan_out, on_agent_monitors, register_viewer,
       drop_viewer, set_monitor, start_recording, stop_recording, tell_agent_start, InboxTypeOK
  <2> QED BY <2>1, <2>2, <2>3 DEF HubStep
<1> QED BY <1>c, <1>d, <1>e, <1>f
\* Recording control keeps its types.
LEMMA RecordingTypeStep ==
    ASSUME ServerTypeOK, NEW t \in Threads, RecordingStep(t), UNCHANGED socketVars
    PROVE  ServerTypeOK'
<1> USE DEF ServerTypeOK
<1>b. calls[t] # <<>> /\ Top(t) \in Calls
  BY RecordingMoves, TopIsCall DEF Moves
<1>c. StacksTypeOK'
  BY RecordingMoves, MovesType
<1>d. HubTypeOK' /\ InboxTypeOK' /\ SocketTypeOK'
  <2>1. UNCHANGED <<hubVars, inbox, up>>
    BY DEF RecordingStep, connected_check, connected_resolve, connected_rate,
       manager_start, recorder_start, manager_forget, disconnected_check, manager_stop,
       recorder_stop, refresh_online, refresh_resolve, refresh_decide
  <2> QED BY <2>1 DEF HubTypeOK, InboxTypeOK, SocketTypeOK, hubVars, socketVars
<1>e. RecordingTypeOK'
  <2>1. CASE manager_start(t)
    <3>1. Top(t).fps \in Rates
      BY <1>b, <2>1, CallFields DEF manager_start, Calling, Top
    <3>2. [fps |-> Top(t).fps, state |-> "created"] \in Recorders
      BY <3>1 DEF Recorders
    <3>3. \/ UNCHANGED <<registry, recorders>>
          \/ /\ recorders' = Append(recorders, [fps |-> Top(t).fps, state |-> "created"])
             /\ registry' = Len(recorders) + 1
      BY <2>1 DEF manager_start, Top
    <3>4. /\ recorders' \in Seq(Recorders)
          /\ registry' \in {None} \cup DOMAIN recorders'
      BY <3>2, <3>3 DEF RecordingTypeOK
    <3> QED BY <2>1, <3>4 DEF manager_start, RecordingTypeOK
  <2>2. ASSUME NEW r \in DOMAIN recorders, NEW st \in {"created", "running", "cancelled", "stopped"},
               recorders' = [recorders EXCEPT ![r].state = st]
        PROVE  recorders' \in Seq(Recorders) /\ DOMAIN recorders' = DOMAIN recorders
    <3>1. recorders[r] \in Recorders
      BY DEF RecordingTypeOK
    <3>2. [recorders[r] EXCEPT !.state = st] \in Recorders
      BY <3>1 DEF Recorders
    <3>3. recorders' = [recorders EXCEPT ![r] = [recorders[r] EXCEPT !.state = st]]
      BY <2>2
    <3>4. r \in 1 .. Len(recorders)
      BY DEF RecordingTypeOK
    <3> QED BY <3>2, <3>3, <3>4, ExceptSeq DEF RecordingTypeOK
  <2>3. CASE recorder_start(t)
    <3>1. Top(t).op = "recorder_start" /\ Top(t).rec \in DOMAIN recorders
      BY <1>b, <2>3, CallFields DEF recorder_start, Calling, Top
    <3>2. \E st \in {"created", "running", "cancelled", "stopped"} :
            recorders' = [recorders EXCEPT ![Top(t).rec].state = st]
      BY <2>3 DEF recorder_start, Launched, Top
    <3>3. /\ failures' \in Nat
          /\ UNCHANGED <<policies, member, registry, changes>>
      BY <2>3 DEF recorder_start, RecordingTypeOK
    <3> QED BY <2>2, <3>1, <3>2, <3>3 DEF RecordingTypeOK
  <2>4. CASE recorder_stop(t)
    <3>1. Top(t).op = "recorder_stop" /\ Top(t).rec \in DOMAIN recorders
      BY <1>b, <2>4, CallFields DEF recorder_stop, Calling, Top
    <3>2. \E st \in {"created", "running", "cancelled", "stopped"} :
            recorders' = [recorders EXCEPT ![Top(t).rec].state = st]
      BY <2>4 DEF recorder_stop, Top
    <3> QED BY <2>2, <2>4, <3>1, <3>2 DEF recorder_stop, RecordingTypeOK
  <2>5. CASE manager_forget(t) \/ manager_stop(t)
    BY <2>5 DEF manager_forget, manager_stop, RecordingTypeOK
  <2>6. CASE UNCHANGED recordingVars
    BY <2>6 DEF recordingVars, RecordingTypeOK
  <2> QED BY <2>1, <2>3, <2>4, <2>5, <2>6
          DEF RecordingStep, connected_check, connected_resolve, connected_rate,
              disconnected_check, refresh_online, refresh_resolve, refresh_decide
<1> QED BY <1>c, <1>d, <1>e

\* A thread that begins with a call or two has a stack of that type.
LEMMA BeginType ==
    ASSUME StacksTypeOK, UNCHANGED recorders, NEW t \in Threads,
           NEW s \in Seq(Calls), calls' = [calls EXCEPT ![t] = s]
    PROVE  StacksTypeOK'
<1>1. Calls' = Calls
  BY DEF Calls, RecorderCalls, PlainCalls, SendCalls, FanOutCalls, DropCalls, MonitorsCalls,
         SetMonitorCalls, RateCalls, DecideCalls
<1> QED BY <1>1 DEF StacksTypeOK

\* Sockets that open, receive and close keep the types.
LEMMA SocketTypeStep ==
    ASSUME ServerTypeOK, NEW t \in Threads,
           \/ t \in AgentConns /\ \/ \E s \in Sessions : AgentConnect(t, s)
                                  \/ AgentSocketReceive(t) \/ AgentSocketClose(t)
           \/ t \in Viewers /\ \/ ViewerConnect(t) \/ ViewerSetMonitor(t) \/ ViewerSocketClose(t)
    PROVE  ServerTypeOK'
<1> USE DEF ServerTypeOK
<1>a. ASSUME NEW x \in Calls PROVE <<x>> \in Seq(Calls)
  OBVIOUS
<1>b. ASSUME NEW x \in Calls, NEW y \in Calls PROVE <<x, y>> \in Seq(Calls)
  OBVIOUS
<1>1. ASSUME t \in AgentConns, NEW s \in Sessions, AgentConnect(t, s) PROVE ServerTypeOK'
  <2>1. StacksTypeOK'
    BY <1>1, <1>a, BeginType, PlainCall DEF AgentConnect, recordingVars
  <2> QED BY <1>1, <2>1 DEF AgentConnect, hubVars, recordingVars, HubTypeOK, InboxTypeOK,
                            RecordingTypeOK, SocketTypeOK, Sockets
<1>2. ASSUME t \in AgentConns, AgentSocketReceive(t) PROVE ServerTypeOK'
  <2>1. [op |-> "on_agent_monitors", monitors |-> Screen] \in Calls
    BY DEF Calls, MonitorsCalls
  <2>2. Call("on_agent_frame") \in Calls /\ Call("on_agent_connected") \in Calls
    BY PlainCall
  <2>3. StacksTypeOK'
    BY <1>2, <1>a, <1>b, <2>1, <2>2, BeginType DEF AgentSocketReceive, recordingVars
  <2> QED BY <1>2, <2>3 DEF AgentSocketReceive, hubVars, recordingVars, HubTypeOK, InboxTypeOK,
                            RecordingTypeOK, SocketTypeOK
<1>3. ASSUME t \in AgentConns, AgentSocketClose(t) PROVE ServerTypeOK'
  <2>1. Call("on_agent_disconnected") \in Calls /\ Call("unregister_agent") \in Calls
    BY PlainCall
  <2>2. StacksTypeOK'
    BY <1>3, <1>b, <2>1, BeginType DEF AgentSocketClose, recordingVars
  <2> QED BY <1>3, <2>2 DEF AgentSocketClose, hubVars, recordingVars, HubTypeOK, InboxTypeOK,
                            RecordingTypeOK, SocketTypeOK
<1>4. ASSUME t \in Viewers, ViewerConnect(t) PROVE ServerTypeOK'
  <2>1. StacksTypeOK'
    BY <1>4, <1>a, BeginType, PlainCall DEF ViewerConnect, recordingVars
  <2> QED BY <1>4, <2>1 DEF ViewerConnect, hubVars, recordingVars, HubTypeOK, InboxTypeOK,
                            RecordingTypeOK, SocketTypeOK, Sockets
<1>5. ASSUME t \in Viewers, ViewerSetMonitor(t) PROVE ServerTypeOK'
  <2>1. PICK i \in {PrimaryMonitor, OtherMonitor} :
           calls' = [calls EXCEPT ![t] = <<[op |-> "set_monitor", index |-> i]>>]
    BY <1>5 DEF ViewerSetMonitor
  <2>2. [op |-> "set_monitor", index |-> i] \in Calls
    BY DEF Calls, SetMonitorCalls
  <2>3. StacksTypeOK'
    BY <1>5, <1>a, <2>1, <2>2, BeginType DEF ViewerSetMonitor, recordingVars
  <2> QED BY <1>5, <2>3 DEF ViewerSetMonitor, hubVars, recordingVars, HubTypeOK, InboxTypeOK,
                            RecordingTypeOK, SocketTypeOK
<1>6. ASSUME t \in Viewers, ViewerSocketClose(t) PROVE ServerTypeOK'
  <2>1. [op |-> "drop_viewer", conn |-> t] \in Calls
    BY <1>6 DEF Calls, DropCalls
  <2>2. StacksTypeOK'
    BY <1>6, <1>a, <2>1, BeginType DEF ViewerSocketClose, recordingVars
  <2> QED BY <1>6, <2>2 DEF ViewerSocketClose, hubVars, recordingVars, HubTypeOK, InboxTypeOK,
                            RecordingTypeOK, SocketTypeOK
<1> QED BY <1>1, <1>2, <1>3, <1>4, <1>5, <1>6

\* Administrators' requests keep the types.
LEMMA AdminTypeStep ==
    ASSUME ServerTypeOK, NEW t \in Admins, AdminRequest(t), UNCHANGED socketVars
    PROVE  ServerTypeOK'
<1> USE DEF ServerTypeOK
<1>1. t \in Threads
  BY DEF Threads
<1>2. CASE set_group_members(t)
  <2>1. StacksTypeOK'
    <3>1. calls' = [calls EXCEPT ![t] = calls[t]] /\ calls[t] \in Seq(Calls)
      BY <1>1, <1>2 DEF set_group_members, StacksTypeOK
    <3> QED BY <1>1, <1>2, <3>1, BeginType DEF set_group_members
  <2> QED BY <1>2, <2>1 DEF set_group_members, hubVars, socketVars, HubTypeOK, InboxTypeOK,
                            RecordingTypeOK, SocketTypeOK
<1>3. ASSUME NEW tt \in TargetTypes, NEW row \in Policies, ChangePolicy(t, tt, row)
      PROVE  ServerTypeOK'
  <2>1. <<Call("refresh_endpoint")>> \in Seq(Calls) /\ <<>> \in Seq(Calls)
    BY PlainCall
  <2>2. StacksTypeOK'
    BY <1>1, <1>3, <2>1, BeginType DEF ChangePolicy
  <2> QED BY <1>3, <2>2 DEF ChangePolicy, hubVars, socketVars, HubTypeOK, InboxTypeOK,
                            RecordingTypeOK, SocketTypeOK
<1>4. CASE create_policy(t) \/ update_policy(t) \/ delete_policy(t)
  <2>1. \E tt \in TargetTypes : \E row \in Policies : ChangePolicy(t, tt, row)
    BY <1>4 DEF create_policy, update_policy, delete_policy, Policies
  <2> QED BY <1>3, <2>1
<1> QED BY <1>2, <1>4 DEF AdminRequest

\* The streamers, the links and the consoles keep the types.
LEMMA StreamerTypeStep ==
    ASSUME ServerTypeOK,
           \/ \E c \in AgentConns : HandleControl(c) \/ SendFrame(c) \/ AgentDrops(c)
           \/ \E v \in Viewers : ViewerLeaves(v)
    PROVE  ServerTypeOK'
<1> USE DEF ServerTypeOK
<1>a. ASSUME UNCHANGED <<calls, recordingVars>> PROVE StacksTypeOK' /\ RecordingTypeOK'
  <2>1. Calls' = Calls
    BY <1>a DEF recordingVars, Calls, RecorderCalls, PlainCalls, SendCalls, FanOutCalls, DropCalls,
           MonitorsCalls, SetMonitorCalls, RateCalls, DecideCalls
  <2> QED BY <1>a, <2>1 DEF StacksTypeOK, RecordingTypeOK, recordingVars
<1>1. ASSUME NEW c \in AgentConns, HandleControl(c) PROVE ServerTypeOK'
  <2> DEFINE msg == Head(inbox[c])
  <2>1. msg \in Messages /\ inbox[c] \in Seq(Messages)
    BY <1>1 DEF HandleControl, InboxTypeOK
  <2>2. /\ msg.type = "start" => [fps |-> msg.fps, allowSkip |-> msg.allowSkip] \in Captures
        /\ msg.type = "set_monitor" => msg.index \in {PrimaryMonitor, OtherMonitor}
    <3>1. CASE msg \in {StopMessage, SupersededMessage}
      BY <3>1 DEF StopMessage, SupersededMessage
    <3>2. CASE \E i \in {PrimaryMonitor, OtherMonitor} : msg = SetMonitorMessage(i)
      BY <3>2 DEF SetMonitorMessage
    <3>3. ASSUME NEW r \in {None} \cup PolicyFps \cup {Fps4K}, msg = StartMessage(r)
          PROVE  msg.type = "start" /\ [fps |-> msg.fps, allowSkip |-> msg.allowSkip] \in Captures
      <4>1. /\ msg.type = "start"
            /\ msg.fps = IF r = None THEN LiveFps ELSE r
            /\ msg.allowSkip = (r = None)
        BY <3>3 DEF StartMessage
      <4>2. msg.fps \in PolicyFps \cup {Fps4K, LiveFps}
        BY <4>1
      <4>3. msg.allowSkip \in BOOLEAN
        BY <4>1
      <4> HIDE DEF msg
      <4> QED BY <4>1, <4>2, <4>3 DEF Captures
    <3> HIDE DEF msg
    <3> QED BY <2>1, <3>1, <3>2, <3>3 DEF Messages
  <2>3. InboxTypeOK' /\ HubTypeOK'
    BY <1>1, <2>1 DEF HandleControl, InboxTypeOK, HubTypeOK, hubVars
  <2>4. SocketTypeOK'
    <3>1. capture' \in [AgentConns -> {None} \cup Captures]
      BY <1>1, <2>2 DEF HandleControl, SocketTypeOK
    <3>2. monitor' \in [Sessions -> {PrimaryMonitor, OtherMonitor}]
      BY <1>1, <2>2 DEF HandleControl, SocketTypeOK
    <3> QED BY <1>1, <3>1, <3>2 DEF HandleControl, SocketTypeOK
  <2> QED BY <1>1, <1>a, <2>3, <2>4 DEF HandleControl
<1>2. ASSUME NEW c \in AgentConns, SendFrame(c) PROVE ServerTypeOK'
  BY <1>2, <1>a DEF SendFrame, InboxTypeOK, HubTypeOK, hubVars, SocketTypeOK
<1>3. ASSUME NEW c \in AgentConns, AgentDrops(c) PROVE ServerTypeOK'
  <2>1. InboxTypeOK' /\ HubTypeOK'
    BY <1>3 DEF AgentDrops, InboxTypeOK, HubTypeOK, hubVars
  <2>2. outbox' \in [AgentConns -> Seq({"monitors", "frame"})]
    <3>1. <<>> \in Seq({"monitors", "frame"})
      OBVIOUS
    <3> QED BY <1>3, <3>1 DEF AgentDrops, SocketTypeOK
  <2>3. capture' \in [AgentConns -> {None} \cup Captures]
    BY <1>3 DEF AgentDrops, SocketTypeOK
  <2>4. SocketTypeOK'
    BY <1>3, <2>2, <2>3 DEF AgentDrops, SocketTypeOK
  <2> QED BY <1>3, <1>a, <2>1, <2>4 DEF AgentDrops
<1>4. ASSUME NEW v \in Viewers, ViewerLeaves(v) PROVE ServerTypeOK'
  BY <1>4, <1>a DEF ViewerLeaves, InboxTypeOK, HubTypeOK, hubVars, SocketTypeOK, socketVars
<1> QED BY <1>1, <1>2, <1>3, <1>4
-----------------------------------------------------------------------------
(* The shapes of the stacks.                                                 *)

\* What there is to return to, taken apart.
LEMMA RestFacts ==
    /\ Connecting # <<>> /\ Head(Connecting).op = "on_agent_connected" /\ Tail(Connecting) = <<>>
    /\ Stopping # <<>> /\ Head(Stopping).op = "manager_stop" /\ Tail(Stopping) = <<>>
    /\ Leaving # <<>> /\ Head(Leaving).op = "unregister_agent" /\ Tail(Leaving) = <<>>
    /\ StoppingLeaving # <<>> /\ Head(StoppingLeaving).op = "manager_stop"
    /\ Tail(StoppingLeaving) = Leaving
    /\ \A s \in FanOuts : s # <<>> /\ Head(s) \in FanOutCalls /\ Tail(s) = <<>>
    /\ \A f \in FanOutCalls : f.op = "fan_out"
<1>1. ASSUME NEW f \in FanOutCalls
      PROVE  <<f>> # <<>> /\ Head(<<f>>) \in FanOutCalls /\ Tail(<<f>>) = <<>>
  OBVIOUS
<1>2. \A f \in FanOutCalls : f.op = "fan_out"
  BY DEF FanOutCalls
<1>3. /\ Connecting # <<>> /\ Head(Connecting).op = "on_agent_connected" /\ Tail(Connecting) = <<>>
      /\ Stopping # <<>> /\ Head(Stopping).op = "manager_stop" /\ Tail(Stopping) = <<>>
      /\ Leaving # <<>> /\ Head(Leaving).op = "unregister_agent" /\ Tail(Leaving) = <<>>
  BY DEF Connecting, Stopping, Leaving, Call
<1>4. /\ StoppingLeaving # <<>> /\ Head(StoppingLeaving).op = "manager_stop"
      /\ Tail(StoppingLeaving) = Leaving
  BY DEF StoppingLeaving, Leaving, Call
<1> QED BY <1>1, <1>2, <1>3, <1>4 DEF FanOuts

\* They differ from each other.
LEMMA RestsDiffer ==
    /\ Connecting \notin {Stopping, Leaving, StoppingLeaving} \cup FanOuts
    /\ Leaving \notin {Stopping, StoppingLeaving} \cup FanOuts
    /\ Stopping # StoppingLeaving
    /\ Stopping \notin FanOuts /\ StoppingLeaving \notin FanOuts
    /\ <<>> \notin {Connecting, Stopping, Leaving, StoppingLeaving} \cup FanOuts
BY RestFacts

\* What was under a call may be on top.
LEMMA FitsResumed ==
    ASSUME NEW op, NEW rest, Fits(op, rest), rest # <<>>
    PROVE  Fits(Head(rest).op, Tail(rest))
BY RestFacts, RestsDiffer DEF Fits

\* A call that follows another stands on the same rest.
LEMMA FitsFollows ==
    ASSUME NEW op, NEW next, NEW rest, Fits(op, rest), Follows(op, next)
    PROVE  Fits(next, rest)
BY RestsDiffer DEF Fits, Follows

\* A viewer is dropped before the fan-out goes on.
LEMMA FitsDrop ==
    ASSUME NEW rest, Fits("fan_out", rest), NEW y \in FanOutCalls
    PROVE  rest = <<>> /\ <<y>> \in FanOuts /\ Fits("drop_viewer", <<y>>)
BY RestsDiffer DEF Fits, FanOuts

\* The hub stops before the recorder is taken out.
LEMMA FitsDisconnect ==
    ASSUME NEW rest, Fits("on_agent_disconnected", rest)
    PROVE  /\ rest = <<>> \/ rest = Leaving
           /\ rest = <<>> => <<Call("manager_stop")>> \o rest = Stopping
           /\ rest = Leaving => <<Call("manager_stop")>> \o rest = StoppingLeaving
           /\ Fits("stop_recording", <<Call("manager_stop")>> \o rest)
<1>1. rest = <<>> \/ rest = Leaving
  BY RestsDiffer DEF Fits
<1>2. rest = <<>> => <<Call("manager_stop")>> \o rest = Stopping
  BY DEF Stopping
<1>3. rest = Leaving => <<Call("manager_stop")>> \o rest = StoppingLeaving
  BY Pair DEF Leaving, StoppingLeaving
<1> QED BY <1>1, <1>2, <1>3, RestsDiffer DEF Fits
-----------------------------------------------------------------------------
(* Steps keep the shapes.                                                    *)

\* One thread's stack, in shape and in the phase of its socket.
StackFits(t) == calls[t] # <<>> => Fits(Top(t).op, Rest(t))

StackInPhase(t) ==
    calls[t] # <<>> =>
        /\ t \in Sockets => phase[t] # "new"
        /\ Top(t).op = "register_agent" => t \in AgentConns /\ phase[t] = "open"
        /\ Top(t).op = "register_viewer" => t \in Viewers /\ phase[t] = "open"
        /\ Top(t).op = "unregister_agent" \/ Rest(t) \in {Leaving, StoppingLeaving}
             <=> t \in AgentConns /\ phase[t] = "closing"

\* What a thread does to its stack keeps its shape; it is through, if it has to
\* unregister, only after that.
LEMMA MovesShape ==
    ASSUME StacksTypeOK, StackInv, NEW t \in Threads, Moves(t), UNCHANGED <<phase, up>>,
           DOMAIN recorders \subseteq DOMAIN recorders'
    PROVE  /\ StackInv'
           /\ \A u \in Threads \ {t} : calls'[u] = calls[u]
           /\ calls'[t] = <<>> => (Top(t).op = "unregister_agent"
                                     <=> t \in AgentConns /\ phase[t] = "closing")
<1>1. ASSUME StackFits(t)', StackInPhase(t)', \A u \in Threads \ {t} : calls'[u] = calls[u]
      PROVE  StackInv'
  <2>1. StacksFit'
    BY <1>1 DEF StackFits, StackInv, StacksFit, Top, Rest
  <2>2. StacksInPhase'
    BY <1>1 DEF StackInPhase, StackInv, StacksInPhase, Top, Rest
  <2>3. SocketsInPhase'
    BY DEF StackInv, SocketsInPhase
  <2> QED BY <2>1, <2>2, <2>3 DEF StackInv
<1>2. calls[t] # <<>> /\ Fits(Top(t).op, Rest(t))
  BY DEF Moves, StackInv, StacksFit
<1>3. StackInPhase(t)
  BY DEF StackInPhase, StackInv, StacksInPhase
<1>4. calls \in [Threads -> Seq(Calls')]
  BY StacksGrow DEF StacksTypeOK
<1>5. CASE Return(t, <<>>)
  <2>1. calls'[t] = Rest(t) /\ \A u \in Threads \ {t} : calls'[u] = calls[u]
    BY <1>2, <1>5, ReturnNone
  <2>2. StackFits(t)'
    BY <1>2, <2>1, FitsResumed DEF StackFits, Top, Rest
  <2>3. StackInPhase(t)'
    BY <1>2, <1>3, <2>1, RestFacts, RestsDiffer DEF StackInPhase, Fits, Top, Rest
  <2>4. calls'[t] = <<>> => (Top(t).op = "unregister_agent" <=> t \in AgentConns /\ phase[t] = "closing")
    BY <1>2, <1>3, <2>1, RestsDiffer DEF StackInPhase
  <2> QED BY <1>1, <2>1, <2>2, <2>3, <2>4
<1>6. ASSUME NEW x \in Calls', Return(t, <<x>>), Follows(Top(t).op, x.op)
      PROVE  StackInv' /\ calls'[t] # <<>> /\ \A u \in Threads \ {t} : calls'[u] = calls[u]
  <2>1. /\ calls'[t] # <<>> /\ Top(t)' = x /\ Rest(t)' = Rest(t)
        /\ \A u \in Threads \ {t} : calls'[u] = calls[u]
    BY <1>2, <1>4, <1>6, ReturnOne
  <2>2. StackFits(t)'
    BY <1>2, <1>6, <2>1, FitsFollows DEF StackFits
  <2>3. StackInPhase(t)'
    BY <1>2, <1>3, <1>6, <2>1 DEF StackInPhase, Follows
  <2> QED BY <1>1, <2>1, <2>2, <2>3
<1>7. ASSUME Top(t).op = "fan_out", NEW x \in DropCalls, NEW y \in FanOutCalls, Return(t, <<x, y>>)
      PROVE  StackInv' /\ calls'[t] # <<>> /\ \A u \in Threads \ {t} : calls'[u] = calls[u]
  <2>1. Rest(t) = <<>> /\ <<y>> \in FanOuts /\ Fits("drop_viewer", <<y>>)
    BY <1>2, <1>7, FitsDrop
  <2>2. x \in Calls' /\ y \in Calls' /\ x.op = "drop_viewer"
    BY DEF Calls, DropCalls
  <2>3. /\ calls'[t] # <<>> /\ Top(t)' = x /\ Rest(t)' = <<y>>
        /\ \A u \in Threads \ {t} : calls'[u] = calls[u]
    <3>1. <<y>> \o <<>> = <<y>>
      OBVIOUS
    <3>2. /\ calls'[t] # <<>> /\ Top(t)' = x /\ Rest(t)' = <<y>> \o Rest(t)
          /\ \A u \in Threads \ {t} : calls'[u] = calls[u]
      BY <1>2, <1>4, <1>7, <2>2, ReturnTwo
    <3> QED BY <2>1, <3>1, <3>2
  <2>4. StackFits(t)'
    BY <2>1, <2>2, <2>3 DEF StackFits
  <2>5. StackInPhase(t)'
    BY <1>2, <1>3, <1>7, <2>1, <2>2, <2>3, RestsDiffer DEF StackInPhase
  <2> QED BY <1>1, <2>3, <2>4, <2>5
<1>8. ASSUME Top(t).op = "on_agent_disconnected", Return(t, DisconnectCalls)
      PROVE  StackInv' /\ calls'[t] # <<>> /\ \A u \in Threads \ {t} : calls'[u] = calls[u]
  <2> DEFINE rest == <<Call("manager_stop")>> \o Rest(t)
  <2>1. /\ Rest(t) = <<>> \/ Rest(t) = Leaving
        /\ Rest(t) = <<>> => rest = Stopping
        /\ Rest(t) = Leaving => rest = StoppingLeaving
        /\ Fits("stop_recording", rest)
    BY <1>2, <1>8, FitsDisconnect
  <2>2. Call("stop_recording") \in Calls' /\ Call("manager_stop") \in Calls'
        /\ Call("stop_recording").op = "stop_recording"
    BY DEF Call, Calls, PlainCalls
  <2>3. /\ calls'[t] # <<>> /\ Top(t)' = Call("stop_recording") /\ Rest(t)' = rest
        /\ \A u \in Threads \ {t} : calls'[u] = calls[u]
    BY <1>2, <1>4, <1>8, <2>2, ReturnTwo DEF DisconnectCalls
  <2> HIDE DEF rest
  <2>4. StackFits(t)'
    BY <2>1, <2>2, <2>3 DEF StackFits
  <2>5. StackInPhase(t)'
    BY <1>2, <1>3, <1>8, <2>1, <2>2, <2>3, RestsDiffer DEF StackInPhase
  <2> QED BY <1>1, <2>3, <2>4, <2>5
<1> QED BY <1>5, <1>6, <1>7, <1>8 DEF Moves

\* A thread that begins changes no other thread's stack or phase.
LEMMA BeginShape ==
    ASSUME StacksTypeOK, StackInv, NEW t \in Threads, NEW s, calls' = [calls EXCEPT ![t] = s],
           \A u \in Sockets \ {t} : phase'[u] = phase[u],
           StackFits(t)', StackInPhase(t)', SocketsInPhase'
    PROVE  StackInv' /\ calls'[t] = s /\ \A u \in Threads \ {t} : calls'[u] = calls[u]
<1>1. calls'[t] = s /\ \A u \in Threads \ {t} : calls'[u] = calls[u]
  BY DEF StacksTypeOK
<1>2. StacksFit'
  BY <1>1 DEF StackFits, StackInv, StacksFit, Top, Rest
<1>3. ASSUME NEW u \in Threads \ {t} PROVE StackInPhase(u)'
  <2>1. StackInPhase(u)
    BY DEF StackInv, StacksInPhase, StackInPhase
  <2>2. u \in Sockets => phase'[u] = phase[u]
    OBVIOUS
  <2>3. u \in AgentConns => u \in Sockets
    BY DEF Sockets
  <2>4. u \in Viewers => u \in Sockets
    BY DEF Sockets
  <2> QED BY <1>1, <2>1, <2>2, <2>3, <2>4 DEF StackInPhase, Top, Rest
<1>4. StacksInPhase'
  BY <1>3 DEF StacksInPhase, StackInPhase
<1> QED BY <1>1, <1>2, <1>4 DEF StackInv

\* The stacks threads begin with.
LEMMA FirstCalls ==
    /\ \A x : <<x>> # <<>> /\ Head(<<x>>) = x /\ Tail(<<x>>) = <<>>
    /\ \A x, y : <<x, y>> # <<>> /\ Head(<<x, y>>) = x /\ Tail(<<x, y>>) = <<y>>
    /\ \A op : Call(op).op = op
    /\ \A op \in {"register_agent", "register_viewer", "on_agent_frame", "set_monitor",
                  "drop_viewer", "refresh_endpoint"} : Fits(op, <<>>)
    /\ Fits("on_agent_monitors", Connecting) /\ Fits("on_agent_disconnected", Leaving)
<1>1. /\ \A x : <<x>> # <<>> /\ Head(<<x>>) = x /\ Tail(<<x>>) = <<>>
      /\ \A x, y : <<x, y>> # <<>> /\ Head(<<x, y>>) = x /\ Tail(<<x, y>>) = <<y>>
  OBVIOUS
<1>2. \A op : Call(op).op = op
  BY DEF Call
<1> QED BY <1>1, <1>2, RestsDiffer DEF Fits

\* Sockets that open, receive and close keep the shapes.
LEMMA SocketShape ==
    ASSUME ServerTypeOK, StackInv, NEW t \in Threads,
           \/ t \in AgentConns /\ \/ \E s \in Sessions : AgentConnect(t, s)
                                  \/ AgentSocketReceive(t) \/ AgentSocketClose(t)
           \/ t \in Viewers /\ \/ ViewerConnect(t) \/ ViewerSetMonitor(t) \/ ViewerSocketClose(t)
    PROVE  StackInv'
<1> USE DEF ServerTypeOK
<1>a. t \in Sockets
  BY DEF AgentSocketReceive, Sockets
<1>b. AgentConns \cap Viewers = {}
  BY ThreadsAssumption
<1>c. ASSUME NEW x, calls' = [calls EXCEPT ![t] = <<x>>],
             x.op \in {"register_agent", "register_viewer", "on_agent_frame", "set_monitor",
                       "drop_viewer"}
      PROVE  /\ calls'[t] # <<>> /\ Top(t)' = x /\ StackFits(t)'
             /\ Rest(t)' \notin {Leaving, StoppingLeaving}
  <2>1. calls'[t] = <<x>>
    BY <1>c DEF StacksTypeOK
  <2>2. calls'[t] # <<>> /\ Top(t)' = x /\ Rest(t)' = <<>>
    BY <2>1, FirstCalls DEF Top, Rest
  <2> QED BY <1>c, <2>2, FirstCalls, RestsDiffer DEF StackFits
<1>d. ASSUME NEW x, NEW y, calls' = [calls EXCEPT ![t] = <<x, y>>],
             Fits(x.op, <<y>>)
      PROVE  calls'[t] # <<>> /\ Top(t)' = x /\ Rest(t)' = <<y>> /\ StackFits(t)'
  <2>1. calls'[t] = <<x, y>>
    BY <1>d DEF StacksTypeOK
  <2>2. calls'[t] # <<>> /\ Top(t)' = x /\ Rest(t)' = <<y>>
    BY <2>1, FirstCalls DEF Top, Rest
  <2> QED BY <1>d, <2>2 DEF StackFits
<1>1. ASSUME t \in AgentConns, NEW s \in Sessions, AgentConnect(t, s) PROVE StackInv'
  <2>1. calls' = [calls EXCEPT ![t] = <<Call("register_agent")>>]
        /\ phase' = [phase EXCEPT ![t] = "open"] /\ up' = up \cup {t}
    BY <1>1 DEF AgentConnect
  <2>2. phase'[t] = "open" /\ \A u \in Sockets \ {t} : phase'[u] = phase[u]
    BY <1>a, <2>1 DEF SocketTypeOK
  <2>3. SocketsInPhase'
    BY <2>1, <2>2 DEF StackInv, SocketsInPhase
  <2>4. Call("register_agent").op = "register_agent"
    BY FirstCalls
  <2>5. StackFits(t)' /\ StackInPhase(t)'
    BY <1>1, <1>b, <1>c, <2>1, <2>2, <2>4 DEF StackInPhase
  <2> QED BY <2>1, <2>2, <2>3, <2>5, BeginShape
<1>2. ASSUME t \in Viewers, ViewerConnect(t) PROVE StackInv'
  <2>1. calls' = [calls EXCEPT ![t] = <<Call("register_viewer")>>]
        /\ phase' = [phase EXCEPT ![t] = "open"] /\ up' = up \cup {t}
    BY <1>2 DEF ViewerConnect
  <2>2. phase'[t] = "open" /\ \A u \in Sockets \ {t} : phase'[u] = phase[u]
    BY <1>a, <2>1 DEF SocketTypeOK
  <2>3. SocketsInPhase'
    BY <2>1, <2>2 DEF StackInv, SocketsInPhase
  <2>4. Call("register_viewer").op = "register_viewer"
    BY FirstCalls
  <2>5. StackFits(t)' /\ StackInPhase(t)'
    BY <1>2, <1>b, <1>c, <2>1, <2>2, <2>4 DEF StackInPhase
  <2> QED BY <2>1, <2>2, <2>3, <2>5, BeginShape
<1>3. ASSUME t \in AgentConns, AgentSocketClose(t) PROVE StackInv'
  <2>1. calls' = [calls EXCEPT ![t] = <<Call("on_agent_disconnected"), Call("unregister_agent")>>]
        /\ phase' = [phase EXCEPT ![t] = "closing"] /\ up' = up /\ t \notin up
    BY <1>3 DEF AgentSocketClose
  <2>2. phase'[t] = "closing" /\ \A u \in Sockets \ {t} : phase'[u] = phase[u]
    BY <1>a, <2>1 DEF SocketTypeOK
  <2>3. SocketsInPhase'
    BY <2>1, <2>2 DEF StackInv, SocketsInPhase
  <2>4. StackFits(t)' /\ StackInPhase(t)'
    <3>1. <<Call("unregister_agent")>> = Leaving
      BY DEF Leaving
    <3>2. Call("on_agent_disconnected").op = "on_agent_disconnected"
      BY FirstCalls
    <3>3. calls'[t] # <<>> /\ Top(t)' = Call("on_agent_disconnected") /\ Rest(t)' = Leaving
          /\ StackFits(t)'
      BY <1>d, <2>1, <3>1, <3>2, FirstCalls
    <3>4. /\ Top(t)'.op # "register_agent" /\ Top(t)'.op # "register_viewer"
          /\ Rest(t)' \in {Leaving, StoppingLeaving}
      BY <3>2, <3>3
    <3> QED BY <1>3, <2>2, <3>3, <3>4 DEF StackInPhase
  <2> QED BY <2>1, <2>2, <2>3, <2>4, BeginShape
<1>4. ASSUME t \in Viewers, ViewerSocketClose(t) PROVE StackInv'
  <2>1. calls' = [calls EXCEPT ![t] = <<[op |-> "drop_viewer", conn |-> t]>>]
        /\ phase' = [phase EXCEPT ![t] = "closing"] /\ up' = up /\ t \notin up
    BY <1>4 DEF ViewerSocketClose
  <2>2. phase'[t] = "closing" /\ \A u \in Sockets \ {t} : phase'[u] = phase[u]
    BY <1>a, <2>1 DEF SocketTypeOK
  <2>3. SocketsInPhase'
    BY <2>1, <2>2 DEF StackInv, SocketsInPhase
  <2>4. StackFits(t)' /\ StackInPhase(t)'
    <3> DEFINE x == [op |-> "drop_viewer", conn |-> t]
    <3>1. x.op = "drop_viewer" /\ calls' = [calls EXCEPT ![t] = <<x>>]
      BY <2>1
    <3> HIDE DEF x
    <3>2. /\ Top(t)'.op = "drop_viewer" /\ StackFits(t)'
          /\ Rest(t)' \notin {Leaving, StoppingLeaving}
      BY <1>c, <3>1
    <3> QED BY <1>4, <1>b, <2>2, <3>2 DEF StackInPhase
  <2> QED BY <2>1, <2>2, <2>3, <2>4, BeginShape
<1>5. ASSUME t \in AgentConns, AgentSocketReceive(t) PROVE StackInv'
  <2>1. /\ \/ calls' = [calls EXCEPT ![t] = <<Call("on_agent_frame")>>]
           \/ calls' = [calls EXCEPT ![t] =
                 <<[op |-> "on_agent_monitors", monitors |-> Screen], Call("on_agent_connected")>>]
        /\ UNCHANGED <<phase, up>> /\ phase[t] = "open"
    BY <1>5 DEF AgentSocketReceive
  <2>2. SocketsInPhase'
    BY <2>1 DEF StackInv, SocketsInPhase
  <2>3. StackFits(t)' /\ StackInPhase(t)'
    <3>1. CASE calls' = [calls EXCEPT ![t] = <<Call("on_agent_frame")>>]
      <4>1. Call("on_agent_frame").op = "on_agent_frame"
        BY FirstCalls
      <4> QED BY <1>5, <1>c, <2>1, <3>1, <4>1 DEF StackInPhase
    <3>2. CASE calls' = [calls EXCEPT ![t] =
                 <<[op |-> "on_agent_monitors", monitors |-> Screen], Call("on_agent_connected")>>]
      <4>1. <<Call("on_agent_connected")>> = Connecting
        BY DEF Connecting
      <4> DEFINE x == [op |-> "on_agent_monitors", monitors |-> Screen]
      <4>2. /\ x.op = "on_agent_monitors"
            /\ calls' = [calls EXCEPT ![t] = <<x, Call("on_agent_connected")>>]
        BY <3>2
      <4> HIDE DEF x
      <4>3. /\ Top(t)'.op = "on_agent_monitors" /\ StackFits(t)'
            /\ Rest(t)' \notin {Leaving, StoppingLeaving}
        BY <1>d, <4>1, <4>2, FirstCalls, RestsDiffer
      <4> QED BY <1>5, <2>1, <4>3 DEF StackInPhase
    <3> QED BY <2>1, <3>1, <3>2
  <2> QED BY <2>1, <2>2, <2>3, BeginShape
<1>6. ASSUME t \in Viewers, ViewerSetMonitor(t) PROVE StackInv'
  <2>1. PICK i \in {PrimaryMonitor, OtherMonitor} :
           calls' = [calls EXCEPT ![t] = <<[op |-> "set_monitor", index |-> i]>>]
    BY <1>6 DEF ViewerSetMonitor
  <2>2. UNCHANGED <<phase, up>> /\ phase[t] = "open"
    BY <1>6 DEF ViewerSetMonitor
  <2>3. SocketsInPhase'
    BY <2>2 DEF StackInv, SocketsInPhase
  <2>4. StackFits(t)' /\ StackInPhase(t)'
    <3> DEFINE x == [op |-> "set_monitor", index |-> i]
    <3>1. x.op = "set_monitor" /\ calls' = [calls EXCEPT ![t] = <<x>>]
      BY <2>1
    <3> HIDE DEF x
    <3>2. /\ Top(t)'.op = "set_monitor" /\ StackFits(t)'
          /\ Rest(t)' \notin {Leaving, StoppingLeaving}
      BY <1>c, <3>1
    <3> QED BY <1>6, <1>b, <2>2, <3>2 DEF StackInPhase
  <2> QED BY <2>1, <2>2, <2>3, <2>4, BeginShape
<1> QED BY <1>1, <1>2, <1>3, <1>4, <1>5, <1>6

\* So do administrators, streamers, links and consoles.
LEMMA OthersShape ==
    ASSUME ServerTypeOK, StackInv,
           \/ \E t \in Admins : AdminRequest(t) /\ UNCHANGED socketVars
           \/ \E c \in AgentConns : HandleControl(c) \/ SendFrame(c) \/ AgentDrops(c)
           \/ \E v \in Viewers : ViewerLeaves(v)
    PROVE  StackInv'
<1>1. ASSUME UNCHANGED <<calls, phase>>, up' \subseteq up PROVE StackInv'
  BY <1>1 DEF StackInv, StacksFit, StacksInPhase, SocketsInPhase, Top, Rest
<1>2. ASSUME NEW c \in AgentConns, HandleControl(c) \/ SendFrame(c) \/ AgentDrops(c)
      PROVE  StackInv'
  BY <1>1, <1>2 DEF HandleControl, SendFrame, AgentDrops
<1>3. ASSUME NEW v \in Viewers, ViewerLeaves(v) PROVE StackInv'
  BY <1>1, <1>3 DEF ViewerLeaves, socketVars
<1>4. ASSUME NEW t \in Admins, AdminRequest(t), UNCHANGED socketVars PROVE StackInv'
  <2>1. UNCHANGED <<phase, up>>
    BY <1>4 DEF AdminRequest, create_policy, update_policy, delete_policy, set_group_members,
                ChangePolicy, socketVars
  <2>2. CASE calls' = calls
    BY <1>1, <2>1, <2>2
  <2>3. t \in Threads /\ t \notin Sockets /\ t \notin AgentConns /\ t \notin Viewers
    BY ThreadsAssumption DEF Threads, Sockets
  <2>4. ASSUME NEW s \in {<<>>, <<Call("refresh_endpoint")>>}, calls' = [calls EXCEPT ![t] = s]
        PROVE  StackInv'
    <3>1. calls'[t] = s
      BY <2>3, <2>4 DEF ServerTypeOK, StacksTypeOK
    <3>2. SocketsInPhase'
      BY <2>1 DEF StackInv, SocketsInPhase
    <3>3. calls'[t] # <<>> => Top(t)'.op = "refresh_endpoint" /\ Rest(t)' = <<>>
      BY <2>4, <3>1, FirstCalls DEF Top, Rest
    <3>4. StackFits(t)' /\ StackInPhase(t)'
      BY <2>3, <3>3, FirstCalls, RestsDiffer DEF StackFits, StackInPhase
    <3> QED BY <2>1, <2>3, <2>4, <3>2, <3>4, BeginShape DEF ServerTypeOK
  <2> QED BY <1>4, <2>2, <2>4 DEF AdminRequest, create_policy, update_policy, delete_policy,
             set_group_members, ChangePolicy
<1> QED BY <1>2, <1>3, <1>4
-----------------------------------------------------------------------------
(* Types and shapes are invariant.                                           *)

\* What the steps of a thread inside a method have in common.
LEMMA ThreadSteps ==
    ASSUME ServerTypeOK, StackInv, NEW t \in Threads,
           \/ HubStep(t) /\ UNCHANGED <<recordingVars, socketVars>>
           \/ RecordingStep(t) /\ UNCHANGED socketVars
    PROVE  Moves(t) /\ DOMAIN recorders \subseteq DOMAIN recorders' /\ UNCHANGED <<socketVars, up>>
<1>1. CASE HubStep(t) /\ UNCHANGED <<recordingVars, socketVars>>
  <2>1. recorders' = recorders
    BY <1>1 DEF recordingVars
  <2>2. Moves(t)
    BY <1>1, <2>1, HubMoves DEF ServerTypeOK
  <2>3. up' = up
    BY <1>1 DEF HubStep, register_agent, unregister_agent, on_agent_frame, fan_out,
       on_agent_monitors, register_viewer, drop_viewer, set_monitor, start_recording,
       stop_recording, tell_agent_start, send_text
  <2> QED BY <1>1, <2>1, <2>2, <2>3
<1>2. CASE RecordingStep(t) /\ UNCHANGED socketVars
  <2>1. up' = up
    BY <1>2 DEF RecordingStep, connected_check, connected_resolve, connected_rate,
       manager_start, recorder_start, manager_forget, disconnected_check, manager_stop,
       recorder_stop, refresh_online, refresh_resolve, refresh_decide
  <2> QED BY <1>2, <2>1, RecordingMoves DEF ServerTypeOK
<1> QED BY <1>1, <1>2

\* The steps in which a socket's handler begins something.
SocketStep(t) ==
    \/ t \in AgentConns /\ \/ \E s \in Sessions : AgentConnect(t, s)
                           \/ AgentSocketReceive(t) \/ AgentSocketClose(t)
    \/ t \in Viewers /\ \/ ViewerConnect(t) \/ ViewerSetMonitor(t) \/ ViewerSocketClose(t)

\* The steps of everybody outside the server's threads.
OutsideStep ==
    \/ \E c \in AgentConns : HandleControl(c) \/ SendFrame(c) \/ AgentDrops(c)
    \/ \E v \in Viewers : ViewerLeaves(v)

\* Every step of the program is one of five kinds.
LEMMA Kinds ==
    ASSUME Next
    PROVE  \/ \E t \in Threads : \/ HubStep(t) /\ UNCHANGED <<recordingVars, socketVars>>
                                 \/ RecordingStep(t) /\ UNCHANGED socketVars
                                 \/ SocketStep(t)
           \/ \E t \in Admins : AdminRequest(t) /\ UNCHANGED socketVars
           \/ OutsideStep
<1>1. AgentConns \subseteq Threads /\ Viewers \subseteq Threads
  BY DEF Threads
<1> QED BY <1>1 DEF Next, ServerStep, SocketStep, OutsideStep

\* The program begins with the types and the shapes ...
LEMMA ShapesInit == ASSUME Init PROVE ServerTypeOK /\ StackInv
<1>1. HubTypeOK /\ InboxTypeOK
  <2>1. <<>> \in Seq(Messages)
    OBVIOUS
  <2> QED BY <2>1 DEF Init, HubInit, HubTypeOK, InboxTypeOK
<1>2. StacksTypeOK /\ StackInv
  <2>1. calls = [t \in Threads |-> <<>>] /\ up = {} /\ phase = [s \in Sockets |-> "new"]
    BY DEF Init, HubInit
  <2> QED BY <2>1 DEF StacksTypeOK, StackInv, StacksFit, StacksInPhase, SocketsInPhase
<1>3. RecordingTypeOK
  <2>1. [fps: PolicyFps, enabled: {TRUE}] \subseteq [fps: PolicyFps, enabled: BOOLEAN]
    OBVIOUS
  <2>2. policies \in [TargetTypes -> Policies]
    BY <2>1 DEF Init, RecordingInit, Policies
  <2>3. recorders \in Seq(Recorders)
    BY DEF Init, RecordingInit
  <2> QED BY <2>2, <2>3 DEF Init, RecordingInit, RecordingTypeOK
<1>4. SocketTypeOK
  BY DEF Init, SocketTypeOK, PrimaryMonitor
<1> QED BY <1>1, <1>2, <1>3, <1>4 DEF ServerTypeOK

\* ... and keeps them.
LEMMA ShapesStep ==
    ASSUME ServerTypeOK, StackInv, [Next]_vars
    PROVE  ServerTypeOK' /\ StackInv'
<1>1. ASSUME NEW t \in Threads, \/ HubStep(t) /\ UNCHANGED <<recordingVars, socketVars>>
                                \/ RecordingStep(t) /\ UNCHANGED socketVars
      PROVE  ServerTypeOK' /\ StackInv'
  <2>1. Moves(t) /\ DOMAIN recorders \subseteq DOMAIN recorders' /\ UNCHANGED <<phase, up>>
    BY <1>1, ThreadSteps DEF socketVars
  <2>2. StackInv'
    BY <2>1, MovesShape DEF ServerTypeOK
  <2>3. ServerTypeOK'
    BY <1>1, HubTypeStep, RecordingTypeStep DEF StackInv
  <2> QED BY <2>2, <2>3
<1>2. ASSUME NEW t \in Threads, SocketStep(t) PROVE ServerTypeOK' /\ StackInv'
  BY <1>2, SocketTypeStep, SocketShape DEF SocketStep
<1>3. CASE \E t \in Admins : AdminRequest(t) /\ UNCHANGED socketVars
  BY <1>3, AdminTypeStep, OthersShape
<1>4. CASE OutsideStep
  BY <1>4, StreamerTypeStep, OthersShape DEF OutsideStep
<1>5. CASE UNCHANGED vars
  <2>1. UNCHANGED <<agent, viewers, recording, lastFrame, monitors, lastReg, calls, inbox, up>>
    BY <1>5 DEF vars, hubVars
  <2>2. UNCHANGED <<policies, member, registry, recorders, failures, changes>>
    BY <1>5 DEF vars, recordingVars
  <2>3. UNCHANGED <<phase, owner, outbox, capture, monitor, switches>>
    BY <1>5 DEF vars, socketVars
  <2>4. Calls' = Calls
    BY <2>2 DEF Calls, RecorderCalls, PlainCalls, SendCalls, FanOutCalls, DropCalls,
       MonitorsCalls, SetMonitorCalls, RateCalls, DecideCalls
  <2>5. StacksTypeOK' /\ InboxTypeOK' /\ HubTypeOK'
    BY <2>1, <2>4 DEF ServerTypeOK, StacksTypeOK, InboxTypeOK, HubTypeOK
  <2>6. RecordingTypeOK' /\ SocketTypeOK'
    BY <2>2, <2>3 DEF ServerTypeOK, RecordingTypeOK, SocketTypeOK
  <2>7. StackInv'
    BY <2>1, <2>3 DEF StackInv, StacksFit, StacksInPhase, SocketsInPhase, Top, Rest
  <2> QED BY <2>5, <2>6, <2>7 DEF ServerTypeOK
<1> QED BY <1>1, <1>2, <1>3, <1>4, <1>5, Kinds

\* They hold in every state of the program.
LEMMA ShapesHold == Spec => [](ServerTypeOK /\ StackInv)
<1>1. Init => ServerTypeOK /\ StackInv
  BY ShapesInit
<1>2. ServerTypeOK /\ StackInv /\ [Next]_vars => (ServerTypeOK /\ StackInv)'
  BY ShapesStep
<1> QED BY <1>1, <1>2, PTL DEF Spec

\* Whatever threads overlap, the hub's dictionaries, the recorder registry, the
\* messages to the agents and the streamers' settings keep their types: only
\* agent connections are registered as agents and only viewers as viewers.
THEOREM ServerTypeCorrect == Spec => []TypeOK
<1>1. ServerTypeOK => TypeOK
  <2>1. HubTypeOK /\ SocketTypeOK /\ InboxTypeOK =>
          /\ agent \in AgentConns \cup {None} /\ lastReg \in AgentConns \cup {None}
          /\ viewers \subseteq Viewers
          /\ recording \in {None, Fps4K} \cup PolicyFps
          /\ lastFrame \in BOOLEAN /\ monitors \in {None, Screen}
          /\ \A c \in AgentConns : \A i \in DOMAIN inbox[c] : inbox[c][i] \in Messages
          /\ up \subseteq Sockets
          /\ phase \in [Sockets -> {"new", "open", "closing"}]
          /\ owner \in [AgentConns -> Sessions \cup {None}]
          /\ capture \in [AgentConns ->
               {None} \cup [fps: PolicyFps \cup {Fps4K, LiveFps}, allowSkip: BOOLEAN]]
    BY DEF HubTypeOK, SocketTypeOK, InboxTypeOK, Rates, Captures
  <2>2. ASSUME RecordingTypeOK
        PROVE  /\ registry \in {None} \cup DOMAIN recorders
               /\ \A r \in DOMAIN recorders :
                    recorders[r].state \in {"created", "running", "cancelled", "stopped"}
    <3>1. \A r \in DOMAIN recorders : recorders[r] \in Recorders
      BY <2>2 DEF RecordingTypeOK
    <3> QED BY <2>2, <3>1 DEF RecordingTypeOK, Recorders
  <2> QED BY <2>1, <2>2 DEF ServerTypeOK, TypeOK
<1> QED BY <1>1, ShapesHold, PTL

-----------------------------------------------------------------------------
(* The registration.                                                         *)

\* Nothing but the end of the newest connection's handler ends its registration.
LEMMA RegistrationKept ==
    ASSUME RegistrationInv, UNCHANGED <<agent, lastReg>>,
           lastReg # None => (Done(lastReg)' <=> Done(lastReg)) /\ (phase'[lastReg] # "new")
    PROVE  RegistrationInv'
BY DEF RegistrationInv, RegistrationTracksNewest

\* A thread that moves and does not register or unregister keeps the registration.
LEMMA RegistrationMoves ==
    ASSUME ServerTypeOK, StackInv, RegistrationInv, NEW t \in Threads, Moves(t),
           DOMAIN recorders \subseteq DOMAIN recorders',
           Top(t).op # "unregister_agent", UNCHANGED <<agent, lastReg, phase, up>>
    PROVE  RegistrationInv'
<1>1. /\ calls[t] # <<>>
      /\ calls'[t] = <<>> => ~(t \in AgentConns /\ phase[t] = "closing")
      /\ \A u \in Threads \ {t} : calls'[u] = calls[u]
  BY MovesShape DEF ServerTypeOK, Moves
<1>2. ASSUME lastReg # None PROVE Done(lastReg)' <=> Done(lastReg)
  <2>1. lastReg \in AgentConns /\ lastReg \in Threads
    BY <1>2 DEF ServerTypeOK, HubTypeOK, Threads
  <2> QED BY <1>1, <2>1 DEF Done
<1> QED BY <1>2, RegistrationKept DEF RegistrationInv

\* Every step keeps the newest registration in force.
LEMMA RegistrationStep ==
    ASSUME ServerTypeOK, StackInv, RegistrationInv, [Next]_vars
    PROVE  RegistrationInv'
<1>a. lastReg # None => lastReg \in AgentConns /\ lastReg \in Threads /\ lastReg \in Sockets
  BY DEF ServerTypeOK, HubTypeOK, Threads, Sockets
<1>1. ASSUME NEW t \in Threads, HubStep(t), UNCHANGED <<recordingVars, socketVars>>
      PROVE  RegistrationInv'
  <2>1. Moves(t) /\ DOMAIN recorders \subseteq DOMAIN recorders' /\ UNCHANGED <<phase, up>>
    BY <1>1, ThreadSteps DEF socketVars
  <2>2. /\ calls[t] # <<>> /\ \A u \in Threads \ {t} : calls'[u] = calls[u]
    BY <2>1, MovesShape DEF Moves, ServerTypeOK
  <2>3. CASE register_agent(t)
    <3>1. agent' = t /\ lastReg' = t
      BY <2>3 DEF register_agent
    <3>2. t \in AgentConns /\ phase[t] = "open"
      BY <2>2, <2>3 DEF register_agent, Calling, Top, StackInv, StacksInPhase
    <3>3. t # None
      BY ThreadsAssumption, <3>2
    <3> QED BY <2>1, <3>1, <3>2, <3>3 DEF RegistrationInv, RegistrationTracksNewest, Done
  <2>4. CASE unregister_agent(t)
    <3>1. Top(t).op = "unregister_agent"
      BY <2>4 DEF unregister_agent, Calling, Top
    <3>2. t \in AgentConns /\ phase[t] = "closing" /\ t # None
      BY <2>2, <3>1, ThreadsAssumption DEF StackInv, StacksInPhase
    <3>3. Rest(t) = <<>>
      BY <2>2, <3>1 DEF StackInv, StacksFit, Fits
    <3>4. calls'[t] = <<>>
      BY <2>2, <2>4, <3>3, ReturnNone DEF unregister_agent, ServerTypeOK
    <3>5. lastReg' = lastReg /\ agent' = IF agent = t THEN None ELSE agent
      BY <2>4 DEF unregister_agent, EndsRegistration
    <3>6. CASE lastReg = t
      BY <2>1, <2>2, <3>2, <3>4, <3>5, <3>6 DEF RegistrationInv, RegistrationTracksNewest, Done
    <3>7. CASE lastReg # t
      <4>1. agent # t /\ agent' = agent
        BY <3>2, <3>5, <3>7 DEF RegistrationInv, RegistrationTracksNewest
      <4>2. lastReg # None => (Done(lastReg)' <=> Done(lastReg))
        BY <1>a, <2>1, <2>2, <3>5, <3>7 DEF Done
      <4> QED BY <2>1, <3>5, <4>1, <4>2, RegistrationKept DEF RegistrationInv
    <3> QED BY <3>6, <3>7
  <2>5. CASE \/ on_agent_frame(t) \/ fan_out(t) \/ on_agent_monitors(t) \/ register_viewer(t)
             \/ drop_viewer(t) \/ set_monitor(t) \/ start_recording(t) \/ stop_recording(t)
             \/ tell_agent_start(t) \/ send_text(t)
    <3>1. UNCHANGED <<agent, lastReg>> /\ Top(t).op # "unregister_agent"
      BY <2>5 DEF on_agent_frame, fan_out, on_agent_monitors, register_viewer, drop_viewer,
         set_monitor, start_recording, stop_recording, tell_agent_start, send_text, hubVars,
         Calling, Top
    <3> QED BY <2>1, <3>1, RegistrationMoves
  <2> QED BY <1>1, <2>3, <2>4, <2>5 DEF HubStep
<1>2. ASSUME NEW t \in Threads, RecordingStep(t), UNCHANGED socketVars PROVE RegistrationInv'
  <2>1. Moves(t) /\ DOMAIN recorders \subseteq DOMAIN recorders' /\ UNCHANGED <<phase, up>>
    BY <1>2, ThreadSteps DEF socketVars
  <2>2. UNCHANGED <<agent, lastReg>> /\ Top(t).op # "unregister_agent"
    BY <1>2 DEF RecordingStep, connected_check, connected_resolve, connected_rate,
       manager_start, recorder_start, manager_forget, disconnected_check, manager_stop,
       recorder_stop, refresh_online, refresh_resolve, refresh_decide, hubVars, Calling, Top
  <2> QED BY <2>1, <2>2, RegistrationMoves
<1>3. ASSUME NEW t \in Threads, SocketStep(t) PROVE RegistrationInv'
  <2>1. UNCHANGED <<agent, lastReg>>
    BY <1>3 DEF SocketStep, AgentConnect, AgentSocketReceive, AgentSocketClose, ViewerConnect,
       ViewerSetMonitor, ViewerSocketClose, hubVars
  <2>2. PICK s : calls' = [calls EXCEPT ![t] = s]
    BY <1>3 DEF SocketStep, AgentConnect, AgentSocketReceive, AgentSocketClose, ViewerConnect,
       ViewerSetMonitor, ViewerSocketClose
  <2>3. \A u \in Threads \ {t} : calls'[u] = calls[u]
    BY <2>2 DEF ServerTypeOK, StacksTypeOK
  <2>4. \A u \in Sockets \ {t} : phase'[u] = phase[u]
    BY <1>3 DEF SocketStep, AgentConnect, AgentSocketReceive, AgentSocketClose, ViewerConnect,
       ViewerSetMonitor, ViewerSocketClose, ServerTypeOK, SocketTypeOK
  <2>5. CASE lastReg # t
    BY <1>a, <2>1, <2>3, <2>4, <2>5, RegistrationKept DEF RegistrationInv, Done
  <2>6. CASE lastReg = t /\ lastReg # None
    <3>1. t \in AgentConns /\ t \notin Viewers /\ t \in Sockets /\ phase[t] # "new"
      BY <1>a, <2>6, ThreadsAssumption DEF RegistrationInv
    <3>2. CASE AgentSocketReceive(t)
      BY <2>1, <2>6, <3>2, RegistrationKept DEF AgentSocketReceive, RegistrationInv, Done
    <3>3. CASE AgentSocketClose(t)
      <4>1. phase[t] = "open" /\ phase'[t] = "closing"
        BY <3>1, <3>3 DEF AgentSocketClose, ServerTypeOK, SocketTypeOK
      <4>2. calls'[t] = <<Call("on_agent_disconnected"), Call("unregister_agent")>>
        BY <3>3 DEF AgentSocketClose, ServerTypeOK, StacksTypeOK
      <4>3. calls'[t] # <<>>
        BY <4>2, FirstCalls
      <4> QED BY <2>1, <2>6, <4>1, <4>3, RegistrationKept DEF RegistrationInv, Done
    <3> QED BY <1>3, <3>1, <3>2, <3>3 DEF SocketStep, AgentConnect
  <2>7. CASE lastReg = t /\ lastReg = None
    BY <2>1, <2>7, RegistrationKept
  <2> QED BY <2>5, <2>6, <2>7
<1>4. ASSUME NEW t \in Admins, AdminRequest(t), UNCHANGED socketVars PROVE RegistrationInv'
  <2>1. UNCHANGED <<agent, lastReg, phase>>
    BY <1>4 DEF AdminRequest, create_policy, update_policy, delete_policy, set_group_members,
                ChangePolicy, hubVars, socketVars
  <2>2. lastReg # None => lastReg # t
    BY <1>a, ThreadsAssumption
  <2>3. \A u \in Threads \ {t} : calls'[u] = calls[u]
    BY <1>4 DEF AdminRequest, create_policy, update_policy, delete_policy, set_group_members,
                ChangePolicy, ServerTypeOK, StacksTypeOK
  <2> QED BY <1>a, <2>1, <2>2, <2>3, RegistrationKept DEF RegistrationInv, Done
<1>5. CASE OutsideStep
  BY <1>5, RegistrationKept DEF OutsideStep, HandleControl, SendFrame, AgentDrops, ViewerLeaves,
     hubVars, socketVars, Done, RegistrationInv
<1>6. CASE UNCHANGED vars
  BY <1>6, RegistrationKept DEF vars, hubVars, socketVars, Done, RegistrationInv
<1> QED BY <1>1, <1>2, <1>3, <1>4, <1>5, <1>6, Kinds

\* Whatever threads overlap, and however often the agent reconnects, the agent
\* the hub sends to is the connection that registered last, until the handler
\* of that connection has ended.
THEOREM NewestConnectionServed == Spec => []RegistrationTracksNewest
<1>1. Init => RegistrationInv
  BY DEF Init, HubInit, RegistrationInv, RegistrationTracksNewest
<1>2. ServerTypeOK /\ StackInv /\ RegistrationInv /\ [Next]_vars => RegistrationInv'
  BY RegistrationStep
<1>3. RegistrationInv => RegistrationTracksNewest
  BY DEF RegistrationInv
<1> QED BY <1>1, <1>2, <1>3, ShapesHold, PTL DEF Spec
-----------------------------------------------------------------------------
(* The viewers.                                                              *)

\* A thread that neither took a frame nor is sending one drops nobody it did
\* not already have to drop.
LEMMA DropsMoves ==
    ASSUME ServerTypeOK, StackInv, ViewersInv, NEW t \in Threads, Moves(t),
           DOMAIN recorders \subseteq DOMAIN recorders', UNCHANGED <<phase, up>>,
           Top(t).op \notin {"on_agent_frame", "fan_out"}
    PROVE  DropsTheDead(t)'
<1>1. DropsTheDead(t) /\ calls[t] # <<>> /\ Fits(Top(t).op, Rest(t))
  BY DEF ViewersInv, Moves, StackInv, StacksFit
<1>2. calls \in [Threads -> Seq(Calls')]
  BY StacksGrow DEF ServerTypeOK, StacksTypeOK
<1>3. CASE Return(t, <<>>)
  <2>1. calls'[t] = Rest(t)
    BY <1>1, <1>3, ReturnNone DEF ServerTypeOK
  <2>2. ASSUME Rest(t) \in FanOuts
        PROVE  /\ Top(t)'.op = "fan_out" /\ Rest(t)' \notin FanOuts
               /\ Top(t)' = Head(Rest(t))
    BY <2>1, <2>2, RestFacts, RestsDiffer DEF Top, Rest
  <2>3. ASSUME Rest(t) \in {Connecting, Stopping, Leaving, StoppingLeaving}
        PROVE  Top(t)'.op \notin {"drop_viewer", "fan_out"} /\ Rest(t)' \notin FanOuts
    BY <2>1, <2>3, RestFacts, RestsDiffer DEF Top, Rest
  <2> QED BY <1>1, <2>1, <2>2, <2>3 DEF DropsTheDead, Fits
<1>4. ASSUME NEW x \in Calls', Return(t, <<x>>), Follows(Top(t).op, x.op)
      PROVE  DropsTheDead(t)'
  <2>1. Top(t)' = x /\ Rest(t)' = Rest(t)
    BY <1>1, <1>2, <1>4, ReturnOne
  <2> QED BY <1>1, <1>4, <2>1 DEF DropsTheDead, Follows
<1>5. CASE Top(t).op = "on_agent_disconnected" /\ Return(t, DisconnectCalls)
  <2>1. Call("stop_recording") \in Calls' /\ Call("manager_stop") \in Calls'
        /\ Call("stop_recording").op = "stop_recording"
    BY DEF Call, Calls, PlainCalls
  <2>2. Top(t)' = Call("stop_recording") /\ Rest(t)' = <<Call("manager_stop")>> \o Rest(t)
    BY <1>1, <1>2, <1>5, <2>1, ReturnTwo DEF DisconnectCalls
  <2>3. Rest(t)' \in {Stopping, StoppingLeaving}
    BY <1>1, <1>5, <2>2, FitsDisconnect
  <2> QED BY <2>1, <2>2, <2>3, RestsDiffer DEF DropsTheDead
<1> QED BY <1>3, <1>4, <1>5 DEF Moves

\* A thread that moves without adding or dropping a viewer.
LEMMA ViewersKept ==
    ASSUME ServerTypeOK, ViewersInv, NEW t \in Threads, calls[t] # <<>>,
           \A u \in Threads \ {t} : calls'[u] = calls[u],
           UNCHANGED <<viewers, phase, up>>,
           Top(t).op \notin {"drop_viewer", "register_viewer"}, DropsTheDead(t)'
    PROVE  ViewersInv'
<1>1. ASSUME NEW v \in viewers, phase[v] = "closing" PROVE v # t /\ v \in Threads
  <2>1. [op |-> "drop_viewer", conn |-> v].op = "drop_viewer"
    OBVIOUS
  <2>2. v \in Threads
    BY DEF ServerTypeOK, HubTypeOK, Threads
  <2> QED BY <1>1, <2>1, <2>2 DEF ViewersInv
<1>2. \A v \in viewers' : /\ phase'[v] # "new"
                          /\ phase'[v] = "closing" =>
                               calls'[v] # <<>> /\ Top(v)' = [op |-> "drop_viewer", conn |-> v]
  BY <1>1 DEF ViewersInv, Top
<1>3. ASSUME NEW u \in Threads PROVE DropsTheDead(u)'
  BY DEF ViewersInv, DropsTheDead, Top, Rest
<1>4. ASSUME NEW v \in Viewers, phase[v] = "open", v \in up
      PROVE  (calls'[v] # <<>> /\ Top(v)'.op = "register_viewer") \/ v \in viewers'
  <2>1. v \in Threads
    BY DEF Threads
  <2> QED BY <1>4, <2>1 DEF ViewersInv, Top
<1> QED BY <1>2, <1>3, <1>4 DEF ViewersInv

\* Other threads' drops stay dead while no socket of theirs is opened again.
LEMMA DropsElsewhere ==
    ASSUME ServerTypeOK, ViewersInv, NEW u \in Threads, calls'[u] = calls[u],
           \A v \in Viewers : phase[v] # "new" =>
               phase'[v] # "new" /\ (v \notin up => v \notin up')
    PROVE  DropsTheDead(u)'
<1> SUFFICES ASSUME calls[u] # <<>> PROVE DropsTheDead(u)'
  BY DEF DropsTheDead
<1>1. Top(u)' = Top(u) /\ Rest(u)' = Rest(u) /\ DropsTheDead(u)
  BY DEF Top, Rest, ViewersInv
<1>2. Top(u) \in Calls /\ (Rest(u) \in FanOuts => Head(Rest(u)) \in FanOutCalls)
  BY TopIsCall, RestFacts DEF ServerTypeOK
<1>3. /\ Top(u).op = "drop_viewer" => Top(u).conn \in Viewers
      /\ Top(u).op = "fan_out" => Top(u).to \subseteq Viewers
      /\ Rest(u) \in FanOuts => Head(Rest(u)).to \subseteq Viewers
  BY <1>2, CallFields DEF FanOutCalls
<1>4. Top(u).op = "drop_viewer" => Top(u).conn \notin up' /\ phase'[Top(u).conn] # "new"
  BY <1>1, <1>3 DEF DropsTheDead
<1>5. Top(u).op = "fan_out" => \A v \in Top(u).to : phase'[v] # "new"
  BY <1>1, <1>3 DEF DropsTheDead
<1>6. Rest(u) \in FanOuts => \A v \in Head(Rest(u)).to : phase'[v] # "new"
  BY <1>1, <1>3 DEF DropsTheDead
<1>7. (Rest(u) \in FanOuts)' <=> Rest(u) \in FanOuts
  BY <1>1 DEF FanOuts, FanOutCalls
<1> QED BY <1>1, <1>4, <1>5, <1>6, <1>7 DEF DropsTheDead

\* Every step keeps the viewers.
LEMMA ViewersStep ==
    ASSUME ServerTypeOK, StackInv, ViewersInv, [Next]_vars
    PROVE  ViewersInv'
<1>a. Viewers \subseteq Threads /\ Viewers \subseteq Sockets /\ AgentConns \cap Viewers = {}
      /\ Admins \cap Viewers = {} /\ Admins \subseteq Threads
  BY ThreadsAssumption DEF Threads, Sockets
<1>b. ASSUME NEW u \in Threads, calls[u] # <<>>
      PROVE  /\ Top(u).op = "drop_viewer" => Top(u).conn \in Viewers
             /\ Top(u).op = "fan_out" => Top(u).to \subseteq Viewers
             /\ Rest(u) \in FanOuts => Head(Rest(u)).to \subseteq Viewers
  <2>1. Top(u) \in Calls
    BY <1>b, TopIsCall DEF ServerTypeOK
  <2>2. Rest(u) \in FanOuts => Head(Rest(u)) \in FanOutCalls
    BY RestFacts
  <2> QED BY <2>1, <2>2, CallFields DEF FanOutCalls
<1>c. calls \in [Threads -> Seq(Calls)]
  BY DEF ServerTypeOK, StacksTypeOK
<1>1. ASSUME NEW t \in Threads, HubStep(t), UNCHANGED <<recordingVars, socketVars>>
      PROVE  ViewersInv'
  <2>1. Moves(t) /\ DOMAIN recorders \subseteq DOMAIN recorders' /\ UNCHANGED <<phase, up>>
    BY <1>1, ThreadSteps DEF socketVars
  <2>2. /\ calls[t] # <<>> /\ \A u \in Threads \ {t} : calls'[u] = calls[u]
        /\ Fits(Top(t).op, Rest(t)) /\ DropsTheDead(t)
    BY <2>1, MovesShape DEF Moves, ServerTypeOK, StackInv, StacksFit, ViewersInv
  <2>3. CASE on_agent_frame(t)
    <3> DEFINE x == [op |-> "fan_out", to |-> viewers]
    <3>1. Top(t).op = "on_agent_frame" /\ Return(t, <<x>>) /\ viewers' = viewers
      BY <2>3 DEF on_agent_frame, Calling, Top
    <3>2. x \in Calls /\ x.op = "fan_out" /\ x.to = viewers
      BY DEF ServerTypeOK, HubTypeOK, Calls, FanOutCalls
    <3> HIDE DEF x
    <3>3. Top(t)' = x /\ Rest(t)' = Rest(t)
      BY <2>2, <3>1, <3>2, ReturnOne DEF ServerTypeOK, StacksTypeOK
    <3>4. \A v \in viewers : phase[v] # "new"
      BY DEF ViewersInv
    <3>5. DropsTheDead(t)'
      BY <2>1, <2>2, <3>2, <3>3, <3>4 DEF DropsTheDead
    <3> QED BY <2>1, <2>2, <3>1, <3>5, ViewersKept
  <2>4. CASE fan_out(t)
    <3>1. Top(t).op = "fan_out" /\ viewers' = viewers /\ \A v \in Top(t).to : phase[v] # "new"
      BY <2>2, <2>4 DEF fan_out, Calling, Top, hubVars, DropsTheDead
    <3>2. Rest(t) = <<>> /\ Top(t).to \subseteq Viewers
      BY <1>b, <2>2, <3>1 DEF Fits
    <3>3. CASE Return(t, <<>>)
      <4>1. calls'[t] = <<>>
        BY <2>2, <3>2, <3>3, ReturnNone DEF ServerTypeOK
      <4> QED BY <2>1, <2>2, <3>1, <4>1, ViewersKept DEF DropsTheDead
    <3>4. ASSUME NEW v \in Top(t).to, Return(t, <<[op |-> "fan_out", to |-> Top(t).to \ {v}]>>)
          PROVE  DropsTheDead(t)'
      <4> DEFINE x == [op |-> "fan_out", to |-> Top(t).to \ {v}]
      <4>1. x \in Calls /\ x.op = "fan_out" /\ x.to \subseteq Top(t).to /\ Return(t, <<x>>)
        BY <3>2, <3>4 DEF Calls, FanOutCalls
      <4> HIDE DEF x
      <4>2. Top(t)' = x /\ Rest(t)' = <<>>
        BY <2>2, <3>2, <4>1, ReturnOne DEF ServerTypeOK, StacksTypeOK
      <4> QED BY <2>1, <3>1, <4>1, <4>2, RestsDiffer DEF DropsTheDead
    <3>5. ASSUME NEW v \in Top(t).to, v \notin up,
                 Return(t, <<[op |-> "drop_viewer", conn |-> v],
                             [op |-> "fan_out", to |-> Top(t).to \ {v}]>>)
          PROVE  DropsTheDead(t)'
      <4> DEFINE x == [op |-> "drop_viewer", conn |-> v]
                 y == [op |-> "fan_out", to |-> Top(t).to \ {v}]
      <4>1. /\ x \in Calls /\ x.op = "drop_viewer" /\ x.conn = v
            /\ y \in Calls /\ y.to \subseteq Top(t).to /\ Return(t, <<x, y>>)
        BY <3>2, <3>5 DEF Calls, DropCalls, FanOutCalls
      <4> HIDE DEF x, y
      <4>2. Top(t)' = x /\ Rest(t)' = <<y>> \o Rest(t)
        BY <1>c, <2>2, <4>1, ReturnTwo, SMTT(30)
      <4>3. Head(Rest(t)') = y
        <5>1. <<y>> \o <<>> = <<y>> /\ Head(<<y>>) = y
          OBVIOUS
        <5> QED BY <3>2, <4>2, <5>1
      <4> QED BY <2>1, <3>1, <3>5, <4>1, <4>2, <4>3 DEF DropsTheDead
    <3>6. DropsTheDead(t)' \/ Return(t, <<>>)
      BY <2>4, <3>4, <3>5 DEF fan_out, Top
    <3> QED BY <2>1, <2>2, <3>1, <3>3, <3>6, ViewersKept
  <2>5. CASE register_viewer(t)
    <3>1. Top(t).op = "register_viewer" /\ viewers' = viewers \cup {t}
      BY <2>5 DEF register_viewer, Calling, Top
    <3>2. t \in Viewers /\ phase[t] = "open"
      BY <2>2, <3>1 DEF StackInv, StacksInPhase
    <3>3. DropsTheDead(t)'
      BY <2>1, <3>1, DropsMoves
    <3>4. ASSUME NEW u \in Threads PROVE DropsTheDead(u)'
      BY <2>1, <2>2, <3>3 DEF ViewersInv, DropsTheDead, Top, Rest
    <3>5. ASSUME NEW v \in viewers \ {t}
          PROVE  /\ phase'[v] # "new"
                 /\ phase'[v] = "closing" =>
                      calls'[v] # <<>> /\ Top(v)' = [op |-> "drop_viewer", conn |-> v]
      <4>1. v \in Threads
        BY <1>a DEF ServerTypeOK, HubTypeOK
      <4> QED BY <2>1, <2>2, <4>1 DEF ViewersInv, Top
    <3>6. ASSUME NEW v \in Viewers, phase'[v] = "open", v \in up'
          PROVE  (calls'[v] # <<>> /\ Top(v)'.op = "register_viewer") \/ v \in viewers'
      BY <1>a, <2>1, <2>2, <3>1, <3>6 DEF ViewersInv, Top
    <3> QED BY <2>1, <3>1, <3>2, <3>4, <3>5, <3>6 DEF ViewersInv
  <2>6. CASE drop_viewer(t)
    <3>1. Top(t).op = "drop_viewer" /\ viewers' = viewers \ {Top(t).conn}
      BY <2>6 DEF drop_viewer, Calling, Top, ViewersWithout
    <3>2. Top(t).conn \notin up
      BY <2>2, <3>1 DEF DropsTheDead
    <3>3. DropsTheDead(t)'
      BY <2>1, <3>1, DropsMoves
    <3>4. ASSUME NEW u \in Threads PROVE DropsTheDead(u)'
      BY <2>1, <2>2, <3>3 DEF ViewersInv, DropsTheDead, Top, Rest
    <3>5. ASSUME NEW v \in viewers'
          PROVE  /\ phase'[v] # "new"
                 /\ phase'[v] = "closing" =>
                      calls'[v] # <<>> /\ Top(v)' = [op |-> "drop_viewer", conn |-> v]
      <4>1. v \in Threads /\ v \in viewers /\ v # Top(t).conn
        BY <1>a, <3>1 DEF ServerTypeOK, HubTypeOK
      <4>2. phase[v] = "closing" => v # t
        <5>1. [op |-> "drop_viewer", conn |-> v].conn = v
          OBVIOUS
        <5> QED BY <4>1, <5>1 DEF ViewersInv
      <4> QED BY <2>1, <2>2, <4>1, <4>2 DEF ViewersInv, Top
    <3>6. ASSUME NEW v \in Viewers, phase'[v] = "open", v \in up'
          PROVE  (calls'[v] # <<>> /\ Top(v)'.op = "register_viewer") \/ v \in viewers'
      BY <1>a, <2>1, <2>2, <3>1, <3>2, <3>6 DEF ViewersInv, Top
    <3> QED BY <3>4, <3>5, <3>6 DEF ViewersInv
  <2>7. CASE \/ register_agent(t) \/ unregister_agent(t) \/ on_agent_monitors(t)
             \/ set_monitor(t) \/ start_recording(t) \/ stop_recording(t)
             \/ tell_agent_start(t) \/ send_text(t)
    <3>1. /\ viewers' = viewers
          /\ Top(t).op \notin {"drop_viewer", "register_viewer", "on_agent_frame", "fan_out"}
      BY <2>7 DEF register_agent, unregister_agent, on_agent_monitors, set_monitor,
         start_recording, stop_recording, tell_agent_start, send_text, hubVars, Calling, Top
    <3> QED BY <2>1, <2>2, <3>1, DropsMoves, ViewersKept
  <2> QED BY <1>1, <2>3, <2>4, <2>5, <2>6, <2>7 DEF HubStep
<1>2. ASSUME NEW t \in Threads, RecordingStep(t), UNCHANGED socketVars PROVE ViewersInv'
  <2>1. Moves(t) /\ DOMAIN recorders \subseteq DOMAIN recorders' /\ UNCHANGED <<phase, up>>
    BY <1>2, ThreadSteps DEF socketVars
  <2>2. calls[t] # <<>> /\ \A u \in Threads \ {t} : calls'[u] = calls[u]
    BY <2>1, MovesShape DEF Moves, ServerTypeOK
  <2>3. /\ viewers' = viewers
        /\ Top(t).op \notin {"drop_viewer", "register_viewer", "on_agent_frame", "fan_out"}
    BY <1>2 DEF RecordingStep, connected_check, connected_resolve, connected_rate,
       manager_start, recorder_start, manager_forget, disconnected_check, manager_stop,
       recorder_stop, refresh_online, refresh_resolve, refresh_decide, hubVars, Calling, Top
  <2> QED BY <2>1, <2>2, <2>3, DropsMoves, ViewersKept
<1>3. ASSUME NEW t \in Threads, viewers' = viewers, NEW s, calls' = [calls EXCEPT ![t] = s],
             t \in Viewers => phase'[t] = "open", t \in Viewers => calls[t] = <<>>,
             up' \cap Viewers = up \cap Viewers, \A v \in Viewers : phase'[v] = phase[v],
             s # <<>> => Head(s).op \notin {"drop_viewer", "fan_out"} /\ Tail(s) \notin FanOuts
      PROVE  ViewersInv'
  <2>1. calls'[t] = s /\ \A u \in Threads \ {t} : calls'[u] = calls[u]
    BY <1>3 DEF ServerTypeOK, StacksTypeOK
  <2>2. DropsTheDead(t)'
    BY <1>3, <2>1 DEF DropsTheDead, Top, Rest
  <2>3. ASSUME NEW u \in Threads \ {t} PROVE DropsTheDead(u)'
    BY <1>3, <2>1, DropsElsewhere
  <2>4. ASSUME NEW v \in viewers'
        PROVE  /\ phase'[v] # "new"
               /\ phase'[v] = "closing" =>
                    calls'[v] # <<>> /\ Top(v)' = [op |-> "drop_viewer", conn |-> v]
    <3>1. v \in Viewers /\ v \in viewers
      BY <1>3 DEF ServerTypeOK, HubTypeOK
    <3> QED BY <1>3, <1>a, <2>1, <3>1 DEF ViewersInv, Top
  <2>5. ASSUME NEW v \in Viewers, phase'[v] = "open", v \in up'
        PROVE  (calls'[v] # <<>> /\ Top(v)'.op = "register_viewer") \/ v \in viewers'
    BY <1>3, <1>a, <2>1, <2>5 DEF ViewersInv, Top
  <2> QED BY <2>2, <2>3, <2>4, <2>5 DEF ViewersInv
<1>4. ASSUME NEW t \in AgentConns, NEW s \in Sessions, AgentConnect(t, s) PROVE ViewersInv'
  <2>1. t \in Threads /\ t \notin Viewers
    BY <1>a DEF Threads
  <2>2. <<Call("register_agent")>> # <<>> => Head(<<Call("register_agent")>>).op = "register_agent"
          /\ Tail(<<Call("register_agent")>>) \notin FanOuts
    BY FirstCalls, RestsDiffer
  <2>3. \A v \in Viewers : phase'[v] = phase[v]
    BY <1>4, <2>1 DEF AgentConnect, ServerTypeOK, SocketTypeOK
  <2> QED BY <1>4, <1>3, <2>1, <2>2, <2>3 DEF AgentConnect, hubVars
<1>5. ASSUME NEW t \in AgentConns, AgentSocketReceive(t) PROVE ViewersInv'
  <2>1. t \in Threads /\ t \notin Viewers
    BY <1>a DEF Threads
  <2>2. UNCHANGED <<viewers, phase, up>>
    BY <1>5 DEF AgentSocketReceive, hubVars
  <2>3. CASE calls' = [calls EXCEPT ![t] = <<Call("on_agent_frame")>>]
    <3> DEFINE s == <<Call("on_agent_frame")>>
    <3>1. s # <<>> => Head(s).op \notin {"drop_viewer", "fan_out"} /\ Tail(s) \notin FanOuts
      BY FirstCalls, RestsDiffer
    <3> HIDE DEF s
    <3>2. calls' = [calls EXCEPT ![t] = s]
      BY <2>3 DEF s
    <3> QED BY <1>3, <2>1, <2>2, <3>1, <3>2
  <2>4. CASE calls' = [calls EXCEPT ![t] =
               <<[op |-> "on_agent_monitors", monitors |-> Screen], Call("on_agent_connected")>>]
    <3> DEFINE x == [op |-> "on_agent_monitors", monitors |-> Screen]
               s == <<x, Call("on_agent_connected")>>
    <3>1. x.op = "on_agent_monitors"
      OBVIOUS
    <3>2. calls' = [calls EXCEPT ![t] = s]
      BY <2>4
    <3> HIDE DEF x
    <3>3. Head(s) = x /\ Tail(s) = Connecting
      BY FirstCalls DEF Connecting
    <3> HIDE DEF s
    <3> QED BY <1>3, <2>1, <2>2, <3>1, <3>2, <3>3, RestsDiffer
  <2> QED BY <1>5, <2>3, <2>4 DEF AgentSocketReceive
<1>6. ASSUME NEW t \in AgentConns, AgentSocketClose(t) PROVE ViewersInv'
  <2> DEFINE s == <<Call("on_agent_disconnected"), Call("unregister_agent")>>
  <2>1. t \in Threads /\ t \notin Viewers
    BY <1>a DEF Threads
  <2>2. calls' = [calls EXCEPT ![t] = s] /\ UNCHANGED <<viewers, up>>
    BY <1>6 DEF AgentSocketClose, hubVars
  <2>3. Head(s).op = "on_agent_disconnected" /\ Tail(s) = Leaving
    BY FirstCalls DEF Leaving
  <2>4. \A v \in Viewers : phase'[v] = phase[v]
    BY <1>6, <2>1 DEF AgentSocketClose, ServerTypeOK, SocketTypeOK
  <2> HIDE DEF s
  <2> QED BY <1>3, <2>1, <2>2, <2>3, <2>4, RestsDiffer
<1>7. ASSUME NEW t \in Viewers, ViewerSetMonitor(t) PROVE ViewersInv'
  <2>1. PICK i \in {PrimaryMonitor, OtherMonitor} :
           calls' = [calls EXCEPT ![t] = <<[op |-> "set_monitor", index |-> i]>>]
    BY <1>7 DEF ViewerSetMonitor
  <2> DEFINE x == [op |-> "set_monitor", index |-> i]
             s == <<x>>
  <2>2. x.op = "set_monitor" /\ calls' = [calls EXCEPT ![t] = s]
    BY <2>1
  <2> HIDE DEF x
  <2>3. Head(s) = x /\ Tail(s) = <<>>
    BY FirstCalls
  <2> HIDE DEF s
  <2>4. t \in Threads /\ phase[t] = "open" /\ calls[t] = <<>> /\ UNCHANGED <<viewers, phase, up>>
    BY <1>7, <1>a DEF ViewerSetMonitor, hubVars
  <2> QED BY <1>3, <2>2, <2>3, <2>4, RestsDiffer
<1>8. ASSUME NEW t \in Viewers, ViewerConnect(t) PROVE ViewersInv'
  <2>1. /\ calls' = [calls EXCEPT ![t] = <<Call("register_viewer")>>] /\ viewers' = viewers
        /\ phase[t] = "new" /\ phase' = [phase EXCEPT ![t] = "open"] /\ up' = up \cup {t}
    BY <1>8 DEF ViewerConnect, hubVars
  <2>2. calls'[t] = <<Call("register_viewer")>> /\ \A u \in Threads \ {t} : calls'[u] = calls[u]
    BY <1>a, <2>1 DEF ServerTypeOK, StacksTypeOK
  <2>3. phase'[t] = "open" /\ \A u \in Sockets \ {t} : phase'[u] = phase[u]
    BY <1>a, <2>1 DEF ServerTypeOK, SocketTypeOK
  <2>4. /\ calls'[t] # <<>> /\ Top(t)'.op = "register_viewer" /\ Rest(t)' = <<>>
    BY <2>2, FirstCalls DEF Top, Rest
  <2>5. DropsTheDead(t)'
    BY <2>4, RestsDiffer DEF DropsTheDead
  <2>6. ASSUME NEW u \in Threads \ {t} PROVE DropsTheDead(u)'
    BY <1>a, <2>1, <2>2, <2>3, DropsElsewhere
  <2>7. t \notin viewers
    BY <2>1 DEF ViewersInv
  <2>8. ASSUME NEW v \in viewers
        PROVE  /\ phase'[v] # "new"
               /\ phase'[v] = "closing" =>
                    calls'[v] # <<>> /\ Top(v)' = [op |-> "drop_viewer", conn |-> v]
    <3>1. v \in Viewers /\ v # t
      BY <2>7 DEF ServerTypeOK, HubTypeOK
    <3> QED BY <1>a, <2>2, <2>3, <3>1 DEF ViewersInv, Top
  <2>9. ASSUME NEW v \in Viewers, phase'[v] = "open", v \in up'
        PROVE  (calls'[v] # <<>> /\ Top(v)'.op = "register_viewer") \/ v \in viewers'
    BY <1>a, <2>1, <2>2, <2>3, <2>4, <2>9 DEF ViewersInv, Top
  <2> QED BY <2>1, <2>5, <2>6, <2>8, <2>9 DEF ViewersInv
<1>9. ASSUME NEW t \in Viewers, ViewerSocketClose(t) PROVE ViewersInv'
  <2> DEFINE x == [op |-> "drop_viewer", conn |-> t]
  <2>1. /\ calls' = [calls EXCEPT ![t] = <<x>>] /\ viewers' = viewers
        /\ phase' = [phase EXCEPT ![t] = "closing"] /\ up' = up /\ t \notin up
        /\ phase[t] = "open"
    BY <1>9 DEF ViewerSocketClose, hubVars
  <2>2. calls'[t] = <<x>> /\ \A u \in Threads \ {t} : calls'[u] = calls[u]
    BY <1>a, <2>1 DEF ServerTypeOK, StacksTypeOK
  <2>3. phase'[t] = "closing" /\ \A u \in Sockets \ {t} : phase'[u] = phase[u]
    BY <1>a, <2>1 DEF ServerTypeOK, SocketTypeOK
  <2>4. calls'[t] # <<>> /\ Top(t)' = x /\ Rest(t)' = <<>>
    BY <2>2, FirstCalls DEF Top, Rest
  <2>5. DropsTheDead(t)'
    <3>1. x.op = "drop_viewer" /\ x.conn = t
      OBVIOUS
    <3> HIDE DEF x
    <3> QED BY <2>1, <2>3, <2>4, <3>1, RestsDiffer DEF DropsTheDead
  <2>6. ASSUME NEW u \in Threads \ {t} PROVE DropsTheDead(u)'
    BY <1>a, <2>1, <2>2, <2>3, DropsElsewhere
  <2>7. ASSUME NEW v \in viewers
        PROVE  /\ phase'[v] # "new"
               /\ phase'[v] = "closing" =>
                    calls'[v] # <<>> /\ Top(v)' = [op |-> "drop_viewer", conn |-> v]
    <3>1. v \in Viewers
      BY DEF ServerTypeOK, HubTypeOK
    <3>2. CASE v = t
      BY <2>3, <2>4, <3>2
    <3>3. CASE v # t
      BY <1>a, <2>2, <2>3, <3>1, <3>3 DEF ViewersInv, Top
    <3> QED BY <3>2, <3>3
  <2>8. ASSUME NEW v \in Viewers, phase'[v] = "open", v \in up'
        PROVE  (calls'[v] # <<>> /\ Top(v)'.op = "register_viewer") \/ v \in viewers'
    BY <1>a, <2>1, <2>2, <2>3, <2>8 DEF ViewersInv, Top
  <2> QED BY <2>1, <2>5, <2>6, <2>7, <2>8 DEF ViewersInv
<1>10. ASSUME NEW t \in Admins, AdminRequest(t), UNCHANGED socketVars PROVE ViewersInv'
  <2>1. UNCHANGED <<viewers, phase, up>> /\ t \in Threads /\ t \notin Viewers
    BY <1>10, <1>a DEF AdminRequest, create_policy, update_policy, delete_policy,
       set_group_members, ChangePolicy, hubVars, socketVars
  <2>2. CASE calls' = calls
    BY <2>1, <2>2 DEF ViewersInv, DropsTheDead, Top, Rest
  <2>3. ASSUME NEW s \in {<<>>, <<Call("refresh_endpoint")>>}, calls' = [calls EXCEPT ![t] = s]
        PROVE  ViewersInv'
    <3>1. s # <<>> => Head(s).op = "refresh_endpoint" /\ Tail(s) = <<>>
      BY FirstCalls
    <3> QED BY <1>3, <2>1, <2>3, <3>1, RestsDiffer
  <2> QED BY <1>10, <2>2, <2>3 DEF AdminRequest, create_policy, update_policy, delete_policy,
             set_group_members, ChangePolicy
<1>11. ASSUME UNCHANGED <<viewers, calls, phase>>, up' \subseteq up PROVE ViewersInv'
  BY <1>11 DEF ViewersInv, DropsTheDead, Top, Rest
<1>12. CASE OutsideStep
  BY <1>11, <1>12 DEF OutsideStep, HandleControl, SendFrame, AgentDrops, ViewerLeaves, hubVars,
     socketVars
<1>13. CASE UNCHANGED vars
  BY <1>11, <1>13 DEF vars, hubVars, socketVars
<1> QED BY <1>1, <1>2, <1>4, <1>5, <1>6, <1>7, <1>8, <1>9, <1>10, <1>12, <1>13, Kinds
        DEF SocketStep

\* Whatever threads overlap, and whichever of them find a viewer's link dead,
\* the viewers of the hub are consoles whose handlers have not ended, and every
\* console that is registered and alive is among them.
THEOREM LiveViewersStay == Spec => []ViewersAreOpenSockets
<1>1. Init => ViewersInv
  <2>1. Init => viewers = {} /\ calls = [t \in Threads |-> <<>>] /\ up = {}
    BY DEF Init, HubInit
  <2> QED BY <2>1 DEF ViewersInv, DropsTheDead
<1>2. ServerTypeOK /\ StackInv /\ ViewersInv /\ [Next]_vars => ViewersInv'
  BY ViewersStep
<1>3. ServerTypeOK /\ ViewersInv => ViewersAreOpenSockets
  <2> SUFFICES ASSUME ServerTypeOK, ViewersInv PROVE ViewersAreOpenSockets
    OBVIOUS
  <2>1. ASSUME NEW v \in viewers PROVE phase[v] # "new" /\ ~Done(v)
    BY DEF ViewersInv, Done
  <2>2. ASSUME NEW v \in Viewers, calls[v] # <<>>, Top(v).op = "register_viewer"
        PROVE  Call("register_viewer") \in Range(calls[v])
    <3>1. v \in Threads /\ calls[v] \in Seq(Calls)
      BY DEF ServerTypeOK, StacksTypeOK, Threads
    <3>2. Top(v) \in Calls
      BY <2>2, <3>1, TopIsCall DEF ServerTypeOK
    <3>3. Top(v) \in PlainCalls
      BY <2>2, <3>2 DEF Calls, SendCalls, FanOutCalls, DropCalls, MonitorsCalls, SetMonitorCalls,
         RateCalls, RecorderCalls, DecideCalls
    <3>4. Top(v) = Call("register_viewer")
      BY <2>2, <3>3 DEF PlainCalls, Call
    <3>5. 1 \in DOMAIN calls[v] /\ calls[v][1] = Top(v)
      BY <2>2, <3>1 DEF Top
    <3> QED BY <3>4, <3>5 DEF Range
  <2> QED BY <2>1, <2>2 DEF ViewersAreOpenSockets, ViewersInv
<1> QED BY <1>1, <1>2, <1>3, ShapesHold, PTL DEF Spec
-----------------------------------------------------------------------------
(* The recorder's food.                                                      *)

\* A thread that has still to settle the hub's demand and moves has to settle
\* it afterwards, unless its move is the settling.
LEMMA SettlingMoves ==
    ASSUME ServerTypeOK, StackInv, NEW t \in Threads, Moves(t), Settling(t),
           DOMAIN recorders \subseteq DOMAIN recorders',
           Top(t).op \notin {"recorder_start", "start_recording", "manager_forget", "manager_stop"}
    PROVE  Settling(t)'
<1>1. calls[t] # <<>> /\ Fits(Top(t).op, Rest(t)) /\ Rest(t) \in {Stopping, StoppingLeaving}
  BY DEF Settling, StackInv, StacksFit
<1>2. Top(t).op \notin {"fan_out", "on_agent_disconnected"}
  BY <1>1, RestsDiffer DEF Fits
<1>3. calls \in [Threads -> Seq(Calls')]
  BY StacksGrow DEF ServerTypeOK, StacksTypeOK
<1>4. CASE Return(t, <<>>)
  <2>1. calls'[t] = Rest(t)
    BY <1>1, <1>4, ReturnNone DEF ServerTypeOK
  <2> QED BY <1>1, <2>1, RestFacts DEF Settling, Top
<1>5. ASSUME NEW x \in Calls', Return(t, <<x>>) PROVE Settling(t)'
  <2>1. calls'[t] # <<>> /\ Rest(t)' = Rest(t)
    BY <1>1, <1>3, <1>5, ReturnOne
  <2> QED BY <1>1, <2>1 DEF Settling, Stopping, StoppingLeaving
<1> QED BY <1>2, <1>4, <1>5 DEF Moves

\* Every step keeps a registered recorder fed, or somebody about to see to it.
LEMMA FedStep ==
    ASSUME ServerTypeOK, StackInv, FedInv, [Next]_vars
    PROVE  FedInv'
<1>a. ASSUME NEW t \in Threads, UNCHANGED <<registry, recording>>,
             \A u \in Threads \ {t} : calls'[u] = calls[u],
             Settling(t) => Settling(t)'
      PROVE  FedInv'
  <2> SUFFICES ASSUME registry # None, recording = None PROVE \E u \in Threads : Settling(u)'
    BY <1>a DEF FedInv
  <2>1. PICK u \in Threads : Settling(u)
    BY DEF FedInv
  <2>2. CASE u = t
    BY <1>a, <2>1, <2>2
  <2>3. CASE u # t
    BY <1>a, <2>1, <2>3 DEF Settling, Top, Rest, Stopping, StoppingLeaving
  <2> QED BY <2>2, <2>3
<1>1. ASSUME NEW t \in Threads, HubStep(t), UNCHANGED <<recordingVars, socketVars>>
      PROVE  FedInv'
  <2>1. Moves(t) /\ DOMAIN recorders \subseteq DOMAIN recorders' /\ UNCHANGED <<phase, up>>
        /\ registry' = registry
    BY <1>1, ThreadSteps DEF socketVars, recordingVars
  <2>2. /\ calls[t] # <<>> /\ \A u \in Threads \ {t} : calls'[u] = calls[u]
        /\ Fits(Top(t).op, Rest(t)) /\ Top(t) \in Calls
    BY <2>1, MovesShape, TopIsCall DEF Moves, ServerTypeOK, StackInv, StacksFit
  <2>3. CASE start_recording(t)
    <3>1. recording' \in Rates
      BY <2>2, <2>3, CallFields DEF start_recording, Calling, Top
    <3>2. None \notin Rates
      BY RatesAssumption, NoneIsNoRate DEF Rates
    <3> QED BY <3>1, <3>2 DEF FedInv
  <2>4. CASE stop_recording(t)
    <3>1. Top(t).op = "stop_recording"
      BY <2>4 DEF stop_recording, Calling, Top
    <3>2. Settling(t)
      BY <2>2, <3>1 DEF Settling, Fits
    <3>3. Settling(t)'
      BY <2>1, <3>1, <3>2, SettlingMoves
    <3> QED BY <3>3 DEF FedInv
  <2>5. CASE \/ register_agent(t) \/ unregister_agent(t) \/ on_agent_frame(t) \/ fan_out(t)
             \/ on_agent_monitors(t) \/ register_viewer(t) \/ drop_viewer(t) \/ set_monitor(t)
             \/ tell_agent_start(t) \/ send_text(t)
    <3>1. /\ recording' = recording
          /\ Top(t).op \notin {"recorder_start", "start_recording", "manager_forget", "manager_stop"}
      BY <2>5 DEF register_agent, unregister_agent, on_agent_frame, fan_out, on_agent_monitors,
         register_viewer, drop_viewer, set_monitor, tell_agent_start, send_text, hubVars,
         Calling, Top
    <3> QED BY <1>a, <2>1, <2>2, <3>1, SettlingMoves
  <2> QED BY <1>1, <2>3, <2>4, <2>5 DEF HubStep
<1>2. ASSUME NEW t \in Threads, RecordingStep(t), UNCHANGED socketVars PROVE FedInv'
  <2>1. Moves(t) /\ DOMAIN recorders \subseteq DOMAIN recorders' /\ UNCHANGED <<phase, up>>
    BY <1>2, ThreadSteps DEF socketVars
  <2>2. /\ calls[t] # <<>> /\ \A u \in Threads \ {t} : calls'[u] = calls[u]
        /\ Fits(Top(t).op, Rest(t)) /\ Top(t) \in Calls
    BY <2>1, MovesShape, TopIsCall DEF Moves, ServerTypeOK, StackInv, StacksFit
  <2>3. calls \in [Threads -> Seq(Calls')]
    BY <2>1, StacksGrow DEF ServerTypeOK, StacksTypeOK
  <2>4. recording' = recording
    BY <1>2 DEF RecordingStep, connected_check, connected_resolve, connected_rate,
       manager_start, recorder_start, manager_forget, disconnected_check, manager_stop,
       recorder_stop, refresh_online, refresh_resolve, refresh_decide, hubVars
  <2>5. CASE manager_start(t)
    <3>1. Top(t).op = "manager_start"
      BY <2>5 DEF manager_start, Calling, Top
    <3>2. CASE registry # None
      <4>1. registry' = registry /\ ~Settling(t)
        BY <2>2, <2>5, <3>1, <3>2 DEF manager_start, Settling, Fits
      <4> QED BY <1>a, <2>2, <2>4, <4>1
    <3>3. CASE registry = None
      <4> DEFINE x == [op |-> "recorder_start", rec |-> Len(recorders) + 1]
      <4>1. Return(t, <<x>>) /\ recorders' = Append(recorders, [fps |-> Top(t).fps, state |-> "created"])
        BY <2>5, <3>3 DEF manager_start, Top
      <4>2. Len(recorders) + 1 \in DOMAIN recorders'
        BY <2>2, <3>1, <4>1, CallFields DEF ServerTypeOK, RecordingTypeOK, Recorders
      <4>3. x \in Calls' /\ x.op = "recorder_start"
        BY <4>2 DEF Calls, RecorderCalls
      <4> HIDE DEF x
      <4>4. Settling(t)'
        BY <2>2, <2>3, <4>1, <4>3, ReturnOne DEF Settling
      <4> QED BY <4>4 DEF FedInv
    <3> QED BY <3>2, <3>3
  <2>6. CASE recorder_start(t)
    <3>1. Top(t).op = "recorder_start" /\ Top(t).rec \in DOMAIN recorders
      BY <2>2, <2>6, CallFields DEF recorder_start, Calling, Top
    <3>2. recorders[Top(t).rec].fps \in Rates
      <4>1. recorders[Top(t).rec] \in Recorders
        BY <3>1 DEF ServerTypeOK, RecordingTypeOK
      <4> QED BY <4>1 DEF Recorders
    <3>3. \E x \in Calls' : Return(t, <<x>>) /\ x.op \in {"start_recording", "manager_forget"}
      <4>1. CASE Return(t, <<Call("manager_forget")>>)
        <5>1. Call("manager_forget") \in Calls' /\ Call("manager_forget").op = "manager_forget"
          BY DEF Call, Calls, PlainCalls
        <5> QED BY <4>1, <5>1
      <4>2. CASE Return(t, <<[op |-> "start_recording", fps |-> recorders[Top(t).rec].fps]>>)
        <5> DEFINE x == [op |-> "start_recording", fps |-> recorders[Top(t).rec].fps]
        <5>1. x \in Calls' /\ x.op = "start_recording"
          BY <3>2 DEF Calls, RateCalls
        <5> QED BY <4>2, <5>1
      <4> QED BY <2>6, <4>1, <4>2 DEF recorder_start, Top
    <3>4. Settling(t)'
      BY <2>2, <2>3, <3>3, ReturnOne DEF Settling
    <3> QED BY <3>4 DEF FedInv
  <2>7. CASE manager_forget(t) \/ manager_stop(t)
    BY <2>7 DEF manager_forget, manager_stop, FedInv
  <2>8. CASE \/ connected_check(t) \/ connected_resolve(t) \/ connected_rate(t)
             \/ disconnected_check(t) \/ recorder_stop(t) \/ refresh_online(t)
             \/ refresh_resolve(t) \/ refresh_decide(t)
    <3>1. /\ registry' = registry
          /\ Top(t).op \in {"on_agent_connected", "connected_resolve", "connected_rate",
                            "on_agent_disconnected", "recorder_stop", "refresh_endpoint",
                            "refresh_resolve", "refresh_decide"}
      BY <2>8 DEF connected_check, connected_resolve, connected_rate, disconnected_check,
         recorder_stop, refresh_online, refresh_resolve, refresh_decide, recordingVars,
         Calling, Top
    <3>2. ~Settling(t)
      BY <2>2, <3>1 DEF Settling, Fits
    <3> QED BY <1>a, <2>2, <2>4, <3>1, <3>2
  <2> QED BY <1>2, <2>5, <2>6, <2>7, <2>8 DEF RecordingStep
<1>3. ASSUME NEW t \in Threads, SocketStep(t) PROVE FedInv'
  <2>1. UNCHANGED <<registry, recording>>
    BY <1>3 DEF SocketStep, AgentConnect, AgentSocketReceive, AgentSocketClose, ViewerConnect,
       ViewerSetMonitor, ViewerSocketClose, hubVars, recordingVars
  <2>2. \A u \in Threads \ {t} : calls'[u] = calls[u]
    BY <1>3 DEF SocketStep, AgentConnect, AgentSocketReceive, AgentSocketClose, ViewerConnect,
       ViewerSetMonitor, ViewerSocketClose, ServerTypeOK, StacksTypeOK
  <2>3. calls[t] = <<>>
    <3>1. t \in Sockets
      BY <1>3 DEF SocketStep, Sockets
    <3> QED BY <1>3, <3>1 DEF SocketStep, AgentConnect, AgentSocketReceive, AgentSocketClose,
            ViewerConnect, ViewerSetMonitor, ViewerSocketClose, StackInv, StacksInPhase
  <2> QED BY <1>a, <2>1, <2>2, <2>3 DEF Settling
<1>4. ASSUME NEW t \in Admins, AdminRequest(t) PROVE FedInv'
  <2>1. UNCHANGED <<registry, recording>>
    BY <1>4 DEF AdminRequest, create_policy, update_policy, delete_policy, set_group_members,
                ChangePolicy, hubVars
  <2>2. calls[t] = <<>> /\ t \in Threads
    BY <1>4 DEF AdminRequest, create_policy, update_policy, delete_policy, set_group_members,
                ChangePolicy, Threads
  <2>3. \A u \in Threads \ {t} : calls'[u] = calls[u]
    BY <1>4 DEF AdminRequest, create_policy, update_policy, delete_policy, set_group_members,
                ChangePolicy, ServerTypeOK, StacksTypeOK
  <2> QED BY <1>a, <2>1, <2>2, <2>3 DEF Settling
<1>5. ASSUME UNCHANGED <<registry, recording, calls>> PROVE FedInv'
  BY <1>5 DEF FedInv, Settling, Top, Rest, Stopping, StoppingLeaving
<1>6. CASE OutsideStep
  BY <1>5, <1>6 DEF OutsideStep, HandleControl, SendFrame, AgentDrops, ViewerLeaves, hubVars,
     recordingVars
<1>7. CASE UNCHANGED vars
  BY <1>5, <1>7 DEF vars, hubVars, recordingVars
<1> QED BY <1>1, <1>2, <1>3, <1>4, <1>6, <1>7, Kinds

\* Whatever threads overlap, a recorder that is registered when every handler
\* is idle is one the hub has the agent capture for: no interleaving of
\* connects, disconnects and policy changes leaves a recorder without frames
\* for good.
THEOREM RegisteredRecorderIsFed == Spec => []RecorderIsFed
<1>1. Init => FedInv
  BY DEF Init, RecordingInit, FedInv
<1>2. ServerTypeOK /\ StackInv /\ FedInv /\ [Next]_vars => FedInv'
  BY FedStep
<1>3. FedInv => RecorderIsFed
  BY DEF FedInv, RecorderIsFed, Quiescent, Settling
<1> QED BY <1>1, <1>2, <1>3, ShapesHold, PTL DEF Spec
-----------------------------------------------------------------------------
(* Handlers that run one at a time.                                          *)

\* No two threads are inside handlers.
OneBusy == \A t, u \in Threads : calls[t] # <<>> /\ calls[u] # <<>> => t = u

\* A recorder that runs is the registered one, until the thread that took it out
\* has stopped it.
RunsInv ==
    /\ \A r \in DOMAIN recorders :
         recorders[r].state = "running" =>
             \/ r = registry
             \/ \E t \in Threads : calls[t] # <<>> /\ Top(t).op = "recorder_stop" /\ Top(t).rec = r
    /\ \A t \in Threads : calls[t] # <<>> =>
         /\ Top(t).op = "recorder_start" => Top(t).rec = registry
         /\ Top(t).op = "manager_forget" /\ registry # None =>
              recorders[registry].state # "running"

\* The hub demands the rate of the registered recorder, or has still to be told it.
RateInv ==
    /\ recording # None => registry # None /\ recording = recorders[registry].fps
    /\ \A t \in Threads : calls[t] # <<>> =>
         /\ Top(t).op \in {"recorder_start", "manager_forget", "manager_stop"} => recording = None
         /\ Rest(t) \in {Stopping, StoppingLeaving} /\ Top(t).op # "stop_recording" => recording = None
         /\ Top(t).op = "start_recording" => registry # None /\ Top(t).fps = recorders[registry].fps

\* What a start or stop message makes of the capture loop.
Orders(msg) == msg.type \in {"start", "stop"}
Ordered(msg) == IF msg.type = "start" THEN [fps |-> msg.fps, allowSkip |-> msg.allowSkip] ELSE None

\* Capture is `want` once the messages of q are read, if it is cap before.
Settles(q, cap, want) ==
    \/ cap = want /\ \A i \in DOMAIN q : ~Orders(q[i])
    \/ \E i \in DOMAIN q : /\ Orders(q[i]) /\ Ordered(q[i]) = want
                         /\ \A j \in DOMAIN q : j > i => ~Orders(q[j])

\* What the agent should be doing for these viewers and this recording.
Wanted(vs, rec) == IF ShouldCapture(vs, rec) THEN Ordered(StartMessage(rec)) ELSE None

\* A thread about to tell the agent to start or to stop.
Telling(t) ==
    /\ calls[t] # <<>>
    /\ \/ Top(t).op = "tell_agent_start"
       \/ Top(t).op = "send" /\ Orders(Top(t).msg)

\* A dead link carries nothing and its streamer captures nothing.
LinksInv == \A c \in AgentConns : c \notin up => capture[c] = None /\ inbox[c] = <<>>

\* The registered agent does what it should, or will once it has read its
\* messages, or there is a thread that is about to tell it.
DemandInv ==
    /\ \A t \in Threads : calls[t] # <<>> =>
         /\ Top(t).op = "tell_agent_start" => ShouldCapture(viewers, recording)
         /\ Top(t).op = "send" =>
              /\ Top(t).conn = agent
              /\ Orders(Top(t).msg) => Ordered(Top(t).msg) = Wanted(viewers, recording)
         /\ Top(t).op = "register_agent" => capture[t] = None /\ inbox[t] = <<>>
    /\ agent # None /\ agent \in up =>
         \/ Settles(inbox[agent], capture[agent], Wanted(viewers, recording))
         \/ \E t \in Threads : Telling(t)

\* One streamer: the only link that is alive is the registered agent's, or that
\* of a connection about to register.
OneLinkInv ==
    /\ \A c \in AgentConns : phase[c] # "new" => owner[c] \in Sessions
    /\ \A t \in Threads : calls[t] # <<>> =>
         (Top(t).op = "register_agent" => \A c \in AgentConns \ {t} : c \notin up)
    /\ \A c \in AgentConns \cap up : c = agent \/ (calls[c] # <<>> /\ Top(c).op = "register_agent")

\* The handler of an agent connection has begun and not ended.
Handled(c) == phase[c] # "new" /\ ~Done(c)

\* One streamer that comes back only after its handler has ended: the only
\* handler that has not is the registered agent's, or about to register.
AloneInv ==
    /\ \A c \in AgentConns : phase[c] # "new" => owner[c] \in Sessions
    /\ \A c, d \in AgentConns : Handled(c) /\ Handled(d) => c = d
    /\ \A c \in AgentConns :
         Handled(c) => c = agent \/ (calls[c] # <<>> /\ Top(c).op = "register_agent")

\* A thread on its way to register a recorder.
Seeking(t) ==
    /\ calls[t] # <<>>
    /\ \/ Top(t).op \in {"on_agent_monitors", "on_agent_connected", "connected_resolve",
                         "connected_rate", "manager_start", "refresh_endpoint", "refresh_resolve"}
       \/ Top(t).op = "refresh_decide" /\ Top(t).covered

\* A thread on its way to take the recorder out.
LettingGo(t) ==
    /\ calls[t] # <<>>
    /\ \/ Top(t).op \in {"on_agent_disconnected", "manager_stop"}
       \/ Rest(t) \in {Stopping, StoppingLeaving}

\* A connection's monitor list is on its way to the server.
Announced(c) == \E i \in DOMAIN outbox[c] : outbox[c][i] = "monitors"

\* Does a policy cover the endpoint?
Covered == resolve_policy # None

\* What a thread is about to do has its reason: only an administrator's thread
\* refreshes the endpoint, with the policies as they are, and a recorder is let
\* go by one that found no policy or by the handler of a connection that is closed.
Warranted(t) ==
    calls[t] # <<>> =>
        /\ Top(t).op = "register_agent" /\ t \in up => Announced(t)
        /\ Top(t).op = "manager_forget" => failures # 0
        /\ Top(t).op \in {"refresh_endpoint", "refresh_resolve", "refresh_decide"} => t \in Admins
        /\ Top(t).op = "refresh_decide" => Top(t).covered = Covered
        /\ LettingGo(t) => \/ t \in Admins /\ ~Covered
                           \/ t \in AgentConns /\ phase[t] = "closing"

\* Is a connected agent of a covered endpoint without a recorder?
Unrecorded == agent # None /\ agent \in up /\ Covered /\ failures = 0 /\ registry = None

\* A connected agent of a covered endpoint has a recorder, or somebody is about
\* to look for one.
PresentInv ==
    /\ \A t \in Threads : Warranted(t)
    /\ Unrecorded => Announced(agent) \/ \E t \in Threads : Seeking(t)

\* A thread that will see to it that a recorder without a policy is stopped.
Ending(t) ==
    \/ LettingGo(t)
    \/ calls[t] # <<>> /\ Top(t).op \in {"refresh_endpoint", "refresh_resolve", "refresh_decide"}

\* A recorder belongs to a connected agent of a covered endpoint, or somebody is
\* about to take it out.
OnlyInv ==
    /\ \A t \in Threads : calls[t] # <<>> =>
         /\ Top(t).op \in {"on_agent_monitors", "on_agent_connected", "connected_resolve",
                           "connected_rate", "manager_start", "refresh_resolve", "refresh_decide"}
              => agent # None
         /\ Top(t).op \in {"connected_rate", "manager_start"} => Covered
         /\ Top(t).op = "unregister_agent" \/ (Top(t).op = "recorder_stop" /\ Rest(t) = Leaving) =>
              registry = None
    /\ registry # None => agent # None
    /\ registry # None /\ ~Covered => \E t \in Threads : Ending(t)
-----------------------------------------------------------------------------
(* What is on top next.                                                      *)

\* The call on top after a move: the one that follows, the next of two that
\* are pushed, or what there was to return to.
LEMMA NextTop ==
    ASSUME ServerTypeOK, StackInv, NEW t \in Threads, Moves(t),
           DOMAIN recorders \subseteq DOMAIN recorders', calls'[t] # <<>>
    PROVE  \/ Follows(Top(t).op, Top(t)'.op) /\ Rest(t)' = Rest(t)
           \/ /\ Top(t).op = "fan_out" /\ Rest(t) = <<>>
              /\ Top(t)'.op = "drop_viewer" /\ Rest(t)' \in FanOuts
           \/ /\ Top(t).op = "on_agent_disconnected" /\ Top(t)'.op = "stop_recording"
              /\ \/ Rest(t) = <<>> /\ Rest(t)' = Stopping
                 \/ Rest(t) = Leaving /\ Rest(t)' = StoppingLeaving
           \/ Rest(t) = Connecting /\ Top(t)'.op = "on_agent_connected" /\ Rest(t)' = <<>>
           \/ Rest(t) = Stopping /\ Top(t)'.op = "manager_stop" /\ Rest(t)' = <<>>
           \/ Rest(t) = StoppingLeaving /\ Top(t)'.op = "manager_stop" /\ Rest(t)' = Leaving
           \/ Rest(t) = Leaving /\ Top(t)'.op = "unregister_agent" /\ Rest(t)' = <<>>
           \/ Rest(t) \in FanOuts /\ Top(t)'.op = "fan_out" /\ Rest(t)' = <<>>
<1>1. calls[t] # <<>> /\ Fits(Top(t).op, Rest(t))
  BY DEF Moves, StackInv, StacksFit
<1>2. calls \in [Threads -> Seq(Calls')]
  BY StacksGrow DEF ServerTypeOK, StacksTypeOK
<1>3. CASE Return(t, <<>>)
  <2>1. calls'[t] = Rest(t)
    BY <1>1, <1>3, ReturnNone DEF ServerTypeOK
  <2>2. Rest(t) \in {Connecting, Stopping, Leaving, StoppingLeaving} \cup FanOuts
    BY <1>1, <2>1 DEF Fits
  <2> QED BY <2>1, <2>2, RestFacts DEF Top, Rest
<1>4. ASSUME NEW x \in Calls', Return(t, <<x>>), Follows(Top(t).op, x.op)
      PROVE  Follows(Top(t).op, Top(t)'.op) /\ Rest(t)' = Rest(t)
  BY <1>1, <1>2, <1>4, ReturnOne
<1>5. ASSUME Top(t).op = "fan_out", NEW x \in DropCalls, NEW y \in FanOutCalls, Return(t, <<x, y>>)
      PROVE  Rest(t) = <<>> /\ Top(t)'.op = "drop_viewer" /\ Rest(t)' \in FanOuts
  <2>1. Rest(t) = <<>> /\ <<y>> \in FanOuts
    BY <1>1, <1>5, FitsDrop
  <2>2. x \in Calls' /\ y \in Calls' /\ x.op = "drop_viewer"
    BY DEF Calls, DropCalls
  <2>3. Top(t)' = x /\ Rest(t)' = <<y>> \o Rest(t)
    BY <1>1, <1>2, <1>5, <2>2, ReturnTwo
  <2>4. <<y>> \o <<>> = <<y>>
    OBVIOUS
  <2> QED BY <2>1, <2>2, <2>3, <2>4 DEF FanOuts
<1>6. ASSUME Top(t).op = "on_agent_disconnected", Return(t, DisconnectCalls)
      PROVE  /\ Top(t)'.op = "stop_recording"
             /\ \/ Rest(t) = <<>> /\ Rest(t)' = Stopping
                \/ Rest(t) = Leaving /\ Rest(t)' = StoppingLeaving
  <2>1. Call("stop_recording") \in Calls' /\ Call("manager_stop") \in Calls'
        /\ Call("stop_recording").op = "stop_recording"
    BY DEF Call, Calls, PlainCalls
  <2>2. Top(t)' = Call("stop_recording") /\ Rest(t)' = <<Call("manager_stop")>> \o Rest(t)
    BY <1>1, <1>2, <1>6, <2>1, ReturnTwo DEF DisconnectCalls
  <2> QED BY <1>1, <1>6, <2>1, <2>2, FitsDisconnect
<1> QED BY <1>3, <1>4, <1>5, <1>6 DEF Moves

\* A call pushed in the place of the one on top is on top next.
LEMMA Pushed ==
    ASSUME ServerTypeOK, NEW t \in Threads, calls[t] # <<>>,
           DOMAIN recorders \subseteq DOMAIN recorders', NEW x \in Calls', Return(t, <<x>>)
    PROVE  calls'[t] # <<>> /\ Top(t)' = x /\ Rest(t)' = Rest(t)
<1>1. calls \in [Threads -> Seq(Calls')]
  BY StacksGrow DEF ServerTypeOK, StacksTypeOK
<1> QED BY <1>1, ReturnOne

-----------------------------------------------------------------------------
(* What a thread's step leaves alone.                                        *)

\* A thread inside a method makes its step and leaves the other stacks alone.
LEMMA ThreadActs ==
    ASSUME ServerTypeOK, StackInv, NEW t \in Threads,
           \/ HubStep(t) /\ UNCHANGED <<recordingVars, socketVars>>
           \/ RecordingStep(t) /\ UNCHANGED socketVars
    PROVE  /\ calls[t] # <<>> /\ Top(t) \in Calls /\ Fits(Top(t).op, Rest(t))
           /\ \A u \in Threads \ {t} : calls'[u] = calls[u]
           /\ Moves(t) /\ DOMAIN recorders \subseteq DOMAIN recorders'
           /\ UNCHANGED <<up, phase, owner, outbox, capture, monitor>>
<1>1. Moves(t) /\ DOMAIN recorders \subseteq DOMAIN recorders' /\ UNCHANGED <<socketVars, up>>
  BY ThreadSteps
<1>2. calls[t] # <<>> /\ Top(t) \in Calls /\ Fits(Top(t).op, Rest(t))
  BY <1>1, TopIsCall DEF Moves, ServerTypeOK, StackInv, StacksFit
<1>3. \A u \in Threads \ {t} : calls'[u] = calls[u]
  BY <1>1, MovesShape DEF ServerTypeOK, socketVars
<1> QED BY <1>1, <1>2, <1>3 DEF socketVars

\* When handlers run one at a time, all other threads are idle.
LEMMA SerialThread ==
    ASSUME ~Overlap, ServerTypeOK, StackInv, NEW t \in Threads,
           \/ HubStep(t) /\ UNCHANGED <<recordingVars, socketVars>>
           \/ RecordingStep(t) /\ UNCHANGED socketVars
    PROVE  /\ calls[t] # <<>> /\ Top(t) \in Calls /\ Fits(Top(t).op, Rest(t))
           /\ \A u \in Threads \ {t} : calls[u] = <<>> /\ calls'[u] = <<>>
           /\ Moves(t) /\ DOMAIN recorders \subseteq DOMAIN recorders'
           /\ UNCHANGED <<up, phase, owner, outbox, capture, monitor>>
<1>1. \A u \in Threads \ {t} : calls[u] = <<>>
  BY DEF HubStep, register_agent, unregister_agent, on_agent_frame, fan_out, on_agent_monitors,
     register_viewer, drop_viewer, set_monitor, start_recording, stop_recording,
     tell_agent_start, send_text, RecordingStep, connected_check, connected_resolve,
     connected_rate, manager_start, recorder_start, manager_forget, disconnected_check,
     manager_stop, recorder_stop, refresh_online, refresh_resolve, refresh_decide, Calling, MayRun
<1> QED BY <1>1, ThreadActs

\* A socket's handler begins something on its own idle thread.
LEMMA SocketBegins ==
    ASSUME ServerTypeOK, StackInv, NEW t \in Threads, SocketStep(t)
    PROVE  /\ calls[t] = <<>> /\ calls'[t] # <<>> /\ t \in Sockets
           /\ \A u \in Threads \ {t} : calls'[u] = calls[u]
           /\ UNCHANGED <<hubVars, inbox, recordingVars, capture, monitor>>
           /\ \/ /\ t \in AgentConns /\ \E s \in Sessions : AgentConnect(t, s)
                 /\ Top(t)'.op = "register_agent" /\ Rest(t)' = <<>>
              \/ /\ t \in AgentConns /\ AgentSocketReceive(t)
                 /\ \/ /\ Head(outbox[t]) = "frame"
                       /\ Top(t)'.op = "on_agent_frame" /\ Rest(t)' = <<>>
                    \/ Top(t)'.op = "on_agent_monitors" /\ Rest(t)' = Connecting
              \/ /\ t \in AgentConns /\ AgentSocketClose(t)
                 /\ Top(t)'.op = "on_agent_disconnected" /\ Rest(t)' = Leaving
              \/ /\ t \in Viewers /\ (ViewerConnect(t) \/ ViewerSetMonitor(t) \/ ViewerSocketClose(t))
                 /\ Top(t)'.op \in {"register_viewer", "set_monitor", "drop_viewer"}
                 /\ Rest(t)' = <<>>
<1>1. t \in Sockets
  BY DEF SocketStep, Sockets
<1>2. calls[t] = <<>>
  BY <1>1 DEF SocketStep, AgentConnect, AgentSocketReceive, AgentSocketClose,
     ViewerConnect, ViewerSetMonitor, ViewerSocketClose, StackInv, StacksInPhase
<1>3. \A u \in Threads \ {t} : calls'[u] = calls[u]
  BY DEF SocketStep, AgentConnect, AgentSocketReceive, AgentSocketClose, ViewerConnect,
     ViewerSetMonitor, ViewerSocketClose, ServerTypeOK, StacksTypeOK
<1>4. UNCHANGED <<hubVars, inbox, recordingVars, capture, monitor>>
  BY DEF SocketStep, AgentConnect, AgentSocketReceive, AgentSocketClose, ViewerConnect,
     ViewerSetMonitor, ViewerSocketClose
<1>c. ASSUME NEW x, NEW s, s = <<x>>, calls' = [calls EXCEPT ![t] = s]
      PROVE  calls'[t] # <<>> /\ Top(t)' = x /\ Rest(t)' = <<>>
  <2>1. calls'[t] = <<x>>
    BY <1>c DEF ServerTypeOK, StacksTypeOK
  <2> QED BY <2>1, FirstCalls DEF Top, Rest
<1>d. ASSUME NEW x, NEW y, calls' = [calls EXCEPT ![t] = <<x, y>>]
      PROVE  calls'[t] # <<>> /\ Top(t)' = x /\ Rest(t)' = <<y>>
  <2>1. calls'[t] = <<x, y>>
    BY <1>d DEF ServerTypeOK, StacksTypeOK
  <2> QED BY <2>1, FirstCalls DEF Top, Rest
<1>5. ASSUME t \in AgentConns, NEW s \in Sessions, AgentConnect(t, s)
      PROVE  calls'[t] # <<>> /\ Top(t)'.op = "register_agent" /\ Rest(t)' = <<>>
  BY <1>5, <1>c, FirstCalls DEF AgentConnect
<1>6. ASSUME t \in AgentConns, AgentSocketReceive(t)
      PROVE  /\ calls'[t] # <<>>
             /\ \/ /\ Head(outbox[t]) = "frame"
                   /\ Top(t)'.op = "on_agent_frame" /\ Rest(t)' = <<>>
                \/ Top(t)'.op = "on_agent_monitors" /\ Rest(t)' = Connecting
  <2>1. CASE Head(outbox[t]) = "frame"
    <3>1. calls' = [calls EXCEPT ![t] = <<Call("on_agent_frame")>>]
      BY <1>6, <2>1 DEF AgentSocketReceive
    <3> QED BY <1>c, <2>1, <3>1, FirstCalls
  <2>2. CASE Head(outbox[t]) # "frame"
    <3> DEFINE x == [op |-> "on_agent_monitors", monitors |-> Screen]
    <3>1. calls' = [calls EXCEPT ![t] = <<x, Call("on_agent_connected")>>]
      BY <1>6, <2>2 DEF AgentSocketReceive
    <3>2. x.op = "on_agent_monitors"
      OBVIOUS
    <3> HIDE DEF x
    <3> QED BY <1>d, <3>1, <3>2 DEF Connecting
  <2> QED BY <2>1, <2>2
<1>7. ASSUME t \in AgentConns, AgentSocketClose(t)
      PROVE  calls'[t] # <<>> /\ Top(t)'.op = "on_agent_disconnected" /\ Rest(t)' = Leaving
  BY <1>7, <1>d, FirstCalls DEF AgentSocketClose, Leaving
<1>8. ASSUME t \in Viewers, ViewerConnect(t)
      PROVE  calls'[t] # <<>> /\ Top(t)'.op = "register_viewer" /\ Rest(t)' = <<>>
  BY <1>8, <1>c, FirstCalls DEF ViewerConnect
<1>9. ASSUME t \in Viewers, ViewerSetMonitor(t)
       PROVE  calls'[t] # <<>> /\ Top(t)'.op = "set_monitor" /\ Rest(t)' = <<>>
  <2>1. PICK i \in {PrimaryMonitor, OtherMonitor} :
           calls' = [calls EXCEPT ![t] = <<[op |-> "set_monitor", index |-> i]>>]
    BY <1>9 DEF ViewerSetMonitor
  <2> DEFINE x == [op |-> "set_monitor", index |-> i]
  <2>2. x.op = "set_monitor" /\ calls' = [calls EXCEPT ![t] = <<x>>]
    BY <2>1
  <2> HIDE DEF x
  <2> QED BY <1>c, <2>2
<1>10. ASSUME t \in Viewers, ViewerSocketClose(t)
       PROVE  calls'[t] # <<>> /\ Top(t)'.op = "drop_viewer" /\ Rest(t)' = <<>>
  <2> DEFINE x == [op |-> "drop_viewer", conn |-> t]
  <2>2. x.op = "drop_viewer" /\ calls' = [calls EXCEPT ![t] = <<x>>]
    BY <1>10 DEF ViewerSocketClose
  <2> HIDE DEF x
  <2> QED BY <1>c, <2>2
<1> QED BY <1>1, <1>2, <1>3, <1>4, <1>5, <1>6, <1>7, <1>8, <1>9, <1>10 DEF SocketStep

\* When handlers run one at a time, all other threads are idle.
LEMMA SerialSocket ==
    ASSUME ~Overlap, ServerTypeOK, StackInv, NEW t \in Threads, SocketStep(t)
    PROVE  /\ calls[t] = <<>> /\ calls'[t] # <<>> /\ t \in Sockets
           /\ \A u \in Threads \ {t} : calls[u] = <<>> /\ calls'[u] = <<>>
           /\ UNCHANGED <<hubVars, inbox, recordingVars, capture, monitor>>
           /\ \/ /\ t \in AgentConns /\ \E s \in Sessions : AgentConnect(t, s)
                 /\ Top(t)'.op = "register_agent" /\ Rest(t)' = <<>>
              \/ /\ t \in AgentConns /\ AgentSocketReceive(t)
                 /\ \/ /\ Head(outbox[t]) = "frame"
                       /\ Top(t)'.op = "on_agent_frame" /\ Rest(t)' = <<>>
                    \/ Top(t)'.op = "on_agent_monitors" /\ Rest(t)' = Connecting
              \/ /\ t \in AgentConns /\ AgentSocketClose(t)
                 /\ Top(t)'.op = "on_agent_disconnected" /\ Rest(t)' = Leaving
              \/ /\ t \in Viewers /\ (ViewerConnect(t) \/ ViewerSetMonitor(t) \/ ViewerSocketClose(t))
                 /\ Top(t)'.op \in {"register_viewer", "set_monitor", "drop_viewer"}
                 /\ Rest(t)' = <<>>
<1>1. \A u \in Threads \ {t} : calls[u] = <<>>
  BY DEF SocketStep, AgentConnect, AgentSocketReceive, AgentSocketClose, ViewerConnect,
     ViewerSetMonitor, ViewerSocketClose, MayRun
<1> QED BY <1>1, SocketBegins

\* An administrator's request begins on its own idle thread.
LEMMA AdminBegins ==
    ASSUME ServerTypeOK, NEW t \in Admins, AdminRequest(t), UNCHANGED socketVars
    PROVE  /\ t \in Threads /\ calls[t] = <<>> /\ MayRun(t)
           /\ \A u \in Threads \ {t} : calls'[u] = calls[u]
           /\ calls'[t] # <<>> => Top(t)'.op = "refresh_endpoint" /\ Rest(t)' = <<>>
           /\ UNCHANGED <<hubVars, inbox, up, registry, recorders, failures, socketVars>>
<1>1. t \in Threads
  BY DEF Threads
<1>2. calls[t] = <<>> /\ MayRun(t)
      /\ UNCHANGED <<hubVars, inbox, up, registry, recorders, failures>>
  BY DEF AdminRequest, create_policy, update_policy, delete_policy, set_group_members, ChangePolicy
<1>3. \/ calls' = calls
      \/ calls' = [calls EXCEPT ![t] = <<>>]
      \/ calls' = [calls EXCEPT ![t] = <<Call("refresh_endpoint")>>]
  BY DEF AdminRequest, create_policy, update_policy, delete_policy, set_group_members, ChangePolicy
<1>4. \A u \in Threads \ {t} : calls'[u] = calls[u]
  BY <1>3 DEF ServerTypeOK, StacksTypeOK
<1>5. calls'[t] = <<>> \/ calls'[t] = <<Call("refresh_endpoint")>>
  BY <1>1, <1>2, <1>3 DEF ServerTypeOK, StacksTypeOK
<1>6. calls'[t] # <<>> => Top(t)'.op = "refresh_endpoint" /\ Rest(t)' = <<>>
  BY <1>5, FirstCalls DEF Top, Rest
<1> QED BY <1>1, <1>2, <1>4, <1>6

\* When handlers run one at a time, all other threads are idle.
LEMMA SerialAdmin ==
    ASSUME ~Overlap, ServerTypeOK, NEW t \in Admins, AdminRequest(t), UNCHANGED socketVars
    PROVE  /\ t \in Threads /\ calls[t] = <<>>
           /\ \A u \in Threads \ {t} : calls[u] = <<>> /\ calls'[u] = <<>>
           /\ calls'[t] # <<>> => Top(t)'.op = "refresh_endpoint" /\ Rest(t)' = <<>>
           /\ UNCHANGED <<hubVars, inbox, up, registry, recorders, failures, socketVars>>
BY AdminBegins DEF MayRun

\* Handlers that run one at a time go on doing so.
LEMMA OneBusyStep ==
    ASSUME ~Overlap, ServerTypeOK, StackInv, OneBusy, [Next]_vars
    PROVE  OneBusy'
<1>1. ASSUME NEW t \in Threads, \A u \in Threads \ {t} : calls'[u] = <<>> PROVE OneBusy'
  BY <1>1 DEF OneBusy
<1>2. ASSUME NEW t \in Threads, \/ HubStep(t) /\ UNCHANGED <<recordingVars, socketVars>>
                                \/ RecordingStep(t) /\ UNCHANGED socketVars
      PROVE  OneBusy'
  BY <1>1, <1>2, SerialThread
<1>3. ASSUME NEW t \in Threads, SocketStep(t) PROVE OneBusy'
  BY <1>1, <1>3, SerialSocket
<1>4. ASSUME NEW t \in Admins, AdminRequest(t), UNCHANGED socketVars PROVE OneBusy'
  BY <1>1, <1>4, SerialAdmin
<1>5. CASE OutsideStep \/ UNCHANGED vars
  BY <1>5 DEF OutsideStep, HandleControl, SendFrame, AgentDrops, ViewerLeaves, vars, OneBusy
<1> QED BY <1>2, <1>3, <1>4, <1>5, Kinds

\* What holds in every state when handlers run one at a time.
LEMMA SerialHold == ASSUME ~Overlap PROVE Spec => [](ServerTypeOK /\ StackInv /\ OneBusy)
<1>1. Init => OneBusy
  BY DEF Init, HubInit, OneBusy
<1>2. ServerTypeOK /\ StackInv /\ OneBusy /\ [Next]_vars => OneBusy'
  BY OneBusyStep
<1> QED BY <1>1, <1>2, ShapesHold, PTL DEF Spec
-----------------------------------------------------------------------------
(* One recorder.                                                             *)

\* No two recorders run, one handler after the other.
LEMMA RunsStep ==
    ASSUME ~Overlap, ServerTypeOK, StackInv, OneBusy, RunsInv, [Next]_vars
    PROVE  RunsInv'
<1>a. None \notin DOMAIN recorders /\ None \notin DOMAIN recorders'
  <2>1. ServerTypeOK'
    BY ShapesStep
  <2> QED BY <2>1, NoneIsNoRate DEF ServerTypeOK, RecordingTypeOK
<1>b. ASSUME UNCHANGED <<registry, recorders>>, NEW t \in Threads,
             \A u \in Threads \ {t} : calls[u] = <<>> /\ calls'[u] = <<>>,
             calls[t] # <<>> => Top(t).op # "recorder_stop",
             calls'[t] # <<>> => Top(t)'.op \notin {"recorder_start", "manager_forget"}
      PROVE  RunsInv'
  <2>1. \A r \in DOMAIN recorders : recorders[r].state = "running" => r = registry
    BY <1>b DEF RunsInv
  <2> QED BY <1>b, <2>1 DEF RunsInv
<1>1. ASSUME NEW t \in Threads, HubStep(t), UNCHANGED <<recordingVars, socketVars>> PROVE RunsInv'
  <2>1. /\ UNCHANGED <<registry, recorders>>
        /\ Top(t).op \notin {"recorder_stop", "manager_start", "recorder_start"}
    BY <1>1 DEF recordingVars, HubStep, register_agent, unregister_agent, on_agent_frame, fan_out,
       on_agent_monitors, register_viewer, drop_viewer, set_monitor, start_recording,
       stop_recording, tell_agent_start, send_text, Calling, Top
  <2>2. calls'[t] # <<>> => Top(t)'.op \notin {"recorder_start", "manager_forget"}
    BY <1>1, <2>1, SerialThread, NextTop DEF Follows
  <2> QED BY <1>1, <1>b, <2>1, <2>2, SerialThread
<1>2. ASSUME NEW t \in Threads, RecordingStep(t), UNCHANGED socketVars PROVE RunsInv'
  <2>a. /\ calls[t] # <<>> /\ Top(t) \in Calls /\ Fits(Top(t).op, Rest(t))
        /\ \A u \in Threads \ {t} : calls[u] = <<>> /\ calls'[u] = <<>>
        /\ Moves(t) /\ DOMAIN recorders \subseteq DOMAIN recorders'
    BY <1>2, SerialThread
  <2>1. CASE manager_start(t)
    <3>1. Top(t).op = "manager_start" /\ Top(t).fps \in Rates
      BY <2>1, <2>a, CallFields DEF manager_start, Calling, Top
    <3>2. CASE registry # None
      <4>1. calls'[t] = Rest(t)
        BY <2>1, <2>a, <3>2, ReturnNone DEF manager_start, ServerTypeOK
      <4>2. Rest(t) = <<>>
        BY <2>a, <3>1 DEF Fits
      <4> QED BY <1>b, <2>1, <2>a, <3>1, <3>2, <4>1, <4>2 DEF manager_start
    <3>3. CASE registry = None
      <4> DEFINE x == [op |-> "recorder_start", rec |-> Len(recorders) + 1]
      <4>1. /\ Return(t, <<x>>) /\ registry' = Len(recorders) + 1
            /\ recorders' = Append(recorders, [fps |-> Top(t).fps, state |-> "created"])
        BY <2>1, <3>3 DEF manager_start, Top
      <4>2. /\ DOMAIN recorders' = DOMAIN recorders \cup {Len(recorders) + 1}
            /\ \A r \in DOMAIN recorders : recorders'[r] = recorders[r]
            /\ recorders'[Len(recorders) + 1].state = "created"
        BY <4>1, <3>1 DEF ServerTypeOK, RecordingTypeOK, Recorders
      <4>3. x \in Calls' /\ x.op = "recorder_start" /\ x.rec = Len(recorders) + 1
        BY <4>2 DEF Calls, RecorderCalls
      <4> HIDE DEF x
      <4>4. calls'[t] # <<>> /\ Top(t)' = x
        BY <2>a, <4>1, <4>3, Pushed
      <4>5. \A r \in DOMAIN recorders : recorders[r].state # "running"
        BY <1>a, <2>a, <3>1, <3>3 DEF RunsInv
      <4> QED BY <2>a, <4>1, <4>2, <4>3, <4>4, <4>5 DEF RunsInv
    <3> QED BY <3>2, <3>3
  <2>2. CASE recorder_start(t)
    <3>1. Top(t).op = "recorder_start" /\ Top(t).rec \in DOMAIN recorders /\ Top(t).rec = registry
      BY <2>2, <2>a, CallFields DEF recorder_start, Calling, Top, RunsInv
    <3>2. registry' = registry
      BY <2>2 DEF recorder_start
    <3>3. \A r \in DOMAIN recorders \ {registry} : recorders[r].state # "running"
      BY <2>a, <3>1 DEF RunsInv
    <3>4. /\ DOMAIN recorders' = DOMAIN recorders
          /\ \A r \in DOMAIN recorders \ {registry} : recorders'[r] = recorders[r]
      BY <2>2, <3>1 DEF recorder_start, Top, ServerTypeOK, RecordingTypeOK
    <3>5. calls'[t] # <<>> => Top(t)'.op # "recorder_start"
      BY <2>a, <3>1, NextTop DEF Follows
    <3>6. ASSUME calls'[t] # <<>>, Top(t)'.op = "manager_forget"
          PROVE  recorders'[registry].state # "running"
      <4>1. CASE Return(t, <<[op |-> "start_recording", fps |-> recorders[Top(t).rec].fps]>>)
        <5> DEFINE x == [op |-> "start_recording", fps |-> recorders[Top(t).rec].fps]
        <5>1. recorders[Top(t).rec] \in Recorders
          BY <3>1 DEF ServerTypeOK, RecordingTypeOK
        <5>2. x \in Calls' /\ x.op = "start_recording" /\ Return(t, <<x>>)
          BY <4>1, <5>1 DEF Calls, RateCalls, Recorders
        <5> HIDE DEF x
        <5>3. Top(t)' = x
          BY <2>a, <5>2, Pushed
        <5> QED BY <3>6, <5>2, <5>3
      <4>2. CASE recorders' = [recorders EXCEPT ![Top(t).rec].state = "stopped"]
        <5>1. recorders[registry] \in Recorders
          BY <3>1 DEF ServerTypeOK, RecordingTypeOK
        <5>2. recorders'[registry] = [recorders[registry] EXCEPT !.state = "stopped"]
          BY <3>1, <4>2 DEF ServerTypeOK, RecordingTypeOK
        <5> QED BY <5>1, <5>2 DEF Recorders
      <4> QED BY <2>2, <4>1, <4>2 DEF recorder_start, Top
    <3> QED BY <2>a, <3>1, <3>2, <3>3, <3>4, <3>5, <3>6 DEF RunsInv
  <2>3. CASE manager_forget(t)
    <3>1. Top(t).op = "manager_forget" /\ registry' = None /\ recorders' = recorders
      BY <2>3 DEF manager_forget, Calling, Top
    <3>2. ASSUME NEW r \in DOMAIN recorders PROVE recorders[r].state # "running"
      <4>1. recorders[r].state = "running" => r = registry /\ registry # None
        BY <1>a, <2>a, <3>1 DEF RunsInv
      <4> QED BY <2>a, <3>1, <4>1 DEF RunsInv
    <3>3. calls'[t] = <<>>
      <4>1. calls'[t] = Rest(t)
        BY <2>3, <2>a, ReturnNone DEF manager_forget, ServerTypeOK
      <4> QED BY <2>a, <3>1, <4>1 DEF Fits
    <3> QED BY <2>a, <3>1, <3>2, <3>3 DEF RunsInv
  <2>4. CASE manager_stop(t)
    <3>1. Top(t).op = "manager_stop" /\ registry' = None /\ recorders' = recorders
      BY <2>4 DEF manager_stop, Calling, Top
    <3>2. \A r \in DOMAIN recorders : recorders[r].state = "running" => r = registry
      BY <2>a, <3>1 DEF RunsInv
    <3>3. calls'[t] # <<>> => Top(t)'.op \notin {"recorder_start", "manager_forget"}
      BY <2>a, <3>1, NextTop DEF Follows
    <3>4. ASSUME registry # None PROVE calls'[t] # <<>> /\ Top(t)'.op = "recorder_stop" /\ Top(t)'.rec = registry
      <4> DEFINE x == [op |-> "recorder_stop", rec |-> registry]
      <4>1. x \in Calls' /\ x.op = "recorder_stop" /\ x.rec = registry /\ Return(t, <<x>>)
        BY <2>4, <3>1, <3>4 DEF ServerTypeOK, RecordingTypeOK, Calls, RecorderCalls, manager_stop,
           StopRegistered
      <4> HIDE DEF x
      <4> QED BY <2>a, <4>1, Pushed
    <3> QED BY <1>a, <2>a, <3>1, <3>2, <3>3, <3>4 DEF RunsInv
  <2>5. CASE recorder_stop(t)
    <3>1. Top(t).op = "recorder_stop" /\ Top(t).rec \in DOMAIN recorders /\ registry' = registry
      BY <2>5, <2>a, CallFields DEF recorder_stop, Calling, Top
    <3>2. /\ DOMAIN recorders' = DOMAIN recorders
          /\ \A r \in DOMAIN recorders \ {Top(t).rec} : recorders'[r] = recorders[r]
      BY <2>5, <3>1 DEF recorder_stop, Top, ServerTypeOK, RecordingTypeOK
    <3>3. recorders'[Top(t).rec].state # "running"
      <4>1. recorders[Top(t).rec] \in Recorders
        BY <3>1 DEF ServerTypeOK, RecordingTypeOK
      <4>2. \E st \in {"cancelled", "stopped"} :
              recorders'[Top(t).rec] = [recorders[Top(t).rec] EXCEPT !.state = st]
        BY <2>5, <3>1 DEF recorder_stop, Top, ServerTypeOK, RecordingTypeOK
      <4> QED BY <4>1, <4>2 DEF Recorders
    <3>4. \A r \in DOMAIN recorders \ {Top(t).rec} : recorders[r].state = "running" => r = registry
      BY <2>a, <3>1 DEF RunsInv
    <3>5. calls'[t] # <<>> => Top(t)'.op \notin {"recorder_start", "manager_forget"}
      BY <2>a, <3>1, NextTop DEF Follows
    <3> QED BY <2>a, <3>1, <3>2, <3>3, <3>4, <3>5 DEF RunsInv
  <2>6. CASE \/ connected_check(t) \/ connected_resolve(t) \/ connected_rate(t)
             \/ disconnected_check(t) \/ refresh_online(t) \/ refresh_resolve(t) \/ refresh_decide(t)
    <3>1. /\ UNCHANGED <<registry, recorders>>
          /\ Top(t).op \notin {"recorder_stop", "manager_start", "recorder_start"}
      BY <2>6 DEF connected_check, connected_resolve, connected_rate, disconnected_check,
         refresh_online, refresh_resolve, refresh_decide, recordingVars, Calling, Top
    <3>2. calls'[t] # <<>> => Top(t)'.op \notin {"recorder_start", "manager_forget"}
      BY <2>a, <3>1, NextTop DEF Follows
    <3> QED BY <1>b, <2>a, <3>1, <3>2
  <2> QED BY <1>2, <2>1, <2>2, <2>3, <2>4, <2>5, <2>6 DEF RecordingStep
<1>3. ASSUME NEW t \in Threads, SocketStep(t) PROVE RunsInv'
  <2>1. UNCHANGED <<registry, recorders>> /\ calls[t] = <<>>
        /\ Top(t)'.op \notin {"recorder_start", "manager_forget"}
    BY <1>3, SerialSocket DEF recordingVars
  <2> QED BY <1>3, <1>b, <2>1, SerialSocket
<1>4. ASSUME NEW t \in Admins, AdminRequest(t), UNCHANGED socketVars PROVE RunsInv'
  BY <1>4, <1>b, SerialAdmin
<1>5. ASSUME UNCHANGED <<registry, recorders, calls>> PROVE RunsInv'
  BY <1>5 DEF RunsInv, Top
<1>6. CASE OutsideStep \/ UNCHANGED vars
  BY <1>5, <1>6 DEF OutsideStep, HandleControl, SendFrame, AgentDrops, ViewerLeaves, vars,
     recordingVars
<1> QED BY <1>1, <1>2, <1>3, <1>4, <1>6, Kinds

\* When handlers run one at a time, no recorder runs but the registered one once
\* all of them are idle: each recorder that is started is stopped before the
\* next is, however often agents come and go and policies change.
THEOREM NoSecondRecorder == ASSUME ~Overlap PROVE Spec => []OneRecorderRuns
<1>1. Init => RunsInv
  BY DEF Init, HubInit, RecordingInit, RunsInv
<1>2. ServerTypeOK /\ StackInv /\ OneBusy /\ RunsInv /\ [Next]_vars => RunsInv'
  BY RunsStep
<1>3. RunsInv => OneRecorderRuns
  BY DEF RunsInv, OneRecorderRuns, Quiescent
<1> QED BY <1>1, <1>2, <1>3, SerialHold, PTL DEF Spec
-----------------------------------------------------------------------------
(* One recorder, whatever overlaps.                                          *)

\* As long as every launch succeeds, a recorder that runs or may still be launched
\* is the registered one, or some thread is about to stop it.
LaunchInv ==
    failures = 0 =>
        /\ \A t \in Threads : calls[t] # <<>> => Top(t).op # "manager_forget"
        /\ \A r \in DOMAIN recorders : recorders[r].state \in {"created", "running"} =>
             \/ r = registry
             \/ \E t \in Threads : calls[t] # <<>> /\ Top(t).op = "recorder_stop" /\ Top(t).rec = r

\* Every step keeps each live recorder within somebody's reach.
LEMMA LaunchStep ==
    ASSUME ServerTypeOK, StackInv, LaunchInv, [Next]_vars
    PROVE  LaunchInv'
<1>a. ASSUME NEW t \in Threads, \A u \in Threads \ {t} : calls'[u] = calls[u],
             failures = 0, calls[t] # <<>> => Top(t).op # "recorder_stop",
             calls'[t] # <<>> => Top(t)'.op # "manager_forget",
             NEW S, \A r \in S : r \in DOMAIN recorders /\ recorders[r].state \in {"created", "running"}
      PROVE  /\ \A u \in Threads : calls'[u] # <<>> => Top(u)'.op # "manager_forget"
             /\ \A r \in S : \/ r = registry
                             \/ \E u \in Threads : calls'[u] # <<>> /\ Top(u)'.op = "recorder_stop"
                                                   /\ Top(u)'.rec = r
  BY <1>a DEF LaunchInv, Top
<1>b. ASSUME NEW t \in Threads, \A u \in Threads \ {t} : calls'[u] = calls[u],
             failures' = 0 => failures = 0, UNCHANGED <<registry, recorders>>,
             calls[t] # <<>> => Top(t).op # "recorder_stop",
             calls'[t] # <<>> => Top(t)'.op # "manager_forget"
      PROVE  LaunchInv'
  <2> SUFFICES ASSUME failures' = 0 PROVE LaunchInv'
    BY DEF LaunchInv
  <2> DEFINE S == {r \in DOMAIN recorders : recorders[r].state \in {"created", "running"}}
  <2>1. /\ \A u \in Threads : calls'[u] # <<>> => Top(u)'.op # "manager_forget"
        /\ \A r \in S : \/ r = registry
                        \/ \E u \in Threads : calls'[u] # <<>> /\ Top(u)'.op = "recorder_stop"
                                              /\ Top(u)'.rec = r
    BY <1>a, <1>b
  <2> QED BY <1>b, <2>1 DEF LaunchInv
<1>1. ASSUME NEW t \in Threads, HubStep(t), UNCHANGED <<recordingVars, socketVars>> PROVE LaunchInv'
  <2>1. /\ UNCHANGED <<registry, recorders, failures>>
        /\ Top(t).op \notin {"recorder_stop", "recorder_start"}
    BY <1>1 DEF recordingVars, HubStep, register_agent, unregister_agent, on_agent_frame, fan_out,
       on_agent_monitors, register_viewer, drop_viewer, set_monitor, start_recording,
       stop_recording, tell_agent_start, send_text, Calling, Top
  <2>2. calls'[t] # <<>> => Top(t)'.op # "manager_forget"
    BY <1>1, <2>1, ThreadActs, NextTop DEF Follows
  <2> QED BY <1>1, <1>b, <2>1, <2>2, ThreadActs
<1>2. ASSUME NEW t \in Threads, RecordingStep(t), UNCHANGED socketVars PROVE LaunchInv'
  <2>a. /\ calls[t] # <<>> /\ Top(t) \in Calls /\ Fits(Top(t).op, Rest(t))
        /\ \A u \in Threads \ {t} : calls'[u] = calls[u]
        /\ Moves(t) /\ DOMAIN recorders \subseteq DOMAIN recorders'
    BY <1>2, ThreadActs
  <2>b. Top(t).op # "recorder_start" /\ calls'[t] # <<>> => Top(t)'.op # "manager_forget"
    BY <2>a, NextTop DEF Follows
  <2>1. CASE manager_start(t)
    <3>1. Top(t).op = "manager_start" /\ Top(t).fps \in Rates /\ failures' = failures
      BY <2>1, <2>a, CallFields DEF manager_start, Calling, Top
    <3>2. CASE registry # None
      BY <1>b, <2>1, <2>a, <2>b, <3>1, <3>2 DEF manager_start
    <3>3. CASE registry = None
      <4>1. /\ registry' = Len(recorders) + 1
            /\ recorders' = Append(recorders, [fps |-> Top(t).fps, state |-> "created"])
        BY <2>1, <3>3 DEF manager_start, Top
      <4>2. /\ DOMAIN recorders' = DOMAIN recorders \cup {registry'}
            /\ \A r \in DOMAIN recorders : recorders'[r] = recorders[r] /\ r # registry
        BY <3>1, <3>3, <4>1, NoneIsNoRate DEF ServerTypeOK, RecordingTypeOK, Recorders
      <4> DEFINE S == {r \in DOMAIN recorders : recorders[r].state \in {"created", "running"}}
      <4>3. ASSUME failures = 0
            PROVE  /\ \A u \in Threads : calls'[u] # <<>> => Top(u)'.op # "manager_forget"
                   /\ \A r \in S : \/ r = registry
                                   \/ \E u \in Threads : calls'[u] # <<>> /\ Top(u)'.op = "recorder_stop"
                                                         /\ Top(u)'.rec = r
        BY <1>a, <2>a, <2>b, <3>1, <4>3
      <4> QED BY <3>1, <4>2, <4>3 DEF LaunchInv
    <3> QED BY <3>2, <3>3
  <2>2. CASE recorder_start(t)
    <3>1. Top(t).op = "recorder_start" /\ Top(t).rec \in DOMAIN recorders /\ registry' = registry
      BY <2>2, <2>a, CallFields DEF recorder_start, Calling, Top
    <3>2. CASE failures' = failures + 1
      BY <3>2 DEF ServerTypeOK, RecordingTypeOK, LaunchInv
    <3>3. CASE /\ recorders' = [recorders EXCEPT ![Top(t).rec].state = Launched(@)]
               /\ Return(t, <<[op |-> "start_recording", fps |-> recorders[Top(t).rec].fps]>>)
               /\ failures' = failures
      <4>1. recorders[Top(t).rec] \in Recorders
        BY <3>1 DEF ServerTypeOK, RecordingTypeOK
      <4>2. calls'[t] # <<>> /\ Top(t)'.op = "start_recording"
        <5> DEFINE x == [op |-> "start_recording", fps |-> recorders[Top(t).rec].fps]
        <5>1. x \in Calls' /\ x.op = "start_recording" /\ Return(t, <<x>>)
          BY <3>3, <4>1 DEF Calls, RateCalls, Recorders
        <5> HIDE DEF x
        <5> QED BY <2>a, <5>1, Pushed
      <4>3. /\ DOMAIN recorders' = DOMAIN recorders
            /\ \A r \in DOMAIN recorders \ {Top(t).rec} : recorders'[r] = recorders[r]
            /\ recorders'[Top(t).rec].state \in {"created", "running"} =>
                 recorders[Top(t).rec].state = "created"
        BY <3>1, <3>3, <4>1 DEF Launched, ServerTypeOK, RecordingTypeOK, Recorders
      <4> DEFINE S == {r \in DOMAIN recorders : recorders'[r].state \in {"created", "running"}}
      <4>4. \A r \in S : r \in DOMAIN recorders /\ recorders[r].state \in {"created", "running"}
        BY <3>1, <4>3
      <4>5. ASSUME failures = 0
            PROVE  /\ \A u \in Threads : calls'[u] # <<>> => Top(u)'.op # "manager_forget"
                   /\ \A r \in S : \/ r = registry
                                   \/ \E u \in Threads : calls'[u] # <<>> /\ Top(u)'.op = "recorder_stop"
                                                         /\ Top(u)'.rec = r
        BY <1>a, <2>a, <3>1, <4>2, <4>4, <4>5
      <4> QED BY <3>1, <3>3, <4>3, <4>5 DEF LaunchInv
    <3> QED BY <2>2, <3>2, <3>3 DEF recorder_start, Top
  <2>3. CASE manager_forget(t)
    <3>1. Top(t).op = "manager_forget" /\ failures' = failures
      BY <2>3 DEF manager_forget, Calling, Top
    <3> QED BY <2>a, <3>1 DEF LaunchInv
  <2>4. CASE manager_stop(t)
    <3>1. Top(t).op = "manager_stop" /\ registry' = None /\ UNCHANGED <<recorders, failures>>
      BY <2>4 DEF manager_stop, Calling, Top
    <3>2. ASSUME registry # None
          PROVE  calls'[t] # <<>> /\ Top(t)'.op = "recorder_stop" /\ Top(t)'.rec = registry
      <4> DEFINE x == [op |-> "recorder_stop", rec |-> registry]
      <4>1. x \in Calls' /\ x.op = "recorder_stop" /\ x.rec = registry /\ Return(t, <<x>>)
        BY <2>4, <3>1, <3>2 DEF ServerTypeOK, RecordingTypeOK, Calls, RecorderCalls, manager_stop,
           StopRegistered
      <4> HIDE DEF x
      <4> QED BY <2>a, <4>1, Pushed
    <3>3. None \notin DOMAIN recorders
      BY NoneIsNoRate DEF ServerTypeOK, RecordingTypeOK
    <3> DEFINE S == {r \in DOMAIN recorders : recorders[r].state \in {"created", "running"}}
    <3>4. ASSUME failures = 0
          PROVE  /\ \A u \in Threads : calls'[u] # <<>> => Top(u)'.op # "manager_forget"
                 /\ \A r \in S : \/ r = registry
                                 \/ \E u \in Threads : calls'[u] # <<>> /\ Top(u)'.op = "recorder_stop"
                                                       /\ Top(u)'.rec = r
      BY <1>a, <2>a, <2>b, <3>1, <3>4
    <3> QED BY <3>1, <3>2, <3>3, <3>4 DEF LaunchInv
  <2>5. CASE recorder_stop(t)
    <3>1. /\ Top(t).op = "recorder_stop" /\ Top(t).rec \in DOMAIN recorders
          /\ UNCHANGED <<registry, failures>>
      BY <2>5, <2>a, CallFields DEF recorder_stop, Calling, Top
    <3>2. /\ DOMAIN recorders' = DOMAIN recorders
          /\ \A r \in DOMAIN recorders \ {Top(t).rec} : recorders'[r] = recorders[r]
      BY <2>5, <3>1 DEF recorder_stop, Top, ServerTypeOK, RecordingTypeOK
    <3>3. recorders'[Top(t).rec].state \notin {"created", "running"}
      <4>1. recorders[Top(t).rec] \in Recorders
        BY <3>1 DEF ServerTypeOK, RecordingTypeOK
      <4>2. \E st \in {"cancelled", "stopped"} :
              recorders'[Top(t).rec] = [recorders[Top(t).rec] EXCEPT !.state = st]
        BY <2>5, <3>1 DEF recorder_stop, Top, ServerTypeOK, RecordingTypeOK
      <4> QED BY <4>1, <4>2 DEF Recorders
    <3>4. ASSUME failures = 0, NEW r \in DOMAIN recorders \ {Top(t).rec},
                 recorders[r].state \in {"created", "running"}
          PROVE  r = registry \/ \E u \in Threads : calls'[u] # <<>> /\ Top(u)'.op = "recorder_stop"
                                                    /\ Top(u)'.rec = r
      BY <2>a, <3>4 DEF LaunchInv, Top
    <3>5. ASSUME failures = 0, NEW u \in Threads, calls'[u] # <<>> PROVE Top(u)'.op # "manager_forget"
      BY <2>a, <2>b, <3>1, <3>5 DEF LaunchInv, Top
    <3> QED BY <3>1, <3>2, <3>3, <3>4, <3>5 DEF LaunchInv
  <2>6. CASE \/ connected_check(t) \/ connected_resolve(t) \/ connected_rate(t)
             \/ disconnected_check(t) \/ refresh_online(t) \/ refresh_resolve(t) \/ refresh_decide(t)
    <3>1. /\ UNCHANGED <<registry, recorders, failures>>
          /\ Top(t).op \notin {"recorder_stop", "recorder_start"}
      BY <2>6 DEF connected_check, connected_resolve, connected_rate, disconnected_check,
         refresh_online, refresh_resolve, refresh_decide, recordingVars, Calling, Top
    <3> QED BY <1>b, <2>a, <2>b, <3>1
  <2> QED BY <1>2, <2>1, <2>2, <2>3, <2>4, <2>5, <2>6 DEF RecordingStep
<1>3. ASSUME NEW t \in Threads, SocketStep(t) PROVE LaunchInv'
  <2>1. /\ UNCHANGED <<registry, recorders, failures>> /\ calls[t] = <<>>
        /\ Top(t)'.op # "manager_forget" /\ \A u \in Threads \ {t} : calls'[u] = calls[u]
    BY <1>3, SocketBegins DEF recordingVars
  <2> QED BY <1>b, <2>1
<1>4. ASSUME NEW t \in Admins, AdminRequest(t), UNCHANGED socketVars PROVE LaunchInv'
  BY <1>4, <1>b, AdminBegins
<1>5. ASSUME UNCHANGED <<registry, recorders, failures, calls>> PROVE LaunchInv'
  BY <1>5 DEF LaunchInv, Top
<1>6. CASE OutsideStep \/ UNCHANGED vars
  BY <1>5, <1>6 DEF OutsideStep, HandleControl, SendFrame, AgentDrops, ViewerLeaves, vars,
     recordingVars
<1> QED BY <1>1, <1>2, <1>3, <1>4, <1>6, Kinds

\* Whatever threads overlap, and with any number of connections and administrators:
\* as long as no launch has failed, no recorder is left running beside the
\* registered one, also none that was stopped between its registration and its
\* launch.
THEOREM NoStrayRecorder == Spec => []OneRecorderUnlessLaunchFails
<1>1. Init => LaunchInv
  BY DEF Init, HubInit, RecordingInit, LaunchInv
<1>2. ServerTypeOK /\ StackInv /\ LaunchInv /\ [Next]_vars => LaunchInv'
  BY LaunchStep
<1>3. LaunchInv => OneRecorderUnlessLaunchFails
  BY DEF LaunchInv, OneRecorderUnlessLaunchFails, OneRecorderRuns, Quiescent
<1> QED BY <1>1, <1>2, <1>3, ShapesHold, PTL DEF Spec
-----------------------------------------------------------------------------
(* The recorder's rate.                                                      *)

\* The hub's rate stays the registered recorder's.
LEMMA RateStep ==
    ASSUME ~Overlap, ServerTypeOK, StackInv, RunsInv, RateInv, [Next]_vars
    PROVE  RateInv'
<1>a. None \notin DOMAIN recorders
  BY NoneIsNoRate DEF ServerTypeOK, RecordingTypeOK
<1>b. ASSUME NEW t \in Threads, \A u \in Threads \ {t} : calls'[u] = <<>>,
             recording' # None => registry' # None /\ recording' = recorders'[registry'].fps,
             recording' # None /\ calls'[t] # <<>> =>
                 /\ Top(t)'.op \notin {"recorder_start", "manager_forget", "manager_stop"}
                 /\ Top(t)'.op = "stop_recording" \/ Rest(t)' \notin {Stopping, StoppingLeaving},
             calls'[t] # <<>> /\ Top(t)'.op = "start_recording" =>
                 registry' # None /\ Top(t)'.fps = recorders'[registry'].fps
      PROVE  RateInv'
  <2>1. (Rest(t) \in {Stopping, StoppingLeaving})' <=> Rest(t)' \in {Stopping, StoppingLeaving}
    BY DEF Stopping, StoppingLeaving
  <2> QED BY <1>b, <2>1 DEF RateInv
<1>c. ASSUME NEW t \in Threads, Moves(t), calls[t] # <<>>,
             \A u \in Threads \ {t} : calls'[u] = <<>>,
             DOMAIN recorders \subseteq DOMAIN recorders', UNCHANGED <<registry, recording>>,
             registry # None => recorders'[registry].fps = recorders[registry].fps,
             Top(t).op \notin {"manager_start", "recorder_start", "stop_recording"}
      PROVE  RateInv'
  <2>1. ASSUME calls'[t] # <<>> PROVE Top(t)'.op \notin {"recorder_start", "manager_forget", "start_recording"}
    BY <1>c, <2>1, NextTop DEF Follows
  <2>2. ASSUME calls'[t] # <<>>, recording # None
        PROVE  /\ Top(t)'.op # "manager_stop"
               /\ Top(t)'.op = "stop_recording" \/ Rest(t)' \notin {Stopping, StoppingLeaving}
    <3>1. Rest(t) \notin {Stopping, StoppingLeaving}
      BY <1>c, <2>2 DEF RateInv
    <3> QED BY <1>c, <2>2, <3>1, NextTop, RestsDiffer DEF Follows
  <2> QED BY <1>b, <1>c, <2>1, <2>2 DEF RateInv
<1>1. ASSUME NEW t \in Threads, HubStep(t), UNCHANGED <<recordingVars, socketVars>> PROVE RateInv'
  <2>a. /\ calls[t] # <<>> /\ Top(t) \in Calls /\ Fits(Top(t).op, Rest(t))
        /\ \A u \in Threads \ {t} : calls[u] = <<>> /\ calls'[u] = <<>>
        /\ Moves(t) /\ DOMAIN recorders \subseteq DOMAIN recorders'
        /\ UNCHANGED <<registry, recorders>>
    BY <1>1, SerialThread DEF recordingVars
  <2>1. CASE start_recording(t)
    <3>1. Top(t).op = "start_recording" /\ recording' = Top(t).fps
      BY <2>1 DEF start_recording, Calling, Top
    <3>2. registry # None /\ recording' = recorders[registry].fps
      BY <2>a, <3>1 DEF RateInv
    <3>3. calls'[t] # <<>> =>
            /\ Top(t)'.op \notin {"recorder_start", "manager_forget", "manager_stop", "start_recording"}
            /\ Rest(t)' \notin {Stopping, StoppingLeaving}
      BY <2>a, <3>1, NextTop, RestsDiffer DEF Follows, Fits
    <3> QED BY <1>b, <2>a, <3>2, <3>3
  <2>2. CASE stop_recording(t)
    <3>1. Top(t).op = "stop_recording" /\ recording' = None
      BY <2>2 DEF stop_recording, Calling, Top
    <3>2. calls'[t] # <<>> => Top(t)'.op # "start_recording"
      BY <2>a, <3>1, NextTop DEF Follows
    <3> QED BY <1>b, <2>a, <3>1, <3>2
  <2>3. CASE \/ register_agent(t) \/ unregister_agent(t) \/ on_agent_frame(t) \/ fan_out(t)
             \/ on_agent_monitors(t) \/ register_viewer(t) \/ drop_viewer(t) \/ set_monitor(t)
             \/ tell_agent_start(t) \/ send_text(t)
    <3>1. recording' = recording /\ Top(t).op \notin {"manager_start", "recorder_start", "stop_recording"}
      BY <2>3 DEF register_agent, unregister_agent, on_agent_frame, fan_out, on_agent_monitors,
         register_viewer, drop_viewer, set_monitor, tell_agent_start, send_text, hubVars,
         Calling, Top
    <3> QED BY <1>c, <2>a, <3>1
  <2> QED BY <1>1, <2>1, <2>2, <2>3 DEF HubStep
<1>2. ASSUME NEW t \in Threads, RecordingStep(t), UNCHANGED socketVars PROVE RateInv'
  <2>a. /\ calls[t] # <<>> /\ Top(t) \in Calls /\ Fits(Top(t).op, Rest(t))
        /\ \A u \in Threads \ {t} : calls[u] = <<>> /\ calls'[u] = <<>>
        /\ Moves(t) /\ DOMAIN recorders \subseteq DOMAIN recorders'
    BY <1>2, SerialThread
  <2>b. recording' = recording
    BY <1>2 DEF RecordingStep, connected_check, connected_resolve, connected_rate,
       manager_start, recorder_start, manager_forget, disconnected_check, manager_stop,
       recorder_stop, refresh_online, refresh_resolve, refresh_decide, hubVars
  <2>1. CASE manager_start(t)
    <3>1. Top(t).op = "manager_start"
      BY <2>1 DEF manager_start, Calling, Top
    <3>2. CASE registry # None
      <4>1. calls'[t] = Rest(t)
        BY <2>1, <2>a, <3>2, ReturnNone DEF manager_start, ServerTypeOK
      <4>2. calls'[t] = <<>>
        BY <2>a, <3>1, <4>1 DEF Fits
      <4> QED BY <1>b, <2>1, <2>a, <2>b, <3>2, <4>2 DEF manager_start, RateInv
    <3>3. CASE registry = None
      <4>1. recording = None
        BY <3>3 DEF RateInv
      <4>2. calls'[t] # <<>> => Top(t)'.op # "start_recording"
        BY <2>a, <3>1, NextTop DEF Follows
      <4> QED BY <1>b, <2>a, <2>b, <4>1, <4>2
    <3> QED BY <3>2, <3>3
  <2>2. CASE recorder_start(t)
    <3>1. Top(t).op = "recorder_start" /\ Top(t).rec \in DOMAIN recorders /\ Top(t).rec = registry
          /\ recording = None
      BY <2>2, <2>a, CallFields DEF recorder_start, Calling, Top, RunsInv, RateInv
    <3>2. recorders[registry] \in Recorders
      BY <3>1 DEF ServerTypeOK, RecordingTypeOK
    <3>3. ASSUME calls'[t] # <<>>, Top(t)'.op = "start_recording"
          PROVE  Top(t)'.fps = recorders'[registry].fps
      <4>1. CASE Return(t, <<[op |-> "start_recording", fps |-> recorders[Top(t).rec].fps]>>)
        <5> DEFINE x == [op |-> "start_recording", fps |-> recorders[registry].fps]
        <5>1. x \in Calls' /\ x.fps = recorders[registry].fps /\ Return(t, <<x>>)
          BY <3>1, <3>2, <4>1 DEF Calls, RateCalls, Recorders
        <5> HIDE DEF x
        <5>2. Top(t)' = x
          BY <2>a, <5>1, Pushed
        <5>3. \E st : recorders' = [recorders EXCEPT ![registry].state = st]
          BY <2>2, <3>1 DEF recorder_start, Top
        <5>4. recorders'[registry].fps = recorders[registry].fps
          <6>1. PICK st : recorders'[registry] = [recorders[registry] EXCEPT !.state = st]
            BY <3>1, <5>3 DEF ServerTypeOK, RecordingTypeOK
          <6> QED BY <3>2, <6>1 DEF Recorders
        <5> QED BY <5>1, <5>2, <5>4
      <4>2. CASE Return(t, <<Call("manager_forget")>>)
        <5>1. Call("manager_forget") \in Calls' /\ Call("manager_forget").op = "manager_forget"
          BY DEF Call, Calls, PlainCalls
        <5>2. Top(t)' = Call("manager_forget")
          BY <2>a, <4>2, <5>1, Pushed
        <5> QED BY <3>3, <5>1, <5>2
      <4> QED BY <2>2, <4>1, <4>2 DEF recorder_start, Top
    <3>4. registry' = registry
      BY <2>2 DEF recorder_start
    <3> QED BY <1>a, <1>b, <2>a, <2>b, <3>1, <3>3, <3>4
  <2>3. CASE manager_forget(t) \/ manager_stop(t)
    <3>1. Top(t).op \in {"manager_forget", "manager_stop"}
      BY <2>3 DEF manager_forget, manager_stop, Calling, Top
    <3>2. recording = None
      BY <2>a, <3>1 DEF RateInv
    <3>3. calls'[t] # <<>> => Top(t)'.op # "start_recording"
      BY <2>a, <3>1, NextTop DEF Follows
    <3> QED BY <1>b, <2>a, <2>b, <3>2, <3>3
  <2>4. CASE recorder_stop(t)
    <3>1. Top(t).op = "recorder_stop" /\ Top(t).rec \in DOMAIN recorders /\ registry' = registry
      BY <2>4, <2>a, CallFields DEF recorder_stop, Calling, Top
    <3>2. ASSUME registry # None PROVE recorders'[registry].fps = recorders[registry].fps
      <4>1. recorders[registry] \in Recorders /\ registry \in DOMAIN recorders
        BY <3>2 DEF ServerTypeOK, RecordingTypeOK
      <4>2. \E st : recorders' = [recorders EXCEPT ![Top(t).rec].state = st]
        BY <2>4 DEF recorder_stop, Top
      <4>3. recorders'[registry] = recorders[registry]
            \/ \E st : recorders'[registry] = [recorders[registry] EXCEPT !.state = st]
        BY <3>1, <4>1, <4>2 DEF ServerTypeOK, RecordingTypeOK
      <4> QED BY <4>1, <4>3 DEF Recorders
    <3> QED BY <1>c, <2>a, <2>b, <3>1, <3>2
  <2>5. CASE \/ connected_check(t) \/ connected_resolve(t) \/ connected_rate(t)
             \/ disconnected_check(t) \/ refresh_online(t) \/ refresh_resolve(t) \/ refresh_decide(t)
    <3>1. /\ UNCHANGED <<registry, recorders>>
          /\ Top(t).op \notin {"manager_start", "recorder_start", "stop_recording"}
      BY <2>5 DEF connected_check, connected_resolve, connected_rate, disconnected_check,
         refresh_online, refresh_resolve, refresh_decide, recordingVars, Calling, Top
    <3> QED BY <1>c, <2>a, <2>b, <3>1
  <2> QED BY <1>2, <2>1, <2>2, <2>3, <2>4, <2>5 DEF RecordingStep
<1>3. ASSUME NEW t \in Threads, SocketStep(t) PROVE RateInv'
  <2>1. /\ UNCHANGED <<registry, recorders, recording>>
        /\ \A u \in Threads \ {t} : calls'[u] = <<>>
        /\ Top(t)'.op \notin {"recorder_start", "manager_forget", "manager_stop", "start_recording"}
        /\ Rest(t)' \notin {Stopping, StoppingLeaving}
    BY <1>3, SerialSocket, RestsDiffer DEF recordingVars, hubVars
  <2>2. recording' # None => registry' # None /\ recording' = recorders'[registry'].fps
    BY <2>1 DEF RateInv
  <2> QED BY <1>b, <2>1, <2>2
<1>4. ASSUME NEW t \in Admins, AdminRequest(t), UNCHANGED socketVars PROVE RateInv'
  <2>1. /\ t \in Threads /\ UNCHANGED <<registry, recorders, recording>>
        /\ \A u \in Threads \ {t} : calls'[u] = <<>>
        /\ calls'[t] # <<>> => Top(t)'.op = "refresh_endpoint" /\ Rest(t)' = <<>>
    BY <1>4, SerialAdmin DEF hubVars
  <2>2. recording' # None => registry' # None /\ recording' = recorders'[registry'].fps
    BY <2>1 DEF RateInv
  <2>3. <<>> \notin {Stopping, StoppingLeaving}
    BY RestsDiffer
  <2> QED BY <1>b, <2>1, <2>2, <2>3
<1>5. ASSUME UNCHANGED <<registry, recorders, recording, calls>> PROVE RateInv'
  BY <1>5 DEF RateInv, Top, Rest, Stopping, StoppingLeaving
<1>6. CASE OutsideStep \/ UNCHANGED vars
  BY <1>5, <1>6 DEF OutsideStep, HandleControl, SendFrame, AgentDrops, ViewerLeaves, vars,
     recordingVars, hubVars
<1> QED BY <1>1, <1>2, <1>3, <1>4, <1>6, Kinds

-----------------------------------------------------------------------------
(* What the agent has been told.                                             *)

\* Nothing under way: the capture is what it is.
LEMMA SettlesNone == ASSUME NEW cap, NEW want PROVE Settles(<<>>, cap, want) <=> cap = want
BY DEF Settles

\* A message that is sent settles the capture, or changes nothing.
LEMMA SettlesSend ==
    ASSUME NEW S, NEW q \in Seq(S), NEW m \in S, NEW cap, NEW want
    PROVE  /\ Orders(m) => Settles(Append(q, m), cap, Ordered(m))
           /\ ~Orders(m) /\ Settles(q, cap, want) => Settles(Append(q, m), cap, want)
<1>1. /\ DOMAIN Append(q, m) = 1 .. (Len(q) + 1) /\ DOMAIN q = 1 .. Len(q) /\ Len(q) \in Nat
      /\ Append(q, m)[Len(q) + 1] = m /\ \A i \in 1 .. Len(q) : Append(q, m)[i] = q[i]
  OBVIOUS
<1>2. ASSUME Orders(m) PROVE Settles(Append(q, m), cap, Ordered(m))
  <2>1. Len(q) + 1 \in DOMAIN Append(q, m)
    BY <1>1
  <2>2. \A j \in DOMAIN Append(q, m) : ~(j > Len(q) + 1)
    BY <1>1
  <2> QED BY <1>1, <1>2, <2>1, <2>2 DEF Settles
<1>3. ASSUME ~Orders(m), Settles(q, cap, want) PROVE Settles(Append(q, m), cap, want)
  <2>1. CASE cap = want /\ \A i \in DOMAIN q : ~Orders(q[i])
    <3>1. \A i \in DOMAIN Append(q, m) : ~Orders(Append(q, m)[i])
      BY <1>1, <1>3, <2>1
    <3> QED BY <2>1, <3>1 DEF Settles
  <2>2. ASSUME NEW i \in DOMAIN q, Orders(q[i]), Ordered(q[i]) = want,
               \A j \in DOMAIN q : j > i => ~Orders(q[j])
        PROVE  Settles(Append(q, m), cap, want)
    <3>1. i \in DOMAIN Append(q, m) /\ Append(q, m)[i] = q[i]
      BY <1>1
    <3>2. ASSUME NEW j \in DOMAIN Append(q, m), j > i PROVE ~Orders(Append(q, m)[j])
      BY <1>1, <1>3, <2>2, <3>2
    <3> QED BY <2>2, <3>1, <3>2 DEF Settles
  <2> QED BY <1>3, <2>1, <2>2 DEF Settles
<1> QED BY <1>2, <1>3

\* Reading the first message settles on the same capture.
LEMMA SettlesRead ==
    ASSUME NEW S, NEW q \in Seq(S), q # <<>>, NEW cap, NEW want, Settles(q, cap, want)
    PROVE  Settles(Tail(q), IF Orders(Head(q)) THEN Ordered(Head(q)) ELSE cap, want)
<1>1. /\ DOMAIN q = 1 .. Len(q) /\ DOMAIN Tail(q) = 1 .. (Len(q) - 1) /\ Len(q) \in Nat \ {0}
      /\ Head(q) = q[1] /\ \A i \in 1 .. (Len(q) - 1) : Tail(q)[i] = q[i + 1]
  OBVIOUS
<1>2. CASE cap = want /\ \A i \in DOMAIN q : ~Orders(q[i])
  <2>1. \A i \in DOMAIN Tail(q) : ~Orders(Tail(q)[i])
    BY <1>1, <1>2
  <2> QED BY <1>1, <1>2, <2>1 DEF Settles
<1>3. ASSUME NEW i \in DOMAIN q, Orders(q[i]), Ordered(q[i]) = want,
             \A j \in DOMAIN q : j > i => ~Orders(q[j])
      PROVE  Settles(Tail(q), IF Orders(Head(q)) THEN Ordered(Head(q)) ELSE cap, want)
  <2>1. CASE i = 1
    <3>1. \A j \in DOMAIN Tail(q) : ~Orders(Tail(q)[j])
      BY <1>1, <1>3, <2>1
    <3> QED BY <1>1, <1>3, <2>1, <3>1 DEF Settles
  <2>2. CASE i # 1
    <3>1. i - 1 \in DOMAIN Tail(q) /\ Tail(q)[i - 1] = q[i]
      BY <1>1, <2>2
    <3>2. ASSUME NEW j \in DOMAIN Tail(q), j > i - 1 PROVE ~Orders(Tail(q)[j])
      BY <1>1, <1>3, <3>2
    <3> QED BY <1>3, <3>1, <3>2 DEF Settles
  <2> QED BY <2>1, <2>2
<1> QED BY <1>2, <1>3 DEF Settles

\* A dead link stays empty.
LEMMA LinksStep ==
    ASSUME ServerTypeOK, StackInv, LinksInv, [Next]_vars
    PROVE  LinksInv'
<1>a. AgentConns \cap Viewers = {}
  BY ThreadsAssumption
<1>b. ASSUME UNCHANGED capture, up \cap AgentConns \subseteq up',
             \A c \in AgentConns : c \notin up => inbox'[c] = inbox[c]
      PROVE  LinksInv'
  BY <1>b DEF LinksInv
<1>c. ASSUME NEW c \in AgentConns, NEW m, NEW d \in AgentConns, d \notin up
      PROVE  Delivered(c, m)[d] = inbox[d]
  BY <1>c DEF Delivered, ServerTypeOK, InboxTypeOK
<1>1. ASSUME NEW t \in Threads, HubStep(t), UNCHANGED <<recordingVars, socketVars>> PROVE LinksInv'
  <2>1. UNCHANGED <<capture, up>> /\ calls[t] # <<>>
    BY <1>1, ThreadSteps DEF socketVars, Moves
  <2>2. CASE register_agent(t)
    BY <1>b, <1>c, <2>1, <2>2 DEF register_agent, ServerTypeOK, HubTypeOK
  <2>3. CASE send_text(t)
    <3>1. Top(t) \in Calls /\ Top(t).op = "send" /\ inbox' = Delivered(Top(t).conn, Top(t).msg)
      BY <2>1, <2>3, TopIsCall DEF send_text, Calling, Top, ServerTypeOK
    <3>2. Top(t).conn \in AgentConns
      BY <3>1, CallFields
    <3> QED BY <1>b, <1>c, <2>1, <3>1, <3>2
  <2>4. CASE inbox' = inbox
    BY <1>b, <2>1, <2>4
  <2> QED BY <1>1, <2>2, <2>3, <2>4 DEF HubStep, unregister_agent, on_agent_frame, fan_out,
             on_agent_monitors, register_viewer, drop_viewer, set_monitor, start_recording,
             stop_recording, tell_agent_start
<1>2. ASSUME NEW t \in Threads, RecordingStep(t), UNCHANGED socketVars PROVE LinksInv'
  <2>1. inbox' = inbox
    BY <1>2 DEF RecordingStep, connected_check, connected_resolve, connected_rate,
       manager_start, recorder_start, manager_forget, disconnected_check, manager_stop,
       recorder_stop, refresh_online, refresh_resolve, refresh_decide
  <2> QED BY <1>2, <1>b, <2>1, ThreadSteps DEF socketVars
<1>3. ASSUME NEW t \in Threads, SocketStep(t) PROVE LinksInv'
  <2>1. UNCHANGED <<capture, inbox>> /\ up \subseteq up'
    BY <1>3 DEF SocketStep, AgentConnect, AgentSocketReceive, AgentSocketClose, ViewerConnect,
       ViewerSetMonitor, ViewerSocketClose
  <2> QED BY <1>b, <2>1
<1>4. ASSUME NEW t \in Admins, AdminRequest(t), UNCHANGED socketVars PROVE LinksInv'
  <2>1. UNCHANGED <<capture, inbox, up>>
    BY <1>4 DEF AdminRequest, create_policy, update_policy, delete_policy, set_group_members,
                ChangePolicy, socketVars
  <2> QED BY <1>b, <2>1
<1>5. ASSUME NEW c \in AgentConns, HandleControl(c) PROVE LinksInv'
  <2>1. c \in up /\ up' = up
    BY <1>5 DEF HandleControl
  <2>2. \A d \in AgentConns \ {c} : capture'[d] = capture[d] /\ inbox'[d] = inbox[d]
    BY <1>5 DEF HandleControl, ServerTypeOK, SocketTypeOK, InboxTypeOK
  <2> QED BY <2>1, <2>2 DEF LinksInv
<1>6. ASSUME NEW c \in AgentConns, AgentDrops(c) PROVE LinksInv'
  BY <1>6 DEF AgentDrops, LinksInv, ServerTypeOK, SocketTypeOK, InboxTypeOK
<1>7. ASSUME NEW c \in AgentConns, SendFrame(c) PROVE LinksInv'
  BY <1>7, <1>b DEF SendFrame
<1>8. ASSUME NEW v \in Viewers, ViewerLeaves(v) PROVE LinksInv'
  BY <1>8, <1>a, <1>b DEF ViewerLeaves, socketVars
<1>9. CASE UNCHANGED vars
  BY <1>9, <1>b DEF vars, socketVars
<1> QED BY <1>1, <1>2, <1>3, <1>4, <1>5, <1>6, <1>7, <1>8, <1>9, Kinds DEF OutsideStep

\* The orders the hub gives.
LEMMA HubOrders ==
    /\ Orders(StopMessage) /\ Ordered(StopMessage) = None
    /\ ~Orders(SupersededMessage) /\ \A i : ~Orders(SetMonitorMessage(i))
    /\ \A r : Orders(StartMessage(r))
<1>1. Orders(StopMessage) /\ Ordered(StopMessage) = None
  BY DEF Orders, Ordered, StopMessage
<1>2. ~Orders(SupersededMessage) /\ \A i : ~Orders(SetMonitorMessage(i))
  BY DEF Orders, SupersededMessage, SetMonitorMessage
<1>3. \A r : Orders(StartMessage(r))
  BY DEF Orders, StartMessage
<1> QED BY <1>1, <1>2, <1>3

\* What the agent should be doing depends on whether somebody watches, not on who.
LEMMA WantedSame ==
    ASSUME NEW vs, NEW ws, NEW rec, rec # None \/ (vs = {} <=> ws = {})
    PROVE  Wanted(vs, rec) = Wanted(ws, rec)
BY DEF Wanted, ShouldCapture

\* The registered agent is told what it should do.
LEMMA DemandStep ==
    ASSUME ~Overlap, ServerTypeOK, StackInv, RegistrationInv, LinksInv, DemandInv, [Next]_vars
    PROVE  DemandInv'
<1>a. ASSUME NEW t \in Threads, \A u \in Threads \ {t} : calls'[u] = <<>>,
             calls'[t] # <<>> =>
                 /\ Top(t)'.op = "tell_agent_start" => ShouldCapture(viewers', recording')
                 /\ Top(t)'.op = "send" =>
                      /\ Top(t)'.conn = agent'
                      /\ Orders(Top(t)'.msg) => Ordered(Top(t)'.msg) = Wanted(viewers', recording')
                 /\ Top(t)'.op = "register_agent" => capture'[t] = None /\ inbox'[t] = <<>>,
             agent' # None /\ agent' \in up' =>
                 \/ Settles(inbox'[agent'], capture'[agent'], Wanted(viewers', recording'))
                 \/ Telling(t)'
      PROVE  DemandInv'
  <2>1. ShouldCapture(viewers, recording)' <=> ShouldCapture(viewers', recording')
    BY DEF ShouldCapture
  <2> QED BY <1>a, <2>1 DEF DemandInv
<1>b. ASSUME NEW t \in Threads, \A u \in Threads \ {t} : calls[u] = <<>> /\ calls'[u] = <<>>,
             ~Telling(t),
             UNCHANGED <<agent, viewers, recording, inbox, capture>>, up' \cap {agent} \subseteq up,
             calls'[t] # <<>> =>
                 /\ Top(t)'.op # "tell_agent_start"
                 /\ Top(t)'.op = "send" => Top(t)'.conn = agent /\ ~Orders(Top(t)'.msg)
                 /\ Top(t)'.op = "register_agent" => capture[t] = None /\ inbox[t] = <<>>
      PROVE  DemandInv'
  <2>1. agent # None /\ agent \in up =>
          Settles(inbox[agent], capture[agent], Wanted(viewers, recording))
    BY <1>b DEF DemandInv, Telling
  <2> QED BY <1>a, <1>b, <2>1
<1>1. ASSUME NEW t \in Threads, HubStep(t), UNCHANGED <<recordingVars, socketVars>> PROVE DemandInv'
  <2>a. /\ calls[t] # <<>> /\ Top(t) \in Calls /\ Fits(Top(t).op, Rest(t))
        /\ \A u \in Threads \ {t} : calls[u] = <<>> /\ calls'[u] = <<>>
        /\ Moves(t) /\ DOMAIN recorders \subseteq DOMAIN recorders'
        /\ UNCHANGED <<up, capture>> /\ recorders' = recorders
    BY <1>1, SerialThread DEF recordingVars
  <2>b. Calls' = Calls
    BY <2>a DEF Calls, RecorderCalls, PlainCalls, SendCalls, FanOutCalls, DropCalls,
       MonitorsCalls, SetMonitorCalls, RateCalls, DecideCalls
  <2>c. Call("tell_agent_start") \in Calls /\ Call("tell_agent_start").op = "tell_agent_start"
    BY PlainCall
  <2>d. ASSUME Return(t, <<Call("tell_agent_start")>>), ShouldCapture(viewers', recording')
        PROVE  DemandInv'
    <3>1. calls'[t] # <<>> /\ Top(t)' = Call("tell_agent_start")
      BY <2>a, <2>b, <2>c, <2>d, Pushed
    <3> QED BY <1>a, <2>a, <2>c, <2>d, <3>1 DEF Telling
  <2>e. ASSUME NEW m \in Messages, agent # None, agent' = agent, Return(t, <<Send(agent, m)>>),
               Orders(m), Ordered(m) = Wanted(viewers', recording')
        PROVE  DemandInv'
    <3>1. Send(agent, m) \in Calls /\ Send(agent, m).op = "send" /\ Send(agent, m).conn = agent
          /\ Send(agent, m).msg = m
      BY <2>e, SendCall DEF ServerTypeOK, HubTypeOK
    <3>2. calls'[t] # <<>> /\ Top(t)' = Send(agent, m)
      BY <2>a, <2>b, <2>e, <3>1, Pushed
    <3> QED BY <1>a, <2>a, <2>e, <3>1, <3>2 DEF Telling
  <2>f. ASSUME calls'[t] # <<>>, Top(t).op \notin {"drop_viewer", "set_monitor", "stop_recording",
               "tell_agent_start", "register_agent", "register_viewer", "start_recording"}
        PROVE  Top(t)'.op \notin {"tell_agent_start", "send", "register_agent"}
    BY <2>a, <2>f, NextTop DEF Follows
  <2>g. ASSUME Return(t, <<>>), calls'[t] # <<>>
        PROVE  Top(t)'.op \notin {"tell_agent_start", "send", "register_agent"}
    <3>1. calls'[t] = Rest(t)
      BY <2>a, <2>g, ReturnNone DEF ServerTypeOK
    <3>2. Rest(t) \in {Connecting, Stopping, Leaving, StoppingLeaving} \cup FanOuts
      BY <2>a, <2>g, <3>1 DEF Fits
    <3>3. Head(Rest(t)).op \notin {"tell_agent_start", "send", "register_agent"}
      BY <3>2, RestFacts
    <3> QED BY <3>1, <3>3 DEF Top
  <2>1. CASE register_agent(t)
    <3>1. Top(t).op = "register_agent" /\ agent' = t /\ UNCHANGED <<viewers, recording>>
      BY <2>1 DEF register_agent, Calling, Top
    <3>2. t \in AgentConns /\ capture[t] = None /\ inbox[t] = <<>>
      BY <2>a, <3>1 DEF DemandInv, StackInv, StacksInPhase
    <3>3. CASE ShouldCapture(viewers, recording)
      BY <2>1, <2>d, <3>1, <3>3 DEF register_agent
    <3>4. CASE ~ShouldCapture(viewers, recording)
      <4>1. Return(t, <<>>)
        BY <2>1, <3>4 DEF register_agent
      <4>2. inbox'[t] = <<>>
        BY <2>1, <3>2 DEF register_agent, Delivered, ServerTypeOK, InboxTypeOK, HubTypeOK
      <4>3. Wanted(viewers', recording') = None
        BY <3>1, <3>4 DEF Wanted
      <4>4. Settles(inbox'[t], capture'[t], Wanted(viewers', recording'))
        BY <2>a, <3>2, <4>2, <4>3, SettlesNone
      <4> QED BY <1>a, <2>a, <2>g, <3>1, <4>1, <4>4
    <3> QED BY <3>3, <3>4
  <2>2. CASE unregister_agent(t)
    <3>1. Top(t).op = "unregister_agent" /\ UNCHANGED <<viewers, recording, inbox>>
          /\ agent' \in {None, agent} /\ Return(t, <<>>)
      BY <2>2 DEF unregister_agent, Calling, Top
    <3>2. agent # None /\ agent \in up =>
            Settles(inbox[agent], capture[agent], Wanted(viewers, recording))
      BY <2>a, <3>1 DEF DemandInv, Telling
    <3> QED BY <1>a, <2>a, <2>g, <3>1, <3>2
  <2>3. CASE on_agent_frame(t) \/ fan_out(t) \/ on_agent_monitors(t)
    <3>1. /\ Top(t).op \in {"on_agent_frame", "fan_out", "on_agent_monitors"}
          /\ UNCHANGED <<agent, viewers, recording, inbox>>
      BY <2>3 DEF on_agent_frame, fan_out, on_agent_monitors, Calling, Top, hubVars
    <3>2. ~Telling(t)
      BY <3>1 DEF Telling
    <3> QED BY <1>b, <2>a, <2>f, <3>1, <3>2
  <2>4. CASE register_viewer(t)
    <3>1. /\ Top(t).op = "register_viewer" /\ viewers' = viewers \cup {t}
          /\ UNCHANGED <<agent, recording, inbox>>
      BY <2>4 DEF register_viewer, Calling, Top
    <3>2. CASE viewers = {} /\ agent # None
      BY <2>4, <2>d, <3>1, <3>2 DEF register_viewer, ShouldCapture
    <3>3. CASE ~(viewers = {} /\ agent # None)
      <4>1. Return(t, <<>>)
        BY <2>4, <3>3 DEF register_viewer
      <4>2. agent # None => Wanted(viewers', recording) = Wanted(viewers, recording)
        BY <3>1, <3>3, WantedSame
      <4>3. agent # None /\ agent \in up =>
              Settles(inbox[agent], capture[agent], Wanted(viewers, recording))
        BY <2>a, <3>1 DEF DemandInv, Telling
      <4> QED BY <1>a, <2>a, <2>g, <3>1, <4>1, <4>2, <4>3
    <3> QED BY <3>2, <3>3
  <2>5. CASE drop_viewer(t)
    <3> DEFINE conn == Top(t).conn
    <3>1. /\ Top(t).op = "drop_viewer" /\ viewers' = viewers \ {conn}
          /\ UNCHANGED <<agent, recording, inbox>>
          /\ Return(t, IF DropStops(conn) THEN <<Send(agent, StopMessage)>> ELSE <<>>)
      BY <2>5 DEF drop_viewer, Calling, Top, ViewersWithout
    <3>2. CASE DropStops(conn)
      <4>1. agent # None /\ viewers' = {} /\ recording' = None
        BY <3>1, <3>2 DEF DropStops, ShouldCapture
      <4>2. Wanted(viewers', recording') = None
        BY <4>1 DEF Wanted, ShouldCapture
      <4> QED BY <2>e, <3>1, <3>2, <4>1, <4>2, HubOrders, HubMessages
    <3>3. CASE ~DropStops(conn)
      <4>1. agent # None => Wanted(viewers', recording) = Wanted(viewers, recording)
        <5>1. agent # None => recording # None \/ viewers # {conn}
          BY <3>3 DEF DropStops, ShouldCapture
        <5>2. viewers # {conn} => (viewers' = {} <=> viewers = {})
          BY <3>1
        <5> QED BY <5>1, <5>2, WantedSame
      <4>2. agent # None /\ agent \in up =>
              Settles(inbox[agent], capture[agent], Wanted(viewers, recording))
        BY <2>a, <3>1 DEF DemandInv, Telling
      <4> QED BY <1>a, <2>a, <2>g, <3>1, <3>3, <4>1, <4>2
    <3> QED BY <3>2, <3>3
  <2>6. CASE set_monitor(t)
    <3>1. /\ Top(t).op = "set_monitor" /\ UNCHANGED <<agent, viewers, recording, inbox>>
      BY <2>6 DEF set_monitor, Calling, Top, hubVars
    <3>2. ~Telling(t)
      BY <3>1 DEF Telling
    <3>3. CASE agent = None
      BY <1>b, <2>6, <2>a, <2>g, <3>1, <3>2, <3>3 DEF set_monitor
    <3>4. CASE agent # None
      <4> DEFINE m == SetMonitorMessage(Top(t).index)
      <4>1. m \in Messages /\ ~Orders(m) /\ Return(t, <<Send(agent, m)>>)
        BY <2>6, <2>a, <3>1, <3>4, CallFields, HubOrders, HubMessages DEF set_monitor, Top
      <4> HIDE DEF m
      <4>2. Send(agent, m) \in Calls /\ Send(agent, m).op = "send" /\ Send(agent, m).conn = agent
            /\ Send(agent, m).msg = m
        BY <3>4, <4>1, SendCall DEF ServerTypeOK, HubTypeOK
      <4>3. Top(t)' = Send(agent, m)
        BY <2>a, <2>b, <4>1, <4>2, Pushed
      <4> QED BY <1>b, <2>a, <3>1, <3>2, <4>1, <4>2, <4>3
    <3> QED BY <3>3, <3>4
  <2>7. CASE start_recording(t)
    <3>1. /\ Top(t).op = "start_recording" /\ recording' = Top(t).fps
          /\ UNCHANGED <<agent, viewers, inbox>>
      BY <2>7 DEF start_recording, Calling, Top
    <3>2. recording' # None
      BY <2>a, <3>1, CallFields, RatesAssumption, NoneIsNoRate DEF Rates
    <3>3. CASE agent # None
      BY <2>7, <2>d, <3>2, <3>3 DEF start_recording, ShouldCapture
    <3>4. CASE agent = None
      BY <1>a, <2>7, <2>a, <2>g, <3>1, <3>4 DEF start_recording
    <3> QED BY <3>3, <3>4
  <2>8. CASE stop_recording(t)
    <3>1. /\ recording' = None /\ UNCHANGED <<agent, viewers, inbox>> /\ Return(t, AfterRecording)
      BY <2>8 DEF stop_recording
    <3>2. CASE agent = None
      BY <1>a, <2>a, <2>g, <3>1, <3>2 DEF AfterRecording
    <3>3. CASE agent # None /\ ~ShouldCapture(viewers, None)
      <4>1. Return(t, <<Send(agent, StopMessage)>>)
        BY <3>1, <3>3 DEF AfterRecording
      <4>2. Wanted(viewers', recording') = None
        BY <3>1, <3>3 DEF Wanted
      <4> QED BY <2>e, <3>1, <3>3, <4>1, <4>2, HubOrders, HubMessages
    <3>4. CASE agent # None /\ ShouldCapture(viewers, None)
      BY <2>d, <3>1, <3>4 DEF AfterRecording
    <3> QED BY <3>2, <3>3, <3>4
  <2>9. CASE tell_agent_start(t)
    <3>1. /\ Top(t).op = "tell_agent_start" /\ UNCHANGED <<agent, viewers, recording, inbox>>
      BY <2>9 DEF tell_agent_start, Calling, Top, hubVars
    <3>2. CASE agent = None
      BY <1>a, <2>9, <2>a, <2>g, <3>1, <3>2 DEF tell_agent_start
    <3>3. CASE agent # None
      <4>1. ShouldCapture(viewers, recording)
        BY <2>a, <3>1 DEF DemandInv
      <4>2. Ordered(StartMessage(recording)) = Wanted(viewers', recording')
        BY <3>1, <4>1 DEF Wanted
      <4>3. Return(t, <<Send(agent, StartMessage(recording))>>)
        BY <2>9, <3>3 DEF tell_agent_start
      <4>4. StartMessage(recording) \in Messages
        BY HubMessages DEF ServerTypeOK, HubTypeOK
      <4> QED BY <2>e, <3>1, <3>3, <4>2, <4>3, <4>4, HubOrders
    <3> QED BY <3>2, <3>3
  <2>10. CASE send_text(t)
    <3> DEFINE m == Top(t).msg
    <3>1. /\ Top(t).op = "send" /\ UNCHANGED <<agent, viewers, recording>> /\ Return(t, <<>>)
          /\ inbox' = Delivered(Top(t).conn, m)
      BY <2>10 DEF send_text, Calling, Top, hubVars
    <3>2. /\ Top(t).conn = agent /\ agent \in AgentConns /\ m \in Messages
          /\ Orders(m) => Ordered(m) = Wanted(viewers, recording)
      BY <2>a, <3>1, CallFields DEF DemandInv
    <3> HIDE DEF m
    <3>3. ASSUME agent \in up
          PROVE  Settles(inbox'[agent], capture[agent], Wanted(viewers, recording))
      <4>1. inbox'[agent] = Append(inbox[agent], m) /\ inbox[agent] \in Seq(Messages)
        BY <3>1, <3>2, <3>3 DEF Delivered, ServerTypeOK, InboxTypeOK
      <4>2. CASE Orders(m)
        BY <3>2, <4>1, <4>2, SettlesSend
      <4>3. CASE ~Orders(m)
        <5>1. Settles(inbox[agent], capture[agent], Wanted(viewers, recording))
          <6>1. ~Telling(t)
            BY <3>1, <4>3 DEF Telling, m
          <6>2. agent # None
            BY <3>2, ThreadsAssumption
          <6> QED BY <2>a, <3>3, <6>1, <6>2 DEF DemandInv, Telling
        <5> QED BY <3>2, <4>1, <4>3, <5>1, SettlesSend
      <4> QED BY <4>2, <4>3
    <3> QED BY <1>a, <2>a, <2>g, <3>1, <3>3
  <2> QED BY <1>1, <2>1, <2>2, <2>3, <2>4, <2>5, <2>6, <2>7, <2>8, <2>9, <2>10 DEF HubStep
<1>2. ASSUME NEW t \in Threads, RecordingStep(t), UNCHANGED socketVars PROVE DemandInv'
  <2>1. /\ UNCHANGED <<agent, viewers, recording, inbox>>
        /\ Top(t).op \notin {"drop_viewer", "set_monitor", "stop_recording", "tell_agent_start",
               "send", "register_agent", "register_viewer", "start_recording"}
    BY <1>2 DEF RecordingStep, connected_check, connected_resolve, connected_rate,
       manager_start, recorder_start, manager_forget, disconnected_check, manager_stop,
       recorder_stop, refresh_online, refresh_resolve, refresh_decide, hubVars, Calling, Top
  <2>2. calls'[t] # <<>> => Top(t)'.op \notin {"tell_agent_start", "send", "register_agent"}
    BY <1>2, <2>1, SerialThread, NextTop DEF Follows
  <2>3. ~Telling(t)
    BY <2>1 DEF Telling
  <2> QED BY <1>2, <1>b, <2>1, <2>2, <2>3, SerialThread
<1>3. ASSUME NEW t \in Threads, SocketStep(t) PROVE DemandInv'
  <2>1. /\ UNCHANGED <<agent, viewers, recording, inbox, capture>> /\ ~Telling(t)
        /\ \A u \in Threads \ {t} : calls[u] = <<>> /\ calls'[u] = <<>>
    BY <1>3, SerialSocket DEF hubVars, Telling
  <2>2. CASE t \in AgentConns /\ \E s \in Sessions : AgentConnect(t, s)
    <3>1. phase[t] = "new" /\ up' = up \cup {t}
      BY <2>2 DEF AgentConnect
    <3>2. t # agent
      <4>1. t # None
        BY <2>2, ThreadsAssumption
      <4>2. lastReg = None \/ lastReg # t
        BY <3>1, <4>1 DEF RegistrationInv
      <4> QED BY <4>1, <4>2 DEF RegistrationInv, RegistrationTracksNewest
    <3>3. t \notin up
      BY <1>3, <3>1, SerialSocket DEF StackInv, SocketsInPhase
    <3>4. capture[t] = None /\ inbox[t] = <<>>
      BY <2>2, <3>3 DEF LinksInv
    <3>5. Top(t)'.op \notin {"tell_agent_start", "send"}
      BY <1>3, SerialSocket
    <3> QED BY <1>b, <2>1, <3>1, <3>2, <3>4, <3>5
  <2>3. CASE ~(t \in AgentConns /\ \E s \in Sessions : AgentConnect(t, s))
    <3>1. Top(t)'.op \notin {"tell_agent_start", "send", "register_agent"}
      BY <1>3, <2>3, SerialSocket
    <3>2. up' \cap {agent} \subseteq up
      <4>1. agent \notin Viewers
        BY ThreadsAssumption DEF ServerTypeOK, HubTypeOK
      <4> QED BY <1>3, <2>3, <4>1 DEF SocketStep, AgentSocketReceive, AgentSocketClose,
              ViewerConnect, ViewerSetMonitor, ViewerSocketClose
    <3> QED BY <1>b, <2>1, <3>1, <3>2
  <2> QED BY <2>2, <2>3
<1>4. ASSUME NEW t \in Admins, AdminRequest(t), UNCHANGED socketVars PROVE DemandInv'
  <2>1. /\ t \in Threads /\ UNCHANGED <<agent, viewers, recording, inbox, capture, up>> /\ ~Telling(t)
        /\ \A u \in Threads \ {t} : calls[u] = <<>> /\ calls'[u] = <<>>
        /\ calls'[t] # <<>> => Top(t)'.op = "refresh_endpoint"
    BY <1>4, SerialAdmin DEF hubVars, socketVars, Telling
  <2> QED BY <1>b, <2>1
<1>c. ASSUME UNCHANGED <<agent, viewers, recording, calls>>, up' \cap {agent} \subseteq up,
             \A t \in AgentConns : capture[t] = None /\ inbox[t] = <<>> =>
                 capture'[t] = None /\ inbox'[t] = <<>>,
             agent # None /\ agent \in up' /\ Settles(inbox[agent], capture[agent], Wanted(viewers, recording))
               => Settles(inbox'[agent], capture'[agent], Wanted(viewers, recording))
      PROVE  DemandInv'
  <2>1. ASSUME NEW t \in Threads, calls[t] # <<>>, Top(t).op = "register_agent"
        PROVE  capture'[t] = None /\ inbox'[t] = <<>>
    BY <1>c, <2>1 DEF DemandInv, StackInv, StacksInPhase
  <2>2. \A t \in Threads : Telling(t)' <=> Telling(t)
    BY <1>c DEF Telling, Top
  <2>3. ShouldCapture(viewers, recording)' <=> ShouldCapture(viewers, recording)
    BY <1>c DEF ShouldCapture
  <2>4. Wanted(viewers, recording)' = Wanted(viewers, recording)
    BY <1>c DEF Wanted, ShouldCapture
  <2>5. \A t \in Threads : Top(t)' = Top(t)
    BY <1>c DEF Top
  <2> QED BY <1>c, <2>1, <2>2, <2>3, <2>4, <2>5 DEF DemandInv
<1>5. ASSUME NEW c \in AgentConns, HandleControl(c) PROVE DemandInv'
  <2>1. /\ UNCHANGED <<agent, viewers, recording, calls, up>> /\ inbox[c] # <<>>
        /\ inbox' = [inbox EXCEPT ![c] = Tail(@)]
        /\ \A d \in AgentConns \ {c} : capture'[d] = capture[d] /\ inbox'[d] = inbox[d]
    BY <1>5 DEF HandleControl, hubVars, ServerTypeOK, SocketTypeOK, InboxTypeOK
  <2>2. capture'[c] = IF Orders(Head(inbox[c])) THEN Ordered(Head(inbox[c])) ELSE capture[c]
    BY <1>5 DEF HandleControl, ServerTypeOK, SocketTypeOK, Orders, Ordered
  <2>3. inbox'[c] = Tail(inbox[c]) /\ inbox[c] \in Seq(Messages)
    BY <2>1 DEF ServerTypeOK, InboxTypeOK
  <2>4. ASSUME agent # None, Settles(inbox[agent], capture[agent], Wanted(viewers, recording))
        PROVE  Settles(inbox'[agent], capture'[agent], Wanted(viewers, recording))
    <3>1. agent \in AgentConns
      BY <2>4 DEF ServerTypeOK, HubTypeOK
    <3>2. CASE agent = c
      BY <2>1, <2>2, <2>3, <2>4, <3>2, SettlesRead
    <3>3. CASE agent # c
      BY <2>1, <2>4, <3>1, <3>3
    <3> QED BY <3>2, <3>3
  <2> QED BY <1>c, <2>1, <2>4
<1>6. ASSUME NEW c \in AgentConns, AgentDrops(c) PROVE DemandInv'
  <2>1. /\ UNCHANGED <<agent, viewers, recording, calls>> /\ up' = up \ {c}
        /\ capture'[c] = None /\ inbox'[c] = <<>>
        /\ \A d \in AgentConns \ {c} : capture'[d] = capture[d] /\ inbox'[d] = inbox[d]
    BY <1>6 DEF AgentDrops, hubVars, ServerTypeOK, SocketTypeOK, InboxTypeOK
  <2>2. agent \in up' => capture'[agent] = capture[agent] /\ inbox'[agent] = inbox[agent]
    BY <2>1, NoneIsNoRate, ThreadsAssumption DEF ServerTypeOK, HubTypeOK, Sockets
  <2> QED BY <1>c, <2>1, <2>2
<1>7. ASSUME NEW c \in AgentConns, SendFrame(c) PROVE DemandInv'
  BY <1>7, <1>c DEF SendFrame, hubVars
<1>8. ASSUME NEW v \in Viewers, ViewerLeaves(v) PROVE DemandInv'
  BY <1>8, <1>c DEF ViewerLeaves, hubVars, socketVars
<1>9. CASE UNCHANGED vars
  BY <1>9, <1>c DEF vars, hubVars, socketVars
<1> QED BY <1>1, <1>2, <1>3, <1>4, <1>5, <1>6, <1>7, <1>8, <1>9, Kinds DEF OutsideStep
\* What holds in every state, of recorders and of what the agent is told, when
\* handlers run one at a time.
ServingInv == RegistrationInv /\ FedInv /\ RunsInv /\ RateInv /\ LinksInv /\ DemandInv

LEMMA ServingHold == ASSUME ~Overlap PROVE Spec => [](ServerTypeOK /\ StackInv /\ OneBusy /\ ServingInv)
<1>1. Init => ServingInv
  <2> SUFFICES ASSUME Init PROVE ServingInv
    OBVIOUS
  <2>1. /\ agent = None /\ lastReg = None /\ recording = None /\ registry = None /\ recorders = <<>>
        /\ calls = [t \in Threads |-> <<>>]
        /\ inbox = [c \in AgentConns |-> <<>>] /\ capture = [c \in AgentConns |-> None]
    BY DEF Init, HubInit, RecordingInit
  <2>2. RegistrationInv /\ FedInv
    BY <2>1 DEF RegistrationInv, RegistrationTracksNewest, FedInv
  <2>3. RunsInv /\ RateInv
    BY <2>1 DEF RunsInv, RateInv
  <2>4. LinksInv /\ DemandInv
    BY <2>1 DEF LinksInv, DemandInv
  <2> QED BY <2>2, <2>3, <2>4 DEF ServingInv
<1>2. ServerTypeOK /\ StackInv /\ OneBusy /\ ServingInv /\ [Next]_vars => ServingInv'
  BY RegistrationStep, FedStep, RunsStep, RateStep, LinksStep, DemandStep DEF ServingInv
<1> QED BY <1>1, <1>2, SerialHold, PTL DEF Spec

\* When all is quiet, the link of the registered agent is alive and empty ...
LEMMA QuietLink ==
    ASSUME ServerTypeOK, RegistrationInv, Quiescent, agent # None
    PROVE  agent \in AgentConns /\ agent \in up /\ inbox[agent] = <<>> /\ outbox[agent] = <<>>
<1>1. agent \in AgentConns /\ agent \in Sockets /\ agent \in Threads
  BY DEF ServerTypeOK, HubTypeOK, Sockets, Threads
<1>2. ~Done(agent) /\ phase[agent] # "new"
  BY DEF RegistrationInv, RegistrationTracksNewest
<1>3. calls[agent] = <<>> /\ inbox[agent] = <<>> /\ outbox[agent] = <<>>
  BY <1>1 DEF Quiescent
<1>4. phase[agent] = "open"
  BY <1>1, <1>2, <1>3 DEF Done, ServerTypeOK, SocketTypeOK
<1> QED BY <1>1, <1>3, <1>4 DEF Quiescent

\* ... and the agent has done what it was told.
LEMMA QuietAgent ==
    ASSUME ServerTypeOK, RegistrationInv, DemandInv, Quiescent, agent # None
    PROVE  agent \in AgentConns /\ capture[agent] = Wanted(viewers, recording)
<1>1. agent \in AgentConns /\ agent \in up /\ inbox[agent] = <<>>
  BY QuietLink
<1>2. Settles(<<>>, capture[agent], Wanted(viewers, recording))
  BY <1>1 DEF DemandInv, Telling, Quiescent
<1> QED BY <1>1, <1>2, SettlesNone

\* When handlers run one at a time, a connected agent captures for a registered
\* recorder at the recorder's rate and sends it every frame, once messages have
\* been read and all handlers are idle.
THEOREM RecorderAndCaptureAgree == ASSUME ~Overlap PROVE Spec => []RatesAgree
<1>1. ServerTypeOK /\ ServingInv => RatesAgree
  <2> SUFFICES ASSUME ServerTypeOK, ServingInv, Quiescent, registry # None, agent # None
               PROVE  /\ recording = recorders[registry].fps
                      /\ capture[agent] = [fps |-> recorders[registry].fps, allowSkip |-> FALSE]
    BY DEF RatesAgree
  <2>1. recording # None
    BY DEF ServingInv, FedInv, Settling, Quiescent
  <2>2. recording = recorders[registry].fps
    BY <2>1 DEF ServingInv, RateInv
  <2>3. capture[agent] = Ordered(StartMessage(recording))
    BY <2>1, QuietAgent DEF ServingInv, Wanted, ShouldCapture
  <2>4. Ordered(StartMessage(recording)) = [fps |-> recording, allowSkip |-> FALSE]
    BY <2>1 DEF Ordered, StartMessage
  <2> QED BY <2>2, <2>3, <2>4
<1> QED BY <1>1, ServingHold, PTL
-----------------------------------------------------------------------------
(* One streamer.                                                             *)

\* The registered agent's stays the only link, or that of its successor.
LEMMA OneLinkStep ==
    ASSUME ~Overlap, \A s1, s2 \in Sessions : s1 = s2,
           ServerTypeOK, StackInv, OneLinkInv, [Next]_vars
    PROVE  OneLinkInv'
<1>a. AgentConns \subseteq Threads /\ AgentConns \subseteq Sockets /\ AgentConns \cap Viewers = {}
      /\ Admins \subseteq Threads
  BY ThreadsAssumption DEF Threads, Sockets
<1>b. ASSUME NEW t \in Threads, \A u \in Threads \ {t} : calls'[u] = <<>>,
             calls'[t] # <<>> => Top(t)'.op # "register_agent",
             \A c \in AgentConns : c \in up' => c = agent',
             \A c \in AgentConns : phase'[c] # "new" => owner'[c] \in Sessions
      PROVE  OneLinkInv'
  BY <1>a, <1>b DEF OneLinkInv
<1>c. ASSUME NEW t \in Threads, \A u \in Threads \ {t} : calls[u] = <<>>,
             calls[t] # <<>> => Top(t).op # "register_agent"
      PROVE  \A c \in AgentConns : c \in up => c = agent
  BY <1>a, <1>c DEF OneLinkInv
<1>d. \A c \in AgentConns : phase[c] # "new" => owner[c] \in Sessions
  BY DEF OneLinkInv
<1>1. ASSUME NEW t \in Threads,
             \/ HubStep(t) /\ UNCHANGED <<recordingVars, socketVars>>
             \/ RecordingStep(t) /\ UNCHANGED socketVars
      PROVE  OneLinkInv'
  <2>a. /\ calls[t] # <<>> /\ Fits(Top(t).op, Rest(t))
        /\ \A u \in Threads \ {t} : calls[u] = <<>> /\ calls'[u] = <<>>
        /\ Moves(t) /\ DOMAIN recorders \subseteq DOMAIN recorders'
        /\ UNCHANGED <<up, phase, owner>>
    BY <1>1, SerialThread
  <2>b. calls'[t] # <<>> => Top(t)'.op # "register_agent"
    BY <2>a, NextTop DEF Follows
  <2>1. CASE register_agent(t)
    <3>1. Top(t).op = "register_agent" /\ agent' = t
      BY <2>1 DEF register_agent, Calling, Top
    <3>2. \A c \in AgentConns \ {t} : c \notin up
      BY <2>a, <3>1 DEF OneLinkInv
    <3> QED BY <1>b, <1>d, <2>a, <2>b, <3>1, <3>2
  <2>2. CASE unregister_agent(t)
    <3>1. Top(t).op = "unregister_agent" /\ (agent' = agent \/ agent = t)
      BY <2>2 DEF unregister_agent, Calling, Top, EndsRegistration
    <3>2. t \notin up
      BY <1>a, <2>a, <3>1 DEF StackInv, StacksInPhase, SocketsInPhase
    <3>3. \A c \in AgentConns : c \in up => c = agent
      BY <1>c, <2>a, <3>1
    <3> QED BY <1>b, <1>d, <2>a, <2>b, <3>1, <3>2, <3>3
  <2>3. CASE ~register_agent(t) /\ ~unregister_agent(t)
    <3>1. Top(t).op # "register_agent" /\ agent' = agent
      BY <1>1, <2>3 DEF HubStep, on_agent_frame, fan_out, on_agent_monitors,
         register_viewer, drop_viewer, set_monitor, start_recording, stop_recording,
         tell_agent_start, send_text, RecordingStep, connected_check, connected_resolve,
         connected_rate, manager_start, recorder_start, manager_forget, disconnected_check,
         manager_stop, recorder_stop, refresh_online, refresh_resolve, refresh_decide,
         hubVars, Calling, Top
    <3> QED BY <1>b, <1>c, <1>d, <2>a, <2>b, <3>1
  <2> QED BY <2>1, <2>2, <2>3
<1>2. ASSUME NEW t \in Threads, SocketStep(t) PROVE OneLinkInv'
  <2>a. /\ calls[t] = <<>> /\ \A u \in Threads \ {t} : calls[u] = <<>> /\ calls'[u] = <<>>
        /\ agent' = agent
    BY <1>2, SerialSocket DEF hubVars
  <2>b. \A c \in AgentConns : c \in up => c = agent
    BY <1>c, <2>a
  <2>1. ASSUME t \in AgentConns, NEW s \in Sessions, AgentConnect(t, s) PROVE OneLinkInv'
    <3>1. /\ up' = up \cup {t} /\ phase' = [phase EXCEPT ![t] = "open"]
          /\ owner' = [owner EXCEPT ![t] = s]
          /\ \A d \in AgentConns : owner[d] = s => d \notin up
      BY <2>1 DEF AgentConnect
    <3>2. \A d \in AgentConns : d \notin up
      BY <1>a, <1>d, <3>1 DEF StackInv, SocketsInPhase
    <3>3. \A c \in AgentConns : c \in up' => c = t
      BY <3>1, <3>2
    <3>4. \A c \in AgentConns : phase'[c] # "new" => owner'[c] \in Sessions
      BY <1>a, <1>d, <3>1 DEF ServerTypeOK, SocketTypeOK
    <3>5. calls'[t] # <<>> /\ Top(t)'.op = "register_agent"
      <4>1. calls' = [calls EXCEPT ![t] = <<Call("register_agent")>>]
        BY <2>1 DEF AgentConnect
      <4>2. calls'[t] = <<Call("register_agent")>>
        BY <4>1 DEF ServerTypeOK, StacksTypeOK
      <4> QED BY <4>2, FirstCalls DEF Top
    <3>6. \A u \in Threads : calls'[u] # <<>> => u = t
      BY <2>a
    <3> QED BY <3>3, <3>4, <3>5, <3>6 DEF OneLinkInv
  <2>2. CASE ~(t \in AgentConns /\ \E s \in Sessions : AgentConnect(t, s))
    <3>1. Top(t)'.op # "register_agent"
      BY <1>2, <2>2, SerialSocket
    <3>2. \A c \in AgentConns : c \in up' => c \in up
      BY <1>2, <1>a, <2>2 DEF SocketStep, AgentSocketReceive, AgentSocketClose, ViewerConnect,
         ViewerSetMonitor, ViewerSocketClose
    <3>3. owner' = owner
      BY <1>2, <2>2 DEF SocketStep, AgentSocketReceive, AgentSocketClose, ViewerConnect,
         ViewerSetMonitor, ViewerSocketClose
    <3>4. \A c \in AgentConns : phase'[c] # "new" => phase[c] # "new"
      BY <1>2, <1>a, <2>2 DEF SocketStep, AgentSocketReceive, AgentSocketClose, ViewerConnect,
         ViewerSetMonitor, ViewerSocketClose, ServerTypeOK, SocketTypeOK
    <3> QED BY <1>b, <1>d, <2>a, <2>b, <3>1, <3>2, <3>3, <3>4
  <2> QED BY <2>1, <2>2
<1>3. ASSUME NEW t \in Admins, AdminRequest(t), UNCHANGED socketVars PROVE OneLinkInv'
  <2>1. /\ t \in Threads /\ calls[t] = <<>> /\ UNCHANGED <<agent, up, phase, owner>>
        /\ \A u \in Threads \ {t} : calls[u] = <<>> /\ calls'[u] = <<>>
        /\ calls'[t] # <<>> => Top(t)'.op = "refresh_endpoint"
    BY <1>3, SerialAdmin DEF hubVars, socketVars
  <2> QED BY <1>b, <1>c, <1>d, <2>1
<1>4. ASSUME UNCHANGED <<agent, calls, phase, owner>>, \A c \in AgentConns : c \in up' => c \in up
      PROVE  OneLinkInv'
  BY <1>4 DEF OneLinkInv, Top
<1>5. CASE OutsideStep \/ UNCHANGED vars
  BY <1>4, <1>5 DEF OutsideStep, HandleControl, SendFrame, AgentDrops, ViewerLeaves, vars,
     hubVars, socketVars
<1> QED BY <1>1, <1>2, <1>3, <1>5, Kinds

\* One handler at a time and one interactive session: the agent captures exactly
\* when somebody watches or a recorder runs, and no connection of it captures
\* otherwise, once messages have been read and all handlers are idle.
THEOREM CaptureOnlyOnDemand ==
    ASSUME ~Overlap, \A s1, s2 \in Sessions : s1 = s2
    PROVE  Spec => []CaptureMatchesDemand
<1>1. Init => OneLinkInv
  <2>1. Init => /\ calls = [t \in Threads |-> <<>>] /\ up = {}
                /\ phase = [s \in Sockets |-> "new"]
    BY DEF Init, HubInit
  <2> QED BY <2>1 DEF OneLinkInv, Sockets
<1>2. ServerTypeOK /\ StackInv /\ OneLinkInv /\ [Next]_vars => OneLinkInv'
  BY OneLinkStep
<1>3. ServerTypeOK /\ ServingInv /\ OneLinkInv => CaptureMatchesDemand
  <2> SUFFICES ASSUME ServerTypeOK, ServingInv, OneLinkInv, Quiescent
               PROVE  /\ agent # None /\ ShouldCapture(viewers, recording) => capture[agent] # None
                      /\ ~ShouldCapture(viewers, recording) => \A c \in AgentConns : capture[c] = None
    BY DEF CaptureMatchesDemand
  <2>1. ASSUME agent # None, ShouldCapture(viewers, recording) PROVE capture[agent] # None
    <3>1. capture[agent] = Ordered(StartMessage(recording))
      BY <2>1, QuietAgent DEF ServingInv, Wanted
    <3>2. recording # None => recording \in Nat
      BY RatesAssumption DEF ServerTypeOK, HubTypeOK, Rates
    <3>3. Ordered(StartMessage(recording)) \in [fps: Nat, allowSkip: BOOLEAN]
      BY <3>2, LiveFpsAssumption DEF Ordered, StartMessage
    <3> QED BY <3>1, <3>3, NoneIsNoCapture
  <2>2. ASSUME ~ShouldCapture(viewers, recording), NEW c \in AgentConns PROVE capture[c] = None
    <3>1. CASE c \notin up
      BY <3>1 DEF ServingInv, LinksInv
    <3>2. CASE c \in up
      <4>1. calls[c] = <<>>
        BY DEF Quiescent, Threads
      <4>2. c = agent
        BY <3>2, <4>1 DEF OneLinkInv
      <4>3. agent # None
        BY <4>2, ThreadsAssumption
      <4> QED BY <2>2, <4>2, <4>3, QuietAgent DEF ServingInv, Wanted
    <3> QED BY <3>1, <3>2
  <2> QED BY <2>1, <2>2
<1> QED BY <1>1, <1>2, <1>3, ServingHold, PTL DEF Spec
-----------------------------------------------------------------------------
(* One streamer whose drops the server notices before it is back.            *)

\* The one handler of an agent stays the only one.
LEMMA AloneStep ==
    ASSUME ~LateDetection, \A s1, s2 \in Sessions : s1 = s2,
           ServerTypeOK, StackInv, AloneInv, [Next]_vars
    PROVE  AloneInv'
<1>a. AgentConns \subseteq Threads /\ AgentConns \subseteq Sockets /\ AgentConns \cap Viewers = {}
      /\ Admins \subseteq Threads /\ AgentConns \cap Admins = {}
  BY ThreadsAssumption DEF Threads, Sockets
<1>b. \A c \in AgentConns : phase[c] # "new" => owner[c] \in Sessions
  BY DEF AloneInv
<1>c. ASSUME NEW t \in Threads, \A u \in Threads \ {t} : calls'[u] = calls[u],
             calls[t] # <<>> => Top(t).op # "register_agent",
             \A c \in AgentConns : Handled(c)' => Handled(c),
             \A c \in AgentConns : phase'[c] # "new" => owner'[c] \in Sessions,
             agent' = agent
      PROVE  AloneInv'
  <2>1. \A c \in AgentConns : Handled(c) =>
          c = agent \/ (c # t /\ calls[c] # <<>> /\ Top(c).op = "register_agent")
    BY <1>c DEF AloneInv
  <2>2. \A c \in AgentConns : Handled(c)' =>
          c = agent' \/ (calls'[c] # <<>> /\ Top(c)'.op = "register_agent")
    BY <1>a, <1>c, <2>1 DEF Top
  <2>3. \A c, d \in AgentConns : Handled(c) /\ Handled(d) => c = d
    BY DEF AloneInv
  <2> QED BY <1>c, <2>2, <2>3 DEF AloneInv
<1>d. ASSUME \A c \in AgentConns : Handled(c)' => Handled(c),
             \A c \in AgentConns : Handled(c)' => c = agent',
             \A c \in AgentConns : phase'[c] # "new" => owner'[c] \in Sessions
      PROVE  AloneInv'
  BY <1>d DEF AloneInv
<1>1. ASSUME NEW t \in Threads,
             \/ HubStep(t) /\ UNCHANGED <<recordingVars, socketVars>>
             \/ RecordingStep(t) /\ UNCHANGED socketVars
      PROVE  AloneInv'
  <2>a. /\ calls[t] # <<>> /\ Fits(Top(t).op, Rest(t))
        /\ \A u \in Threads \ {t} : calls'[u] = calls[u]
        /\ UNCHANGED <<phase, owner>>
    BY <1>1, ThreadActs
  <2>b. \A c \in AgentConns : Handled(c)' => Handled(c)
    BY <1>a, <2>a DEF Handled, Done
  <2>1. CASE register_agent(t)
    <3>1. Top(t).op = "register_agent" /\ agent' = t
      BY <2>1 DEF register_agent, Calling, Top
    <3>2. t \in AgentConns /\ Handled(t)
      BY <2>a, <3>1 DEF StackInv, StacksInPhase, Handled, Done
    <3>3. \A c \in AgentConns : Handled(c) => c = t
      BY <3>2 DEF AloneInv
    <3> QED BY <1>b, <1>d, <2>a, <2>b, <3>1, <3>3
  <2>2. CASE unregister_agent(t)
    <3>1. Top(t).op = "unregister_agent" /\ Return(t, <<>>)
      BY <2>2 DEF unregister_agent, Calling, Top
    <3>2. t \in AgentConns /\ phase[t] = "closing"
      BY <2>a, <3>1 DEF StackInv, StacksInPhase
    <3>3. Handled(t)
      BY <2>a, <3>2 DEF Handled, Done
    <3>4. \A c \in AgentConns : Handled(c) => c = t
      BY <3>2, <3>3 DEF AloneInv
    <3>5. calls'[t] = <<>>
      <4>1. calls'[t] = Rest(t)
        BY <2>a, <3>1, ReturnNone DEF ServerTypeOK
      <4>2. Rest(t) = <<>>
        BY <2>a, <3>1 DEF Fits
      <4> QED BY <4>1, <4>2
    <3>6. ~Handled(t)'
      BY <2>a, <3>2, <3>5 DEF Handled, Done
    <3> QED BY <1>b, <1>d, <2>a, <2>b, <3>4, <3>6
  <2>3. CASE ~register_agent(t) /\ ~unregister_agent(t)
    <3>1. Top(t).op # "register_agent" /\ agent' = agent
      BY <1>1, <2>3 DEF HubStep, on_agent_frame, fan_out, on_agent_monitors,
         register_viewer, drop_viewer, set_monitor, start_recording, stop_recording,
         tell_agent_start, send_text, RecordingStep, connected_check, connected_resolve,
         connected_rate, manager_start, recorder_start, manager_forget, disconnected_check,
         manager_stop, recorder_stop, refresh_online, refresh_resolve, refresh_decide,
         hubVars, Calling, Top
    <3> QED BY <1>b, <1>c, <2>a, <2>b, <3>1
  <2> QED BY <2>1, <2>2, <2>3
<1>2. ASSUME NEW t \in Threads, SocketStep(t) PROVE AloneInv'
  <2>a. /\ calls[t] = <<>> /\ \A u \in Threads \ {t} : calls'[u] = calls[u]
        /\ agent' = agent
    BY <1>2, SocketBegins DEF hubVars
  <2>1. ASSUME t \in AgentConns, NEW s \in Sessions, AgentConnect(t, s) PROVE AloneInv'
    <3>1. /\ phase' = [phase EXCEPT ![t] = "open"] /\ owner' = [owner EXCEPT ![t] = s]
          /\ \A d \in AgentConns : owner[d] = s => Done(d)
      BY <2>1 DEF AgentConnect
    <3>2. \A d \in AgentConns : ~Handled(d)
      BY <1>b, <3>1 DEF Handled
    <3>3. ASSUME NEW c \in AgentConns, Handled(c)' PROVE c = t
      <4>1. c # t => (Handled(c)' <=> Handled(c))
        BY <1>a, <2>a, <3>1 DEF Handled, Done, ServerTypeOK, SocketTypeOK
      <4> QED BY <3>2, <3>3, <4>1
    <3>4. \A c \in AgentConns : phase'[c] # "new" => owner'[c] \in Sessions
      BY <1>a, <1>b, <3>1 DEF ServerTypeOK, SocketTypeOK
    <3>5. calls'[t] # <<>> /\ Top(t)'.op = "register_agent"
      <4>1. calls' = [calls EXCEPT ![t] = <<Call("register_agent")>>]
        BY <2>1 DEF AgentConnect
      <4>2. calls'[t] = <<Call("register_agent")>>
        BY <4>1 DEF ServerTypeOK, StacksTypeOK
      <4> QED BY <4>2, FirstCalls DEF Top
    <3> QED BY <3>3, <3>4, <3>5 DEF AloneInv
  <2>2. CASE ~(t \in AgentConns /\ \E s \in Sessions : AgentConnect(t, s))
    <3>1. owner' = owner
      BY <1>2, <2>2 DEF SocketStep, AgentSocketReceive, AgentSocketClose, ViewerConnect,
         ViewerSetMonitor, ViewerSocketClose
    <3>2. ASSUME NEW c \in AgentConns
          PROVE  phase'[c] = phase[c] \/ (c = t /\ phase[c] = "open")
      BY <1>2, <1>a, <2>2 DEF SocketStep, AgentSocketReceive, AgentSocketClose, ViewerConnect,
         ViewerSetMonitor, ViewerSocketClose, ServerTypeOK, SocketTypeOK
    <3>3. ASSUME NEW c \in AgentConns, Handled(c)' PROVE Handled(c)
      <4>1. CASE c = t
        <5>1. phase[c] = "open"
          BY <1>2, <1>a, <2>2, <4>1 DEF SocketStep, AgentSocketReceive, AgentSocketClose
        <5> QED BY <5>1 DEF Handled, Done
      <4>2. CASE c # t
        BY <1>a, <2>a, <3>2, <3>3, <4>2 DEF Handled, Done
      <4> QED BY <4>1, <4>2
    <3>4. \A c \in AgentConns : phase'[c] # "new" => phase[c] # "new"
      BY <3>2
    <3> QED BY <1>b, <1>c, <2>a, <3>1, <3>3, <3>4
  <2> QED BY <2>1, <2>2
<1>3. ASSUME NEW t \in Admins, AdminRequest(t), UNCHANGED socketVars PROVE AloneInv'
  <2>1. /\ t \in Threads /\ calls[t] = <<>> /\ UNCHANGED <<agent, phase, owner>>
        /\ \A u \in Threads \ {t} : calls'[u] = calls[u]
    BY <1>3, AdminBegins DEF hubVars, socketVars
  <2>2. \A c \in AgentConns : c # t
    BY <1>a
  <2>3. \A c \in AgentConns : Handled(c)' => Handled(c)
    BY <1>a, <2>1, <2>2 DEF Handled, Done
  <2> QED BY <1>b, <1>c, <2>1, <2>3
<1>4. ASSUME UNCHANGED <<agent, calls, phase, owner>> PROVE AloneInv'
  BY <1>4 DEF AloneInv, Handled, Done, Top
<1>5. CASE OutsideStep \/ UNCHANGED vars
  BY <1>4, <1>5 DEF OutsideStep, HandleControl, SendFrame, AgentDrops, ViewerLeaves, vars,
     hubVars, socketVars
<1> QED BY <1>1, <1>2, <1>3, <1>5, Kinds
\* A thread that is letting the recorder go has been doing so, or has decided to.
LEMMA LettingGoMoves ==
    ASSUME ServerTypeOK, StackInv, NEW t \in Threads, Moves(t),
           DOMAIN recorders \subseteq DOMAIN recorders', LettingGo(t)'
    PROVE  LettingGo(t) \/ Top(t).op = "refresh_decide"
<1>1. /\ calls[t] # <<>> /\ calls'[t] # <<>>
      /\ Top(t)'.op \in {"on_agent_disconnected", "manager_stop"} \/ Rest(t)' \in {Stopping, StoppingLeaving}
  BY DEF LettingGo, Moves, Stopping, StoppingLeaving
<1> QED BY <1>1, NextTop, RestsDiffer DEF Follows, LettingGo

\* Whether a policy covers the endpoint depends on the policies and the group.
LEMMA CoveredSame == ASSUME UNCHANGED <<policies, member>> PROVE Covered' = Covered
<1>1. \A tt \in TargetTypes : Covers(tt)' <=> Covers(tt)
  BY DEF Covers
<1>2. resolve_policy' = resolve_policy
  BY <1>1 DEF resolve_policy, TargetTypes
<1> QED BY <1>2 DEF Covered

\* No step of a handler changes the policies or the group.
LEMMA HandlersKeepPolicies ==
    ASSUME NEW t, \/ HubStep(t) /\ UNCHANGED <<recordingVars, socketVars>>
                  \/ RecordingStep(t) /\ UNCHANGED socketVars
    PROVE  Covered' = Covered
BY CoveredSame DEF recordingVars, RecordingStep, connected_check, connected_resolve,
   connected_rate, manager_start, recorder_start, manager_forget, disconnected_check,
   manager_stop, recorder_stop, refresh_online, refresh_resolve, refresh_decide

\* A policy change that visits nobody changes nothing for the endpoint.
LEMMA UnvisitedIsUnaffected ==
    ASSUME ~Regroup, ServerTypeOK, NEW t \in Admins, AdminRequest(t), calls'[t] = <<>>
    PROVE  Covered' = Covered
<1>1. t \in Threads
  BY DEF Threads
<1>2. PICK tt, row : tt \in TargetTypes /\ ChangePolicy(t, tt, row)
  BY DEF AdminRequest, create_policy, update_policy, delete_policy, set_group_members
<1>3. <<Call("refresh_endpoint")>> # <<>>
  BY FirstCalls
<1>4. tt = "GROUP" /\ ~member
  BY <1>1, <1>2, <1>3 DEF ChangePolicy, ServerTypeOK, StacksTypeOK, TargetTypes
<1>5. policies' = [policies EXCEPT !["GROUP"] = row] /\ member' = member
  BY <1>2, <1>4 DEF ChangePolicy
<1>6. policies'["ENDPOINT"] = policies["ENDPOINT"]
  BY <1>5 DEF ServerTypeOK, RecordingTypeOK, TargetTypes
<1>7. /\ Covers("ENDPOINT")' <=> Covers("ENDPOINT")
      /\ ~Covers("GROUP") /\ ~Covers("GROUP")'
  BY <1>4, <1>5, <1>6 DEF Covers
<1>8. resolve_policy' = resolve_policy
  BY <1>6, <1>7 DEF resolve_policy
<1> QED BY <1>8 DEF Covered
\* A closing connection is not connected; if it is being handled there is no other
\* agent.
LEMMA LetGoWarranted ==
    ASSUME ServerTypeOK, StackInv, RegistrationInv, AloneInv, NEW t \in Threads,
           LettingGo(t), Warranted(t)
    PROVE  ~(Covered /\ agent # None /\ agent \in up)
<1>1. CASE t \in Admins /\ ~Covered
  BY <1>1
<1>2. CASE t \in AgentConns /\ phase[t] = "closing"
  <2>1. t \notin up /\ Handled(t)
    BY <1>2 DEF StackInv, SocketsInPhase, Sockets, Handled, Done, LettingGo
  <2>2. agent # None => agent \in AgentConns /\ Handled(agent)
    BY DEF ServerTypeOK, HubTypeOK, RegistrationInv, RegistrationTracksNewest, Handled
  <2> QED BY <1>2, <2>1, <2>2 DEF AloneInv
<1> QED BY <1>1, <1>2 DEF Warranted, LettingGo

\* Handlers run one at a time, or there is one administrator.
OneAdminAtATime == ~Overlap \/ \A a, b \in Admins : a = b

\* When policies change no other administrator's request is under way.
LEMMA AdminsWait ==
    ASSUME OneAdminAtATime, ServerTypeOK, NEW t \in Admins, AdminRequest(t), UNCHANGED socketVars,
           NEW u \in Admins
    PROVE  calls[u] = <<>>
<1>1. t \in Threads /\ u \in Threads /\ calls[t] = <<>> /\ MayRun(t)
  BY AdminBegins DEF Threads
<1> QED BY <1>1 DEF MayRun, OneAdminAtATime

\* A thread keeps its reasons while others move.
LEMMA StillWarranted ==
    ASSUME StackInv, NEW u \in Threads, Warranted(u), calls'[u] = calls[u],
           failures # 0 => failures' # 0,
           u \in Admins /\ calls[u] # <<>> => Covered' = Covered,
           u \in Sockets => phase'[u] = phase[u],
           u \in AgentConns /\ u \in up' => u \in up /\ (Announced(u) => Announced(u)')
    PROVE  Warranted(u)'
<1> SUFFICES ASSUME calls[u] # <<>> PROVE Warranted(u)'
  BY DEF Warranted
<1>1. Top(u)' = Top(u) /\ (LettingGo(u)' <=> LettingGo(u))
  BY DEF Top, Rest, LettingGo, Stopping, StoppingLeaving
<1>2. Top(u).op = "register_agent" => u \in AgentConns
  BY DEF StackInv, StacksInPhase
<1> QED BY <1>1, <1>2 DEF Warranted, Sockets

\* Every step keeps a recorder with the agent of a covered endpoint, or somebody
\* looking for one.
LEMMA PresentStep ==
    ASSUME OneAdminAtATime, ~Regroup, ServerTypeOK, StackInv, RegistrationInv, AloneInv, PresentInv,
           [Next]_vars
    PROVE  PresentInv'
<1>a. AgentConns \subseteq Threads /\ AgentConns \subseteq Sockets /\ AgentConns \cap Viewers = {}
      /\ None \notin AgentConns
  BY ThreadsAssumption DEF Threads, Sockets
<1>b. agent \in AgentConns \cup {None}
  BY DEF ServerTypeOK, HubTypeOK
<1>c. ASSUME NEW t \in Threads, \A u \in Threads \ {t} : calls'[u] = calls[u],
             \A u \in Threads \ {t} : Warranted(u)',
             calls'[t] # <<>> => Warranted(t)',
             Unrecorded' => Announced(agent)' \/ Seeking(t)' \/ \E u \in Threads \ {t} : Seeking(u)
      PROVE  PresentInv'
  <2>1. \A u \in Threads \ {t} : Seeking(u)' <=> Seeking(u)
    BY <1>c DEF Seeking, Top
  <2>2. calls'[t] = <<>> => Warranted(t)'
    BY DEF Warranted
  <2> QED BY <1>c, <2>1, <2>2 DEF PresentInv
<1>1. ASSUME NEW t \in Threads,
             \/ HubStep(t) /\ UNCHANGED <<recordingVars, socketVars>>
             \/ RecordingStep(t) /\ UNCHANGED socketVars
      PROVE  PresentInv'
  <2>a. /\ calls[t] # <<>> /\ Top(t) \in Calls /\ Fits(Top(t).op, Rest(t))
        /\ \A u \in Threads \ {t} : calls'[u] = calls[u]
        /\ Moves(t) /\ DOMAIN recorders \subseteq DOMAIN recorders'
        /\ UNCHANGED <<up, outbox, phase>> /\ Warranted(t)
    BY <1>1, ThreadActs DEF PresentInv
  <2>b. Covered' = Covered
    BY <1>1, HandlersKeepPolicies
  <2>c. calls'[t] # <<>> => Top(t)'.op # "register_agent"
    BY <2>a, NextTop DEF Follows
  <2>d. calls'[t] # <<>> /\ Top(t)'.op = "manager_forget" => Top(t).op = "recorder_start"
    BY <2>a, NextTop DEF Follows
  <2>e. calls'[t] # <<>> /\ Top(t)'.op = "refresh_decide" => Top(t).op = "refresh_resolve"
    BY <2>a, NextTop DEF Follows
  <2>f. calls'[t] # <<>> /\ LettingGo(t)' => LettingGo(t) \/ Top(t).op = "refresh_decide"
    BY <2>a, LettingGoMoves
  <2>g. calls'[t] # <<>> /\ Top(t)'.op \in {"refresh_endpoint", "refresh_resolve"} =>
          Top(t).op = "refresh_endpoint"
    BY <2>a, NextTop DEF Follows
  <2>h. Unrecorded => Announced(agent) \/ Seeking(t) \/ \E u \in Threads \ {t} : Seeking(u)
    BY DEF PresentInv
  <2>i. agent' = agent => (Announced(agent)' <=> Announced(agent))
    BY <2>a DEF Announced
  \* What the thread is about to do next has its reason, if it did not have to
  \* find that out.
  <2>w. ASSUME calls'[t] # <<>>,
               Top(t).op \notin {"refresh_resolve", "recorder_start", "refresh_decide"}
        PROVE  Warranted(t)'
    BY <2>a, <2>b, <2>c, <2>d, <2>e, <2>f, <2>g, <2>w DEF Warranted
  \* The others have theirs.
  <2>v. failures # 0 => failures' # 0
    <3>1. failures \in Nat /\ failures' \in {failures, failures + 1}
      BY <1>1 DEF RecordingStep, connected_check, connected_resolve, connected_rate,
         manager_start, recorder_start, manager_forget, disconnected_check, manager_stop,
         recorder_stop, refresh_online, refresh_resolve, refresh_decide, recordingVars,
         ServerTypeOK, RecordingTypeOK
    <3> QED BY <3>1
  <2>u. \A u \in Threads \ {t} : Warranted(u)'
    <3>1. ASSUME NEW u \in Threads \ {t} PROVE Warranted(u)'
      <4>1. Announced(u)' <=> Announced(u)
        BY <2>a DEF Announced
      <4> QED BY <2>a, <2>b, <2>v, <4>1, StillWarranted DEF PresentInv
    <3> QED BY <3>1
  <2>x. failures' = 0 => failures = 0
    BY <2>v
  \* A step that leaves agent and registry alone.
  <2>j. ASSUME UNCHANGED <<agent, registry>>,
               Top(t).op \notin {"refresh_resolve", "recorder_start", "refresh_decide"},
               Seeking(t) /\ Covered /\ agent # None /\ registry = None => Seeking(t)'
        PROVE  PresentInv'
    <3>1. Unrecorded' => Unrecorded
      BY <2>a, <2>b, <2>j, <2>x DEF Unrecorded
    <3> QED BY <1>c, <2>a, <2>h, <2>i, <2>j, <2>u, <2>w, <3>1 DEF Unrecorded
  <2>k. Calls \subseteq Calls'
    BY <2>a DEF Calls, RecorderCalls, PlainCalls, SendCalls, FanOutCalls, DropCalls,
       MonitorsCalls, SetMonitorCalls, RateCalls, DecideCalls
  <2>l. ASSUME NEW x \in Calls, Return(t, <<x>>),
               x.op \in {"on_agent_connected", "connected_resolve", "connected_rate",
                         "manager_start", "refresh_resolve"}
        PROVE  Seeking(t)'
    <3>1. calls'[t] # <<>> /\ Top(t)' = x
      BY <2>a, <2>k, <2>l, Pushed
    <3> QED BY <2>l, <3>1 DEF Seeking
  <2>1. CASE register_agent(t)
    <3>1. Top(t).op = "register_agent" /\ agent' = t
      BY <2>1 DEF register_agent, Calling, Top
    <3>2. t \in up => Announced(t)
      BY <2>a, <3>1 DEF Warranted
    <3>3. agent' \in up' => Announced(agent)'
      BY <2>a, <3>1, <3>2 DEF Announced
    <3> QED BY <1>c, <2>a, <2>u, <2>w, <3>1, <3>3 DEF Unrecorded
  <2>2. CASE unregister_agent(t)
    <3>1. Top(t).op = "unregister_agent" /\ agent' \in {agent, None} /\ ~Seeking(t)
          /\ registry' = registry
      BY <1>1, <2>2 DEF unregister_agent, Calling, Top, Seeking, RecordingStep, connected_check,
         connected_resolve, connected_rate, manager_start, recorder_start, manager_forget,
         disconnected_check, manager_stop, recorder_stop, refresh_online, refresh_resolve,
         refresh_decide, recordingVars
    <3>2. CASE agent' = agent
      BY <2>j, <3>1, <3>2
    <3>3. CASE agent' = None
      BY <1>c, <2>a, <2>u, <2>w, <3>1, <3>3 DEF Unrecorded
    <3> QED BY <3>1, <3>2, <3>3
  <2>3. CASE on_agent_monitors(t)
    <3>1. Top(t).op = "on_agent_monitors" /\ agent' = agent /\ Return(t, <<>>)
      BY <2>3 DEF on_agent_monitors, Calling, Top
    <3>2. calls'[t] = Rest(t) /\ Rest(t) = Connecting
      BY <2>a, <3>1, ReturnNone DEF ServerTypeOK, Fits
    <3>3. Seeking(t)'
      BY <3>2, RestFacts DEF Seeking, Top
    <3>4. UNCHANGED <<registry, failures>>
      BY <1>1, <3>1 DEF RecordingStep, connected_check, connected_resolve, connected_rate,
         manager_start, recorder_start, manager_forget, disconnected_check, manager_stop,
         recorder_stop, refresh_online, refresh_resolve, refresh_decide, recordingVars,
         Calling, Top
    <3> QED BY <2>j, <3>1, <3>3, <3>4
  <2>4. CASE \/ on_agent_frame(t) \/ fan_out(t) \/ register_viewer(t) \/ drop_viewer(t)
             \/ set_monitor(t) \/ start_recording(t) \/ stop_recording(t) \/ tell_agent_start(t)
             \/ send_text(t)
    <3>1. /\ agent' = agent /\ ~Seeking(t)
          /\ Top(t).op \notin {"refresh_resolve", "recorder_start", "refresh_decide",
                 "manager_forget", "manager_stop", "manager_start", "recorder_stop"}
      BY <2>4 DEF on_agent_frame, fan_out, register_viewer, drop_viewer, set_monitor,
         start_recording, stop_recording, tell_agent_start, send_text, hubVars, Calling, Top,
         Seeking
    <3>2. UNCHANGED <<registry, failures>>
      BY <1>1, <3>1 DEF RecordingStep, connected_check, connected_resolve, connected_rate,
         manager_start, recorder_start, manager_forget, disconnected_check, manager_stop,
         recorder_stop, refresh_online, refresh_resolve, refresh_decide, recordingVars,
         Calling, Top
    <3> QED BY <2>j, <3>1, <3>2
  <2>5. CASE connected_check(t)
    <3>1. Top(t).op = "on_agent_connected" /\ UNCHANGED <<agent, registry, failures>>
          /\ (registry = None => Return(t, <<Call("connected_resolve")>>))
      BY <2>5 DEF connected_check, Calling, Top, hubVars, recordingVars
    <3>2. registry = None => Seeking(t)'
      BY <2>l, <3>1, PlainCall
    <3> QED BY <2>j, <3>1, <3>2
  <2>6. CASE connected_resolve(t)
    <3>1. Top(t).op = "connected_resolve" /\ UNCHANGED <<agent, registry, failures>>
      BY <2>6 DEF connected_resolve, Calling, Top, hubVars, recordingVars
    <3>2. ASSUME Covered PROVE Seeking(t)'
      <4> DEFINE x == [op |-> "connected_rate", base |-> resolve_policy]
      <4>1. Return(t, <<x>>)
        BY <2>6, <3>2 DEF connected_resolve, Covered
      <4>2. x \in Calls /\ x.op = "connected_rate"
        BY <3>2, RateTypes DEF Calls, RateCalls, ServerTypeOK, Covered
      <4> QED BY <2>l, <4>1, <4>2
    <3> QED BY <2>j, <3>1, <3>2
  <2>7. CASE connected_rate(t)
    <3>1. Top(t).op = "connected_rate" /\ UNCHANGED <<agent, registry, failures>>
      BY <2>7 DEF connected_rate, Calling, Top, hubVars, recordingVars
    <3>2. Seeking(t)'
      <4> DEFINE x == [op |-> "manager_start", fps |-> effective_recording_fps(monitors, Top(t).base)]
      <4>1. Return(t, <<x>>)
        BY <2>7 DEF connected_rate, Top
      <4>2. x \in Calls /\ x.op = "manager_start"
        BY <2>a, <3>1, CallFields DEF Calls, RateCalls, effective_recording_fps, Rates
      <4> QED BY <2>l, <4>1, <4>2
    <3> QED BY <2>j, <3>1, <3>2
  <2>8. CASE manager_start(t)
    <3>1. Top(t).op = "manager_start" /\ agent' = agent
      BY <2>8 DEF manager_start, Calling, Top, hubVars
    <3>2. registry' # None
      BY <2>8, NoneIsNoRate DEF manager_start, ServerTypeOK, RecordingTypeOK
    <3> QED BY <1>c, <2>a, <2>u, <2>w, <3>1, <3>2 DEF Unrecorded
  <2>9. CASE recorder_start(t)
    <3>1. Top(t).op = "recorder_start" /\ UNCHANGED <<agent, registry>> /\ ~Seeking(t)
      BY <2>9 DEF recorder_start, Calling, Top, hubVars, Seeking
    <3>2. ~LettingGo(t)
      BY <2>a, <3>1 DEF LettingGo, Fits
    <3>3. calls'[t] # <<>> /\ Top(t)'.op = "manager_forget" => failures' # 0
      <4>1. CASE failures' = failures /\ \E f : Return(t, <<[op |-> "start_recording", fps |-> f]>>)
        <5>1. PICK f : Return(t, <<[op |-> "start_recording", fps |-> f]>>)
          BY <4>1
        <5>2. calls' = [calls EXCEPT ![t] = <<[op |-> "start_recording", fps |-> f]>> \o Rest(t)]
          BY <5>1 DEF Return, Rest
        <5>3. Rest(t) = <<>>
          BY <2>a, <3>1 DEF Fits
        <5>4. calls'[t] = <<[op |-> "start_recording", fps |-> f]>>
          BY <5>2, <5>3 DEF ServerTypeOK, StacksTypeOK
        <5>5. Top(t)' = [op |-> "start_recording", fps |-> f]
          BY <5>4, FirstCalls DEF Top
        <5> QED BY <4>1, <5>5
      <4>2. CASE failures' = failures + 1
        BY <4>2 DEF ServerTypeOK, RecordingTypeOK
      <4> QED BY <2>9, <4>1, <4>2 DEF recorder_start
    <3>4. calls'[t] # <<>> => Warranted(t)'
      BY <2>a, <2>c, <2>e, <2>f, <2>g, <3>1, <3>2, <3>3 DEF Warranted
    <3>5. Unrecorded' => Unrecorded
      BY <2>a, <2>b, <2>x, <3>1 DEF Unrecorded
    <3> QED BY <1>c, <2>a, <2>h, <2>i, <2>u, <3>1, <3>4, <3>5
  <2>10. CASE manager_forget(t)
    <3>1. Top(t).op = "manager_forget" /\ failures # 0
      BY <2>10, <2>a DEF manager_forget, Calling, Top, Warranted
    <3> QED BY <1>c, <2>a, <2>u, <2>v, <2>w, <3>1 DEF Unrecorded
  <2>11. CASE manager_stop(t)
    <3>1. Top(t).op = "manager_stop" /\ agent' = agent
      BY <2>11 DEF manager_stop, Calling, Top, hubVars
    <3>2. ~(Covered /\ agent # None /\ agent \in up)
      BY <2>a, <3>1, LetGoWarranted DEF LettingGo
    <3> QED BY <1>c, <2>a, <2>b, <2>u, <2>w, <3>1, <3>2 DEF Unrecorded
  <2>12. CASE disconnected_check(t) \/ recorder_stop(t)
    <3>1. /\ Top(t).op \in {"on_agent_disconnected", "recorder_stop"} /\ ~Seeking(t)
          /\ UNCHANGED <<agent, registry, failures>>
      BY <2>12 DEF disconnected_check, recorder_stop, Calling, Top, hubVars, recordingVars, Seeking
    <3> QED BY <2>j, <3>1
  <2>13. CASE refresh_online(t)
    <3>1. Top(t).op = "refresh_endpoint" /\ UNCHANGED <<agent, registry, failures>>
          /\ (agent # None => Return(t, <<Call("refresh_resolve")>>))
      BY <2>13 DEF refresh_online, Calling, Top, hubVars, recordingVars
    <3>2. agent # None => Seeking(t)'
      BY <2>l, <3>1, PlainCall
    <3> QED BY <2>j, <3>1, <3>2
  <2>14. CASE refresh_resolve(t)
    <3> DEFINE x == [op |-> "refresh_decide", covered |-> Covered]
    <3>1. /\ Top(t).op = "refresh_resolve" /\ UNCHANGED <<agent, registry>>
          /\ Return(t, <<x>>)
      BY <2>14 DEF refresh_resolve, Calling, Top, hubVars, recordingVars, Covered
    <3>2. x \in Calls' /\ x.op = "refresh_decide" /\ x.covered = Covered
      BY DEF Calls, DecideCalls, Covered
    <3> HIDE DEF x
    <3>3. calls'[t] # <<>> /\ Top(t)' = x
      BY <2>a, <3>1, <3>2, Pushed
    <3>4. ~LettingGo(t) /\ t \in Admins
      BY <2>a, <3>1 DEF LettingGo, Fits, Warranted
    <3>5. Covered => Seeking(t)'
      BY <3>2, <3>3 DEF Seeking
    <3>6. Warranted(t)'
      BY <2>b, <2>f, <3>1, <3>2, <3>3, <3>4 DEF Warranted
    <3> QED BY <1>c, <2>a, <2>b, <2>u, <3>5, <3>6 DEF Unrecorded
  <2>15. CASE refresh_decide(t)
    <3>1. /\ Top(t).op = "refresh_decide" /\ UNCHANGED <<agent, registry>>
          /\ Return(t, RefreshCalls(Top(t).covered))
      BY <2>15 DEF refresh_decide, Calling, Top, hubVars, recordingVars
    <3>2. Top(t).covered = Covered /\ t \in Admins
      BY <2>a, <3>1 DEF Warranted
    <3>3. CASE Covered /\ registry = None
      <4>1. Return(t, <<Call("on_agent_connected")>>)
        BY <3>1, <3>2, <3>3 DEF RefreshCalls
      <4>2. Call("on_agent_connected") \in Calls'
            /\ Call("on_agent_connected").op = "on_agent_connected"
        BY <2>k, PlainCall
      <4>3. Top(t)'.op = "on_agent_connected" /\ Rest(t)' = Rest(t)
        BY <2>a, <4>1, <4>2, Pushed
      <4>4. Rest(t) \notin {Stopping, StoppingLeaving}
        BY <2>a, <3>1 DEF Fits
      <4>5. ~LettingGo(t)'
        BY <4>3, <4>4 DEF LettingGo, Stopping, StoppingLeaving
      <4>6. Seeking(t)'
        BY <2>l, <4>1, PlainCall
      <4>7. Warranted(t)'
        BY <4>3, <4>5 DEF Warranted
      <4> QED BY <1>c, <2>a, <2>u, <4>6, <4>7
    <3>4. CASE Covered /\ registry # None
      <4>1. Return(t, <<>>)
        BY <3>1, <3>2, <3>4 DEF RefreshCalls
      <4>2. calls'[t] = <<>>
        BY <2>a, <3>1, <4>1, ReturnNone DEF ServerTypeOK, Fits
      <4> QED BY <1>c, <2>a, <2>u, <3>1, <3>4, <4>2 DEF Unrecorded
    <3>5. CASE ~Covered
      <4>1. calls'[t] # <<>> => Warranted(t)'
        BY <2>b, <2>c, <2>d, <2>e, <2>g, <3>1, <3>2, <3>5 DEF Warranted
      <4> QED BY <1>c, <2>a, <2>b, <2>u, <3>5, <4>1 DEF Unrecorded
    <3> QED BY <3>3, <3>4, <3>5
  <2> QED BY <1>1, <2>1, <2>2, <2>3, <2>4, <2>5, <2>6, <2>7, <2>8, <2>9, <2>10, <2>11, <2>12,
             <2>13, <2>14, <2>15 DEF HubStep, RecordingStep
<1>2. ASSUME NEW t \in Threads, SocketStep(t) PROVE PresentInv'
  <2>a. /\ calls[t] = <<>> /\ calls'[t] # <<>>
        /\ \A u \in Threads \ {t} : calls'[u] = calls[u]
        /\ UNCHANGED <<agent, registry, failures>> /\ Covered' = Covered
    BY <1>2, SocketBegins, CoveredSame DEF hubVars, recordingVars
  <2>b. \A u \in Threads \ {t} : Warranted(u)'
    <3>1. ASSUME NEW u \in Threads \ {t} PROVE Warranted(u)'
      <4>1. /\ u \in Sockets => phase'[u] = phase[u]
            /\ u \in AgentConns => outbox'[u] = outbox[u]
            /\ u \in up' => u \in up
        BY <1>2, <1>a DEF SocketStep, AgentConnect, AgentSocketReceive, AgentSocketClose,
           ViewerConnect, ViewerSetMonitor, ViewerSocketClose, ServerTypeOK, SocketTypeOK
      <4>2. u \in AgentConns => (Announced(u)' <=> Announced(u))
        BY <4>1 DEF Announced
      <4> QED BY <2>a, <4>1, <4>2, StillWarranted DEF PresentInv
    <3> QED BY <3>1
  <2>c. Unrecorded => Announced(agent) \/ \E u \in Threads \ {t} : Seeking(u)
    BY <2>a DEF PresentInv, Seeking
  <2>1. ASSUME t \in AgentConns, NEW s \in Sessions, AgentConnect(t, s) PROVE PresentInv'
    <3>1. /\ phase[t] = "new" /\ up' = up \cup {t}
          /\ outbox' = [outbox EXCEPT ![t] = <<"monitors">>]
          /\ calls' = [calls EXCEPT ![t] = <<Call("register_agent")>>]
      BY <2>1 DEF AgentConnect
    <3>2. t # agent
      <4>1. t # None
        BY <2>1, <1>a
      <4>2. lastReg = None \/ lastReg # t
        BY <3>1, <4>1 DEF RegistrationInv
      <4> QED BY <4>1, <4>2 DEF RegistrationInv, RegistrationTracksNewest
    <3>3. calls'[t] = <<Call("register_agent")>>
      BY <3>1 DEF ServerTypeOK, StacksTypeOK
    <3>4. Top(t)'.op = "register_agent" /\ Rest(t)' = <<>>
      BY <3>3, FirstCalls DEF Top, Rest
    <3>5. ~LettingGo(t)'
      BY <3>4, RestsDiffer DEF LettingGo, Stopping, StoppingLeaving
    <3>6. Announced(t)'
      <4>1. outbox'[t] = <<"monitors">>
        BY <2>1, <3>1 DEF ServerTypeOK, SocketTypeOK
      <4>2. 1 \in DOMAIN <<"monitors">> /\ <<"monitors">>[1] = "monitors"
        OBVIOUS
      <4> QED BY <4>1, <4>2 DEF Announced
    <3>7. agent # None /\ Announced(agent) => Announced(agent)'
      BY <1>b, <2>a, <3>1, <3>2 DEF Announced, ServerTypeOK, SocketTypeOK
    <3>8. agent # None /\ agent \in up' => agent \in up
      BY <3>1, <3>2
    <3>9. Warranted(t)'
      BY <3>4, <3>5, <3>6 DEF Warranted
    <3> QED BY <1>c, <2>a, <2>b, <2>c, <3>7, <3>8, <3>9 DEF Unrecorded
  <2>2. ASSUME t \in AgentConns, AgentSocketReceive(t) PROVE PresentInv'
    <3>1. /\ outbox[t] # <<>> /\ outbox' = [outbox EXCEPT ![t] = Tail(@)] /\ up' = up
          /\ phase[t] = "open"
      BY <2>2 DEF AgentSocketReceive
    <3>2. \/ /\ Head(outbox[t]) = "frame"
             /\ Top(t)'.op = "on_agent_frame" /\ Rest(t)' = <<>>
          \/ Top(t)'.op = "on_agent_monitors" /\ Rest(t)' = Connecting
      <4>1. phase[t] # "new" /\ calls'[t] # <<>> /\ t \notin Viewers
        BY <1>2, <1>a, <2>2, <3>1, SocketBegins
      <4>2. ~AgentSocketClose(t)
        <5>1. CASE t \in up
          BY <5>1 DEF AgentSocketClose
        <5>2. CASE outbox[t] # <<>>
          BY <5>2 DEF AgentSocketClose
        <5> QED BY <3>1, <5>2
      <4>3. \A s \in Sessions : ~AgentConnect(t, s)
        BY <4>1 DEF AgentConnect
      <4> QED BY <1>2, <4>1, <4>2, <4>3, SocketBegins
    <3>3. ~LettingGo(t)'
      BY <3>2, RestsDiffer DEF LettingGo, Stopping, StoppingLeaving
    <3>4. ASSUME agent # None, Announced(agent) PROVE Announced(agent)' \/ Seeking(t)'
      <4>1. CASE Head(outbox[t]) = "frame" /\ agent = t
        <5>1. PICK i \in DOMAIN outbox[t] : outbox[t][i] = "monitors"
          BY <3>4, <4>1 DEF Announced
        <5>2. outbox[t] \in Seq({"monitors", "frame"}) /\ outbox'[t] = Tail(outbox[t])
          BY <2>2, <3>1 DEF ServerTypeOK, SocketTypeOK
        <5>3. i # 1
          BY <4>1, <5>1, <5>2
        <5>4. i - 1 \in DOMAIN Tail(outbox[t]) /\ Tail(outbox[t])[i - 1] = outbox[t][i]
          BY <3>1, <5>1, <5>2, <5>3
        <5> QED BY <2>a, <4>1, <5>1, <5>2, <5>4 DEF Announced
      <4>2. CASE agent # t
        BY <1>b, <2>a, <3>1, <3>4, <4>2 DEF Announced, ServerTypeOK, SocketTypeOK
      <4>3. CASE Head(outbox[t]) # "frame"
        BY <2>a, <3>2, <4>3 DEF Seeking
      <4> QED BY <4>1, <4>2, <4>3
    <3>5. Warranted(t)'
      BY <3>2, <3>3 DEF Warranted
    <3> QED BY <1>c, <2>a, <2>b, <2>c, <3>1, <3>4, <3>5 DEF Unrecorded
  <2>3. ASSUME t \in AgentConns, AgentSocketClose(t) PROVE PresentInv'
    <3>1. UNCHANGED <<up, outbox>> /\ phase' = [phase EXCEPT ![t] = "closing"]
      BY <2>3 DEF AgentSocketClose
    <3>2. Top(t)'.op = "on_agent_disconnected"
      <4>1. calls' = [calls EXCEPT ![t] = <<Call("on_agent_disconnected"), Call("unregister_agent")>>]
        BY <2>3 DEF AgentSocketClose
      <4>2. calls'[t] = <<Call("on_agent_disconnected"), Call("unregister_agent")>>
        BY <4>1 DEF ServerTypeOK, StacksTypeOK
      <4> QED BY <4>2, FirstCalls DEF Top
    <3>3. phase'[t] = "closing"
      BY <1>a, <2>3, <3>1 DEF ServerTypeOK, SocketTypeOK
    <3>4. Warranted(t)'
      BY <2>3, <3>2, <3>3 DEF Warranted
    <3>5. Announced(agent)' <=> Announced(agent)
      BY <2>a, <3>1 DEF Announced
    <3> QED BY <1>c, <2>a, <2>b, <2>c, <3>1, <3>4, <3>5 DEF Unrecorded
  <2>4. ASSUME t \in Viewers, ViewerConnect(t) \/ ViewerSetMonitor(t) \/ ViewerSocketClose(t)
        PROVE  PresentInv'
    <3>1. /\ outbox' = outbox /\ up' \subseteq up \cup {t}
      BY <2>4 DEF ViewerConnect, ViewerSetMonitor, ViewerSocketClose
    <3>2. t \notin AgentConns
      BY <1>a, <2>4
    <3>3. Top(t)'.op \in {"register_viewer", "set_monitor", "drop_viewer"} /\ Rest(t)' = <<>>
      BY <1>2, <3>2, SocketBegins
    <3>4. ~LettingGo(t)'
      BY <3>3, RestsDiffer DEF LettingGo, Stopping, StoppingLeaving
    <3>5. agent # None /\ agent \in up' => agent \in up
      BY <1>b, <3>1, <3>2
    <3>6. Announced(agent)' <=> Announced(agent)
      BY <2>a, <3>1 DEF Announced
    <3>7. Warranted(t)'
      BY <3>3, <3>4 DEF Warranted
    <3> QED BY <1>c, <2>a, <2>b, <2>c, <3>5, <3>6, <3>7 DEF Unrecorded
  <2> QED BY <1>2, <2>1, <2>2, <2>3, <2>4 DEF SocketStep
<1>3. ASSUME NEW t \in Admins, AdminRequest(t), UNCHANGED socketVars PROVE PresentInv'
  <2>a. /\ t \in Threads /\ calls[t] = <<>>
        /\ \A u \in Threads \ {t} : calls'[u] = calls[u]
        /\ calls'[t] # <<>> => Top(t)'.op = "refresh_endpoint" /\ Rest(t)' = <<>>
        /\ UNCHANGED <<agent, up, registry, failures, outbox, phase>>
    BY <1>3, AdminBegins DEF hubVars, socketVars
  <2>b. \A u \in Threads \ {t} : Warranted(u)'
    <3>1. ASSUME NEW u \in Threads \ {t} PROVE Warranted(u)'
      <4>1. u \in Admins => calls[u] = <<>>
        BY <1>3, AdminsWait
      <4>2. Announced(u)' <=> Announced(u)
        BY <2>a DEF Announced
      <4> QED BY <2>a, <4>1, <4>2, StillWarranted DEF PresentInv
    <3> QED BY <3>1
  <2>1. CASE calls'[t] # <<>>
    <3>1. Seeking(t)' /\ ~LettingGo(t)'
      BY <2>a, <2>1, RestsDiffer DEF Seeking, LettingGo, Stopping, StoppingLeaving
    <3>2. Warranted(t)'
      BY <1>3, <2>a, <2>1, <3>1 DEF Warranted
    <3> QED BY <1>c, <2>a, <2>b, <3>1, <3>2
  <2>2. CASE calls'[t] = <<>>
    <3>1. Covered' = Covered
      BY <1>3, <2>2, UnvisitedIsUnaffected
    <3>2. Announced(agent)' <=> Announced(agent)
      BY <2>a DEF Announced
    <3>3. Unrecorded => Announced(agent) \/ \E u \in Threads \ {t} : Seeking(u)
      BY <2>a DEF PresentInv, Seeking
    <3> QED BY <1>c, <2>a, <2>b, <2>2, <3>1, <3>2, <3>3 DEF Unrecorded
  <2> QED BY <2>1, <2>2
<1>4. ASSUME UNCHANGED <<calls, agent, registry, failures, policies, member, phase>>,
             \A c \in AgentConns : /\ c \in up' => c \in up
                                   /\ c \in up' /\ Announced(c) => Announced(c)',
             up' \subseteq up
      PROVE  PresentInv'
  <2>1. Covered' = Covered
    BY <1>4, CoveredSame
  <2>2. \A t \in Threads : Seeking(t)' <=> Seeking(t)
    BY <1>4 DEF Top, Seeking
  <2>3. ASSUME NEW t \in Threads PROVE Warranted(t)'
    BY <1>4, <2>1, <2>3, StillWarranted DEF PresentInv
  <2>4. agent' # None /\ agent' \in up' /\ Announced(agent) => Announced(agent)'
    <3>1. Announced(agent)' <=> \E i \in DOMAIN outbox'[agent] : outbox'[agent][i] = "monitors"
      BY <1>4 DEF Announced
    <3> QED BY <1>4, <1>b, <3>1 DEF Announced
  <2> QED BY <1>4, <1>b, <2>1, <2>2, <2>3, <2>4 DEF PresentInv, Unrecorded
<1>5. ASSUME NEW c \in AgentConns, HandleControl(c) PROVE PresentInv'
  BY <1>5, <1>4 DEF HandleControl, hubVars, recordingVars, Announced
<1>6. ASSUME NEW c \in AgentConns, SendFrame(c) PROVE PresentInv'
  <2>1. /\ UNCHANGED <<calls, agent, registry, failures, policies, member, phase, up>>
        /\ outbox' = [outbox EXCEPT ![c] = Append(@, "frame")]
    BY <1>6 DEF SendFrame, hubVars, recordingVars
  <2>2. ASSUME NEW d \in AgentConns, Announced(d) PROVE Announced(d)'
    <3>1. PICK i \in DOMAIN outbox[d] : outbox[d][i] = "monitors"
      BY <2>2 DEF Announced
    <3>2. outbox[d] \in Seq({"monitors", "frame"})
          /\ outbox'[d] \in {outbox[d], Append(outbox[d], "frame")}
      BY <2>1 DEF ServerTypeOK, SocketTypeOK
    <3>3. i \in DOMAIN outbox'[d] /\ outbox'[d][i] = outbox[d][i]
      BY <3>1, <3>2
    <3> QED BY <3>1, <3>3 DEF Announced
  <2> QED BY <1>4, <2>1, <2>2
<1>7. ASSUME NEW c \in AgentConns, AgentDrops(c) PROVE PresentInv'
  <2>1. /\ UNCHANGED <<calls, agent, registry, failures, policies, member, phase>> /\ up' = up \ {c}
        /\ \A d \in AgentConns \ {c} : outbox'[d] = outbox[d]
    BY <1>7 DEF AgentDrops, hubVars, recordingVars, ServerTypeOK, SocketTypeOK
  <2> QED BY <1>4, <2>1 DEF Announced
<1>8. ASSUME NEW v \in Viewers, ViewerLeaves(v) PROVE PresentInv'
  BY <1>8, <1>4 DEF ViewerLeaves, hubVars, recordingVars, socketVars, Announced
<1>9. CASE UNCHANGED vars
  BY <1>9, <1>4 DEF vars, hubVars, recordingVars, socketVars, Announced
<1> QED BY <1>1, <1>2, <1>3, <1>5, <1>6, <1>7, <1>8, <1>9, Kinds DEF OutsideStep
\* Every step keeps a recorder under a policy, or somebody about to end it.
LEMMA OnlyStep ==
    ASSUME ~Overlap, ~Regroup, ServerTypeOK, StackInv, AloneInv, PresentInv, OnlyInv, [Next]_vars
    PROVE  OnlyInv'
<1>a. ASSUME NEW t \in Threads, \A u \in Threads \ {t} : calls'[u] = <<>>,
             calls'[t] # <<>> =>
                 /\ Top(t)'.op \in {"on_agent_monitors", "on_agent_connected", "connected_resolve",
                        "connected_rate", "manager_start", "refresh_resolve", "refresh_decide"}
                      => agent' # None
                 /\ Top(t)'.op \in {"connected_rate", "manager_start"} => Covered'
                 /\ Top(t)'.op = "unregister_agent" \/ (Top(t)'.op = "recorder_stop" /\ Rest(t)' = Leaving)
                      => registry' = None,
             registry' # None => agent' # None,
             registry' # None /\ ~Covered' => Ending(t)'
      PROVE  OnlyInv'
  <2>1. (Rest(t) = Leaving)' <=> Rest(t)' = Leaving
    BY DEF Leaving
  <2> QED BY <1>a, <2>1 DEF OnlyInv
<1>b. ASSUME NEW t \in Threads, \A u \in Threads \ {t} : calls[u] = <<>>
      PROVE  registry # None /\ ~Covered => calls[t] # <<>> /\ Ending(t)
  BY <1>b DEF OnlyInv, Ending, LettingGo
<1>1. ASSUME NEW t \in Threads,
             \/ HubStep(t) /\ UNCHANGED <<recordingVars, socketVars>>
             \/ RecordingStep(t) /\ UNCHANGED socketVars
      PROVE  OnlyInv'
  <2>a. /\ calls[t] # <<>> /\ Top(t) \in Calls /\ Fits(Top(t).op, Rest(t))
        /\ \A u \in Threads \ {t} : calls[u] = <<>> /\ calls'[u] = <<>>
        /\ Moves(t) /\ DOMAIN recorders \subseteq DOMAIN recorders'
    BY <1>1, SerialThread
  <2>b. Covered' = Covered
    BY <1>1, HandlersKeepPolicies
  <2>c. registry # None /\ ~Covered => Ending(t)
    BY <1>b, <2>a
  <2>d. registry # None => agent # None
    BY DEF OnlyInv
  \* A thread that is letting the recorder go is still doing so after a step of
  \* the hub.
  <2>e. ASSUME LettingGo(t), Top(t).op \notin {"on_agent_disconnected", "manager_stop"}
        PROVE  Ending(t)'
    <3>1. Rest(t) \in {Stopping, StoppingLeaving} /\ Top(t).op # "fan_out"
      BY <2>a, <2>e, RestsDiffer DEF LettingGo, Fits
    <3>2. CASE calls'[t] = <<>>
      <4>1. CASE Return(t, <<>>)
        BY <2>a, <3>1, <3>2, <4>1, ReturnNone, RestFacts DEF ServerTypeOK
      <4>2. ASSUME NEW x \in Calls', Return(t, <<x>>) PROVE FALSE
        BY <2>a, <3>2, <4>2, Pushed
      <4> QED BY <2>a, <2>e, <3>1, <4>1, <4>2 DEF Moves
    <3>3. CASE calls'[t] # <<>>
      <4>1. Rest(t)' = Rest(t) \/ Top(t)'.op = "manager_stop"
        BY <2>a, <3>1, <3>3, NextTop, RestsDiffer
      <4> QED BY <3>1, <3>3, <4>1 DEF Ending, LettingGo, Stopping, StoppingLeaving
    <3> QED BY <3>2, <3>3
  <2>f. ASSUME calls'[t] # <<>>, Top(t).op \notin {"on_agent_monitors", "on_agent_connected",
               "connected_resolve", "connected_rate", "refresh_endpoint", "refresh_resolve",
               "refresh_decide"}
        PROVE  Top(t)'.op \notin {"on_agent_monitors", "on_agent_connected", "connected_resolve",
                   "connected_rate", "manager_start", "refresh_resolve", "refresh_decide"}
    BY <2>a, <2>f, NextTop DEF Follows, Fits
  <2>g. ASSUME calls'[t] # <<>>, Top(t)'.op = "unregister_agent"
        PROVE  Rest(t) = Leaving /\ Top(t).op \in {"manager_stop", "recorder_stop", "on_agent_disconnected"}
    BY <2>a, <2>g, NextTop DEF Follows, Fits
  <2>h. calls'[t] # <<>> /\ Top(t)'.op = "recorder_stop" => Top(t).op = "manager_stop"
    BY <2>a, NextTop DEF Follows
  <2>k. Calls \subseteq Calls'
    BY <2>a DEF Calls, RecorderCalls, PlainCalls, SendCalls, FanOutCalls, DropCalls,
       MonitorsCalls, SetMonitorCalls, RateCalls, DecideCalls
  <2>l. ASSUME NEW x \in Calls', Return(t, <<x>>)
        PROVE  calls'[t] # <<>> /\ Top(t)' = x /\ Rest(t)' = Rest(t)
    BY <2>a, <2>l, Pushed
  <2>m. ASSUME Return(t, <<>>), Rest(t) = <<>> PROVE calls'[t] = <<>>
    BY <2>a, <2>m, ReturnNone DEF ServerTypeOK
  <2>1. CASE register_agent(t)
    <3>1. Top(t).op = "register_agent" /\ agent' = t /\ t \in AgentConns
      BY <2>1, <2>a DEF register_agent, Calling, Top, StackInv, StacksInPhase
    <3>2. agent' # None /\ ~Ending(t)
      BY <2>a, <3>1, ThreadsAssumption DEF Ending, LettingGo, Fits
    <3>3. registry' = registry
      BY <1>1, <3>1 DEF RecordingStep, connected_check, connected_resolve, connected_rate,
         manager_start, recorder_start, manager_forget, disconnected_check, manager_stop,
         recorder_stop, refresh_online, refresh_resolve, refresh_decide, recordingVars,
         Calling, Top
    <3> QED BY <1>a, <2>a, <2>b, <2>c, <2>f, <2>g, <2>h, <3>1, <3>2, <3>3
  <2>2. CASE unregister_agent(t)
    <3>1. Top(t).op = "unregister_agent" /\ Return(t, <<>>)
      BY <2>2 DEF unregister_agent, Calling, Top
    <3>2. calls'[t] = <<>>
      BY <2>a, <2>m, <3>1 DEF Fits
    <3>3. registry' = registry
      BY <1>1, <3>1 DEF RecordingStep, connected_check, connected_resolve, connected_rate,
         manager_start, recorder_start, manager_forget, disconnected_check, manager_stop,
         recorder_stop, refresh_online, refresh_resolve, refresh_decide, recordingVars,
         Calling, Top
    <3>4. registry = None
      BY <2>a, <3>1 DEF OnlyInv
    <3> QED BY <1>a, <2>a, <3>2, <3>3, <3>4
  <2>3. CASE \/ on_agent_frame(t) \/ fan_out(t) \/ on_agent_monitors(t) \/ register_viewer(t)
             \/ drop_viewer(t) \/ set_monitor(t) \/ start_recording(t) \/ stop_recording(t)
             \/ tell_agent_start(t) \/ send_text(t)
    <3>1. /\ agent' = agent
          /\ Top(t).op \in {"on_agent_frame", "fan_out", "on_agent_monitors", "register_viewer",
                 "drop_viewer", "set_monitor", "start_recording", "stop_recording",
                 "tell_agent_start", "send"}
      BY <2>3 DEF on_agent_frame, fan_out, on_agent_monitors, register_viewer, drop_viewer,
         set_monitor, start_recording, stop_recording, tell_agent_start, send_text, hubVars,
         Calling, Top
    <3>2. registry' = registry
      BY <1>1, <3>1 DEF RecordingStep, connected_check, connected_resolve, connected_rate,
         manager_start, recorder_start, manager_forget, disconnected_check, manager_stop,
         recorder_stop, refresh_online, refresh_resolve, refresh_decide, recordingVars,
         Calling, Top
    <3>3. registry' # None /\ ~Covered' => Ending(t)'
      BY <2>b, <2>c, <2>e, <3>1, <3>2 DEF Ending
    <3>4. Top(t).op = "on_agent_monitors" => agent # None
      BY <2>a DEF OnlyInv
    <3>5. calls'[t] # <<>> /\ Top(t).op = "on_agent_monitors" => Top(t)'.op = "on_agent_connected"
      BY <2>a, NextTop, RestsDiffer DEF Follows, Fits
    <3> QED BY <1>a, <2>a, <2>d, <2>f, <2>g, <2>h, <3>1, <3>2, <3>3, <3>4, <3>5
  <2>4. CASE connected_check(t) \/ connected_resolve(t) \/ connected_rate(t)
    <3>1. /\ Top(t).op \in {"on_agent_connected", "connected_resolve", "connected_rate"}
          /\ UNCHANGED <<agent, registry>>
      BY <2>4 DEF connected_check, connected_resolve, connected_rate, Calling, Top, hubVars,
         recordingVars
    <3>2. agent # None /\ ~Ending(t)
      BY <2>a, <3>1 DEF OnlyInv, Ending, LettingGo, Fits
    <3>3. calls'[t] # <<>> /\ Top(t)'.op = "connected_rate" => Covered
      <4>1. calls'[t] # <<>> /\ Top(t)'.op = "connected_rate" => Top(t).op = "connected_resolve"
        BY <2>a, NextTop DEF Follows
      <4>2. CASE Top(t).op = "connected_resolve" /\ ~Covered
        <5>1. Return(t, <<>>)
          BY <2>4, <4>2 DEF connected_check, connected_resolve, connected_rate, Calling, Top, Covered
        <5> QED BY <2>a, <2>m, <4>2, <5>1 DEF Fits
      <4> QED BY <4>1, <4>2
    <3>4. calls'[t] # <<>> /\ Top(t)'.op = "manager_start" => Covered
      <4>1. calls'[t] # <<>> /\ Top(t)'.op = "manager_start" => Top(t).op = "connected_rate"
        BY <2>a, NextTop DEF Follows
      <4> QED BY <2>a, <4>1 DEF OnlyInv
    <3> QED BY <1>a, <2>a, <2>b, <2>c, <2>g, <2>h, <3>1, <3>2, <3>3, <3>4
  <2>5. CASE manager_start(t)
    <3>1. Top(t).op = "manager_start" /\ agent' = agent
      BY <2>5 DEF manager_start, Calling, Top, hubVars
    <3>2. agent # None /\ Covered
      BY <2>a, <3>1 DEF OnlyInv
    <3> QED BY <1>a, <2>a, <2>b, <2>f, <2>g, <2>h, <3>1, <3>2
  <2>6. CASE recorder_start(t)
    <3>1. Top(t).op = "recorder_start" /\ UNCHANGED <<agent, registry>>
      BY <2>6 DEF recorder_start, Calling, Top, hubVars
    <3>2. ~Ending(t)
      BY <2>a, <3>1 DEF Ending, LettingGo, Fits
    <3> QED BY <1>a, <2>a, <2>b, <2>c, <2>d, <2>f, <2>g, <2>h, <3>1, <3>2
  <2>7. CASE manager_forget(t) \/ manager_stop(t)
    <3>1. Top(t).op \in {"manager_forget", "manager_stop"} /\ registry' = None /\ agent' = agent
      BY <2>7 DEF manager_forget, manager_stop, Calling, Top, hubVars
    <3> QED BY <1>a, <2>a, <2>f, <3>1
  <2>8. CASE disconnected_check(t)
    <3>1. Top(t).op = "on_agent_disconnected" /\ UNCHANGED <<agent, registry>>
          /\ Return(t, IF registry # None THEN DisconnectCalls ELSE <<>>)
      BY <2>8 DEF disconnected_check, Calling, Top, hubVars, recordingVars
    <3>2. CASE registry = None
      BY <1>a, <2>a, <2>f, <3>1, <3>2
    <3>3. CASE registry # None
      <4> DEFINE x == Call("stop_recording")  y == Call("manager_stop")
      <4>1. x \in Calls' /\ y \in Calls' /\ x.op = "stop_recording" /\ Return(t, <<x, y>>)
        BY <2>k, <3>1, <3>3, PlainCall DEF DisconnectCalls
      <4>2. calls \in [Threads -> Seq(Calls')]
        BY <2>a, StacksGrow DEF ServerTypeOK, StacksTypeOK
      <4>3. calls'[t] # <<>> /\ Top(t)'.op = "stop_recording" /\ Rest(t)' = <<y>> \o Rest(t)
        <5> HIDE DEF x, y
        <5> QED BY <2>a, <4>1, <4>2, ReturnTwo
      <4>4. Rest(t)' \in {Stopping, StoppingLeaving}
        BY <2>a, <3>1, <4>3, FitsDisconnect
      <4>5. Ending(t)'
        BY <4>3, <4>4 DEF Ending, LettingGo, Stopping, StoppingLeaving
      <4> QED BY <1>a, <2>a, <2>d, <3>1, <4>3, <4>5
    <3> QED BY <3>2, <3>3
  <2>9. CASE recorder_stop(t)
    <3>1. Top(t).op = "recorder_stop" /\ UNCHANGED <<agent, registry>>
      BY <2>9 DEF recorder_stop, Calling, Top, hubVars
    <3>2. ~Ending(t) /\ (Rest(t) = Leaving => registry = None)
      BY <2>a, <3>1 DEF Ending, LettingGo, Fits, OnlyInv
    <3> QED BY <1>a, <2>a, <2>b, <2>c, <2>d, <2>f, <2>g, <2>h, <3>1, <3>2
  <2>10. CASE refresh_online(t)
    <3>1. Top(t).op = "refresh_endpoint" /\ UNCHANGED <<agent, registry>>
          /\ Return(t, IF agent = None THEN <<>> ELSE <<Call("refresh_resolve")>>)
      BY <2>10 DEF refresh_online, Calling, Top, hubVars, recordingVars
    <3>2. CASE agent = None
      BY <1>a, <2>a, <2>d, <2>m, <3>1, <3>2 DEF Fits
    <3>3. CASE agent # None
      <4> DEFINE x == Call("refresh_resolve")
      <4>1. x \in Calls' /\ x.op = "refresh_resolve"
        BY <2>k, PlainCall
      <4> HIDE DEF x
      <4>2. calls'[t] # <<>> /\ Top(t)' = x
        BY <2>l, <3>1, <3>3, <4>1 DEF x
      <4>3. Ending(t)'
        BY <4>1, <4>2 DEF Ending
      <4> QED BY <1>a, <2>a, <3>1, <3>3, <4>1, <4>2, <4>3
    <3> QED BY <3>2, <3>3
  <2>11. CASE refresh_resolve(t)
    <3> DEFINE x == [op |-> "refresh_decide", covered |-> Covered]
    <3>1. /\ Top(t).op = "refresh_resolve" /\ UNCHANGED <<agent, registry>>
          /\ Return(t, <<x>>)
      BY <2>11 DEF refresh_resolve, Calling, Top, hubVars, recordingVars, Covered
    <3>2. x \in Calls' /\ x.op = "refresh_decide"
      BY DEF Calls, DecideCalls, Covered
    <3> HIDE DEF x
    <3>3. calls'[t] # <<>> /\ Top(t)' = x
      BY <2>l, <3>1, <3>2
    <3>4. agent # None
      BY <2>a, <3>1 DEF OnlyInv
    <3>5. Ending(t)'
      BY <3>2, <3>3 DEF Ending
    <3> QED BY <1>a, <2>a, <3>1, <3>2, <3>3, <3>4, <3>5
  <2>12. CASE refresh_decide(t)
    <3>1. /\ Top(t).op = "refresh_decide" /\ UNCHANGED <<agent, registry>>
          /\ Return(t, RefreshCalls(Top(t).covered))
      BY <2>12 DEF refresh_decide, Calling, Top, hubVars, recordingVars
    <3>2. Top(t).covered = Covered
      BY <2>a, <3>1 DEF PresentInv, Warranted
    <3>3. agent # None
      BY <2>a, <3>1 DEF OnlyInv
    <3>4. CASE registry # None /\ ~Covered
      <4> DEFINE x == Call("on_agent_disconnected")
      <4>1. x \in Calls' /\ x.op = "on_agent_disconnected"
        BY <2>k, PlainCall
      <4>2. Return(t, <<x>>)
        BY <3>1, <3>2, <3>4 DEF RefreshCalls
      <4> HIDE DEF x
      <4>3. calls'[t] # <<>> /\ Top(t)' = x
        BY <2>l, <4>1, <4>2
      <4>4. Ending(t)'
        BY <4>1, <4>3 DEF Ending, LettingGo
      <4> QED BY <1>a, <2>a, <3>1, <3>3, <4>1, <4>3, <4>4
    <3>5. CASE registry = None \/ Covered
      <4>1. calls'[t] # <<>> => Top(t)'.op \notin {"connected_rate", "manager_start",
                                    "unregister_agent", "recorder_stop"}
        BY <2>a, <2>g, <3>1, NextTop DEF Follows, Fits
      <4> QED BY <1>a, <2>a, <2>b, <3>1, <3>3, <3>5, <4>1
    <3> QED BY <3>4, <3>5
  <2> QED BY <1>1, <2>1, <2>2, <2>3, <2>4, <2>5, <2>6, <2>7, <2>8, <2>9, <2>10, <2>11, <2>12
          DEF HubStep, RecordingStep
<1>2. ASSUME NEW t \in Threads, SocketStep(t) PROVE OnlyInv'
  <2>a. /\ calls[t] = <<>> /\ \A u \in Threads \ {t} : calls[u] = <<>> /\ calls'[u] = <<>>
        /\ UNCHANGED <<agent, registry>> /\ Covered' = Covered
    BY <1>2, SerialSocket, CoveredSame DEF hubVars, recordingVars
  <2>b. (registry # None => agent # None) /\ (registry # None => Covered)
    BY <1>b, <2>a DEF OnlyInv
  <2>1. Top(t)'.op \in {"register_agent", "on_agent_frame", "on_agent_monitors",
                        "on_agent_disconnected", "register_viewer", "set_monitor", "drop_viewer"}
    BY <1>2, SerialSocket
  <2>2. ASSUME Top(t)'.op = "on_agent_monitors" PROVE agent # None
    <3>1. t \in AgentConns /\ AgentSocketReceive(t)
      BY <1>2, <2>2, SerialSocket
    <3>2. Handled(t)
      BY <3>1 DEF AgentSocketReceive, Handled, Done
    <3>3. t = agent
      BY <2>a, <3>1, <3>2 DEF AloneInv
    <3> QED BY <3>1, <3>3, ThreadsAssumption
  <2> QED BY <1>a, <2>a, <2>b, <2>1, <2>2
<1>3. ASSUME NEW t \in Admins, AdminRequest(t), UNCHANGED socketVars PROVE OnlyInv'
  <2>a. /\ t \in Threads /\ calls[t] = <<>>
        /\ \A u \in Threads \ {t} : calls[u] = <<>> /\ calls'[u] = <<>>
        /\ calls'[t] # <<>> => Top(t)'.op = "refresh_endpoint" /\ Rest(t)' = <<>>
        /\ UNCHANGED <<agent, registry>>
    BY <1>3, SerialAdmin DEF hubVars
  <2>b. (registry # None => agent # None) /\ (registry # None => Covered)
    BY <1>b, <2>a DEF OnlyInv
  <2>1. CASE calls'[t] # <<>>
    <3>1. Ending(t)'
      BY <2>a, <2>1 DEF Ending
    <3> QED BY <1>a, <2>a, <2>b, <3>1
  <2>2. CASE calls'[t] = <<>>
    <3>1. Covered' = Covered
      BY <1>3, <2>2, UnvisitedIsUnaffected
    <3> QED BY <1>a, <2>a, <2>b, <2>2, <3>1
  <2> QED BY <2>1, <2>2
<1>4. ASSUME UNCHANGED <<calls, agent, registry, policies, member>> PROVE OnlyInv'
  <2>1. Covered' = Covered
    BY <1>4, CoveredSame
  <2>2. \A t \in Threads : Top(t)' = Top(t) /\ Rest(t)' = Rest(t) /\ (Ending(t)' <=> Ending(t))
    BY <1>4 DEF Top, Rest, Ending, LettingGo, Stopping, StoppingLeaving
  <2>3. Leaving' = Leaving
    BY DEF Leaving
  <2> QED BY <1>4, <2>1, <2>2, <2>3 DEF OnlyInv
<1>5. CASE OutsideStep \/ UNCHANGED vars
  BY <1>4, <1>5 DEF OutsideStep, HandleControl, SendFrame, AgentDrops, ViewerLeaves, vars,
     hubVars, recordingVars
<1> QED BY <1>1, <1>2, <1>3, <1>5, Kinds
\* What holds in every state when there is one streamer, whose drops the server
\* notices before it is back, groups stay as they are, and one administrator at a
\* time changes policies.
LEMMA PresenceHold ==
    ASSUME OneAdminAtATime, ~LateDetection, ~Regroup, \A s1, s2 \in Sessions : s1 = s2
    PROVE  Spec => [](ServerTypeOK /\ StackInv /\ RegistrationInv /\ AloneInv /\ PresentInv)
<1>1. Init => RegistrationInv /\ AloneInv /\ PresentInv
  <2> SUFFICES ASSUME Init PROVE RegistrationInv /\ AloneInv /\ PresentInv
    OBVIOUS
  <2>1. /\ agent = None /\ lastReg = None /\ registry = None
        /\ calls = [t \in Threads |-> <<>>] /\ phase = [s \in Sockets |-> "new"]
    BY DEF Init, HubInit, RecordingInit
  <2>2. AloneInv
    BY <2>1 DEF AloneInv, Handled, Sockets
  <2>3. PresentInv
    BY <2>1 DEF PresentInv, Warranted, Unrecorded
  <2>4. RegistrationInv
    BY <2>1 DEF RegistrationInv, RegistrationTracksNewest
  <2> QED BY <2>2, <2>3, <2>4
<1>2. ServerTypeOK /\ StackInv /\ RegistrationInv /\ [Next]_vars => RegistrationInv'
  BY RegistrationStep
<1>3. ServerTypeOK /\ StackInv /\ AloneInv /\ [Next]_vars => AloneInv'
  BY AloneStep
<1>4. ServerTypeOK /\ StackInv /\ RegistrationInv /\ AloneInv /\ PresentInv /\ [Next]_vars
        => PresentInv'
  BY PresentStep
<1> QED BY <1>1, <1>2, <1>3, <1>4, ShapesHold, PTL DEF Spec

\* An agent that is connected while a policy covers its endpoint is recorded once
\* all handlers are idle, unless a recorder failed to start: however it connects
\* and drops, however policies come and go, and whichever handlers overlap, as
\* long as no two administrators change policies at once.
THEOREM CoveredAgentsAreRecorded ==
    ASSUME ~Overlap \/ \A a, b \in Admins : a = b,
           ~LateDetection, ~Regroup, \A s1, s2 \in Sessions : s1 = s2
    PROVE  Spec => []RecordsWhilePresent
<1>1. ServerTypeOK /\ RegistrationInv /\ PresentInv => RecordsWhilePresent
  <2> SUFFICES ASSUME ServerTypeOK, RegistrationInv, PresentInv, Quiescent, agent # None,
                      resolve_policy # None, failures = 0
               PROVE  registry # None
    BY DEF RecordsWhilePresent
  <2>1. agent \in up /\ outbox[agent] = <<>>
    BY QuietLink
  <2>2. ~Announced(agent)
    BY <2>1 DEF Announced
  <2>3. \A t \in Threads : ~Seeking(t)
    BY DEF Quiescent, Seeking
  <2> QED BY <2>1, <2>2, <2>3 DEF PresentInv, Unrecorded, Covered
<1>2. OneAdminAtATime
  BY DEF OneAdminAtATime
<1> QED BY <1>1, <1>2, PresenceHold, PTL

\* When handlers run one at a time, no recorder goes on once all are idle but for
\* a connected agent whose endpoint a policy covers: however it connects and drops,
\* and however policies come and go.
THEOREM OnlyCoveredAgentsAreRecorded ==
    ASSUME ~Overlap, ~LateDetection, ~Regroup, \A s1, s2 \in Sessions : s1 = s2
    PROVE  Spec => []RecordsOnlyUnderPolicy
<1>1. Init => OnlyInv
  BY DEF Init, HubInit, RecordingInit, OnlyInv
<1>2. ServerTypeOK /\ StackInv /\ AloneInv /\ PresentInv /\ OnlyInv /\ [Next]_vars => OnlyInv'
  BY OnlyStep
<1>3. OnlyInv => RecordsOnlyUnderPolicy
  BY DEF OnlyInv, RecordsOnlyUnderPolicy, Quiescent, Ending, LettingGo, Covered
<1>4. OneAdminAtATime
  BY DEF OneAdminAtATime
<1> QED BY <1>1, <1>2, <1>3, <1>4, PresenceHold, PTL DEF Spec
=============================================================================
