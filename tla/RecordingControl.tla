-------------------------- MODULE RecordingControl --------------------------
(***************************************************************************)
(* server/app/services/recording_control.py and the RecorderManager of     *)
(* server/app/services/recorder.py, on top of the screen hub: which        *)
(* recorder runs for the endpoint, and how connects, disconnects and       *)
(* policy changes start and stop it.                                       *)
(*                                                                         *)
(* A recorder is a number.  What happens inside it (queue, FFmpeg,         *)
(* segments) is the subject of module Recorder; here it is launched or     *)
(* fails to launch, and is stopped.                                        *)
(***************************************************************************)
EXTENDS ScreenHub

CONSTANTS
    PolicyFps,      \* frame rates a policy may ask for
    Fps4K,          \* SCREEN_RECORDING_FPS_4K
    MaxFailures,    \* bound: recorders whose FFmpeg cannot be launched
    MaxChanges,     \* bound: policy changes by administrators
    Regroup         \* may the endpoint join and leave its group?

ASSUME RatesAssumption == PolicyFps \subseteq Nat \ {0} /\ Fps4K \in Nat \ {0}
ASSUME BoundsAssumption ==
    MaxFailures \in Nat /\ MaxChanges \in Nat /\ Regroup \in BOOLEAN
ASSUME NoneIsNoRate == None \notin Nat

VARIABLES
    policies,       \* recording_policies rows by target type, None when absent
    member,         \* is the endpoint a member of the group the GROUP row targets?
    registry,       \* manager._recorders[endpoint], None when absent
    recorders,      \* every Recorder object created so far, in order
    failures,       \* launches that failed
    changes         \* policy changes made

recordingVars == <<policies, member, registry, recorders, failures, changes>>

TargetTypes == {"ENDPOINT", "GROUP"}

\* Has the row for a target type an enabled policy that covers the endpoint?
Covers(tt) == policies[tt] # None /\ policies[tt].enabled /\ (tt = "GROUP" => member)

\* resolve_policy: the endpoint's own policy wins over its group's.  The value
\* is the rate the policy asks for.
resolve_policy ==
    CASE Covers("ENDPOINT") -> policies["ENDPOINT"].fps
      [] ~Covers("ENDPOINT") /\ Covers("GROUP") -> policies["GROUP"].fps
      [] OTHER -> None

\* Mutant of effective_recording_fps: lowered by the 4K rate, not to it.
fps_lowered_by(screen, base) == IF screen = "uhd" /\ Fps4K < base THEN base - Fps4K ELSE base

\* effective_recording_fps: a 4K-class primary monitor caps the rate.
effective_recording_fps(screen, base) ==
    IF screen = "uhd" /\ Fps4K < base THEN Fps4K ELSE base

-----------------------------------------------------------------------------
(* on_agent_connected                                                      *)

\* The recorder already there makes the call return; otherwise look for a policy.
connected_check(t) ==
    /\ Calling(t, "on_agent_connected")
    /\ Return(t, IF registry # None THEN <<>> ELSE <<Call("connected_resolve")>>)
    /\ UNCHANGED <<hubVars, inbox, up, recordingVars>>

connected_resolve(t) ==
    /\ Calling(t, "connected_resolve")
    /\ Return(t, IF resolve_policy = None THEN <<>>
                 ELSE <<[op |-> "connected_rate", base |-> resolve_policy]>>)
    /\ UNCHANGED <<hubVars, inbox, up, recordingVars>>

connected_rate(t) ==
    /\ Calling(t, "connected_rate")
    /\ Return(t, <<[op |-> "manager_start",
                    fps |-> effective_recording_fps(monitors, Head(calls[t]).base)]>>)
    /\ UNCHANGED <<hubVars, inbox, up, recordingVars>>

\* RecorderManager.start, locked part: one recorder per endpoint.
manager_start(t) ==
    /\ Calling(t, "manager_start")
    /\ IF registry # None
       THEN Return(t, <<>>) /\ UNCHANGED <<registry, recorders>>
       ELSE /\ recorders' = Append(recorders, [fps |-> Head(calls[t]).fps, state |-> "created"])
            /\ registry' = Len(recorders) + 1
            /\ Return(t, <<[op |-> "recorder_start", rec |-> Len(recorders) + 1]>>)
    /\ UNCHANGED <<hubVars, inbox, up, policies, member, failures, changes>>

\* Mutant of Launched: the queue and the flag are new with each start.
LaunchedAnew(state) == "running"

\* A recorder that was stopped before its threads exist finds the sentinel in its
\* queue and ends at once,
Launched(state) == IF state = "created" THEN "running" ELSE "stopped"

\* but Recorder.start, outside the manager's lock, still counts as a success.
recorder_start(t) ==
    /\ Calling(t, "recorder_start")
    /\ LET r == Head(calls[t]).rec IN
       \/ /\ recorders' = [recorders EXCEPT ![r].state = Launched(@)]
          /\ Return(t, <<[op |-> "start_recording", fps |-> recorders[r].fps]>>)
          /\ UNCHANGED failures
       \/ /\ failures < MaxFailures
          /\ failures' = failures + 1
          /\ recorders' = [recorders EXCEPT ![r].state = "stopped"]
          /\ Return(t, <<Call("manager_forget")>>)
    /\ UNCHANGED <<hubVars, inbox, up, policies, member, registry, changes>>

\* The exception path of RecorderManager.start: whatever recorder is registered
\* by now is removed.
manager_forget(t) ==
    /\ Calling(t, "manager_forget")
    /\ registry' = None
    /\ Return(t, <<>>)
    /\ UNCHANGED <<hubVars, inbox, up, policies, member, recorders, failures, changes>>

-----------------------------------------------------------------------------
(* on_agent_disconnected                                                   *)

\* Mutant of DisconnectCalls: the recorder goes on.
DisconnectHubOnly == <<Call("stop_recording")>>

\* Mutant of DisconnectCalls: the recorder is taken out first.
DisconnectRecorderFirst == <<Call("manager_stop"), Call("stop_recording")>>

DisconnectCalls == <<Call("stop_recording"), Call("manager_stop")>>

disconnected_check(t) ==
    /\ Calling(t, "on_agent_disconnected")
    /\ Return(t, IF registry # None THEN DisconnectCalls ELSE <<>>)
    /\ UNCHANGED <<hubVars, inbox, up, recordingVars>>

\* Mutant of StopRegistered: the recorder is forgotten, not stopped.
StopNothing == <<>>

StopRegistered ==
    IF registry = None THEN <<>> ELSE <<[op |-> "recorder_stop", rec |-> registry]>>

\* RecorderManager.stop, locked part
manager_stop(t) ==
    /\ Calling(t, "manager_stop")
    /\ registry' = None
    /\ Return(t, StopRegistered)
    /\ UNCHANGED <<hubVars, inbox, up, policies, member, recorders, failures, changes>>

\* Recorder.stop, outside the manager's lock
recorder_stop(t) ==
    /\ Calling(t, "recorder_stop")
    /\ recorders' = [recorders EXCEPT ![Head(calls[t]).rec].state =
                       IF @ = "created" THEN "cancelled" ELSE "stopped"]
    /\ Return(t, <<>>)
    /\ UNCHANGED <<hubVars, inbox, up, policies, member, registry, failures, changes>>

-----------------------------------------------------------------------------
(* refresh_endpoint                                                        *)

refresh_online(t) ==
    /\ Calling(t, "refresh_endpoint")
    /\ Return(t, IF agent = None THEN <<>> ELSE <<Call("refresh_resolve")>>)
    /\ UNCHANGED <<hubVars, inbox, up, recordingVars>>

refresh_resolve(t) ==
    /\ Calling(t, "refresh_resolve")
    /\ Return(t, <<[op |-> "refresh_decide", covered |-> resolve_policy # None]>>)
    /\ UNCHANGED <<hubVars, inbox, up, recordingVars>>

\* Mutant of RefreshCalls: a new policy is not applied to a connected agent.
RefreshOnlyStops(covered) ==
    IF ~covered /\ registry # None THEN <<Call("on_agent_disconnected")>> ELSE <<>>

RefreshCalls(covered) ==
    CASE covered /\ registry = None -> <<Call("on_agent_connected")>>
      [] ~covered /\ registry # None -> <<Call("on_agent_disconnected")>>
      [] OTHER -> <<>>

refresh_decide(t) ==
    /\ Calling(t, "refresh_decide")
    /\ Return(t, RefreshCalls(Head(calls[t]).covered))
    /\ UNCHANGED <<hubVars, inbox, up, recordingVars>>

-----------------------------------------------------------------------------
(* Administrators                                                          *)

\* The commit of a policy request, followed by _apply_policy_change, which
\* visits the endpoint when it is the target or a member of the target group.
ChangePolicy(t, tt, row) ==
    /\ changes < MaxChanges
    /\ calls[t] = <<>>
    /\ MayRun(t)
    /\ changes' = changes + 1
    /\ policies' = [policies EXCEPT ![tt] = row]
    /\ calls' = [calls EXCEPT ![t] =
                   IF tt = "ENDPOINT" \/ member THEN <<Call("refresh_endpoint")>> ELSE <<>>]
    /\ UNCHANGED <<hubVars, inbox, up, member, registry, recorders, failures>>

create_policy(t) ==
    \E tt \in TargetTypes, fps \in PolicyFps :
        /\ policies[tt] = None
        /\ ChangePolicy(t, tt, [fps |-> fps, enabled |-> TRUE])

update_policy(t) ==
    \E tt \in TargetTypes, fps \in PolicyFps, enabled \in BOOLEAN :
        /\ policies[tt] # None
        /\ policies[tt] # [fps |-> fps, enabled |-> enabled]
        /\ ChangePolicy(t, tt, [fps |-> fps, enabled |-> enabled])

delete_policy(t) ==
    \E tt \in TargetTypes :
        /\ policies[tt] # None
        /\ ChangePolicy(t, tt, None)

\* groups.set_group_members commits the new membership and visits nobody.
set_group_members(t) ==
    /\ Regroup
    /\ changes < MaxChanges
    /\ calls[t] = <<>>
    /\ MayRun(t)
    /\ changes' = changes + 1
    /\ member' = ~member
    /\ UNCHANGED <<hubVars, calls, inbox, up, policies, registry, recorders, failures>>

AdminRequest(t) ==
    create_policy(t) \/ update_policy(t) \/ delete_policy(t) \/ set_group_members(t)

RecordingStep(t) ==
    \/ connected_check(t)
    \/ connected_resolve(t)
    \/ connected_rate(t)
    \/ manager_start(t)
    \/ recorder_start(t)
    \/ manager_forget(t)
    \/ disconnected_check(t)
    \/ manager_stop(t)
    \/ recorder_stop(t)
    \/ refresh_online(t)
    \/ refresh_resolve(t)
    \/ refresh_decide(t)

RecordingInit ==
    /\ policies \in [TargetTypes -> {None} \cup [fps: PolicyFps, enabled: {TRUE}]]
    /\ member \in BOOLEAN
    /\ registry = None
    /\ recorders = <<>>
    /\ failures = 0
    /\ changes = 0
=============================================================================
