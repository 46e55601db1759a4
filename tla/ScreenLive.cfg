SPECIFICATION FairSpec
CONSTANTS
    AgentConns = {c1}
    Viewers = {v1, v2}
    Admins = {}
    Sessions = {s1}
    Overlap = FALSE
    LateDetection = FALSE
    Regroup = FALSE
    MaxFailures = 0
    MaxChanges = 0
    MaxSwitches = 1
    PolicyFps = {5}
    Screen = "hd"
    Fps4K = 3
    LiveFps = 4
    MaxOutbox = 1
    None = None
INVARIANT ViewersAreOpenSockets
 
CHECK_DEADLOCK FALSE
