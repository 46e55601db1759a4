SPECIFICATION Spec
CONSTANTS
    AgentConns = {c1, c2}
    Viewers = {}
    Admins = {a1}
    Sessions = {s1}
    Overlap = TRUE
    LateDetection = TRUE
    Regroup = TRUE
    MaxFailures = 1
    MaxChanges = 1
    MaxSwitches = 0
    PolicyFps = {5}
    Screen = "hd"
    Fps4K = 3
    LiveFps = 4
    MaxOutbox = 0
    None = None
SYMMETRY Symmetry
INVARIANTS
    RegistrationTracksNewest
    RecorderIsFed
    OneRecorderUnlessLaunchFails
CHECK_DEADLOCK FALSE
