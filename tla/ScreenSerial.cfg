SPECIFICATION Spec
CONSTANTS
    AgentConns = {c1, c2}
    Viewers = {v1, v2}
    Admins = {a1}
    Sessions = {s1}
    Overlap = FALSE
    LateDetection = FALSE
    Regroup = FALSE
    MaxFailures = 0
    MaxChanges = 2
    MaxSwitches = 0
    PolicyFps = {5}
    Screen = "uhd"
    Fps4K = 3
    LiveFps = 4
    MaxOutbox = 0
    None = None
SYMMETRY Symmetry
INVARIANTS
    TypeOK
    
    
    RecordsWhilePresent
    RecordsOnlyUnderPolicy
    OneRecorderRuns
CHECK_DEADLOCK FALSE
