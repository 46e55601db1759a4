SPECIFICATION FairSpec
CONSTANTS
    Feeders = {f1, f2}
    QueueSize = 2
    MaxFrames = 4
    MaxSegments = 3
    MaxFaults = 1
    FfmpegDies = TRUE
    ServerDies = TRUE
INVARIANTS
    TypeOK
    EverySegmentIndexed
    PlaintextHeldBriefly
PROPERTIES
    KeepsLog
    StopCompletes
    WatcherEnds
CHECK_DEADLOCK FALSE
