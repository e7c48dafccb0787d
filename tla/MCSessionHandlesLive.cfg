SPECIFICATION FairSpec
CONSTANTS
    Handles = {h1, h2}
    Procs = {p1}
    Flushers = {f}
    Nobody = nobody
    Encodings = {"zstd"}
    MaxSeq = 2
    MaxFaults = 1
    MaxCrashes = 1
    LateDrain = FALSE
    DeleteLive = FALSE
CHECK_DEADLOCK FALSE
PROPERTIES
    CloseEnds
    FlushAnswered
