SPECIFICATION Spec
CONSTANTS
    Handles = {h1, h2}
    Procs = {p1, p2}
    Flushers = {f}
    Nobody = nobody
    Encodings = {"zstd", "none"}
    MaxSeq = 2
    MaxFaults = 1
    MaxCrashes = 1
    LateDrain = FALSE
    DeleteLive = FALSE
CHECK_DEADLOCK FALSE
SYMMETRY MCSymmetry
INVARIANTS
    TypeOK
    OwnedWrites
    NoEventLost
    FlushDurable
PROPERTY DurableKept
