SPECIFICATION Spec
CONSTANTS
    Handles = {h1, h2}
    Procs = {p1, p2}
    Flushers = {f}
    Nobody = nobody
    Encodings = {"none"}
    MaxSeq = 2
    MaxFaults = 1
    MaxCrashes = 0
    LateDrain = TRUE
    DeleteLive = FALSE
CHECK_DEADLOCK FALSE
INVARIANT SingleMutator
