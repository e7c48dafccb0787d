SPECIFICATION FairSpec
CONSTANTS
    Msgs = {m1, m2}
    Calls = {c1}
    Causes = {user, disposed}
    Disposed = disposed
    MaxSteps = 1
    MaxAttempts = 0
CHECK_DEADLOCK FALSE
PROPERTIES
    TurnCloses
    CancelConverges
