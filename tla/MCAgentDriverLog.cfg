SPECIFICATION Spec
CONSTANTS
    Msgs = {m1, m2}
    Calls = {c1, c2}
    Causes = {user, disposed}
    Disposed = disposed
    MaxSteps = 2
    MaxAttempts = 1
SYMMETRY MCSymmetry
CHECK_DEADLOCK FALSE
INVARIANTS
    TypeOK
    InboxKept
    DrainedQueue
    WakeLatchExact
PROPERTIES
    TranscriptWellFormed
    NoWorkUnderAbort
    EndingsHonest
    DisposedStaysParked
