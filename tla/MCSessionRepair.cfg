SPECIFICATION Spec
CONSTANTS
    NumCalls = 2
    MaxTurns = 2
    MaxSteps = 1
    MaxLog = 12
    MaxFaults = 2
CHECK_DEADLOCK FALSE
INVARIANTS
    TypeOK
    RecoveryHonest
PROPERTIES
    StoredTranscript
    StepsFresh
