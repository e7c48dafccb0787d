SPECIFICATION Spec
CONSTANTS
    NSources = 2
    RetainBytes = 3
    SettledRetainBytes = 1
    SourceWindow = 1
    CharSlack = 1
    MaxWrite = 2
    MaxTotal = 2
CHECK_DEADLOCK FALSE
INVARIANTS
    TypeOK
PROPERTIES
    LossHonest
    SettlementKeeps
