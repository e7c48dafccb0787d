SPECIFICATION Spec
CONSTANTS
    NumCalls = 3
    MaxParallel = 2
    MaxFlips = 1
CHECK_DEADLOCK FALSE
INVARIANTS
    TypeOK
    ResultsInModelOrder
    OverlapBounded
    CancellationHonest
PROPERTIES
    LedgerKept
