SPECIFICATION FairSpec
CONSTANTS
    NumCalls = 2
    MaxParallel = 2
    MaxFlips = 1
CHECK_DEADLOCK FALSE
PROPERTY BatchEnds
