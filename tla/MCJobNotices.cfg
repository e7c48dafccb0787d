SPECIFICATION NSpec
CONSTANTS
    Jobs = {j1}
    Waits = {w1, w2}
    Owners = {a}
    Unowned = unowned
    Service = service
    Limit = 1
    Outcomes = {"failed"}
CHECK_DEADLOCK FALSE
SYMMETRY MCSymmetry
INVARIANTS
    NoticesTypeOK
    CompletionReaches
    OutputOnce
PROPERTIES
    ToldOnce
