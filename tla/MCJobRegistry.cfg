SPECIFICATION Spec
CONSTANTS
    Jobs = {j1, j2}
    Waits = {w1}
    Owners = {a}
    Unowned = unowned
    Service = service
    Limit = 1
    Outcomes = {"killed", "failed"}
CHECK_DEADLOCK FALSE
SYMMETRY MCSymmetry
INVARIANTS
    TypeOK
    WithinLimit
    WaitsAnswered
    OwnerLeavesNothing
PROPERTIES
    LedgerKept
