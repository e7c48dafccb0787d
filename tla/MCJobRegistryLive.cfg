SPECIFICATION FairSpec
CONSTANTS
    Jobs = {j1, j2}
    Waits = {}
    Owners = {a}
    Unowned = unowned
    Service = service
    Limit = 2
    Outcomes = {"failed"}
CHECK_DEADLOCK FALSE
PROPERTY TeardownEnds
