SPECIFICATION Spec
CONSTANTS
    Events = {e1, e2}
    Malformed = {}
    Relays = {r1}
    MaxAttempts = 3
    BatchLimit = 6
    LeaseTerm = 1
    MaxToken = 0
    None = None
INVARIANTS
    OutageLeavesPending
CHECK_DEADLOCK FALSE
