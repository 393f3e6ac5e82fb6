SPECIFICATION FairSpec
CONSTANTS
    Events = {e1, x1}
    Malformed = {x1}
    Relays = {r1, r2}
    MaxAttempts = 2
    BatchLimit = 2
    LeaseTerm = 1
    MaxToken = 3
    None = None
INVARIANTS
    TypeOK
    RetryableHasAttempts
PROPERTIES
    DeliversAtLeastOnce
    EventSettles
