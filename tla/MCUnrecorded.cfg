SPECIFICATION Spec
CONSTANTS
    Articles = {a1}
    Jobs = {j1, j2}
    Workers = {w1}
    Reviewers = {}
    Fingerprints = {f1}
    Projections = {2}
    Profiles = {"technical"}
    ZeroSlot = {}
    MaxAttempts = 2
    LeaseTerm = 1
    MaxToken = 0
    MaxVersion = 0
    None = None
SYMMETRY Interchangeable
INVARIANTS
    ExhaustionNeedsLostLease
CHECK_DEADLOCK FALSE
