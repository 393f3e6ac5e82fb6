SPECIFICATION Spec
CONSTANTS
    Articles = {a1}
    Jobs = {j1, j2}
    Workers = {w1, w2}
    Reviewers = {r1, r2}
    Fingerprints = {f1}
    Projections = {2}
    Profiles = {"review"}
    ZeroSlot = {}
    MaxAttempts = 1
    LeaseTerm = 1
    MaxToken = 4
    MaxVersion = 2
    None = None
SYMMETRY Interchangeable
INVARIANTS
    ApprovedStaysPublishable
    ReviewedPublication
CHECK_DEADLOCK FALSE
