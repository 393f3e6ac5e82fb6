SPECIFICATION Spec
CONSTANTS
    Articles = {a1}
    Jobs = {j1, j2, j3}
    Workers = {w1}
    Reviewers = {r1}
    Fingerprints = {f1}
    Projections = {1, 2}
    Profiles = {"technical", "review"}
    ZeroSlot = {}
    MaxAttempts = 1
    LeaseTerm = 1
    MaxToken = 1
    MaxVersion = 0
    None = None
SYMMETRY Interchangeable
INVARIANTS
    GenerationsDistinct
    CanonicalMatchesSource
PROPERTIES
    ReadersServed
CHECK_DEADLOCK FALSE
