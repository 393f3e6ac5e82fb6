SPECIFICATION Spec
CONSTANTS
    Articles = {a1}
    Jobs = {j1}
    Workers = {w1, w2}
    Reviewers = {}
    Fingerprints = {f1}
    Projections = {2}
    Profiles = {"auto"}
    ZeroSlot = {}
    MaxAttempts = 1
    LeaseTerm = 1
    MaxToken = 2
    MaxVersion = 0
    None = None
SYMMETRY Interchangeable
INVARIANTS
    SavedDraftNotExhausted
CHECK_DEADLOCK FALSE
