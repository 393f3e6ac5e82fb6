SPECIFICATION Spec
CONSTANTS
    Articles = {a1}
    Jobs = {j1, j2}
    Workers = {w1, w2}
    Reviewers = {}
    Fingerprints = {f1}
    Projections = {2}
    Profiles = {"technical"}
    ZeroSlot = {}
    MaxAttempts = 2
    LeaseTerm = 1
    MaxToken = 3
    MaxVersion = 0
    None = None
SYMMETRY Interchangeable
INVARIANTS
    TypeOK
    ActiveIsCurrent
    OneDispatchPerAttempt
    OpenDeliveryAccounted
PROPERTIES
    StaleWorkerWritesNothing
    PublishedForGood
CHECK_DEADLOCK FALSE
