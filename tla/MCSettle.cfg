SPECIFICATION FairSpec
CONSTANTS
    Articles = {a1}
    Jobs = {j1, j2}
    Workers = {w1}
    Reviewers = {r1}
    Fingerprints = {f1, z1}
    Projections = {2}
    Profiles = {"review", "auto"}
    ZeroSlot = {z1}
    MaxAttempts = 2
    LeaseTerm = 1
    MaxToken = 2
    MaxVersion = 0
    None = None
INVARIANTS
    NoJobStranded
    AutomaticDraftStaysValid
PROPERTIES
    EveryJobSettles
CHECK_DEADLOCK FALSE
