SPECIFICATION Spec
CONSTANTS
    a1 = a1
    a2 = a2
    Providers = {p1}
    Articles = {a1, a2}
    PageOf <- TwoPages
    Repeated = {a1}
    Indexers = {x1}
    LastPage = 1
    MaxAttempts = 2
    MaxGeneration = 1
    MaxEdits = 1
    Orders = {o1}
    Passes = {q1, q2}
    None = None
SYMMETRY Interchangeable
INVARIANTS
    TypeOK
    ReadyIsIndexed
PROPERTIES
    IndexMirrorsListing
    ReadyNotTakenBack
CHECK_DEADLOCK FALSE
