SPECIFICATION Spec
CONSTANTS
    Scopes = {s1}
    Orders = {o1, o2}
    Keys = {k1, k2}
    Kinds = {"completed", "succeeded", "expired", "revoking"}
    Servers = {w1, w2}
    None = None
SYMMETRY Interchangeable
INVARIANTS
    TypeOK
    ReplacedNeverCharged
    CompletionNotLost
    SettlementNotBlocked
PROPERTIES
    SellsOnce
CHECK_DEADLOCK FALSE
