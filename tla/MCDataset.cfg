SPECIFICATION FairSpec
CONSTANTS
    Payments = {p1, p2}
    Misdirected = {}
    Snapshots = {s1, s2}
    Sections = {d1}
    Workers = {w1}
    MaxDeliveries = 2
    MaxFaults = 1
    None = None
INVARIANTS
    TypeOK
    OneRevisionPerJob
    NothingIsLost
PROPERTIES
    DeliversWhatWasPaid
    PublishedStays
    RevokedStaysClosed
    PaidIsServed
    SectionIsSettled
