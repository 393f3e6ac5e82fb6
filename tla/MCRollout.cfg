SPECIFICATION Spec
CONSTANTS
    Jobs = {j1, j2}
    MaxJobs = 1
    Window = 2
    Capacity = 2
    MaxAttempts = 2
    MaxClock = 3
    None = None
SYMMETRY Interchangeable
VIEW Told
INVARIANTS
    QuotaKept
    DeliveredOnce
PROPERTIES
    AdmitsOnce
    DisabledSpendsNothing
