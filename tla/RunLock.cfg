SPECIFICATION Spec
CONSTANTS
    Run = {r1, r2}
    NoRun = NoRun
    TTL = 3
    RenewInterval = 1
    AcquireTimeout = 1
    ReleaseTimeout = 1
    MaxStray = 1
INVARIANTS
    SafeLeaseOwnsLock
PROPERTIES
    StateFenced
    ServiceSpec
