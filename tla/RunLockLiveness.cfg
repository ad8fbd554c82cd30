SPECIFICATION FairSpec
CONSTANTS
    Run = {r1, r2}
    NoRun = NoRun
    TTL = 2
    RenewInterval = 1
    AcquireTimeout = 1
    ReleaseTimeout = 1
    MaxStray = 0
PROPERTIES
    ReleaseCompletes
    LostLeaseCanceled
