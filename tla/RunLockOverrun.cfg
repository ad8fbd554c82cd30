SPECIFICATION PromptSpec
CONSTANTS
    Run = {r1, r2}
    NoRun = NoRun
    TTL = 6
    RenewInterval = 2
    AcquireTimeout = 1
    ReleaseTimeout = 1
    MaxStray = 1
INVARIANT LiveLeasesExclusive
