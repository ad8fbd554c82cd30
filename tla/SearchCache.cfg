SPECIFICATION FairSpec
CONSTANTS
    Request = {r1, r2}
    Server = {s1, s2}
    JobId = {j1}
    PageTTL = 2
    Lifetimes = {1, 2}
    MaxTime = 1
    MaxChanges = 1
    MaxVersion = 2
INVARIANTS CacheIsExact NothingStaleServed SingleFlight
PROPERTY RequestsEnd
CHECK_DEADLOCK FALSE
