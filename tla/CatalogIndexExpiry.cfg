SPECIFICATION Spec
CONSTANTS
    Job = {j1, j2}
    Family = {x, y}
    Worker = {w1, w2}
    Version = {v1}
    Bootstrap = bootstrap
    Forever = forever
    Lifetime = 1
    MaxTime = 1
    MaxRevision = 2
INVARIANT RemovedEverywhere
