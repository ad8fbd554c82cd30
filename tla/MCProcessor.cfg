SPECIFICATION MCSpec
CONSTANTS
    Job = {j1, j2}
    Family = {x, y}
    Worker = {w1, w2}
    Version = {v1}
    Bootstrap = bootstrap
    Forever = forever
    Lifetime = 1
    MaxTime = 1
    MaxRevision = 2
    Copies <- MCCopies
    ScopedTexts = {1}
    ClassifyBatch = 3
    PersistBatch = 2
    IndexBatch = 2
    MaxReceived = 6
INVARIANTS OnlyCommitted ConfirmedIsShown ReclassifiesCurrent IndexFollowsCatalog ConfirmedIsIndexed SuccessIsSearchable
PROPERTIES SearchNeverGoesBack PublishLosesNothing ChangesAreAnnounced
SYMMETRY MCSymmetry
