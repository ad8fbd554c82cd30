SPECIFICATION FairSpec
CONSTANTS
    Cron = Cron
    Admin = {a1, a2}
    Outside = Outside
    Nobody = Nobody
INVARIANTS
    ShutdownOutlivesCounted
PROPERTIES
    RunsDrain
