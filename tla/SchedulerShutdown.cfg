SPECIFICATION Spec
CONSTANTS
    Cron = Cron
    Admin = {a1, a2}
    Outside = Outside
    Nobody = Nobody
INVARIANT ShutdownFreesLock
