SPECIFICATION KSpec
CONSTANTS
    Requests = {r1, r2}
    Keywords = {go, rust}
    Defaults = {go}
    None = None
INVARIANT TakesWhatItRead
CHECK_DEADLOCK FALSE
