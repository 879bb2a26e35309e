SPECIFICATION KeyFairSpec
CONSTANTS
    Callers = {c1, c2}
    LOCK_TTL = 3
    RESULT_TTL = 4
    POLL_MAX_ATTEMPTS = 3
    MaxRun = 2
    RedisMayFail = TRUE
    NoResult = NoResult
INVARIANTS OneRunner NoRerunWhileFresh
PROPERTIES CallersEnd
