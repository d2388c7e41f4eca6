SPECIFICATION Spec
CONSTANTS
    Users = {ua, ub}
    Stranger = stranger
    Posts = {r1, r2}
    Cancels = {}
    Fetches = {}
    None = none
    Ttl = 2
    Window = 1
    MaxTime = 1
    RowLocks = TRUE
    Faults = FALSE
INVARIANT FailedDetectionStillAnswered
CHECK_DEADLOCK FALSE
