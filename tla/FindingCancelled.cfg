SPECIFICATION Spec
CONSTANTS
    Users = {ua, ub}
    Stranger = stranger
    Posts = {r1, r2}
    Cancels = {c1}
    Fetches = {}
    None = none
    Ttl = 2
    Window = 1
    MaxTime = 1
    RowLocks = FALSE
    Faults = FALSE
PROPERTY CancelledNeverPaired
CHECK_DEADLOCK FALSE
