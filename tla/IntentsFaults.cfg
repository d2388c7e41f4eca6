SPECIFICATION Spec
CONSTANTS
    Users = {ua, ub}
    Stranger = stranger
    Posts = {r1, r2}
    Cancels = {c1}
    Fetches = {f1}
    None = none
    Ttl = 2
    Window = 1
    MaxTime = 3
    RowLocks = TRUE
    Faults = TRUE
SYMMETRY Symmetry
INVARIANTS LinksMatchPairs NoMissedPair
PROPERTY NoLostUpdates
CHECK_DEADLOCK FALSE
