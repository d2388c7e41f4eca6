SPECIFICATION Spec
CONSTANTS
    Users = {ua, ub}
    Stranger = stranger
    Posts = {r1, r2, r3}
    Cancels = {c1}
    Fetches = {}
    None = none
    Ttl = 2
    Window = 1
    MaxTime = 2
    RowLocks = FALSE
    Faults = TRUE
SYMMETRY Symmetry
INVARIANTS TypeOK PairsReciprocal LinksMatchPairs OnePairPerCouple NoMissedPair
PROPERTY NoLostUpdates
CHECK_DEADLOCK FALSE
