SPECIFICATION Spec
CONSTANTS
    Handlers = {h1, h2}
    MaxAttempts = 2
    MaxCodes = 2
    None = none
SYMMETRY Symmetry
INVARIANTS TypeOK SingleUse NewestCodeStands GuessesBounded
CHECK_DEADLOCK FALSE
