SPECIFICATION Spec
CONSTANTS
    Evaluators = {e1}
    Responders = {p1}
    Setups <- FewSetups
    MaxUpdates = 0
    Undecided = undecided
INVARIANT NotBothProceed
CHECK_DEADLOCK FALSE
