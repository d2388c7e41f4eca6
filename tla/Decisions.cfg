SPECIFICATION Spec
CONSTANTS
    Evaluators = {e1, e2}
    Responders = {p1, p2}
    Setups <- FewSetups
    MaxUpdates = 1
    Undecided = undecided
SYMMETRY Symmetry
INVARIANTS TypeOK SelectionMatchesType OneAnnouncement FinalDecisionTold
PROPERTY OneDecision
CHECK_DEADLOCK FALSE
