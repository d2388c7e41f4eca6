SPECIFICATION Spec
CONSTANTS
    Users = {u1, u2}
    Phones = {u1}
    Sockets = {s1, s2}
    MaxEvents = 2
    MaxTurns = 2
INVARIANTS TypeOK NothingDropped InOrder InstructionHeard ProceedPlacesCall
PROPERTY StandbyIsKept
CHECK_DEADLOCK FALSE
