SPECIFICATION Spec
CONSTANTS
    Emails = {ann, bob}
    Phones = {p1, p2}
    Fields = {dnd}
    Handlers = {h1, h2}
    MaxId = 2
    None = none
SYMMETRY Symmetry
CONSTRAINT FewTokens
INVARIANTS TypeOK TokensHold CopyCurrent NothingLeftBehind
PROPERTY AccountsSurvive
CHECK_DEADLOCK FALSE
