\* Three folders, a file and three requests, all at once.
SPECIFICATION Spec
CONSTANTS
    Folders = {a, b, c}
    Files = {f}
    Root = Root
    Requests = {r1, r2, r3}
    Live = Live
CHECK_DEADLOCK FALSE
SYMMETRY Symmetry
INVARIANTS
    CyclesNeedTwoMoves
    OrphansNeedARace
    SurprisesNeedARace
