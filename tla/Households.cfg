\* Two people and six requests, three at once.
SPECIFICATION Spec
CONSTANTS
    People = {p1, p2}
    Given = {"viewer"}
    MaxRequests = 6
    MaxOpen = 3
CHECK_DEADLOCK FALSE
SYMMETRY Symmetry
INVARIANTS
    OneOwner
    LinkForOne
    NobodyStuck
PROPERTIES
    AlreadyMemberIsTrue
    ImplementsMembership
