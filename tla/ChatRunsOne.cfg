\* One conversation and three requests for a reply, nothing fails.
SPECIFICATION Spec
CONSTANTS
    Conversations = {c1}
    Requests = {r1, r2, r3}
    Absent = Absent
    Reserved = Reserved
    NoText = NoText
    MaxDeltas = 0
    MaxFaults = 0
    MaxCrashes = 0
SYMMETRY Symmetry
CHECK_DEADLOCK FALSE
INVARIANTS
    PromptStands
    RepliesStand
PROPERTIES
    RenameSurvives
