\* Two requests on one conversation, one failed statement and one restart.
SPECIFICATION Spec
CONSTANTS
    Conversations = {c1}
    Requests = {r1, r2}
    Absent = Absent
    Reserved = Reserved
    NoText = NoText
    MaxDeltas = 2
    MaxFaults = 1
    MaxCrashes = 1
SYMMETRY Symmetry
CHECK_DEADLOCK FALSE
INVARIANTS
    RegistryExact
    RepliesKeepTheirPrompt
    StreamingHasWriter
PROPERTIES
    ImplementsSlots
    StopWins
