\* Two requests on one conversation, a failed statement, and a model that may
\* stay silent for ever: what ends then, and what ends if it answers.
SPECIFICATION OrderedSpec
CONSTANTS
    Conversations = {c1}
    Requests = {r1, r2}
    Absent = Absent
    Reserved = Reserved
    NoText = NoText
    MaxDeltas = 1
    MaxFaults = 1
    MaxCrashes = 0
CHECK_DEADLOCK FALSE
PROPERTIES
    EveryReplyEnds
    StopEnds
