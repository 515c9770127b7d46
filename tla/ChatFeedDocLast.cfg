\* One tab, one request, nothing asked elsewhere, nothing fails.
SPECIFICATION Spec
CONSTANTS
    Absent = Absent
    Reserved = Reserved
    NoStream = NoStream
    MaxRequests = 1
    MaxDeltas = 1
    MaxOpens = 1
    MaxFailures = 0
    KindsElsewhere = {}
CHECK_DEADLOCK FALSE
INVARIANTS
    StreamedIsLast
