\* One tab, two requests made in it or elsewhere, and everything that can go
\* wrong once.
SPECIFICATION Spec
CONSTANTS
    Absent = Absent
    Reserved = Reserved
    NoStream = NoStream
    MaxRequests = 2
    MaxDeltas = 1
    MaxOpens = 1
    MaxFailures = 1
    KindsElsewhere = {"send", "edit", "regenerate"}
CHECK_DEADLOCK FALSE
INVARIANTS
    DoneOrNoRun
    
    ShownIsStored
PROPERTIES
    SpinEnds
