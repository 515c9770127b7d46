\* An upload of two PDFs, without faults.
SPECIFICATION Spec
CONSTANTS
    Numbers = {n1}
    None = None
    Error = Error
    MaxRequests = 2
    MaxInvoices = 2
    MaxFiles = 2
    MaxFaults = 0
    MaxRestarts = 1
CHECK_DEADLOCK FALSE
INVARIANT WaitingIsRead
