\* Three requests, an upload of two PDFs among them, one fault and one restart.
SPECIFICATION Spec
CONSTANTS
    Numbers = {n1}
    None = None
    Error = Error
    MaxRequests = 3
    MaxInvoices = 2
    MaxFiles = 2
    MaxFaults = 1
    MaxRestarts = 1
CHECK_DEADLOCK FALSE
INVARIANTS
    StuckNeedsAFault
    OneForm
PROPERTIES
    ValidatedStays
    UploadsEnd
