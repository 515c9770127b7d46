\* Two uploads that may outlive their hour, one failed call, one restart.
SPECIFICATION FairSpec
CONSTANTS
    Uploads = {u1, u2}
    Names = {n1, n2}
    Sizes = {1}
    Quota = 1
    Listings = {l1}
    Nobody = Nobody
    Removed = Removed
    SlowUploads = TRUE
    MaxFaults = 1
    MaxCrashes = 1
CHECK_DEADLOCK FALSE
INVARIANTS
    ShownHasBytes
PROPERTIES
    ReservationEnds
    UploadEnds
