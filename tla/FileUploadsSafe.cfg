\* Three uploads of two names and two sizes against a quota of two bytes, one
\* sweep, one failed call to the bucket and one restart.
SPECIFICATION Spec
CONSTANTS
    Uploads = {u1, u2, u3}
    Names = {n1, n2}
    Sizes = {1, 2}
    Quota = 2
    Listings = {l1}
    Nobody = Nobody
    Removed = Removed
    SlowUploads = FALSE
    MaxFaults = 1
    MaxCrashes = 1
CHECK_DEADLOCK FALSE
SYMMETRY Symmetry
INVARIANTS
    VersionsNumbered
    NewFilesFitQuota
    OrphansKnown
PROPERTIES
    ImplementsDrive
