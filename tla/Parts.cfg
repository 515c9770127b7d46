\* Two members with a provider, two services and an invoice; two legacy keys and
\* two cuts; five requests for two listings; texts of three pieces or four.
SPECIFICATION Spec
CONSTANTS
    ProviderIds = {p1}
    ServiceIds = {s1, s2}
    InvoiceIds = {i1}
    Members = {m1, m2}
    Days = {0, 1}
    NoService = NoService
    NoCall = NoCall
    Keys = {k1, k2}
    Folded = {a, b}
    FileIds = {f1, f2, f3, f4}
    NoKey = NoKey
    NoRow = NoRow
    MaxAborts = 2
    Views = {v1, v2}
    Pages = 2
    MaxAsked = 5
    Characters <- MCCharacters
    Open <- MCOpen
    Close <- MCClose
    Space <- MCSpace
    Texts <- MCTexts
    MaxPieces = 3
SYMMETRY Symmetry
CHECK_DEADLOCK FALSE
INVARIANTS
    DisorderNeedsOverlap
    DueNeedsNoLuck
    NoBytesLost
    LeftoversNeedAnAbort
    ShowsOneListing
    SplitAsOnePiece
PROPERTIES
    OnlyTheUnseenGoes
