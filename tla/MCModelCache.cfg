SPECIFICATION Spec
CONSTANTS
    r1 = r1
    r2 = r2
    k1 = k1
    k2 = k2
    None = None
    Requests = {r1, r2}
    Keys = {k1, k2}
    FetchSlots = 1
SYMMETRY Symmetry
INVARIANTS
    OneFlightPerKey
    SlotsExact
    AnswersOwnKey
    DiskHoldsFullModels
PROPERTIES
    NoDuplicateFetch
    VerdictNeverReplacesPut
    ImplementsSharedFetch
CHECK_DEADLOCK FALSE
