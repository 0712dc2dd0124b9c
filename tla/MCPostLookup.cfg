SPECIFICATION Spec
CONSTANTS
    f1 = f1
    f2 = f2
    None = None
    Lookups = {f1, f2}
    HelperSlots = 1
SYMMETRY Symmetry
INVARIANTS
    PendingExact
    HelperSlotsExact
    LongAnswersAskHelper
    GateReachesCaller
CHECK_DEADLOCK FALSE
