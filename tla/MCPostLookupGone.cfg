SPECIFICATION Spec
CONSTANTS
    f1 = f1
    f2 = f2
    None = None
    Lookups = {f1}
    HelperSlots = 1
INVARIANTS
    GonePostStaysGone
CHECK_DEADLOCK FALSE
