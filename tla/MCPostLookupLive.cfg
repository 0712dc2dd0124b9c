SPECIFICATION FairSpec
CONSTANTS
    f1 = f1
    f2 = f2
    None = None
    Lookups = {f1}
    HelperSlots = 1
PROPERTIES
    LookupEnds
    HelperSlotFreed
CHECK_DEADLOCK FALSE
