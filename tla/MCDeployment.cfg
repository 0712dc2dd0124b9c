CONSTANTS
    Settle = 1
    Preview = 2
    Flight = 2
    Sleep = 3
    Shutdown = 3
    NoSlot = NoSlot
SPECIFICATION UndisturbedSpec
INVARIANT LiveSlotIsRouted
CHECK_DEADLOCK FALSE
