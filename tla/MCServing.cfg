CONSTANTS
    r1 = r1
    r2 = r2
    r3 = r3
    b1 = b1
    b2 = b2
    Clients <- MCClients
    Slots = 2
    Bots <- MCBots
    HourlyLimit = 1
    MaxKeys = 1
    BacklogSize = 1
    LastHour = 1
    NoOne = NoOne
    Minute = 1
    Partial = 2
    Margin = 2
    Hour = 3
    Day = 4
    Capability = 5
    CDNExpiries <- MCCDNExpiries
    MaxTime = 5
    Never = 99
    RingSize = 5
    ClosedPercent = 40
    Settle = 1
    Preview = 2
    Flight = 2
    Sleep = 3
    Shutdown = 3
    NoSlot = NoSlot
    MaxSubmits = 4
SPECIFICATION ServingSpec
INVARIANTS
    ServingTypeOK
    BotCapKept
    QueriesMerged
    EdgeKeepsNothingProvisional
    EdgeOutlivesNothing
    DoorJudgesWindow
    ServingSlotHealthy
    DrainSparesRequests
    OldCleanupHarmless
PROPERTIES
    RequestsEnd
    VerificationUnlocks
CHECK_DEADLOCK FALSE
