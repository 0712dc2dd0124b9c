SPECIFICATION EgressSpec
CONSTANTS
    r1 = r1
    r2 = r2
    r3 = r3
    Requests = {r1, r2, r3}
    Window = 4
    Strikes = 3
    PauseMin = 2
    PauseMax = 5
    AttemptMax = 1
    ProbeWindow = 2
    Original = Original
    None = None
    Fetches = {r1, r2, r3}
    SessionCount = 3
    WwwSessions = 2
    Cooldown = 1
    Rtts = {1, 2}
    Hour = 9
INVARIANTS
    FailuresCounted
    OneProbe
    PendingExact
    MeasuredOnOwnClient
PROPERTIES
    OnlyProbesLengthenPause
    PausedGateIsProbed
    RotatesOnlyItsOwnClient
    DearestNeverChosen
CHECK_DEADLOCK FALSE
