SPECIFICATION Spec
CONSTANTS
    blue = blue
    green = green
    None = None
    Instances = {blue, green}
    LastBucket = 2
    MaxSamples = 2
    Retention = 2
SYMMETRY Symmetry
INVARIANTS
    NothingCountedTwice
    NothingLost
CHECK_DEADLOCK FALSE
