SPECIFICATION Spec
CONSTANTS
    blue = blue
    green = green
    None = None
    Instances = {blue}
    LastBucket = 2
    MaxSamples = 3
    Retention = 2
PROPERTIES
    RunningTotalsNeverFall
CHECK_DEADLOCK FALSE
