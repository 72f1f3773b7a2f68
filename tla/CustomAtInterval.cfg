SPECIFICATION Spec
CONSTANTS
    Metrics = {"a", "b"}
    Interval <- MCInterval
    SlowInterval <- MCSlowInterval
    Update = 1
    MaxCollect = 2
    MaxTime = 9
CHECK_DEADLOCK FALSE
PROPERTY CustomAtInterval
