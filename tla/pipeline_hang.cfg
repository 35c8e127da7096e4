\* Shutdown after the worker died behind a full queue.
SPECIFICATION FairSpec
CONSTANTS
    Configs = {c1, c2}
    MaxSources = 1
    PublishLimit = 2
    MaxRows = 3
    Workers = {w1}
    Capacity = 1
    MaxRetries = 0
    None = None
    Faults = {"raise"}
    Initial = initial
    Scheduled = scheduled
PROPERTIES ShutdownAlwaysEnds
CHECK_DEADLOCK FALSE
