\* Two jobs wait for places in a queue of one; shutdown at any point.
SPECIFICATION FairSpec
CONSTANTS
    Configs = {c1, c2}
    MaxSources = 1
    PublishLimit = 1
    MaxRows = 3
    Workers = {w1}
    Capacity = 1
    MaxRetries = 0
    None = None
    Faults = {}
    Initial = initial
    Scheduled = scheduled
PROPERTIES SavedIsServed JobsEnd ShutdownEnds
CHECK_DEADLOCK FALSE
