\* Three items through a queue of two, two workers that may die.
SPECIFICATION FairSpec
CONSTANTS
    Items = {i1, i2, i3}
    Workers = {w1, w2}
    Capacity = 2
    MaxRetries = 1
    None = None
    Faults = {"raise"}
INVARIANTS BroadcasterInv PostBound StopEndsPool
PROPERTIES EventuallyServed
CHECK_DEADLOCK FALSE
