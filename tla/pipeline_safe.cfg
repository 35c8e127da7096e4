\* Two overlapping jobs, two configs, two sources, a queue of two, every crash.
SPECIFICATION Spec
CONSTANTS
    Configs = {c1, c2}
    MaxSources = 2
    PublishLimit = 2
    MaxRows = 3
    Workers = {w1}
    Capacity = 2
    MaxRetries = 0
    None = None
    Faults = {"raise"}
    Initial = initial
    Scheduled = scheduled
SYMMETRY Symmetry
INVARIANTS PublishedIsStored HandedOnce DuplicateBound
PROPERTIES QuietShutdown ImplementsFeed
