\* Two overlapping jobs save the same config.
SPECIFICATION Spec
CONSTANTS
    Configs = {c1, c2}
    Jobs = {initial, scheduled}
    MaxSources = 2
    PublishLimit = 2
    MaxRows = 4
SYMMETRY Symmetry
INVARIANTS NoDuplicateRows
