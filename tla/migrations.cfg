\* Two operators, two versions that can be applied, and manager.py.
SPECIFICATION FairSpec
CONSTANTS
    v1 = v1
    v2 = v2
    manager = manager
    Files <- MCFiles
    Upgradable = {v1, v2}
    Operators = {o1, o2}
INVARIANTS RecordedIsApplied RecordsInOrder NothingPastFailure
PROPERTIES RunsEnd
