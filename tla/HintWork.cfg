CONSTANTS
    Procs = {p1, p2}
    Hints = {"a", "b", "c", "d"}
    Coverage <- Coverage4
    Score <- Score4
    Untested = {"d"}
    Computed <- Lists
    Received = {2}
    spillThreshold = 1
    MaxPairs = 2
    MaxWork = 2
SPECIFICATION FairSpec
INVARIANTS
    CountersExact
    OneOwner
PROPERTY
    Drains
CHECK_DEADLOCK FALSE
