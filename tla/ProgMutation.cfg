SPECIFICATION Spec
CONSTANTS
    ncalls = 5
    kMaxPendingThreads = 1
    Accesses <- HintAccesses
    MaxEdits = 2
    MaxInsert = 2
INVARIANTS
    ContendersKept
    Executable
    EpochsInOrder
CHECK_DEADLOCK FALSE
