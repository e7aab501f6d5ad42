SPECIFICATION Spec
CONSTANTS
    Kernels <- BarriersAndLocks
    MAX_LOCK_COUNT = 32
    loopAllowed = {1}
INVARIANTS
    BarriersRespected
    NoCommonLock
    OrderIrrelevant
    MessagePassingFound
CHECK_DEADLOCK FALSE
