SPECIFICATION FairSpec
CONSTANTS
    Programs <- AllPrograms
    kMaxThreads = 2
    kMaxFallbackThreads = 3
    kMaxPendingThreads = 1
INVARIANTS
    CallsOnce
    EpochBarrier
    
    EveryCallReplied
    PreparedTogether
PROPERTY
    Terminates
CHECK_DEADLOCK FALSE
