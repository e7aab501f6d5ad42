CONSTANTS
    Procs = {p1, p2, p3}
    c = 6
    hasF = TRUE
SPECIFICATION FairSpec
INVARIANTS
    NotBroken
    SleepsForReason
PROPERTIES
    AloneInCallback
    CallbackPerBatch
    WaitersWake
