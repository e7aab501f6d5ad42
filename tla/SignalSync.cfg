SPECIFICATION FairSpec
CONSTANTS
    VMs = {v1, v2}
    Procs = {p1, p2}
    Elems = {1, 2}
    Prios = {0, 2}
    Progs = {"a", "b"}
    SignalOf <- Signal2
    Shrinks <- Shrinks2
    batchSize = 1
    initialBatch = 2
    splitSize = 1
    dropShare = 2
    NCandidates = 1
    Budgets <- TwoFindOrOneCrashes
INVARIANTS
    
    NothingUnreported
PROPERTIES
    NothingDroppedGlobally
    
