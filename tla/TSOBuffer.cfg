SPECIFICATION Spec
CONSTANTS
    Threads = {t1, t2}
    WordSize = 4
    ByteValues = 4
    kMaxInputSize = 2
    kMaxBufferSize = 3
    Accesses <- ByteAndWord
    StoredBytes = {1}
    Vectors <- FlushVectors
    MaxStores = 3
    MaxFeeds = 1
INVARIANTS
    FirstFlushInOrder
    BoundedDelay
    FlushIsBarrier
    ExitDrains
CHECK_DEADLOCK FALSE
