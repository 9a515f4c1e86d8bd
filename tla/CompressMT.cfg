SPECIFICATION FairSpec
CONSTANTS
    writer = writer  NoJob = NoJob  NULL = NULL
    TWorkers = {w1, w2, w3}
    TQueueSize = 2
    WQueueSize = 1
    MaxChunks = 3
    Ranks = {0, 1, 2, 3}
    WR_INITIAL_BUFFER_POOL_SIZE = 1
INVARIANTS FrameRight
PROPERTIES ImplementsRegisterUse Terminates
