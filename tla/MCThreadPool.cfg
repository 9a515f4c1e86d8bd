SPECIFICATION FairSpecAll
CONSTANTS
    w1 = w1  w2 = w2  c1 = c1  c2 = c2
    j1 = j1  j2 = j2  j3 = j3  j4 = j4
    NoJob = NoJob
    Parts = {"posix", "windows"}
    Workers = {w1, w2}
    Clients = {c1, c2}
    Callers <- TwoClientCallers
    Jobs = {j1, j2, j3, j4}
    QueueSize = 1
    Spawns <- ChainSpawns
INVARIANTS NoSleeperMissesAJob WindowsPoolSound
PROPERTIES JobsComplete ImplementsJobPool PoolProgresses FreshCompletionReturns
CHECK_DEADLOCK FALSE
