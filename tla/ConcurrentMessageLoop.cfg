CONSTANTS
    Worker = {w1, w2}
    Poster = {a, b}
    NoActor = NoActor
    WorkersPost = TRUE
    MaxTasks = 2
SPECIFICATION FairSpec
INVARIANTS NobodyInDeadLoop NoIdleWorker BroadcastNotLost RunsAtMostOnce
PROPERTY PoolFinishes
CHECK_DEADLOCK FALSE
