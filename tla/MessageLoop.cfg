CONSTANTS
    QueueId = {p, u}
    kUnmerged = kUnmerged
    ObserverKey = {k}
    Time = {0}
    OrderRange = 100
    MaxTasks = 4
    MaxPauses = 0
    MergedResume = FALSE
    Client = {c}
    Joinable = {u}
    NoTask = NoTask
    MaxMerges = 2
SPECIFICATION LoopSpec
INVARIANTS LoopInvariant TaskKnowsItsThread OverlapOnlyWhileMerging
CHECK_DEADLOCK FALSE
