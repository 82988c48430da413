CONSTANTS
    QueueId = {p, u}
    kUnmerged = kUnmerged
    ObserverKey = {k}
    Time = {0, 1}
    OrderRange = 100
    MaxTasks = 3
    MaxPauses = 0
    MergedResume = FALSE
    Client = {c}
    Joinable = {u}
    NoTask = NoTask
    MaxMerges = 1
SPECIFICATION FairLoopSpec
PROPERTY LoopsSettle
CHECK_DEADLOCK FALSE
