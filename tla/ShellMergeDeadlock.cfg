CONSTANTS
    p = p
    u = u
    QueueId = {p, u}
    kUnmerged = kUnmerged
    ObserverKey = {}
    Time = {0}
    OrderRange = 100
    MaxTasks = 20
    MaxPauses = 0
    MergedResume = FALSE
    NoThread = NoThread
    Setting = {"kMergeAfterLaunch"}
    Embedder <- Hasty
    MaxRequests = 0
SPECIFICATION FairShellSpec
PROPERTY DestructionEnds
CHECK_DEADLOCK FALSE
