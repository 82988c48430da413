CONSTANTS
    p = p
    u = u
    QueueId = {p, u}
    kUnmerged = kUnmerged
    ObserverKey = {}
    Time = {0}
    OrderRange = 100
    MaxTasks = 20
    MaxPauses = 0
    MergedResume = FALSE
    NoThread = NoThread
    Setting = {"kDisabled", "kEnabled", "kMergeAfterLaunch"}
    Embedder <- Embedders
    MaxRequests = 1
SPECIFICATION FairShellSpec
INVARIANTS ShellInvariant  DartRunsOnOwner ServiceFindsShell MessagesInOrder
PROPERTY ShellSettles
CHECK_DEADLOCK FALSE
