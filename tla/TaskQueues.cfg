CONSTANTS
    QueueId = {q1, q2}
    kUnmerged = kUnmerged
    ObserverKey = {k1}
    Time = {0, 1}
    OrderRange = 100
    MaxTasks = 2
    MaxPauses = 1
    MergedResume = FALSE
SYMMETRY Symmetry
SPECIFICATION Spec
INVARIANTS MergeInvariant ServedByExactlyOne WakeCoversNextTask HandsOutInOrder
PROPERTY KeepsSchedule
CHECK_DEADLOCK FALSE
