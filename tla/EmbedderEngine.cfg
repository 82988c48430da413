CONSTANTS
    Plugin = {k}
    Time = {0, 1}
    MaxTasks = 2
    MaxUiTasks = 1
    MaxAnswers = 2
    MaxFrames = 2
    DropsInTask = FALSE
SPECIFICATION FairSpec
INVARIANTS UsedWhileAlive NothingForgotten
 
CHECK_DEADLOCK FALSE
