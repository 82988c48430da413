CONSTANTS
    Size = {0, 1, 2}
    kDefaultBufferSize = 1
    ListenersThrow = TRUE
    MaxMessages = 5
    MaxCalls = 6
    MaxDepth = 2
SPECIFICATION FairSpec
INVARIANTS TypeOK NothingWaitsForListener DeliveredInOrder Accounted OneDrain
PROPERTY ListenerIsServed
CHECK_DEADLOCK FALSE
