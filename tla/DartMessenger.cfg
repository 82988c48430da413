CONSTANTS
    ui = ui
    Sender = {ui}
    Platform = main
    Executor = {e1, e2}
    Dispatcher <- MCDispatcher
    NoRunnable = NoRunnable
    NoHandler = NoHandler
    Unanswered = {2}
    MaxMessages = 3
    MaxCalls = 2
SPECIFICATION FairSpec
INVARIANTS NoneStranded InOnePlace AnsweredOnce OnlyBufferedAreOvertaken
PROPERTIES KeepsSerialOrder MessagesAreHandled
CHECK_DEADLOCK FALSE
