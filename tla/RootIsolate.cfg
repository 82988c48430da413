CONSTANTS
    Locale = {en, fr}
    en = en
    Flags <- EachFlag
    DirectLoadErrors = FALSE
    MaxCalls = 3
    MaxMessages = 1
    MaxRequests = 1
    MaxMicrotasks = 1
SPECIFICATION FairSpec
INVARIANT AllOrNothing
PROPERTY IsolateSettles
CHECK_DEADLOCK FALSE
