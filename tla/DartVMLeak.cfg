CONSTANTS
    a = a
    b = b
    c = c
    NoShell = NoShell
    Shell <- MCShell
    MaxLaunches = 2
    Leaks = {TRUE, FALSE}
SPECIFICATION VMSpec
INVARIANT LeakedNeverShutsDown
CHECK_DEADLOCK FALSE
