CONSTANTS
    a = a
    b = b
    c = c
    NoShell = NoShell
    Shell <- MCShell
    MaxLaunches = 4
    Leaks = {TRUE, FALSE}
SPECIFICATION FairVMSpec
INVARIANTS OneVM ServiceFindsItsVM
PROPERTY VMSettles
CHECK_DEADLOCK FALSE
