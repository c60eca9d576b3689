CONSTANTS
    line = line
    press = press
    open = open
    Requests <- MCRequests
    Body <- MCBody
    k1 = k1
    k2 = k2
    Keys = {k1, k2}
    Keyings <- OwnKeys
    Attempts = 2
    Patient = FALSE
    None = None
SPECIFICATION ApiSpec
INVARIANT NothingTypedTwice
CHECK_DEADLOCK FALSE
