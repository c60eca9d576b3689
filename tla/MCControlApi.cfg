CONSTANTS
    line = line
    press = press
    open = open
    Requests <- MCRequests
    Body <- MCBody
    k1 = k1
    k2 = k2
    Keys = {k1, k2}
    Keyings <- AllKeyings
    Attempts = 2
    Patient = TRUE
    None = None
SPECIFICATION ApiSpec
INVARIANTS
    ApiTypeOK
    OkMeansDone
    AcknowledgedIsFinal
CHECK_DEADLOCK FALSE
