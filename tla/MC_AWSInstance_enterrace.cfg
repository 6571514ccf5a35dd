\* A signal between saving and installing a handler in __enter__ leaves the guard on a released instance.
CONSTANTS
    SIGINT = SIGINT
    SIGTERM = SIGTERM
    SigOrder <- MCSigOrder
    OrigAction <- MCOrigAction
    VolTries = 2
    ListTries = 2
    Timeout = 20
    NBoot = 2
    TermMayFail = FALSE
    MaxSignals = 1
SPECIFICATION Spec
INVARIANT SignalsRestoredAfterRelease
CHECK_DEADLOCK FALSE
