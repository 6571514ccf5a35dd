\* A signal or an error before __enter__ leaves the instance running.
CONSTANTS
    SIGINT = SIGINT
    SIGTERM = SIGTERM
    SigOrder <- MCSigOrder
    OrigAction <- MCOrigAction
    VolTries = 2
    ListTries = 2
    Timeout = 20
    NBoot = 2
    TermMayFail = FALSE
    MaxSignals = 1
SPECIFICATION Spec
INVARIANT NoLeakAtEnd
CHECK_DEADLOCK FALSE
