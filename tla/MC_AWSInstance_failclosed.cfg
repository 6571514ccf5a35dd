\* find_volumes raising leaves the untagged instance running.
CONSTANTS
    SIGINT = SIGINT
    SIGTERM = SIGTERM
    SigOrder <- MCSigOrder
    OrigAction <- MCOrigAction
    VolTries = 2
    ListTries = 2
    Timeout = 20
    NBoot = 2
    TermMayFail = FALSE
    MaxSignals = 0
SPECIFICATION Spec
INVARIANT FailClosed
CHECK_DEADLOCK FALSE
