\* A signal while terminate-instances is in flight makes a second request.
CONSTANTS
    SIGINT = SIGINT
    SIGTERM = SIGTERM
    SigOrder <- MCSigOrder
    OrigAction <- MCOrigAction
    VolTries = 2
    ListTries = 2
    Timeout = 20
    NBoot = 2
    TermMayFail = FALSE
    MaxSignals = 1
SPECIFICATION Spec
INVARIANT OneTerminationRequest
CHECK_DEADLOCK FALSE
