\* Safety, refinement and termination of the lifecycle under four nested signals, failing requests and three tries per loop.
CONSTANTS
    SIGINT = SIGINT
    SIGTERM = SIGTERM
    SigOrder <- MCSigOrder
    OrigAction <- MCOrigAction
    VolTries = 3
    ListTries = 3
    Timeout = 30
    NBoot = 2
    TermMayFail = TRUE
    MaxSignals = 4
SPECIFICATION FairSpec
INVARIANTS
    TypeOK
    ClearedMeansTerminated
    ScopeExitReleases
PROPERTIES
    AbandonedNeverTerminated
    AbsSpec
    Termination
\* The script ends; a stopped process is not a deadlock.
CHECK_DEADLOCK FALSE
