\* A secure-mode instance reuses the open group its builder found.
CONSTANTS
    s1 = s1
    s2 = s2
    v1 = v1
    v2 = v2
    g1 = g1
    g2 = g2
    g3 = g3
    g4 = g4
    Sessions <- MCSessions
    GroupIds <- MCGroupIds
    Vpcs <- MCOneVpc
    AuthMayFail = FALSE
    DeleteMayFail = FALSE
    BadRules = FALSE
    ModesAgree = FALSE
SPECIFICATION Spec
INVARIANT PostureRespected
\* Every session ends (done or failed); a finished run is not a deadlock.
CHECK_DEADLOCK FALSE
