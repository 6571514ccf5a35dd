\* Two sessions that both find no group both create it; the second fails.
CONSTANTS
    s1 = s1
    s2 = s2
    v1 = v1
    v2 = v2
    g1 = g1
    g2 = g2
    g3 = g3
    g4 = g4
    Sessions <- MCSessions
    GroupIds <- MCGroupIds
    Vpcs <- MCOneVpc
    AuthMayFail = FALSE
    DeleteMayFail = FALSE
    BadRules = FALSE
    ModesAgree = TRUE
SPECIFICATION Spec
INVARIANT SessionsShareGroup
\* Every session ends (done or failed); a finished run is not a deadlock.
CHECK_DEADLOCK FALSE
