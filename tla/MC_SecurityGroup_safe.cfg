\* Rules the code authorizes, under every failure the provider may return.
CONSTANTS
    s1 = s1
    s2 = s2
    v1 = v1
    v2 = v2
    g1 = g1
    g2 = g2
    g3 = g3
    g4 = g4
    Sessions <- MCSessions
    GroupIds <- MCGroupIds
    Vpcs <- MCVpcs
    AuthMayFail = TRUE
    DeleteMayFail = TRUE
    BadRules = TRUE
    ModesAgree = FALSE
SPECIFICATION Spec
SYMMETRY MCSymmetry
INVARIANTS
    TypeOK
    GroupPostureMatchesName
\* Every session ends (done or failed); a finished run is not a deadlock.
CHECK_DEADLOCK FALSE
