CONSTANTS
    Absent = Absent
    Tokens = {t1, p1}
    TaskTokens = {t1}
    Conns = {c1, c2, c3, c4}
    MaxCalls = 2
    MaxInflight = 2
    MaxSlots = 3
    MayExit = TRUE
SPECIFICATION ProxySpec
INVARIANTS CallsAccounted
PROPERTIES RevokedDrains
SYMMETRY ConnSymmetry
CHECK_DEADLOCK FALSE
