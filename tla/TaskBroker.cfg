CONSTANTS
    None = None
    G = 2
    Imax = 2
    MaxAttempts = 2
    MaxConns = 2
    Faults = TRUE
SPECIFICATION FairSpec
INVARIANTS LaunchesSound ReportedIsRevoked
PROPERTIES RunEnds
CHECK_DEADLOCK FALSE
