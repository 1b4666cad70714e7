CONSTANTS
    None = None
    MaxGen = 2
    MaxCalls = 1
    MaxTaskCalls = 1
    MaxPlanRuns = 1
    MaxEvalRuns = 2
    MaxSelfRuns = 1
    RotateAt = 1
    MaxCrashes = 1
    MaxFaults = 1
    Layouts = {TRUE, FALSE}
SPECIFICATION Spec
INVARIANTS SessionsServed ReadersAgree
PROPERTIES CostsSound
CHECK_DEADLOCK FALSE
