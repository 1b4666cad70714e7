CONSTANTS
    None = None
    OuterGenerations = 1
    Limits <- FaultLimits
    Patience = 1
    Scores = {0, 2}
    Modes = {"fresh"}
    PatchOutcomes = {"good", "bad", "none"}
    Faults = {"plan", "task", "trajectory", "evaluator"}
    MaxStarts = 1
    MaxCrashes = 0
SPECIFICATION FairSpec
INVARIANTS FaultsContained
PROPERTIES RunEnds
CHECK_DEADLOCK FALSE
