CONSTANTS
    None = None
    OuterGenerations = 2
    Limits <- RestartLimits
    Patience = 1
    Scores = {2}
    Modes = {"fresh", "resume", "force"}
    PatchOutcomes = {"good"}
    Faults = {}
    MaxStarts = 3
    MaxCrashes = 1
SPECIFICATION Spec
INVARIANTS FreshIds GenerationsSound ResumesSound
PROPERTIES SnapshotsImmutable GenerationsKept
CHECK_DEADLOCK FALSE
