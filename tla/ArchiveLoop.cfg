SPECIFICATION MCSpec
CONSTANTS
    None = None
    Absent = Absent
    Empty = Empty
    Instances = {a, b, c}
    Small = {a}
    Medium = {b}
    MaxWorkers = 2
    Configs <- CommandLines
    GivenPatches <- PatchBatches
    MaxGen = 2
    MaxAttempts = 1
    MaxRestarts = 1
INVARIANTS ArchiveSound ScoresSound
PROPERTIES NothingRevived LoopEnds
CHECK_DEADLOCK FALSE
