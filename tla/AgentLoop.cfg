SPECIFICATION FairSpec
CONSTANTS
    WindowK = 2
    DropFloor = 400
    MaxOps = 2
    HeaderLen = 1000
    Tools = {t1, t2}
    RepeatLimit = 2
    PoolWorkers = 2
    WedgeLimit = 1
    Sessions <- MCSessions
INVARIANTS ToolsContained SeamSound
PROPERTIES PromisesKept SessionEnds
