SPECIFICATION FairSpec
CONSTANTS
    None = None
    PoolSize = 4
    NumSamples = 3
    Workers = 2
    SaveInterval = 2
    MaxStarts = 2
    FileCap = 2
    TotalCap = 3
    Jobs <- MCJobs
INVARIANTS AnswersSound HarnessIsolated
PROPERTIES AnswersKept EvaluationEnds
