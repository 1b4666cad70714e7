CONSTANTS
    Nothing = Nothing
    Sessions = {"evaluator", "planner"}
    Files = {"task", "evaluator", "planner"}
    InitialHealth = {"ok", "invalid", "unparseable"}
    RetryK = 1
    MaxRounds = 2
    InfraFaults = TRUE
    Arrangements = {TRUE, FALSE}
SPECIFICATION FairRepoSpec
INVARIANTS CleanWhenFree VerdictIsSolitary
PROPERTIES HealthNeverWorse CommitsOnCleanTree RoundCompletes
CHECK_DEADLOCK FALSE
