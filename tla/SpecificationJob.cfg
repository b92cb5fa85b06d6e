SPECIFICATION FairSpec
CONSTANTS
    e = e
    Executors <- MCExecutors
    MaxAttempts = 3
    Restricted = FALSE
    MaxRuns = 3
    MaxCrashes = 1
INVARIANTS
    RepairsWhatFailed
    SuccessIsOneRun
    CanonicalWasJudged
PROPERTIES
    ImplementsBoundedRepair
    SuccessIsJudged
CHECK_DEADLOCK FALSE
