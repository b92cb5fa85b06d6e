SPECIFICATION Spec
CONSTANTS
    e = e
    Executors <- MCExecutors
    MaxAttempts = 2
    Restricted = TRUE
    MaxRuns = 2
    MaxCrashes = 0
INVARIANT JudgedAsVerified
CHECK_DEADLOCK FALSE
