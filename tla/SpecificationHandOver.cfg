SPECIFICATION FairSpec
CONSTANTS
    e = e
    Executors <- MCExecutors
    MaxAttempts = 2
    Restricted = TRUE
    MaxRuns = 2
    MaxCrashes = 1
PROPERTY RepairIsHandedOver
CHECK_DEADLOCK FALSE
