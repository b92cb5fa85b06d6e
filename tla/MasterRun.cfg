SPECIFICATION FairSpec
CONSTANTS
    g = g
    NoFamily = NoFamily
    NoRound = NoRound
    NoSplit = NoSplit
    SplitHash = SplitHash
    Families <- MCFamilies
    RoundIds <- MCRoundIds
    Limits <- MCLimits
    Faults = TRUE
    Cancels = TRUE
    MaxCrashes = 2
INVARIANTS
    WorkIsApproved
    StepIsBacked
PROPERTIES
    ImplementsStagedRun
    EveryRunSettles
CHECK_DEADLOCK FALSE
