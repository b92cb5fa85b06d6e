SPECIFICATION Spec
CONSTANTS
    g = g
    NoFamily = NoFamily
    NoRound = NoRound
    NoSplit = NoSplit
    SplitHash = SplitHash
    Families <- MCFamilies
    RoundIds <- MCRoundIds
    Limits <- MCLimits
    Faults = TRUE
    Cancels = FALSE
    MaxCrashes = 0
INVARIANT CompletedIsClassified
CHECK_DEADLOCK FALSE
