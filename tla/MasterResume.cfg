SPECIFICATION FairSpec
CONSTANTS
    g = g
    NoFamily = NoFamily
    NoRound = NoRound
    NoSplit = NoSplit
    SplitHash = SplitHash
    Families <- MCFamilies
    RoundIds <- MCRoundIds
    Limits <- MCLimits
    Faults = FALSE
    Cancels = FALSE
    MaxCrashes = 1
PROPERTY ResumeFinishes
CHECK_DEADLOCK FALSE
