SPECIFICATION Spec
CONSTANTS
    g = g
    h = h
    s1 = s1
    s2 = s2
    p1 = p1
    p2 = p2
    Procs = {p1, p2}
    Families <- MCFamilies
    NoFamily = NoFamily
    NoRound = NoRound
    RoundIds <- MCRoundIds
    Limits <- MCLimits
    Mutable <- MCMutable
    Requests <- BacktestRequests
    Targets <- SpineTargets
    SplitHashes <- OneHash
    NoSplit = NoSplit
    PhaseA = TRUE
    Outcomes <- OnlyVerified
    MaxConsumed = 2
SYMMETRY Symmetry
INVARIANT HoldoutOnce
