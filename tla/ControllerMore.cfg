SPECIFICATION Spec
CONSTANTS
    g = g
    h = h
    s1 = s1
    s2 = s2
    p1 = p1
    p2 = p2
    Procs = {p1}
    Families <- MCFamilies
    NoFamily = NoFamily
    NoRound = NoRound
    RoundIds <- MCRoundIds
    Limits <- MCLimits
    Mutable <- MCMutable
    Requests <- AllRequests
    Targets <- AllTargets
    SplitHashes <- MCHashes
    NoSplit = NoSplit
    PhaseA = FALSE
    Outcomes <- MCOutcomes
    MaxConsumed = 2
INVARIANTS
    TypeOK
    HardBudget
PROPERTIES
    FrozenFamiliesRest
