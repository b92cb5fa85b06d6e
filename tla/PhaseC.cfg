SPECIFICATION Spec
CONSTANTS
    g = g
    h = h
    v1 = v1
    v2 = v2
    NoFamily = NoFamily
    NoRound = NoRound
    NoValue = NoValue
    NoSplit = NoSplit
    SplitHash = SplitHash
    Families <- MCFamilies
    Mutable <- MCFamilies
    Order <- MCOrder
    Values <- MCValues
    RoundIds <- MCRoundIds
    Limits <- MCLimits
    Outcomes <- MCOutcomes
INVARIANTS
    EvidenceBehindPhase
    VerdictOnRecord
    ValidatedAsFrozen
    PaidBeforeRun
    HoldoutRunOnce
PROPERTY HoldoutEndsResearch
SYMMETRY Symmetry
CHECK_DEADLOCK FALSE
