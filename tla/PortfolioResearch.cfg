SPECIFICATION FairSpec
CONSTANTS
    a = a
    b = b
    c = c
    Strategies <- MCStrategies
    Versions <- MCVersions
    Eligibilities <- MCEligibilities
    Limits <- MCLimits
    MaximumStrategies = 2
    MaxCrashes = 1
INVARIANTS
    EvidenceBehindPhase
    WorkIsPaid
    AcceptedOnEvidence
PROPERTY EveryPortfolioSettles
CHECK_DEADLOCK FALSE
