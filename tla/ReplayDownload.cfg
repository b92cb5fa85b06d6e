SPECIFICATION Spec
CONSTANTS
    Horizon = 5
    Evidence <- MCEvidence
    Holdings <- MCHoldings
    MergeLevels <- MCMergeLevels
    Tariffs <- MCTariffs
    RemainingBudget = 4
    HardCap = 5
    MaxAttempts = 2
    MaxRuns = 3
INVARIANTS
    BoughtIsKept
    RunWithinLimit
    FinishedIsVerified
    PlanFillsGaps
CHECK_DEADLOCK FALSE
