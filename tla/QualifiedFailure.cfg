SPECIFICATION AccountSpec
CONSTANTS
    Rule <- MCRule
    Policies <- MCPolicies
    Risks <- MCRisks
    Moves <- MCMoves
    Holding <- MCHolding
    LastDay = 2
    MaxTrades = 7
INVARIANT BreachIsReported
CHECK_DEADLOCK FALSE
