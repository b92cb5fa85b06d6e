--------------------------- MODULE MCPropAccount ---------------------------
(* Amounts in hundreds: a target of two gains, a limit of three losses, and *)
(* two days that each lock after two losses.                                *)
EXTENDS PropAccount

MCRule ==
    [profit_target |-> 4, maximum_loss_limit |-> 6, daily_loss_guard |-> 4,
     contract_limit |-> 3, minimum_winning_days |-> 2,
     minimum_profit_per_winning_day |-> 2, consistency_rule |-> 75,
     payout_minimum |-> 2, payout_maximum |-> 3]

Policy(kind) ==
    [kind |-> kind, fixed_contracts |-> 1, dollar_risk |-> 4,
     mll_percentage |-> 50, volatility_cap |-> 2, buffer_floor |-> 25,
     max_contracts |-> 2]

MCPolicies == {Policy(kind) : kind \in RiskKinds}

MCRisks == {1, 2}
MCMoves == {-2, 2}
MCHolding == {0}
=============================================================================
