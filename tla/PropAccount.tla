---------------------------- MODULE PropAccount ----------------------------
(***************************************************************************)
(* The life of one prop account over a list of trades: prop/replay.py      *)
(* simulate_scenario, with the sizing of prop/sizing.py.  An evaluation    *)
(* account trades until it breaches its loss limit or reaches the profit   *)
(* target; then a qualified account goes on from its balance, and is paid  *)
(* out of its profit.                                                      *)
(*                                                                         *)
(* Each trade of the loop is two steps: it is sized and settled, and then  *)
(* the account is judged.  Amounts are integers relative to account_size;  *)
(* timestamps are days.  A contract is released as its trade is settled,   *)
(* so that no exposure is open when the next trade is sized.  Fees and     *)
(* slippage are in what a contract gains or loses.  Metrics other than the *)
(* failures they count are left out.                                       *)
(***************************************************************************)
EXTENDS Integers, FiniteSets

CONSTANTS
    Rule,        \* the PropRuleSet of the product
    Policies,    \* RiskPolicy records to choose from
    Risks,       \* risk_per_contract of a trade
    Moves,       \* what a contract gains or loses in a trade
    Holding,     \* days from the entry of a trade to its exit
    LastDay,     \* the last day of the trades
    MaxTrades    \* bound on the number of trades

RuleFields ==
    {"profit_target", "maximum_loss_limit", "daily_loss_guard",
     "contract_limit", "minimum_winning_days", "minimum_profit_per_winning_day",
     "consistency_rule", "payout_minimum", "payout_maximum"}

RiskKinds ==
    {"FIXED_CONTRACTS", "FIXED_INITIAL_DOLLAR_RISK", "MLL_PERCENTAGE_RISK",
     "VOLATILITY_CAPPED_RISK", "ACCOUNT_BUFFER_AWARE"}

\* Percentages stand for the fractions of the code.  A policy without a cap or
\* an override has the neutral value, as has a rule set without a consistency
\* rule.
RiskPolicy ==
    [kind : RiskKinds, fixed_contracts : Nat, dollar_risk : Nat,
     mll_percentage : 0..100, volatility_cap : Nat, buffer_floor : 0..100,
     max_contracts : Nat]

ASSUME PropAccountAssumption ==
    /\ Rule \in [RuleFields -> Nat]
    /\ Rule.profit_target > 0 /\ Rule.maximum_loss_limit > 0
    /\ Policies \subseteq RiskPolicy
    /\ Risks \subseteq Nat \ {0} /\ Moves \subseteq Int
    /\ Holding \subseteq Nat /\ LastDay \in Nat /\ MaxTrades \in Nat

VARIABLES
    policy,     \* the scenario's risk policy
    pc,         \* next trade, settled, over (the loop has ended), done
    day, trades, \* the entry day of the last trade, and the number of trades
    balance,    \* relative to account_size
    start,      \* eval_start_balance, relative to account_size
    account,    \* status of the evaluation account
    qualified,  \* status of the qualified account, or "NONE"
    dayPnl, dayWins, stopped,  \* day_pnl, day_wins, stopped_days
    pnl,        \* of the trade that has been settled and not judged
    cycle,      \* cycle_profit
    total,      \* total_pnl of the qualified account
    withdrawn,  \* gross payouts
    breached,   \* an MLL_BREACH event was written
    gapped      \* history: a trade has lost more than its risk

daily == <<dayPnl, dayWins, stopped>>
books == <<balance, start, cycle, total, withdrawn>>
accountVars ==
    <<policy, pc, day, trades, books, account, qualified, daily, pnl, breached,
      gapped>>

Lesser(a, b) == IF a <= b THEN a ELSE b
Greater(a, b) == IF a >= b THEN a ELSE b

\* A trade may be held past the last day on which one is entered.
ExitDays == {d + h : d \in 0..LastDay, h \in Holding}
Days == 0..LastDay \cup ExitDays

Threshold == start - Rule.maximum_loss_limit

AccountInit ==
    /\ policy \in Policies
    /\ pc = "next" /\ day = 0 /\ trades = 0
    /\ balance = 0 /\ start = 0
    /\ account = "ACTIVE" /\ qualified = "NONE"
    /\ dayPnl = [d \in Days |-> 0] /\ dayWins = [d \in Days |-> 0]
    /\ stopped = {}
    /\ pnl = 0 /\ cycle = 0 /\ total = 0 /\ withdrawn = 0
    /\ breached = FALSE /\ gapped = FALSE

-----------------------------------------------------------------------------
\* sizing.py

\* Mutant: the floor of the buffer is left out.
RiskAllowedWholeBuffer(buffer) ==
    CASE policy.kind = "MLL_PERCENTAGE_RISK" ->
           (Rule.maximum_loss_limit * policy.mll_percentage) \div 100
      [] policy.kind = "VOLATILITY_CAPPED_RISK" ->
           Lesser(policy.dollar_risk, policy.volatility_cap)
      [] policy.kind = "ACCOUNT_BUFFER_AWARE" ->
           Lesser(policy.dollar_risk, buffer)
      [] OTHER -> policy.dollar_risk

\* The amount a policy lets a trade risk, given the buffer above the threshold.
RiskAllowed(buffer) ==
    CASE policy.kind = "MLL_PERCENTAGE_RISK" ->
           (Rule.maximum_loss_limit * policy.mll_percentage) \div 100
      [] policy.kind = "VOLATILITY_CAPPED_RISK" ->
           Lesser(policy.dollar_risk, policy.volatility_cap)
      [] policy.kind = "ACCOUNT_BUFFER_AWARE" ->
           Lesser(policy.dollar_risk,
                  (buffer * (100 - policy.buffer_floor)) \div 100)
      [] OTHER -> policy.dollar_risk

\* Contracts are rounded down, and capped by the policy and by the provider.
Contracts(risk) ==
    LET buffer == Greater(0, balance - Threshold)
        requested == IF policy.kind = "FIXED_CONTRACTS"
                       THEN policy.fixed_contracts
                       ELSE RiskAllowed(buffer) \div risk
    IN  Lesser(Lesser(requested, policy.max_contracts), Rule.contract_limit)

-----------------------------------------------------------------------------
\* simulate_scenario

\* The loop ends with the trades, or once neither account can trade.
InLoop ==
    /\ pc = "next"
    /\ account = "ACTIVE" \/ qualified # "NONE"
    /\ trades < MaxTrades

\* Mutant: a locked day is not looked at.
OpenAlways(d) == TRUE

\* A day that is locked takes no more entries.
Open(d) == d \notin stopped

\* What a trade adds to the winnings of its day.
Wins(gain) == Greater(0, gain)

\* A trade entered on a stopped day, or without a legal contract, is skipped.
Skip ==
    /\ InLoop
    /\ \E d \in day..LastDay :
         /\ ~Open(d) \/ \E risk \in Risks : Contracts(risk) <= 0
         /\ day' = d
    /\ trades' = trades + 1
    /\ UNCHANGED <<policy, pc, books, account, qualified, daily, pnl, breached,
                   gapped>>

\* A trade is settled at its exit, in the order of the entries; a day that has
\* lost as much as the guard allows is locked for entries.
Settle ==
    /\ InLoop
    /\ \E d \in day..LastDay, h \in Holding, risk \in Risks, move \in Moves :
         LET quantity == Contracts(risk)
             gain == quantity * move
             exit == d + h
         IN  /\ Open(d) /\ quantity > 0
             /\ day' = d
             /\ pnl' = gain
             /\ balance' = balance + gain
             /\ dayPnl' = [dayPnl EXCEPT ![exit] = @ + gain]
             /\ dayWins' = [dayWins EXCEPT ![exit] = @ + Wins(gain)]
             /\ stopped' = IF /\ Rule.daily_loss_guard > 0
                              /\ dayPnl'[exit] <= -Rule.daily_loss_guard
                             THEN stopped \cup {exit} ELSE stopped
             /\ total' = IF qualified = "NONE" THEN total ELSE total + gain
             /\ gapped' = (gapped \/ move < -risk)
    /\ trades' = trades + 1
    /\ pc' = "settled"
    /\ UNCHANGED <<policy, start, cycle, withdrawn, account, qualified,
                   breached>>

\* The loss limit is breached: the loop ends.  The status is written to the
\* evaluation account, whichever of the two has failed.
Breach ==
    /\ pc = "settled"
    /\ balance <= Threshold
    /\ account' = IF qualified = "NONE" THEN "FAILED" ELSE "QUALIFIED_FAILED"
    /\ breached' = TRUE
    /\ pc' = "over"
    /\ UNCHANGED <<policy, day, trades, books, qualified, daily, pnl, gapped>>

\* The evaluation has passed.  Its days do not count for a payout; the days
\* that are locked stay locked.
Qualify ==
    /\ pc = "settled"
    /\ balance > Threshold
    /\ qualified = "NONE" /\ balance >= start + Rule.profit_target
    /\ account' = "PASSED" /\ qualified' = "ACTIVE"
    /\ start' = balance
    /\ dayPnl' = [d \in Days |-> 0] /\ dayWins' = [d \in Days |-> 0]
    /\ pnl' = 0
    /\ pc' = "next"
    /\ UNCHANGED <<policy, day, trades, balance, stopped, cycle, total,
                   withdrawn, breached, gapped>>

GoOn ==
    /\ pc = "settled"
    /\ balance > Threshold
    /\ qualified = "NONE" /\ balance < start + Rule.profit_target
    /\ pnl' = 0
    /\ pc' = "next"
    /\ UNCHANGED <<policy, day, trades, books, account, qualified, daily,
                   breached, gapped>>

WinningDays ==
    {d \in Days : /\ dayWins[d] >= Rule.minimum_profit_per_winning_day
                  /\ dayWins[d] > 0}

\* No single day is too large a part of the profit; of no profit the best day
\* counts as all.
Consistent(profit) ==
    IF profit > 0
      THEN \A d \in Days : 100 * dayWins[d] <= Rule.consistency_rule * profit
      ELSE 100 <= Rule.consistency_rule

\* A cycle's profit can be requested once it has its winning days, reaches the
\* minimum, and is consistent.
Eligible(profit) ==
    /\ Cardinality(WinningDays) >= Rule.minimum_winning_days
    /\ profit >= Rule.payout_minimum
    /\ Consistent(profit)

Gross(profit) == Lesser(profit \div 2, Rule.payout_maximum)

\* Mutant: the profit that was paid for stays in the cycle.
NextCycleKept(profit, paid) == profit

\* A payout begins the next cycle.
NextCycle(profit, paid) == IF paid THEN 0 ELSE profit

\* A qualified trade adds to the cycle; a payout takes up to half of it.
Account ==
    /\ pc = "settled"
    /\ balance > Threshold
    /\ qualified # "NONE"
    /\ LET profit == cycle + pnl
           gross == Gross(profit)
           paid == Eligible(profit) /\ gross >= Rule.payout_minimum
       IN  /\ cycle' = NextCycle(profit, paid)
           /\ IF paid THEN /\ balance' = balance - gross
                           /\ withdrawn' = withdrawn + gross
                           /\ dayWins' = [d \in Days |-> 0]
                      ELSE UNCHANGED <<balance, withdrawn, dayWins>>
    /\ pnl' = 0
    /\ pc' = "next"
    /\ UNCHANGED <<policy, day, trades, start, total, account, qualified,
                   dayPnl, stopped, breached, gapped>>

\* The trades are over.  A qualified account has only ever been ACTIVE, and its
\* evaluation has passed; a running evaluation may have come to max_days.
Finish ==
    /\ pc \in {"next", "over"}
    /\ account' \in CASE qualified = "ACTIVE" -> {"PASSED"}
                      [] qualified = "NONE" /\ account = "ACTIVE" ->
                           {"ACTIVE", "CENSORED"}
                      [] OTHER -> {account}
    /\ pc' = "done"
    /\ UNCHANGED <<policy, day, trades, books, qualified, daily, pnl, breached,
                   gapped>>

AccountNext == Skip \/ Settle \/ Breach \/ Qualify \/ GoOn \/ Account \/ Finish

AccountSpec == AccountInit /\ [][AccountNext]_accountVars

-----------------------------------------------------------------------------

\* Every variable of the simulation.
TypeOK ==
    /\ policy \in Policies
    /\ pc \in {"next", "settled", "over", "done"}
    /\ day \in 0..LastDay /\ trades \in 0..MaxTrades
    /\ balance \in Int /\ start \in Nat
    /\ account \in {"ACTIVE", "PASSED", "FAILED", "QUALIFIED_FAILED", "CENSORED"}
    /\ qualified \in {"NONE", "ACTIVE"}
    /\ dayPnl \in [Days -> Int] /\ dayWins \in [Days -> Nat]
    /\ stopped \subseteq Days
    /\ pnl \in Int /\ cycle \in Int /\ total \in Int /\ withdrawn \in Nat
    /\ breached \in BOOLEAN /\ gapped \in BOOLEAN

\* Payouts are made of profit only, over any sequence of winning and losing
\* cycles: what was withdrawn is at most half of the profit of the cycles that
\* are closed, the other half is still in the balance, and so no payout takes
\* the account nearer to its loss limit than where it began.
WithdrawnFromProfit ==
    qualified # "NONE" =>
      /\ balance = start + total - withdrawn
      /\ 2 * withdrawn <= total - cycle - pnl
      /\ balance - cycle - pnl >= start

\* What the sizing by buffer is for: as long as no trade loses more than the
\* risk it was sized by, an account that keeps a floor of its buffer never
\* breaches its loss limit, neither before nor after payouts move its balance.
BufferAwareSurvives ==
    /\ policy.kind = "ACCOUNT_BUFFER_AWARE" /\ policy.buffer_floor > 0
    /\ ~gapped
    => ~breached /\ balance > Threshold

\* The worst a day can do: with trades that are closed on the day they are
\* entered, a day loses less than its guard and one more trade at the limit of
\* contracts.
DayLossBounded ==
    Holding = {0} /\ Rule.daily_loss_guard > 0 =>
      \A d \in Days : \E move \in Moves \cup {0} :
        dayPnl[d] > Lesser(0, move * Rule.contract_limit) - Rule.daily_loss_guard

\* The metric qualified_failures.
QualifiedFailures == IF qualified = "QUALIFIED_FAILED" THEN 1 ELSE 0

\* What the account lifecycle says of a breach: it ends the account, and shows
\* in the failures the simulation reports.
BreachIsReported ==
    pc = "done" /\ breached => account = "FAILED" \/ QualifiedFailures = 1
=============================================================================
