-------------------------- MODULE PortfolioProofs --------------------------
(***************************************************************************)
(* What comes after the research of a strategy: the prop account it is     *)
(* simulated with, and the portfolio it becomes a member of.               *)
(*                                                                         *)
(* The accounts of simulate_scenario for every rule set, risk policy and   *)
(* list of trades: what is paid out is profit, the sizing by buffer keeps  *)
(* the account above its limit, and the daily guard bounds a day's loss.   *)
(*                                                                         *)
(* The commands of PortfolioService for any strategies, versions, limits   *)
(* and number of deaths: no phase without its evidence, no row without its *)
(* payment, and no acceptance of what nobody looked at.                    *)
(***************************************************************************)
EXTENDS PortfolioResearch, PropAccount, FiniteSetTheorems,
        WellFoundedInduction, TLAPS

-----------------------------------------------------------------------------
\* The prop account

\* The numbers of a rule set and of a policy.
LEMMA Numbers ==
    /\ Rule.profit_target \in Nat /\ Rule.profit_target > 0
    /\ Rule.maximum_loss_limit \in Nat /\ Rule.maximum_loss_limit > 0
    /\ Rule.daily_loss_guard \in Nat /\ Rule.contract_limit \in Nat
    /\ Rule.payout_minimum \in Nat /\ Rule.payout_maximum \in Nat
    /\ \A p \in Policies :
         /\ p.fixed_contracts \in Nat /\ p.dollar_risk \in Nat
         /\ p.mll_percentage \in 0..100 /\ p.volatility_cap \in Nat
         /\ p.buffer_floor \in 0..100 /\ p.max_contracts \in Nat
BY PropAccountAssumption DEF RuleFields, RiskPolicy

\* What a policy allows to be risked is a number.
LEMMA RiskAllowedTyped ==
    ASSUME policy \in Policies, NEW buffer \in Nat
    PROVE  RiskAllowed(buffer) \in Int
<1>1. /\ (Rule.maximum_loss_limit * policy.mll_percentage) \div 100 \in Int
      /\ (buffer * (100 - policy.buffer_floor)) \div 100 \in Int
      /\ policy.dollar_risk \in Int /\ policy.volatility_cap \in Int
  BY Numbers
<1> QED BY <1>1 DEF RiskAllowed, Lesser

\* The number of contracts is an integer, and within the provider's limit.
LEMMA ContractsTyped ==
    ASSUME TypeOK, NEW risk \in Risks
    PROVE  /\ Contracts(risk) \in Int
           /\ Contracts(risk) <= Rule.contract_limit
<1>1. Threshold \in Int
  BY Numbers DEF TypeOK, Threshold
<1>2. Greater(0, balance - Threshold) \in Nat
  BY <1>1 DEF Greater, TypeOK
<1>3. RiskAllowed(Greater(0, balance - Threshold)) \in Int
  BY <1>2, RiskAllowedTyped DEF TypeOK
<1>4. risk \in Nat /\ risk > 0
  BY PropAccountAssumption
<1>5. RiskAllowed(Greater(0, balance - Threshold)) \div risk \in Int
  BY <1>3, <1>4
<1>6. /\ policy.fixed_contracts \in Int /\ policy.max_contracts \in Int
      /\ Rule.contract_limit \in Int
  BY Numbers DEF TypeOK
<1> QED BY <1>5, <1>6 DEF Contracts, Lesser

\* What a trade settles, by its day, holding time, risk and move.
Settled(d, h, risk, move) ==
    LET gain == Contracts(risk) * move IN
    /\ d \notin stopped /\ Contracts(risk) > 0
    /\ day' = d
    /\ pnl' = gain
    /\ balance' = balance + gain
    /\ dayPnl' = [dayPnl EXCEPT ![d + h] = @ + gain]
    /\ dayWins' = [dayWins EXCEPT ![d + h] = @ + Wins(gain)]
    /\ stopped' = IF /\ Rule.daily_loss_guard > 0
                     /\ dayPnl'[d + h] <= -Rule.daily_loss_guard
                    THEN stopped \cup {d + h} ELSE stopped
    /\ total' = IF qualified = "NONE" THEN total ELSE total + gain
    /\ gapped' = (gapped \/ move < -risk)

\* Settle is that, of some trade.
LEMMA SettleIsSettled ==
    ASSUME Settle
    PROVE  \E d \in day..LastDay, h \in Holding, risk \in Risks, move \in Moves :
             Settled(d, h, risk, move)
BY Zenon DEF Settle, Settled, Open

(* Every variable keeps its type.                                          *)
LEMMA TypeStep == TypeOK /\ [AccountNext]_accountVars => TypeOK'
<1> SUFFICES ASSUME TypeOK, [AccountNext]_accountVars PROVE TypeOK'
  OBVIOUS
<1>1. /\ Days \subseteq Nat /\ 0..LastDay \subseteq Days
      /\ LastDay \in Nat /\ MaxTrades \in Nat
  BY PropAccountAssumption DEF Days, ExitDays
<1>2. CASE Skip
  BY <1>2, <1>1 DEF Skip, InLoop, TypeOK, books, daily
<1>3. CASE Settle
  <2>1. PICK d \in day..LastDay, h \in Holding, risk \in Risks, move \in Moves :
          Settled(d, h, risk, move)
    BY <1>3, SettleIsSettled
  <2>2. d \in 0..LastDay /\ d + h \in Days
    <3>1. d \in 0..LastDay
      BY <1>1 DEF TypeOK
    <3> QED BY <3>1 DEF Days, ExitDays
  <2>3. Contracts(risk) \in Int /\ move \in Int
    BY ContractsTyped, PropAccountAssumption
  <2>4. Contracts(risk) * move \in Int
    BY <2>3
  <2>5. Wins(Contracts(risk) * move) \in Nat
    BY <2>4 DEF Wins, Greater
  <2>6. dayPnl' \in [Days -> Int] /\ dayWins' \in [Days -> Nat]
    BY <2>1, <2>2, <2>4, <2>5 DEF Settled, TypeOK
  <2>7. balance' \in Int /\ pnl' \in Int /\ total' \in Int
    BY <2>1, <2>4 DEF Settled, TypeOK
  <2>8. trades' \in 0..MaxTrades /\ pc' \in {"next", "settled", "over", "done"}
    BY <1>1, <1>3 DEF Settle, InLoop, TypeOK
  <2>9. stopped' \subseteq Days /\ gapped' \in BOOLEAN
    BY <2>1, <2>2, <2>8 DEF Settled, TypeOK
  <2> QED BY <1>3, <2>1, <2>2, <2>6, <2>7, <2>8, <2>9 DEF Settle, Settled, TypeOK
<1>4. CASE Breach
  BY <1>4 DEF Breach, TypeOK, books, daily
<1>5. CASE Qualify
  BY <1>5, Numbers DEF Qualify, TypeOK
<1>6. CASE GoOn
  BY <1>6 DEF GoOn, TypeOK, books, daily
<1>7. CASE Account
  <2>1. PICK gross \in Int :
          /\ gross = Gross(cycle + pnl)
          /\ \/ /\ gross >= Rule.payout_minimum
                /\ balance' = balance - gross /\ withdrawn' = withdrawn + gross
                /\ dayWins' = [d \in Days |-> 0] /\ cycle' = 0
             \/ UNCHANGED <<balance, withdrawn, dayWins>> /\ cycle' = cycle + pnl
    <3>1. Gross(cycle + pnl) \in Int
      BY Numbers DEF Gross, Lesser, TypeOK
    <3> QED BY <1>7, <3>1 DEF Account, NextCycle
  <2>2. /\ balance' \in Int /\ withdrawn' \in Nat /\ cycle' \in Int
        /\ dayWins' \in [Days -> Nat]
    BY <2>1, Numbers DEF TypeOK
  <2> QED BY <1>7, <2>2 DEF Account, TypeOK
<1>8. CASE Finish
  BY <1>8 DEF Finish, TypeOK, books, daily
<1>9. CASE UNCHANGED accountVars
  BY <1>9 DEF accountVars, TypeOK, books, daily
<1> QED BY <1>2, <1>3, <1>4, <1>5, <1>6, <1>7, <1>8, <1>9 DEF AccountNext

(* PropAccount keeps its types, for every rule set, policy and trade.      *)
THEOREM PropTyped == AccountSpec => []TypeOK
<1>1. AccountInit => TypeOK
  <2>1. /\ LastDay \in Nat /\ MaxTrades \in Nat
    BY PropAccountAssumption
  <2>2. [d \in Days |-> 0] \in [Days -> Int] /\ [d \in Days |-> 0] \in [Days -> Nat]
    OBVIOUS
  <2> SUFFICES ASSUME AccountInit PROVE TypeOK
    OBVIOUS
  <2>3. /\ policy \in Policies /\ pc = "next" /\ day = 0 /\ trades = 0
        /\ balance = 0 /\ start = 0 /\ account = "ACTIVE" /\ qualified = "NONE"
        /\ stopped = {} /\ pnl = 0 /\ cycle = 0 /\ total = 0 /\ withdrawn = 0
        /\ dayPnl = [d \in Days |-> 0] /\ dayWins = [d \in Days |-> 0]
    BY DEF AccountInit
  <2>4. breached \in BOOLEAN /\ gapped \in BOOLEAN
    BY Zenon DEF AccountInit
  <2> QED BY <2>1, <2>2, <2>3, <2>4 DEF TypeOK
<1> QED BY <1>1, TypeStep, PTL DEF AccountSpec

-----------------------------------------------------------------------------
\* Payouts

\* Before the qualification there is no cycle; a judged trade is in the books.
BooksInv ==
    /\ pc = "next" => pnl = 0
    /\ qualified = "NONE" => total = 0 /\ cycle = 0 /\ withdrawn = 0
    /\ WithdrawnFromProfit

\* Half of a cycle's profit is all that is paid, and only of a real profit.
LEMMA PaidFromProfit ==
    ASSUME TypeOK, Account
    PROVE  \/ /\ cycle' = 0
              /\ \E gross \in Nat :
                   /\ 2 * gross <= cycle + pnl
                   /\ balance' = balance - gross
                   /\ withdrawn' = withdrawn + gross
           \/ /\ cycle' = cycle + pnl
              /\ UNCHANGED <<balance, withdrawn>>
<1> DEFINE profit == cycle + pnl
<1>1. profit \in Int /\ profit \div 2 \in Int /\ 2 * (profit \div 2) <= profit
  BY DEF TypeOK
<1>2. Gross(profit) \in Int /\ 2 * Gross(profit) <= profit
  BY <1>1, Numbers DEF Gross, Lesser
<1>3. CASE Eligible(profit) /\ Gross(profit) >= Rule.payout_minimum
  <2>1. /\ cycle' = 0 /\ balance' = balance - Gross(profit)
        /\ withdrawn' = withdrawn + Gross(profit)
    BY <1>3 DEF Account, NextCycle
  <2>2. Gross(profit) \in Nat
    BY <1>2, <1>3, Numbers
  <2> QED BY <1>2, <2>1, <2>2
<1>4. CASE ~(Eligible(profit) /\ Gross(profit) >= Rule.payout_minimum)
  BY <1>4 DEF Account, NextCycle
<1> QED BY <1>3, <1>4

(* Settling, qualifying and paying keep the books.                         *)
LEMMA BooksStep == TypeOK /\ BooksInv /\ [AccountNext]_accountVars => BooksInv'
<1> SUFFICES ASSUME TypeOK, BooksInv, [AccountNext]_accountVars PROVE BooksInv'
  OBVIOUS
<1> USE DEF BooksInv, WithdrawnFromProfit
<1>1. CASE Skip
  BY <1>1 DEF Skip, InLoop, books
<1>2. CASE Settle
  <2>1. PICK gain \in Int :
          /\ pnl' = gain /\ balance' = balance + gain
          /\ total' = IF qualified = "NONE" THEN total ELSE total + gain
    <3>1. PICK d \in day..LastDay, h \in Holding, risk \in Risks, move \in Moves :
            Settled(d, h, risk, move)
      BY <1>2, SettleIsSettled
    <3>2. Contracts(risk) * move \in Int
      BY ContractsTyped, PropAccountAssumption
    <3> QED BY <3>1, <3>2 DEF Settled
  <2>2. pnl = 0 /\ pc' = "settled" /\ UNCHANGED <<start, cycle, withdrawn, qualified>>
    BY <1>2 DEF Settle, InLoop
  <2> QED BY <2>1, <2>2 DEF TypeOK
<1>3. CASE Breach
  BY <1>3 DEF Breach, books
<1>4. CASE Qualify
  BY <1>4 DEF Qualify, TypeOK
<1>5. CASE GoOn
  BY <1>5 DEF GoOn, books
<1>6. CASE Account
  <2>1. pnl' = 0 /\ qualified # "NONE" /\ UNCHANGED <<start, total, qualified>>
    BY <1>6 DEF Account
  <2>2. CASE /\ cycle' = 0
             /\ \E gross \in Nat :
                  /\ 2 * gross <= cycle + pnl
                  /\ balance' = balance - gross
                  /\ withdrawn' = withdrawn + gross
    BY <2>1, <2>2 DEF TypeOK
  <2>3. CASE cycle' = cycle + pnl /\ UNCHANGED <<balance, withdrawn>>
    BY <2>1, <2>3 DEF TypeOK
  <2> QED BY <1>6, <2>2, <2>3, PaidFromProfit
<1>7. CASE Finish
  BY <1>7 DEF Finish, books
<1>8. CASE UNCHANGED accountVars
  BY <1>8 DEF accountVars, books
<1> QED BY <1>1, <1>2, <1>3, <1>4, <1>5, <1>6, <1>7, <1>8 DEF AccountNext

\* In every reachable state payouts are made of profit (replay.py:98-104).
LEMMA BooksKept == AccountSpec => []BooksInv
<1>1. AccountInit => BooksInv
  BY DEF AccountInit, BooksInv, WithdrawnFromProfit
<1> QED BY <1>1, BooksStep, PropTyped, PTL DEF AccountSpec

(* For every rule set, policy and list of trades, what a qualified account *)
(* has withdrawn is at most half of its closed profit, and no payout takes *)
(* it below the balance it began with plus the profit of its open cycle.   *)
THEOREM PropWithdrawnFromProfit == AccountSpec => []WithdrawnFromProfit
<1>1. BooksInv => WithdrawnFromProfit
  BY DEF BooksInv
<1> QED BY <1>1, BooksKept, PTL

-----------------------------------------------------------------------------
\* Sizing by buffer

\* A trade sized by the buffer risks less than the buffer.
LEMMA RiskBelowBuffer ==
    ASSUME TypeOK, balance > Threshold, NEW risk \in Risks,
           policy.kind = "ACCOUNT_BUFFER_AWARE", policy.buffer_floor > 0,
           Contracts(risk) > 0
    PROVE  Contracts(risk) * risk < balance - Threshold
<1> DEFINE buffer == balance - Threshold
           allowed == RiskAllowed(buffer)
<1>1. Threshold \in Int /\ buffer \in Nat /\ buffer > 0
  BY Numbers DEF TypeOK, Threshold
<1>2. risk \in Nat /\ risk > 0
  BY PropAccountAssumption
<1>3. Greater(0, buffer) = buffer
  BY <1>1 DEF Greater
<1>4. policy.buffer_floor \in 1..100 /\ policy.dollar_risk \in Nat
  BY Numbers DEF TypeOK
<1>5. buffer * (100 - policy.buffer_floor) < buffer * 100
  BY <1>1, <1>4
<1>6. (buffer * (100 - policy.buffer_floor)) \div 100 < buffer
  BY <1>1, <1>4, <1>5
<1>7. allowed \in Int /\ allowed < buffer
  <2>1. allowed = Lesser(policy.dollar_risk,
                         (buffer * (100 - policy.buffer_floor)) \div 100)
    BY DEF RiskAllowed
  <2>2. (buffer * (100 - policy.buffer_floor)) \div 100 \in Int
    BY <1>1, <1>4
  <2> QED BY <1>1, <1>4, <1>6, <2>1, <2>2 DEF Lesser
<1>8. /\ allowed \div risk \in Int
      /\ risk * (allowed \div risk) <= allowed
  BY <1>2, <1>7
<1>9. Contracts(risk) \in Int /\ Contracts(risk) <= allowed \div risk
  <2>1. Contracts(risk) =
          Lesser(Lesser(allowed \div risk, policy.max_contracts),
                 Rule.contract_limit)
    BY <1>3 DEF Contracts
  <2> QED BY <1>8, <2>1, Numbers DEF Lesser, TypeOK
<1>10. Contracts(risk) * risk <= risk * (allowed \div risk)
  BY <1>2, <1>8, <1>9
<1> QED BY <1>1, <1>2, <1>7, <1>8, <1>9, <1>10

\* No buffer is used up by a trade that keeps to its risk.
BufferInv ==
    policy.kind = "ACCOUNT_BUFFER_AWARE" /\ policy.buffer_floor > 0 /\ ~gapped
      => ~breached /\ balance > Threshold

(* Neither a trade, nor the qualification, nor a payout uses the buffer up. *)
LEMMA BufferStep == TypeOK /\ BooksInv /\ BufferInv /\ [AccountNext]_accountVars => BufferInv'
<1> SUFFICES ASSUME TypeOK, BooksInv, BufferInv, [AccountNext]_accountVars,
                    policy'.kind = "ACCOUNT_BUFFER_AWARE",
                    policy'.buffer_floor > 0, ~gapped'
             PROVE  ~breached' /\ balance' > Threshold'
  BY DEF BufferInv
<1>1. /\ policy' = policy /\ ~gapped
      /\ policy.kind = "ACCOUNT_BUFFER_AWARE" /\ policy.buffer_floor > 0
  <2>1. policy' = policy /\ (gapped => gapped')
    <3>1. CASE Settle
      BY <3>1, SettleIsSettled, Zenon DEF Settle, Settled
    <3>2. CASE Skip
      BY <3>2, Zenon DEF Skip
    <3>3. CASE Breach
      BY <3>3, Zenon DEF Breach
    <3>4. CASE Qualify
      BY <3>4, Zenon DEF Qualify
    <3>5. CASE GoOn
      BY <3>5, Zenon DEF GoOn
    <3>6. CASE Account
      BY <3>6, Zenon DEF Account
    <3>7. CASE Finish
      BY <3>7, Zenon DEF Finish
    <3>8. CASE UNCHANGED accountVars
      BY <3>8, Zenon DEF accountVars
    <3> QED BY <3>1, <3>2, <3>3, <3>4, <3>5, <3>6, <3>7, <3>8, Zenon DEF AccountNext
  <2> QED BY <2>1, Zenon
<1>2. ~breached /\ balance > Threshold /\ Threshold \in Int
  BY <1>1, Numbers DEF BufferInv, Threshold, TypeOK
<1>3. CASE Skip
  BY <1>2, <1>3 DEF Skip, books, Threshold
<1>4. CASE Settle
  <2>1. PICK d \in day..LastDay, h \in Holding, risk \in Risks, move \in Moves :
          Settled(d, h, risk, move)
    BY <1>4, SettleIsSettled
  <2>2. /\ Contracts(risk) \in Int /\ Contracts(risk) > 0
        /\ Contracts(risk) * risk < balance - Threshold
    BY <1>1, <1>2, <2>1, RiskBelowBuffer, ContractsTyped DEF Settled
  <2>3. /\ risk \in Int /\ move \in Int /\ move + risk >= 0
    <3>1. ~(move < -risk)
      BY <2>1, Zenon DEF Settled
    <3>2. risk \in Int /\ move \in Int
      BY PropAccountAssumption
    <3> QED BY <3>1, <3>2
  <2>4. Contracts(risk) * (move + risk) >= 0
    BY <2>2, <2>3
  <2>5. Contracts(risk) * (move + risk)
          = Contracts(risk) * move + Contracts(risk) * risk
    BY <2>2, <2>3
  <2>6. balance' > Threshold
    <3>1. Contracts(risk) * move \in Int /\ Contracts(risk) * risk \in Int
      BY <2>2, <2>3
    <3> QED BY <1>2, <2>1, <2>2, <2>4, <2>5, <3>1 DEF Settled, TypeOK
  <2> QED BY <1>2, <1>4, <2>6 DEF Settle, Threshold
<1>5. CASE Breach
  BY <1>2, <1>5 DEF Breach, TypeOK
<1>6. CASE Qualify
  BY <1>2, <1>6, Numbers DEF Qualify, Threshold, TypeOK
<1>7. CASE GoOn
  BY <1>2, <1>7 DEF GoOn, books, Threshold
<1>8. CASE Account
  <2>1. /\ start' = start /\ ~breached'
        /\ balance - cycle - pnl >= start
    <3>1. start' = start /\ qualified # "NONE"
      BY <1>8 DEF Account
    <3>2. ~breached'
      BY <1>2, <1>8, Zenon DEF Account
    <3> QED BY <3>1, <3>2 DEF BooksInv, WithdrawnFromProfit
  <2>2. CASE \E gross \in Nat :
               /\ 2 * gross <= cycle + pnl
               /\ balance' = balance - gross
    <3>1. balance' >= start
      BY <2>1, <2>2 DEF TypeOK
    <3> QED BY <2>1, <2>2, <3>1, Numbers DEF Threshold, TypeOK
  <2>3. CASE balance' = balance
    BY <1>2, <2>1, <2>3 DEF Threshold
  <2> QED BY <1>8, <2>2, <2>3, PaidFromProfit
<1>9. CASE Finish
  BY <1>2, <1>9 DEF Finish, books, Threshold
<1>10. CASE UNCHANGED accountVars
  BY <1>2, <1>10 DEF accountVars, books, Threshold
<1> QED BY <1>3, <1>4, <1>5, <1>6, <1>7, <1>8, <1>9, <1>10 DEF AccountNext

(* As long as no trade loses more than the risk it was sized by, an account *)
(* whose policy sizes by the buffer and keeps a floor of it never breaches  *)
(* its loss limit, whatever its trades and its payouts are.                 *)
THEOREM PropBufferAwareSurvives == AccountSpec => []BufferAwareSurvives
<1>1. AccountInit => BufferInv
  <2> SUFFICES ASSUME AccountInit PROVE ~breached /\ balance > Threshold
    BY DEF BufferInv
  <2>1. ~breached
    BY Zenon DEF AccountInit
  <2>2. balance = 0 /\ start = 0
    BY DEF AccountInit
  <2> QED BY <2>1, <2>2, Numbers DEF Threshold
<1>2. BufferInv => BufferAwareSurvives
  BY DEF BufferInv, BufferAwareSurvives
<1> QED BY <1>1, <1>2, BufferStep, PropTyped, BooksKept, PTL DEF AccountSpec

-----------------------------------------------------------------------------
\* The guard of a day

\* A day that is not locked is above its guard; one that is locked took one
\* more trade than it had to spare.
DayInv ==
    Holding = {0} /\ Rule.daily_loss_guard > 0 =>
      /\ \A d \in Days \ stopped : dayPnl[d] > -Rule.daily_loss_guard
      /\ DayLossBounded

\* One trade loses no more than its move at the limit of contracts.
LEMMA OneTrade ==
    ASSUME NEW limit \in Nat, NEW quantity \in Int, NEW move \in Int,
           0 < quantity, quantity <= limit
    PROVE  Lesser(0, move * limit) <= quantity * move
<1>1. CASE move >= 0
  <2>1. quantity * move >= 0 /\ quantity * move \in Int
    BY <1>1
  <2>2. move * limit \in Int
    OBVIOUS
  <2> QED BY <2>1, <2>2 DEF Lesser
<1>2. CASE move < 0
  <2>1. (limit - quantity) * (0 - move) >= 0
    BY <1>2
  <2>2. (limit - quantity) * (0 - move) = quantity * move - move * limit
    OBVIOUS
  <2>3. quantity * move \in Int /\ move * limit \in Int
    OBVIOUS
  <2> QED BY <2>1, <2>2, <2>3 DEF Lesser
<1> QED BY <1>1, <1>2

(* A trade is settled only on a day that is not locked, and locks it once   *)
(* the guard is reached.                                                    *)
LEMMA DayStep == TypeOK /\ DayInv /\ [AccountNext]_accountVars => DayInv'
<1> SUFFICES ASSUME TypeOK, DayInv, [AccountNext]_accountVars,
                    Holding = {0}, Rule.daily_loss_guard > 0
             PROVE  /\ \A d \in Days \ stopped' : dayPnl'[d] > -Rule.daily_loss_guard
                    /\ DayLossBounded'
  BY DEF DayInv
<1>1. /\ \A d \in Days \ stopped : dayPnl[d] > -Rule.daily_loss_guard
      /\ \A d \in Days : \E move \in Moves \cup {0} :
           dayPnl[d] > Lesser(0, move * Rule.contract_limit) - Rule.daily_loss_guard
  BY DEF DayInv, DayLossBounded
<1>2. CASE UNCHANGED <<dayPnl, stopped>>
  BY <1>1, <1>2 DEF DayLossBounded
<1>3. CASE dayPnl' = [d \in Days |-> 0]
  <2>1. \A d \in Days : dayPnl'[d] = 0
    BY <1>3
  <2>2. 0 > Lesser(0, 0 * Rule.contract_limit) - Rule.daily_loss_guard
    BY Numbers DEF Lesser
  <2>3. 0 > -Rule.daily_loss_guard
    BY Numbers
  <2> QED BY <2>1, <2>2, <2>3 DEF DayLossBounded
<1>4. CASE Settle
  <2>1. PICK d \in day..LastDay, h \in Holding, risk \in Risks, move \in Moves :
          Settled(d, h, risk, move)
    BY <1>4, SettleIsSettled
  <2> DEFINE gain == Contracts(risk) * move
  <2>2. d + h = d /\ d \in Days /\ d \notin stopped
    BY <2>1, PropAccountAssumption DEF Settled, Days, TypeOK
  <2>3. /\ Contracts(risk) \in Int /\ move \in Int /\ gain \in Int
        /\ Contracts(risk) > 0 /\ Contracts(risk) <= Rule.contract_limit
    BY <2>1, ContractsTyped, PropAccountAssumption DEF Settled
  <2>4. /\ dayPnl' = [dayPnl EXCEPT ![d] = @ + gain]
        /\ stopped' = IF dayPnl'[d] <= -Rule.daily_loss_guard
                        THEN stopped \cup {d} ELSE stopped
    BY <2>1, <2>2 DEF Settled
  <2>5. /\ dayPnl'[d] = dayPnl[d] + gain
        /\ \A e \in Days \ {d} : dayPnl'[e] = dayPnl[e]
        /\ \A e \in Days : dayPnl[e] \in Int
    BY <2>2, <2>4 DEF TypeOK
  <2>6. Lesser(0, move * Rule.contract_limit) <= gain
    BY <2>3, OneTrade, Numbers
  <2>7. Lesser(0, move * Rule.contract_limit) \in Int
    BY <2>3, Numbers DEF Lesser
  <2>8. dayPnl'[d] > Lesser(0, move * Rule.contract_limit) - Rule.daily_loss_guard
    BY <1>1, <2>2, <2>3, <2>5, <2>6, <2>7, Numbers
  <2>9. DayLossBounded'
    BY <1>1, <2>5, <2>8 DEF DayLossBounded
  <2>10. \A e \in Days \ stopped' : dayPnl'[e] > -Rule.daily_loss_guard
    <3>1. dayPnl'[d] \in Int
      BY <2>2, <2>3, <2>5
    <3>2. ASSUME NEW e \in Days \ stopped', e = d
          PROVE  dayPnl'[e] > -Rule.daily_loss_guard
      BY <2>4, <3>1, <3>2, Numbers
    <3>3. ASSUME NEW e \in Days \ stopped', e # d
          PROVE  dayPnl'[e] > -Rule.daily_loss_guard
      BY <1>1, <2>4, <2>5, <3>3
    <3> QED BY <3>2, <3>3
  <2> QED BY <2>9, <2>10
<1>5. CASE Skip \/ Breach \/ GoOn \/ Account \/ Finish \/ UNCHANGED accountVars
  <2>1. UNCHANGED <<dayPnl, stopped>>
    BY <1>5 DEF Skip, Breach, GoOn, Account, Finish, accountVars, daily
  <2> QED BY <1>2, <2>1
<1>6. CASE Qualify
  BY <1>3, <1>6 DEF Qualify
<1> QED BY <1>4, <1>5, <1>6 DEF AccountNext

(* With trades that are closed on their day, no day of any account loses    *)
(* its guard and more than one trade at the limit of contracts besides.     *)
THEOREM PropDayLossBounded == AccountSpec => []DayLossBounded
<1>1. AccountInit => DayInv
  <2> SUFFICES ASSUME AccountInit, Rule.daily_loss_guard > 0
               PROVE  /\ \A d \in Days \ stopped : dayPnl[d] > -Rule.daily_loss_guard
                      /\ DayLossBounded
    BY DEF DayInv
  <2>1. \A d \in Days : dayPnl[d] = 0
    BY DEF AccountInit
  <2>2. 0 > Lesser(0, 0 * Rule.contract_limit) - Rule.daily_loss_guard
    BY Numbers DEF Lesser
  <2>3. 0 > -Rule.daily_loss_guard
    BY Numbers
  <2> QED BY <2>1, <2>2, <2>3 DEF DayLossBounded
<1>2. DayInv => DayLossBounded
  BY DEF DayInv, DayLossBounded
<1> QED BY <1>1, <1>2, DayStep, PropTyped, PTL DEF AccountSpec

-----------------------------------------------------------------------------
\* Induction

(* Some numbers have a smallest one among them.                            *)
LEMMA SmallestNumber ==
    ASSUME NEW T \in SUBSET Nat, T # {}
    PROVE  \E n \in T : \A m \in T : n <= m
<1> DEFINE Less == {ss \in Nat \X Nat : ss[1] < ss[2]}
<1>1. IsWellFoundedOn(Less, Nat)
  <2>1. IsWellFoundedOn(OpToRel(<, Nat), Nat)
    BY NatLessThanWellFounded
  <2>2. OpToRel(<, Nat) = Less
    BY DEF OpToRel
  <2> QED BY <2>1, <2>2
<1>2. PICK n \in T : \A m \in T : <<m, n>> \notin Less
  <2> HIDE DEF Less
  <2> QED BY <1>1, WFMin
<1>3. \A m \in T : ~(m < n)
  BY <1>2
<1> QED BY <1>3

(* A property of the numbers that holds of 0 and is passed on holds of all. *)
LEMMA NumberInduction ==
    ASSUME NEW T \in SUBSET Nat, 0 \in T, \A n \in T : n + 1 \in T
    PROVE  T = Nat
<1>1. SUFFICES ASSUME Nat \ T # {} PROVE FALSE
  OBVIOUS
<1>2. PICK n \in Nat \ T : \A m \in Nat \ T : n <= m
  BY <1>1, SmallestNumber
<1>3. n # 0 /\ n - 1 \in Nat /\ ~(n <= n - 1)
  BY <1>2
<1>4. n - 1 \in T
  BY <1>2, <1>3
<1>5. n = (n - 1) + 1
  BY <1>2
<1> QED BY <1>2, <1>4, <1>5

-----------------------------------------------------------------------------
\* The keys

(* A combination is a finite set of strategies, and there are finitely many. *)
LEMMA CombinationsFinite ==
    ASSUME NEW members \in SUBSET Strategies
    PROVE  /\ IsFiniteSet(Combinations(members))
           /\ Combinations(members) \subseteq Combinations(Strategies)
           /\ \A c \in Combinations(members) :
                c \subseteq Strategies /\ Cardinality(c) \in Nat
<1>1. IsFiniteSet(members)
  BY PortfolioAssumption, FS_Subset
<1>2. IsFiniteSet(SUBSET members)
  BY <1>1, FS_SUBSET
<1>3. Combinations(members) \in SUBSET SUBSET members
  BY DEF Combinations
<1>4. IsFiniteSet(Combinations(members))
  BY <1>2, <1>3, FS_Subset
<1> QED BY <1>4 DEF Combinations

(* What a function takes a finite set to is finite, and no larger.         *)
LEMMA ImageFinite ==
    ASSUME NEW S, IsFiniteSet(S), NEW f, DOMAIN f = S, f = [x \in S |-> f[x]]
    PROVE  /\ IsFiniteSet({f[x] : x \in S})
           /\ Cardinality({f[x] : x \in S}) <= Cardinality(S)
<1>1. f \in Surjection(S, {f[x] : x \in S})
  BY DEF Surjection
<1> QED BY <1>1, FS_Surjection

\* What every key looks like.
KeySpace == (Tables \X Combinations(Strategies)) \X (Strategies \cup {"all"})

(* There are finitely many keys.                                           *)
LEMMA AllKeysFinite == IsFiniteSet(AllKeys)
<1>1. IsFiniteSet(Combinations(Strategies))
  BY CombinationsFinite
<1>2. IsFiniteSet(Tables)
  <2>1. \A S, x : IsFiniteSet(S) => IsFiniteSet(S \cup {x})
    BY FS_AddElement
  <2>2. IsFiniteSet({"candidates"} \cup {"signals"} \cup {"overlap"}
                      \cup {"correlation"} \cup {"risk"} \cup {"prop"}
                      \cup {"ablation"})
    BY <2>1, FS_Singleton
  <2>3. Tables = {"candidates"} \cup {"signals"} \cup {"overlap"}
                   \cup {"correlation"} \cup {"risk"} \cup {"prop"}
                   \cup {"ablation"}
    BY DEF Tables
  <2> QED BY <2>2, <2>3
<1>3. IsFiniteSet(Strategies \cup {"all"})
  BY PortfolioAssumption, FS_AddElement
<1>4. IsFiniteSet(KeySpace)
  BY <1>1, <1>2, <1>3, FS_Product DEF KeySpace
<1> DEFINE f == [x \in KeySpace |-> <<x[1][1], x[1][2], x[2]>>]
<1>5. IsFiniteSet({f[x] : x \in KeySpace})
  <2> HIDE DEF KeySpace
  <2>1. DOMAIN f = KeySpace /\ f = [x \in KeySpace |-> f[x]]
    OBVIOUS
  <2> HIDE DEF f
  <2> QED BY <1>4, <2>1, ImageFinite
<1>6. AllKeys \subseteq {f[x] : x \in KeySpace}
  <2> SUFFICES ASSUME NEW k \in AllKeys PROVE k \in {f[x] : x \in KeySpace}
    OBVIOUS
  <2>1. PICK t \in Tables : k \in Keys(t, Combinations(Strategies))
    BY DEF AllKeys
  <2>2. \E c \in Combinations(Strategies), s \in Strategies \cup {"all"} :
          k = <<t, c, s>>
    BY <2>1 DEF Keys, Combinations
  <2>3. PICK c \in Combinations(Strategies), s \in Strategies \cup {"all"} :
          k = <<t, c, s>>
    BY <2>2
  <2>4. <<<<t, c>>, s>> \in KeySpace /\ f[<<<<t, c>>, s>>] = k
    BY <2>3 DEF KeySpace
  <2> QED BY <2>4
<1> QED BY <1>5, <1>6, FS_Subset

(* The keys of a table are told apart by their table, and are about the    *)
(* combinations they are asked for.                                        *)
LEMMA KeysOfTable ==
    ASSUME NEW t \in Tables, NEW cs \in SUBSET Combinations(Strategies)
    PROVE  /\ Keys(t, cs) \subseteq AllKeys
           /\ \A k \in Keys(t, cs) : k[1] = t /\ k[2] \in cs
           /\ \A k \in AllKeys :
                k[1] = t /\ k[2] \in cs => k \in Keys(t, cs)
           /\ t # "ablation" => \A c \in cs : <<t, c, "all">> \in Keys(t, cs)
           /\ cs # {} /\ t # "ablation" => Keys(t, cs) # {}
<1>1. Keys(t, cs) \subseteq Keys(t, Combinations(Strategies))
  BY DEF Keys
<1>2. Keys(t, cs) \subseteq AllKeys
  BY <1>1 DEF AllKeys
<1>3. \A k \in Keys(t, cs) : k[1] = t /\ k[2] \in cs
  BY DEF Keys
<1>4. ASSUME NEW k \in AllKeys, k[1] = t, k[2] \in cs
      PROVE  k \in Keys(t, cs)
  <2>1. PICK u \in Tables : k \in Keys(u, Combinations(Strategies))
    BY DEF AllKeys
  <2>2. u = t
    BY <1>4, <2>1 DEF Keys
  <2>3. CASE t = "ablation"
    BY <1>4, <2>1, <2>2, <2>3 DEF Keys
  <2>4. CASE t # "ablation"
    BY <1>4, <2>1, <2>2, <2>4 DEF Keys
  <2> QED BY <2>3, <2>4
<1> QED BY <1>2, <1>3, <1>4 DEF Keys

(* A table other than the ablations has a key per combination.             *)
LEMMA KeysCounted ==
    ASSUME NEW t, t # "ablation", NEW cs, IsFiniteSet(cs)
    PROVE  /\ IsFiniteSet(Keys(t, cs))
           /\ Cardinality(Keys(t, cs)) <= Cardinality(cs)
<1> DEFINE f == [c \in cs |-> <<t, c, "all">>]
<1>1. DOMAIN f = cs /\ f = [c \in cs |-> f[c]]
  OBVIOUS
<1>2. Keys(t, cs) = {f[c] : c \in cs}
  BY DEF Keys
<1> HIDE DEF f
<1> QED BY <1>1, <1>2, ImageFinite

-----------------------------------------------------------------------------
\* The combinations that are chosen

\* The n smallest of a set of combinations.
Smallest(all, n) ==
    {cs \in SUBSET all :
       /\ Cardinality(cs) = n
       /\ \A c \in cs, d \in all \ cs : Cardinality(c) <= Cardinality(d)}

(* There is a smallest one among some combinations.                        *)
LEMMA SmallestOne ==
    ASSUME NEW D, D # {}, \A d \in D : Cardinality(d) \in Nat
    PROVE  \E d \in D : \A e \in D : Cardinality(d) <= Cardinality(e)
<1> DEFINE T == {Cardinality(d) : d \in D}
<1>1. T \subseteq Nat /\ T # {}
  OBVIOUS
<1>2. PICK n \in T : \A m \in T : n <= m
  <2> HIDE DEF T
  <2> QED BY <1>1, SmallestNumber
<1> QED BY <1>2

(* The limit cuts off larger combinations only: there are n smallest ones. *)
LEMMA SmallestExist ==
    ASSUME NEW all, IsFiniteSet(all), \A c \in all : Cardinality(c) \in Nat,
           NEW n \in Nat, n <= Cardinality(all)
    PROVE  Smallest(all, n) # {}
<1> DEFINE T == {m \in Nat : m <= Cardinality(all) => Smallest(all, m) # {}}
<1>1. 0 \in T
  <2>1. {} \in Smallest(all, 0)
    BY FS_EmptySet DEF Smallest
  <2> QED BY <2>1
<1>2. ASSUME NEW m \in T, m + 1 <= Cardinality(all)
      PROVE  Smallest(all, m + 1) # {}
  <2>0. Cardinality(all) \in Nat /\ m \in Nat
    BY FS_CardinalityType
  <2>1. PICK cs \in Smallest(all, m) : TRUE
    BY <1>2, <2>0
  <2>2. /\ cs \subseteq all /\ Cardinality(cs) = m /\ IsFiniteSet(cs)
        /\ \A c \in cs, d \in all \ cs : Cardinality(c) <= Cardinality(d)
    BY <2>1, FS_Subset DEF Smallest
  <2>3. all \ cs # {}
    BY <1>2, <2>0, <2>2
  <2>4. PICK d \in all \ cs :
          \A e \in all \ cs : Cardinality(d) <= Cardinality(e)
    BY <2>3, SmallestOne
  <2>5. Cardinality(cs \cup {d}) = m + 1
    BY <2>2, <2>4, FS_AddElement
  <2>6. cs \cup {d} \in Smallest(all, m + 1)
    BY <2>2, <2>4, <2>5 DEF Smallest
  <2> QED BY <2>6
<1>3. \A m \in T : m + 1 \in T
  BY <1>2
<1> HIDE DEF T
<1>4. T = Nat
  <2>1. T \in SUBSET Nat
    BY DEF T
  <2> QED BY <1>1, <1>3, <2>1, NumberInduction
<1> QED BY <1>4 DEF T

(* What generate_candidates chooses are combinations of the members.       *)
LEMMA ChosenTyped ==
    ASSUME NEW members \in SUBSET Strategies
    PROVE  Chosen(members) \subseteq Combinations(members)
<1> DEFINE all == Combinations(members)
           n == Limits["candidates"]
<1>1. IsFiniteSet(all) /\ \A c \in all : Cardinality(c) \in Nat
  BY CombinationsFinite
<1>2. Cardinality(all) \in Nat /\ n \in Nat
  BY <1>1, FS_CardinalityType, PortfolioAssumption DEF Counters
<1>3. CASE Cardinality(all) <= n
  BY <1>3 DEF Chosen
<1>4. CASE ~(Cardinality(all) <= n)
  <2>1. Smallest(all, n) # {}
    <3> HIDE DEF all, n
    <3> QED BY <1>1, <1>2, <1>4, SmallestExist
  <2>2. \E cs \in SUBSET all :
          /\ Cardinality(cs) = n
          /\ \A c \in cs, d \in all \ cs : Cardinality(c) <= Cardinality(d)
    BY <2>1 DEF Smallest
  <2> QED BY <1>4, <2>2 DEF Chosen
<1> QED BY <1>3, <1>4

-----------------------------------------------------------------------------
\* The invariant

Phases == {Ranked[i] : i \in DOMAIN Ranked}

Reviews ==
    [selected : SUBSET Strategies, class : {"NONE", "TURNED_DOWN", "ACCEPTED"}]

Commands ==
    [at : {"idle", "run", "budget", "rows", "review", "complete"},
     version : Versions \cup {0}, table : Tables \cup {"none"},
     todo : SUBSET AllKeys]

\* Every variable of the registry, and the command at work.
ResearchTypeOK ==
    /\ specs \subseteq Versions /\ runs \in Seq(Versions)
    /\ phase \in [Versions -> Phases]
    /\ funded \subseteq Versions
    /\ usage \in [Versions -> [Counters -> Nat]]
    /\ rows \in [AllKeys -> Versions \cup {0}]
    /\ review \in [Versions -> Reviews]
    /\ call \in Commands
    /\ crashes \in 0..MaxCrashes

WithRun == {runs[i] : i \in DOMAIN runs}

\* A version that has no run yet has left nothing.
FreshVersions ==
    /\ WithRun \subseteq specs
    /\ At("run") => call.version \in specs \ WithRun
    /\ \A v \in Versions \ WithRun :
         review[v] = NoReview /\ \A k \in AllKeys : rows[k] # v

\* The phase in which the rows of a table are written.
PhaseOf(table) ==
    CASE table = "candidates" -> "MULTI_STRATEGY_PORTFOLIO"
      [] table = "prop" -> "PORTFOLIO_RISK_ANALYSIS"
      [] table = "ablation" -> "PORTFOLIO_PROP_SIMULATION"
      [] OTHER -> "PORTFOLIO_SIGNAL_ANALYSIS"

\* A command works for the newest version.  The rows it has yet to write are of
\* its table and about that version's candidates; those of a table the next
\* phase asks for are there or yet to be written.
WritesRows ==
    At("rows") =>
      /\ call.table \in Tables /\ phase[Newest] = PhaseOf(call.table)
      /\ \A k \in call.todo :
           /\ k[1] = call.table
           /\ call.table # "candidates" => k[2] \in Candidates(Newest)
      /\ call.table = "candidates" => call.todo # {} \/ Candidates(Newest) # {}
      /\ call.table \in {"risk", "prop"} =>
           \A c \in Candidates(Newest) :
             \/ <<call.table, c, "all">> \in call.todo
             \/ Has(call.table, c, Newest) /\ Has("signals", c, Newest)

AtWork ==
    /\ call.at \in {"budget", "rows", "review", "complete"} =>
         Started /\ call.version = Newest
    /\ At("review") => phase[Newest] = "PORTFOLIO_FINAL_REVIEW"
    /\ At("complete") =>
         phase[Newest] = "PORTFOLIO_FINAL_REVIEW" /\ review[Newest] # NoReview
    /\ WritesRows

\* Whatever the newest version has on record is about one of its candidates.
RowsHaveCandidate ==
    Started =>
      \A k \in AllKeys : rows[k] = Newest => k[2] \in Candidates(Newest)

\* The rows that are paid for and not yet written.
Outstanding(t, v) ==
    IF At("rows") /\ call.version = v /\ call.table = t THEN call.todo ELSE {}

PaidAhead ==
    \A v \in Versions :
      /\ \A t \in DOMAIN CounterOf :
           Cardinality(RowsOf(t, v) \cup Outstanding(t, v))
             <= usage[v][CounterOf[t]]
      /\ \A c \in Counters : usage[v][c] <= Limits[c]

-----------------------------------------------------------------------------
\* Rows and candidates

(* The phases from which a phase has been reached.                         *)
LEMMA PhasesReached ==
    ASSUME NEW v
    PROVE  /\ Reached(v, "PORTFOLIO_SIGNAL_ANALYSIS") <=>
                phase[v] \in {"PORTFOLIO_SIGNAL_ANALYSIS",
                  "PORTFOLIO_RISK_ANALYSIS", "PORTFOLIO_PROP_SIMULATION",
                  "PORTFOLIO_FINAL_REVIEW", "COMPLETE"}
           /\ Reached(v, "PORTFOLIO_RISK_ANALYSIS") <=>
                phase[v] \in {"PORTFOLIO_RISK_ANALYSIS",
                  "PORTFOLIO_PROP_SIMULATION", "PORTFOLIO_FINAL_REVIEW",
                  "COMPLETE"}
           /\ Reached(v, "PORTFOLIO_PROP_SIMULATION") <=>
                phase[v] \in {"PORTFOLIO_PROP_SIMULATION",
                  "PORTFOLIO_FINAL_REVIEW", "COMPLETE"}
           /\ Reached(v, "COMPLETE") <=> phase[v] = "COMPLETE"
<1>1. /\ DOMAIN Ranked = {1, 2, 3, 4, 5, 6, 7}
      /\ Ranked[1] = "NONE" /\ Ranked[2] = "MULTI_STRATEGY_PORTFOLIO"
      /\ Ranked[3] = "PORTFOLIO_SIGNAL_ANALYSIS"
      /\ Ranked[4] = "PORTFOLIO_RISK_ANALYSIS"
      /\ Ranked[5] = "PORTFOLIO_PROP_SIMULATION"
      /\ Ranked[6] = "PORTFOLIO_FINAL_REVIEW" /\ Ranked[7] = "COMPLETE"
  BY DEF Ranked
<1>2. Reached(v, "PORTFOLIO_SIGNAL_ANALYSIS") <=>
        phase[v] \in {Ranked[3], Ranked[4], Ranked[5], Ranked[6], Ranked[7]}
  BY <1>1 DEF Reached
<1>3. Reached(v, "PORTFOLIO_RISK_ANALYSIS") <=>
        phase[v] \in {Ranked[4], Ranked[5], Ranked[6], Ranked[7]}
  BY <1>1 DEF Reached
<1>4. Reached(v, "PORTFOLIO_PROP_SIMULATION") <=>
        phase[v] \in {Ranked[5], Ranked[6], Ranked[7]}
  BY <1>1 DEF Reached
<1>5. Reached(v, "COMPLETE") <=> phase[v] = Ranked[7]
  BY <1>1 DEF Reached
<1> QED BY <1>1, <1>2, <1>3, <1>4, <1>5

\* The phases are among the ranked ones.
LEMMA PhasesAre ==
    Phases = {"NONE", "MULTI_STRATEGY_PORTFOLIO", "PORTFOLIO_SIGNAL_ANALYSIS",
              "PORTFOLIO_RISK_ANALYSIS", "PORTFOLIO_PROP_SIMULATION",
              "PORTFOLIO_FINAL_REVIEW", "COMPLETE"}
<1>1. DOMAIN Ranked = {1, 2, 3, 4, 5, 6, 7}
  BY DEF Ranked
<1> QED BY <1>1 DEF Phases, Ranked

(* The rows of a version are finitely many, its candidates are some of the *)
(* combinations, and no more than its rows.                                *)
LEMMA CandidatesTyped ==
    ASSUME NEW v
    PROVE  /\ \A t : IsFiniteSet(RowsOf(t, v))
           /\ \A t : Cardinality(RowsOf(t, v)) \in Nat
           /\ Candidates(v) \subseteq Combinations(Strategies)
           /\ IsFiniteSet(Candidates(v))
           /\ Cardinality(Candidates(v)) \in Nat
<1>1. ASSUME NEW t
      PROVE  IsFiniteSet(RowsOf(t, v)) /\ Cardinality(RowsOf(t, v)) \in Nat
  <2>1. RowsOf(t, v) \in SUBSET AllKeys
    BY DEF RowsOf
  <2>2. IsFiniteSet(RowsOf(t, v))
    BY <2>1, AllKeysFinite, FS_Subset
  <2> QED BY <2>2, FS_CardinalityType
<1>2. ASSUME NEW c \in Candidates(v) PROVE c \in Combinations(Strategies)
  <2>1. PICK k \in AllKeys : k[1] = "candidates" /\ k[2] = c
    BY <1>2 DEF Candidates, RowsOf
  <2>2. PICK t \in Tables : k \in Keys(t, Combinations(Strategies))
    BY DEF AllKeys
  <2>3. k[2] \in Combinations(Strategies)
    BY <2>2, KeysOfTable
  <2> QED BY <2>1, <2>3
<1>3. IsFiniteSet(Candidates(v))
  <2>1. Candidates(v) \in SUBSET Combinations(Strategies)
    BY <1>2
  <2> QED BY <2>1, CombinationsFinite, FS_Subset
<1> QED BY <1>1, <1>2, <1>3, FS_CardinalityType

(* A version whose rows are the same keeps its candidates.                 *)
LEMMA SameRows ==
    ASSUME NEW v, \A k \in AllKeys : rows'[k] = v <=> rows[k] = v
    PROVE  /\ \A t : RowsOf(t, v)' = RowsOf(t, v)
           /\ Candidates(v)' = Candidates(v)
<1>1. \A t : RowsOf(t, v)' = RowsOf(t, v)
  BY DEF RowsOf
<1> QED BY <1>1 DEF Candidates

(* A candidate has a candidates row of its version.                        *)
LEMMA CandidateRow ==
    ASSUME NEW v, NEW k \in AllKeys, k[1] = "candidates", rows[k] = v
    PROVE  k[2] \in Candidates(v)
BY DEF Candidates, RowsOf

-----------------------------------------------------------------------------
\* Types

\* The newest version is a version with a run once the research has started.
LEMMA NewestTyped ==
    ASSUME ResearchTypeOK, Started
    PROVE  Newest \in Versions /\ Newest \in WithRun /\ Newest # 0
<1>1. Len(runs) \in DOMAIN runs /\ Newest = runs[Len(runs)]
  BY DEF ResearchTypeOK, Started, Newest
<1> QED BY <1>1, PortfolioAssumption DEF ResearchTypeOK, WithRun

\* A command about to write some keys, or gone.
LEMMA CommandTyped ==
    ASSUME ResearchTypeOK
    PROVE  /\ Idle \in Commands
           /\ \A s \in {"idle", "run", "budget", "rows", "review", "complete"} :
                [call EXCEPT !.at = s] \in Commands
           /\ \A s \in {"run", "review"}, v \in Versions :
                [Idle EXCEPT !.at = s, !.version = v] \in Commands
           /\ \A k : [call EXCEPT !.todo = @ \ {k}] \in Commands
           /\ \A v \in Versions, t \in Tables, todo \in SUBSET AllKeys :
                [at |-> "rows", version |-> v, table |-> t, todo |-> todo]
                  \in Commands
BY DEF ResearchTypeOK, Commands, Idle

(* What a command consumes is within the limits, and a number.             *)
LEMMA ConsumeTyped ==
    ASSUME ResearchTypeOK, Newest \in Versions,
           NEW c \in Counters, NEW n \in Nat, Consume(c, n)
    PROVE  /\ usage' \in [Versions -> [Counters -> Nat]]
           /\ usage[Newest][c] + n <= Limits[c]
           /\ \A v \in Versions, d \in Counters :
                usage'[v][d] = usage[v][d] + IF v = Newest /\ d = c THEN n ELSE 0
<1>1. /\ usage' = [usage EXCEPT ![Newest][c] = usage[Newest][c] + n]
      /\ usage[Newest][c] + n <= Limits[c]
  BY DEF Consume
<1>2. usage \in [Versions -> [Counters -> Nat]]
  BY DEF ResearchTypeOK
<1>3. usage[Newest][c] + n \in Nat
  BY <1>2
<1> QED BY <1>1, <1>2, <1>3

(* What a command of a phase starts to write.                              *)
LEMMA WriteTyped ==
    ASSUME ResearchTypeOK, Started, NEW t \in Tables,
           NEW cs \in SUBSET Combinations(Strategies), Write(t, Keys(t, cs))
    PROVE  /\ call' \in Commands
           /\ call'.at = "rows" /\ call'.version = Newest /\ call'.table = t
           /\ call'.todo = Keys(t, cs)
<1>1. Keys(t, cs) \in SUBSET AllKeys
  BY KeysOfTable
<1> QED BY <1>1, NewestTyped, CommandTyped DEF Write

\* What is due is a number, as long as what there is belongs to candidates.
LEMMA DueTyped ==
    ASSUME ResearchTypeOK, RowsHaveCandidate, Started, NEW t \in Tables
    PROVE  /\ Due(t) \in Nat
           /\ IsFiniteSet(Keys(t, Candidates(Newest)))
           /\ RowsOf(t, Newest) \subseteq Keys(t, Candidates(Newest))
           /\ Cardinality(Keys(t, Candidates(Newest)))
                = Due(t) + Cardinality(RowsOf(t, Newest))
<1> DEFINE ks == Keys(t, Candidates(Newest))
<1>1. Candidates(Newest) \in SUBSET Combinations(Strategies)
  BY CandidatesTyped
<1>2. RowsOf(t, Newest) \subseteq ks
  BY <1>1, KeysOfTable DEF RowsOf, RowsHaveCandidate
<1>3. ks \in SUBSET AllKeys
  BY <1>1, KeysOfTable
<1>4. IsFiniteSet(ks)
  BY <1>3, AllKeysFinite, FS_Subset
<1>5. Cardinality(ks) \in Nat /\ Cardinality(RowsOf(t, Newest)) \in Nat
  BY <1>4, CandidatesTyped, FS_CardinalityType
<1>6. Cardinality(RowsOf(t, Newest)) <= Cardinality(ks)
  BY <1>2, <1>4, FS_Subset
<1>7. Due(t) = Cardinality(ks) - Cardinality(RowsOf(t, Newest))
  BY DEF Due
<1> HIDE DEF ks
<1>8. /\ Due(t) \in Nat
      /\ Cardinality(ks) = Due(t) + Cardinality(RowsOf(t, Newest))
  BY <1>5, <1>6, <1>7
<1> QED BY <1>2, <1>4, <1>8 DEF ks

(* The research keeps its types.                                           *)
LEMMA ResearchTyped ==
    ASSUME ResearchTypeOK, RowsHaveCandidate, AtWork, FreshVersions, [Next]_vars
    PROVE  ResearchTypeOK'
<1> USE DEF ResearchTypeOK
<1>n. ASSUME Started PROVE Newest \in Versions
  BY <1>n, NewestTyped
<1>p. \A p \in {"MULTI_STRATEGY_PORTFOLIO", "PORTFOLIO_FINAL_REVIEW", "COMPLETE"} :
        p \in Phases
  BY PhasesAre
<1>1. CASE \E v \in Versions : SaveSpec(v)
  <2>1. PICK v \in Versions : SaveSpec(v)
    BY <1>1
  <2>2. call' \in Commands
    BY <2>1, CommandTyped DEF SaveSpec
  <2> QED BY <2>1, <2>2 DEF SaveSpec
<1>2. CASE SaveRun
  <2>1. call.version \in Versions
    BY <1>2 DEF SaveRun, FreshVersions
  <2>2. call' \in Commands
    BY <1>2, CommandTyped DEF SaveRun, Goto
  <2>3. phase' \in [Versions -> Phases]
    BY <1>2, <1>p DEF SaveRun
  <2>4. runs' \in Seq(Versions)
    BY <1>2, <2>1 DEF SaveRun
  <2> QED BY <1>2, <2>2, <2>3, <2>4 DEF SaveRun
<1>3. CASE SaveBudget
  <2>1. call.version \in Versions
    BY <1>3, <1>n DEF SaveBudget, AtWork, At
  <2> QED BY <1>3, <2>1, CommandTyped DEF SaveBudget
<1>4. CASE GenerateCandidates
  <2>1. PICK members \in Eligibilities :
          /\ Consume("candidates", Cardinality(Chosen(members)))
          /\ Write("candidates", Keys("candidates", Chosen(members)))
    BY <1>4 DEF GenerateCandidates
  <2>2. /\ Chosen(members) \in SUBSET Combinations(Strategies)
        /\ Cardinality(Chosen(members)) \in Nat
    <3>1. members \in SUBSET Strategies
      BY PortfolioAssumption
    <3>2. Chosen(members) \in SUBSET Combinations(Strategies)
      BY <3>1, ChosenTyped, CombinationsFinite
    <3> QED BY <3>2, CombinationsFinite, FS_Subset, FS_CardinalityType
  <2>3. Started /\ "candidates" \in Counters /\ "candidates" \in Tables
    BY <1>4 DEF GenerateCandidates, InPhase, Counters, Tables
  <2>4. usage' \in [Versions -> [Counters -> Nat]] /\ call' \in Commands
    BY <1>n, <2>1, <2>2, <2>3, ConsumeTyped, WriteTyped
  <2> QED BY <1>4, <2>4 DEF GenerateCandidates
<1>5. CASE MergeSignals \/ Analyze \/ RunRisk
  <2>1. PICK t \in Tables, cs \in SUBSET Combinations(Strategies) :
          Write(t, Keys(t, cs)) /\ Started /\ UNCHANGED <<registry, crashes>>
    BY <1>5, CandidatesTyped
       DEF MergeSignals, Analyze, RunRisk, InPhase, Tables, Missing, registry
  <2>2. call' \in Commands
    BY <2>1, WriteTyped
  <2> QED BY <2>1, <2>2 DEF registry
<1>6. CASE RunProp
  <2>1. Started /\ "scenarios" \in Counters /\ "prop" \in Tables
    BY <1>6 DEF RunProp, InPhase, Counters, Tables
  <2>2. usage' \in [Versions -> [Counters -> Nat]] /\ call' \in Commands
    BY <1>6, <1>n, <2>1, CandidatesTyped, ConsumeTyped, WriteTyped DEF RunProp
  <2> QED BY <1>6, <2>2 DEF RunProp
<1>7. CASE RunAblation
  <2>1. Started /\ "ablation_runs" \in Counters /\ "ablation" \in Tables
    BY <1>7 DEF RunAblation, InPhase, Counters, Tables
  <2>2. Due("ablation") \in Nat
    BY <2>1, DueTyped
  <2>3. usage' \in [Versions -> [Counters -> Nat]] /\ call' \in Commands
    BY <1>7, <1>n, <2>1, <2>2, CandidatesTyped, ConsumeTyped, WriteTyped
       DEF RunAblation
  <2> QED BY <1>7, <2>3 DEF RunAblation
<1>8. CASE FinalReview
  BY <1>8, <1>n, <1>p, CommandTyped DEF FinalReview, InPhase
<1>9. CASE SaveRow
  <2>1. call.version \in Versions
    BY <1>9, <1>n DEF SaveRow, AtWork, At
  <2>2. PICK k \in call.todo :
          IF k[1] \in NeedsSignals /\ ~Has("signals", k[2], call.version)
            THEN call' = Idle /\ UNCHANGED rows
            ELSE /\ rows' = [rows EXCEPT ![k] = call.version]
                 /\ call' = [call EXCEPT !.todo = @ \ {k}]
    BY <1>9 DEF SaveRow
  <2>3. rows' \in [AllKeys -> Versions \cup {0}] /\ call' \in Commands
    BY <2>1, <2>2, CommandTyped
  <2> QED BY <1>9, <2>3 DEF SaveRow
<1>10. CASE Advance
  <2>1. \A p \in Phases : \A t : PhaseAfter(t, p) \in Phases
    BY PhasesAre DEF PhaseAfter
  <2>2. phase' \in [Versions -> Phases]
    BY <1>10, <2>1 DEF Advance
  <2> QED BY <1>10, <2>2, CommandTyped DEF Advance
<1>11. CASE SaveReview
  <2>1. PICK c \in Candidates(call.version) :
          \E class \in Classes(c, call.version) :
            review' = [review EXCEPT ![call.version] =
                         [selected |-> c, class |-> class]]
    BY <1>11 DEF SaveReview
  <2>2. \A class \in Classes(c, call.version) :
          [selected |-> c, class |-> class] \in Reviews
    BY CandidatesTyped DEF Classes, Reviews, Combinations
  <2> QED BY <1>11, <2>1, <2>2, CommandTyped DEF SaveReview, Goto
<1>12. CASE Complete
  <2>1. phase' \in [Versions -> Phases]
    BY <1>12, <1>p DEF Complete
  <2>2. call' \in Commands
    BY <1>12, CommandTyped DEF Complete
  <2> QED BY <1>12, <2>1, <2>2 DEF Complete
<1>13. CASE Crash
  <2>1. call' \in Commands
    BY <1>13, CommandTyped DEF Crash
  <2>2. crashes' \in 0..MaxCrashes
    BY <1>13, PortfolioAssumption DEF Crash
  <2> QED BY <1>13, <2>1, <2>2 DEF Crash, registry
<1>14. CASE UNCHANGED vars
  BY <1>14 DEF vars, registry
<1> QED BY <1>1, <1>2, <1>3, <1>4, <1>5, <1>6, <1>7, <1>8, <1>9, <1>10, <1>11,
           <1>12, <1>13, <1>14 DEF Next, Continue

-----------------------------------------------------------------------------
\* Versions without a run

(* A row is written for the version of the command, and for no other.      *)
LEMMA SavedRow ==
    ASSUME ResearchTypeOK, SaveRow
    PROVE  \E k \in call.todo :
             \/ /\ k[1] \in NeedsSignals /\ ~Has("signals", k[2], call.version)
                /\ call' = Idle /\ rows' = rows
             \/ /\ k[1] \in NeedsSignals => Has("signals", k[2], call.version)
                /\ k \in AllKeys
                /\ call'.at = "rows" /\ call'.version = call.version
                /\ call'.table = call.table /\ call'.todo = call.todo \ {k}
                /\ rows' = [rows EXCEPT ![k] = call.version]
                /\ \A j \in AllKeys :
                     rows'[j] = IF j = k THEN call.version ELSE rows[j]
<1>1. PICK k \in call.todo :
        IF k[1] \in NeedsSignals /\ ~Has("signals", k[2], call.version)
          THEN call' = Idle /\ UNCHANGED rows
          ELSE /\ rows' = [rows EXCEPT ![k] = call.version]
               /\ call' = [call EXCEPT !.todo = @ \ {k}]
  BY DEF SaveRow
<1>2. k \in AllKeys /\ call.at = "rows" /\ call \in Commands
  BY DEF ResearchTypeOK, Commands, SaveRow, At
<1>3. CASE k[1] \in NeedsSignals /\ ~Has("signals", k[2], call.version)
  BY <1>1, <1>3
<1>4. CASE ~(k[1] \in NeedsSignals /\ ~Has("signals", k[2], call.version))
  <2>1. /\ call'.at = "rows" /\ call'.version = call.version
        /\ call'.table = call.table /\ call'.todo = call.todo \ {k}
    BY <1>1, <1>2, <1>4 DEF Commands
  <2>2. rows' = [rows EXCEPT ![k] = call.version]
    BY <1>1, <1>4
  <2>3. \A j \in AllKeys : rows'[j] = IF j = k THEN call.version ELSE rows[j]
    BY <2>2 DEF ResearchTypeOK
  <2> QED BY <1>2, <1>4, <2>1, <2>2, <2>3
<1> QED BY <1>3, <1>4

(* A version without a run has no rows and no review.                      *)
LEMMA FreshStep ==
    ASSUME ResearchTypeOK, AtWork, FreshVersions, [Next]_vars
    PROVE  FreshVersions'
<1> USE DEF FreshVersions
<1>n. ASSUME Started PROVE Newest \in Versions /\ Newest \in WithRun
  BY <1>n, NewestTyped
<1>0. ASSUME UNCHANGED <<specs, runs, rows, review>>, call'.at # "run"
      PROVE  FreshVersions'
  BY <1>0 DEF WithRun, At
<1>1. CASE \E v \in Versions : SaveSpec(v)
  <2>1. PICK v \in Versions : SaveSpec(v)
    BY <1>1
  <2>2. call'.version = v /\ call'.at = "run"
    BY <2>1 DEF SaveSpec, Idle
  <2>3. /\ specs' = specs \cup {v} /\ v \notin specs
        /\ UNCHANGED <<runs, rows, review>>
    BY <2>1 DEF SaveSpec
  <2> QED BY <2>2, <2>3 DEF WithRun, At
<1>2. CASE SaveRun
  <2>1. call.version \in specs
    BY <1>2 DEF SaveRun
  <2>2. WithRun' = WithRun \cup {call.version}
    <3>1. runs' = Append(runs, call.version) /\ runs \in Seq(Versions)
      BY <1>2 DEF SaveRun, ResearchTypeOK
    <3>2. /\ DOMAIN runs' = 1..(Len(runs) + 1) /\ DOMAIN runs = 1..Len(runs)
          /\ \A i \in DOMAIN runs : runs'[i] = runs[i]
          /\ runs'[Len(runs) + 1] = call.version /\ Len(runs) \in Nat
      BY <3>1
    <3> QED BY <3>2 DEF WithRun
  <2>3. call'.at # "run"
    BY <1>2 DEF SaveRun, Goto, ResearchTypeOK, Commands
  <2> QED BY <1>2, <2>1, <2>2, <2>3 DEF SaveRun, At
<1>3. CASE SaveBudget \/ Advance
  BY <1>0, <1>3 DEF SaveBudget, Advance, Idle
<1>4. CASE GenerateCandidates \/ RunProp \/ RunAblation
  <2>1. call'.at = "rows"
    BY <1>4 DEF GenerateCandidates, RunProp, RunAblation, Write
  <2> QED BY <1>0, <1>4, <2>1 DEF GenerateCandidates, RunProp, RunAblation
<1>5. CASE MergeSignals \/ Analyze \/ RunRisk
  <2>1. call'.at = "rows"
    BY <1>5 DEF MergeSignals, Analyze, RunRisk, Write
  <2> QED BY <1>0, <1>5, <2>1 DEF MergeSignals, Analyze, RunRisk, registry
<1>6. CASE FinalReview
  BY <1>0, <1>6 DEF FinalReview, Idle
<1>7. CASE SaveRow
  <2>1. call.version \in WithRun /\ call'.at # "run"
    BY <1>7, <1>n, SavedRow DEF SaveRow, AtWork, At, Idle
  <2>2. \A k \in AllKeys : rows'[k] \in {rows[k], call.version}
    BY <1>7, SavedRow
  <2> QED BY <1>7, <2>1, <2>2 DEF SaveRow, WithRun, At
<1>8. CASE SaveReview
  <2>1. call.version \in WithRun
    BY <1>8, <1>n DEF SaveReview, AtWork, At
  <2>2. call'.at # "run"
    BY <1>8 DEF SaveReview, Goto, ResearchTypeOK, Commands
  <2>3. \A v \in Versions \ WithRun : review'[v] = review[v]
    BY <1>8, <2>1 DEF SaveReview
  <2> QED BY <1>8, <2>2, <2>3 DEF SaveReview, WithRun, At
<1>9. CASE Complete \/ Crash
  BY <1>0, <1>9 DEF Complete, Crash, Idle, registry
<1>10. CASE UNCHANGED vars
  BY <1>10 DEF vars, registry, WithRun, At
<1> QED BY <1>1, <1>2, <1>3, <1>4, <1>5, <1>6, <1>7, <1>8, <1>9, <1>10
        DEF Next, Continue

-----------------------------------------------------------------------------
\* Evidence

\* What the newest version's phase and review rest on.
EvidenceKept == RowsHaveCandidate /\ EvidenceBehindPhase /\ AcceptedOnEvidence

(* As long as rows, phases and reviews stay, so does what rests on them.   *)
LEMMA EvidenceUntouched ==
    ASSUME EvidenceKept, UNCHANGED <<runs, phase, rows, review>>
    PROVE  EvidenceKept'
BY DEF EvidenceKept, RowsHaveCandidate, EvidenceBehindPhase, AcceptedOnEvidence,
       Started, Newest, Candidates, RowsOf, Has, Reached

(* A command that begins to write a table for some of the candidates, in   *)
(* its phase, is one that is at work for the newest version.               *)
LEMMA BeginsToWrite ==
    ASSUME ResearchTypeOK, Started, NEW t \in Tables,
           NEW cs \in SUBSET Combinations(Strategies), Write(t, Keys(t, cs)),
           UNCHANGED <<runs, phase, rows, review>>,
           phase[Newest] = PhaseOf(t),
           t = "candidates" => cs # {},
           t # "candidates" => cs \subseteq Candidates(Newest),
           t \in {"risk", "prop"} => cs = Candidates(Newest)
    PROVE  AtWork'
<1>1. /\ call'.at = "rows" /\ call'.version = Newest /\ call'.table = t
      /\ call'.todo = Keys(t, cs)
  BY WriteTyped
<1>2. Newest' = Newest /\ Started' /\ phase'[Newest'] = PhaseOf(t)
  BY DEF Newest, Started
<1>3. Candidates(Newest)' = Candidates(Newest)
  BY DEF Newest, Candidates, RowsOf
<1>4. /\ \A k \in Keys(t, cs) : k[1] = t /\ k[2] \in cs
      /\ t # "ablation" => \A c \in cs : <<t, c, "all">> \in Keys(t, cs)
      /\ cs # {} /\ t # "ablation" => Keys(t, cs) # {}
  BY KeysOfTable
<1>5. WritesRows'
  BY <1>1, <1>2, <1>3, <1>4 DEF WritesRows
<1> QED BY <1>1, <1>2, <1>5 DEF AtWork, At

(* A command that is gone, or has only saved a specification, is not at work. *)
LEMMA NotAtWork ==
    ASSUME call'.at \in {"idle", "run"} PROVE AtWork'
BY DEF AtWork, WritesRows, At

(* What a saved row is, among the candidates and the rows of the version.  *)
LEMMA RowSaved ==
    ASSUME ResearchTypeOK, NEW v, v # 0, NEW k \in AllKeys,
           rows' = [rows EXCEPT ![k] = v]
    PROVE  /\ Candidates(v)' = Candidates(v) \cup
                (IF k[1] = "candidates" THEN {k[2]} ELSE {})
           /\ \A t \in Tables \ {"ablation"}, c \in Combinations(Strategies) :
                Has(t, c, v)' <=> Has(t, c, v) \/ k = <<t, c, "all">>
<1>1. \A j \in AllKeys : rows'[j] = IF j = k THEN v ELSE rows[j]
  BY DEF ResearchTypeOK
<1>2. Candidates(v)' = Candidates(v) \cup
        (IF k[1] = "candidates" THEN {k[2]} ELSE {})
  BY <1>1 DEF Candidates, RowsOf
<1>3. ASSUME NEW t \in Tables \ {"ablation"}, NEW c \in Combinations(Strategies)
      PROVE  Has(t, c, v)' <=> Has(t, c, v) \/ k = <<t, c, "all">>
  <2>1. <<t, c, "all">> \in AllKeys
    BY <1>3 DEF AllKeys, Keys
  <2> QED BY <1>1, <2>1 DEF Has
<1> QED BY <1>2, <1>3

(* A row that is saved takes nothing from what the version has; candidates *)
(* are added only before the phase in which they are analysed.             *)
LEMMA SaveRowKeeps ==
    ASSUME ResearchTypeOK, AtWork, EvidenceKept, SaveRow
    PROVE  AtWork' /\ EvidenceKept'
<1>1. PICK k \in call.todo :
        \/ /\ k[1] \in NeedsSignals /\ ~Has("signals", k[2], call.version)
           /\ call' = Idle /\ rows' = rows
        \/ /\ k[1] \in NeedsSignals => Has("signals", k[2], call.version)
           /\ k \in AllKeys
           /\ call'.at = "rows" /\ call'.version = call.version
           /\ call'.table = call.table /\ call'.todo = call.todo \ {k}
           /\ rows' = [rows EXCEPT ![k] = call.version]
           /\ \A j \in AllKeys :
                rows'[j] = IF j = k THEN call.version ELSE rows[j]
  BY SavedRow
<1>2. UNCHANGED <<runs, phase, review>>
  BY DEF SaveRow
<1>3. CASE call' = Idle /\ rows' = rows
  BY <1>2, <1>3, NotAtWork, EvidenceUntouched DEF Idle
<1>4. CASE ~(call' = Idle /\ rows' = rows)
  <2>v. PICK v : v = Newest
    OBVIOUS
  <2>t. PICK t : t = call.table
    OBVIOUS
  <2>1. /\ Started /\ call.version = v /\ WritesRows /\ At("rows")
        /\ v \in Versions /\ v # 0
    BY <2>v, NewestTyped DEF AtWork, SaveRow, At
  <2>2. /\ t \in Tables /\ phase[v] = PhaseOf(t)
        /\ \A j \in call.todo :
             /\ j[1] = t
             /\ t # "candidates" => j[2] \in Candidates(v)
        /\ t = "candidates" => call.todo # {} \/ Candidates(v) # {}
        /\ t \in {"risk", "prop"} =>
             \A c \in Candidates(v) :
               \/ <<t, c, "all">> \in call.todo
               \/ Has(t, c, v) /\ Has("signals", c, v)
    BY <2>1, <2>v, <2>t DEF WritesRows
  <2>3. /\ k[1] \in NeedsSignals => Has("signals", k[2], v)
        /\ k \in AllKeys /\ k[1] = t
        /\ call'.at = "rows" /\ call'.version = v
        /\ call'.table = t /\ call'.todo = call.todo \ {k}
        /\ rows' = [rows EXCEPT ![k] = v]
        /\ \A j \in AllKeys : rows'[j] = IF j = k THEN v ELSE rows[j]
    BY <1>1, <1>4, <2>1, <2>2, <2>t
  <2>4. /\ Candidates(v)' = Candidates(v) \cup
             (IF t = "candidates" THEN {k[2]} ELSE {})
        /\ \A u \in Tables \ {"ablation"}, c \in Combinations(Strategies) :
             Has(u, c, v)' <=> Has(u, c, v) \/ k = <<u, c, "all">>
    BY <2>1, <2>3, RowSaved
  <2>5. Newest' = v /\ Started'
    BY <1>2, <2>1, <2>v DEF Newest, Started
  <2>6. Candidates(v) \subseteq Combinations(Strategies)
    BY CandidatesTyped
  <2>7. {"signals", "overlap", "correlation", "risk", "prop"} \subseteq Tables \ {"ablation"}
    BY DEF Tables
  <2>8. Candidates(Newest)' = Candidates(v)'
    BY <2>5 DEF Candidates, RowsOf
  <2>9. \A u, c : Has(u, c, Newest)' <=> Has(u, c, v)'
    BY <2>5 DEF Has
  <2>10. AtWork'
    <3>1. t = "candidates" => Candidates(v)' # {}
      BY <2>4
    <3>2. ASSUME t \in {"risk", "prop"}, NEW c \in Candidates(v)
          PROVE  \/ <<t, c, "all">> \in call'.todo
                 \/ Has(t, c, v)' /\ Has("signals", c, v)'
      <4>1. c \in Combinations(Strategies) /\ t \in Tables \ {"ablation"}
        BY <2>6, <2>7, <3>2
      <4>2. CASE k = <<t, c, "all">>
        <5>1. Has("signals", c, v)
          BY <2>3, <3>2, <4>2 DEF NeedsSignals
        <5> QED BY <2>4, <2>7, <4>1, <4>2, <5>1
      <4>3. CASE k # <<t, c, "all">> /\ <<t, c, "all">> \in call.todo
        BY <2>3, <4>3
      <4>4. CASE Has(t, c, v) /\ Has("signals", c, v)
        BY <2>4, <2>7, <4>1, <4>4
      <4> QED BY <2>2, <3>2, <4>2, <4>3, <4>4
    <3>3. /\ call'.table \in Tables /\ phase'[Newest'] = PhaseOf(call'.table)
          /\ \A j \in call'.todo :
               /\ j[1] = call'.table
               /\ call'.table # "candidates" => j[2] \in Candidates(Newest)'
      BY <1>2, <2>2, <2>3, <2>4, <2>5, <2>8
    <3>4. t # "candidates" => Candidates(v)' = Candidates(v)
      BY <2>4
    <3>5. WritesRows'
      BY <2>3, <2>8, <2>9, <3>1, <3>2, <3>3, <3>4 DEF WritesRows
    <3> QED BY <2>3, <2>5, <3>5 DEF AtWork, At
  <2>11. RowsHaveCandidate'
    <3>1. ASSUME NEW j \in AllKeys, rows'[j] = v
          PROVE  j[2] \in Candidates(v)'
      <4>1. CASE j = k
        BY <2>2, <2>3, <2>4, <4>1
      <4>2. CASE j # k
        <5>1. rows[j] = v
          BY <2>3, <3>1, <4>2
        <5>2. j[2] \in Candidates(v)
          BY <2>1, <2>v, <5>1 DEF EvidenceKept, RowsHaveCandidate
        <5> QED BY <2>4, <5>2
      <4> QED BY <4>1, <4>2
    <3> QED BY <2>5, <2>8, <3>1 DEF RowsHaveCandidate
  <2>12. EvidenceBehindPhase'
    <3>1. \A p : Reached(Newest, p)' <=> Reached(v, p)
      BY <1>2, <2>5 DEF Reached
    <3>2. review'[Newest'] = review[v]
      BY <1>2, <2>5
    <3>3. /\ Reached(v, "PORTFOLIO_SIGNAL_ANALYSIS") => Candidates(v) # {}
          /\ \A c \in Candidates(v) :
               /\ Reached(v, "PORTFOLIO_RISK_ANALYSIS") =>
                    Has("signals", c, v) /\ Has("risk", c, v)
               /\ Reached(v, "PORTFOLIO_PROP_SIMULATION") => Has("prop", c, v)
          /\ Reached(v, "COMPLETE") => review[v] # NoReview
      BY <2>1, <2>v DEF EvidenceKept, EvidenceBehindPhase
    <3>4. t = "candidates" =>
            /\ ~Reached(v, "PORTFOLIO_RISK_ANALYSIS")
            /\ ~Reached(v, "PORTFOLIO_PROP_SIMULATION")
      BY <2>2, PhasesReached DEF PhaseOf
    <3>5. Reached(v, "PORTFOLIO_SIGNAL_ANALYSIS") => Candidates(v)' # {}
      BY <2>4, <3>3
    <3>6. ASSUME NEW c \in Candidates(v)'
          PROVE  /\ Reached(v, "PORTFOLIO_RISK_ANALYSIS") =>
                      Has("signals", c, v)' /\ Has("risk", c, v)'
                 /\ Reached(v, "PORTFOLIO_PROP_SIMULATION") => Has("prop", c, v)'
      <4>1. CASE t = "candidates"
        BY <3>4, <4>1
      <4>2. CASE t # "candidates"
        <5>1. c \in Candidates(v) /\ c \in Combinations(Strategies)
          BY <2>4, <2>6, <3>6, <4>2
        <5> QED BY <2>4, <2>7, <3>3, <5>1
      <4> QED BY <4>1, <4>2
    <3> QED BY <2>8, <2>9, <3>1, <3>2, <3>3, <3>5, <3>6 DEF EvidenceBehindPhase
  <2>13. AcceptedOnEvidence'
    <3>1. review'[Newest'] = review[v]
      BY <1>2, <2>5
    <3>2. ASSUME review[v] # NoReview
          PROVE  /\ review[v].selected \in Candidates(v)'
                 /\ Has("prop", review[v].selected, v)'
                 /\ review[v].class = "ACCEPTED" =>
                      /\ Has("overlap", review[v].selected, v)'
                      /\ Has("correlation", review[v].selected, v)'
      <4>1. PICK c : c = review[v].selected
        OBVIOUS
      <4>2. /\ c \in Candidates(v) /\ Has("prop", c, v)
            /\ review[v].class = "ACCEPTED" =>
                 Has("overlap", c, v) /\ Has("correlation", c, v)
        BY <2>1, <2>v, <3>2, <4>1 DEF EvidenceKept, AcceptedOnEvidence
      <4>3. /\ c \in Candidates(v)' /\ Has("prop", c, v)'
            /\ review[v].class = "ACCEPTED" =>
                 Has("overlap", c, v)' /\ Has("correlation", c, v)'
        BY <2>4, <2>6, <2>7, <4>2
      <4> QED BY <1>2, <4>1, <4>3
    <3> QED BY <2>5, <2>8, <3>1, <3>2 DEF AcceptedOnEvidence, Has
  <2> QED BY <2>10, <2>11, <2>12, <2>13 DEF EvidenceKept
<1> QED BY <1>3, <1>4

(* A new version has nothing on record, although an earlier one may.       *)
LEMMA SaveRunKeeps ==
    ASSUME ResearchTypeOK, FreshVersions, SaveRun
    PROVE  AtWork' /\ EvidenceKept'
<1>1. PICK v : v = call.version
  OBVIOUS
<1>2. /\ v \in Versions \ WithRun
      /\ review[v] = NoReview /\ \A k \in AllKeys : rows[k] # v
  BY <1>1 DEF FreshVersions, SaveRun, ResearchTypeOK
<1>3. Newest' = v /\ Started'
  <2>1. runs' = Append(runs, v) /\ runs \in Seq(Versions)
    BY <1>1 DEF SaveRun, ResearchTypeOK
  <2>2. Len(runs') = Len(runs) + 1 /\ runs'[Len(runs) + 1] = v /\ runs' # <<>>
    BY <2>1
  <2> QED BY <2>2 DEF Newest, Started
<1>4. /\ phase'[v] = "MULTI_STRATEGY_PORTFOLIO" /\ rows' = rows
      /\ review' = review /\ call'.at = "budget" /\ call'.version = v
  BY <1>1, <1>2 DEF SaveRun, Goto, ResearchTypeOK, Commands
<1>5. AtWork'
  BY <1>3, <1>4 DEF AtWork, WritesRows, At
<1>6. RowsHaveCandidate'
  BY <1>2, <1>3, <1>4 DEF RowsHaveCandidate
<1>7. EvidenceBehindPhase'
  <2>1. ~Reached(v, "PORTFOLIO_SIGNAL_ANALYSIS")'
    <3>1. ~ \E i, j \in DOMAIN Ranked :
              /\ Ranked[i] = "PORTFOLIO_SIGNAL_ANALYSIS"
              /\ Ranked[j] = "MULTI_STRATEGY_PORTFOLIO" /\ i <= j
      BY DEF Ranked
    <3> QED BY <1>4, <3>1 DEF Reached
  <2>2. ~Reached(v, "COMPLETE")'
    <3>1. ~ \E i, j \in DOMAIN Ranked :
              /\ Ranked[i] = "COMPLETE"
              /\ Ranked[j] = "MULTI_STRATEGY_PORTFOLIO" /\ i <= j
      BY DEF Ranked
    <3> QED BY <1>4, <3>1 DEF Reached
  <2>3. Candidates(v)' = {}
    BY <1>2, <1>4 DEF Candidates, RowsOf
  <2>4. Candidates(Newest)' = {}
    BY <1>3, <2>3 DEF Candidates, RowsOf
  <2> QED BY <1>3, <2>1, <2>2, <2>4 DEF EvidenceBehindPhase, Reached
<1>8. AcceptedOnEvidence'
  BY <1>2, <1>3, <1>4 DEF AcceptedOnEvidence
<1> QED BY <1>5, <1>6, <1>7, <1>8 DEF EvidenceKept

(* The newest version's phase changes, and its rows do not: what has to be *)
(* looked at again is what the new phase rests on.                         *)
LEMMA PhaseMoves ==
    ASSUME ResearchTypeOK, EvidenceKept, Started, NEW v, v = Newest,
           UNCHANGED <<runs, rows, review>>, NEW p,
           phase' = [phase EXCEPT ![v] = p],
           p \in {"PORTFOLIO_SIGNAL_ANALYSIS", "PORTFOLIO_RISK_ANALYSIS",
                  "PORTFOLIO_PROP_SIMULATION", "PORTFOLIO_FINAL_REVIEW",
                  "COMPLETE"},
           Candidates(v) # {},
           p # "PORTFOLIO_SIGNAL_ANALYSIS" =>
             \A c \in Candidates(v) : Has("signals", c, v) /\ Has("risk", c, v),
           p \in {"PORTFOLIO_PROP_SIMULATION", "PORTFOLIO_FINAL_REVIEW",
                  "COMPLETE"} =>
             \A c \in Candidates(v) : Has("prop", c, v),
           p = "COMPLETE" => review[v] # NoReview
    PROVE  EvidenceKept'
<1>1. v \in Versions
  BY NewestTyped
<1>2. phase'[v] = p /\ Newest' = v /\ Started'
  BY <1>1 DEF ResearchTypeOK, Newest, Started
<1>3. /\ Candidates(v)' = Candidates(v) /\ Candidates(Newest)' = Candidates(v)
      /\ \A t, c : Has(t, c, v)' <=> Has(t, c, v)
      /\ \A t, c : Has(t, c, Newest)' <=> Has(t, c, v)
  BY <1>2 DEF Candidates, RowsOf, Has
<1>4. RowsHaveCandidate'
  BY <1>2, <1>3 DEF EvidenceKept, RowsHaveCandidate
<1>5. AcceptedOnEvidence'
  BY <1>2, <1>3 DEF EvidenceKept, AcceptedOnEvidence, Has
<1>6. \A q : Reached(Newest, q)' <=>
        \E i, j \in DOMAIN Ranked : Ranked[i] = q /\ Ranked[j] = p /\ i <= j
  BY <1>2 DEF Reached
<1>7. /\ p = "PORTFOLIO_SIGNAL_ANALYSIS" =>
           ~Reached(Newest, "PORTFOLIO_RISK_ANALYSIS")'
      /\ p \in {"PORTFOLIO_SIGNAL_ANALYSIS", "PORTFOLIO_RISK_ANALYSIS"} =>
           ~Reached(Newest, "PORTFOLIO_PROP_SIMULATION")'
      /\ p # "COMPLETE" => ~Reached(Newest, "COMPLETE")'
  <2>1. /\ DOMAIN Ranked = {1, 2, 3, 4, 5, 6, 7}
        /\ Ranked[1] = "NONE" /\ Ranked[2] = "MULTI_STRATEGY_PORTFOLIO"
        /\ Ranked[3] = "PORTFOLIO_SIGNAL_ANALYSIS"
        /\ Ranked[4] = "PORTFOLIO_RISK_ANALYSIS"
        /\ Ranked[5] = "PORTFOLIO_PROP_SIMULATION"
        /\ Ranked[6] = "PORTFOLIO_FINAL_REVIEW" /\ Ranked[7] = "COMPLETE"
    BY DEF Ranked
  <2>2. ~Reached(Newest, "COMPLETE")' \/ p = "COMPLETE"
    BY <1>6, <2>1
  <2>3. ~Reached(Newest, "PORTFOLIO_RISK_ANALYSIS")'
          \/ p # "PORTFOLIO_SIGNAL_ANALYSIS"
    BY <1>6, <2>1
  <2>4. ~Reached(Newest, "PORTFOLIO_PROP_SIMULATION")'
          \/ p \notin {"PORTFOLIO_SIGNAL_ANALYSIS", "PORTFOLIO_RISK_ANALYSIS"}
    BY <1>6, <2>1
  <2> QED BY <2>2, <2>3, <2>4
<1>8. EvidenceBehindPhase'
  BY <1>2, <1>3, <1>7 DEF EvidenceBehindPhase, Has
<1> QED BY <1>4, <1>5, <1>8 DEF EvidenceKept

(* What is known of the newest version in each phase.                      *)
LEMMA PhaseKnows ==
    ASSUME EvidenceKept, Started
    PROVE  LET v == Newest IN
           /\ phase[v] \in {"PORTFOLIO_SIGNAL_ANALYSIS",
                "PORTFOLIO_RISK_ANALYSIS", "PORTFOLIO_PROP_SIMULATION",
                "PORTFOLIO_FINAL_REVIEW", "COMPLETE"} => Candidates(v) # {}
           /\ phase[v] \in {"PORTFOLIO_RISK_ANALYSIS",
                "PORTFOLIO_PROP_SIMULATION", "PORTFOLIO_FINAL_REVIEW",
                "COMPLETE"} =>
                \A c \in Candidates(v) :
                  Has("signals", c, v) /\ Has("risk", c, v)
           /\ phase[v] \in {"PORTFOLIO_PROP_SIMULATION",
                "PORTFOLIO_FINAL_REVIEW", "COMPLETE"} =>
                \A c \in Candidates(v) : Has("prop", c, v)
<1>1. PICK v : v = Newest
  OBVIOUS
<1> QED BY <1>1, PhasesReached DEF EvidenceKept, EvidenceBehindPhase

(* The phase advances with everything the next one asks for.               *)
LEMMA AdvanceKeeps ==
    ASSUME ResearchTypeOK, AtWork, EvidenceKept, Advance
    PROVE  AtWork' /\ EvidenceKept'
<1>1. AtWork'
  BY NotAtWork DEF Advance, Idle
<1>v. PICK v : v = Newest
  OBVIOUS
<1>2. /\ Started /\ call.version = v /\ call.todo = {}
      /\ call.table \in Tables /\ phase[v] = PhaseOf(call.table)
      /\ call.table = "candidates" => Candidates(v) # {}
      /\ call.table \in {"risk", "prop"} =>
           \A c \in Candidates(v) :
             Has(call.table, c, v) /\ Has("signals", c, v)
  BY <1>v DEF AtWork, WritesRows, Advance, At, Written
<1>3. /\ UNCHANGED <<runs, rows, review>>
      /\ phase' = [phase EXCEPT ![v] = PhaseAfter(call.table, phase[v])]
  BY <1>2 DEF Advance
<1>k. /\ phase[v] \in {"PORTFOLIO_SIGNAL_ANALYSIS",
           "PORTFOLIO_RISK_ANALYSIS", "PORTFOLIO_PROP_SIMULATION",
           "PORTFOLIO_FINAL_REVIEW", "COMPLETE"} => Candidates(v) # {}
      /\ phase[v] \in {"PORTFOLIO_RISK_ANALYSIS",
           "PORTFOLIO_PROP_SIMULATION", "PORTFOLIO_FINAL_REVIEW",
           "COMPLETE"} =>
           \A c \in Candidates(v) : Has("signals", c, v) /\ Has("risk", c, v)
  BY <1>2, <1>v, PhaseKnows
<1>4. CASE call.table = "candidates"
  <2>1. PhaseAfter(call.table, phase[v]) = "PORTFOLIO_SIGNAL_ANALYSIS"
    BY <1>4 DEF PhaseAfter
  <2> QED BY <1>1, <1>2, <1>3, <1>4, <1>v, <2>1, PhaseMoves
<1>5. CASE call.table = "risk"
  <2>1. /\ PhaseAfter(call.table, phase[v]) = "PORTFOLIO_RISK_ANALYSIS"
        /\ phase[v] = "PORTFOLIO_SIGNAL_ANALYSIS"
    BY <1>2, <1>5 DEF PhaseAfter, PhaseOf
  <2> QED BY <1>1, <1>2, <1>3, <1>5, <1>v, <1>k, <2>1, PhaseMoves
<1>6. CASE call.table = "prop"
  <2>1. /\ PhaseAfter(call.table, phase[v]) = "PORTFOLIO_PROP_SIMULATION"
        /\ phase[v] = "PORTFOLIO_RISK_ANALYSIS"
    BY <1>2, <1>6 DEF PhaseAfter, PhaseOf
  <2> QED BY <1>1, <1>2, <1>3, <1>6, <1>v, <1>k, <2>1, PhaseMoves
<1>7. CASE call.table \notin {"candidates", "risk", "prop"}
  <2>1. PhaseAfter(call.table, phase[v]) = phase[v]
    BY <1>7 DEF PhaseAfter
  <2>2. phase' = phase
    BY <1>3, <2>1 DEF ResearchTypeOK
  <2> QED BY <1>1, <1>3, <2>2, EvidenceUntouched
<1> QED BY <1>4, <1>5, <1>6, <1>7

(* The review begins, is written and is closed.                            *)
LEMMA ReviewKeeps ==
    ASSUME ResearchTypeOK, AtWork, EvidenceKept,
           FinalReview \/ SaveReview \/ Complete
    PROVE  AtWork' /\ EvidenceKept'
<1>v. PICK v : v = Newest
  OBVIOUS
<1>k. ASSUME Started,
             phase[v] \in {"PORTFOLIO_PROP_SIMULATION", "PORTFOLIO_FINAL_REVIEW"}
      PROVE  /\ Candidates(v) # {}
             /\ \A c \in Candidates(v) :
                  Has("signals", c, v) /\ Has("risk", c, v) /\ Has("prop", c, v)
  BY <1>v, <1>k, PhaseKnows
<1>t. ASSUME Started PROVE v \in Versions
  BY <1>v, <1>t, NewestTyped
<1>1. CASE FinalReview
  <2>1. /\ Started /\ phase[v] = "PORTFOLIO_PROP_SIMULATION"
        /\ review[v] = NoReview /\ UNCHANGED <<runs, rows, review>>
        /\ phase' = [phase EXCEPT ![v] = "PORTFOLIO_FINAL_REVIEW"]
        /\ call'.at = "review" /\ call'.version = v
    BY <1>1, <1>v DEF FinalReview, InPhase, Idle
  <2>2. EvidenceKept'
    BY <1>v, <1>k, <2>1, PhaseMoves
  <2>3. Newest' = v /\ Started' /\ phase'[v] = "PORTFOLIO_FINAL_REVIEW"
    BY <1>v, <1>t, <2>1 DEF Newest, Started, ResearchTypeOK
  <2>4. AtWork'
    BY <2>1, <2>3 DEF AtWork, WritesRows, At
  <2> QED BY <2>2, <2>4
<1>2. CASE SaveReview
  <2>1. /\ Started /\ phase[v] = "PORTFOLIO_FINAL_REVIEW" /\ call.version = v
    BY <1>2, <1>v DEF SaveReview, AtWork, At
  <2>2. PICK c \in Candidates(v) :
          /\ Has("prop", c, v)
          /\ \E class \in Classes(c, v) :
               review' = [review EXCEPT ![v] = [selected |-> c, class |-> class]]
    BY <1>2, <2>1 DEF SaveReview
  <2>3. PICK class \in Classes(c, v) :
          review' = [review EXCEPT ![v] = [selected |-> c, class |-> class]]
    BY <2>2
  <2>4. /\ review'[v].selected = c /\ review'[v].class = class
        /\ review'[v] # NoReview
    <3>1. review'[v] = [selected |-> c, class |-> class]
      BY <1>t, <2>1, <2>3 DEF ResearchTypeOK
    <3>2. class \in {"TURNED_DOWN", "ACCEPTED"}
      BY <2>3 DEF Classes
    <3> QED BY <3>1, <3>2 DEF NoReview
  <2>5. UNCHANGED <<runs, rows, phase>> /\ Newest' = v /\ Started'
    BY <1>2, <1>v, <2>1 DEF SaveReview, Newest, Started
  <2>6. /\ Candidates(Newest)' = Candidates(v)
        /\ \A t, d : Has(t, d, Newest)' <=> Has(t, d, v)
        /\ \A q : Reached(Newest, q)' <=> Reached(v, q)
    BY <2>5 DEF Candidates, RowsOf, Has, Reached
  <2>7. RowsHaveCandidate'
    BY <1>v, <2>1, <2>5, <2>6 DEF EvidenceKept, RowsHaveCandidate
  <2>8. EvidenceBehindPhase'
    <3>1. /\ Reached(v, "PORTFOLIO_SIGNAL_ANALYSIS") => Candidates(v) # {}
          /\ \A d \in Candidates(v) :
               /\ Reached(v, "PORTFOLIO_RISK_ANALYSIS") =>
                    Has("signals", d, v) /\ Has("risk", d, v)
               /\ Reached(v, "PORTFOLIO_PROP_SIMULATION") => Has("prop", d, v)
      BY <1>v, <2>1 DEF EvidenceKept, EvidenceBehindPhase
    <3> QED BY <2>4, <2>5, <2>6, <3>1 DEF EvidenceBehindPhase
  <2>9. AcceptedOnEvidence'
    <3>1. class = "ACCEPTED" => Has("overlap", c, v) /\ Has("correlation", c, v)
      BY <2>3 DEF Classes
    <3>2. /\ review'[Newest'].selected = c /\ review'[Newest'].class = class
      BY <2>4, <2>5
    <3> QED BY <2>2, <2>5, <2>6, <3>1, <3>2 DEF AcceptedOnEvidence, Has
  <2>10. call'.at = "complete" /\ call'.version = v
    BY <1>2, <2>1 DEF SaveReview, Goto, ResearchTypeOK, Commands
  <2>11. AtWork'
    BY <2>1, <2>4, <2>5, <2>10 DEF AtWork, WritesRows, At
  <2> QED BY <2>7, <2>8, <2>9, <2>11 DEF EvidenceKept
<1>3. CASE Complete
  <2>1. /\ Started /\ phase[v] = "PORTFOLIO_FINAL_REVIEW"
        /\ review[v] # NoReview /\ call.version = v
    BY <1>3, <1>v DEF Complete, AtWork, At
  <2>2. /\ UNCHANGED <<runs, rows, review>>
        /\ phase' = [phase EXCEPT ![v] = "COMPLETE"]
    BY <1>3, <2>1 DEF Complete
  <2>3. EvidenceKept'
    BY <1>v, <1>k, <2>1, <2>2, PhaseMoves
  <2> QED BY <1>3, <2>3, NotAtWork DEF Complete, Idle
<1> QED BY <1>1, <1>2, <1>3

(* A command that starts to write changes nothing yet but what is paid.    *)
LEMMA StartKeeps ==
    ASSUME ResearchTypeOK, EvidenceKept,
           \/ GenerateCandidates \/ MergeSignals \/ Analyze \/ RunRisk
           \/ RunProp \/ RunAblation
    PROVE  AtWork' /\ EvidenceKept'
<1>0. /\ Started /\ UNCHANGED <<runs, phase, rows, review>>
  BY DEF GenerateCandidates, MergeSignals, Analyze, RunRisk, RunProp,
         RunAblation, InPhase, registry
<1>1. EvidenceKept'
  BY <1>0, EvidenceUntouched
<1>c. Candidates(Newest) \in SUBSET Combinations(Strategies)
  BY CandidatesTyped
<1>t. {"candidates", "signals", "overlap", "correlation", "risk", "prop",
       "ablation"} = Tables
  BY DEF Tables
<1>2. CASE GenerateCandidates
  <2>1. PICK members \in Eligibilities :
          /\ Chosen(members) # {}
          /\ Write("candidates", Keys("candidates", Chosen(members)))
    BY <1>2 DEF GenerateCandidates
  <2>2. Chosen(members) \in SUBSET Combinations(Strategies)
    <3>1. members \in SUBSET Strategies
      BY PortfolioAssumption
    <3> QED BY <3>1, ChosenTyped, CombinationsFinite
  <2>3. phase[Newest] = PhaseOf("candidates")
    BY <1>2 DEF GenerateCandidates, InPhase, PhaseOf
  <2>4. AtWork'
    BY <1>0, <1>t, <2>1, <2>2, <2>3, BeginsToWrite
  <2> QED BY <1>1, <2>4
<1>3. CASE MergeSignals
  <2>1. /\ Write("signals", Keys("signals", Missing))
        /\ phase[Newest] = PhaseOf("signals")
        /\ Missing \subseteq Candidates(Newest)
    BY <1>3 DEF MergeSignals, InPhase, PhaseOf, Missing
  <2>2. AtWork'
    BY <1>0, <1>c, <1>t, <2>1, BeginsToWrite
  <2> QED BY <1>1, <2>2
<1>4. CASE Analyze
  <2>1. PICK t \in {"overlap", "correlation"} :
          Write(t, Keys(t, Candidates(Newest))) /\ phase[Newest] = PhaseOf(t)
    BY <1>4 DEF Analyze, InPhase, PhaseOf
  <2>2. AtWork'
    BY <1>0, <1>c, <1>t, <2>1, BeginsToWrite
  <2> QED BY <1>1, <2>2
<1>5. CASE RunRisk
  <2>1. /\ Write("risk", Keys("risk", Candidates(Newest)))
        /\ phase[Newest] = PhaseOf("risk")
    BY <1>5 DEF RunRisk, InPhase, PhaseOf
  <2>2. AtWork'
    BY <1>0, <1>c, <1>t, <2>1, BeginsToWrite
  <2> QED BY <1>1, <2>2
<1>6. CASE RunProp
  <2>1. /\ Write("prop", Keys("prop", Candidates(Newest)))
        /\ phase[Newest] = PhaseOf("prop")
    BY <1>6 DEF RunProp, InPhase, PhaseOf
  <2>2. AtWork'
    BY <1>0, <1>c, <1>t, <2>1, BeginsToWrite
  <2> QED BY <1>1, <2>2
<1>7. CASE RunAblation
  <2>1. /\ Write("ablation", Keys("ablation", Candidates(Newest)))
        /\ phase[Newest] = PhaseOf("ablation")
    BY <1>7 DEF RunAblation, InPhase, PhaseOf
  <2>2. AtWork'
    BY <1>0, <1>c, <1>t, <2>1, BeginsToWrite
  <2> QED BY <1>1, <2>2
<1> QED BY <1>2, <1>3, <1>4, <1>5, <1>6, <1>7

\* What the research keeps, whatever is repeated and wherever it dies.
ResearchInv == ResearchTypeOK /\ FreshVersions /\ AtWork /\ EvidenceKept

\* Before anything is started there is no row, no run and no command.
LEMMA ResearchInit == Init => ResearchInv
<1> SUFFICES ASSUME Init PROVE ResearchInv
  OBVIOUS
<1>1. ResearchTypeOK
  <2>1. "NONE" \in Phases /\ NoReview \in Reviews
    BY PhasesAre DEF NoReview, Reviews
  <2>2. crashes \in 0..MaxCrashes
    BY PortfolioAssumption DEF Init
  <2>3. call \in Commands
    BY DEF Init, Idle, Commands
  <2> QED BY <2>1, <2>2, <2>3 DEF Init, ResearchTypeOK
<1>2. FreshVersions
  <2>1. WithRun = {}
    BY DEF Init, WithRun
  <2>2. \A v \in Versions : v # 0
    BY PortfolioAssumption
  <2> QED BY <2>1, <2>2 DEF Init, FreshVersions, At, Idle
<1>3. AtWork
  BY DEF Init, AtWork, WritesRows, At, Idle
<1>4. EvidenceKept
  BY DEF Init, EvidenceKept, RowsHaveCandidate, EvidenceBehindPhase,
         AcceptedOnEvidence, Started
<1> QED BY <1>1, <1>2, <1>3, <1>4 DEF ResearchInv

(* Every step keeps the research's invariant.                              *)
LEMMA ResearchStep == ResearchInv /\ [Next]_vars => ResearchInv'
<1> SUFFICES ASSUME ResearchInv, [Next]_vars PROVE ResearchInv'
  OBVIOUS
<1>0. ResearchTypeOK /\ FreshVersions /\ AtWork /\ EvidenceKept
  BY DEF ResearchInv
<1>1. ResearchTypeOK' /\ FreshVersions'
  BY <1>0, ResearchTyped, FreshStep DEF EvidenceKept
<1>2. CASE \E v \in Versions : SaveSpec(v)
  <2>1. UNCHANGED <<runs, phase, rows, review>> /\ call'.at = "run"
    BY <1>2 DEF SaveSpec, Idle
  <2> QED BY <1>0, <1>1, <2>1, EvidenceUntouched, NotAtWork DEF ResearchInv
<1>3. CASE SaveRun
  BY <1>0, <1>1, <1>3, SaveRunKeeps DEF ResearchInv
<1>4. CASE SaveBudget \/ Crash
  <2>1. UNCHANGED <<runs, phase, rows, review>> /\ call'.at = "idle"
    BY <1>4 DEF SaveBudget, Crash, Idle, registry
  <2> QED BY <1>0, <1>1, <2>1, EvidenceUntouched, NotAtWork DEF ResearchInv
<1>5. CASE \/ GenerateCandidates \/ MergeSignals \/ Analyze \/ RunRisk
           \/ RunProp \/ RunAblation
  BY <1>0, <1>1, <1>5, StartKeeps DEF ResearchInv
<1>6. CASE SaveRow
  BY <1>0, <1>1, <1>6, SaveRowKeeps DEF ResearchInv
<1>7. CASE Advance
  BY <1>0, <1>1, <1>7, AdvanceKeeps DEF ResearchInv
<1>8. CASE FinalReview \/ SaveReview \/ Complete
  BY <1>0, <1>1, <1>8, ReviewKeeps DEF ResearchInv
<1>9. CASE UNCHANGED vars
  <2>1. UNCHANGED <<runs, phase, rows, review, call>>
    BY <1>9 DEF vars, registry
  <2>2. AtWork'
    BY <1>0, <2>1 DEF AtWork, WritesRows, At, Newest, Started, Candidates,
                      RowsOf, Has
  <2> QED BY <1>0, <1>1, <2>1, <2>2, EvidenceUntouched DEF ResearchInv
<1> QED BY <1>2, <1>3, <1>4, <1>5, <1>6, <1>7, <1>8, <1>9 DEF Next, Continue

-----------------------------------------------------------------------------
\* What was paid

\* The rows a version has, and those that are paid for and yet to come.
Claimed(t, v) == RowsOf(t, v) \cup Outstanding(t, v)

\* A version's rows, written and to come, can be counted.
LEMMA ClaimedFinite ==
    ASSUME ResearchTypeOK, NEW t, NEW v
    PROVE  IsFiniteSet(Claimed(t, v)) /\ Cardinality(Claimed(t, v)) \in Nat
<1>1. Claimed(t, v) \in SUBSET AllKeys
  BY DEF Claimed, RowsOf, Outstanding, ResearchTypeOK, Commands
<1>2. IsFiniteSet(Claimed(t, v))
  BY <1>1, AllKeysFinite, FS_Subset
<1> QED BY <1>2, FS_CardinalityType

\* The paid tables, and what they are paid from.
LEMMA Counted ==
    /\ DOMAIN CounterOf = {"candidates", "prop", "ablation"}
    /\ \A t \in DOMAIN CounterOf : t \in Tables /\ CounterOf[t] \in Counters
    /\ \A t, u \in DOMAIN CounterOf : t # u => CounterOf[t] # CounterOf[u]
    /\ CounterOf["candidates"] = "candidates"
    /\ CounterOf["prop"] = "scenarios"
    /\ CounterOf["ablation"] = "ablation_runs"
BY DEF CounterOf, Tables, Counters

\* The counter that pays for a table's rows is a number.
LEMMA UsageTyped ==
    ASSUME ResearchTypeOK, NEW v \in Versions, NEW t \in DOMAIN CounterOf
    PROVE  CounterOf[t] \in Counters /\ usage[v][CounterOf[t]] \in Nat
<1>1. CounterOf[t] \in Counters
  BY Counted
<1> QED BY <1>1 DEF ResearchTypeOK

\* Whoever claims less than before has paid for it.
LEMMA ClaimsLess ==
    ASSUME ResearchTypeOK, PaidAhead, usage' = usage,
           \A v \in Versions, t \in DOMAIN CounterOf :
             Claimed(t, v)' \subseteq Claimed(t, v)
    PROVE  PaidAhead'
<1>1. ASSUME NEW v \in Versions, NEW t \in DOMAIN CounterOf
      PROVE  Cardinality(Claimed(t, v)') <= usage[v][CounterOf[t]]
  <2>1. IsFiniteSet(Claimed(t, v)) /\ Cardinality(Claimed(t, v)) \in Nat
    BY ClaimedFinite
  <2>2. /\ IsFiniteSet(Claimed(t, v)')
        /\ Cardinality(Claimed(t, v)') <= Cardinality(Claimed(t, v))
    BY <2>1, FS_Subset
  <2>3. Cardinality(Claimed(t, v)') \in Nat
    BY <2>2, FS_CardinalityType
  <2>4. Cardinality(Claimed(t, v)) <= usage[v][CounterOf[t]]
    BY DEF PaidAhead, Claimed
  <2>5. usage[v][CounterOf[t]] \in Nat
    BY UsageTyped
  <2> QED BY <2>1, <2>2, <2>3, <2>4, <2>5
<1> QED BY <1>1 DEF PaidAhead, Claimed

\* A command that pays for at least the rows it adds.
LEMMA ClaimsPaid ==
    ASSUME ResearchTypeOK, PaidAhead, Started, At("idle"), rows' = rows,
           NEW t \in DOMAIN CounterOf, NEW n \in Nat,
           NEW cs \in SUBSET Combinations(Strategies),
           Consume(CounterOf[t], n), Write(t, Keys(t, cs)),
           IsFiniteSet(RowsOf(t, Newest) \cup Keys(t, cs)),
           Cardinality(RowsOf(t, Newest) \cup Keys(t, cs))
             <= Cardinality(RowsOf(t, Newest)) + n
    PROVE  PaidAhead'
<1>1. PICK v : v = Newest
  OBVIOUS
<1>2. v \in Versions /\ t \in Tables /\ CounterOf[t] \in Counters
  BY <1>1, NewestTyped, Counted
<1>3. /\ usage[v][CounterOf[t]] + n <= Limits[CounterOf[t]]
      /\ \A w \in Versions, d \in Counters :
           usage'[w][d]
             = usage[w][d] + IF w = v /\ d = CounterOf[t] THEN n ELSE 0
  BY <1>1, <1>2, ConsumeTyped
<1>4. /\ call'.at = "rows" /\ call'.version = v /\ call'.table = t
      /\ call'.todo = Keys(t, cs)
  BY <1>1, <1>2, WriteTyped
<1>5. \A w, u : RowsOf(u, w)' = RowsOf(u, w) /\ Outstanding(u, w) = {}
  BY DEF RowsOf, Outstanding, At
<1>6. \A w, u : Outstanding(u, w)' =
                  IF w = v /\ u = t THEN Keys(t, cs) ELSE {}
  BY <1>4 DEF Outstanding, At
<1>7. \A w \in Versions, d \in Counters :
        usage[w][d] \in Nat /\ usage[w][d] <= Limits[d] /\ Limits[d] \in Nat
  BY PortfolioAssumption DEF ResearchTypeOK, PaidAhead
<1>8. ASSUME NEW w \in Versions, NEW u \in DOMAIN CounterOf
      PROVE  Cardinality(RowsOf(u, w) \cup Outstanding(u, w)')
               <= usage'[w][CounterOf[u]]
  <2>1. /\ Cardinality(RowsOf(u, w)) \in Nat
        /\ CounterOf[u] \in Counters /\ usage[w][CounterOf[u]] \in Nat
    BY <1>7, CandidatesTyped, Counted
  <2>2. Cardinality(RowsOf(u, w)) <= usage[w][CounterOf[u]]
    <3>1. RowsOf(u, w) \cup Outstanding(u, w) = RowsOf(u, w)
      BY <1>5
    <3> QED BY <3>1 DEF PaidAhead
  <2>3. CASE w = v /\ u = t
    <3>1. usage'[w][CounterOf[u]] = usage[w][CounterOf[u]] + n
      BY <1>3, <2>1, <2>3
    <3>2. Cardinality(RowsOf(u, w) \cup Keys(t, cs)) <= Cardinality(RowsOf(u, w)) + n
      BY <1>1, <2>3
    <3>3. Cardinality(RowsOf(u, w) \cup Keys(t, cs)) \in Nat
      BY <1>1, <2>3, FS_CardinalityType
    <3>4. Outstanding(u, w)' = Keys(t, cs)
      BY <1>6, <2>3
    <3> QED BY <2>1, <2>2, <3>1, <3>2, <3>3, <3>4
  <2>4. CASE ~(w = v /\ u = t)
    <3>1. usage'[w][CounterOf[u]] = usage[w][CounterOf[u]]
      <4>1. ~(w = v /\ CounterOf[u] = CounterOf[t])
        BY <2>4, Counted
      <4> QED BY <1>3, <2>1, <4>1
    <3>2. RowsOf(u, w) \cup Outstanding(u, w)' = RowsOf(u, w)
      BY <1>6, <2>4
    <3> QED BY <2>2, <3>1, <3>2
  <2> QED BY <2>3, <2>4
<1>9. ASSUME NEW w \in Versions, NEW d \in Counters
      PROVE  usage'[w][d] <= Limits[d]
  <2>1. CASE w = v /\ d = CounterOf[t]
    BY <1>3, <2>1
  <2>2. CASE ~(w = v /\ d = CounterOf[t])
    BY <1>3, <1>7, <2>2
  <2> QED BY <2>1, <2>2
<1> QED BY <1>5, <1>8, <1>9 DEF PaidAhead

\* The commands that pay.
LEMMA PayingKeeps ==
    ASSUME ResearchInv, PaidAhead, GenerateCandidates \/ RunProp \/ RunAblation
    PROVE  PaidAhead'
<1>0. ResearchTypeOK /\ RowsHaveCandidate
  BY DEF ResearchInv, EvidenceKept
<1>1. Started /\ At("idle") /\ rows' = rows
  BY DEF GenerateCandidates, RunProp, RunAblation, InPhase
<1>2. \A t : IsFiniteSet(RowsOf(t, Newest)) /\ Cardinality(RowsOf(t, Newest)) \in Nat
  BY CandidatesTyped
<1>3. ASSUME NEW t \in {"candidates", "prop"}, NEW cs \in SUBSET Combinations(Strategies)
      PROVE  /\ Cardinality(cs) \in Nat
             /\ IsFiniteSet(RowsOf(t, Newest) \cup Keys(t, cs))
             /\ Cardinality(RowsOf(t, Newest) \cup Keys(t, cs))
                  <= Cardinality(RowsOf(t, Newest)) + Cardinality(cs)
  <2>1. IsFiniteSet(cs)
    BY CombinationsFinite, FS_Subset
  <2>2. Cardinality(cs) \in Nat
    BY <2>1, FS_CardinalityType
  <2>3. IsFiniteSet(Keys(t, cs)) /\ Cardinality(Keys(t, cs)) <= Cardinality(cs)
    BY <2>1, KeysCounted
  <2>4. Cardinality(Keys(t, cs)) \in Nat
    BY <2>3, FS_CardinalityType
  <2>5. PICK R : R = RowsOf(t, Newest)
    OBVIOUS
  <2>6. IsFiniteSet(R) /\ Cardinality(R) \in Nat
    BY <1>2, <2>5
  <2>7. /\ IsFiniteSet(R \cup Keys(t, cs))
        /\ Cardinality(R \cup Keys(t, cs))
             = Cardinality(R) + Cardinality(Keys(t, cs)) - Cardinality(R \cap Keys(t, cs))
    BY <2>3, <2>6, FS_Union
  <2>8. Cardinality(R \cap Keys(t, cs)) \in Nat
    BY <2>6, FS_Intersection, FS_CardinalityType
  <2>9. Cardinality(R \cup Keys(t, cs)) <= Cardinality(R) + Cardinality(cs)
    BY <2>2, <2>3, <2>4, <2>6, <2>7, <2>8
  <2> QED BY <2>2, <2>5, <2>7, <2>9
<1>4. CASE GenerateCandidates
  <2>1. PICK members \in Eligibilities :
          /\ Consume("candidates", Cardinality(Chosen(members)))
          /\ Write("candidates", Keys("candidates", Chosen(members)))
    BY <1>4 DEF GenerateCandidates
  <2>2. PICK cs : cs = Chosen(members)
    OBVIOUS
  <2>3. cs \in SUBSET Combinations(Strategies)
    <3>1. members \in SUBSET Strategies
      BY PortfolioAssumption
    <3> QED BY <2>2, <3>1, ChosenTyped, CombinationsFinite
  <2>4. /\ Consume(CounterOf["candidates"], Cardinality(cs))
        /\ Write("candidates", Keys("candidates", cs))
        /\ "candidates" \in DOMAIN CounterOf
    BY <2>1, <2>2, Counted
  <2>5. /\ Cardinality(cs) \in Nat
        /\ IsFiniteSet(RowsOf("candidates", Newest) \cup Keys("candidates", cs))
        /\ Cardinality(RowsOf("candidates", Newest) \cup Keys("candidates", cs))
             <= Cardinality(RowsOf("candidates", Newest)) + Cardinality(cs)
    BY <1>3, <2>3
  <2> QED BY <1>0, <1>1, <2>3, <2>4, <2>5, ClaimsPaid
<1>5. CASE RunProp
  <2>1. PICK cs : cs = Candidates(Newest)
    OBVIOUS
  <2>2. cs \in SUBSET Combinations(Strategies)
    BY <2>1, CandidatesTyped
  <2>3. /\ Consume(CounterOf["prop"], Cardinality(cs))
        /\ Write("prop", Keys("prop", cs)) /\ "prop" \in DOMAIN CounterOf
    BY <1>5, <2>1, Counted DEF RunProp
  <2>4. /\ Cardinality(cs) \in Nat
        /\ IsFiniteSet(RowsOf("prop", Newest) \cup Keys("prop", cs))
        /\ Cardinality(RowsOf("prop", Newest) \cup Keys("prop", cs))
             <= Cardinality(RowsOf("prop", Newest)) + Cardinality(cs)
    BY <1>3, <2>2
  <2> QED BY <1>0, <1>1, <2>2, <2>3, <2>4, ClaimsPaid
<1>6. CASE RunAblation
  <2>1. PICK cs : cs = Candidates(Newest)
    OBVIOUS
  <2>2. cs \in SUBSET Combinations(Strategies) /\ "ablation" \in Tables
    BY <2>1, CandidatesTyped DEF Tables
  <2>3. /\ Consume(CounterOf["ablation"], Due("ablation"))
        /\ Write("ablation", Keys("ablation", cs))
        /\ "ablation" \in DOMAIN CounterOf
    BY <1>6, <2>1, Counted DEF RunAblation
  <2>4. /\ Due("ablation") \in Nat
        /\ IsFiniteSet(Keys("ablation", cs))
        /\ RowsOf("ablation", Newest) \subseteq Keys("ablation", cs)
        /\ Cardinality(Keys("ablation", cs))
             = Due("ablation") + Cardinality(RowsOf("ablation", Newest))
    BY <1>0, <1>1, <2>1, <2>2, DueTyped
  <2>5. PICK n, R : n = Due("ablation") /\ R = RowsOf("ablation", Newest)
    OBVIOUS
  <2>6. /\ IsFiniteSet(R \cup Keys("ablation", cs))
        /\ Cardinality(R \cup Keys("ablation", cs)) <= Cardinality(R) + n
    <3>1. R \cup Keys("ablation", cs) = Keys("ablation", cs)
      BY <2>4, <2>5
    <3>2. Cardinality(R) \in Nat /\ n \in Nat
      BY <1>2, <2>4, <2>5
    <3>3. Cardinality(Keys("ablation", cs)) = n + Cardinality(R)
      BY <2>4, <2>5
    <3>4. n + Cardinality(R) <= Cardinality(R) + n
      BY <3>2
    <3> QED BY <2>4, <3>1, <3>3, <3>4
  <2> QED BY <1>0, <1>1, <2>2, <2>3, <2>4, <2>5, <2>6, ClaimsPaid
<1> QED BY <1>4, <1>5, <1>6

\* A row that is saved was claimed; one that it overwrites is no longer.
LEMMA SaveRowPaid ==
    ASSUME ResearchInv, PaidAhead, SaveRow PROVE PaidAhead'
<1>0. ResearchTypeOK /\ AtWork /\ At("rows") /\ usage' = usage
  BY DEF ResearchInv, SaveRow
<1>1. PICK k \in call.todo :
        \/ call' = Idle /\ rows' = rows
        \/ /\ call'.at = "rows" /\ call'.version = call.version
           /\ call'.table = call.table /\ call'.todo = call.todo \ {k}
           /\ \A j \in AllKeys :
                rows'[j] = IF j = k THEN call.version ELSE rows[j]
  BY <1>0, SavedRow
<1>2. k[1] = call.table
  BY <1>0 DEF AtWork, WritesRows
<1>3. ASSUME NEW v \in Versions, NEW t \in DOMAIN CounterOf
      PROVE  Claimed(t, v)' \subseteq Claimed(t, v)
  <2>1. CASE call' = Idle /\ rows' = rows
    BY <2>1 DEF Claimed, RowsOf, Outstanding, At, Idle
  <2>2. CASE ~(call' = Idle /\ rows' = rows)
    <3>1. RowsOf(t, v)' \subseteq RowsOf(t, v) \cup
            (IF v = call.version /\ t = call.table THEN {k} ELSE {})
      BY <1>1, <1>2, <2>2 DEF RowsOf
    <3>2. Outstanding(t, v)' \subseteq Outstanding(t, v)
      BY <1>0, <1>1, <2>2 DEF Outstanding, At
    <3>3. v = call.version /\ t = call.table => k \in Outstanding(t, v)
      BY <1>0 DEF Outstanding
    <3> QED BY <3>1, <3>2, <3>3 DEF Claimed
  <2> QED BY <2>1, <2>2
<1> QED BY <1>0, <1>3, ClaimsLess

(* Every row is paid for before it is written.                             *)
LEMMA PaidStep == ResearchInv /\ PaidAhead /\ [Next]_vars => PaidAhead'
<1> SUFFICES ASSUME ResearchInv, PaidAhead, [Next]_vars PROVE PaidAhead'
  OBVIOUS
<1>0. ResearchTypeOK
  BY DEF ResearchInv
<1>1. ASSUME usage' = usage, rows' = rows, call'.at # "rows"
      PROVE  PaidAhead'
  <2>1. \A v, t : Claimed(t, v)' \subseteq Claimed(t, v)
    BY <1>1 DEF Claimed, RowsOf, Outstanding, At
  <2> QED BY <1>0, <1>1, <2>1, ClaimsLess
<1>2. CASE \E v \in Versions : SaveSpec(v)
  BY <1>1, <1>2 DEF SaveSpec, Idle
<1>3. CASE SaveRun \/ SaveReview
  <2>1. usage' = usage /\ rows' = rows
    BY <1>3 DEF SaveRun, SaveReview
  <2>2. PICK step \in {"budget", "complete"} : call' = [call EXCEPT !.at = step]
    BY <1>3 DEF SaveRun, SaveReview, Goto
  <2>3. call \in Commands
    BY <1>0 DEF ResearchTypeOK
  <2>4. call'.at = step
    BY <2>2, <2>3 DEF Commands
  <2> QED BY <1>1, <2>1, <2>2, <2>4
<1>4. CASE SaveBudget \/ Advance \/ Complete \/ Crash
  <2>1. usage' = usage /\ rows' = rows /\ call' = Idle
    BY <1>4 DEF SaveBudget, Advance, Complete, Crash, registry
  <2> QED BY <1>1, <2>1 DEF Idle
<1>9. CASE FinalReview
  <2>1. usage' = usage /\ rows' = rows /\ call'.at = "review"
    BY <1>9 DEF FinalReview, Idle
  <2> QED BY <1>1, <2>1
<1>5. CASE MergeSignals \/ Analyze \/ RunRisk
  <2>1. /\ rows' = rows /\ usage' = usage /\ At("idle")
        /\ call'.table \in {"signals", "overlap", "correlation", "risk"}
    BY <1>5 DEF MergeSignals, Analyze, RunRisk, Write, registry, InPhase
  <2>2. ASSUME NEW v \in Versions, NEW t \in DOMAIN CounterOf
        PROVE  Claimed(t, v)' \subseteq Claimed(t, v)
    BY <2>1, <2>2, Counted DEF Claimed, RowsOf, Outstanding
  <2> QED BY <1>0, <2>1, <2>2, ClaimsLess
<1>6. CASE GenerateCandidates \/ RunProp \/ RunAblation
  BY <1>6, PayingKeeps
<1>7. CASE SaveRow
  BY <1>7, SaveRowPaid
<1>8. CASE UNCHANGED vars
  BY <1>8 DEF vars, registry, PaidAhead, RowsOf, Outstanding, At
<1> QED BY <1>2, <1>3, <1>4, <1>5, <1>6, <1>7, <1>8, <1>9 DEF Next, Continue

-----------------------------------------------------------------------------
\* The theorems

(* The registry of portfolios and the command at work keep their types.    *)
THEOREM PortfolioTyped == Spec => []ResearchTypeOK
<1>1. ResearchInv => ResearchTypeOK
  BY DEF ResearchInv
<1> QED BY <1>1, ResearchInit, ResearchStep, PTL DEF Spec

(* No phase is reached without its evidence, for any number of strategies, *)
(* versions and deaths, whatever members are eligible when a command is    *)
(* repeated.                                                               *)
THEOREM PortfolioEvidence == Spec => []EvidenceBehindPhase
<1>1. ResearchInv => EvidenceBehindPhase
  BY DEF ResearchInv, EvidenceKept
<1> QED BY <1>1, ResearchInit, ResearchStep, PTL DEF Spec

(* A portfolio is accepted only if it was simulated and its overlap and    *)
(* correlation are on record in its own version.                           *)
THEOREM PortfolioAccepted == Spec => []AcceptedOnEvidence
<1>1. ResearchInv => AcceptedOnEvidence
  BY DEF ResearchInv, EvidenceKept
<1> QED BY <1>1, ResearchInit, ResearchStep, PTL DEF Spec

(* What a version has on record was paid for, and nobody pays more than    *)
(* the budget allows, over any repetition of its commands.                 *)
THEOREM PortfolioPaid == Spec => []WorkIsPaid
<1>1. Init => PaidAhead
  <2> SUFFICES ASSUME Init PROVE PaidAhead
    OBVIOUS
  <2>1. \A t : \A v \in Versions : RowsOf(t, v) = {} /\ Outstanding(t, v) = {}
    <3>1. \A v \in Versions : v # 0
      BY PortfolioAssumption
    <3> QED BY <3>1 DEF Init, RowsOf, Outstanding, At, Idle
  <2>2. \A v \in Versions, c \in Counters : usage[v][c] = 0
    BY DEF Init
  <2>3. \A c \in Counters : 0 <= Limits[c]
    BY PortfolioAssumption
  <2>4. ASSUME NEW v \in Versions, NEW t \in DOMAIN CounterOf
        PROVE  Cardinality(RowsOf(t, v) \cup Outstanding(t, v))
                 <= usage[v][CounterOf[t]]
    <3>1. Cardinality(RowsOf(t, v) \cup Outstanding(t, v)) = 0
      <4>1. RowsOf(t, v) \cup Outstanding(t, v) = {}
        BY <2>1
      <4> QED BY <4>1, FS_EmptySet
    <3>2. usage[v][CounterOf[t]] = 0
      BY <2>2, Counted
    <3> QED BY <3>1, <3>2
  <2> QED BY <2>2, <2>3, <2>4 DEF PaidAhead
<1>2. ResearchInv /\ PaidAhead => WorkIsPaid
  <2> SUFFICES ASSUME ResearchInv, PaidAhead PROVE WorkIsPaid
    OBVIOUS
  <2>0. ResearchTypeOK
    BY DEF ResearchInv
  <2>1. ASSUME NEW v \in Versions, NEW t \in DOMAIN CounterOf
        PROVE  Cardinality(RowsOf(t, v)) <= usage[v][CounterOf[t]]
    <3>1. IsFiniteSet(Claimed(t, v)) /\ Cardinality(Claimed(t, v)) \in Nat
      BY <2>0, ClaimedFinite
    <3>2. Cardinality(RowsOf(t, v)) <= Cardinality(Claimed(t, v))
      BY <3>1, FS_Subset DEF Claimed
    <3>3. Cardinality(Claimed(t, v)) <= usage[v][CounterOf[t]]
      BY DEF PaidAhead, Claimed
    <3>4. Cardinality(RowsOf(t, v)) \in Nat /\ usage[v][CounterOf[t]] \in Nat
      BY <2>0, CandidatesTyped, UsageTyped
    <3> QED BY <3>1, <3>2, <3>3, <3>4
  <2> QED BY <2>1 DEF PaidAhead, WorkIsPaid
<1> QED BY <1>1, <1>2, ResearchInit, ResearchStep, PaidStep, PTL DEF Spec
=============================================================================
