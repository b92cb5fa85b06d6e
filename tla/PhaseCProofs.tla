---------------------------- MODULE PhaseCProofs ----------------------------
(***************************************************************************)
(* The research of a strategy for every specification, budget and number   *)
(* of retries: PhaseC's invariants, and that the holdout ends selection.   *)
(***************************************************************************)
EXTENDS PhaseC, BudgetLedger, SequenceTheorems

StrategyRow ==
    [current_phase : PipelineState, approval_status : {"APPROVED"},
     parameters_frozen : BOOLEAN, frozen_families : SUBSET Families,
     holdout_opened : BOOLEAN]

CallRow ==
    [step : Steps, round : Nat, left : Nat, to : PipelineState,
     outcome : Outcomes \cup {"NONE"}]

\* TypeOK, and the rows of the controller.
Typed ==
    /\ TypeOK
    /\ row \in StrategyRow /\ usage \in BudgetUsage /\ accesses \in Nat

-----------------------------------------------------------------------------
\* The controller's operations

\* The controller's instance of the budget check is the same check.
LEMMA SameRounds ==
    ASSUME NEW u, NEW r
    PROVE  Controller!RoundsTouched(u, r) = RoundsTouched(u, r)
BY DEF Controller!RoundsTouched, RoundsTouched, Controller!FirstRound, FirstRound

\* It admits and charges the same families.
LEMMA SameFamily ==
    ASSUME NEW u, NEW r
    PROVE  /\ Controller!FamilyAdmits(u, r) <=> FamilyAdmits(u, r)
           /\ Controller!ChargeFamily(u, r) = ChargeFamily(u, r)
<1>1. Controller!RoundsTouched(u, r) = RoundsTouched(u, r)
  BY SameRounds
<1>2. (\A k \in RoundsTouched(u, r) : Controller!RoundAdmits(u, r, k))
        <=> (\A k \in RoundsTouched(u, r) : RoundAdmits(u, r, k))
  BY DEF Controller!RoundAdmits, RoundAdmits
<1>3. \A S : Controller!Cardinality(S) = Cardinality(S)
  BY DEF Controller!Cardinality, Cardinality
<1>4. Controller!FamilyAdmits(u, r) <=> FamilyAdmits(u, r)
  BY <1>1, <1>2, <1>3 DEF Controller!FamilyAdmits, FamilyAdmits
<1>5. Controller!ChargeFamily(u, r) = ChargeFamily(u, r)
  BY <1>1, Zenon DEF Controller!ChargeFamily, ChargeFamily
<1> QED BY <1>4, <1>5

\* It admits and charges the same requests.
LEMMA SameBudget ==
    ASSUME NEW u, NEW r
    PROVE  /\ Controller!Admits(u, r) <=> Admits(u, r)
           /\ Controller!Charge(u, r) = Charge(u, r)
<1>1. Controller!NonNegative(r) <=> NonNegative(r)
  BY DEF Controller!NonNegative, NonNegative
<1>2. Controller!TotalsAdmit(u, r) <=> TotalsAdmit(u, r)
  BY DEF Controller!TotalsAdmit, TotalsAdmit
<1>3. Controller!Admits(u, r) <=> Admits(u, r)
  BY <1>1, <1>2, SameFamily DEF Controller!Admits, Admits
<1>4. Controller!Charge(u, r) = Charge(u, r)
  <2>1. Controller!ChargeFamily(u, r) = ChargeFamily(u, r)
    BY SameFamily
  <2>2. \A w : Controller!ChargeTotals(w, r) = ChargeTotals(w, r)
    BY DEF Controller!ChargeTotals, ChargeTotals
  <2> QED BY <2>1, <2>2 DEF Controller!Charge, Charge
<1> QED BY <1>3, <1>4

\* A round's request is one the budget can be asked.
LEMMA RequestTyped ==
    ASSUME TypeOK, NEW k \in DOMAIN rounds
    PROVE  /\ RoundRequest(k) \in BudgetRequest
           /\ RoundRequest(k).backtests = Cardinality(Values)
           /\ Cardinality(Values) \in Nat
<1>1. Cardinality(Values) \in Nat
  BY PhaseCAssumption, FS_CardinalityType
<1>2. k \in Int /\ rounds[k] \in RoundRow
  BY DEF TypeOK
<1>3. rounds[k].family \in Families
  BY <1>2, PhaseCAssumption DEF RoundRow
<1> QED BY <1>1, <1>2, <1>3 DEF RoundRequest, BudgetRequest

\* Paying for a round adds its backtests, within the limits.
LEMMA SpendFacts ==
    ASSUME Typed, NEW k \in DOMAIN rounds, Controller!Spend(RoundRequest(k))
    PROVE  /\ usage' \in BudgetUsage
           /\ usage'.total_backtests = usage.total_backtests + Cardinality(Values)
           /\ usage'.total_backtests <= Limits.max_total_backtests
           /\ UNCHANGED <<row, accesses>>
<1> DEFINE r == RoundRequest(k)
<1>1. r \in BudgetRequest /\ r.backtests = Cardinality(Values)
  BY RequestTyped DEF Typed
<1>2. /\ Admits(usage, r) /\ usage' = Charge(usage, r)
      /\ UNCHANGED <<row, accesses>>
  BY SameBudget DEF Controller!Spend
<1> HIDE DEF r
<1>3. usage \in BudgetUsage
  BY DEF Typed
<1>4. Charge(usage, r).total_backtests = usage.total_backtests + r.backtests
  <2>1. CASE r.family = NoFamily
    BY <1>1, <1>3, <2>1, ChargeTotalsFields DEF Charge
  <2>2. CASE r.family # NoFamily
    <3>1. r.family \in Families
      BY <1>1, <2>2 DEF BudgetRequest
    <3>2. ChargeFamily(usage, r) \in BudgetUsage
      BY <1>1, <1>2, <1>3, <2>2, ChargeFamilyTyped
    <3>3. Charge(usage, r) = ChargeTotals(ChargeFamily(usage, r), r)
      BY <2>2 DEF Charge
    <3>4. ChargeTotals(ChargeFamily(usage, r), r).total_backtests
            = ChargeFamily(usage, r).total_backtests + r.backtests
      BY <1>1, <3>2, ChargeTotalsFields
    <3>5. ChargeFamily(usage, r).total_backtests = usage.total_backtests
      BY <1>1, <1>3, <3>1, ChargeFamilyFields
    <3> QED BY <3>3, <3>4, <3>5
  <2> QED BY <2>1, <2>2
<1>5. usage.total_backtests + r.backtests <= Limits.max_total_backtests
  BY <1>2 DEF Admits, TotalsAdmit
<1> QED BY <1>1, <1>2, <1>3, <1>4, <1>5, ChargeTyped

\* What a transition, the freeze and the holdout lock change.
LEMMA MoveFacts ==
    ASSUME Typed, NEW to \in PipelineState, Controller!Move(to)
    PROVE  /\ row' \in StrategyRow /\ phase' = to
           /\ row'.holdout_opened = row.holdout_opened
           /\ UNCHANGED <<usage, accesses>>
BY DEF Controller!Move, Typed, StrategyRow, phase

\* The second transaction of the transition to CANDIDATE_FREEZE.
LEMMA FreezeFacts ==
    ASSUME Typed, Controller!FreezeFamilies
    PROVE  /\ row' \in StrategyRow /\ phase' = phase
           /\ row'.holdout_opened = row.holdout_opened
           /\ UNCHANGED <<usage, accesses>>
BY PhaseCAssumption DEF Controller!FreezeFamilies, Typed, StrategyRow, phase

\* The lock is taken once.
LEMMA OpenFacts ==
    ASSUME Typed, Controller!OpenHoldout
    PROVE  /\ row' \in StrategyRow /\ phase' = phase
           /\ ~row.holdout_opened /\ row'.holdout_opened
           /\ accesses' = accesses + 1
           /\ usage' \in BudgetUsage
           /\ usage'.total_backtests = usage.total_backtests
<1>1. row' \in StrategyRow /\ phase' = phase /\ row'.holdout_opened
  BY DEF Controller!OpenHoldout, Typed, StrategyRow, phase
<1>2. ~row.holdout_opened /\ accesses' = accesses + 1
  BY DEF Controller!OpenHoldout
<1>3. usage' \in BudgetUsage /\ usage'.total_backtests = usage.total_backtests
  <2>1. usage' = [usage EXCEPT !.holdout_accesses = usage.holdout_accesses + 1]
    BY DEF Controller!OpenHoldout
  <2>2. usage.holdout_accesses + 1 \in Nat
    BY DEF Typed, BudgetUsage
  <2> QED BY <2>1, <2>2 DEF Typed, BudgetUsage
<1> QED BY <1>1, <1>2, <1>3

-----------------------------------------------------------------------------
\* The method in progress

\* A method that goes on to a transition carries nothing but its target.
LEMMA ThenMoveFields ==
    ASSUME NEW to \in PipelineState, ThenMove(to)
    PROVE  /\ call' \in CallRow /\ call'.step = "move" /\ call'.to = to
           /\ call'.left = 0
BY DEF ThenMove, Idle, CallRow, Steps

\* A method that goes on to its work carries nothing.
LEMMA AtFields ==
    ASSUME NEW step \in Steps, At(step)
    PROVE  call' \in CallRow /\ call'.step = step /\ call'.left = 0
BY DEF At, Idle, CallRow, PipelineState, WorkingStates

\* Between two methods nothing is carried.
LEMMA IdleFields == Idle \in CallRow /\ Idle.step = "idle" /\ Idle.left = 0
BY DEF Idle, CallRow, Steps, PipelineState, WorkingStates

\* The phases that the methods name.
LEMMA Phases ==
    {"BASELINE_BACKTEST", "EDGE_GATE", "TECHNICAL_FAILURE", "PARAMETER_RESEARCH",
     "REJECTED", "INSUFFICIENT_EVIDENCE", "MANUAL_REVIEW_REQUIRED",
     "CANDIDATE_FREEZE", "WALK_FORWARD", "HOLDOUT", "STRESS_TESTS", "THROUGHPUT",
     "FINAL_REVIEW", "ACCEPTED"} \subseteq PipelineState
BY DEF PipelineState, WorkingStates, TerminalStates

\* A round that is changed is still a round, and the others are kept.
LEMMA RoundUpdated ==
    ASSUME TypeOK, NEW k \in DOMAIN rounds, NEW new \in RoundRow,
           rounds' = [rounds EXCEPT ![k] = new]
    PROVE  /\ rounds' \in Seq(RoundRow) /\ DOMAIN rounds' = DOMAIN rounds
           /\ rounds'[k] = new
           /\ \A j \in DOMAIN rounds \ {k} : rounds'[j] = rounds[j]
BY ExceptSeq DEF TypeOK

\* The review of a round changes that round only.
LEMMA Reviewed ==
    ASSUME TypeOK, ReviewRound, call.round \in DOMAIN rounds
    PROVE  /\ rounds' \in Seq(RoundRow) /\ DOMAIN rounds' = DOMAIN rounds
           /\ \A j \in DOMAIN rounds \ {call.round} : rounds'[j] = rounds[j]
           /\ \/ call' = Idle
              \/ /\ ThenMove("MANUAL_REVIEW_REQUIRED")
                 /\ rounds'[call.round].review = "VETO"
              \/ /\ ThenMove("INSUFFICIENT_EVIDENCE")
                 /\ rounds'[call.round].review = "INSUFFICIENT_EVIDENCE"
<1> DEFINE k == call.round
           old == rounds[k]
<1>1. old \in RoundRow
  BY DEF TypeOK
<1>2. CASE \E v \in Values :
             /\ rounds' = [rounds EXCEPT ![k].status = "SELECTED",
                                         ![k].value = v,
                                         ![k].review = "SELECT"]
             /\ call' = Idle
  <2>1. PICK v \in Values :
          /\ rounds' = [rounds EXCEPT ![k] = [old EXCEPT !.status = "SELECTED",
                                                        !.value = v,
                                                        !.review = "SELECT"]]
          /\ call' = Idle
    BY <1>2 DEF TypeOK
  <2>2. [old EXCEPT !.status = "SELECTED", !.value = v, !.review = "SELECT"]
          \in RoundRow
    BY <1>1 DEF RoundRow, Reviews
  <2> QED BY <2>1, <2>2, RoundUpdated
<1>3. CASE \E verdict \in {"VETO", "INSUFFICIENT_EVIDENCE"} :
             /\ rounds' = [rounds EXCEPT ![k].status = "STOPPED",
                                         ![k].review = verdict]
             /\ ThenMove(IF verdict = "VETO" THEN "MANUAL_REVIEW_REQUIRED"
                                             ELSE verdict)
  <2>1. PICK verdict \in {"VETO", "INSUFFICIENT_EVIDENCE"} :
          /\ rounds' = [rounds EXCEPT ![k] = [old EXCEPT !.status = "STOPPED",
                                                        !.review = verdict]]
          /\ ThenMove(IF verdict = "VETO" THEN "MANUAL_REVIEW_REQUIRED"
                                          ELSE verdict)
    BY <1>3 DEF TypeOK
  <2>2. [old EXCEPT !.status = "STOPPED", !.review = verdict] \in RoundRow
    BY <1>1 DEF RoundRow, Reviews
  <2>3. [old EXCEPT !.status = "STOPPED", !.review = verdict].review = verdict
    BY <1>1 DEF RoundRow
  <2> QED BY <2>1, <2>2, <2>3, RoundUpdated
<1> QED BY <1>2, <1>3 DEF ReviewRound

\* Freezing a family changes the status of one round.
LEMMA FamilyFrozen ==
    ASSUME TypeOK, FreezeFamily
    PROVE  /\ rounds' \in Seq(RoundRow) /\ DOMAIN rounds' = DOMAIN rounds
           /\ \A j \in DOMAIN rounds : rounds'[j].review = rounds[j].review
<1>1. PICK k \in DOMAIN rounds :
        rounds' = [rounds EXCEPT ![k] = [rounds[k] EXCEPT !.status = "FROZEN"]]
  BY DEF FreezeFamily, TypeOK
<1>2. /\ [rounds[k] EXCEPT !.status = "FROZEN"] \in RoundRow
      /\ [rounds[k] EXCEPT !.status = "FROZEN"].review = rounds[k].review
  <2>1. rounds[k] \in RoundRow
    BY DEF TypeOK
  <2> QED BY <2>1 DEF RoundRow
<1> QED BY <1>1, <1>2, RoundUpdated

\* What is selected is a value for each family, or none.
LEMMA SelectedTyped == ASSUME TypeOK PROVE Selected \in Parameters
<1>1. ASSUME NEW f \in Mutable PROVE Selected[f] \in Values \cup {NoValue}
  <2>1. CASE \E k \in FrozenFor(f) : \A j \in FrozenFor(f) : j <= k
    <3> DEFINE last == CHOOSE k \in FrozenFor(f) :
                         \A j \in FrozenFor(f) : j <= k
    <3>1. last \in FrozenFor(f) /\ Selected[f] = rounds[last].value
      BY <2>1 DEF Selected
    <3>2. rounds[last] \in RoundRow
      BY <3>1 DEF FrozenFor, TypeOK
    <3> QED BY <3>1, <3>2 DEF RoundRow
  <2>2. CASE ~\E k \in FrozenFor(f) : \A j \in FrozenFor(f) : j <= k
    BY <2>2 DEF Selected
  <2> QED BY <2>1, <2>2
<1> QED BY <1>1 DEF Selected, Parameters

-----------------------------------------------------------------------------
\* Types

(* Every method keeps the types of the tables and of what it carries.      *)
LEMMA TypeStep == Typed /\ [Next]_vars => Typed'
<1> SUFFICES ASSUME Typed, [Next]_vars PROVE Typed'
  OBVIOUS
<1>0. /\ row \in StrategyRow /\ usage \in BudgetUsage /\ accesses \in Nat
      /\ phase \in PipelineState
      /\ baseline \in Outcomes \cup {"NONE"} /\ rounds \in Seq(RoundRow)
      /\ decision \in Mutable \cup {NoFamily} /\ candidate \in Parameters
      /\ results \in [Stages -> Result] /\ review \in Classifications \cup {"NONE"}
      /\ ran \in Nat /\ holdoutRuns \in Nat /\ call \in CallRow
  BY DEF Typed, TypeOK, CallRow
<1> DEFINE
      Tables == /\ baseline' \in Outcomes \cup {"NONE"}
                /\ rounds' \in Seq(RoundRow)
                /\ decision' \in Mutable \cup {NoFamily}
                /\ candidate' \in Parameters
                /\ results' \in [Stages -> Result]
                /\ review' \in Classifications \cup {"NONE"}
                /\ ran' \in Nat /\ holdoutRuns' \in Nat
      Rows == /\ row' \in StrategyRow /\ usage' \in BudgetUsage
              /\ accesses' \in Nat
<1>a. ASSUME Tables, Rows, call' \in CallRow PROVE Typed'
  <2>1. phase' \in PipelineState
    BY <1>a DEF phase, StrategyRow
  <2> QED BY <1>a, <2>1 DEF Typed, TypeOK, CallRow
<1>b. UNCHANGED <<tables, history>> => Tables
  BY <1>0 DEF tables, history
<1>c. UNCHANGED controllerVars => Rows
  BY <1>0 DEF controllerVars
<1> HIDE DEF Tables, Rows
<1>1. CASE MoveOn
  <2>1. Rows
    BY <1>0, <1>1, MoveFacts DEF MoveOn, CallRow, Rows
  <2>2. call' \in CallRow
    BY <1>1, IdleFields DEF MoveOn, CallRow, Steps
  <2> QED BY <1>1, <1>a, <1>b, <2>1, <2>2 DEF MoveOn
<1>2. CASE FreezeFamilies
  <2>1. Rows
    BY <1>0, <1>2, FreezeFacts DEF FreezeFamilies, Rows
  <2> QED BY <1>2, <1>a, <1>b, <2>1, IdleFields DEF FreezeFamilies
<1>3. CASE Abort
  BY <1>3, <1>a, <1>b, <1>c, IdleFields DEF Abort
<1>4. CASE ReuseBaseline
  BY <1>4, <1>a, <1>b, <1>c, ThenMoveFields, Phases DEF ReuseBaseline
<1>5. CASE RunBaseline
  <2>1. CASE ThenMove("TECHNICAL_FAILURE") /\ UNCHANGED controllerVars
    BY <1>5, <2>1, <1>a, <1>b, <1>c, ThenMoveFields, Phases DEF RunBaseline
  <2>2. CASE \E outcome \in Outcomes :
               /\ Controller!RecordOutcome(outcome)
               /\ call' = [Idle EXCEPT !.step = "baseline", !.outcome = outcome]
    <3>1. PICK outcome \in Outcomes :
            /\ Controller!RecordOutcome(outcome)
            /\ call' = [Idle EXCEPT !.step = "baseline", !.outcome = outcome]
      BY <2>2
    <3>2. call' \in CallRow
      BY <3>1, IdleFields DEF CallRow, Steps
    <3>3. UNCHANGED <<row, usage, accesses>>
      BY <3>1 DEF Controller!RecordOutcome
    <3> QED BY <1>0, <1>5, <1>a, <1>b, <3>2, <3>3 DEF RunBaseline, Rows
  <2> QED BY <1>5, <2>1, <2>2 DEF RunBaseline
<1>6. CASE SaveBaseline
  <2>1. call' \in CallRow
    BY <1>6, ThenMoveFields, Phases DEF SaveBaseline
  <2>2. Tables
    BY <1>0, <1>6 DEF SaveBaseline, history, CallRow, Tables
  <2> QED BY <1>6, <1>a, <1>c, <2>1, <2>2 DEF SaveBaseline
<1>7. CASE EvaluateEdge
  <2>1. \A class \in DOMAIN EdgeVerdicts :
          class \in Classifications /\ EdgeVerdicts[class] \in PipelineState
    BY Phases DEF EdgeVerdicts, Classifications, Rejecting, Undecided
  <2>2. call' \in CallRow
    BY <1>7, <2>1, ThenMoveFields, Phases DEF EvaluateEdge
  <2>3. Tables
    BY <1>0, <1>7, <2>1 DEF EvaluateEdge, history, Tables
  <2> QED BY <1>7, <1>a, <1>c, <2>2, <2>3 DEF EvaluateEdge
<1>8. CASE Analyze
  <2>1. decision' \in Mutable \cup {NoFamily}
    BY <1>8 DEF Analyze, OpenFamilies
  <2> QED BY <1>0, <1>8, <1>a, <1>c, <2>1 DEF Analyze, history, Tables
<1>9. CASE ProposeRound
  <2>1. rounds' \in Seq(RoundRow)
    BY <1>0, <1>9 DEF ProposeRound, RoundRow
  <2> QED BY <1>0, <1>9, <1>a, <1>c, <2>1 DEF ProposeRound, history, Tables
<1>10. CASE BeginRound
  <2>1. PICK k \in DOMAIN rounds :
          /\ Controller!Spend(RoundRequest(k))
          /\ call' = [Idle EXCEPT !.step = "experiments", !.round = k,
                                  !.left = Cardinality(Values)]
    BY <1>10 DEF BeginRound
  <2>2. Rows
    BY <1>0, <2>1, SpendFacts DEF Rows
  <2>3. call' \in CallRow
    <3>1. Cardinality(Values) \in Nat /\ k \in Nat
      BY <1>0, RequestTyped DEF Typed
    <3> QED BY <2>1, <3>1, IdleFields DEF CallRow, Steps
  <2> QED BY <1>10, <1>a, <1>b, <2>2, <2>3 DEF BeginRound
<1>11. CASE RunExperiment
  <2>1. call' \in CallRow
    BY <1>0, <1>11 DEF RunExperiment, CallRow
  <2>2. Tables
    BY <1>0, <1>11 DEF RunExperiment, tables, Tables
  <2> QED BY <1>11, <1>a, <1>c, <2>1, <2>2 DEF RunExperiment
<1>12. CASE ReviewRound
  <2>1. rounds' \in Seq(RoundRow)
    <3>1. CASE call.round \in DOMAIN rounds
      BY <1>12, <3>1, Reviewed DEF Typed
    <3>2. CASE call.round \notin DOMAIN rounds
      <4>1. /\ DOMAIN rounds' = DOMAIN rounds
            /\ rounds' = [i \in DOMAIN rounds' |-> rounds'[i]]
            /\ \A i \in DOMAIN rounds : rounds'[i] = rounds[i]
        BY <1>0, <1>12, <3>2 DEF ReviewRound
      <4>2. rounds = [i \in DOMAIN rounds |-> rounds[i]]
        BY <1>0
      <4>3. rounds' = rounds
        BY <4>1, <4>2
      <4> QED BY <1>0, <4>3
    <3> QED BY <3>1, <3>2
  <2>2. call' \in CallRow
    BY <1>12, IdleFields, ThenMoveFields, Phases DEF ReviewRound
  <2> QED BY <1>0, <1>12, <1>a, <1>c, <2>1, <2>2 DEF ReviewRound, history, Tables
<1>13. CASE FreezeFamily
  <2>1. rounds' \in Seq(RoundRow)
    BY <1>13, FamilyFrozen DEF Typed
  <2> QED BY <1>0, <1>13, <1>a, <1>c, <2>1 DEF FreezeFamily, history, Tables
<1>14. CASE FreezeCandidate
  <2>1. candidate' \in Parameters
    BY <1>14, SelectedTyped DEF FreezeCandidate, Typed
  <2>2. Tables
    BY <1>0, <1>14, <2>1 DEF FreezeCandidate, history, Tables
  <2> QED BY <1>14, <1>a, <1>c, <2>2, ThenMoveFields, Phases DEF FreezeCandidate
<1>15. CASE EnterWalkForward
  <2>1. Rows
    BY <1>0, <1>15, MoveFacts, Phases DEF EnterWalkForward, Rows
  <2> QED BY <1>15, <1>a, <1>b, <2>1, AtFields DEF EnterWalkForward, Steps, Stages
<1>16. CASE EnterHoldout
  <2>1. Rows
    BY <1>0, <1>16, OpenFacts DEF EnterHoldout, Rows
  <2> QED BY <1>16, <1>a, <1>b, <2>1, AtFields DEF EnterHoldout, Steps, Stages
<1>17. CASE EnterStress \/ EnterThroughput
  BY <1>17, <1>a, <1>b, <1>c, AtFields
     DEF EnterStress, EnterThroughput, Steps, Stages
<1>18. CASE SaveResult
  <2>1. PICK verdict \in StageVerdicts[call.step] :
          /\ results' = [results EXCEPT ![call.step] =
                           [verdict |-> verdict, parameters |-> Selected]]
          /\ ThenMove(PhaseAfter(call.step, verdict))
    BY <1>18 DEF SaveResult
  <2>2. [verdict |-> verdict, parameters |-> Selected] \in Result
    BY <1>18, <2>1, SelectedTyped DEF SaveResult, Result, Typed
  <2>3. PhaseAfter(call.step, verdict) \in PipelineState
    BY Phases DEF PhaseAfter
  <2>4. Tables
    BY <1>0, <1>18, <2>1, <2>2 DEF SaveResult, history, Tables
  <2> QED BY <1>18, <1>a, <1>c, <2>1, <2>3, <2>4, ThenMoveFields DEF SaveResult
<1>19. CASE FinalReview
  <2>1. Classification \in Classifications
    BY DEF Classification, Classifications, Accepting, Rejecting, Undecided
  <2>2. PhaseOfClass(Classification) \in PipelineState
    BY Phases DEF PhaseOfClass
  <2>3. Tables
    BY <1>0, <1>19, <2>1 DEF FinalReview, history, Tables
  <2> QED BY <1>19, <1>a, <1>c, <2>2, <2>3, ThenMoveFields DEF FinalReview
<1>20. CASE RunHoldout
  <2>1. Tables
    BY <1>0, <1>20 DEF RunHoldout, tables, Tables
  <2> QED BY <1>20, <1>a, <1>c, <2>1, AtFields DEF RunHoldout, Steps, Stages
<1>21. CASE UNCHANGED vars
  BY <1>0, <1>21, <1>a, <1>b, <1>c DEF vars
<1> QED BY <1>1, <1>2, <1>3, <1>4, <1>5, <1>6, <1>7, <1>8, <1>9, <1>10, <1>11,
           <1>12, <1>13, <1>14, <1>15, <1>16, <1>17, <1>18, <1>19, <1>20, <1>21
        DEF Next

\* The tables and the controller's rows keep their types.
LEMMA PhaseCTyped == Spec => []Typed
<1>1. Init => Typed
  <2> SUFFICES ASSUME Init PROVE Typed
    OBVIOUS
  <2>1. row \in StrategyRow /\ phase = "BASELINE_BACKTEST" /\ phase \in PipelineState
    BY Phases DEF Init, StrategyRow, phase
  <2>2. usage \in BudgetUsage
    BY BudgetAssumption DEF Init, ZeroUsage, BudgetUsage
  <2>3. /\ accesses \in Nat /\ ran \in Nat /\ holdoutRuns \in Nat
        /\ baseline = "NONE" /\ rounds = <<>> /\ decision = NoFamily
        /\ review = "NONE"
    BY DEF Init
  <2>4. NotRun.parameters \in Parameters /\ NotRun \in Result
    BY DEF NotRun, Parameters, Result
  <2>5. candidate \in Parameters /\ results \in [Stages -> Result]
    BY <2>4 DEF Init
  <2>6. call \in CallRow
    BY IdleFields DEF Init
  <2> QED BY <2>1, <2>2, <2>3, <2>5, <2>6 DEF Typed, TypeOK, CallRow
<1> QED BY <1>1, TypeStep, PTL DEF Spec

(* PhaseC keeps its types, for every specification, budget and verdict.    *)
THEOREM PhaseCTypeOK == Spec => []TypeOK
<1>1. Typed => TypeOK
  BY DEF Typed
<1> QED BY <1>1, PhaseCTyped, PTL

-----------------------------------------------------------------------------
\* Where a method stands

\* The transitions that the methods end with.
MayFollow(from, to) ==
    \/ from = "BASELINE_BACKTEST" /\ to \in {"EDGE_GATE", "TECHNICAL_FAILURE"}
    \/ from = "EDGE_GATE" /\ to \in {"PARAMETER_RESEARCH", "REJECTED",
                                  "INSUFFICIENT_EVIDENCE", "MANUAL_REVIEW_REQUIRED"}
    \/ /\ from = "PARAMETER_RESEARCH"
       /\ to \in {"MANUAL_REVIEW_REQUIRED", "INSUFFICIENT_EVIDENCE",
                  "CANDIDATE_FREEZE"}
    \/ from = "WALK_FORWARD" /\ to \in {"HOLDOUT", "REJECTED"}
    \/ from = "HOLDOUT" /\ to \in {"STRESS_TESTS", "REJECTED"}
    \/ from = "STRESS_TESTS" /\ to = "THROUGHPUT"
    \/ from = "THROUGHPUT" /\ to = "FINAL_REVIEW"
    \/ from = "FINAL_REVIEW" /\ to \in {"ACCEPTED", "REJECTED",
                                     "INSUFFICIENT_EVIDENCE"}

\* A method is past its test of the phase only in that phase.
Placed ==
    /\ call.step = "baseline" => phase = "BASELINE_BACKTEST"
    /\ call.step = "experiments" =>
         phase = "PARAMETER_RESEARCH" /\ call.round \in DOMAIN rounds
    /\ call.step = "freeze" => phase = "CANDIDATE_FREEZE"
    /\ call.step = "walk_forward" => phase = "WALK_FORWARD"
    /\ call.step \in {"opened", "holdout"} => phase = "HOLDOUT"
    /\ call.step = "stress" => phase = "STRESS_TESTS"
    /\ call.step = "throughput" => phase = "THROUGHPUT"
    /\ call.step = "move" => MayFollow(phase, call.to)

\* No method leaves its phase before its transition.
LEMMA PlacedStep == Typed /\ Placed /\ [Next]_vars => Placed'
<1> SUFFICES ASSUME Typed, Placed, [Next]_vars PROVE Placed'
  OBVIOUS
<1> USE DEF Placed
<1>a. call \in CallRow /\ rounds \in Seq(RoundRow)
  BY DEF Typed, TypeOK, CallRow
<1>b. ASSUME call' = Idle PROVE Placed'
  BY <1>b, IdleFields
<1>c. ASSUME NEW to \in PipelineState, ThenMove(to), MayFollow(phase, to),
             phase' = phase
      PROVE  Placed'
  <2>1. call'.step = "move" /\ call'.to = to
    BY <1>c, ThenMoveFields
  <2> QED BY <1>c, <2>1 DEF MayFollow
<1>1. CASE MoveOn
  <2>1. phase' = call.to
    BY <1>1, <1>a, MoveFacts DEF MoveOn, CallRow
  <2>2. CASE call.to = "CANDIDATE_FREEZE"
    <3>1. call'.step = "freeze"
      BY <1>1, <2>2 DEF MoveOn, Idle
    <3> QED BY <2>1, <2>2, <3>1
  <2> QED BY <1>1, <1>b, <2>2 DEF MoveOn
<1>2. CASE FreezeFamilies \/ Abort
  BY <1>2, <1>b DEF FreezeFamilies, Abort
<1>3. CASE ReuseBaseline
  BY <1>3, <1>c, Phases DEF ReuseBaseline, Begins, MayFollow, controllerVars, phase
<1>4. CASE RunBaseline
  <2>1. phase = "BASELINE_BACKTEST" /\ phase' = phase
    BY <1>4 DEF RunBaseline, Begins, controllerVars, phase, Controller!RecordOutcome
  <2>2. CASE ThenMove("TECHNICAL_FAILURE")
    BY <2>1, <2>2, <1>c, Phases DEF MayFollow
  <2>3. CASE call'.step = "baseline"
    BY <2>1, <2>3
  <2>4. ThenMove("TECHNICAL_FAILURE") \/ call'.step = "baseline"
    BY <1>4 DEF RunBaseline, Idle
  <2> QED BY <2>2, <2>3, <2>4
<1>5. CASE SaveBaseline
  BY <1>5, <1>c, Phases DEF SaveBaseline, MayFollow, controllerVars, phase
<1>6. CASE EvaluateEdge
  <2>1. phase = "EDGE_GATE" /\ phase' = phase
    BY <1>6 DEF EvaluateEdge, Begins, controllerVars, phase
  <2>2. PICK to \in {"PARAMETER_RESEARCH", "REJECTED", "INSUFFICIENT_EVIDENCE",
                    "MANUAL_REVIEW_REQUIRED"} : ThenMove(to)
    BY <1>6 DEF EvaluateEdge, EdgeVerdicts
  <2> QED BY <2>1, <2>2, <1>c, Phases DEF MayFollow
<1>7. CASE Analyze \/ ProposeRound \/ FreezeFamily
  <2>1. call' = Idle
    BY <1>7 DEF Analyze, ProposeRound, FreezeFamily, Begins
  <2> QED BY <1>b, <2>1
<1>8. CASE BeginRound
  <2>1. PICK k \in DOMAIN rounds :
          /\ Controller!Spend(RoundRequest(k))
          /\ call' = [Idle EXCEPT !.step = "experiments", !.round = k,
                                  !.left = Cardinality(Values)]
    BY <1>8 DEF BeginRound
  <2>2. call'.step = "experiments" /\ call'.round = k
    BY <2>1 DEF Idle
  <2>3. phase' = "PARAMETER_RESEARCH" /\ rounds' = rounds
    BY <1>8, <2>1, SpendFacts DEF BeginRound, Begins, phase, tables
  <2> QED BY <2>2, <2>3
<1>9. CASE RunExperiment
  <2>1. call'.step = "experiments" /\ call'.round = call.round
    BY <1>9, <1>a DEF RunExperiment, CallRow
  <2> QED BY <1>9, <2>1 DEF RunExperiment, controllerVars, phase, tables
<1>10. CASE ReviewRound
  <2>1. phase = "PARAMETER_RESEARCH" /\ phase' = phase
    BY <1>10 DEF ReviewRound, controllerVars, phase
  <2>2. \/ call' = Idle
        \/ \E to \in {"MANUAL_REVIEW_REQUIRED", "INSUFFICIENT_EVIDENCE"} : ThenMove(to)
    BY <1>10 DEF ReviewRound
  <2> QED BY <2>1, <2>2, <1>b, <1>c, Phases DEF MayFollow
<1>11. CASE FreezeCandidate
  BY <1>11, <1>c, Phases DEF FreezeCandidate, Begins, MayFollow, controllerVars, phase
<1>12. CASE EnterWalkForward
  <2>1. phase' = "WALK_FORWARD" /\ call'.step = "walk_forward"
    BY <1>12, MoveFacts, Phases, AtFields DEF EnterWalkForward, Steps, Stages
  <2> QED BY <2>1
<1>13. CASE EnterHoldout
  <2>1. phase' = "HOLDOUT" /\ call'.step = "opened"
    BY <1>13, OpenFacts, AtFields DEF EnterHoldout, Begins, Steps, Stages
  <2> QED BY <2>1
<1>14. CASE EnterStress
  <2>1. phase' = "STRESS_TESTS" /\ call'.step = "stress"
    BY <1>14, AtFields DEF EnterStress, Begins, Steps, Stages, controllerVars, phase
  <2> QED BY <2>1
<1>15. CASE EnterThroughput
  <2>1. phase' = "THROUGHPUT" /\ call'.step = "throughput"
    BY <1>15, AtFields DEF EnterThroughput, Begins, Steps, Stages, controllerVars, phase
  <2> QED BY <2>1
<1>16. CASE SaveResult
  <2>1. PICK verdict \in StageVerdicts[call.step] :
          ThenMove(PhaseAfter(call.step, verdict))
    BY <1>16 DEF SaveResult
  <2>2. MayFollow(phase, PhaseAfter(call.step, verdict))
    BY <1>16, <2>1 DEF SaveResult, Stages, StageVerdicts, PhaseAfter, MayFollow
  <2>3. PhaseAfter(call.step, verdict) \in PipelineState
    BY Phases DEF PhaseAfter
  <2> QED BY <1>16, <1>c, <2>1, <2>2, <2>3 DEF SaveResult, controllerVars, phase
<1>17. CASE FinalReview
  <2>1. PhaseOfClass(Classification) \in {"ACCEPTED", "REJECTED", "INSUFFICIENT_EVIDENCE"}
    BY DEF PhaseOfClass
  <2> QED BY <1>17, <1>c, <2>1, Phases
          DEF FinalReview, Begins, MayFollow, controllerVars, phase
<1>18. CASE RunHoldout
  <2>1. phase' = "HOLDOUT" /\ call'.step = "holdout"
    BY <1>18, AtFields DEF RunHoldout, Steps, Stages, controllerVars, phase
  <2> QED BY <2>1
<1>19. CASE UNCHANGED vars
  BY <1>19 DEF vars, controllerVars, tables, phase, MayFollow
<1> QED BY <1>1, <1>2, <1>3, <1>4, <1>5, <1>6, <1>7, <1>8, <1>9, <1>10, <1>11,
           <1>12, <1>13, <1>14, <1>15, <1>16, <1>17, <1>18, <1>19 DEF Next

\* A method stands where its guard found the strategy.
LEMMA PhaseCPlaced == Spec => []Placed
<1>1. Init => Placed
  BY IdleFields DEF Init, Placed
<1> QED BY <1>1, PlacedStep, PhaseCTyped, PTL DEF Spec

-----------------------------------------------------------------------------
\* The budget

\* The experiments that ran, and those still to run, are paid for.
Paid ==
    /\ ran + call.left <= usage.total_backtests
    /\ usage.total_backtests <= Limits.max_total_backtests

\* A round is paid for before its first experiment runs.
LEMMA PaidStep == Typed /\ Paid /\ [Next]_vars => Paid'
<1> SUFFICES ASSUME Typed, Paid, [Next]_vars PROVE Paid'
  OBVIOUS
<1>a. /\ call.left \in Nat /\ ran \in Nat /\ usage.total_backtests \in Nat
      /\ call \in CallRow /\ ran <= usage.total_backtests
  BY DEF Typed, TypeOK, CallRow, BudgetUsage, Paid
<1>b. ASSUME call'.left = 0, ran' = ran,
             usage'.total_backtests = usage.total_backtests
      PROVE  Paid'
  BY <1>a, <1>b DEF Paid
<1>1. CASE MoveOn
  BY <1>1, <1>a, <1>b, MoveFacts, IdleFields DEF MoveOn, CallRow, history, Idle
<1>2. CASE FreezeFamilies
  BY <1>2, <1>b, FreezeFacts, IdleFields DEF FreezeFamilies, history
<1>3. CASE Abort
  BY <1>3, <1>b, IdleFields DEF Abort, history, controllerVars
<1>4. CASE ReuseBaseline \/ SaveBaseline \/ EvaluateEdge \/ FreezeCandidate
  <2>1. PICK to \in PipelineState : ThenMove(to)
    BY <1>4, Phases
       DEF ReuseBaseline, SaveBaseline, EvaluateEdge, FreezeCandidate, EdgeVerdicts
  <2>2. UNCHANGED <<ran, usage>>
    BY <1>4 DEF ReuseBaseline, SaveBaseline, EvaluateEdge, FreezeCandidate,
                history, controllerVars
  <2> QED BY <1>b, <2>1, <2>2, ThenMoveFields
<1>5. CASE RunBaseline
  <2>1. UNCHANGED <<ran, usage>>
    BY <1>5 DEF RunBaseline, Controller!RecordOutcome, history, controllerVars
  <2>2. call'.left = 0
    BY <1>5, ThenMoveFields, Phases DEF RunBaseline, Idle
  <2> QED BY <1>b, <2>1, <2>2
<1>6. CASE Analyze \/ ProposeRound \/ FreezeFamily
  <2>1. call' = Idle /\ UNCHANGED <<ran, usage>>
    BY <1>6 DEF Analyze, ProposeRound, FreezeFamily, Begins, history, controllerVars
  <2> QED BY <1>b, <2>1, IdleFields
<1>7. CASE BeginRound
  <2>1. PICK k \in DOMAIN rounds :
          /\ Controller!Spend(RoundRequest(k))
          /\ call' = [Idle EXCEPT !.step = "experiments", !.round = k,
                                  !.left = Cardinality(Values)]
    BY <1>7 DEF BeginRound
  <2>2. call'.left = Cardinality(Values) /\ Cardinality(Values) \in Nat
    BY <2>1, RequestTyped DEF Idle, Typed
  <2>3. ran' = ran
    BY <1>7 DEF BeginRound, history
  <2> QED BY <1>a, <2>1, <2>2, <2>3, SpendFacts DEF Paid
<1>8. CASE RunExperiment
  <2>1. call'.left = call.left - 1 /\ ran' = ran + 1 /\ usage' = usage
    BY <1>8, <1>a DEF RunExperiment, CallRow, controllerVars
  <2> QED BY <1>a, <2>1 DEF Paid
<1>9. CASE ReviewRound
  <2>1. call'.left = 0
    BY <1>9, IdleFields, ThenMoveFields, Phases DEF ReviewRound
  <2> QED BY <1>9, <1>b, <2>1 DEF ReviewRound, history, controllerVars
<1>10. CASE EnterWalkForward
  BY <1>10, <1>b, MoveFacts, Phases, AtFields
     DEF EnterWalkForward, history, Steps, Stages
<1>11. CASE EnterHoldout
  BY <1>11, <1>b, OpenFacts, AtFields DEF EnterHoldout, history, Steps, Stages
<1>12. CASE EnterStress \/ EnterThroughput
  BY <1>12, <1>b, AtFields
     DEF EnterStress, EnterThroughput, history, controllerVars, Steps, Stages
<1>13. CASE SaveResult
  <2>1. PICK verdict : ThenMove(PhaseAfter(call.step, verdict))
    BY <1>13 DEF SaveResult
  <2>2. call'.left = 0
    BY <2>1, ThenMoveFields, Phases DEF PhaseAfter
  <2> QED BY <1>13, <1>b, <2>2 DEF SaveResult, history, controllerVars
<1>14. CASE FinalReview
  <2>1. call'.left = 0
    BY <1>14, ThenMoveFields, Phases DEF FinalReview, PhaseOfClass
  <2> QED BY <1>14, <1>b, <2>1 DEF FinalReview, history, controllerVars
<1>15. CASE RunHoldout
  BY <1>15, <1>b, AtFields DEF RunHoldout, controllerVars, Steps, Stages
<1>16. CASE UNCHANGED vars
  BY <1>16 DEF vars, controllerVars, history, Paid
<1> QED BY <1>1, <1>2, <1>3, <1>4, <1>5, <1>6, <1>7, <1>8, <1>9, <1>10, <1>11,
           <1>12, <1>13, <1>14, <1>15, <1>16 DEF Next

(* However often rounds are repeated and methods cut short, no parameter   *)
(* experiment runs that the budget has not been charged for.               *)
THEOREM PhaseCPaidBeforeRun == Spec => []PaidBeforeRun
<1>1. Init => Paid
  BY IdleFields, BudgetAssumption DEF Init, Paid, ZeroUsage, LimitFields
<1>2. Typed /\ Paid => PaidBeforeRun
  BY DEF Paid, PaidBeforeRun, Typed, TypeOK, BudgetUsage
<1> QED BY <1>1, <1>2, PaidStep, PhaseCTyped, PTL DEF Spec

-----------------------------------------------------------------------------
\* The holdout

\* The holdout is open once it was accessed, and is run right after.
Locked ==
    /\ accesses = IF row.holdout_opened THEN 1 ELSE 0
    /\ holdoutRuns <= accesses
    /\ call.step = "opened" => accesses = 1 /\ holdoutRuns = 0
    /\ call.step = "holdout" => accesses = 1

\* Only the method that has just opened the holdout runs on it.
LEMMA LockedStep == Typed /\ Locked /\ [Next]_vars => Locked'
<1> SUFFICES ASSUME Typed, Locked, [Next]_vars PROVE Locked'
  OBVIOUS
<1>a. /\ call \in CallRow /\ accesses \in Nat /\ holdoutRuns \in Nat
  BY DEF Typed, TypeOK, CallRow
<1>b. ASSUME call'.step \notin {"opened", "holdout"},
             UNCHANGED <<accesses, holdoutRuns>>,
             row'.holdout_opened = row.holdout_opened
      PROVE  Locked'
  BY <1>b DEF Locked
<1>1. CASE MoveOn
  <2>1. call'.step \notin {"opened", "holdout"}
    BY <1>1 DEF MoveOn, Idle
  <2> QED BY <1>1, <1>a, <1>b, <2>1, MoveFacts DEF MoveOn, CallRow, history
<1>2. CASE FreezeFamilies
  BY <1>2, <1>b, FreezeFacts, IdleFields DEF FreezeFamilies, history
<1>3. CASE Abort
  BY <1>3, <1>b, IdleFields DEF Abort, history, controllerVars
<1>4. CASE ReuseBaseline \/ SaveBaseline \/ EvaluateEdge \/ FreezeCandidate
  <2>1. call'.step = "move"
    BY <1>4 DEF ReuseBaseline, SaveBaseline, EvaluateEdge, FreezeCandidate,
                ThenMove, Idle
  <2>2. UNCHANGED <<accesses, holdoutRuns, row>>
    BY <1>4 DEF ReuseBaseline, SaveBaseline, EvaluateEdge, FreezeCandidate,
                history, controllerVars
  <2> QED BY <1>b, <2>1, <2>2
<1>5. CASE RunBaseline
  <2>1. UNCHANGED <<accesses, holdoutRuns, row>>
    BY <1>5 DEF RunBaseline, Controller!RecordOutcome, history, controllerVars
  <2>2. call'.step \in {"move", "baseline"}
    BY <1>5 DEF RunBaseline, ThenMove, Idle
  <2> QED BY <1>b, <2>1, <2>2
<1>6. CASE Analyze \/ ProposeRound \/ FreezeFamily
  <2>1. call' = Idle /\ UNCHANGED <<accesses, holdoutRuns, row>>
    BY <1>6 DEF Analyze, ProposeRound, FreezeFamily, Begins, history, controllerVars
  <2> QED BY <1>b, <2>1, IdleFields
<1>7. CASE BeginRound
  <2>1. call'.step = "experiments" /\ UNCHANGED <<accesses, holdoutRuns, row>>
    BY <1>7, SpendFacts DEF BeginRound, Idle, history
  <2> QED BY <1>b, <2>1
<1>8. CASE RunExperiment
  <2>1. call'.step = "experiments"
    BY <1>8, <1>a DEF RunExperiment, CallRow
  <2> QED BY <1>8, <1>b, <2>1 DEF RunExperiment, controllerVars
<1>9. CASE ReviewRound
  <2>1. call'.step \in {"idle", "move"}
    <3>1. call' = Idle \/ \E to : ThenMove(to)
      BY <1>9 DEF ReviewRound
    <3> QED BY <3>1, IdleFields DEF ThenMove, Idle
  <2> QED BY <1>9, <1>b, <2>1 DEF ReviewRound, history, controllerVars
<1>10. CASE EnterWalkForward
  BY <1>10, <1>b, MoveFacts, Phases, AtFields
     DEF EnterWalkForward, history, Steps, Stages
<1>11. CASE EnterHoldout
  <2>1. accesses = 0 /\ accesses' = 1 /\ row'.holdout_opened
    BY <1>11, OpenFacts DEF EnterHoldout, Locked
  <2>2. holdoutRuns' = 0 /\ call'.step = "opened"
    BY <1>11, <1>a, <2>1, AtFields DEF EnterHoldout, history, Locked, Steps
  <2> QED BY <2>1, <2>2 DEF Locked
<1>12. CASE EnterStress \/ EnterThroughput
  BY <1>12, <1>b, AtFields
     DEF EnterStress, EnterThroughput, history, controllerVars, Steps, Stages
<1>13. CASE SaveResult
  <2>1. call'.step = "move" /\ UNCHANGED <<accesses, holdoutRuns, row>>
    BY <1>13 DEF SaveResult, ThenMove, Idle, history, controllerVars
  <2> QED BY <1>b, <2>1
<1>14. CASE FinalReview
  <2>1. call'.step = "move"
    BY <1>14 DEF FinalReview, ThenMove, Idle
  <2> QED BY <1>14, <1>b, <2>1 DEF FinalReview, history, controllerVars
<1>15. CASE RunHoldout
  <2>1. accesses = 1 /\ holdoutRuns = 0 /\ row.holdout_opened
    BY <1>15 DEF RunHoldout, Locked
  <2>2. /\ accesses' = 1 /\ holdoutRuns' = 1 /\ row' = row
        /\ call'.step = "holdout"
    BY <1>15, <2>1, AtFields DEF RunHoldout, controllerVars, Steps, Stages
  <2> QED BY <2>1, <2>2 DEF Locked
<1>16. CASE UNCHANGED vars
  BY <1>16 DEF vars, controllerVars, history, Locked
<1> QED BY <1>1, <1>2, <1>3, <1>4, <1>5, <1>6, <1>7, <1>8, <1>9, <1>10, <1>11,
           <1>12, <1>13, <1>14, <1>15, <1>16 DEF Next

\* The lock is as the accesses say.
LEMMA PhaseCLocked == Spec => []Locked
<1>1. Init => Locked
  BY IdleFields DEF Init, Locked
<1> QED BY <1>1, LockedStep, PhaseCTyped, PTL DEF Spec

(* The holdout data are read by at most one backtest, whatever dies when,  *)
(* and not without a recorded access.                                      *)
THEOREM PhaseCHoldoutRunOnce == Spec => []HoldoutRunOnce
<1>1. Typed /\ Locked => HoldoutRunOnce
  BY DEF Locked, HoldoutRunOnce
<1> QED BY <1>1, PhaseCTyped, PhaseCLocked, PTL

-----------------------------------------------------------------------------
\* The evidence of a phase

\* EvidenceBehindPhase and VerdictOnRecord, of any phase.
Evidence(p) ==
    /\ p \in AfterEdge => baseline = "VERIFIED"
    /\ p \in AfterWalkForward => results["walk_forward"].verdict = "PASS"
    /\ p \in AfterHoldout => results["holdout"].verdict = "PASS" /\ accesses = 1
    /\ p \in AfterStress => results["stress"].verdict # "NONE"
    /\ p = "ACCEPTED" =>
         review \in Accepting /\ results["throughput"].verdict # "NONE"

Recorded(p) ==
    /\ p = "REJECTED" =>
         \/ review \in Rejecting
         \/ results["walk_forward"].verdict = "FAIL"
         \/ results["holdout"].verdict = "FAIL"
    /\ p = "INSUFFICIENT_EVIDENCE" =>
         \/ review = "INSUFFICIENT_EVIDENCE"
         \/ \E k \in DOMAIN rounds : rounds[k].review = "INSUFFICIENT_EVIDENCE"
    /\ p = "MANUAL_REVIEW_REQUIRED" =>
         \/ review = "MANUAL_REVIEW_REQUIRED"
         \/ \E k \in DOMAIN rounds : rounds[k].review = "VETO"

\* The phase a method is about to enter has its evidence already.
Backed ==
    /\ Evidence(phase) /\ Recorded(phase)
    /\ call.step = "move" => Evidence(call.to) /\ Recorded(call.to)

\* The sets of phases, as the phases they are.
LEMMA After ==
    /\ AfterStress = {"THROUGHPUT", "FINAL_REVIEW", "ACCEPTED"}
    /\ AfterHoldout = {"STRESS_TESTS", "THROUGHPUT", "FINAL_REVIEW", "ACCEPTED"}
    /\ AfterWalkForward = {"HOLDOUT", "STRESS_TESTS", "THROUGHPUT", "FINAL_REVIEW",
                           "ACCEPTED"}
    /\ AfterEdge = {"PARAMETER_RESEARCH", "CANDIDATE_FREEZE", "WALK_FORWARD",
                    "HOLDOUT", "STRESS_TESTS", "THROUGHPUT", "FINAL_REVIEW",
                    "ACCEPTED"}
BY DEF AfterStress, AfterHoldout, AfterWalkForward, AfterEdge

\* Rounds are added to the end, and none that is there changes; nor does what
\* is selected, for a round that was only proposed.
LEMMA Proposed ==
    ASSUME TypeOK, ProposeRound
    PROVE  /\ \A k \in DOMAIN rounds : k \in DOMAIN rounds' /\ rounds'[k] = rounds[k]
           /\ Selected' = Selected
<1>1. PICK new \in RoundRow : rounds' = Append(rounds, new) /\ new.status = "PROPOSED"
  BY DEF ProposeRound, RoundRow, TypeOK
<1>2. /\ DOMAIN rounds' = DOMAIN rounds \cup {Len(rounds) + 1}
      /\ \A k \in DOMAIN rounds : rounds'[k] = rounds[k]
      /\ rounds'[Len(rounds) + 1] = new
  BY <1>1 DEF TypeOK
<1>3. ASSUME NEW f \in Mutable PROVE FrozenFor(f)' = FrozenFor(f)
  <2>1. \A k : k \in FrozenFor(f)' <=> k \in FrozenFor(f)
    BY <1>1, <1>2 DEF FrozenFor
  <2> QED BY <2>1
<1>4. ASSUME NEW f \in Mutable PROVE Selected'[f] = Selected[f]
  <2> DEFINE S == FrozenFor(f)
             last == CHOOSE k \in S : \A j \in S : j <= k
  <2>1. /\ Selected[f] = IF \E k \in S : \A j \in S : j <= k
                           THEN rounds[last].value ELSE NoValue
        /\ Selected'[f] = IF \E k \in S : \A j \in S : j <= k
                            THEN rounds'[last].value ELSE NoValue
    BY <1>3 DEF Selected
  <2>2. CASE \E k \in S : \A j \in S : j <= k
    <3>1. last \in S
      BY <2>2
    <3>2. last \in DOMAIN rounds
      BY <3>1 DEF FrozenFor
    <3> QED BY <1>2, <2>1, <3>2
  <2> QED BY <2>1, <2>2
<1> QED BY <1>2, <1>4 DEF Selected

(* A method leaves its evidence before it moves on.                        *)
LEMMA BackedStep == Typed /\ Placed /\ Locked /\ Backed /\ [Next]_vars => Backed'
<1> SUFFICES ASSUME Typed, Placed, Locked, Backed, [Next]_vars PROVE Backed'
  OBVIOUS
<1>a. call \in CallRow /\ results \in [Stages -> Result] /\ TypeOK
  BY DEF Typed, TypeOK, CallRow
<1>b. ASSUME UNCHANGED <<baseline, results, accesses, review>>,
             rounds' = rounds \/ ProposeRound
      PROVE  \A p : /\ Evidence(p) => Evidence(p)'
                   /\ Recorded(p) => Recorded(p)'
  <2>1. \A k \in DOMAIN rounds : k \in DOMAIN rounds' /\ rounds'[k] = rounds[k]
    BY <1>a, <1>b, Proposed
  <2> QED BY <1>b, <2>1 DEF Evidence, Recorded
<1>c. ASSUME UNCHANGED <<baseline, results, accesses, review>>,
             rounds' = rounds \/ ProposeRound, phase' = phase, call'.step # "move"
      PROVE  Backed'
  BY <1>b, <1>c DEF Backed, Evidence, Recorded
<1>d. ASSUME NEW to \in PipelineState, ThenMove(to), phase' = phase,
             Evidence(phase)', Recorded(phase)', Evidence(to)', Recorded(to)'
      PROVE  Backed'
  BY <1>d, ThenMoveFields DEF Backed
<1>1. CASE MoveOn
  <2>1. phase' = call.to /\ UNCHANGED <<baseline, results, accesses, review, rounds>>
    BY <1>1, <1>a, MoveFacts DEF MoveOn, CallRow, tables
  <2>2. call'.step # "move"
    BY <1>1 DEF MoveOn, Idle
  <2>3. Evidence(call.to) /\ Recorded(call.to)
    BY <1>1 DEF MoveOn, Backed
  <2> QED BY <2>1, <2>2, <2>3 DEF Backed, Evidence, Recorded
<1>2. CASE FreezeFamilies
  BY <1>2, <1>c, FreezeFacts, IdleFields DEF FreezeFamilies, tables
<1>3. CASE Abort
  BY <1>3, <1>c, IdleFields DEF Abort, tables, controllerVars, phase
<1>4. CASE ReuseBaseline
  <2>1. Evidence("EDGE_GATE")' /\ Recorded("EDGE_GATE")'
    BY After DEF Evidence, Recorded
  <2>2. /\ phase' = phase /\ ThenMove("EDGE_GATE")
        /\ UNCHANGED <<baseline, results, accesses, review, rounds>>
    BY <1>4 DEF ReuseBaseline, tables, controllerVars, phase
  <2>3. Evidence(phase)' /\ Recorded(phase)'
    BY <2>2 DEF Backed, Evidence, Recorded
  <2> QED BY <1>d, <2>1, <2>2, <2>3, Phases
<1>5. CASE RunBaseline
  <2>1. Evidence("TECHNICAL_FAILURE")' /\ Recorded("TECHNICAL_FAILURE")'
    BY After DEF Evidence, Recorded
  <2>2. UNCHANGED <<baseline, results, accesses, review, rounds>> /\ phase' = phase
    BY <1>5 DEF RunBaseline, tables, controllerVars, phase, Controller!RecordOutcome
  <2>3. Evidence(phase)' /\ Recorded(phase)'
    BY <2>2 DEF Backed, Evidence, Recorded
  <2>4. ThenMove("TECHNICAL_FAILURE") \/ call'.step = "baseline"
    BY <1>5 DEF RunBaseline, Idle
  <2> QED BY <1>c, <1>d, <2>1, <2>2, <2>3, <2>4, Phases
<1>6. CASE SaveBaseline
  <2>1. phase = "BASELINE_BACKTEST" /\ phase' = phase
    BY <1>6 DEF SaveBaseline, Placed, controllerVars, phase
  <2>2. \A p \in {"BASELINE_BACKTEST", "EDGE_GATE", "TECHNICAL_FAILURE"} :
          Evidence(p)' /\ Recorded(p)'
    BY After DEF Evidence, Recorded
  <2> QED BY <1>6, <1>d, <2>1, <2>2, Phases DEF SaveBaseline
<1>7. CASE EvaluateEdge
  <2>1. phase = "EDGE_GATE" /\ phase' = phase /\ baseline' = "VERIFIED"
    BY <1>7 DEF EvaluateEdge, Begins, controllerVars, phase
  <2>2. Evidence("EDGE_GATE")' /\ Recorded("EDGE_GATE")'
    BY After DEF Evidence, Recorded
  <2>3. CASE ThenMove("PARAMETER_RESEARCH")
    <3>1. Evidence("PARAMETER_RESEARCH")' /\ Recorded("PARAMETER_RESEARCH")'
      BY <2>1, After DEF Evidence, Recorded
    <3> QED BY <1>d, <2>1, <2>2, <2>3, <3>1, Phases
  <2>4. CASE \E class \in DOMAIN EdgeVerdicts :
               review' = class /\ ThenMove(EdgeVerdicts[class])
    <3>1. PICK class \in DOMAIN EdgeVerdicts :
            review' = class /\ ThenMove(EdgeVerdicts[class])
      BY <2>4
    <3>2. /\ EdgeVerdicts[class] \in PipelineState
          /\ Evidence(EdgeVerdicts[class])' /\ Recorded(EdgeVerdicts[class])'
      BY <3>1, After, Phases DEF Evidence, Recorded, EdgeVerdicts, Rejecting
    <3> QED BY <1>d, <2>1, <2>2, <3>1, <3>2
  <2> QED BY <1>7, <2>3, <2>4 DEF EvaluateEdge
<1>8. CASE Analyze
  <2>1. call'.step = "idle" /\ rounds' = rounds
    BY <1>8, IdleFields DEF Analyze, Begins
  <2> QED BY <1>8, <1>c, <2>1 DEF Analyze, controllerVars, phase
<1>9. CASE ProposeRound
  <2>1. call'.step = "idle"
    BY <1>9, IdleFields DEF ProposeRound
  <2> QED BY <1>9, <1>c, <2>1 DEF ProposeRound, controllerVars, phase
<1>10. CASE BeginRound
  <2>1. call'.step = "experiments" /\ UNCHANGED <<accesses, row>>
    BY <1>10, SpendFacts DEF BeginRound, Idle
  <2> QED BY <1>10, <1>c, <2>1 DEF BeginRound, tables, phase
<1>11. CASE RunExperiment
  <2>1. call'.step = "experiments"
    BY <1>11, <1>a DEF RunExperiment, CallRow
  <2> QED BY <1>11, <1>c, <2>1 DEF RunExperiment, tables, controllerVars, phase
<1>12. CASE ReviewRound
  <2>1. /\ phase = "PARAMETER_RESEARCH" /\ phase' = phase
        /\ call.round \in DOMAIN rounds
        /\ UNCHANGED <<baseline, results, accesses, review>>
    BY <1>12 DEF ReviewRound, Placed, controllerVars, phase
  <2>2. Evidence(phase)' /\ Recorded(phase)'
    BY <2>1 DEF Backed, Evidence, Recorded
  <2>3. CASE call' = Idle
    BY <2>1, <2>2, <2>3, IdleFields DEF Backed
  <2>4. CASE ThenMove("MANUAL_REVIEW_REQUIRED") /\ rounds'[call.round].review = "VETO"
    <3>1. Evidence("MANUAL_REVIEW_REQUIRED")' /\ Recorded("MANUAL_REVIEW_REQUIRED")'
      BY <1>12, <1>a, <2>1, <2>4, Reviewed, After DEF Evidence, Recorded
    <3> QED BY <1>d, <2>1, <2>2, <2>4, <3>1, Phases
  <2>5. CASE /\ ThenMove("INSUFFICIENT_EVIDENCE")
             /\ rounds'[call.round].review = "INSUFFICIENT_EVIDENCE"
    <3>1. Evidence("INSUFFICIENT_EVIDENCE")' /\ Recorded("INSUFFICIENT_EVIDENCE")'
      BY <1>12, <1>a, <2>1, <2>5, Reviewed, After DEF Evidence, Recorded
    <3> QED BY <1>d, <2>1, <2>2, <2>5, <3>1, Phases
  <2> QED BY <1>12, <1>a, <2>1, <2>3, <2>4, <2>5, Reviewed
<1>13. CASE FreezeFamily
  <2>1. /\ phase = "PARAMETER_RESEARCH" /\ phase' = phase /\ call'.step = "idle"
        /\ UNCHANGED <<baseline, results, accesses, review>>
    BY <1>13, IdleFields DEF FreezeFamily, Begins, controllerVars, phase
  <2> QED BY <2>1 DEF Backed, Evidence, Recorded
<1>14. CASE FreezeCandidate
  <2>1. /\ phase = "PARAMETER_RESEARCH" /\ phase' = phase
        /\ UNCHANGED <<baseline, results, accesses, review, rounds>>
    BY <1>14 DEF FreezeCandidate, Begins, controllerVars, phase
  <2>2. Evidence(phase)' /\ Recorded(phase)'
    BY <2>1 DEF Backed, Evidence, Recorded
  <2>3. Evidence("CANDIDATE_FREEZE")' /\ Recorded("CANDIDATE_FREEZE")'
    BY <2>1, <2>2, After DEF Evidence, Recorded
  <2> QED BY <1>14, <1>d, <2>1, <2>2, <2>3, Phases DEF FreezeCandidate
<1>15. CASE EnterWalkForward
  <2>1. phase' = "WALK_FORWARD" /\ call'.step = "walk_forward" /\ accesses' = accesses
    BY <1>15, MoveFacts, Phases, AtFields DEF EnterWalkForward, Steps, Stages
  <2>2. baseline' = "VERIFIED"
    BY <1>15, After DEF EnterWalkForward, Begins, Backed, Evidence, tables
  <2> QED BY <2>1, <2>2, After DEF Backed, Evidence, Recorded
<1>16. CASE EnterHoldout
  <2>1. /\ phase = "HOLDOUT" /\ phase' = phase /\ call'.step = "opened"
        /\ UNCHANGED <<baseline, results, review>>
    BY <1>16, OpenFacts, AtFields DEF EnterHoldout, Begins, Steps, Stages, tables
  <2> QED BY <2>1, After DEF Backed, Evidence, Recorded
<1>17. CASE EnterStress \/ EnterThroughput
  <2>1. call'.step # "move"
    BY <1>17, AtFields DEF EnterStress, EnterThroughput, Steps, Stages
  <2> QED BY <1>17, <1>c, <2>1
          DEF EnterStress, EnterThroughput, tables, controllerVars, phase
<1>18. CASE SaveResult
  <2>1. PICK verdict \in StageVerdicts[call.step] :
          /\ results' = [results EXCEPT ![call.step] =
                           [verdict |-> verdict, parameters |-> Selected]]
          /\ ThenMove(PhaseAfter(call.step, verdict))
    BY <1>18 DEF SaveResult
  <2>2. /\ call.step \in Stages /\ phase' = phase
        /\ UNCHANGED <<baseline, accesses, review, rounds>>
        /\ results'[call.step].verdict = verdict
        /\ \A s \in Stages \ {call.step} : results'[s] = results[s]
    BY <1>18, <1>a, <2>1 DEF SaveResult, controllerVars, phase
  <2>3. CASE call.step = "walk_forward"
    <3>1. phase = "WALK_FORWARD" /\ verdict \in {"PASS", "FAIL"}
      BY <2>1, <2>3 DEF Placed, StageVerdicts
    <3>2. Evidence(phase)' /\ Recorded(phase)'
      BY <2>2, <3>1, After DEF Backed, Evidence, Recorded
    <3>3. CASE verdict = "PASS"
      <4>1. ThenMove("HOLDOUT")
        BY <2>1, <2>3, <3>3 DEF PhaseAfter
      <4>2. Evidence("HOLDOUT")' /\ Recorded("HOLDOUT")'
        BY <2>2, <2>3, <3>1, <3>2, <3>3, After DEF Evidence, Recorded
      <4> QED BY <1>d, <2>2, <3>2, <4>1, <4>2, Phases
    <3>4. CASE verdict = "FAIL"
      <4>1. ThenMove("REJECTED")
        BY <2>1, <2>3, <3>4 DEF PhaseAfter
      <4>2. Evidence("REJECTED")' /\ Recorded("REJECTED")'
        BY <2>2, <2>3, <3>4, After DEF Evidence, Recorded
      <4> QED BY <1>d, <2>2, <3>2, <4>1, <4>2, Phases
    <3> QED BY <3>1, <3>3, <3>4
  <2>4. CASE call.step = "holdout"
    <3>1. phase = "HOLDOUT" /\ verdict \in {"PASS", "FAIL"} /\ accesses = 1
      BY <2>1, <2>4 DEF Placed, Locked, StageVerdicts
    <3>2. Evidence(phase)' /\ Recorded(phase)'
      BY <2>2, <2>4, <3>1, After DEF Backed, Evidence, Recorded, Stages
    <3>3. CASE verdict = "PASS"
      <4>1. ThenMove("STRESS_TESTS")
        BY <2>1, <2>4, <3>3 DEF PhaseAfter
      <4>2. Evidence("STRESS_TESTS")' /\ Recorded("STRESS_TESTS")'
        BY <2>2, <2>4, <3>1, <3>2, <3>3, After DEF Evidence, Recorded
      <4> QED BY <1>d, <2>2, <3>2, <4>1, <4>2, Phases
    <3>4. CASE verdict = "FAIL"
      <4>1. ThenMove("REJECTED")
        BY <2>1, <2>4, <3>4 DEF PhaseAfter
      <4>2. Evidence("REJECTED")' /\ Recorded("REJECTED")'
        BY <2>2, <2>4, <3>4, After DEF Evidence, Recorded
      <4> QED BY <1>d, <2>2, <3>2, <4>1, <4>2, Phases
    <3> QED BY <3>1, <3>3, <3>4
  <2>5. CASE call.step = "stress"
    <3>1. phase = "STRESS_TESTS" /\ verdict \in {"ROBUST", "FRAGILE"}
      BY <2>1, <2>5 DEF Placed, StageVerdicts
    <3>2. Evidence(phase)' /\ Recorded(phase)'
      BY <2>2, <2>5, <3>1, After DEF Backed, Evidence, Recorded, Stages
    <3>3. PhaseAfter(call.step, verdict) = "THROUGHPUT"
      BY <2>5, <3>1 DEF PhaseAfter
    <3>4. Evidence("THROUGHPUT")' /\ Recorded("THROUGHPUT")'
      BY <2>2, <2>5, <3>1, <3>2, After DEF Evidence, Recorded
    <3> QED BY <1>d, <2>1, <2>2, <3>2, <3>3, <3>4, Phases
  <2>6. CASE call.step = "throughput"
    <3>1. /\ phase = "THROUGHPUT"
          /\ verdict \in {"STANDALONE_CAPABLE", "PORTFOLIO_COMPONENT_ONLY",
                          "INSUFFICIENT_EVIDENCE"}
      BY <2>1, <2>6 DEF Placed, StageVerdicts
    <3>2. Evidence(phase)' /\ Recorded(phase)'
      BY <2>2, <2>6, <3>1, After DEF Backed, Evidence, Recorded, Stages
    <3>3. PhaseAfter(call.step, verdict) = "FINAL_REVIEW"
      BY <2>6, <3>1 DEF PhaseAfter
    <3>4. Evidence("FINAL_REVIEW")' /\ Recorded("FINAL_REVIEW")'
      BY <2>2, <2>6, <3>1, <3>2, After DEF Evidence, Recorded
    <3> QED BY <1>d, <2>1, <2>2, <3>2, <3>3, <3>4, Phases
  <2> QED BY <2>2, <2>3, <2>4, <2>5, <2>6 DEF Stages
<1>19. CASE FinalReview
  <2>1. /\ phase = "FINAL_REVIEW" /\ phase' = phase
        /\ results["throughput"].verdict # "NONE"
        /\ review' = Classification /\ ThenMove(PhaseOfClass(Classification))
        /\ UNCHANGED <<baseline, results, accesses, rounds>>
    BY <1>19 DEF FinalReview, Begins, Stages, controllerVars, phase
  <2>2. Evidence(phase)' /\ Recorded(phase)'
    BY <2>1 DEF Backed, Evidence, Recorded
  <2>3. CASE Classification \in Accepting
    <3>1. ThenMove("ACCEPTED")
      BY <2>1, <2>3 DEF PhaseOfClass, Accepting, Rejecting
    <3>2. Evidence("ACCEPTED")' /\ Recorded("ACCEPTED")'
      BY <2>1, <2>2, <2>3, After DEF Evidence, Recorded
    <3> QED BY <1>d, <2>1, <2>2, <3>1, <3>2, Phases
  <2>4. CASE Classification \in Rejecting
    <3>1. ThenMove("REJECTED")
      BY <2>1, <2>4 DEF PhaseOfClass, Accepting, Rejecting
    <3>2. Evidence("REJECTED")' /\ Recorded("REJECTED")'
      BY <2>1, <2>4, After DEF Evidence, Recorded
    <3> QED BY <1>d, <2>1, <2>2, <3>1, <3>2, Phases
  <2>5. CASE Classification = "INSUFFICIENT_EVIDENCE"
    <3>1. ThenMove("INSUFFICIENT_EVIDENCE")
      BY <2>1, <2>5 DEF PhaseOfClass, Accepting, Rejecting
    <3>2. Evidence("INSUFFICIENT_EVIDENCE")' /\ Recorded("INSUFFICIENT_EVIDENCE")'
      BY <2>1, <2>5, After DEF Evidence, Recorded
    <3> QED BY <1>d, <2>1, <2>2, <3>1, <3>2, Phases
  <2>6. Classification \in Accepting \cup Rejecting \cup {"INSUFFICIENT_EVIDENCE"}
    BY DEF Classification, Accepting, Rejecting
  <2> QED BY <2>3, <2>4, <2>5, <2>6
<1>20. CASE RunHoldout
  <2>1. call'.step # "move"
    BY <1>20, AtFields DEF RunHoldout, Steps, Stages
  <2> QED BY <1>20, <1>c, <2>1 DEF RunHoldout, tables, controllerVars, phase
<1>21. CASE UNCHANGED vars
  <2>1. UNCHANGED <<baseline, results, accesses, review, rounds, call>> /\ phase' = phase
    BY <1>21 DEF vars, controllerVars, tables, phase
  <2> QED BY <2>1 DEF Backed, Evidence, Recorded
<1> QED BY <1>1, <1>2, <1>3, <1>4, <1>5, <1>6, <1>7, <1>8, <1>9, <1>10, <1>11,
           <1>12, <1>13, <1>14, <1>15, <1>16, <1>17, <1>18, <1>19, <1>20, <1>21
        DEF Next

\* The phase and the transition in progress have their evidence.
LEMMA PhaseCBacked == Spec => []Backed
<1>1. Init => Backed
  <2> SUFFICES ASSUME Init PROVE Backed
    OBVIOUS
  <2>1. phase = "BASELINE_BACKTEST" /\ call.step = "idle"
    BY IdleFields DEF Init, phase
  <2> QED BY <2>1, After DEF Backed, Evidence, Recorded
<1> QED BY <1>1, BackedStep, PhaseCTyped, PhaseCPlaced, PhaseCLocked, PTL DEF Spec

(* Whatever was retried or cut short, every phase of the research has      *)
(* behind it what the earlier phases had to find.                          *)
THEOREM PhaseCEvidenceBehindPhase == Spec => []EvidenceBehindPhase
<1>1. Backed => EvidenceBehindPhase
  BY DEF Backed, Evidence, EvidenceBehindPhase
<1> QED BY <1>1, PhaseCBacked, PTL

(* A strategy that ended without acceptance has its reason on record.      *)
THEOREM PhaseCVerdictOnRecord == Spec => []VerdictOnRecord
<1>1. Backed => VerdictOnRecord
  BY DEF Backed, Recorded, VerdictOnRecord
<1> QED BY <1>1, PhaseCBacked, PTL

-----------------------------------------------------------------------------
\* The frozen candidate

BeforeStages ==
    {"BASELINE_BACKTEST", "EDGE_GATE", "PARAMETER_RESEARCH", "CANDIDATE_FREEZE"}

StagePhases == {"WALK_FORWARD", "HOLDOUT", "STRESS_TESTS", "THROUGHPUT"}

\* From its freeze on the manifest is what the rounds select; before, no stage
\* has run, and the holdout opens only after the walk-forward.
Frozen ==
    /\ phase \in BeforeStages => \A s \in Stages : results[s].verdict = "NONE"
    /\ phase \in BeforeStages \cup {"WALK_FORWARD"} => accesses = 0
    /\ phase \in StagePhases \cup {"CANDIDATE_FREEZE"} => candidate = Selected
    /\ call.step = "move" /\ call.to = "CANDIDATE_FREEZE" => candidate = Selected
    /\ ValidatedAsFrozen

(* Rounds are only selected and frozen before any stage has run.           *)
LEMMA FrozenStep ==
    Typed /\ Placed /\ Frozen /\ [Next]_vars => Frozen'
<1> SUFFICES ASSUME Typed, Placed, Frozen, [Next]_vars PROVE Frozen'
  OBVIOUS
<1> USE DEF BeforeStages, StagePhases
<1>a. call \in CallRow /\ results \in [Stages -> Result] /\ TypeOK
  BY DEF Typed, TypeOK, CallRow
<1>b. ASSUME UNCHANGED <<results, accesses, candidate>>, phase' = phase,
             Selected' = Selected, call'.step = "move" => call'.to # "CANDIDATE_FREEZE"
      PROVE  Frozen'
  BY <1>b DEF Frozen, ValidatedAsFrozen
<1>c. rounds' = rounds => Selected' = Selected
  BY DEF Selected, FrozenFor
<1>1. CASE MoveOn
  <2>1. /\ phase' = call.to /\ call'.step # "move"
        /\ UNCHANGED <<results, accesses, candidate, rounds>>
        /\ MayFollow(phase, call.to) /\ call.step = "move"
    BY <1>1, <1>a, MoveFacts DEF MoveOn, CallRow, tables, Idle, Placed
  <2>2. call.to \in BeforeStages => phase \in BeforeStages
    BY <2>1 DEF MayFollow
  <2>3. call.to # "WALK_FORWARD"
    BY <2>1 DEF MayFollow
  <2>4. call.to \in StagePhases => phase \in StagePhases
    BY <2>1 DEF MayFollow
  <2> QED BY <1>c, <2>1, <2>2, <2>3, <2>4 DEF Frozen, ValidatedAsFrozen
<1>2. CASE FreezeFamilies
  BY <1>2, <1>b, <1>c, FreezeFacts, IdleFields DEF FreezeFamilies, tables
<1>3. CASE Abort
  BY <1>3, <1>b, <1>c, IdleFields DEF Abort, tables, controllerVars, phase
<1>4. CASE ReuseBaseline \/ SaveBaseline \/ EvaluateEdge
  <2>1. PICK to : ThenMove(to) /\ to # "CANDIDATE_FREEZE"
    BY <1>4 DEF ReuseBaseline, SaveBaseline, EvaluateEdge, EdgeVerdicts
  <2>2. call'.to # "CANDIDATE_FREEZE"
    BY <2>1 DEF ThenMove, Idle
  <2>3. UNCHANGED <<results, accesses, candidate, rounds>> /\ phase' = phase
    BY <1>4 DEF ReuseBaseline, SaveBaseline, EvaluateEdge, tables, controllerVars, phase
  <2> QED BY <1>b, <1>c, <2>2, <2>3
<1>5. CASE RunBaseline
  <2>1. UNCHANGED <<results, accesses, candidate, rounds>> /\ phase' = phase
    BY <1>5 DEF RunBaseline, Controller!RecordOutcome, tables, controllerVars, phase
  <2>2. call'.step = "baseline" \/ call'.to = "TECHNICAL_FAILURE"
    BY <1>5 DEF RunBaseline, ThenMove, Idle
  <2> QED BY <1>b, <1>c, <2>1, <2>2
<1>6. CASE Analyze
  <2>1. call'.step = "idle" /\ rounds' = rounds
    BY <1>6, IdleFields DEF Analyze, Begins
  <2> QED BY <1>6, <1>b, <1>c, <2>1 DEF Analyze, controllerVars, phase
<1>7. CASE ProposeRound
  <2>1. call'.step = "idle" /\ Selected' = Selected
    BY <1>7, <1>a, Proposed, IdleFields DEF ProposeRound
  <2> QED BY <1>7, <1>b, <2>1 DEF ProposeRound, controllerVars, phase
<1>8. CASE BeginRound
  <2>1. call'.step = "experiments" /\ UNCHANGED <<accesses, row>>
    BY <1>8, SpendFacts DEF BeginRound, Idle
  <2> QED BY <1>8, <1>b, <1>c, <2>1 DEF BeginRound, tables, phase
<1>9. CASE RunExperiment
  <2>1. call'.step = "experiments"
    BY <1>9, <1>a DEF RunExperiment, CallRow
  <2> QED BY <1>9, <1>b, <1>c, <2>1 DEF RunExperiment, tables, controllerVars, phase
<1>10. CASE ReviewRound \/ FreezeFamily
  <2>1. /\ phase = "PARAMETER_RESEARCH" /\ phase' = phase
        /\ UNCHANGED <<results, accesses, candidate>>
    BY <1>10 DEF ReviewRound, FreezeFamily, Placed, Begins, controllerVars, phase
  <2>2. call'.step = "move" => call'.to # "CANDIDATE_FREEZE"
    <3>1. \/ call' = Idle
          \/ \E to \in {"MANUAL_REVIEW_REQUIRED", "INSUFFICIENT_EVIDENCE"} : ThenMove(to)
      BY <1>10 DEF ReviewRound, FreezeFamily, Begins
    <3> QED BY <3>1, IdleFields DEF ThenMove, Idle
  <2> QED BY <2>1, <2>2 DEF Frozen, ValidatedAsFrozen
<1>11. CASE FreezeCandidate
  <2>1. /\ phase = "PARAMETER_RESEARCH" /\ phase' = phase
        /\ candidate' = Selected /\ UNCHANGED <<results, accesses, rounds>>
    BY <1>11 DEF FreezeCandidate, Begins, controllerVars, phase
  <2> QED BY <1>c, <2>1 DEF Frozen, ValidatedAsFrozen
<1>12. CASE EnterWalkForward
  <2>1. /\ phase = "CANDIDATE_FREEZE" /\ phase' = "WALK_FORWARD"
        /\ call'.step = "walk_forward"
        /\ UNCHANGED <<results, accesses, candidate, rounds>>
    BY <1>12, MoveFacts, Phases, AtFields
       DEF EnterWalkForward, Begins, Steps, Stages, tables
  <2> QED BY <1>c, <2>1 DEF Frozen, ValidatedAsFrozen
<1>13. CASE EnterHoldout
  <2>1. /\ phase = "HOLDOUT" /\ phase' = phase /\ call'.step = "opened"
        /\ UNCHANGED <<results, candidate, rounds>>
    BY <1>13, OpenFacts, AtFields DEF EnterHoldout, Begins, Steps, Stages, tables
  <2> QED BY <1>c, <2>1 DEF Frozen, ValidatedAsFrozen
<1>14. CASE EnterStress \/ EnterThroughput
  <2>1. call'.step # "move"
    BY <1>14, AtFields DEF EnterStress, EnterThroughput, Steps, Stages
  <2> QED BY <1>14, <1>b, <1>c, <2>1
          DEF EnterStress, EnterThroughput, tables, controllerVars, phase
<1>15. CASE SaveResult
  <2>1. PICK verdict \in StageVerdicts[call.step] :
          /\ results' = [results EXCEPT ![call.step] =
                           [verdict |-> verdict, parameters |-> Selected]]
          /\ ThenMove(PhaseAfter(call.step, verdict))
    BY <1>15 DEF SaveResult
  <2>2. /\ call.step \in Stages /\ phase \in StagePhases /\ phase' = phase
        /\ UNCHANGED <<accesses, candidate, rounds>>
    BY <1>15 DEF SaveResult, Stages, Placed, controllerVars, phase
  <2>3. /\ results'[call.step].parameters = Selected
        /\ \A s \in Stages \ {call.step} : results'[s] = results[s]
    BY <1>a, <2>1, <2>2
  <2>4. call'.to # "CANDIDATE_FREEZE"
    <3>1. PhaseAfter(call.step, verdict) # "CANDIDATE_FREEZE"
      BY DEF PhaseAfter
    <3> QED BY <2>1, <3>1 DEF ThenMove, Idle
  <2>5. candidate = Selected
    BY <2>2 DEF Frozen
  <2> QED BY <1>c, <2>2, <2>3, <2>4, <2>5 DEF Frozen, ValidatedAsFrozen
<1>16. CASE FinalReview
  <2>1. call'.to # "CANDIDATE_FREEZE"
    <3>1. PhaseOfClass(Classification) # "CANDIDATE_FREEZE"
      BY DEF PhaseOfClass
    <3> QED BY <1>16, <3>1 DEF FinalReview, ThenMove, Idle
  <2> QED BY <1>16, <1>b, <1>c, <2>1 DEF FinalReview, controllerVars, phase
<1>17. CASE RunHoldout
  <2>1. call'.step # "move"
    BY <1>17, AtFields DEF RunHoldout, Steps, Stages
  <2> QED BY <1>17, <1>b, <1>c, <2>1 DEF RunHoldout, tables, controllerVars, phase
<1>18. CASE UNCHANGED vars
  <2>1. UNCHANGED <<results, accesses, candidate, rounds, call>> /\ phase' = phase
    BY <1>18 DEF vars, controllerVars, tables, phase
  <2> QED BY <1>c, <2>1 DEF Frozen, ValidatedAsFrozen
<1> QED BY <1>1, <1>2, <1>3, <1>4, <1>5, <1>6, <1>7, <1>8, <1>9, <1>10, <1>11,
           <1>12, <1>13, <1>14, <1>15, <1>16, <1>17, <1>18 DEF Next

\* The candidate is frozen while it is tested.
LEMMA PhaseCFrozen == Spec => []Frozen
<1>1. Init => Frozen
  <2> SUFFICES ASSUME Init PROVE Frozen
    OBVIOUS
  <2>1. phase = "BASELINE_BACKTEST" /\ call.step = "idle" /\ accesses = 0
    BY IdleFields DEF Init, phase
  <2>2. \A s \in Stages : results[s].verdict = "NONE"
    BY DEF Init, NotRun
  <2> QED BY <2>1, <2>2
          DEF Frozen, ValidatedAsFrozen, BeforeStages, StagePhases
<1> QED BY <1>1, FrozenStep, PhaseCTyped, PhaseCPlaced, PTL DEF Spec

(* Every result of a stage is about the candidate of the saved manifest,   *)
(* although each stage derives its parameters from the rounds anew.        *)
THEOREM PhaseCValidatedAsFrozen == Spec => []ValidatedAsFrozen
<1>1. Frozen => ValidatedAsFrozen
  BY DEF Frozen
<1> QED BY <1>1, PhaseCFrozen, PTL

\* The selection, and what it is made of, as they are.
Settled ==
    /\ ran' = ran /\ candidate' = candidate /\ Selected' = Selected
    /\ \A k \in DOMAIN rounds : rounds'[k] = rounds[k]

(* Whatever changes the selection happens in a phase in which the holdout  *)
(* has not been accessed.                                                  *)
LEMMA ResearchStep ==
    Typed /\ Placed /\ Frozen /\ [Next]_vars => accesses = 0 \/ Settled
<1> SUFFICES ASSUME Typed, Placed, Frozen, [Next]_vars, accesses # 0
             PROVE  Settled
  OBVIOUS
<1>1. phase # "PARAMETER_RESEARCH"
  BY DEF Frozen, BeforeStages
<1>2. ~RunExperiment /\ ~ReviewRound
  BY <1>1 DEF RunExperiment, ReviewRound, Placed
<1>3. ~FreezeFamily /\ ~FreezeCandidate /\ ~BeginRound
  BY <1>1 DEF FreezeFamily, FreezeCandidate, BeginRound, Begins
<1>4. UNCHANGED <<ran, candidate, rounds>> => Settled
  BY DEF Settled, Selected, FrozenFor
<1>5. CASE ProposeRound
  BY <1>5, Proposed DEF ProposeRound, history, Settled, Typed
<1>6. CASE MoveOn \/ FreezeFamilies \/ Abort
  BY <1>4, <1>6 DEF MoveOn, FreezeFamilies, Abort, tables, history
<1>7. CASE ReuseBaseline \/ RunBaseline \/ SaveBaseline \/ EvaluateEdge \/ Analyze
  BY <1>4, <1>7 DEF ReuseBaseline, RunBaseline, SaveBaseline, EvaluateEdge, Analyze,
                    tables, history
<1>8. CASE EnterWalkForward \/ EnterHoldout \/ EnterStress \/ EnterThroughput
  BY <1>4, <1>8 DEF EnterWalkForward, EnterHoldout, EnterStress, EnterThroughput,
                    tables, history
<1>9. CASE RunHoldout \/ SaveResult \/ FinalReview
  BY <1>4, <1>9 DEF RunHoldout, SaveResult, FinalReview, tables, history
<1>10. CASE UNCHANGED vars
  BY <1>4, <1>10 DEF vars, tables, history
<1> QED BY <1>2, <1>3, <1>5, <1>6, <1>7, <1>8, <1>9, <1>10 DEF Next

(* Once the holdout is open, nothing it shows can change the selection: no *)
(* experiment runs, no round is reviewed or frozen, no candidate is saved. *)
THEOREM PhaseCHoldoutEndsResearch == Spec => HoldoutEndsResearch
<1> DEFINE Step == accesses > 0 =>
             /\ ran' = ran /\ candidate' = candidate /\ Selected' = Selected
             /\ \A k \in DOMAIN rounds : rounds'[k] = rounds[k]
<1>1. Typed /\ Placed /\ Frozen /\ [Next]_vars => [Step]_vars
  <2>1. accesses = 0 => ~(accesses > 0)
    OBVIOUS
  <2> QED BY <2>1, ResearchStep DEF Settled
<1> HIDE DEF Step
<1>2. Spec => [][Step]_vars
  BY <1>1, PhaseCTyped, PhaseCPlaced, PhaseCFrozen, PTL DEF Spec
<1> QED BY <1>2 DEF Step, HoldoutEndsResearch
=============================================================================
