-------------------------- MODULE ControllerProofs --------------------------
(***************************************************************************)
(* What stays true of a strategy however many processes drive it: first    *)
(* the type invariant, then the safety that needs no mutual exclusion;     *)
(* and what one process at a time keeps besides.                           *)
(***************************************************************************)
EXTENDS PipelineController, BudgetLedger

CallTypes == pc \in [Procs -> Steps] /\ call \in [Procs -> Calls]

\* A fresh budget row has the shape of a usage.
LEMMA ZeroUsageTyped == ZeroUsage \in BudgetUsage
BY BudgetAssumption DEF ZeroUsage, BudgetUsage

\* An idle process remembers a well-formed call.
LEMMA NoCallTyped == NoCall \in Calls
BY ZeroUsageTyped DEF NoCall, Calls, PipelineState, WorkingStates

(* A process that starts, moves on or returns remembers a call of the      *)
(* right shape and stands at a step of the code.                           *)
LEMMA StartTyped ==
    ASSUME TypeOK, NEW p \in Procs, NEW op, NEW step \in Steps,
           NEW to \in PipelineState,
           op \in {"none", "submit", "approve", "transition", "verify",
                   "consume", "split", "holdout"},
           Start(p, op, step, to)
    PROVE  CallTypes'
<1>1. /\ row.current_phase \in PipelineState
      /\ row.parameters_frozen \in BOOLEAN
  BY DEF TypeOK, StrategyRow
<1>2. [NoCall EXCEPT !.op = op, !.to = to, !.phase = row.current_phase,
                     !.frozen = row.parameters_frozen] \in Calls
  BY <1>1, NoCallTyped DEF Calls
<1> QED BY <1>2 DEF Start, CallTypes, TypeOK

\* Returning keeps program counters and calls typed.
LEMMA ReturnTyped ==
    ASSUME TypeOK, NEW p \in Procs, Return(p)
    PROVE  CallTypes'
BY NoCallTyped DEF Return, CallTypes, TypeOK, Steps

\* So does going on to another step.
LEMMA GotoTyped ==
    ASSUME TypeOK, NEW p \in Procs, NEW step \in Steps, Goto(p, step)
    PROVE  CallTypes'
BY DEF Goto, CallTypes, TypeOK

\* So does a check.
LEMMA CheckThenTyped ==
    ASSUME TypeOK, NEW p \in Procs, NEW here, NEW admitted,
           NEW step \in Steps, CheckThen(p, here, admitted, step)
    PROVE  TypeOK'
<1>1. CallTypes'
  <2>1. Goto(p, step) \/ Return(p)
    BY DEF CheckThen
  <2> QED BY <2>1, GotoTyped, ReturnTyped
<1> QED BY <1>1 DEF CheckThen, CallTypes, TypeOK, db

(* The type invariant of PipelineController, for every number of processes *)
(* and every budget.                                                       *)
LEMMA TypeStep == TypeOK /\ [Next]_vars => TypeOK'
<1> SUFFICES ASSUME TypeOK, [Next]_vars PROVE TypeOK'
  OBVIOUS
<1> USE ControllerAssumption
<1>0. CASE UNCHANGED vars
  BY <1>0 DEF vars, db, TypeOK
<1>q. ASSUME NEW p \in Procs, Step(p) PROVE TypeOK'
  <2> DEFINE c == call[p]
  <2>c. c \in Calls /\ pc[p] \in Steps
    BY DEF TypeOK
  <2>1. CASE SelectPhase(p)
    BY <2>1, CheckThenTyped DEF SelectPhase, Steps
  <2>2. CASE WritePhase(p)
    <3>1. c.to \in PipelineState /\ c.phase \in PipelineState
      BY <2>c DEF Calls
    <3>2. CallTypes'
      <4>1. AfterTransition(c) \in Steps
        BY DEF AfterTransition, Steps
      <4> QED BY <2>2, <4>1, GotoTyped, ReturnTyped DEF WritePhase
    <3>3. row' \in StrategyRow
      BY <2>2, <3>1 DEF WritePhase, TypeOK, StrategyRow
    <3> QED BY <2>2, <3>1, <3>2, <3>3 DEF WritePhase, CallTypes, TypeOK
  <2>3. CASE Submit(p)
    BY <2>3, StartTyped
       DEF Submit, Steps, PipelineState, WorkingStates, TypeOK, CallTypes,
           Start, db
  <2>4. CASE SelectApproval(p)
    BY <2>4, CheckThenTyped DEF SelectApproval, Steps
  <2>5. CASE WriteApproval(p)
    <3>1. row' \in StrategyRow
      BY <2>5 DEF WriteApproval, TypeOK, StrategyRow, ApprovalStatus
    <3> QED BY <2>5, <3>1, ReturnTyped DEF WriteApproval, CallTypes, TypeOK
  <2>6. CASE Approve(p)
    BY <2>6, StartTyped
       DEF Approve, Steps, PipelineState, WorkingStates, TypeOK, CallTypes,
           Start, db
  <2>7. CASE SelectApproved(p)
    BY <2>7, CheckThenTyped DEF SelectApproved, Steps
  <2>8. CASE WriteApproved(p)
    <3>1. row' \in StrategyRow
      BY <2>8 DEF WriteApproved, TypeOK, StrategyRow, ApprovalStatus
    <3>2. CallTypes'
      BY <2>8, GotoTyped DEF WriteApproved, Steps
    <3> QED BY <2>8, <3>1, <3>2 DEF WriteApproved, CallTypes, TypeOK
  <2>9. CASE \E to \in Targets : Transition(p, to)
    <3>1. PICK to \in Targets : Transition(p, to)
      BY <2>9
    <3> QED BY <3>1, StartTyped
            DEF Transition, Steps, TypeOK, CallTypes, Start, db
  <2>10. CASE Guard(p)
    BY <2>10, CheckThenTyped DEF Guard, Steps
  <2>11. CASE Freeze(p)
    <3>1. row' \in StrategyRow
      BY <2>11 DEF Freeze, TypeOK, StrategyRow
    <3> QED BY <2>11, <3>1, ReturnTyped DEF Freeze, CallTypes, TypeOK
  <2>12. CASE Verify(p)
    <3>1. PICK step \in {"enter", "verify"} :
            Start(p, "verify", step, "TECHNICAL_INTEGRITY_VERIFICATION")
      BY <2>12 DEF Verify
    <3>2. /\ step \in Steps
          /\ "TECHNICAL_INTEGRITY_VERIFICATION" \in PipelineState
      BY DEF Steps, PipelineState, WorkingStates
    <3>3. CallTypes'
      BY <3>1, <3>2, StartTyped
    <3> QED BY <3>1, <3>3 DEF TypeOK, CallTypes, Start, db
  <2>13. CASE \E outcome \in Outcomes : RecordOutcome(p, outcome)
    <3>1. PICK outcome \in Outcomes : RecordOutcome(p, outcome)
      BY <2>13
    <3>2. outcome \in VerificationOutcome
      OBVIOUS
    <3>3. NextState(outcome) \in PipelineState
      BY <3>2 DEF VerificationOutcome, NextState, PipelineState,
                  WorkingStates, TerminalStates
    <3>4. [c EXCEPT !.to = NextState(outcome)] \in Calls
      BY <2>c, <3>3 DEF Calls
    <3>5. CallTypes'
      BY <3>1, <3>4 DEF RecordOutcome, CallTypes, TypeOK, Steps
    <3> QED BY <3>1, <3>2, <3>5 DEF RecordOutcome, CallTypes, TypeOK
  <2>25. CASE Enter(p)
    <3>1. /\ row.current_phase \in PipelineState
          /\ row.parameters_frozen \in BOOLEAN
      BY DEF TypeOK, StrategyRow
    <3>2. [c EXCEPT !.phase = row.current_phase,
                    !.frozen = row.parameters_frozen] \in Calls
      BY <2>c, <3>1 DEF Calls
    <3>3. CallTypes'
      BY <2>25, <3>2 DEF Enter, CallTypes, TypeOK, Steps
    <3> QED BY <2>25, <3>3 DEF Enter, CallTypes, TypeOK, db
  <2>26. CASE KnownRun(p)
    BY <2>26, ReturnTyped DEF KnownRun, CallTypes, TypeOK, db
  <2>27. CASE ActOnOutcome(p)
    BY <2>27, CheckThenTyped DEF ActOnOutcome, Steps
  <2>14. CASE Consume(p)
    <3>1. row.current_phase \in PipelineState
      BY DEF TypeOK, StrategyRow
    <3>2. CallTypes'
      BY <2>14, <3>1, StartTyped DEF Consume, Steps
    <3> QED BY <2>14, <3>2 DEF Consume, TypeOK, CallTypes, Start, db
  <2>15. CASE WriteBudget(p)
    <3>1. c.usage \in BudgetUsage /\ c.spend \in Nat
      BY <2>c DEF Calls
    <3>2. usage' \in BudgetUsage /\ consumed' \in Nat
      <4>1. consumed \in Nat
        BY DEF TypeOK
      <4>2. usage' = c.usage /\ consumed' = consumed + c.spend
        BY <2>15 DEF WriteBudget
      <4> QED BY <3>1, <4>1, <4>2
    <3>3. CallTypes'
      BY <2>15, ReturnTyped DEF WriteBudget
    <3> QED BY <2>15, <3>2, <3>3 DEF WriteBudget, CallTypes, TypeOK
  <2>16. CASE \E r \in Requests : ReadBudget(p, r)
    <3>1. PICK r \in Requests : ReadBudget(p, r)
      BY <2>16
    <3>2. CASE Return(p)
      BY <3>1, <3>2, ReturnTyped DEF ReadBudget, CallTypes, TypeOK, db
    <3>3. CASE ~Return(p)
      <4>1. Admits(usage, r) /\ r \in BudgetRequest /\ usage \in BudgetUsage
        BY <3>1, <3>3 DEF ReadBudget, TypeOK
      <4>2. Charge(usage, r) \in BudgetUsage
        BY <4>1, ChargeTyped
      <4>3. r.backtests \in Nat
        BY <4>1 DEF Admits, NonNegative, BudgetRequest
      <4>4. /\ pc' = [pc EXCEPT ![p] = "write_budget"]
            /\ call' = [call EXCEPT ![p] =
                          [c EXCEPT !.usage = Charge(usage, r),
                                    !.spend = r.backtests]]
        BY <3>1, <3>3 DEF ReadBudget
      <4>5. [c EXCEPT !.usage = Charge(usage, r), !.spend = r.backtests]
              \in Calls
        BY <2>c, <4>2, <4>3 DEF Calls
      <4>6. CallTypes'
        BY <4>4, <4>5 DEF CallTypes, TypeOK, Steps
      <4> QED BY <3>1, <4>6 DEF ReadBudget, CallTypes, TypeOK, db
    <3> QED BY <3>2, <3>3
  <2>17. CASE \E h \in SplitHashes : CreateSplit(p, h)
    <3>1. PICK h \in SplitHashes : CreateSplit(p, h)
      BY <2>17
    <3>2. [NoCall EXCEPT !.op = "split", !.hash = h] \in Calls
      BY NoCallTyped DEF Calls
    <3>3. CallTypes'
      BY <3>1, <3>2 DEF CreateSplit, CallTypes, TypeOK, Steps
    <3> QED BY <3>1, <3>3 DEF CreateSplit, CallTypes, TypeOK, db
  <2>18. CASE SelectSplit(p)
    BY <2>18, CheckThenTyped DEF SelectSplit, Steps
  <2>19. CASE InsertSplit(p)
    <3>1. c.hash \in SplitHashes \cup {NoSplit}
      BY <2>c DEF Calls
    <3>2. split' \in SplitRow
      BY <2>19, <3>1 DEF InsertSplit, SplitRow, TypeOK
    <3> QED BY <2>19, <3>2, ReturnTyped DEF InsertSplit, CallTypes, TypeOK
  <2>20. CASE InvalidateSplit(p)
    <3>1. split' \in SplitRow
      BY <2>20 DEF InvalidateSplit, SplitRow, TypeOK
    <3> QED BY <2>20, <3>1 DEF InvalidateSplit, TypeOK
  <2>21. CASE OpenHoldout(p)
    BY <2>21, StartTyped
       DEF OpenHoldout, Steps, PipelineState, WorkingStates, TypeOK,
           CallTypes, Start, db
  <2>22. CASE ReadAccesses(p)
    BY <2>22, CheckThenTyped DEF ReadAccesses, Steps
  <2>23. CASE WriteAccess(p)
    <3>1. row' \in StrategyRow
      BY <2>23 DEF WriteAccess, TypeOK, StrategyRow
    <3>2. usage' \in BudgetUsage
      <4>1. usage.holdout_accesses + 1 \in Nat
        BY DEF TypeOK, BudgetUsage
      <4> QED BY <2>23, <4>1, ZenonT(30) DEF WriteAccess, TypeOK, BudgetUsage
    <3>3. accesses' \in Nat
      <4>1. accesses \in Nat
        BY DEF TypeOK
      <4>2. accesses' = accesses + 1
        BY <2>23 DEF WriteAccess
      <4> QED BY <4>1, <4>2
    <3>4. CallTypes'
      BY <2>23, ReturnTyped DEF WriteAccess
    <3> QED BY <2>23, <3>1, <3>2, <3>3, <3>4
            DEF WriteAccess, CallTypes, TypeOK
  <2>24. CASE Crash(p)
    BY <2>24, ReturnTyped DEF Crash, CallTypes, TypeOK, db
  <2> QED BY <1>q, <2>1, <2>2, <2>3, <2>4, <2>5, <2>6, <2>7, <2>8, <2>9,
             <2>10, <2>11, <2>12, <2>13, <2>14, <2>15, <2>16, <2>17, <2>18,
             <2>19, <2>20, <2>21, <2>22, <2>23, <2>24, <2>25, <2>26,
             <2>27 DEF Step
<1> QED BY <1>0, <1>q DEF Next

\* A freshly registered strategy is typed.
LEMMA InitTyped == Init => TypeOK
<1> SUFFICES ASSUME Init PROVE TypeOK
  OBVIOUS
<1>1. row \in StrategyRow
  BY DEF Init, StrategyRow, ApprovalStatus, PipelineState, WorkingStates
<1>2. split \in SplitRow
  BY DEF Init, SplitRow
<1>3. journal \in PipelineState \X PipelineState
  BY DEF Init, PipelineState, WorkingStates
<1>4. pc \in [Procs -> Steps] /\ call \in [Procs -> Calls]
  BY NoCallTyped DEF Init, Steps
<1> QED BY <1>1, <1>2, <1>3, <1>4, ZeroUsageTyped DEF Init, TypeOK

(* No interleaving of the controller's operations breaks the shape of the  *)
(* registry or of what a process remembers.                                *)
THEOREM ControllerTyped == Spec => []TypeOK
BY InitTyped, TypeStep, PTL DEF Spec

-----------------------------------------------------------------------------
\* Safety that holds however the processes interleave

(* A process on its way to a phase change carries a legal move, and one    *)
(* into baseline research was allowed to make it.                          *)
MoveReady(p) ==
    pc[p] \in {"select_approved", "write_approved", "select_phase",
               "write_phase"} =>
      /\ Legal(call[p].phase, call[p].to)
      /\ call[p].to = "BASELINE_BACKTEST" => verified \/ PhaseA

(* A process about to store a usage carries one within the limits that     *)
(* shows no more holdout accesses than were audited.                       *)
BudgetReady(p) ==
    pc[p] = "write_budget" =>
      /\ WithinLimits(call[p].usage)
      /\ call[p].usage.holdout_accesses <= accesses

(* Only a split that was defined is ever invalidated.                      *)
SplitDefined == split.invalidated => split.hash # NoSplit

(* The inductive invariant: what the registry shows, and what each process *)
(* carries that it may yet write there, however stale it is by then.       *)
RaceInv ==
    /\ TypeOK
    /\ SplitDefined
    /\ UsageWithinLimits
    /\ HoldoutEvidence
    /\ \A p \in Procs : MoveReady(p) /\ BudgetReady(p)

\* A process that returned has nothing left to be ready for.
LEMMA ReturnReady ==
    ASSUME TypeOK, NEW p \in Procs, Return(p)
    PROVE  (MoveReady(p) /\ BudgetReady(p))'
<1>1. pc'[p] = "idle"
  BY DEF Return, TypeOK
<1> QED BY <1>1 DEF MoveReady, BudgetReady

(* A process is ready wherever it was only sent from where it was ready.   *)
LEMMA CheckThenReady ==
    ASSUME TypeOK, NEW p \in Procs, NEW here, NEW admitted,
           NEW step \in Steps, CheckThen(p, here, admitted, step),
           step \in {"select_approved", "select_phase", "write_phase",
                     "write_approved"} =>
             /\ Legal(call[p].phase, call[p].to)
             /\ call[p].to = "BASELINE_BACKTEST" => verified \/ PhaseA,
           step # "write_budget"
    PROVE  (MoveReady(p) /\ BudgetReady(p))'
<1>1. CASE Return(p)
  BY <1>1, ReturnReady
<1>2. CASE Goto(p, step)
  <2>1. pc'[p] = step /\ call'[p] = call[p] /\ verified' = verified
    BY <1>2 DEF Goto, TypeOK, CheckThen, db
  <2> QED BY <2>1 DEF MoveReady, BudgetReady
<1> QED BY <1>1, <1>2 DEF CheckThen

(* A process that starts has nothing to store, and a legal move if it goes *)
(* straight to one.                                                        *)
LEMMA StartReady ==
    ASSUME TypeOK, NEW p \in Procs, NEW op, NEW step \in Steps,
           NEW to \in PipelineState, Start(p, op, step, to),
           step \in {"select_phase", "select_approved"} =>
             Legal(row.current_phase, to) /\ to # "BASELINE_BACKTEST",
           step \notin {"write_phase", "write_approved", "write_budget"}
    PROVE  (MoveReady(p) /\ BudgetReady(p))'
<1>1. /\ pc'[p] = step
      /\ call'[p].phase = row.current_phase
      /\ call'[p].to = to
  BY DEF Start, TypeOK, NoCall
<1> QED BY <1>1 DEF MoveReady, BudgetReady

(* No step of a process touches what another one remembers.                *)
LEMMA OthersKeep ==
    ASSUME TypeOK, NEW p \in Procs, Step(p), NEW q \in Procs, q # p
    PROVE  pc'[q] = pc[q] /\ call'[q] = call[q]
BY DEF Step, SelectPhase, WritePhase, Submit, SelectApproval, WriteApproval,
       Approve, SelectApproved, WriteApproved, Transition, Guard, Freeze,
       Verify, RecordOutcome, NextState,
       Enter, KnownRun, ActOnOutcome, Consume, WriteBudget, ReadBudget,
       CreateSplit,
       SelectSplit, InsertSplit, InvalidateSplit, OpenHoldout, ReadAccesses,
       WriteAccess, Crash, Start, Goto, Return, CheckThen, TypeOK

(* What the registry's counters do in one step: audit rows only grow, a    *)
(* recorded verification stays.                                            *)
LEMMA RegistryGrows ==
    ASSUME TypeOK, NEW p \in Procs, Step(p)
    PROVE  accesses' \in Nat /\ accesses <= accesses'
           /\ (verified => verified')
<1>1. CASE WriteAccess(p)
  <2>1. accesses \in Nat /\ accesses' = accesses + 1 /\ verified' = verified
    BY <1>1 DEF WriteAccess, TypeOK
  <2> QED BY <2>1
<1>2. CASE ~WriteAccess(p)
  <2>1. accesses' = accesses /\ (verified => verified')
    <3>1. CASE \E outcome \in Outcomes : RecordOutcome(p, outcome)
      BY <3>1, Zenon DEF RecordOutcome
    <3>2. CASE ~\E outcome \in Outcomes : RecordOutcome(p, outcome)
      <4>1. accesses' = accesses /\ verified' = verified
        BY <1>2, <3>2
           DEF Step, SelectPhase, WritePhase, Submit, SelectApproval,
               WriteApproval, Approve, SelectApproved, WriteApproved,
               Transition, Guard, Freeze, Verify, Enter, KnownRun,
               ActOnOutcome, Consume, WriteBudget, ReadBudget, CreateSplit,
               SelectSplit, InsertSplit, InvalidateSplit, OpenHoldout,
               ReadAccesses, Crash, Start, CheckThen, db
      <4> QED BY <4>1
    <3> QED BY <3>1, <3>2
  <2>2. accesses \in Nat
    BY DEF TypeOK
  <2> QED BY <2>1, <2>2
<1> QED BY <1>1, <1>2

(* The process that steps is ready afterwards.                             *)
LEMMA SelfReady ==
    ASSUME RaceInv, NEW p \in Procs, Step(p)
    PROVE  (MoveReady(p) /\ BudgetReady(p))'
<1> USE ControllerAssumption
<1> DEFINE c == call[p]
<1>t. TypeOK /\ MoveReady(p) /\ BudgetReady(p) /\ c \in Calls
  BY DEF RaceInv, TypeOK
<1>1. CASE SelectPhase(p)
  <2>1. Legal(c.phase, c.to)
        /\ (c.to = "BASELINE_BACKTEST" => verified \/ PhaseA)
    BY <1>1, <1>t DEF SelectPhase, CheckThen, MoveReady
  <2> QED BY <1>1, <1>t, <2>1, CheckThenReady DEF SelectPhase, Steps
<1>2. CASE WritePhase(p)
  <2>1. CASE Return(p)
    BY <1>t, <2>1, ReturnReady
  <2>2. CASE Goto(p, AfterTransition(c))
    <3>1. pc'[p] = AfterTransition(c)
      BY <1>t, <2>2 DEF Goto, TypeOK
    <3> QED BY <3>1 DEF AfterTransition, MoveReady, BudgetReady
  <2> QED BY <1>2, <2>1, <2>2 DEF WritePhase
<1>3. CASE Submit(p)
  <2>1. Legal(row.current_phase, "WAITING_FOR_SPEC_APPROVAL")
    BY <1>3 DEF Submit
  <2> QED BY <1>3, <1>t, <2>1, StartReady
          DEF Submit, Steps, PipelineState, WorkingStates
<1>4. CASE SelectApproval(p)
  BY <1>4, <1>t, CheckThenReady DEF SelectApproval, Steps
<1>5. CASE WriteApproval(p)
  BY <1>5, <1>t, ReturnReady DEF WriteApproval
<1>6. CASE Approve(p)
  <2>1. Legal(row.current_phase, "IMPLEMENTATION")
    <3>1. row.current_phase = "WAITING_FOR_SPEC_APPROVAL"
      BY <1>6 DEF Approve
    <3>2. LegalTransitions["WAITING_FOR_SPEC_APPROVAL"] =
            {"IMPLEMENTATION", "REJECTED", "MANUAL_REVIEW_REQUIRED"}
      BY DEF LegalTransitions, PipelineState, WorkingStates
    <3> QED BY <3>1, <3>2 DEF Legal
  <2> QED BY <1>6, <1>t, <2>1, StartReady
          DEF Approve, Steps, PipelineState, WorkingStates
<1>7. CASE SelectApproved(p)
  <2>1. Legal(c.phase, c.to)
        /\ (c.to = "BASELINE_BACKTEST" => verified \/ PhaseA)
    BY <1>7, <1>t DEF SelectApproved, CheckThen, MoveReady
  <2> QED BY <1>7, <1>t, <2>1, CheckThenReady DEF SelectApproved, Steps
<1>8. CASE WriteApproved(p)
  <2>1. Legal(c.phase, c.to)
        /\ (c.to = "BASELINE_BACKTEST" => verified \/ PhaseA)
    BY <1>8, <1>t DEF WriteApproved, MoveReady
  <2>2. /\ pc'[p] = "select_phase" /\ call'[p] = c
        /\ verified' = verified
    BY <1>8, <1>t DEF WriteApproved, Goto, TypeOK
  <2> QED BY <2>1, <2>2 DEF MoveReady, BudgetReady
<1>9. CASE \E to \in Targets : Transition(p, to)
  <2>1. PICK to \in Targets : Transition(p, to)
    BY <1>9
  <2> QED BY <1>t, <2>1, StartReady DEF Transition, Steps
<1>10. CASE Guard(p)
  <2>1. ASSUME MayTransition(c)
        PROVE  c.to = "BASELINE_BACKTEST" => verified \/ PhaseA
    <3>1. c.phase \in PipelineState /\ Legal(c.phase, c.to)
      BY <1>t, <2>1 DEF Calls, MayTransition
    <3>2. c.to = "BASELINE_BACKTEST" =>
            c.phase \in {"TECHNICAL_INTEGRITY_VERIFICATION",
                         "IMPLEMENTATION_VERIFICATION"}
      BY <3>1 DEF Legal, LegalTransitions, PipelineState, WorkingStates,
                  TerminalStates, Verdicts, Breakdowns
    <3> QED BY <2>1, <3>2 DEF MayTransition
  <2>2. CASE MayTransition(c)
    BY <1>10, <1>t, <2>1, <2>2, CheckThenReady DEF Guard, Steps, MayTransition
  <2>3. CASE ~MayTransition(c)
    BY <1>10, <1>t, <2>3, ReturnReady DEF Guard, CheckThen
  <2> QED BY <2>2, <2>3
<1>11. CASE Freeze(p)
  BY <1>11, <1>t, ReturnReady DEF Freeze
<1>12. CASE Verify(p)
  <2>1. pc'[p] \in {"enter", "verify"}
    BY <1>12, <1>t DEF Verify, Start, TypeOK
  <2> QED BY <2>1 DEF MoveReady, BudgetReady
<1>13. CASE \E outcome \in Outcomes : RecordOutcome(p, outcome)
  <2>1. pc'[p] = "act_on_outcome"
    BY <1>13, <1>t DEF RecordOutcome, TypeOK
  <2> QED BY <2>1 DEF MoveReady, BudgetReady
<1>25. CASE Enter(p)
  <2>1. pc'[p] = "guard"
    BY <1>25, <1>t DEF Enter, TypeOK
  <2> QED BY <2>1 DEF MoveReady, BudgetReady
<1>26. CASE KnownRun(p)
  BY <1>26, <1>t, ReturnReady DEF KnownRun
<1>27. CASE ActOnOutcome(p)
  BY <1>27, <1>t, CheckThenReady DEF ActOnOutcome, Steps
<1>14. CASE Consume(p)
  BY <1>14, <1>t, StartReady DEF Consume, Steps, TypeOK, StrategyRow
<1>15. CASE WriteBudget(p)
  BY <1>15, <1>t, ReturnReady DEF WriteBudget
<1>16. CASE \E r \in Requests : ReadBudget(p, r)
  <2>1. PICK r \in Requests : ReadBudget(p, r)
    BY <1>16
  <2>2. CASE Return(p)
    BY <1>t, <2>2, ReturnReady
  <2>3. CASE ~Return(p)
    <3>1. Admits(usage, r) /\ r \in BudgetRequest /\ usage \in BudgetUsage
      BY <1>t, <2>1, <2>3 DEF ReadBudget, TypeOK
    <3>2. WithinLimits(Charge(usage, r))
      BY <3>1, ChargeWithinLimits DEF RaceInv, UsageWithinLimits
    <3>3. Charge(usage, r).holdout_accesses <= accesses
      BY <3>1, ChargeKeepsHoldout DEF RaceInv, HoldoutEvidence
    <3>4. /\ pc'[p] = "write_budget"
          /\ call'[p] = [c EXCEPT !.usage = Charge(usage, r),
                                  !.spend = r.backtests]
          /\ accesses' = accesses
      BY <1>t, <2>1, <2>3 DEF ReadBudget, TypeOK, db
    <3>5. call'[p].usage = Charge(usage, r)
      BY <1>t, <3>4 DEF Calls
    <3> QED BY <3>2, <3>3, <3>4, <3>5 DEF MoveReady, BudgetReady
  <2> QED BY <2>2, <2>3
<1>17. CASE \E h \in SplitHashes : CreateSplit(p, h)
  <2>1. pc'[p] = "select_split"
    BY <1>17, <1>t DEF CreateSplit, TypeOK
  <2> QED BY <2>1 DEF MoveReady, BudgetReady
<1>18. CASE SelectSplit(p)
  BY <1>18, <1>t, CheckThenReady DEF SelectSplit, Steps
<1>19. CASE InsertSplit(p)
  BY <1>19, <1>t, ReturnReady DEF InsertSplit
<1>20. CASE InvalidateSplit(p)
  BY <1>20, <1>t DEF InvalidateSplit, MoveReady, BudgetReady
<1>21. CASE OpenHoldout(p)
  BY <1>21, <1>t, StartReady
     DEF OpenHoldout, Steps, PipelineState, WorkingStates
<1>22. CASE ReadAccesses(p)
  BY <1>22, <1>t, CheckThenReady DEF ReadAccesses, Steps
<1>23. CASE WriteAccess(p)
  BY <1>23, <1>t, ReturnReady DEF WriteAccess
<1>24. CASE Crash(p)
  BY <1>24, <1>t, ReturnReady DEF Crash
<1> QED BY <1>1, <1>2, <1>3, <1>4, <1>5, <1>6, <1>7, <1>8, <1>9, <1>10,
           <1>11, <1>12, <1>13, <1>14, <1>15, <1>16, <1>17, <1>18, <1>19,
           <1>20, <1>21, <1>22, <1>23, <1>24, <1>25, <1>26, <1>27
       DEF Step

(* The registry keeps its limits and its holdout evidence.                 *)
LEMMA RegistrySafe ==
    ASSUME RaceInv, NEW p \in Procs, Step(p)
    PROVE  (UsageWithinLimits /\ HoldoutEvidence)'
<1>t. /\ TypeOK /\ WithinLimits(usage) /\ HoldoutEvidence /\ BudgetReady(p)
      /\ accesses \in Nat /\ usage \in BudgetUsage
      /\ usage.holdout_accesses \in Nat /\ row \in StrategyRow
  BY DEF RaceInv, TypeOK, UsageWithinLimits, BudgetUsage
<1>1. CASE WriteBudget(p)
  <2>1. usage' = call[p].usage /\ row' = row /\ accesses' = accesses
    BY <1>1 DEF WriteBudget
  <2>2. /\ WithinLimits(call[p].usage)
        /\ call[p].usage.holdout_accesses <= accesses
    BY <1>1, <1>t DEF WriteBudget, BudgetReady
  <2> QED BY <1>t, <2>1, <2>2 DEF UsageWithinLimits, HoldoutEvidence
<1>2. CASE WriteAccess(p)
  <2>1. /\ accesses' = accesses + 1
        /\ usage' = [usage EXCEPT !.holdout_accesses =
                       usage.holdout_accesses + 1]
        /\ row' = [row EXCEPT !.holdout_opened = TRUE,
                              !.parameters_frozen = TRUE]
    BY <1>2 DEF WriteAccess
  <2>2. row'.holdout_opened = TRUE /\ row'.parameters_frozen = TRUE
    BY <1>t, <2>1 DEF StrategyRow
  <2>3. usage'.holdout_accesses = usage.holdout_accesses + 1
    BY <1>t, <2>1 DEF BudgetUsage
  <2>4. /\ usage'.parameter_families = usage.parameter_families
        /\ usage'.rounds_per_family = usage.rounds_per_family
        /\ usage'.values_by_round = usage.values_by_round
        /\ usage'.total_backtests = usage.total_backtests
        /\ usage'.codex_repair_attempts = usage.codex_repair_attempts
        /\ usage'.runtime_minutes = usage.runtime_minutes
        /\ usage'.report_size_mb = usage.report_size_mb
    BY <1>t, <2>1 DEF BudgetUsage
  <2>5. WithinLimits(usage')
    BY <1>t, <2>4 DEF WithinLimits
  <2>6. accesses' > 0 /\ usage'.holdout_accesses <= accesses'
    BY <1>t, <2>1, <2>3 DEF HoldoutEvidence
  <2> QED BY <2>2, <2>5, <2>6 DEF UsageWithinLimits, HoldoutEvidence
<1>3. CASE ~WriteBudget(p) /\ ~WriteAccess(p)
  <2>1. /\ usage' = usage /\ accesses' = accesses
        /\ row'.holdout_opened = row.holdout_opened
        /\ row.parameters_frozen => row'.parameters_frozen
    BY <1>t, <1>3
       DEF Step, SelectPhase, WritePhase, Submit, SelectApproval,
           WriteApproval, Approve, SelectApproved, WriteApproved, Transition,
           Guard, Freeze, Verify, RecordOutcome, NextState,
           Enter, KnownRun, ActOnOutcome, Consume,
           ReadBudget, CreateSplit, SelectSplit, InsertSplit, InvalidateSplit,
           OpenHoldout, ReadAccesses, Crash, Start, CheckThen, db,
           StrategyRow
  <2> QED BY <1>t, <2>1 DEF UsageWithinLimits, HoldoutEvidence
<1> QED BY <1>1, <1>2, <1>3

\* A split that was defined stays defined.
LEMMA SplitStaysDefined ==
    ASSUME RaceInv, NEW p \in Procs, Step(p)
    PROVE  SplitDefined'
<1>t. split \in SplitRow /\ SplitDefined
  BY DEF RaceInv, TypeOK
<1>1. CASE InsertSplit(p)
  BY <1>t, <1>1 DEF InsertSplit, SplitDefined
<1>2. CASE InvalidateSplit(p)
  BY <1>t, <1>2 DEF InvalidateSplit, SplitDefined, ActiveSplit, SplitRow
<1>3. CASE ~InsertSplit(p) /\ ~InvalidateSplit(p)
  <2>1. split' = split
    BY <1>3
       DEF Step, SelectPhase, WritePhase, Submit, SelectApproval,
           WriteApproval, Approve, SelectApproved, WriteApproved, Transition,
           Guard, Freeze, Verify, RecordOutcome, NextState,
           Enter, KnownRun, ActOnOutcome, Consume, WriteBudget,
           ReadBudget, CreateSplit, SelectSplit, OpenHoldout, ReadAccesses,
           WriteAccess, Crash, Start, CheckThen, db
  <2> QED BY <1>t, <2>1 DEF SplitDefined
<1> QED BY <1>1, <1>2, <1>3

\* Every step of every process preserves the race invariant.
LEMMA RaceStep == RaceInv /\ [Next]_vars => RaceInv'
<1> SUFFICES ASSUME RaceInv, [Next]_vars PROVE RaceInv'
  OBVIOUS
<1>1. TypeOK'
  BY TypeStep DEF RaceInv
<1>2. CASE UNCHANGED vars
  BY <1>1, <1>2 DEF RaceInv, UsageWithinLimits, HoldoutEvidence, MoveReady,
                    BudgetReady, SplitDefined, vars, db
<1>3. ASSUME NEW p \in Procs, Step(p) PROVE RaceInv'
  <2>1. (UsageWithinLimits /\ HoldoutEvidence)'
    BY <1>3, RegistrySafe
  <2>2. ASSUME NEW q \in Procs, q # p PROVE (MoveReady(q) /\ BudgetReady(q))'
    <3>1. pc'[q] = pc[q] /\ call'[q] = call[q]
      BY <1>3, <2>2, OthersKeep DEF RaceInv
    <3>2. /\ accesses' \in Nat /\ accesses \in Nat /\ accesses <= accesses'
          /\ (verified => verified')
      BY <1>3, RegistryGrows DEF RaceInv, TypeOK
    <3>3. MoveReady(q)'
      BY <3>1, <3>2 DEF RaceInv, MoveReady
    <3>4. BudgetReady(q)'
      <4>1. SUFFICES ASSUME pc[q] = "write_budget"
                     PROVE  /\ WithinLimits(call[q].usage)
                            /\ call[q].usage.holdout_accesses <= accesses'
        BY <3>1 DEF BudgetReady
      <4>2. call[q].usage.holdout_accesses \in Nat
        BY DEF RaceInv, TypeOK, Calls, BudgetUsage
      <4>3. /\ WithinLimits(call[q].usage)
            /\ call[q].usage.holdout_accesses <= accesses
        BY <4>1 DEF RaceInv, BudgetReady
      <4> QED BY <3>2, <4>2, <4>3
    <3> QED BY <3>3, <3>4
  <2>3. (MoveReady(p) /\ BudgetReady(p))'
    BY <1>3, SelfReady
  <2>4. SplitDefined'
    BY <1>3, SplitStaysDefined
  <2> QED BY <1>1, <2>1, <2>2, <2>3, <2>4 DEF RaceInv
<1> QED BY <1>2, <1>3 DEF Next

(* Whatever the interleaving, a stored usage is within the limits and a    *)
(* holdout access has left its evidence.                                   *)
THEOREM ControllerRaceSafe == Spec => []RaceInv
<1>1. Init => RaceInv
  <2> SUFFICES ASSUME Init PROVE RaceInv
    OBVIOUS
  <2>1. TypeOK
    BY InitTyped
  <2>2. WithinLimits(ZeroUsage)
    BY BudgetAssumption, FS_EmptySet DEF WithinLimits, ZeroUsage, LimitFields
  <2>3. ZeroUsage.holdout_accesses = 0
    BY DEF ZeroUsage
  <2>4. UsageWithinLimits /\ HoldoutEvidence
    BY <2>2, <2>3 DEF Init, UsageWithinLimits, HoldoutEvidence
  <2>5. \A p \in Procs : pc[p] = "idle"
    BY DEF Init
  <2>6. SplitDefined
    BY DEF Init, SplitDefined
  <2> QED BY <2>1, <2>4, <2>5, <2>6 DEF RaceInv, MoveReady, BudgetReady
<1> QED BY <1>1, RaceStep, PTL DEF Spec

(* The stored usage is within the limits, however stale its writer was.    *)
THEOREM ControllerUsageWithinLimits == Spec => []UsageWithinLimits
<1>1. RaceInv => UsageWithinLimits
  BY DEF RaceInv
<1> QED BY <1>1, ControllerRaceSafe, PTL

(* A holdout access has left its audit row, the opened flag and the freeze. *)
THEOREM ControllerHoldoutEvidence == Spec => []HoldoutEvidence
<1>1. RaceInv => HoldoutEvidence
  BY DEF RaceInv
<1> QED BY <1>1, ControllerRaceSafe, PTL

(* Only the UPDATE of Registry.transition changes the phase.               *)
LEMMA PhaseChange ==
    ASSUME row \in StrategyRow, NEW p \in Procs, Step(p),
           row'.current_phase # row.current_phase
    PROVE  WritePhase(p)
BY DEF Step, SelectPhase, Submit, SelectApproval, WriteApproval, Approve,
       SelectApproved, WriteApproved, Transition, Guard, Freeze, Verify,
       RecordOutcome, NextState, Enter, KnownRun, ActOnOutcome, Consume,
       WriteBudget, ReadBudget, CreateSplit, SelectSplit, InsertSplit,
       InvalidateSplit, OpenHoldout, ReadAccesses, WriteAccess, Crash, Start,
       CheckThen, db, StrategyRow

(* Every committed phase change is a move of the table from the phase its  *)
(* caller read, and its journal row says so.                               *)
THEOREM ControllerMovesAreLegal == Spec => MovesAreLegal
<1>1. RaceInv /\ [Next]_vars =>
        [row'.current_phase # row.current_phase =>
           journal'[2] = row'.current_phase
           /\ Legal(journal'[1], journal'[2])]_vars
  <2> SUFFICES ASSUME RaceInv, NEW p \in Procs, Step(p),
                      row'.current_phase # row.current_phase
               PROVE  /\ journal'[2] = row'.current_phase
                      /\ Legal(journal'[1], journal'[2])
    BY DEF Next
  <2>1. row \in StrategyRow
    BY DEF RaceInv, TypeOK
  <2>2. WritePhase(p)
    BY <2>1, PhaseChange
  <2>3. /\ row'.current_phase = call[p].to
        /\ journal' = <<call[p].phase, call[p].to>>
    BY <2>1, <2>2 DEF WritePhase, StrategyRow
  <2>4. Legal(call[p].phase, call[p].to)
    BY <2>2 DEF WritePhase, RaceInv, MoveReady
  <2> QED BY <2>3, <2>4
<1> QED BY <1>1, ControllerRaceSafe, PTL DEF Spec, MovesAreLegal

(* Baseline research is entered on a recorded VERIFIED result, or by a     *)
(* historical version: the result recorded is still there when the move is *)
(* committed, whoever else writes in between.                              *)
THEOREM ControllerBaselineNeedsVerified == Spec => BaselineNeedsVerified
<1>1. RaceInv /\ [Next]_vars =>
        [row'.current_phase = "BASELINE_BACKTEST"
         /\ row.current_phase # "BASELINE_BACKTEST" =>
           verified \/ PhaseA]_vars
  <2> SUFFICES ASSUME RaceInv, NEW p \in Procs, Step(p),
                      row'.current_phase = "BASELINE_BACKTEST",
                      row.current_phase # "BASELINE_BACKTEST"
               PROVE  verified \/ PhaseA
    BY DEF Next
  <2>1. row \in StrategyRow
    BY DEF RaceInv, TypeOK
  <2>2. WritePhase(p)
    BY <2>1, PhaseChange
  <2>3. row'.current_phase = call[p].to
    BY <2>1, <2>2 DEF WritePhase, StrategyRow
  <2> QED BY <2>2, <2>3 DEF WritePhase, RaceInv, MoveReady
<1> QED BY <1>1, ControllerRaceSafe, PTL DEF Spec, BaselineNeedsVerified

(* Frozen parameters, an opened holdout and an invalidated split are for   *)
(* good, and a split is never redefined.                                   *)
THEOREM ControllerNothingThaws == Spec => NothingThaws
<1>1. RaceInv /\ [Next]_vars =>
        [/\ row.parameters_frozen => row'.parameters_frozen
         /\ row.holdout_opened => row'.holdout_opened
         /\ split.hash # NoSplit => split'.hash = split.hash
         /\ split.invalidated => split'.invalidated]_vars
  <2> SUFFICES ASSUME RaceInv, NEW p \in Procs, Step(p)
               PROVE  /\ row.parameters_frozen => row'.parameters_frozen
                      /\ row.holdout_opened => row'.holdout_opened
                      /\ split.hash # NoSplit => split'.hash = split.hash
                      /\ split.invalidated => split'.invalidated
    BY DEF Next
  <2>t. row \in StrategyRow /\ split \in SplitRow
    BY DEF RaceInv, TypeOK
  <2>1. /\ row.parameters_frozen => row'.parameters_frozen
        /\ row.holdout_opened => row'.holdout_opened
    BY <2>t
       DEF Step, SelectPhase, WritePhase, Submit, SelectApproval,
           WriteApproval, Approve, SelectApproved, WriteApproved, Transition,
           Guard, Freeze, Verify, RecordOutcome, NextState,
           Enter, KnownRun, ActOnOutcome, Consume, WriteBudget,
           ReadBudget, CreateSplit, SelectSplit, InsertSplit, InvalidateSplit,
           OpenHoldout, ReadAccesses, WriteAccess, Crash, Start, CheckThen,
           db, StrategyRow
  <2>2. CASE InsertSplit(p)
    <3>1. split' = split \/ split.hash = NoSplit
      BY <2>2 DEF InsertSplit
    <3>2. split.invalidated => split.hash # NoSplit
      BY DEF RaceInv, SplitDefined
    <3> QED BY <2>1, <3>1, <3>2
  <2>3. CASE InvalidateSplit(p)
    <3>1. split' = [split EXCEPT !.invalidated = TRUE]
      BY <2>3 DEF InvalidateSplit
    <3> QED BY <2>t, <2>1, <3>1 DEF SplitRow
  <2>4. CASE ~InsertSplit(p) /\ ~InvalidateSplit(p)
    <3>1. split' = split
      BY <2>4
         DEF Step, SelectPhase, WritePhase, Submit, SelectApproval,
             WriteApproval, Approve, SelectApproved, WriteApproved, Transition,
             Guard, Freeze, Verify, RecordOutcome, NextState,
             Enter, KnownRun, ActOnOutcome, Consume, WriteBudget,
             ReadBudget, CreateSplit, SelectSplit,
             OpenHoldout, ReadAccesses, WriteAccess, Crash, Start, CheckThen,
             db
    <3> QED BY <2>1, <3>1
  <2> QED BY <2>2, <2>3, <2>4
<1> QED BY <1>1, ControllerRaceSafe, PTL DEF Spec, NothingThaws

-----------------------------------------------------------------------------
(* A process that is alone implements AtomicController: nothing it read    *)
(* has changed by the time it writes, so each of its writes is an atomic   *)
(* operation and each of its other steps a stutter.  A crash only forgets. *)

\* The one process, where there is just one.
lone == CHOOSE p \in Procs : TRUE

Alone == Procs = {lone}

\* A move that AtomicController would make now, seen by a call.
MoveAllowed(c) ==
    /\ Legal(c.phase, c.to)
    /\ c.to = "BASELINE_BACKTEST" =>
         /\ c.phase = "TECHNICAL_INTEGRITY_VERIFICATION" => verified
         /\ c.phase = "IMPLEMENTATION_VERIFICATION" => PhaseA
    /\ c.to = "PARAMETER_RESEARCH" =>
         ActiveSplit # NoSplit /\ ~row.parameters_frozen

\* The usage a call carries is an admitted charge of the usage stored now.
ChargeAllowed(c) ==
    \E r \in Requests :
      /\ r.family # NoFamily => r.family \in Mutable /\ ~row.parameters_frozen
      /\ Admits(usage, r)
      /\ c.usage = Charge(usage, r)

PhaseKnown ==
    pc[lone] \in {"guard", "select_approved", "write_approved",
                  "select_phase", "write_phase"} =>
      call[lone].phase = row.current_phase

FreezeKnown ==
    pc[lone] \in {"guard", "read_budget"} =>
      call[lone].frozen = row.parameters_frozen

MoveKnown ==
    /\ pc[lone] \in {"select_approved", "write_approved", "select_phase",
                     "write_phase"} => MoveAllowed(call[lone])
    /\ pc[lone] \in {"guard", "select_approved", "write_approved",
                     "select_phase", "write_phase"} =>
         (call[lone].op = "submit" =>
            call[lone].to = "WAITING_FOR_SPEC_APPROVAL")
    /\ pc[lone] \in {"enter", "verify", "act_on_outcome"} =>
         call[lone].op = "verify"

ApprovalKnown ==
    /\ pc[lone] \in {"select_approval", "write_approval", "select_approved",
                     "write_approved"} =>
         row.current_phase = "WAITING_FOR_SPEC_APPROVAL"
    /\ pc[lone] \in {"write_approval", "write_approved"} =>
         row.approval_status # "APPROVED"

StepKnown ==
    /\ pc[lone] = "freeze" => row.current_phase = "CANDIDATE_FREEZE"
    /\ pc[lone] = "verify" =>
         row.current_phase \in
           {"TECHNICAL_INTEGRITY_VERIFICATION", "BASELINE_BACKTEST"}
    /\ pc[lone] = "write_budget" => ChargeAllowed(call[lone])
    /\ pc[lone] \in {"select_split", "insert_split"} =>
         call[lone].hash \in SplitHashes

HoldoutKnown ==
    /\ pc[lone] \in {"read_accesses", "write_access"} =>
         row.current_phase = "HOLDOUT" /\ ~row.holdout_opened
    /\ pc[lone] = "write_access" =>
         usage.holdout_accesses < Limits.max_holdout_accesses

Known ==
    /\ PhaseKnown
    /\ FreezeKnown
    /\ MoveKnown
    /\ ApprovalKnown
    /\ StepKnown
    /\ HoldoutKnown

AloneInv == TypeOK /\ Known

\* An idle process relies on nothing it read.
LEMMA IdleKnown == ASSUME pc[lone] = "idle" PROVE Known
BY DEF Known, PhaseKnown, FreezeKnown, MoveKnown, ApprovalKnown, StepKnown,
       HoldoutKnown

\* Neither does one that just returned.
LEMMA ReturnKnown == ASSUME Alone, TypeOK, Return(lone) PROVE Known'
<1>1. (pc[lone] = "idle")'
  BY DEF Alone, Return, TypeOK
<1>2. ASSUME (pc[lone] = "idle")' PROVE Known'
  BY <1>2 DEF Known, PhaseKnown, FreezeKnown, MoveKnown, ApprovalKnown,
              StepKnown, HoldoutKnown
<1> QED BY <1>1, <1>2

(* What a start writes down is what it has just read.                      *)
LEMMA StartFields ==
    ASSUME Alone, TypeOK, NEW op, NEW step, NEW to, Start(lone, op, step, to)
    PROVE  /\ pc'[lone] = step
           /\ call'[lone].op = op /\ call'[lone].to = to
           /\ call'[lone].phase = row.current_phase
           /\ call'[lone].frozen = row.parameters_frozen
           /\ UNCHANGED db
BY DEF Alone, Start, TypeOK, NoCall

\* What a check that admits or raises leaves behind.
LEMMA CheckThenFields ==
    ASSUME Alone, TypeOK, NEW here, NEW admitted, NEW step,
           CheckThen(lone, here, admitted, step), ~Return(lone)
    PROVE  /\ pc[lone] = here /\ pc'[lone] = step
           /\ call'[lone] = call[lone] /\ admitted /\ UNCHANGED db
BY DEF Alone, CheckThen, Goto, TypeOK

\* With one process, what it read stays true until it writes.
LEMMA AloneStep == Alone /\ AloneInv /\ [Next]_vars => AloneInv'
<1> SUFFICES ASSUME Alone, AloneInv, [Next]_vars PROVE AloneInv'
  OBVIOUS
<1> USE ControllerAssumption DEF Alone
<1> USE DEF PhaseKnown, FreezeKnown, MoveKnown, ApprovalKnown, StepKnown,
            HoldoutKnown
<1> DEFINE c == call[lone]
<1>t. TypeOK /\ Known /\ TypeOK'
  BY TypeStep DEF AloneInv
<1>0. CASE UNCHANGED vars
  <2>1. /\ row' = row /\ split' = split /\ usage' = usage
        /\ verified' = verified /\ pc' = pc /\ call' = call
    BY <1>0 DEF vars, db
  <2>2. MoveKnown'
    BY <1>t, <2>1 DEF Known, MoveAllowed, ActiveSplit
  <2>3. StepKnown'
    BY <1>t, <2>1 DEF Known, ChargeAllowed
  <2>4. PhaseKnown' /\ FreezeKnown' /\ ApprovalKnown' /\ HoldoutKnown'
    BY <1>t, <2>1 DEF Known
  <2> QED BY <1>t, <2>2, <2>3, <2>4 DEF AloneInv, Known
<1>r. CASE Return(lone)
  BY <1>t, <1>r, ReturnKnown DEF AloneInv
<1>n. ASSUME Step(lone), ~Return(lone) PROVE Known'
  <2>1. CASE SelectPhase(lone)
    <3>1. /\ pc[lone] = "select_phase" /\ pc'[lone] = "write_phase"
          /\ call'[lone] = c /\ UNCHANGED db
      BY <1>t, <1>n, <2>1, CheckThenFields DEF SelectPhase
    <3> QED BY <1>t, <3>1 DEF Known, MoveAllowed, ActiveSplit, db
  <2>2. CASE WritePhase(lone)
    <3>1. /\ pc[lone] = "write_phase"
          /\ pc'[lone] = AfterTransition(c) /\ AfterTransition(c) # "idle"
          /\ row'.current_phase = c.to
          /\ call'[lone] = c
      BY <1>t, <1>n, <2>2
         DEF WritePhase, Goto, TypeOK, StrategyRow
    <3>2. CASE c.op = "submit"
      <4>1. pc'[lone] = "select_approval"
        BY <3>1, <3>2 DEF AfterTransition
      <4>2. row'.current_phase = "WAITING_FOR_SPEC_APPROVAL"
        BY <1>t, <3>1, <3>2 DEF Known
      <4> QED BY <4>1, <4>2 DEF Known
    <3>3. CASE c.op = "transition" /\ c.to = "CANDIDATE_FREEZE"
      <4>1. pc'[lone] = "freeze"
        BY <3>1, <3>3 DEF AfterTransition
      <4> QED BY <3>1, <3>3, <4>1 DEF Known
    <3>4. CASE c.op = "verify"
               /\ c.to = "TECHNICAL_INTEGRITY_VERIFICATION"
      <4>1. pc'[lone] = "verify"
        BY <3>1, <3>4 DEF AfterTransition
      <4> QED BY <3>1, <3>4, <4>1 DEF Known
    <3> QED BY <3>1, <3>2, <3>3, <3>4 DEF AfterTransition
  <2>3. CASE Submit(lone)
    <3>1. Legal(row.current_phase, "WAITING_FOR_SPEC_APPROVAL")
      BY <2>3 DEF Submit
    <3>2. /\ pc'[lone] = "select_phase" /\ UNCHANGED db
          /\ call'[lone].to = "WAITING_FOR_SPEC_APPROVAL"
          /\ call'[lone].phase = row.current_phase
      BY <1>t, <2>3, StartFields DEF Submit
    <3> QED BY <3>1, <3>2 DEF Known, MoveAllowed, db
  <2>4. CASE SelectApproval(lone)
    <3>1. /\ pc[lone] = "select_approval" /\ pc'[lone] = "write_approval"
          /\ call'[lone] = c /\ row.approval_status # "APPROVED"
          /\ UNCHANGED db
      BY <1>t, <1>n, <2>4, CheckThenFields DEF SelectApproval
    <3> QED BY <1>t, <3>1 DEF Known, db
  <2>5. CASE WriteApproval(lone) \/ Freeze(lone) \/ KnownRun(lone)
             \/ WriteBudget(lone) \/ InsertSplit(lone) \/ WriteAccess(lone)
             \/ Crash(lone)
    BY <1>n, <2>5 DEF WriteApproval, Freeze, KnownRun, WriteBudget,
                      InsertSplit, WriteAccess, Crash
  <2>6. CASE Approve(lone)
    <3>1. row.current_phase = "WAITING_FOR_SPEC_APPROVAL"
      BY <2>6 DEF Approve
    <3>2. Legal(row.current_phase, "IMPLEMENTATION")
      <4>1. LegalTransitions["WAITING_FOR_SPEC_APPROVAL"] =
              {"IMPLEMENTATION", "REJECTED", "MANUAL_REVIEW_REQUIRED"}
        BY DEF LegalTransitions, PipelineState, WorkingStates
      <4> QED BY <3>1, <4>1 DEF Legal
    <3>3. /\ pc'[lone] = "select_approved" /\ UNCHANGED db
          /\ call'[lone].to = "IMPLEMENTATION"
          /\ call'[lone].op = "approve"
          /\ call'[lone].phase = row.current_phase
      BY <1>t, <2>6, StartFields DEF Approve
    <3> QED BY <3>1, <3>2, <3>3 DEF Known, MoveAllowed, db
  <2>7. CASE SelectApproved(lone)
    <3>1. /\ pc[lone] = "select_approved" /\ pc'[lone] = "write_approved"
          /\ call'[lone] = c /\ row.approval_status # "APPROVED"
          /\ UNCHANGED db
      BY <1>t, <1>n, <2>7, CheckThenFields DEF SelectApproved
    <3> QED BY <1>t, <3>1 DEF Known, MoveAllowed, ActiveSplit, db
  <2>8. CASE WriteApproved(lone)
    <3>1. /\ pc[lone] = "write_approved" /\ pc'[lone] = "select_phase"
          /\ call'[lone] = c
          /\ row'.current_phase = row.current_phase
          /\ row'.parameters_frozen = row.parameters_frozen
          /\ UNCHANGED <<split, verified>>
      BY <1>t, <2>8 DEF WriteApproved, Goto, TypeOK, StrategyRow
    <3> QED BY <1>t, <3>1 DEF Known, MoveAllowed, ActiveSplit
  <2>9. CASE \E to \in Targets : Transition(lone, to)
    <3>1. /\ pc'[lone] = "guard" /\ UNCHANGED db
          /\ call'[lone].op = "transition"
          /\ call'[lone].phase = row.current_phase
          /\ call'[lone].frozen = row.parameters_frozen
      BY <1>t, <2>9, StartFields DEF Transition
    <3> QED BY <3>1 DEF Known, db
  <2>10. CASE Guard(lone)
    <3>1. /\ pc[lone] = "guard" /\ pc'[lone] = "select_phase"
          /\ call'[lone] = c /\ MayTransition(c) /\ UNCHANGED db
      BY <1>t, <1>n, <2>10, CheckThenFields DEF Guard
    <3>2. MoveAllowed(c)
      BY <1>t, <3>1 DEF Known, MayTransition, MoveAllowed
    <3>3. c.op = "submit" => c.to = "WAITING_FOR_SPEC_APPROVAL"
      BY <1>t, <3>1 DEF Known
    <3> QED BY <1>t, <3>1, <3>2, <3>3 DEF Known, MoveAllowed, ActiveSplit, db
  <2>12. CASE Verify(lone)
    <3>1. CASE Start(lone, "verify", "enter",
                     "TECHNICAL_INTEGRITY_VERIFICATION")
      <4>1. pc'[lone] = "enter" /\ call'[lone].op = "verify"
        BY <1>t, <3>1, StartFields
      <4> QED BY <4>1 DEF Known
    <3>2. CASE /\ row.current_phase \in
                    {"TECHNICAL_INTEGRITY_VERIFICATION", "BASELINE_BACKTEST"}
               /\ Start(lone, "verify", "verify",
                        "TECHNICAL_INTEGRITY_VERIFICATION")
      <4>1. /\ pc'[lone] = "verify" /\ call'[lone].op = "verify"
            /\ UNCHANGED db
        BY <1>t, <3>2, StartFields
      <4> QED BY <3>2, <4>1 DEF Known, db
    <3> QED BY <2>12, <3>1, <3>2 DEF Verify
  <2>13. CASE \E outcome \in Outcomes : RecordOutcome(lone, outcome)
    <3>1. PICK outcome \in Outcomes : RecordOutcome(lone, outcome)
      BY <2>13
    <3>2. /\ pc[lone] = "verify" /\ pc'[lone] = "act_on_outcome"
          /\ call'[lone] = [c EXCEPT !.to = NextState(outcome)]
      BY <1>t, <3>1 DEF RecordOutcome, TypeOK
    <3>3. call'[lone].op = c.op
      BY <1>t, <3>2 DEF TypeOK, Calls
    <3> QED BY <1>t, <3>2, <3>3 DEF Known
  <2>15. CASE ActOnOutcome(lone)
    <3>1. /\ pc[lone] = "act_on_outcome" /\ pc'[lone] = "enter"
          /\ call'[lone] = c
      BY <1>t, <1>n, <2>15 DEF ActOnOutcome, CheckThen, Goto, TypeOK
    <3> QED BY <1>t, <3>1 DEF Known
  <2>19. CASE Enter(lone)
    <3>1. /\ pc[lone] = "enter" /\ pc'[lone] = "guard" /\ UNCHANGED db
          /\ call'[lone] = [c EXCEPT !.phase = row.current_phase,
                                     !.frozen = row.parameters_frozen]
      BY <1>t, <2>19 DEF Enter, TypeOK
    <3>2. /\ call'[lone].op = c.op
          /\ call'[lone].phase = row.current_phase
          /\ call'[lone].frozen = row.parameters_frozen
      BY <1>t, <3>1 DEF TypeOK, Calls
    <3> QED BY <1>t, <3>1, <3>2 DEF Known, db
  <2>14. CASE Consume(lone)
    <3>1. /\ pc'[lone] = "read_budget" /\ UNCHANGED db
          /\ call'[lone].frozen = row.parameters_frozen
      BY <1>t, <2>14, StartFields DEF Consume
    <3> QED BY <3>1 DEF Known, db
  <2>16. CASE \E r \in Requests : ReadBudget(lone, r)
    <3>1. PICK r \in Requests : ReadBudget(lone, r)
      BY <2>16
    <3>2. /\ pc[lone] = "read_budget" /\ pc'[lone] = "write_budget"
          /\ call'[lone] = [c EXCEPT !.usage = Charge(usage, r),
                                     !.spend = r.backtests]
          /\ FamilyOpen(c, r) /\ Admits(usage, r) /\ UNCHANGED db
      BY <1>t, <1>n, <3>1 DEF ReadBudget, TypeOK
    <3>3. call'[lone].usage = Charge(usage, r)
      BY <1>t, <3>2 DEF TypeOK, Calls
    <3>4. r.family # NoFamily => r.family \in Mutable /\ ~row.parameters_frozen
      BY <1>t, <3>2 DEF Known, FamilyOpen
    <3>5. ChargeAllowed(call[lone])'
      BY <3>2, <3>3, <3>4 DEF ChargeAllowed, db
    <3> QED BY <3>2, <3>5 DEF Known
  <2>17. CASE \E h \in SplitHashes : CreateSplit(lone, h)
    <3>1. PICK h \in SplitHashes : CreateSplit(lone, h)
      BY <2>17
    <3>2. /\ pc'[lone] = "select_split"
          /\ call'[lone] = [NoCall EXCEPT !.op = "split", !.hash = h]
      BY <1>t, <3>1 DEF CreateSplit, TypeOK
    <3>3. call'[lone].hash = h
      BY <3>2 DEF NoCall
    <3> QED BY <3>2, <3>3 DEF Known
  <2>18. CASE SelectSplit(lone)
    <3>1. /\ pc[lone] = "select_split" /\ pc'[lone] = "insert_split"
          /\ call'[lone] = c
      BY <1>t, <1>n, <2>18, CheckThenFields DEF SelectSplit
    <3> QED BY <1>t, <3>1 DEF Known
  <2>20. CASE InvalidateSplit(lone)
    <3>1. pc[lone] = "idle" /\ pc' = pc
      BY <2>20 DEF InvalidateSplit
    <3> QED BY <3>1 DEF Known
  <2>21. CASE OpenHoldout(lone)
    <3>1. /\ pc'[lone] = "read_accesses" /\ UNCHANGED db
          /\ row.current_phase = "HOLDOUT" /\ ~row.holdout_opened
      BY <1>t, <2>21, StartFields DEF OpenHoldout
    <3> QED BY <3>1 DEF Known, db
  <2>22. CASE ReadAccesses(lone)
    <3>1. /\ pc[lone] = "read_accesses" /\ pc'[lone] = "write_access"
          /\ usage.holdout_accesses < Limits.max_holdout_accesses
          /\ UNCHANGED db
      BY <1>t, <1>n, <2>22 DEF ReadAccesses, CheckThen, Goto, TypeOK
    <3> QED BY <1>t, <3>1 DEF Known, db
  <2> QED BY <1>n, <2>1, <2>2, <2>3, <2>4, <2>5, <2>6, <2>7, <2>8, <2>9,
             <2>10, <2>12, <2>13, <2>14, <2>15, <2>16, <2>17,
             <2>18, <2>19, <2>20, <2>21, <2>22
          DEF Step
<1> QED BY <1>0, <1>r, <1>n, <1>t DEF Next, AloneInv

\* Nothing was read yet.
LEMMA AloneInit == Alone /\ Init => AloneInv
<1> SUFFICES ASSUME Alone, Init PROVE AloneInv
  OBVIOUS
<1>1. pc[lone] = "idle"
  BY DEF Alone, Init
<1> QED BY <1>1, InitTyped, IdleKnown DEF AloneInv

\* The reads of a lone process are never stale.
LEMMA AloneAlways == ASSUME Alone PROVE Spec => []AloneInv
BY AloneInit, AloneStep, PTL DEF Spec

-----------------------------------------------------------------------------

(* The abstract specification's instances of the table and of the budget   *)
(* check are the same operators.                                           *)
LEMMA SameTable == Atomic!LegalTransitions = LegalTransitions
BY DEF Atomic!LegalTransitions, LegalTransitions, Atomic!PipelineState,
       PipelineState, Atomic!WorkingStates, WorkingStates,
       Atomic!TerminalStates, TerminalStates, Atomic!Verdicts, Verdicts,
       Atomic!Breakdowns, Breakdowns

\* The mapped specification checks totals as the controller does.
LEMMA SameTotals ==
    ASSUME NEW u, NEW r
    PROVE  /\ Atomic!TotalsAdmit(u, r) <=> TotalsAdmit(u, r)
           /\ Atomic!ChargeTotals(u, r) = ChargeTotals(u, r)
BY DEF Atomic!TotalsAdmit, TotalsAdmit, Atomic!ChargeTotals, ChargeTotals

\* It touches the same rounds.
LEMMA SameRounds ==
    ASSUME NEW u, NEW r
    PROVE  Atomic!RoundsTouched(u, r) = RoundsTouched(u, r)
BY DEF Atomic!RoundsTouched, RoundsTouched, Atomic!FirstRound, FirstRound

\* It admits the same families.
LEMMA SameFamily ==
    ASSUME NEW u, NEW r
    PROVE  /\ Atomic!FamilyAdmits(u, r) <=> FamilyAdmits(u, r)
           /\ Atomic!ChargeFamily(u, r) = ChargeFamily(u, r)
<1>1. Atomic!RoundsTouched(u, r) = RoundsTouched(u, r)
  BY SameRounds
<1>2. \A k : Atomic!RoundAdmits(u, r, k) <=> RoundAdmits(u, r, k)
  BY DEF Atomic!RoundAdmits, RoundAdmits
<1>3. Atomic!FamilyAdmits(u, r) <=> FamilyAdmits(u, r)
  <2>1. (\A k \in RoundsTouched(u, r) : Atomic!RoundAdmits(u, r, k))
          <=> (\A k \in RoundsTouched(u, r) : RoundAdmits(u, r, k))
    BY <1>2
  <2>2. \A S : Atomic!Cardinality(S) = Cardinality(S)
    BY DEF Atomic!Cardinality, Cardinality
  <2> QED BY <1>1, <2>1, <2>2 DEF Atomic!FamilyAdmits, FamilyAdmits
<1>4. Atomic!ChargeFamily(u, r) = ChargeFamily(u, r)
  BY <1>1, Zenon DEF Atomic!ChargeFamily, ChargeFamily
<1> QED BY <1>3, <1>4

\* It admits and charges the same requests.
LEMMA SameBudget ==
    ASSUME NEW u, NEW r
    PROVE  /\ Atomic!Admits(u, r) <=> Admits(u, r)
           /\ Atomic!Charge(u, r) = Charge(u, r)
<1>1. Atomic!NonNegative(r) <=> NonNegative(r)
  BY DEF Atomic!NonNegative, NonNegative
<1>2. Atomic!Admits(u, r) <=> Admits(u, r)
  BY <1>1, SameTotals, SameFamily DEF Atomic!Admits, Admits
<1>3. Atomic!Charge(u, r) = Charge(u, r)
  BY SameTotals, SameFamily DEF Atomic!Charge, Charge
<1> QED BY <1>2, <1>3

(* Each step of the lone process is an atomic operation or a stutter.      *)
LEMMA StepRefines ==
    Alone /\ AloneInv /\ [Next]_vars => [Atomic!Next]_(Atomic!vars)
<1> SUFFICES ASSUME Alone, AloneInv, [Next]_vars
             PROVE  Atomic!Next \/ UNCHANGED Atomic!vars
  OBVIOUS
<1> USE ControllerAssumption DEF Alone
<1> DEFINE c == call[lone]
<1>t. /\ TypeOK /\ Known /\ c \in Calls /\ row \in StrategyRow
      /\ split \in SplitRow
  BY DEF AloneInv, TypeOK
<1>0. CASE UNCHANGED db
  BY <1>0 DEF db, Atomic!vars
<1>1. CASE UNCHANGED vars
  BY <1>0, <1>1 DEF vars
<1>2. CASE WritePhase(lone)
  <2>1. c.phase = row.current_phase /\ MoveAllowed(c) /\ c.to \in PipelineState
    BY <1>2, <1>t DEF WritePhase, Known, PhaseKnown, MoveKnown, Calls
  <2>2. Atomic!Move(c.to)
    BY <1>2, <2>1, SameTable
       DEF WritePhase, MoveAllowed, ActiveSplit, Atomic!Move,
           Atomic!ActiveSplit, Atomic!Legal, Legal
  <2> QED BY <2>1, <2>2 DEF Atomic!Next, Atomic!PipelineState, PipelineState,
          Atomic!WorkingStates, WorkingStates, Atomic!TerminalStates,
          TerminalStates
<1>3. CASE WriteApproval(lone)
  <2>1. Atomic!MarkApproval("SUBMITTED")
    BY <1>3, <1>t DEF WriteApproval, Known, ApprovalKnown, Atomic!MarkApproval
  <2> QED BY <2>1 DEF Atomic!Next
<1>4. CASE WriteApproved(lone)
  <2>1. Atomic!MarkApproval("APPROVED")
    BY <1>4, <1>t DEF WriteApproved, Known, ApprovalKnown, Atomic!MarkApproval
  <2> QED BY <2>1 DEF Atomic!Next
<1>5. CASE Freeze(lone)
  BY <1>5, <1>t DEF Freeze, Known, StepKnown, Atomic!FreezeFamilies,
                    Atomic!Next
<1>6. CASE \E outcome \in Outcomes : RecordOutcome(lone, outcome)
  <2>1. PICK outcome \in Outcomes : RecordOutcome(lone, outcome)
    BY <1>6
  <2>2. row.current_phase \in
          {"TECHNICAL_INTEGRITY_VERIFICATION", "BASELINE_BACKTEST"}
    BY <2>1, <1>t DEF RecordOutcome, Known, StepKnown
  <2>3. Atomic!RecordOutcome(outcome)
    BY <2>1, <2>2, Zenon DEF RecordOutcome, Atomic!RecordOutcome
  <2> QED BY <2>3 DEF Atomic!Next
<1>7. CASE WriteBudget(lone)
  <2>1. ChargeAllowed(c)
    BY <1>7, <1>t DEF WriteBudget, Known, StepKnown
  <2>2. PICK r \in Requests :
          /\ r.family # NoFamily =>
               r.family \in Mutable /\ ~row.parameters_frozen
          /\ Admits(usage, r)
          /\ c.usage = Charge(usage, r)
    BY <2>1 DEF ChargeAllowed
  <2>3. Atomic!Spend(r)
    BY <1>7, <2>2, SameBudget DEF WriteBudget, Atomic!Spend
  <2> QED BY <2>3 DEF Atomic!Next
<1>8. CASE InsertSplit(lone)
  <2>1. c.hash \in SplitHashes
    BY <1>8, <1>t DEF InsertSplit, Known, StepKnown
  <2>2. CASE split.hash = NoSplit
    <3>1. Atomic!DefineSplit(c.hash)
      BY <1>8, <2>2 DEF InsertSplit, Atomic!DefineSplit
    <3> QED BY <2>1, <3>1 DEF Atomic!Next
  <2>3. CASE split.hash # NoSplit
    BY <1>0, <1>8, <2>3 DEF InsertSplit, db
  <2> QED BY <2>2, <2>3
<1>9. CASE InvalidateSplit(lone)
  BY <1>9 DEF InvalidateSplit, ActiveSplit, Atomic!InvalidateSplit,
              Atomic!ActiveSplit, Atomic!Next
<1>10. CASE WriteAccess(lone)
  <2>1. Atomic!OpenHoldout
    BY <1>10, <1>t DEF WriteAccess, Known, HoldoutKnown, Atomic!OpenHoldout
  <2> QED BY <2>1 DEF Atomic!Next
<1>11. CASE /\ Step(lone)
            /\ ~WritePhase(lone) /\ ~WriteApproval(lone)
            /\ ~WriteApproved(lone) /\ ~Freeze(lone)
            /\ ~(\E outcome \in Outcomes : RecordOutcome(lone, outcome))
            /\ ~WriteBudget(lone)
            /\ ~InsertSplit(lone) /\ ~InvalidateSplit(lone)
            /\ ~WriteAccess(lone)
  <2>1. UNCHANGED db
    BY <1>11
       DEF Step, SelectPhase, Submit, SelectApproval, Approve,
           SelectApproved, Transition, Guard, Verify, Enter, KnownRun,
           ActOnOutcome, Consume, ReadBudget,
           CreateSplit, SelectSplit, OpenHoldout, ReadAccesses, Crash, Start,
           CheckThen
  <2> QED BY <1>0, <2>1
<1> QED BY <1>1, <1>2, <1>3, <1>4, <1>5, <1>6, <1>7, <1>8, <1>9, <1>10,
           <1>11 DEF Next

(* One process at a time, crashing where it may, does no more than atomic  *)
(* operations would.                                                       *)
THEOREM LoneProcessIsAtomic ==
    ASSUME NEW p, Procs = {p} PROVE Spec => ImplementsAtomic
<1>0. Alone
  BY DEF Alone, lone
<1>1. Init => Atomic!Init
  BY DEF Init, Atomic!Init, ZeroUsage, Atomic!ZeroUsage
<1> QED BY <1>0, <1>1, StepRefines, AloneAlways, PTL
        DEF Spec, ImplementsAtomic, Atomic!Spec

-----------------------------------------------------------------------------
(* The books of a lone process agree: the audit rows, the opened flag and  *)
(* the budget's counter count the same accesses, the stored backtests are  *)
(* the ones that were granted, and the usage it is about to store differs  *)
(* from the stored one by what it is about to grant.                       *)
LoneBooks ==
    /\ row.holdout_opened => accesses = 1
    /\ ~row.holdout_opened => accesses = 0
    /\ accesses <= Limits.max_holdout_accesses
    /\ usage.holdout_accesses = accesses
    /\ consumed = usage.total_backtests
    /\ pc[lone] = "write_budget" =>
         call[lone].usage.total_backtests
           = usage.total_backtests + call[lone].spend

\* A step that leaves the registry alone and does not go to the budget's
\* write leaves the books as they are.
LEMMA BooksUntouched ==
    ASSUME LoneBooks, UNCHANGED <<usage, accesses, consumed>>,
           row'.holdout_opened = row.holdout_opened,
           pc'[lone] # "write_budget" \/ UNCHANGED <<pc, call>>
    PROVE  LoneBooks'
BY DEF LoneBooks

\* The charge a lone process carries when it writes the budget.
LEMMA CarriedCharge ==
    ASSUME AloneInv, pc[lone] = "write_budget"
    PROVE  \E r \in Requests :
             /\ r \in BudgetRequest /\ Admits(usage, r)
             /\ r.family # NoFamily =>
                  r.family \in Mutable /\ ~row.parameters_frozen
             /\ call[lone].usage = Charge(usage, r)
BY ControllerAssumption DEF AloneInv, Known, StepKnown, ChargeAllowed

(* With one process nothing is written over, so nothing is lost.           *)
LEMMA LoneBooksStep ==
    Alone /\ AloneInv /\ LoneBooks /\ [Next]_vars => LoneBooks'
<1> SUFFICES ASSUME Alone, AloneInv, LoneBooks, [Next]_vars PROVE LoneBooks'
  OBVIOUS
<1> USE ControllerAssumption, BudgetAssumption DEF Alone
<1>t. /\ TypeOK /\ Known /\ call[lone] \in Calls /\ pc \in [Procs -> Steps]
      /\ usage \in BudgetUsage /\ row \in StrategyRow
  BY DEF AloneInv, TypeOK
<1>0. CASE UNCHANGED vars
  BY <1>0, BooksUntouched DEF vars, db
<1>1. CASE WriteBudget(lone)
  <2>1. PICK r \in Requests :
          /\ r \in BudgetRequest /\ Admits(usage, r)
          /\ call[lone].usage = Charge(usage, r)
    BY <1>1, CarriedCharge DEF WriteBudget
  <2>2. usage'.holdout_accesses = usage.holdout_accesses
    BY <1>1, <1>t, <2>1, ChargeKeepsHoldout DEF WriteBudget
  <2>3. consumed' = usage'.total_backtests
    BY <1>1 DEF WriteBudget, LoneBooks
  <2>4. pc'[lone] = "idle"
    BY <1>1, <1>t DEF WriteBudget, Return
  <2> QED BY <1>1, <2>2, <2>3, <2>4 DEF WriteBudget, LoneBooks
<1>2. CASE WriteAccess(lone)
  <2>1. ~row.holdout_opened /\ usage.holdout_accesses < Limits.max_holdout_accesses
    BY <1>2, <1>t DEF WriteAccess, Known, HoldoutKnown
  <2>2. accesses = 0 /\ accesses' = 1 /\ row'.holdout_opened
    BY <1>2, <1>t, <2>1 DEF WriteAccess, LoneBooks, StrategyRow
  <2>3. /\ usage'.holdout_accesses = usage.holdout_accesses + 1
        /\ usage'.total_backtests = usage.total_backtests
    BY <1>2, <1>t DEF WriteAccess, BudgetUsage
  <2>4. pc'[lone] = "idle" /\ consumed' = consumed
    BY <1>2, <1>t DEF WriteAccess, Return
  <2>5. Limits.max_holdout_accesses \in Nat
    BY DEF LimitFields
  <2> QED BY <2>1, <2>2, <2>3, <2>4, <2>5 DEF LoneBooks
<1>3. CASE \E r \in Requests : ReadBudget(lone, r)
  <2>1. PICK r \in Requests : ReadBudget(lone, r)
    BY <1>3
  <2>2. UNCHANGED db
    BY <2>1 DEF ReadBudget
  <2>3. CASE FamilyOpen(call[lone], r) /\ Admits(usage, r)
    <3>1. /\ call'[lone].usage = Charge(usage, r)
          /\ call'[lone].spend = r.backtests
      <4>1. call \in [Procs -> Calls] /\ lone \in Procs
        BY <1>t DEF TypeOK
      <4>2. call' = [call EXCEPT ![lone].usage = Charge(usage, r),
                                 ![lone].spend = r.backtests]
        BY <2>1, <2>3 DEF ReadBudget
      <4> QED BY <4>1, <4>2 DEF Calls
    <3>2. r \in BudgetRequest
      OBVIOUS
    <3>3. Charge(usage, r).total_backtests
            = usage.total_backtests + r.backtests
      BY <1>t, <2>3, <3>2, ChargeCountsBacktests
    <3> QED BY <2>2, <3>1, <3>3 DEF LoneBooks, db
  <2>4. CASE ~(FamilyOpen(call[lone], r) /\ Admits(usage, r))
    <3>1. pc'[lone] = "idle"
      BY <1>t, <2>1, <2>4 DEF ReadBudget, Return
    <3> QED BY <2>2, <3>1, BooksUntouched DEF db
  <2> QED BY <2>3, <2>4
<1>4. CASE /\ Step(lone)
           /\ ~WriteBudget(lone) /\ ~WriteAccess(lone)
           /\ ~(\E r \in Requests : ReadBudget(lone, r))
  <2>1. /\ UNCHANGED <<usage, accesses, consumed>>
        /\ row'.holdout_opened = row.holdout_opened
    BY <1>4, <1>t
       DEF Step, SelectPhase, WritePhase, Submit, SelectApproval, WriteApproval,
           Approve, SelectApproved, WriteApproved, Transition, Guard, Freeze,
           Verify, Enter, KnownRun, ActOnOutcome, RecordOutcome, Consume,
           CreateSplit, SelectSplit, InsertSplit, InvalidateSplit, OpenHoldout,
           ReadAccesses, Crash, Start, CheckThen, StrategyRow, db
  <2>2. pc'[lone] # "write_budget" \/ UNCHANGED <<pc, call>>
    BY <1>4, <1>t
       DEF Step, SelectPhase, WritePhase, Submit, SelectApproval, WriteApproval,
           Approve, SelectApproved, WriteApproved, Transition, Guard, Freeze,
           Verify, Enter, KnownRun, ActOnOutcome, RecordOutcome, Consume,
           CreateSplit, SelectSplit, InsertSplit, InvalidateSplit, OpenHoldout,
           ReadAccesses, Crash, Start, CheckThen, Goto, Return, AfterTransition
  <2> QED BY <2>1, <2>2, BooksUntouched
<1> QED BY <1>0, <1>1, <1>2, <1>3, <1>4 DEF Next

\* A lone process keeps its books for good.
LEMMA LoneBooksAlways == ASSUME Alone PROVE Spec => []LoneBooks
<1>1. Init => LoneBooks
  BY BudgetAssumption, ControllerAssumption
     DEF Init, LoneBooks, ZeroUsage, Alone, LimitFields
<1> QED BY <1>1, LoneBooksStep, AloneAlways, PTL DEF Spec

(* With one process at a time, crashing where it may, the untouched        *)
(* holdout is opened at most once and never beyond the budget.             *)
THEOREM LoneHoldoutOnce ==
    ASSUME NEW p, Procs = {p} PROVE Spec => []HoldoutOnce
<1>0. Alone
  BY DEF Alone, lone
<1>1. LoneBooks => HoldoutOnce
  BY DEF LoneBooks, HoldoutOnce
<1> QED BY <1>0, <1>1, LoneBooksAlways, PTL

(* The backtests granted are the backtests stored, and within the hard     *)
(* budget; the holdout counter counts the audit rows.                      *)
THEOREM LoneHardBudget ==
    ASSUME NEW p, Procs = {p} PROVE Spec => []HardBudget
<1>0. Alone
  BY DEF Alone, lone
<1>1. LoneBooks /\ UsageWithinLimits => HardBudget
  BY DEF LoneBooks, UsageWithinLimits, WithinLimits, HardBudget
<1> QED BY <1>0, <1>1, LoneBooksAlways, ControllerUsageWithinLimits, PTL

(* No family is charged another round or value after the freeze.           *)
THEOREM LoneFrozenFamiliesRest ==
    ASSUME NEW p, Procs = {p} PROVE Spec => FrozenFamiliesRest
<1>0. Alone
  BY DEF Alone, lone
<1> DEFINE Rests ==
      row.parameters_frozen =>
         /\ usage'.rounds_per_family = usage.rounds_per_family
         /\ usage'.values_by_round = usage.values_by_round
<1>1. Alone /\ AloneInv /\ [Next]_vars => [Rests]_vars
  <2> SUFFICES ASSUME Alone, AloneInv, Step(lone) PROVE Rests
    BY DEF Next, Alone
  <2>t. usage \in BudgetUsage
    BY DEF AloneInv, TypeOK
  <2>1. CASE WriteBudget(lone)
    <3>1. PICK r \in Requests :
            /\ r \in BudgetRequest
            /\ r.family # NoFamily => ~row.parameters_frozen
            /\ call[lone].usage = Charge(usage, r)
      BY <2>1, CarriedCharge DEF WriteBudget
    <3> QED BY <2>t, <2>1, <3>1, PlainChargeKeepsFamilies DEF WriteBudget
  <2>2. CASE WriteAccess(lone)
    BY <2>2, <2>t DEF WriteAccess, BudgetUsage
  <2>3. CASE ~WriteBudget(lone) /\ ~WriteAccess(lone)
    <3>1. UNCHANGED usage
      BY <2>3
         DEF Step, SelectPhase, WritePhase, Submit, SelectApproval,
             WriteApproval, Approve, SelectApproved, WriteApproved, Transition,
             Guard, Freeze, Verify, Enter, KnownRun, ActOnOutcome,
             RecordOutcome, Consume, ReadBudget, CreateSplit, SelectSplit,
             InsertSplit, InvalidateSplit, OpenHoldout, ReadAccesses, Crash,
             Start, CheckThen, db
    <3> QED BY <3>1
  <2> QED BY <2>1, <2>2, <2>3
<1> QED BY <1>0, <1>1, AloneAlways, PTL DEF Spec, FrozenFamiliesRest
=============================================================================
