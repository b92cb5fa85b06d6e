------------------------------- MODULE PhaseC -------------------------------
(***************************************************************************)
(* The research of one strategy version, from its baseline backtest to its *)
(* final classification: research/services.py PhaseCService over the       *)
(* research tables of registry/repositories.py.  Every method is a call of *)
(* its own (a command, or a workflow task that may be retried), so callers *)
(* may call them in any order.  One process at a time works on a strategy. *)
(*                                                                         *)
(* Each step is one committed write.  The process may die, or a library it *)
(* calls may raise, between any two of them: Abort.  A guard that raises   *)
(* is a step that is not taken.  Metrics, reports and journal entries are  *)
(* left out; what gates and the reviewer conclude from them is any of      *)
(* their possible conclusions.                                             *)
(***************************************************************************)
EXTENDS Budget, StateMachine, Sequences

CONSTANTS
    Mutable,      \* the parameter families the specification declares mutable
    Order,        \* those families, sorted by optimization_order
    Values,       \* the values an analyst proposes for a family
    NoValue,      \* selected_value_json IS NULL, a family left at its baseline
    NoSplit,
    SplitHash,    \* the hash of the persisted chronological split
    Outcomes      \* outcomes the B.5 verification of a baseline comes to

ASSUME PhaseCAssumption ==
    /\ Mutable \subseteq Families
    /\ Order \in Seq(Mutable)
    /\ \A f \in Mutable : \E i \in DOMAIN Order : Order[i] = f
    /\ IsFiniteSet(Values) /\ NoValue \notin Values
    /\ NoSplit # SplitHash
    /\ "NONE" \notin Outcomes

VARIABLES
    row, split, usage, verified, accesses, journal,  \* AtomicController
    baseline,  \* research_baselines.verification_outcome, or "NONE"
    rounds,    \* research_rounds by round_number
    decision,  \* the analyst's last decision: a family, or NoFamily to freeze
    candidate, \* selected_parameters of the newest research_candidates row
    results,   \* research_walk_forward, _holdout, _stress and _throughput
    review,    \* classification in research_final_reviews, or "NONE"
    ran,       \* history: parameter experiments run
    holdoutRuns, \* history: backtests run on the holdout data
    call       \* the method in progress: its next step and what it carries

controllerVars == <<row, split, usage, verified, accesses, journal>>
tables == <<baseline, rounds, decision, candidate, results, review>>
history == <<ran, holdoutRuns>>
vars == <<controllerVars, tables, history, call>>

Controller ==
    INSTANCE AtomicController WITH
        Requests <- {}, SplitHashes <- {SplitHash}, PhaseA <- FALSE

phase == row.current_phase

Stages == {"walk_forward", "holdout", "stress", "throughput"}

StageVerdicts ==
    [walk_forward |-> {"PASS", "FAIL"},
     holdout      |-> {"PASS", "FAIL"},
     stress       |-> {"ROBUST", "FRAGILE"},
     throughput   |-> {"STANDALONE_CAPABLE", "PORTFOLIO_COMPONENT_ONLY",
                       "INSUFFICIENT_EVIDENCE"}]

Reviews == {"SELECT", "VETO", "INSUFFICIENT_EVIDENCE"}

Accepting == {"ACCEPTED_STANDALONE", "ACCEPTED_PORTFOLIO_COMPONENT"}

Rejecting ==
    {"REJECTED_UNSTABLE", "REJECTED_EXECUTION_SENSITIVE", "REJECTED_NO_EDGE"}

Undecided == {"INSUFFICIENT_EVIDENCE", "MANUAL_REVIEW_REQUIRED"}

Classifications == Accepting \cup Rejecting \cup Undecided

\* The value chosen for each family; NoValue where the baseline stays.
Parameters == [Mutable -> Values \cup {NoValue}]

NotRun == [verdict |-> "NONE", parameters |-> [f \in Mutable |-> NoValue]]

Idle == [step |-> "idle", round |-> 0, left |-> 0, to |-> "EDGE_GATE",
         outcome |-> "NONE"]

Init ==
    /\ row = [current_phase |-> "BASELINE_BACKTEST",
              approval_status |-> "APPROVED", parameters_frozen |-> FALSE,
              frozen_families |-> {}, holdout_opened |-> FALSE]
    /\ split = [hash |-> SplitHash, invalidated |-> FALSE]
    /\ usage = ZeroUsage
    /\ verified = TRUE
    /\ accesses = 0
    /\ journal = <<"TECHNICAL_INTEGRITY_VERIFICATION", "BASELINE_BACKTEST">>
    /\ baseline = "NONE" /\ rounds = <<>> /\ decision = NoFamily
    /\ candidate = NotRun.parameters
    /\ results = [s \in Stages |-> NotRun]
    /\ review = "NONE"
    /\ ran = 0 /\ holdoutRuns = 0
    /\ call = Idle

-----------------------------------------------------------------------------

\* A method that requires the strategy to be in a phase begins.
Begins(expected) == call = Idle /\ phase = expected

\* The method goes on to a transition, and with it ends.
ThenMove(to) == call' = [Idle EXCEPT !.step = "move", !.to = to]

\* The transition a method ends with.  Freezing the families is a second
\* transaction of the transition to CANDIDATE_FREEZE.
MoveOn ==
    /\ call.step = "move"
    /\ Controller!Move(call.to)
    /\ call' = IF call.to = "CANDIDATE_FREEZE"
                 THEN [Idle EXCEPT !.step = "freeze"] ELSE Idle
    /\ UNCHANGED <<tables, history>>

FreezeFamilies ==
    /\ call.step = "freeze"
    /\ Controller!FreezeFamilies
    /\ call' = Idle
    /\ UNCHANGED <<tables, history>>

Abort ==
    /\ call # Idle
    /\ call' = Idle
    /\ UNCHANGED <<controllerVars, tables, history>>

-----------------------------------------------------------------------------
\* run_baseline

\* Any baseline row of this context is reused, whatever its outcome.
ReuseBaseline ==
    /\ Begins("BASELINE_BACKTEST")
    /\ baseline # "NONE"
    /\ ThenMove("EDGE_GATE")
    /\ UNCHANGED <<controllerVars, tables, history>>

\* The adapter's artifact comes without a manifest, or is verified.
RunBaseline ==
    /\ Begins("BASELINE_BACKTEST")
    /\ \/ ThenMove("TECHNICAL_FAILURE") /\ UNCHANGED controllerVars
       \/ \E outcome \in Outcomes :
            /\ Controller!RecordOutcome(outcome)
            /\ call' = [Idle EXCEPT !.step = "baseline", !.outcome = outcome]
    /\ UNCHANGED <<tables, history>>

SaveBaseline ==
    /\ call.step = "baseline"
    /\ baseline' = call.outcome
    /\ ThenMove(IF call.outcome = "VERIFIED" THEN "EDGE_GATE"
                                             ELSE "TECHNICAL_FAILURE")
    /\ UNCHANGED <<controllerVars, rounds, decision, candidate, results,
                   review, history>>

-----------------------------------------------------------------------------
\* evaluate_edge

EdgeVerdicts ==
    [REJECTED_NO_EDGE |-> "REJECTED",
     INSUFFICIENT_EVIDENCE |-> "INSUFFICIENT_EVIDENCE",
     MANUAL_REVIEW_REQUIRED |-> "MANUAL_REVIEW_REQUIRED"]

\* Mutant: the early review is left for later.
EvaluateEdgeWithoutReview ==
    /\ Begins("EDGE_GATE")
    /\ baseline = "VERIFIED"
    /\ \/ ThenMove("PARAMETER_RESEARCH")
       \/ \E class \in DOMAIN EdgeVerdicts : ThenMove(EdgeVerdicts[class])
    /\ UNCHANGED <<controllerVars, tables, history>>

\* CONTINUE, or an early review and its verdict.
EvaluateEdge ==
    /\ Begins("EDGE_GATE")
    /\ baseline = "VERIFIED"
    /\ \/ ThenMove("PARAMETER_RESEARCH") /\ UNCHANGED review
       \/ \E class \in DOMAIN EdgeVerdicts :
            /\ review' = class
            /\ ThenMove(EdgeVerdicts[class])
    /\ UNCHANGED <<controllerVars, baseline, rounds, decision, candidate,
                   results, history>>

-----------------------------------------------------------------------------
\* analyze, propose_round, run_round, freeze_family

\* Families that no round has selected or frozen a value for.
OpenFamilies ==
    {f \in Mutable : \A k \in DOMAIN rounds :
       rounds[k].family = f => rounds[k].status \notin {"SELECTED", "FROZEN"}}

Analyze ==
    /\ Begins("PARAMETER_RESEARCH")
    /\ \/ OpenFamilies = {} /\ decision' = NoFamily
       \/ \E i \in DOMAIN Order :
            /\ Order[i] \in OpenFamilies
            /\ \A j \in 1..(i - 1) : Order[j] \notin OpenFamilies
            /\ decision' = Order[i]
    /\ UNCHANGED <<controllerVars, baseline, rounds, candidate, results,
                   review, history, call>>

\* The decision is validated against the phase it was taken in; the phase the
\* strategy is in by now is not looked at.
ProposeRound ==
    /\ call = Idle
    /\ decision # NoFamily
    /\ Len(rounds) + 1 <=
         Limits.max_rounds_per_family *
         (IF Limits.max_parameter_families > 1
            THEN Limits.max_parameter_families ELSE 1)
    /\ rounds' = Append(rounds, [family |-> decision, status |-> "PROPOSED",
                                 value |-> NoValue, review |-> "NONE"])
    /\ UNCHANGED <<controllerVars, baseline, decision, candidate, results,
                   review, history, call>>

RoundRequest(k) ==
    [backtests |-> Cardinality(Values), family |-> rounds[k].family,
     rounds |-> 1, values |-> Cardinality(Values), codex_repairs |-> 0,
     runtime_minutes |-> 0, report_size_mb |-> 0, round_id |-> k]

\* Mutant: a round that has been paid for once is not charged again.
BeginRoundPaidOnce ==
    /\ Begins("PARAMETER_RESEARCH")
    /\ \E k \in DOMAIN rounds :
         /\ IF rounds[k].review = "NONE" THEN Controller!Spend(RoundRequest(k))
                                         ELSE UNCHANGED controllerVars
         /\ call' = [Idle EXCEPT !.step = "experiments", !.round = k,
                                 !.left = Cardinality(Values)]
    /\ UNCHANGED <<tables, history>>

\* run_round pays for a proposed round, any number of times, whatever its
\* status, and then runs its experiments.
BeginRound ==
    /\ Begins("PARAMETER_RESEARCH")
    /\ \E k \in DOMAIN rounds :
         /\ Controller!Spend(RoundRequest(k))
         /\ call' = [Idle EXCEPT !.step = "experiments", !.round = k,
                                 !.left = Cardinality(Values)]
    /\ UNCHANGED <<tables, history>>

RunExperiment ==
    /\ call.step = "experiments"
    /\ call.left > 0
    /\ ran' = ran + 1
    /\ call' = [call EXCEPT !.left = @ - 1]
    /\ UNCHANGED <<controllerVars, tables, holdoutRuns>>

\* The review is stored.  A round without a selection keeps the value an
\* earlier run of it selected.
ReviewRound ==
    /\ call.step = "experiments"
    /\ call.left = 0
    /\ \/ \E v \in Values :
            /\ rounds' = [rounds EXCEPT ![call.round].status = "SELECTED",
                                        ![call.round].value = v,
                                        ![call.round].review = "SELECT"]
            /\ call' = Idle
       \/ \E verdict \in {"VETO", "INSUFFICIENT_EVIDENCE"} :
            /\ rounds' = [rounds EXCEPT ![call.round].status = "STOPPED",
                                        ![call.round].review = verdict]
            /\ ThenMove(IF verdict = "VETO" THEN "MANUAL_REVIEW_REQUIRED"
                                            ELSE verdict)
    /\ UNCHANGED <<controllerVars, baseline, decision, candidate, results,
                   review, history>>

\* Mutant: a family can be frozen in any phase.
FreezeFamilyAnyPhase ==
    /\ call = Idle
    /\ \E k \in DOMAIN rounds :
         /\ rounds[k].status = "SELECTED"
         /\ rounds' = [rounds EXCEPT ![k].status = "FROZEN"]
    /\ UNCHANGED <<controllerVars, baseline, decision, candidate, results,
                   review, history, call>>

FreezeFamily ==
    /\ Begins("PARAMETER_RESEARCH")
    /\ \E k \in DOMAIN rounds :
         /\ rounds[k].status = "SELECTED" /\ rounds[k].value # NoValue
         /\ rounds' = [rounds EXCEPT ![k].status = "FROZEN"]
    /\ UNCHANGED <<controllerVars, baseline, decision, candidate, results,
                   review, history, call>>

-----------------------------------------------------------------------------
\* freeze_candidate and the stages that test the candidate

FrozenFor(f) ==
    {k \in DOMAIN rounds : rounds[k].family = f /\ rounds[k].status = "FROZEN"}

\* The last frozen round of a family decides its value.
Selected ==
    [f \in Mutable |->
       IF \E k \in FrozenFor(f) : \A j \in FrozenFor(f) : j <= k
         THEN rounds[CHOOSE k \in FrozenFor(f) :
                       \A j \in FrozenFor(f) : j <= k].value
         ELSE NoValue]

FreezeCandidate ==
    /\ Begins("PARAMETER_RESEARCH")
    /\ candidate' = Selected
    /\ ThenMove("CANDIDATE_FREEZE")
    /\ UNCHANGED <<controllerVars, baseline, rounds, decision, results, review,
                   history>>

At(step) == call' = [Idle EXCEPT !.step = step]

\* The phase is entered before the walk-forward runs.
EnterWalkForward ==
    /\ Begins("CANDIDATE_FREEZE")
    /\ Controller!Move("WALK_FORWARD")
    /\ At("walk_forward")
    /\ UNCHANGED <<tables, history>>

\* Mutant: the lock is left for when the result is known.
EnterHoldoutUnlocked ==
    /\ Begins("HOLDOUT")
    /\ At("opened")
    /\ UNCHANGED <<controllerVars, tables, history>>

\* The holdout is opened before it is evaluated, never after.
EnterHoldout ==
    /\ Begins("HOLDOUT")
    /\ Controller!OpenHoldout
    /\ At("opened")
    /\ UNCHANGED <<tables, history>>

\* The backtest on the holdout data; its result is not stored yet.
RunHoldout ==
    /\ call.step = "opened"
    /\ holdoutRuns' = holdoutRuns + 1
    /\ At("holdout")
    /\ UNCHANGED <<controllerVars, tables, ran>>

EnterStress ==
    /\ Begins("STRESS_TESTS")
    /\ At("stress")
    /\ UNCHANGED <<controllerVars, tables, history>>

EnterThroughput ==
    /\ Begins("THROUGHPUT")
    /\ At("throughput")
    /\ UNCHANGED <<controllerVars, tables, history>>

\* Mutant: a failed walk-forward goes on.
PhaseAfterAnyWalkForward(stage, verdict) ==
    CASE stage = "walk_forward" -> "HOLDOUT"
      [] stage = "stress" -> "THROUGHPUT"
      [] stage = "throughput" -> "FINAL_REVIEW"
      [] OTHER -> IF verdict = "FAIL" THEN "REJECTED" ELSE "STRESS_TESTS"

PhaseAfter(stage, verdict) ==
    CASE verdict = "FAIL" -> "REJECTED"
      [] verdict = "PASS" /\ stage = "walk_forward" -> "HOLDOUT"
      [] verdict = "PASS" /\ stage = "holdout" -> "STRESS_TESTS"
      [] stage = "stress" -> "THROUGHPUT"
      [] OTHER -> "FINAL_REVIEW"

\* The stage has run with the parameters of the frozen rounds; its result is
\* stored, and decides the next phase.  The holdout apart, a stage can be run
\* again and nothing counts how often: its run is part of this step.
SaveResult ==
    /\ call.step \in Stages
    /\ \E verdict \in StageVerdicts[call.step] :
         /\ results' = [results EXCEPT ![call.step] =
                          [verdict |-> verdict, parameters |-> Selected]]
         /\ ThenMove(PhaseAfter(call.step, verdict))
    /\ UNCHANGED <<controllerVars, baseline, rounds, decision, candidate,
                   review, history>>

-----------------------------------------------------------------------------
\* final_review

Classification ==
    IF {results["walk_forward"].verdict, results["holdout"].verdict} # {"PASS"}
      THEN "REJECTED_UNSTABLE"
    ELSE IF results["stress"].verdict = "FRAGILE"
      THEN "REJECTED_EXECUTION_SENSITIVE"
    ELSE CASE results["throughput"].verdict = "PORTFOLIO_COMPONENT_ONLY" ->
                "ACCEPTED_PORTFOLIO_COMPONENT"
           [] results["throughput"].verdict = "INSUFFICIENT_EVIDENCE" ->
                "INSUFFICIENT_EVIDENCE"
           [] OTHER -> "ACCEPTED_STANDALONE"

PhaseOfClass(class) ==
    CASE class \in Accepting -> "ACCEPTED"
      [] class \in Rejecting -> "REJECTED"
      [] OTHER -> "INSUFFICIENT_EVIDENCE"

FinalReview ==
    /\ Begins("FINAL_REVIEW")
    /\ baseline # "NONE"
    /\ \A s \in Stages : results[s].verdict # "NONE"
    /\ review' = Classification
    /\ ThenMove(PhaseOfClass(Classification))
    /\ UNCHANGED <<controllerVars, baseline, rounds, decision, candidate,
                   results, history>>

Next ==
    \/ MoveOn \/ FreezeFamilies \/ Abort
    \/ ReuseBaseline \/ RunBaseline \/ SaveBaseline
    \/ EvaluateEdge
    \/ Analyze \/ ProposeRound
    \/ BeginRound \/ RunExperiment \/ ReviewRound \/ FreezeFamily
    \/ FreezeCandidate
    \/ EnterWalkForward \/ EnterHoldout \/ EnterStress \/ EnterThroughput
    \/ RunHoldout \/ SaveResult
    \/ FinalReview

Spec == Init /\ [][Next]_vars

-----------------------------------------------------------------------------

RoundRow ==
    [family : Mutable, status : {"PROPOSED", "SELECTED", "STOPPED", "FROZEN"},
     value : Values \cup {NoValue}, review : Reviews \cup {"NONE"}]

Result ==
    [verdict : {"NONE"} \cup UNION {StageVerdicts[s] : s \in Stages},
     parameters : Parameters]

Steps ==
    {"idle", "move", "freeze", "baseline", "experiments", "opened"} \cup Stages

\* Every row the research tables can hold, and the method in progress.
TypeOK ==
    /\ phase \in PipelineState
    /\ baseline \in Outcomes \cup {"NONE"}
    /\ rounds \in Seq(RoundRow)
    /\ decision \in Mutable \cup {NoFamily}
    /\ candidate \in Parameters
    /\ results \in [Stages -> Result]
    /\ review \in Classifications \cup {"NONE"}
    /\ ran \in Nat /\ holdoutRuns \in Nat
    /\ call \in [step : Steps, round : Nat, left : Nat, to : PipelineState,
                 outcome : Outcomes \cup {"NONE"}]

\* The phases that follow a stage on the way to acceptance.
AfterStress == {"THROUGHPUT", "FINAL_REVIEW", "ACCEPTED"}
AfterHoldout == {"STRESS_TESTS"} \cup AfterStress
AfterWalkForward == {"HOLDOUT"} \cup AfterHoldout
AfterEdge ==
    {"PARAMETER_RESEARCH", "CANDIDATE_FREEZE", "WALK_FORWARD"}
      \cup AfterWalkForward

\* Whatever was retried or cut short, a strategy in a phase has behind it what
\* the earlier phases had to find: a baseline that B.5 verified (the edge gate
\* evaluates no other), walk-forward and holdout results that passed, a stress
\* result, and for acceptance a review that accepts.
EvidenceBehindPhase ==
    /\ phase \in AfterEdge => baseline = "VERIFIED"
    /\ phase \in AfterWalkForward => results["walk_forward"].verdict = "PASS"
    /\ phase \in AfterHoldout =>
         results["holdout"].verdict = "PASS" /\ accesses = 1
    /\ phase \in AfterStress => results["stress"].verdict # "NONE"
    /\ phase = "ACCEPTED" =>
         review \in Accepting /\ results["throughput"].verdict # "NONE"

\* A strategy that was ended says why: a rejection has a failed stage or a
\* review that rejects, and so have the two undecided ends.
VerdictOnRecord ==
    /\ phase = "REJECTED" =>
         \/ review \in Rejecting
         \/ results["walk_forward"].verdict = "FAIL"
         \/ results["holdout"].verdict = "FAIL"
    /\ phase = "INSUFFICIENT_EVIDENCE" =>
         \/ review = "INSUFFICIENT_EVIDENCE"
         \/ \E k \in DOMAIN rounds : rounds[k].review = "INSUFFICIENT_EVIDENCE"
    /\ phase = "MANUAL_REVIEW_REQUIRED" =>
         \/ review = "MANUAL_REVIEW_REQUIRED"
         \/ \E k \in DOMAIN rounds : rounds[k].review = "VETO"

\* The stages re-derive the candidate from the rounds instead of reading the
\* frozen manifest; every result is nevertheless about the candidate of the
\* manifest saved last.
ValidatedAsFrozen ==
    \A s \in Stages :
      results[s].verdict # "NONE" => results[s].parameters = candidate

\* No parameter experiment runs that was not paid for, over any number of
\* crashes and repeated rounds: all that ever ran is within the budget.
PaidBeforeRun ==
    /\ ran <= usage.total_backtests
    /\ usage.total_backtests <= Limits.max_total_backtests

\* The holdout data are read by one backtest at most, under a recorded access.
HoldoutRunOnce == holdoutRuns <= accesses /\ accesses <= 1

\* Once the holdout is open no result of it can change what is selected: no
\* parameter experiment runs, no round is reviewed or frozen, no other
\* candidate is saved.  (A round can still be proposed.)
HoldoutEndsResearch ==
    [][accesses > 0 =>
         /\ ran' = ran /\ candidate' = candidate /\ Selected' = Selected
         /\ \A k \in DOMAIN rounds : rounds'[k] = rounds[k]]_vars
=============================================================================
