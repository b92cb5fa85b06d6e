-------------------------- MODULE AtomicController --------------------------
(***************************************************************************)
(* What the pipeline controller promises: every operation tests the        *)
(* registry and changes it in one step, so each test still holds when its  *)
(* change is made.  Only the operations that are two transactions in the   *)
(* code (submit, approve, freeze) are two steps here, and a crash may part *)
(* them.  PipelineController implements this when one process at a time    *)
(* drives a strategy.                                                      *)
(***************************************************************************)
EXTENDS Budget, StateMachine

CONSTANTS Mutable, Requests, SplitHashes, NoSplit, PhaseA, Outcomes

VARIABLES row, split, usage, verified, accesses, journal

vars == <<row, split, usage, verified, accesses, journal>>

ActiveSplit == IF split.invalidated THEN NoSplit ELSE split.hash

Init ==
    /\ row = [current_phase |-> "STRATEGY_DRAFT", approval_status |-> "DRAFT",
              parameters_frozen |-> FALSE, frozen_families |-> {},
              holdout_opened |-> FALSE]
    /\ split = [hash |-> NoSplit, invalidated |-> FALSE]
    /\ usage = ZeroUsage
    /\ verified = FALSE
    /\ accesses = 0
    /\ journal = <<"STRATEGY_DRAFT", "STRATEGY_DRAFT">>

\* A legal move out of the phase the strategy is in at that moment.
Move(to) ==
    /\ Legal(row.current_phase, to)
    /\ to = "BASELINE_BACKTEST" =>
         /\ row.current_phase = "TECHNICAL_INTEGRITY_VERIFICATION" => verified
         /\ row.current_phase = "IMPLEMENTATION_VERIFICATION" => PhaseA
    /\ to = "PARAMETER_RESEARCH" =>
         ActiveSplit # NoSplit /\ ~row.parameters_frozen
    /\ row' = [row EXCEPT !.current_phase = to]
    /\ journal' = <<row.current_phase, to>>
    /\ UNCHANGED <<split, usage, verified, accesses>>

MarkApproval(status) ==
    /\ row.current_phase = "WAITING_FOR_SPEC_APPROVAL"
    /\ row.approval_status # "APPROVED"
    /\ row' = [row EXCEPT !.approval_status = status]
    /\ UNCHANGED <<split, usage, verified, accesses, journal>>

FreezeFamilies ==
    /\ row.current_phase = "CANDIDATE_FREEZE"
    /\ row' = [row EXCEPT !.parameters_frozen = TRUE,
                          !.frozen_families = Mutable]
    /\ UNCHANGED <<split, usage, verified, accesses, journal>>

RecordOutcome(outcome) ==
    /\ row.current_phase \in
         {"TECHNICAL_INTEGRITY_VERIFICATION", "BASELINE_BACKTEST"}
    /\ verified' = (verified \/ outcome = "VERIFIED")
    /\ UNCHANGED <<row, split, usage, accesses, journal>>

Spend(r) ==
    /\ r.family # NoFamily => r.family \in Mutable /\ ~row.parameters_frozen
    /\ Admits(usage, r)
    /\ usage' = Charge(usage, r)
    /\ UNCHANGED <<row, split, verified, accesses, journal>>

DefineSplit(h) ==
    /\ split.hash = NoSplit
    /\ split' = [hash |-> h, invalidated |-> FALSE]
    /\ UNCHANGED <<row, usage, verified, accesses, journal>>

InvalidateSplit ==
    /\ ActiveSplit # NoSplit
    /\ split' = [split EXCEPT !.invalidated = TRUE]
    /\ UNCHANGED <<row, usage, verified, accesses, journal>>

OpenHoldout ==
    /\ row.current_phase = "HOLDOUT"
    /\ ~row.holdout_opened
    /\ usage.holdout_accesses < Limits.max_holdout_accesses
    /\ accesses' = accesses + 1
    /\ usage' = [usage EXCEPT !.holdout_accesses = @ + 1]
    /\ row' = [row EXCEPT !.holdout_opened = TRUE, !.parameters_frozen = TRUE]
    /\ UNCHANGED <<split, verified, journal>>

Next ==
    \/ \E to \in PipelineState : Move(to)
    \/ \E status \in {"SUBMITTED", "APPROVED"} : MarkApproval(status)
    \/ FreezeFamilies
    \/ \E outcome \in Outcomes : RecordOutcome(outcome)
    \/ \E r \in Requests : Spend(r)
    \/ \E h \in SplitHashes : DefineSplit(h)
    \/ InvalidateSplit
    \/ OpenHoldout

Spec == Init /\ [][Next]_vars
=============================================================================
