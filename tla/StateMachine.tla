---------------------------- MODULE StateMachine ----------------------------
(***************************************************************************)
(* enums.py PipelineState and TERMINAL_STATES, and the transition table of *)
(* controller/state_machine.py; a state with no entry has no legal move.   *)
(***************************************************************************)

TerminalStates ==
    {"ACCEPTED", "REJECTED", "INSUFFICIENT_EVIDENCE", "TECHNICAL_FAILURE",
     "MANUAL_REVIEW_REQUIRED", "INSUFFICIENT_DIAGNOSTIC_DATA"}

WorkingStates ==
    {"STRATEGY_DRAFT", "WAITING_FOR_SPEC_APPROVAL", "IMPLEMENTATION",
     "IMPLEMENTATION_VERIFICATION", "TECHNICAL_INTEGRITY_VERIFICATION",
     "TECHNICAL_REPAIR_REQUIRED", "BASELINE_BACKTEST", "EDGE_GATE",
     "PARAMETER_RESEARCH", "CANDIDATE_FREEZE", "WALK_FORWARD", "HOLDOUT",
     "STRESS_TESTS", "THROUGHPUT", "RISK_SIZING", "PROP_SIMULATION",
     "MULTI_STRATEGY_PORTFOLIO", "FINAL_REVIEW"}

PipelineState == WorkingStates \cup TerminalStates

Verdicts == {"REJECTED", "INSUFFICIENT_EVIDENCE", "MANUAL_REVIEW_REQUIRED"}

Breakdowns == {"TECHNICAL_FAILURE", "MANUAL_REVIEW_REQUIRED"}

LegalTransitions ==
    [s \in PipelineState |->
      CASE s = "STRATEGY_DRAFT" -> {"WAITING_FOR_SPEC_APPROVAL"}
        [] s = "WAITING_FOR_SPEC_APPROVAL" ->
             {"IMPLEMENTATION", "REJECTED", "MANUAL_REVIEW_REQUIRED"}
        [] s = "IMPLEMENTATION" ->
             {"IMPLEMENTATION_VERIFICATION"} \cup Breakdowns
        [] s = "IMPLEMENTATION_VERIFICATION" ->
             {"TECHNICAL_INTEGRITY_VERIFICATION", "BASELINE_BACKTEST"}
               \cup Breakdowns
        [] s = "TECHNICAL_INTEGRITY_VERIFICATION" ->
             {"BASELINE_BACKTEST", "TECHNICAL_REPAIR_REQUIRED",
              "INSUFFICIENT_DIAGNOSTIC_DATA"} \cup Breakdowns
        [] s = "TECHNICAL_REPAIR_REQUIRED" ->
             {"TECHNICAL_INTEGRITY_VERIFICATION"} \cup Breakdowns
        [] s = "BASELINE_BACKTEST" -> {"EDGE_GATE"} \cup Breakdowns
        [] s = "EDGE_GATE" -> {"PARAMETER_RESEARCH"} \cup Verdicts
        [] s = "PARAMETER_RESEARCH" ->
             {"CANDIDATE_FREEZE"} \cup Verdicts \cup Breakdowns
        [] s = "CANDIDATE_FREEZE" -> {"WALK_FORWARD"} \cup Breakdowns
        [] s = "WALK_FORWARD" -> {"HOLDOUT"} \cup Verdicts
        [] s = "HOLDOUT" -> {"STRESS_TESTS"} \cup Verdicts
        [] s = "STRESS_TESTS" -> {"THROUGHPUT"} \cup Verdicts
        [] s = "THROUGHPUT" -> {"RISK_SIZING", "FINAL_REVIEW"} \cup Verdicts
        [] s = "RISK_SIZING" -> {"PROP_SIMULATION"} \cup Verdicts
        [] s = "PROP_SIMULATION" -> {"MULTI_STRATEGY_PORTFOLIO"} \cup Verdicts
        [] s = "MULTI_STRATEGY_PORTFOLIO" -> {"FINAL_REVIEW"} \cup Verdicts
        [] s = "FINAL_REVIEW" -> {"ACCEPTED"} \cup Verdicts
        [] OTHER -> {}]

\* StateMachine.validate_transition does not raise.
Legal(old, new) == new \in LegalTransitions[old]
=============================================================================
