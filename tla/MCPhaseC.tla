------------------------------ MODULE MCPhaseC ------------------------------
(* Two mutable families with a slot each, two values, and rounds that can   *)
(* be paid for twice: a retried round is possible, a third one is not.      *)
EXTENDS PhaseC, TLC

CONSTANTS g, h, v1, v2

MCFamilies == {g, h}

MCOrder == <<g, h>>

MCValues == {v1, v2}

MCRoundIds == 1..4

MCLimits ==
    [max_parameter_families |-> 2, max_rounds_per_family |-> 2,
     max_values_per_round |-> 4, max_total_backtests |-> 6,
     max_codex_repair_attempts |-> 0, max_runtime_minutes_per_phase |-> 0,
     max_report_size_mb |-> 0, max_holdout_accesses |-> 1]

\* A pass and a failure.
MCOutcomes == {"VERIFIED", "TECHNICAL_REPAIR_REQUIRED"}

Symmetry == Permutations(Values)
=============================================================================
