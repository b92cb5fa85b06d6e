---------------------------- MODULE MCMasterRun ----------------------------
(* The budget and the split play no part beyond the one holdout access.     *)
EXTENDS MasterRun

CONSTANTS g

MCFamilies == {g}

MCRoundIds == {1}

MCLimits ==
    [max_parameter_families |-> 1, max_rounds_per_family |-> 1,
     max_values_per_round |-> 1, max_total_backtests |-> 1,
     max_codex_repair_attempts |-> 0, max_runtime_minutes_per_phase |-> 0,
     max_report_size_mb |-> 0, max_holdout_accesses |-> 1]
=============================================================================
