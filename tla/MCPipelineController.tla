------------------------ MODULE MCPipelineController ------------------------
(* Small budgets, one mutable family g and one immutable h.                *)
EXTENDS PipelineController, TLC

CONSTANTS g, h, s1, s2, p1, p2

MCFamilies == {g, h}

MCMutable == {g}

MCRoundIds == 1..2

MCLimits ==
    [max_parameter_families |-> 1, max_rounds_per_family |-> 1,
     max_values_per_round |-> 1, max_total_backtests |-> 1,
     max_codex_repair_attempts |-> 0, max_runtime_minutes_per_phase |-> 0,
     max_report_size_mb |-> 0, max_holdout_accesses |-> 1]

Request(family, rounds, backtests) ==
    [backtests |-> backtests, family |-> family, rounds |-> rounds,
     values |-> rounds, codex_repairs |-> 0, runtime_minutes |-> 0,
     report_size_mb |-> 0, round_id |-> NoRound]

\* A research round of each family, a plain backtest, one too many, and a
\* negative runtime.
AllRequests ==
    {Request(g, 1, 0), Request(h, 1, 0), Request(NoFamily, 0, 1),
     Request(NoFamily, 0, 2),
     [Request(NoFamily, 0, 0) EXCEPT !.runtime_minutes = -1]}

\* Only plain backtests.
BacktestRequests == {Request(NoFamily, 0, 1)}

MCHashes == {s1, s2}

OneHash == {s1}

\* The phases callers ask for: all of them, and the spine of a strategy that
\* reaches its holdout.
AllTargets == PipelineState

\* The phases in which the specification is decided on.
ApprovalTargets == {"IMPLEMENTATION", "REJECTED"}

SpineTargets ==
    {"IMPLEMENTATION_VERIFICATION", "BASELINE_BACKTEST", "EDGE_GATE",
     "PARAMETER_RESEARCH", "CANDIDATE_FREEZE", "WALK_FORWARD", "HOLDOUT"}

\* A pass and a repairable failure.
MCOutcomes == {"VERIFIED", "TECHNICAL_REPAIR_REQUIRED"}

OnlyVerified == {"VERIFIED"}

Symmetry == Permutations(Procs)
=============================================================================
