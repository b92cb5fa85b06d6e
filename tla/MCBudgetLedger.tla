--------------------------- MODULE MCBudgetLedger ---------------------------
(* Three families of which two fit, three research rounds, small limits.   *)
EXTENDS BudgetLedger, TLC

CONSTANTS f1, f2, f3

MCFamilies == {f1, f2, f3}

MCRoundIds == 1..3

MCLimits ==
    [max_parameter_families |-> 2, max_rounds_per_family |-> 2,
     max_values_per_round |-> 2, max_total_backtests |-> 2,
     max_codex_repair_attempts |-> 1, max_runtime_minutes_per_phase |-> 1,
     max_report_size_mb |-> 1, max_holdout_accesses |-> 1]

Request(family, rounds, values, round) ==
    [backtests |-> 0, family |-> family, rounds |-> rounds, values |-> values,
     codex_repairs |-> 0, runtime_minutes |-> 0, report_size_mb |-> 0,
     round_id |-> round]

FamilyRequests ==
    {Request(f, n, v, k) : f \in MCFamilies, n \in 0..2, v \in 0..3,
                           k \in MCRoundIds \cup {NoRound}}

PlainRequest(backtests, repairs, minutes, size) ==
    [Request(NoFamily, 0, 0, NoRound) EXCEPT
        !.backtests = backtests, !.codex_repairs = repairs,
        !.runtime_minutes = minutes, !.report_size_mb = size]

MCRequests ==
    FamilyRequests \cup {PlainRequest(1, 1, 0, 0), PlainRequest(1, 0, 1, 1),
                         PlainRequest(2, -1, 0, 0)}

Symmetry == Permutations(MCFamilies)
=============================================================================
