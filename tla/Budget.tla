------------------------------- MODULE Budget -------------------------------
(***************************************************************************)
(* The pure budget check of controller/budget_enforcer.py: a request is    *)
(* refused, or it is charged to a copy of the usage that the caller then   *)
(* stores.  The usage record is schemas/budgets.py BudgetUsage, with a     *)
(* missing dictionary key read as NoFamily or 0, as the code's .get does.  *)
(* RoundIds bounds the round numbers a dictionary key can name.            *)
(***************************************************************************)
EXTENDS Integers, FiniteSets

CONSTANTS
    Families,     \* names of the parameter families of a specification
    NoFamily,     \* family=None, and a round that no family owns
    NoRound,      \* round_id=None
    RoundIds,     \* the research-round numbers that can be keys
    Limits        \* the ResearchBudget of the strategy version

LimitFields ==
    {"max_parameter_families", "max_rounds_per_family", "max_values_per_round",
     "max_total_backtests", "max_codex_repair_attempts",
     "max_runtime_minutes_per_phase", "max_report_size_mb",
     "max_holdout_accesses"}

ASSUME BudgetAssumption ==
    /\ IsFiniteSet(Families)
    /\ NoFamily \notin Families
    /\ RoundIds \subseteq Nat
    /\ NoRound \notin Int
    /\ Limits \in [LimitFields -> Nat]

BudgetUsage ==
    [parameter_families    : SUBSET Families,
     rounds_per_family     : [Families -> Nat],
     values_per_round      : [Families -> Nat],
     family_by_round       : [RoundIds -> Families \cup {NoFamily}],
     values_by_round       : [RoundIds -> Nat],
     total_backtests       : Nat,
     codex_repair_attempts : Nat,
     runtime_minutes       : Nat,
     report_size_mb        : Nat,
     holdout_accesses      : Nat]

BudgetRequest ==
    [backtests : Int, family : Families \cup {NoFamily}, rounds : Int,
     values : Int, codex_repairs : Int, runtime_minutes : Int,
     report_size_mb : Int, round_id : Int \cup {NoRound}]

ZeroUsage ==
    [parameter_families    |-> {},
     rounds_per_family     |-> [f \in Families |-> 0],
     values_per_round      |-> [f \in Families |-> 0],
     family_by_round       |-> [k \in RoundIds |-> NoFamily],
     values_by_round       |-> [k \in RoundIds |-> 0],
     total_backtests       |-> 0,
     codex_repair_attempts |-> 0,
     runtime_minutes       |-> 0,
     report_size_mb        |-> 0,
     holdout_accesses      |-> 0]

-----------------------------------------------------------------------------

NonNegative(r) ==
    \A field \in {"backtests", "rounds", "values", "codex_repairs",
                  "runtime_minutes", "report_size_mb"} : r[field] >= 0

\* A family without an explicit round number continues its own count.
FirstRound(u, r) ==
    IF r.round_id # NoRound THEN r.round_id
                            ELSE u.rounds_per_family[r.family] + 1

RoundsTouched(u, r) ==
    FirstRound(u, r) .. (FirstRound(u, r) + r.rounds - 1)

\* Mutant: a round that anyone may join.
RoundAdmitsAnyFamily(u, r, k) ==
    u.values_by_round[k] + r.values <= Limits.max_values_per_round

RoundAdmits(u, r, k) ==
    /\ u.family_by_round[k] \in {NoFamily, r.family}
    /\ u.values_by_round[k] + r.values <= Limits.max_values_per_round

FamilyAdmits(u, r) ==
    /\ \/ r.family \in u.parameter_families
       \/ Cardinality(u.parameter_families) < Limits.max_parameter_families
    /\ r.round_id # NoRound => r.rounds = 1
    /\ RoundsTouched(u, r) \subseteq RoundIds
    /\ \A k \in RoundsTouched(u, r) : RoundAdmits(u, r, k)
    /\ u.rounds_per_family[r.family] + r.rounds <= Limits.max_rounds_per_family
    /\ r.values <= Limits.max_values_per_round

\* Mutant: the limit is compared before the backtests are added.
TotalsAdmitBefore(u, r) ==
    /\ u.total_backtests <= Limits.max_total_backtests
    /\ u.codex_repair_attempts + r.codex_repairs
         <= Limits.max_codex_repair_attempts
    /\ u.runtime_minutes + r.runtime_minutes
         <= Limits.max_runtime_minutes_per_phase
    /\ u.report_size_mb + r.report_size_mb <= Limits.max_report_size_mb

TotalsAdmit(u, r) ==
    /\ u.total_backtests + r.backtests <= Limits.max_total_backtests
    /\ u.codex_repair_attempts + r.codex_repairs
         <= Limits.max_codex_repair_attempts
    /\ u.runtime_minutes + r.runtime_minutes
         <= Limits.max_runtime_minutes_per_phase
    /\ u.report_size_mb + r.report_size_mb <= Limits.max_report_size_mb

\* BudgetEnforcer.check does not raise.
Admits(u, r) ==
    /\ NonNegative(r)
    /\ IF r.family = NoFamily THEN r.rounds = 0 /\ r.values = 0
                              ELSE FamilyAdmits(u, r)
    /\ TotalsAdmit(u, r)

\* Mutant: the family's value book ignores how many rounds the values were
\* charged to.
ChargeFamilyOncePerRequest(u, r) ==
    LET touched == RoundsTouched(u, r) IN
    [u EXCEPT
        !.parameter_families = @ \cup {r.family},
        !.family_by_round = [k \in RoundIds |->
            IF k \in touched THEN r.family ELSE @[k]],
        !.values_by_round = [k \in RoundIds |->
            IF k \in touched THEN @[k] + r.values ELSE @[k]],
        !.rounds_per_family[r.family] = @ + r.rounds,
        !.values_per_round[r.family] = @ + r.values]

ChargeFamily(u, r) ==
    LET touched == RoundsTouched(u, r) IN
    [u EXCEPT
        !.parameter_families = @ \cup {r.family},
        !.family_by_round = [k \in RoundIds |->
            IF k \in touched THEN r.family ELSE @[k]],
        !.values_by_round = [k \in RoundIds |->
            IF k \in touched THEN @[k] + r.values ELSE @[k]],
        !.rounds_per_family[r.family] = @ + r.rounds,
        !.values_per_round[r.family] = @ + r.values * r.rounds]

ChargeTotals(u, r) ==
    [u EXCEPT !.total_backtests = @ + r.backtests,
              !.codex_repair_attempts = @ + r.codex_repairs,
              !.runtime_minutes = @ + r.runtime_minutes,
              !.report_size_mb = @ + r.report_size_mb]

\* The usage that BudgetEnforcer.check returns for a request it admits.
Charge(u, r) ==
    ChargeTotals(IF r.family = NoFamily THEN u ELSE ChargeFamily(u, r), r)

-----------------------------------------------------------------------------

(* No usage that passed the check is over a limit, in total or per round.  *)
(* (holdout_accesses is counted by the holdout lock, not by the check.)    *)
WithinLimits(u) ==
    /\ Cardinality(u.parameter_families) <= Limits.max_parameter_families
    /\ \A f \in Families :
         u.rounds_per_family[f] <= Limits.max_rounds_per_family
    /\ \A k \in RoundIds :
         u.values_by_round[k] <= Limits.max_values_per_round
    /\ u.total_backtests <= Limits.max_total_backtests
    /\ u.codex_repair_attempts <= Limits.max_codex_repair_attempts
    /\ u.runtime_minutes <= Limits.max_runtime_minutes_per_phase
    /\ u.report_size_mb <= Limits.max_report_size_mb

(* Only a family that holds one of the family slots owns rounds or values. *)
OwnersRegistered(u) ==
    /\ \A k \in RoundIds : u.family_by_round[k] # NoFamily =>
         u.family_by_round[k] \in u.parameter_families
    /\ \A k \in RoundIds : u.values_by_round[k] > 0 =>
         u.family_by_round[k] # NoFamily
    /\ \A f \in Families : u.rounds_per_family[f] > 0 =>
         f \in u.parameter_families
=============================================================================
