---------------------------- MODULE BudgetLedger ----------------------------
(***************************************************************************)
(* What BudgetEnforcer.check guarantees of the usage it returns, for every *)
(* budget and every request, and a ledger that is kept with it: one writer *)
(* whose admitted requests replace the stored usage (pipeline_controller.py*)
(* consume_budget with nobody else writing).  PipelineController composes  *)
(* the same check with several writers; its proofs take the first part.    *)
(***************************************************************************)
EXTENDS Budget, FiniteSetsExt, FiniteSetTheorems, WellFoundedInduction, TLAPS

-----------------------------------------------------------------------------
\* The check

(* The family's part of a charge keeps the shape of BudgetUsage.           *)
LEMMA ChargeFamilyTyped ==
    ASSUME NEW u \in BudgetUsage, NEW r \in BudgetRequest, Admits(u, r),
           r.family # NoFamily
    PROVE  ChargeFamily(u, r) \in BudgetUsage
<1> USE BudgetAssumption
<1>1. r.rounds \in Nat /\ r.values \in Nat
  BY DEF Admits, NonNegative, BudgetRequest
<1>2. r.family \in Families
  BY DEF BudgetRequest
<1>3. r.values * r.rounds \in Nat
  BY <1>1
<1> DEFINE touched == RoundsTouched(u, r)
           owners  == [k \in RoundIds |-> IF k \in touched THEN r.family
                                         ELSE u.family_by_round[k]]
           values  == [k \in RoundIds |->
                         IF k \in touched
                           THEN u.values_by_round[k] + r.values
                           ELSE u.values_by_round[k]]
           rounds  == [u.rounds_per_family EXCEPT
                         ![r.family] = @ + r.rounds]
           spent   == [u.values_per_round EXCEPT
                         ![r.family] = @ + r.values * r.rounds]
<1>4. u.parameter_families \cup {r.family} \in SUBSET Families
  BY <1>2 DEF BudgetUsage
<1>5. owners \in [RoundIds -> Families \cup {NoFamily}]
  BY <1>2 DEF BudgetUsage
<1>6. values \in [RoundIds -> Nat]
  BY <1>1 DEF BudgetUsage
<1>7. rounds \in [Families -> Nat]
  BY <1>1, <1>2 DEF BudgetUsage
<1>8. spent \in [Families -> Nat]
  BY <1>2, <1>3 DEF BudgetUsage
<1>9. ChargeFamily(u, r) =
        [u EXCEPT !.parameter_families = u.parameter_families \cup {r.family},
                  !.family_by_round = owners,
                  !.values_by_round = values,
                  !.rounds_per_family = rounds,
                  !.values_per_round = spent]
  BY DEF ChargeFamily
<1> HIDE DEF owners, values, rounds, spent
<1> QED BY <1>4, <1>5, <1>6, <1>7, <1>8, <1>9 DEF BudgetUsage

(* An admitted request is charged to a usage of the same shape: nothing    *)
(* becomes negative and no key outside the dictionaries is written.        *)
LEMMA ChargeTyped ==
    ASSUME NEW u \in BudgetUsage, NEW r \in BudgetRequest, Admits(u, r)
    PROVE  Charge(u, r) \in BudgetUsage
<1> USE BudgetAssumption
<1>1. /\ r.backtests \in Nat /\ r.codex_repairs \in Nat
      /\ r.runtime_minutes \in Nat /\ r.report_size_mb \in Nat
      /\ r.rounds \in Nat /\ r.values \in Nat
  BY DEF Admits, NonNegative, BudgetRequest
<1>2. \A w \in BudgetUsage : ChargeTotals(w, r) \in BudgetUsage
  <2> SUFFICES ASSUME NEW w \in BudgetUsage
               PROVE  ChargeTotals(w, r) \in BudgetUsage
    OBVIOUS
  <2>1. /\ w.total_backtests + r.backtests \in Nat
        /\ w.codex_repair_attempts + r.codex_repairs \in Nat
        /\ w.runtime_minutes + r.runtime_minutes \in Nat
        /\ w.report_size_mb + r.report_size_mb \in Nat
    BY <1>1 DEF BudgetUsage
  <2> QED BY <2>1, ZenonT(30) DEF ChargeTotals, BudgetUsage
<1>3. CASE r.family = NoFamily
  BY <1>2, <1>3 DEF Charge
<1>4. CASE r.family # NoFamily
  <2>1. ChargeFamily(u, r) \in BudgetUsage
    BY <1>4, ChargeFamilyTyped
  <2> QED BY <1>2, <1>4, <2>1 DEF Charge
<1> QED BY <1>3, <1>4

(* Charging a family leaves the totals alone, and the other way round.     *)
LEMMA ChargeTotalsFields ==
    ASSUME NEW u \in BudgetUsage, NEW r \in BudgetRequest
    PROVE  /\ ChargeTotals(u, r).parameter_families = u.parameter_families
           /\ ChargeTotals(u, r).rounds_per_family = u.rounds_per_family
           /\ ChargeTotals(u, r).values_by_round = u.values_by_round
           /\ ChargeTotals(u, r).values_per_round = u.values_per_round
           /\ ChargeTotals(u, r).family_by_round = u.family_by_round
           /\ ChargeTotals(u, r).holdout_accesses = u.holdout_accesses
           /\ ChargeTotals(u, r).total_backtests
                = u.total_backtests + r.backtests
           /\ ChargeTotals(u, r).codex_repair_attempts
                = u.codex_repair_attempts + r.codex_repairs
           /\ ChargeTotals(u, r).runtime_minutes
                = u.runtime_minutes + r.runtime_minutes
           /\ ChargeTotals(u, r).report_size_mb
                = u.report_size_mb + r.report_size_mb
BY DEF ChargeTotals, BudgetUsage

\* The fields a family charge changes, one by one.
LEMMA ChargeFamilyFields ==
    ASSUME NEW u \in BudgetUsage, NEW r \in BudgetRequest,
           r.family \in Families
    PROVE  /\ ChargeFamily(u, r).parameter_families = u.parameter_families \cup {r.family}
           /\ ChargeFamily(u, r).family_by_round = [k \in RoundIds |->
                IF k \in RoundsTouched(u, r)
                  THEN r.family ELSE u.family_by_round[k]]
           /\ ChargeFamily(u, r).rounds_per_family = [u.rounds_per_family EXCEPT
                ![r.family] = u.rounds_per_family[r.family] + r.rounds]
           /\ ChargeFamily(u, r).values_by_round = [k \in RoundIds |->
                IF k \in RoundsTouched(u, r)
                  THEN u.values_by_round[k] + r.values
                  ELSE u.values_by_round[k]]
           /\ ChargeFamily(u, r).values_per_round = [u.values_per_round EXCEPT
                ![r.family] = u.values_per_round[r.family]
                                + r.values * r.rounds]
           /\ ChargeFamily(u, r).total_backtests = u.total_backtests
           /\ ChargeFamily(u, r).codex_repair_attempts = u.codex_repair_attempts
           /\ ChargeFamily(u, r).runtime_minutes = u.runtime_minutes
           /\ ChargeFamily(u, r).report_size_mb = u.report_size_mb
           /\ ChargeFamily(u, r).holdout_accesses = u.holdout_accesses
BY DEF ChargeFamily, BudgetUsage

(* The holdout counter is the holdout lock's: no charge moves it.          *)
LEMMA ChargeKeepsHoldout ==
    ASSUME NEW u \in BudgetUsage, NEW r \in BudgetRequest, Admits(u, r)
    PROVE  Charge(u, r).holdout_accesses = u.holdout_accesses
<1>1. CASE r.family = NoFamily
  BY <1>1, ChargeTotalsFields DEF Charge
<1>2. CASE r.family # NoFamily
  <2>1. r.family \in Families
    BY <1>2 DEF BudgetRequest
  <2>2. ChargeFamily(u, r) \in BudgetUsage
    BY <1>2, <2>1, ChargeFamilyTyped DEF Admits
  <2>3. Charge(u, r) = ChargeTotals(ChargeFamily(u, r), r)
    BY <1>2 DEF Charge
  <2>4. Charge(u, r).holdout_accesses = ChargeFamily(u, r).holdout_accesses
    BY <2>2, <2>3, ChargeTotalsFields
  <2> QED BY <2>1, <2>4, ChargeFamilyFields
<1> QED BY <1>1, <1>2

(* A usage within the limits stays within them when an admitted request is *)
(* charged: the check looks at the very sums that the charge then stores.  *)
LEMMA ChargeWithinLimits ==
    ASSUME NEW u \in BudgetUsage, NEW r \in BudgetRequest,
           Admits(u, r), WithinLimits(u)
    PROVE  WithinLimits(Charge(u, r))
<1> USE BudgetAssumption
<1>1. CASE r.family = NoFamily
  BY <1>1, ChargeTotalsFields DEF Charge, Admits, TotalsAdmit, WithinLimits
<1>2. CASE r.family # NoFamily
  <2> DEFINE w == ChargeFamily(u, r)
             c == Charge(u, r)
  <2>1. r.family \in Families /\ FamilyAdmits(u, r)
    BY <1>2 DEF BudgetRequest, Admits
  <2>2. w \in BudgetUsage
    BY <1>2, <2>1, ChargeFamilyTyped DEF Admits
  <2>3. c = ChargeTotals(w, r)
    BY <1>2 DEF Charge
  <2>f. /\ w.parameter_families = u.parameter_families \cup {r.family}
        /\ w.rounds_per_family = [u.rounds_per_family EXCEPT
             ![r.family] = u.rounds_per_family[r.family] + r.rounds]
        /\ w.values_by_round = [k \in RoundIds |->
             IF k \in RoundsTouched(u, r)
               THEN u.values_by_round[k] + r.values
               ELSE u.values_by_round[k]]
        /\ w.total_backtests = u.total_backtests
        /\ w.codex_repair_attempts = u.codex_repair_attempts
        /\ w.runtime_minutes = u.runtime_minutes
        /\ w.report_size_mb = u.report_size_mb
    BY <2>1, ChargeFamilyFields
  <2>c. /\ c.parameter_families = w.parameter_families
        /\ c.rounds_per_family = w.rounds_per_family
        /\ c.values_by_round = w.values_by_round
        /\ c.total_backtests = w.total_backtests + r.backtests
        /\ c.codex_repair_attempts
             = w.codex_repair_attempts + r.codex_repairs
        /\ c.runtime_minutes = w.runtime_minutes + r.runtime_minutes
        /\ c.report_size_mb = w.report_size_mb + r.report_size_mb
    BY <2>2, <2>3, ChargeTotalsFields
  <2> HIDE DEF w, c
  <2>4. Cardinality(w.parameter_families) <= Limits.max_parameter_families
    <3>1. IsFiniteSet(u.parameter_families)
      BY FS_Subset DEF BudgetUsage
    <3>2. Cardinality(u.parameter_families) \in Nat
      BY <3>1, FS_CardinalityType
    <3>3. Limits.max_parameter_families \in Nat
      BY DEF LimitFields
    <3>4. CASE r.family \in u.parameter_families
      <4>1. w.parameter_families = u.parameter_families
        BY <2>f, <3>4
      <4> QED BY <4>1 DEF WithinLimits
    <3>5. CASE r.family \notin u.parameter_families
      <4>1. Cardinality(u.parameter_families \cup {r.family})
              = Cardinality(u.parameter_families) + 1
        BY <3>1, <3>5, FS_AddElement
      <4> QED BY <2>1, <3>2, <3>3, <3>5, <4>1, <2>f
              DEF FamilyAdmits
    <3> QED BY <3>4, <3>5
  <2>5. \A f \in Families :
          w.rounds_per_family[f] <= Limits.max_rounds_per_family
    BY <2>1, <2>f DEF FamilyAdmits, WithinLimits, BudgetUsage
  <2>6. \A k \in RoundIds :
          w.values_by_round[k] <= Limits.max_values_per_round
    BY <2>1, <2>f
       DEF FamilyAdmits, RoundAdmits, WithinLimits, BudgetUsage
  <2>8. /\ c.total_backtests <= Limits.max_total_backtests
        /\ c.codex_repair_attempts <= Limits.max_codex_repair_attempts
        /\ c.runtime_minutes <= Limits.max_runtime_minutes_per_phase
        /\ c.report_size_mb <= Limits.max_report_size_mb
    BY <2>f, <2>c DEF Admits, TotalsAdmit
  <2>9. WithinLimits(c)
    BY <2>4, <2>5, <2>6, <2>c, <2>8 DEF WithinLimits
  <2> QED BY <2>9 DEF c
<1> QED BY <1>1, <1>2

(* A charge counts the backtests of its request, whatever else it charges. *)
LEMMA ChargeCountsBacktests ==
    ASSUME NEW u \in BudgetUsage, NEW r \in BudgetRequest, Admits(u, r)
    PROVE  Charge(u, r).total_backtests = u.total_backtests + r.backtests
<1>1. CASE r.family = NoFamily
  BY <1>1, ChargeTotalsFields DEF Charge
<1>2. CASE r.family # NoFamily
  <2>1. r.family \in Families
    BY <1>2 DEF BudgetRequest
  <2>2. ChargeFamily(u, r) \in BudgetUsage
    BY <1>2, <2>1, ChargeFamilyTyped DEF Admits
  <2>3. Charge(u, r).total_backtests
          = ChargeFamily(u, r).total_backtests + r.backtests
    BY <1>2, <2>2, ChargeTotalsFields DEF Charge
  <2> QED BY <2>1, <2>3, ChargeFamilyFields
<1> QED BY <1>1, <1>2

(* A request without a family leaves every family's books as they were.    *)
LEMMA PlainChargeKeepsFamilies ==
    ASSUME NEW u \in BudgetUsage, NEW r \in BudgetRequest,
           r.family = NoFamily
    PROVE  /\ Charge(u, r).parameter_families = u.parameter_families
           /\ Charge(u, r).rounds_per_family = u.rounds_per_family
           /\ Charge(u, r).values_by_round = u.values_by_round
           /\ Charge(u, r).values_per_round = u.values_per_round
           /\ Charge(u, r).family_by_round = u.family_by_round
BY ChargeTotalsFields DEF Charge

(* What a charge for a family writes into the books that are kept by round *)
(* and by family.                                                          *)
LEMMA FamilyChargeFields ==
    ASSUME NEW u \in BudgetUsage, NEW r \in BudgetRequest,
           r.family # NoFamily, Admits(u, r)
    PROVE  /\ r.family \in Families /\ FamilyAdmits(u, r)
           /\ r.rounds \in Nat /\ r.values \in Nat
           /\ Charge(u, r).parameter_families
                = u.parameter_families \cup {r.family}
           /\ Charge(u, r).rounds_per_family = [u.rounds_per_family EXCEPT
                ![r.family] = u.rounds_per_family[r.family] + r.rounds]
           /\ Charge(u, r).family_by_round = [k \in RoundIds |->
                IF k \in RoundsTouched(u, r)
                  THEN r.family ELSE u.family_by_round[k]]
           /\ Charge(u, r).values_by_round = [k \in RoundIds |->
                IF k \in RoundsTouched(u, r)
                  THEN u.values_by_round[k] + r.values
                  ELSE u.values_by_round[k]]
           /\ Charge(u, r).values_per_round = [u.values_per_round EXCEPT
                ![r.family] = u.values_per_round[r.family]
                                + r.values * r.rounds]
<1>1. r.family \in Families /\ FamilyAdmits(u, r)
  BY DEF BudgetRequest, Admits
<1>2. r.rounds \in Nat /\ r.values \in Nat
  BY DEF Admits, NonNegative, BudgetRequest
<1>3. ChargeFamily(u, r) \in BudgetUsage
  BY ChargeFamilyTyped
<1>4. Charge(u, r) = ChargeTotals(ChargeFamily(u, r), r)
  BY DEF Charge
<1> QED BY <1>1, <1>2, <1>3, <1>4, ChargeTotalsFields, ChargeFamilyFields

-----------------------------------------------------------------------------
\* The ledger

CONSTANT LedgerRequests   \* the requests the callers make

ASSUME LedgerRequestsAssumption == LedgerRequests \subseteq BudgetRequest

VARIABLE ledger           \* budgets.usage_json

LedgerInit == ledger = ZeroUsage

ConsumeAlone(r) ==
    /\ Admits(ledger, r)
    /\ ledger' = Charge(ledger, r)

LedgerNext == \E r \in LedgerRequests : ConsumeAlone(r)

LedgerSpec == LedgerInit /\ [][LedgerNext]_ledger

-----------------------------------------------------------------------------

(* The stored usage always has the shape of BudgetUsage.                   *)
LedgerTypeOK == ledger \in BudgetUsage

(* No sequence of admitted requests takes any counter of the budget over   *)
(* its limit.                                                              *)
LimitsHold == WithinLimits(ledger)

RoundsOf(f) == {k \in RoundIds : ledger.family_by_round[k] = f}

(* The books of the code agree, although they are keyed and updated apart: *)
(* a round belongs to a family that has a slot, the values counted per     *)
(* family (values_per_round) are the values counted in the rounds it owns  *)
(* (values_by_round), and it owns no more rounds than it was charged for.  *)
BooksAgree ==
    /\ OwnersRegistered(ledger)
    /\ \A f \in Families :
         /\ ledger.values_per_round[f] =
              MapThenSumSet(LAMBDA k : ledger.values_by_round[k], RoundsOf(f))
         /\ Cardinality(RoundsOf(f)) <= ledger.rounds_per_family[f]

(* A research round never changes hands: once a family owns a round        *)
(* number, no later request gives it to another family.                    *)
RoundsKeepOwner ==
    [][\A k \in RoundIds : ledger.family_by_round[k] # NoFamily =>
         ledger'.family_by_round[k] = ledger.family_by_round[k]]_ledger

-----------------------------------------------------------------------------
(* The ledger's stored usage keeps the shape of BudgetUsage.               *)
THEOREM LedgerTyped == LedgerSpec => []LedgerTypeOK
<1>1. LedgerInit => LedgerTypeOK
  BY BudgetAssumption DEF LedgerInit, LedgerTypeOK, ZeroUsage, BudgetUsage
<1>2. LedgerTypeOK /\ [LedgerNext]_ledger => LedgerTypeOK'
  BY ChargeTyped, LedgerRequestsAssumption
     DEF LedgerTypeOK, LedgerNext, ConsumeAlone
<1> QED BY <1>1, <1>2, PTL DEF LedgerSpec

(* No sequence of requests takes the ledger over a limit.                  *)
THEOREM LedgerWithinLimits == LedgerSpec => []LimitsHold
<1>1. LedgerInit => LimitsHold
  BY BudgetAssumption, FS_EmptySet
     DEF LedgerInit, LimitsHold, WithinLimits, ZeroUsage, LimitFields
<1>2. LedgerTypeOK /\ LimitsHold /\ [LedgerNext]_ledger => LimitsHold'
  BY ChargeWithinLimits, LedgerRequestsAssumption
     DEF LedgerTypeOK, LimitsHold, LedgerNext, ConsumeAlone
<1> QED BY <1>1, <1>2, LedgerTyped, PTL DEF LedgerSpec

(* A research round number stays with the family that was charged for it   *)
(* first: the check compares the owner of every round a request touches.   *)
THEOREM LedgerRoundsKeepOwner == LedgerSpec => RoundsKeepOwner
<1> DEFINE Keeps ==
      \A k \in RoundIds : ledger.family_by_round[k] # NoFamily =>
        ledger'.family_by_round[k] = ledger.family_by_round[k]
<1>1. LedgerTypeOK /\ [LedgerNext]_ledger => [Keeps]_ledger
  <2> SUFFICES ASSUME LedgerTypeOK, NEW r \in LedgerRequests, ConsumeAlone(r)
               PROVE  Keeps
    BY DEF LedgerNext
  <2>1. /\ ledger \in BudgetUsage /\ r \in BudgetRequest
        /\ Admits(ledger, r) /\ ledger' = Charge(ledger, r)
    BY LedgerRequestsAssumption DEF LedgerTypeOK, ConsumeAlone
  <2>2. CASE r.family = NoFamily
    BY <2>1, <2>2, PlainChargeKeepsFamilies
  <2>3. CASE r.family # NoFamily
    <3>1. /\ FamilyAdmits(ledger, r)
          /\ ledger'.family_by_round = [k \in RoundIds |->
               IF k \in RoundsTouched(ledger, r)
                 THEN r.family ELSE ledger.family_by_round[k]]
      BY <2>1, <2>3, FamilyChargeFields
    <3> QED BY <3>1 DEF FamilyAdmits, RoundAdmits
  <2> QED BY <2>2, <2>3
<1> QED BY <1>1, LedgerTyped, PTL DEF LedgerSpec, RoundsKeepOwner

\* A family's rounds are finitely many, and paid for.
RoundsPaid ==
    \A f \in Families :
      /\ IsFiniteSet(RoundsOf(f))
      /\ Cardinality(RoundsOf(f)) <= ledger.rounds_per_family[f]

\* A request touches as many rounds as it asks for.
LEMMA TouchedCounted ==
    ASSUME NEW u \in BudgetUsage, NEW r \in BudgetRequest,
           r.family \in Families, r.rounds \in Nat
    PROVE  /\ IsFiniteSet(RoundsTouched(u, r))
           /\ Cardinality(RoundsTouched(u, r)) = r.rounds
<1> DEFINE a == FirstRound(u, r)
           b == a + r.rounds - 1
<1>1. a \in Int
  BY DEF FirstRound, BudgetUsage, BudgetRequest
<1>2. RoundsTouched(u, r) = a .. b
  BY DEF RoundsTouched
<1> HIDE DEF a
<1>3. b \in Int /\ (IF a > b THEN 0 ELSE b - a + 1) = r.rounds
  BY <1>1
<1> HIDE DEF b
<1>4. /\ IsFiniteSet(a .. b)
      /\ Cardinality(a .. b) = IF a > b THEN 0 ELSE b - a + 1
  BY <1>1, <1>3, FS_Interval
<1> QED BY <1>2, <1>3, <1>4

(* A request pays for every round it gives to its family.                  *)
LEMMA ChargePaysForRounds ==
    ASSUME LedgerTypeOK, RoundsPaid, NEW r \in LedgerRequests, ConsumeAlone(r)
    PROVE  RoundsPaid'
<1>1. /\ ledger \in BudgetUsage /\ r \in BudgetRequest
      /\ Admits(ledger, r) /\ ledger' = Charge(ledger, r)
  BY LedgerRequestsAssumption DEF LedgerTypeOK, ConsumeAlone
<1>2. CASE r.family = NoFamily
  <2>1. /\ ledger'.family_by_round = ledger.family_by_round
        /\ ledger'.rounds_per_family = ledger.rounds_per_family
    BY <1>1, <1>2, PlainChargeKeepsFamilies
  <2> QED BY <2>1 DEF RoundsPaid, RoundsOf
<1>3. CASE r.family # NoFamily
  <2> DEFINE g == r.family
             touched == RoundsTouched(ledger, r)
  <2>1. /\ g \in Families /\ FamilyAdmits(ledger, r) /\ r.rounds \in Nat
        /\ ledger'.family_by_round = [k \in RoundIds |->
             IF k \in touched THEN g ELSE ledger.family_by_round[k]]
        /\ ledger'.rounds_per_family = [ledger.rounds_per_family EXCEPT
             ![g] = ledger.rounds_per_family[g] + r.rounds]
    BY <1>1, <1>3, FamilyChargeFields
  <2>2. IsFiniteSet(touched) /\ Cardinality(touched) = r.rounds
    BY <1>1, <2>1, TouchedCounted
  <2> HIDE DEF touched
  <2>3. SUFFICES ASSUME NEW f \in Families
                 PROVE  /\ IsFiniteSet(RoundsOf(f)')
                        /\ Cardinality(RoundsOf(f)')
                             <= ledger'.rounds_per_family[f]
    BY DEF RoundsPaid, RoundsOf
  <2>4. /\ IsFiniteSet(RoundsOf(f)) /\ Cardinality(RoundsOf(f)) \in Nat
        /\ Cardinality(RoundsOf(f)) <= ledger.rounds_per_family[f]
        /\ ledger.rounds_per_family[f] \in Nat
    BY <1>1, FS_CardinalityType DEF RoundsPaid, BudgetUsage
  <2>5. CASE f = g
    <3>1. RoundsOf(f)' \subseteq RoundsOf(f) \cup touched
      BY <2>1, <2>5 DEF RoundsOf
    <3>2. /\ IsFiniteSet(RoundsOf(f) \cup touched)
          /\ Cardinality(RoundsOf(f) \cup touched)
               = Cardinality(RoundsOf(f)) + Cardinality(touched)
                   - Cardinality(RoundsOf(f) \cap touched)
      BY <2>2, <2>4, FS_Union
    <3>3. Cardinality(RoundsOf(f) \cap touched) \in Nat
      BY <2>4, FS_Subset, FS_CardinalityType
    <3>4. /\ IsFiniteSet(RoundsOf(f)') /\ Cardinality(RoundsOf(f)') \in Nat
          /\ Cardinality(RoundsOf(f)') <= Cardinality(RoundsOf(f) \cup touched)
      BY <3>1, <3>2, FS_Subset, FS_CardinalityType
    <3>5. ledger'.rounds_per_family[f] = ledger.rounds_per_family[f] + r.rounds
      BY <1>1, <2>1, <2>5 DEF BudgetUsage
    <3> QED BY <2>1, <2>2, <2>4, <3>2, <3>3, <3>4, <3>5
  <2>6. CASE f # g
    <3>1. RoundsOf(f)' \subseteq RoundsOf(f)
      BY <2>1, <2>6 DEF RoundsOf
    <3>2. /\ IsFiniteSet(RoundsOf(f)')
          /\ Cardinality(RoundsOf(f)') <= Cardinality(RoundsOf(f))
      BY <2>4, <3>1, FS_Subset
    <3>3. Cardinality(RoundsOf(f)') \in Nat
      BY <3>2, FS_CardinalityType
    <3>4. ledger'.rounds_per_family[f] = ledger.rounds_per_family[f]
      BY <1>1, <2>1, <2>6 DEF BudgetUsage
    <3> QED BY <2>4, <3>2, <3>3, <3>4
  <2> QED BY <2>5, <2>6
<1> QED BY <1>2, <1>3

\* And it gives a slot to the family it charges.
LEMMA ChargeRegistersOwner ==
    ASSUME LedgerTypeOK, OwnersRegistered(ledger),
           NEW r \in LedgerRequests, ConsumeAlone(r)
    PROVE  OwnersRegistered(ledger')
<1>1. /\ ledger \in BudgetUsage /\ r \in BudgetRequest
      /\ Admits(ledger, r) /\ ledger' = Charge(ledger, r)
  BY LedgerRequestsAssumption DEF LedgerTypeOK, ConsumeAlone
<1>2. CASE r.family = NoFamily
  BY <1>1, <1>2, PlainChargeKeepsFamilies DEF OwnersRegistered
<1>3. CASE r.family # NoFamily
  <2>1. /\ r.family \in Families /\ r.family # NoFamily
        /\ ledger'.parameter_families
             = ledger.parameter_families \cup {r.family}
        /\ ledger'.rounds_per_family = [ledger.rounds_per_family EXCEPT
             ![r.family] = ledger.rounds_per_family[r.family] + r.rounds]
        /\ ledger'.family_by_round = [k \in RoundIds |->
             IF k \in RoundsTouched(ledger, r)
               THEN r.family ELSE ledger.family_by_round[k]]
        /\ ledger'.values_by_round = [k \in RoundIds |->
             IF k \in RoundsTouched(ledger, r)
               THEN ledger.values_by_round[k] + r.values
               ELSE ledger.values_by_round[k]]
    BY <1>1, <1>3, FamilyChargeFields
  <2>2. \A k \in RoundIds : ledger'.family_by_round[k] # NoFamily =>
          ledger'.family_by_round[k] \in ledger'.parameter_families
    BY <2>1 DEF OwnersRegistered
  <2>3. \A k \in RoundIds : ledger'.values_by_round[k] > 0 =>
          ledger'.family_by_round[k] # NoFamily
    BY <2>1 DEF OwnersRegistered
  <2>4. \A f \in Families : ledger'.rounds_per_family[f] > 0 =>
          f \in ledger'.parameter_families
    BY <1>1, <2>1 DEF OwnersRegistered, BudgetUsage
  <2> QED BY <2>2, <2>3, <2>4 DEF OwnersRegistered
<1> QED BY <1>2, <1>3

(* Every round that has an owner was paid for by that family, and the      *)
(* family holds a slot: BooksAgree without its sum of values.              *)
THEOREM LedgerRoundsPaid ==
    LedgerSpec => [](OwnersRegistered(ledger) /\ RoundsPaid)
<1>1. LedgerInit => OwnersRegistered(ledger) /\ RoundsPaid
  <2> SUFFICES ASSUME LedgerInit PROVE OwnersRegistered(ledger) /\ RoundsPaid
    OBVIOUS
  <2>1. /\ \A k \in RoundIds : /\ ledger.family_by_round[k] = NoFamily
                               /\ ledger.values_by_round[k] = 0
        /\ \A f \in Families : ledger.rounds_per_family[f] = 0
    BY DEF LedgerInit, ZeroUsage
  <2>2. \A f \in Families : RoundsOf(f) = {}
    BY <2>1, BudgetAssumption DEF RoundsOf
  <2> QED BY <2>1, <2>2, FS_EmptySet DEF OwnersRegistered, RoundsPaid
<1>2. LedgerTypeOK /\ (OwnersRegistered(ledger) /\ RoundsPaid)
        /\ [LedgerNext]_ledger => (OwnersRegistered(ledger) /\ RoundsPaid)'
  BY ChargePaysForRounds, ChargeRegistersOwner
     DEF LedgerNext, OwnersRegistered, RoundsPaid, RoundsOf
<1> QED BY <1>1, <1>2, LedgerTyped, PTL DEF LedgerSpec

-----------------------------------------------------------------------------
\* Induction

(* A set of numbers has a smallest one.                                    *)
LEMMA SmallestNumber ==
    ASSUME NEW T \in SUBSET Nat, T # {}
    PROVE  \E n \in T : \A m \in T : n <= m
<1> DEFINE Less == {ss \in Nat \X Nat : ss[1] < ss[2]}
<1>1. IsWellFoundedOn(Less, Nat)
  <2>1. IsWellFoundedOn(OpToRel(<, Nat), Nat)
    BY NatLessThanWellFounded
  <2>2. OpToRel(<, Nat) = Less
    BY DEF OpToRel
  <2> QED BY <2>1, <2>2
<1>2. PICK n \in T : \A m \in T : <<m, n>> \notin Less
  <2> HIDE DEF Less
  <2> QED BY <1>1, WFMin
<1>3. \A m \in T : ~(m < n)
  BY <1>2
<1> QED BY <1>3

(* A property of the numbers that holds of 0 and is passed on holds of all. *)
LEMMA NumberInduction ==
    ASSUME NEW T \in SUBSET Nat, 0 \in T, \A n \in T : n + 1 \in T
    PROVE  T = Nat
<1>1. SUFFICES ASSUME Nat \ T # {} PROVE FALSE
  OBVIOUS
<1>2. PICK n \in Nat \ T : \A m \in Nat \ T : n <= m
  BY <1>1, SmallestNumber
<1>3. n # 0 /\ n - 1 \in Nat /\ ~(n <= n - 1)
  BY <1>2
<1>4. n - 1 \in T
  BY <1>2, <1>3
<1>5. n = (n - 1) + 1
  BY <1>2
<1> QED BY <1>2, <1>4, <1>5

(* What holds of the empty set, and of a set when it holds of the set      *)
(* without any one of its members, holds of every subset of a finite set.  *)
LEMMA SubsetInduction ==
    ASSUME NEW S, IsFiniteSet(S), NEW P, {} \in P,
           \A s \in SUBSET S :
             s # {} /\ (\A x \in s : s \ {x} \in P) => s \in P
    PROVE  SUBSET S \subseteq P
<1>1. \A s \in SUBSET S : IsFiniteSet(s) /\ Cardinality(s) \in Nat
  BY FS_Subset, FS_CardinalityType
<1> DEFINE T == {n \in Nat : \A s \in SUBSET S : Cardinality(s) = n => s \in P}
<1>2. 0 \in T
  BY <1>1, FS_EmptySet
<1>3. ASSUME NEW n \in T PROVE n + 1 \in T
  <2>1. SUFFICES ASSUME NEW s \in SUBSET S, Cardinality(s) = n + 1
                 PROVE  s \in P
    OBVIOUS
  <2>2. s # {}
    BY <2>1, FS_EmptySet
  <2>3. ASSUME NEW x \in s PROVE s \ {x} \in P
    <3>1. Cardinality(s \ {x}) = n
      BY <1>1, <2>1, FS_RemoveElement
    <3> QED BY <3>1
  <2> QED BY <2>2, <2>3
<1>4. T = Nat
  <2>1. T \in SUBSET Nat
    OBVIOUS
  <2> HIDE DEF T
  <2> QED BY <1>2, <1>3, <2>1, NumberInduction
<1> QED BY <1>1, <1>4

\* g is computed from h by taking out of a set what c chooses from it.
IsRecursion(S, base, c, h, g) ==
    /\ g[{}] = base
    /\ \A s \in SUBSET S : s # {} => g[s] = h[<<c[s], g[s \ {c[s]}]>>]

(* A function over the subsets of a finite set that is computed element by  *)
(* element, in the order c takes them out, exists.                         *)
LEMMA RecursionExists ==
    ASSUME NEW S, IsFiniteSet(S), NEW B, NEW base \in B,
           NEW c, \A s \in SUBSET S : s # {} => c[s] \in s,
           NEW h \in [S \X B -> B]
    PROVE  \E g \in [SUBSET S -> B] : IsRecursion(S, base, c, h, g)
<1> DEFINE Once(g) == [s \in SUBSET S |->
                         IF s = {} THEN base ELSE h[<<c[s], g[s \ {c[s]}]>>]]
           UpTo(n, g) == \A s \in SUBSET S :
                           Cardinality(s) <= n => g[s] = Once(g)[s]
           T == {n \in Nat : \E g \in [SUBSET S -> B] : UpTo(n, g)}
<1>1. \A s \in SUBSET S : IsFiniteSet(s) /\ Cardinality(s) \in Nat
  BY FS_Subset, FS_CardinalityType
<1>2. 0 \in T
  <2> DEFINE g == [s \in SUBSET S |-> base]
  <2>1. g \in [SUBSET S -> B]
    OBVIOUS
  <2>2. ASSUME NEW s \in SUBSET S, Cardinality(s) <= 0
        PROVE  g[s] = Once(g)[s]
    <3>1. Cardinality(s) = 0
      BY <1>1, <2>2
    <3>2. s = {}
      BY <1>1, <3>1, FS_EmptySet
    <3> QED BY <3>2
  <2>3. UpTo(0, g)
    BY <2>2
  <2> QED BY <2>1, <2>3
<1>3. ASSUME NEW n \in T PROVE n + 1 \in T
  <2>1. PICK g \in [SUBSET S -> B] : UpTo(n, g)
    OBVIOUS
  <2>2. Once(g) \in [SUBSET S -> B]
    OBVIOUS
  <2>3. ASSUME NEW s \in SUBSET S, Cardinality(s) <= n + 1
        PROVE  Once(g)[s] = Once(Once(g))[s]
    <3>1. CASE s = {}
      BY <3>1
    <3>2. CASE s # {}
      <4>1. c[s] \in s
        BY <3>2
      <4>2. Cardinality(s \ {c[s]}) = Cardinality(s) - 1
        BY <1>1, <4>1, FS_RemoveElement
      <4>3. s \ {c[s]} \in SUBSET S /\ Cardinality(s \ {c[s]}) <= n
        BY <1>1, <2>3, <4>2
      <4>4. g[s \ {c[s]}] = Once(g)[s \ {c[s]}]
        BY <2>1, <4>3
      <4>5. Once(g)[s] = h[<<c[s], g[s \ {c[s]}]>>]
        BY <3>2
      <4>6. Once(Once(g))[s] = h[<<c[s], Once(g)[s \ {c[s]}]>>]
        BY <3>2
      <4> QED BY <4>4, <4>5, <4>6
    <3> QED BY <3>1, <3>2
  <2>4. UpTo(n + 1, Once(g))
    BY <2>3
  <2> HIDE DEF Once, UpTo
  <2> QED BY <2>2, <2>4
<1>4. Cardinality(S) \in T
  <2> HIDE DEF T
  <2>1. T \in SUBSET Nat
    BY DEF T
  <2>2. T = Nat
    BY <1>2, <1>3, <2>1, NumberInduction
  <2> QED BY <1>1, <2>2
<1>5. PICK g \in [SUBSET S -> B] : UpTo(Cardinality(S), g)
  BY <1>4
<1>6. \A s \in SUBSET S : Cardinality(s) <= Cardinality(S)
  BY FS_Subset
<1> QED BY <1>5, <1>6 DEF IsRecursion

-----------------------------------------------------------------------------
\* Sums

TakenFirst(s) == CHOOSE x \in s : TRUE

IsSum(v, S, g) ==
    g = [s \in SUBSET S |-> IF s = {} THEN 0
           ELSE v[TakenFirst(s)] + g[s \ {TakenFirst(s)}]]

\* The sum of v over S as MapThenSumSet computes it.
SumOver(v, S) == (CHOOSE g : IsSum(v, S, g))[S]

\* Of integers, it is an integer for every part of S.
IsIntSum(v, S, g) == IsSum(v, S, g) /\ g \in [SUBSET S -> Int]

(* Integers over a finite set have one.                                   *)
LEMMA SumExists ==
    ASSUME NEW S, IsFiniteSet(S), NEW v, \A x \in S : v[x] \in Int
    PROVE  \E g : IsIntSum(v, S, g)
<1> DEFINE c == [s \in SUBSET S |-> TakenFirst(s)]
           h == [p \in S \X Int |-> v[p[1]] + p[2]]
<1>1. \A s \in SUBSET S : s # {} => c[s] \in s
  BY DEF TakenFirst
<1>2. h \in [S \X Int -> Int]
  OBVIOUS
<1>3. \A x \in S, b \in Int : h[<<x, b>>] = v[x] + b
  OBVIOUS
<1>0. 0 \in Int
  OBVIOUS
<1> HIDE DEF h, c
<1>4. PICK g \in [SUBSET S -> Int] : IsRecursion(S, 0, c, h, g)
  BY <1>0, <1>1, <1>2, RecursionExists, Zenon
<1>5. ASSUME NEW s \in SUBSET S
      PROVE  g[s] = IF s = {} THEN 0
                    ELSE v[TakenFirst(s)] + g[s \ {TakenFirst(s)}]
  <2>1. CASE s # {}
    <3>1. c[s] = TakenFirst(s) /\ c[s] \in S
      BY <1>1, <2>1 DEF c
    <3>2. g[s \ {c[s]}] \in Int
      OBVIOUS
    <3> QED BY <1>3, <1>4, <2>1, <3>1, <3>2 DEF IsRecursion
  <2> QED BY <1>4, <2>1 DEF IsRecursion
<1> QED BY <1>5 DEF IsIntSum, IsSum

\* SumOver is one, and an integer.
LEMMA SumChosen ==
    ASSUME NEW S, IsFiniteSet(S), NEW v, \A x \in S : v[x] \in Int
    PROVE  \E g : IsIntSum(v, S, g) /\ SumOver(v, S) = g[S]
<1> DEFINE g == CHOOSE g : IsSum(v, S, g)
<1>1. PICK e : IsIntSum(v, S, e)
  BY SumExists
<1>2. IsSum(v, S, g)
  BY <1>1 DEF IsIntSum
<1>3. SumOver(v, S) = g[S]
  BY DEF SumOver
<1> HIDE DEF g
<1>4. DOMAIN g = SUBSET S /\ g = [s \in SUBSET S |-> g[s]]
  BY <1>2 DEF IsIntSum, IsSum
<1> DEFINE P == {s \in SUBSET S : g[s] \in Int}
<1>5. SUBSET S \subseteq P
  <2>1. {} \in P
    BY <1>2 DEF IsIntSum, IsSum
  <2>2. ASSUME NEW s \in SUBSET S, s # {}, \A x \in s : s \ {x} \in P
        PROVE  s \in P
    <3>1. TakenFirst(s) \in s
      BY <2>2 DEF TakenFirst
    <3>2. g[s \ {TakenFirst(s)}] \in Int
      BY <2>2, <3>1
    <3>3. g[s] = v[TakenFirst(s)] + g[s \ {TakenFirst(s)}]
      BY <1>2, <2>2 DEF IsIntSum, IsSum
    <3> QED BY <3>1, <3>2, <3>3
  <2> HIDE DEF P
  <2> QED BY <2>1, <2>2, SubsetInduction
<1>6. g \in [SUBSET S -> Int]
  BY <1>4, <1>5
<1> QED BY <1>2, <1>3, <1>6 DEF IsIntSum

(* The order in which a sum is taken does not matter: any element may come *)
(* first.                                                                  *)
LEMMA SumInAnyOrder ==
    ASSUME NEW S, IsFiniteSet(S), NEW v, \A x \in S : v[x] \in Int,
           NEW g, IsIntSum(v, S, g),
           NEW x \in S
    PROVE  g[S] = v[x] + g[S \ {x}]
<1> DEFINE P == {q \in SUBSET S : \A y \in q : g[q] = v[y] + g[q \ {y}]}
<1>1. \A q \in SUBSET S : q # {} =>
        TakenFirst(q) \in q /\ g[q] = v[TakenFirst(q)] + g[q \ {TakenFirst(q)}]
  BY DEF IsIntSum, IsSum, TakenFirst
<1>2. \A q \in SUBSET S : g[q] \in Int
  BY DEF IsIntSum
<1>3. ASSUME NEW q \in SUBSET S, q # {}, \A y \in q : q \ {y} \in P
      PROVE  q \in P
  <2>1. SUFFICES ASSUME NEW y \in q PROVE g[q] = v[y] + g[q \ {y}]
    BY <1>3
  <2>2. PICK z \in q : g[q] = v[z] + g[q \ {z}]
    BY <1>1, <1>3
  <2>3. CASE y = z
    BY <2>2, <2>3
  <2>4. CASE y # z
    <3>1. g[q \ {z}] = v[y] + g[(q \ {z}) \ {y}]
      BY <1>3, <2>4
    <3>2. g[q \ {y}] = v[z] + g[(q \ {y}) \ {z}]
      BY <1>3, <2>4
    <3>3. (q \ {z}) \ {y} = (q \ {y}) \ {z}
      OBVIOUS
    <3>4. /\ v[y] \in Int /\ v[z] \in Int
          /\ g[(q \ {y}) \ {z}] \in Int
      BY <1>2
    <3>5. /\ v[z] + (v[y] + g[(q \ {y}) \ {z}])
               = v[y] + (v[z] + g[(q \ {y}) \ {z}])
      BY <3>4
    <3> QED BY <2>2, <3>1, <3>2, <3>3, <3>4, <3>5, Zenon
  <2> QED BY <2>3, <2>4
<1>4. {} \in P
  OBVIOUS
<1>5. SUBSET S \subseteq P
  <2> HIDE DEF P
  <2> QED BY <1>3, <1>4, SubsetInduction
<1> QED BY <1>5

\* Sums over a set and over a part of it agree on what they have in common.
LEMMA SumsAgree ==
    ASSUME NEW S, IsFiniteSet(S), NEW R, R \subseteq S, NEW v,
           NEW g, IsIntSum(v, S, g),
           NEW e, IsIntSum(v, R, e)
    PROVE  e[R] = g[R]
<1> DEFINE P == {s \in SUBSET R : e[s] = g[s]}
<1>1. {} \in P
  BY DEF IsIntSum, IsSum
<1>2. ASSUME NEW s \in SUBSET R, s # {}, \A x \in s : s \ {x} \in P
      PROVE  s \in P
  <2>1. TakenFirst(s) \in s
    BY <1>2 DEF TakenFirst
  <2>2. e[s] = v[TakenFirst(s)] + e[s \ {TakenFirst(s)}]
    BY <1>2 DEF IsIntSum, IsSum
  <2>3. g[s] = v[TakenFirst(s)] + g[s \ {TakenFirst(s)}]
    BY <1>2 DEF IsIntSum, IsSum
  <2> QED BY <1>2, <2>1, <2>2, <2>3
<1>3. SUBSET R \subseteq P
  <2>1. IsFiniteSet(R)
    BY FS_Subset
  <2> HIDE DEF P
  <2> QED BY <1>1, <1>2, <2>1, SubsetInduction
<1> QED BY <1>3

(* The sum over nothing is 0.                                              *)
LEMMA SumOfNone ==
    ASSUME NEW v PROVE SumOver(v, {}) = 0
<1>1. PICK g : IsIntSum(v, {}, g) /\ SumOver(v, {}) = g[{}]
  BY FS_EmptySet, SumChosen
<1> QED BY <1>1 DEF IsIntSum, IsSum

\* And an element more adds its value.
LEMMA SumOfOneMore ==
    ASSUME NEW S, IsFiniteSet(S), NEW x \in S,
           NEW v, \A y \in S : v[y] \in Int
    PROVE  /\ SumOver(v, S) \in Int /\ SumOver(v, S \ {x}) \in Int
           /\ SumOver(v, S) = SumOver(v, S \ {x}) + v[x]
<1> DEFINE R == S \ {x}
<1>1. IsFiniteSet(R) /\ R \subseteq S /\ \A y \in R : v[y] \in Int
  BY FS_Subset
<1>2. PICK g : IsIntSum(v, S, g) /\ SumOver(v, S) = g[S]
  BY SumChosen
<1> HIDE DEF R
<1>3. PICK e : IsIntSum(v, R, e) /\ SumOver(v, R) = e[R]
  BY <1>1, SumChosen
<1>4. e[R] = g[R]
  BY <1>1, <1>2, <1>3, SumsAgree
<1>5. g[S] = v[x] + g[R]
  BY <1>1, <1>2, SumInAnyOrder DEF R
<1>6. v[x] \in Int /\ g[S] \in Int /\ g[R] \in Int
  BY <1>1, <1>2 DEF IsIntSum
<1> QED BY <1>2, <1>3, <1>4, <1>5, <1>6 DEF R

(* Adding a to the value of every element of S that is in B adds a for     *)
(* each of them to the sum.                                                *)
LEMMA SumRaised ==
    ASSUME NEW S, IsFiniteSet(S), NEW B, NEW a \in Int,
           NEW v, \A x \in S : v[x] \in Int,
           NEW w, \A x \in S : w[x] = IF x \in B THEN v[x] + a ELSE v[x]
    PROVE  SumOver(w, S) = SumOver(v, S) + a * Cardinality(S \cap B)
<1> DEFINE P == {s \in SUBSET S : SumOver(w, s)
                   = SumOver(v, s) + a * Cardinality(s \cap B)}
<1>1. {} \in P
  <2>1. {} \cap B = {} /\ Cardinality({}) = 0
    BY FS_EmptySet
  <2> QED BY <2>1, SumOfNone
<1>2. ASSUME NEW s \in SUBSET S, s # {}, \A x \in s : s \ {x} \in P
      PROVE  s \in P
  <2>1. PICK x \in s : TRUE
    BY <1>2
  <2> DEFINE q == s \ {x}
             n == Cardinality(q \cap B)
  <2>2. SumOver(w, q) = SumOver(v, q) + a * n
    BY <1>2
  <2>3. /\ IsFiniteSet(s) /\ IsFiniteSet(q \cap B) /\ IsFiniteSet(s \cap B)
        /\ n \in Int
    BY FS_Subset, FS_CardinalityType
  <2>4. \A y \in s : v[y] \in Int /\ w[y] \in Int
    OBVIOUS
  <2>5. /\ SumOver(w, s) = SumOver(w, q) + w[x]
        /\ SumOver(v, s) = SumOver(v, q) + v[x]
        /\ SumOver(w, q) \in Int /\ SumOver(v, q) \in Int
    BY <2>3, <2>4, SumOfOneMore
  <2>6. CASE x \in B
    <3>1. q \cap B = (s \cap B) \ {x} /\ x \in s \cap B
      BY <2>6
    <3>2. Cardinality(s \cap B) = n + 1
      <4>1. Cardinality((s \cap B) \ {x}) = Cardinality(s \cap B) - 1
        BY <2>3, <3>1, FS_RemoveElement
      <4>2. n = Cardinality((s \cap B) \ {x})
        BY <3>1
      <4>3. Cardinality(s \cap B) \in Nat
        BY <2>3, FS_CardinalityType
      <4> QED BY <4>1, <4>2, <4>3
    <3>3. w[x] = v[x] + a /\ v[x] \in Int
      BY <2>6
    <3> HIDE DEF n, q
    <3>4. a * (n + 1) = a * n + a /\ a * n \in Int
      BY <2>3
    <3> QED BY <2>2, <2>5, <3>2, <3>3, <3>4
  <2>7. CASE x \notin B
    <3>1. q \cap B = s \cap B
      BY <2>7
    <3>2. w[x] = v[x] /\ v[x] \in Int
      BY <2>7
    <3>3. Cardinality(s \cap B) = n
      BY <3>1
    <3> HIDE DEF n, q
    <3>4. a * n \in Int
      BY <2>3
    <3> QED BY <2>2, <2>5, <3>2, <3>3, <3>4
  <2> QED BY <2>6, <2>7
<1>3. SUBSET S \subseteq P
  <2> HIDE DEF P
  <2> QED BY <1>1, <1>2, SubsetInduction
<1> QED BY <1>3

(* Elements of value 0 can be added to the set.                            *)
LEMMA SumExtended ==
    ASSUME NEW A, IsFiniteSet(A), NEW B, IsFiniteSet(B),
           NEW v, \A x \in A \cup B : v[x] \in Int,
           \A x \in B \ A : v[x] = 0
    PROVE  SumOver(v, A \cup B) = SumOver(v, A)
<1> DEFINE P == {s \in SUBSET B : SumOver(v, A \cup s) = SumOver(v, A)}
<1>1. {} \in P
  <2>1. A \cup {} = A
    OBVIOUS
  <2> QED BY <2>1
<1>2. ASSUME NEW s \in SUBSET B, s # {}, \A x \in s : s \ {x} \in P
      PROVE  s \in P
  <2>1. PICK x \in s : TRUE
    BY <1>2
  <2>2. SumOver(v, A \cup (s \ {x})) = SumOver(v, A)
    BY <1>2
  <2>3. CASE x \in A
    <3>1. A \cup s = A \cup (s \ {x})
      BY <2>3
    <3> QED BY <2>2, <3>1
  <2>4. CASE x \notin A
    <3>1. (A \cup s) \ {x} = A \cup (s \ {x}) /\ x \in A \cup s
      BY <2>4
    <3>2. IsFiniteSet(s)
      BY FS_Subset
    <3>3. IsFiniteSet(A \cup s)
      BY <3>2, FS_Union
    <3>4. \A y \in A \cup s : v[y] \in Int
      OBVIOUS
    <3>5. v[x] = 0
      BY <2>4
    <3>6. /\ SumOver(v, A \cup s) = SumOver(v, (A \cup s) \ {x}) + v[x]
          /\ SumOver(v, (A \cup s) \ {x}) \in Int
      BY <3>1, <3>3, <3>4, SumOfOneMore
    <3>7. SumOver(v, A \cup s) = SumOver(v, (A \cup s) \ {x})
      BY <3>5, <3>6
    <3>8. SumOver(v, A \cup s) = SumOver(v, A)
      BY <2>2, <3>1, <3>7
    <3> QED BY <3>8
  <2> QED BY <2>3, <2>4
<1>3. SUBSET B \subseteq P
  <2> HIDE DEF P
  <2> QED BY <1>1, <1>2, SubsetInduction
<1> QED BY <1>3

-----------------------------------------------------------------------------
\* The values a family was charged for

\* A family's value counter is the sum over the rounds it owns.
ValuesPaid ==
    \A f \in Families :
      ledger.values_per_round[f] = SumOver(ledger.values_by_round, RoundsOf(f))

(* A request counts its values once for the family and once for every      *)
(* round it touches; a round that was not owned had no values.             *)
LEMMA ChargeCountsValues ==
    ASSUME LedgerTypeOK, OwnersRegistered(ledger), RoundsPaid, ValuesPaid,
           NEW r \in LedgerRequests, ConsumeAlone(r)
    PROVE  ValuesPaid'
<1>1. /\ ledger \in BudgetUsage /\ r \in BudgetRequest
      /\ Admits(ledger, r) /\ ledger' = Charge(ledger, r)
  BY LedgerRequestsAssumption DEF LedgerTypeOK, ConsumeAlone
<1>2. CASE r.family = NoFamily
  <2>1. /\ ledger'.family_by_round = ledger.family_by_round
        /\ ledger'.values_by_round = ledger.values_by_round
        /\ ledger'.values_per_round = ledger.values_per_round
    BY <1>1, <1>2, PlainChargeKeepsFamilies
  <2> QED BY <2>1 DEF ValuesPaid, RoundsOf
<1>3. CASE r.family # NoFamily
  <2> DEFINE g == r.family
             touched == RoundsTouched(ledger, r)
  <2>1. r.family \in Families /\ r.rounds \in Nat
    BY <1>1, <1>3, FamilyChargeFields
  <2>2. /\ g \in Families /\ FamilyAdmits(ledger, r)
        /\ r.rounds \in Nat /\ r.values \in Nat
        /\ ledger'.family_by_round = [k \in RoundIds |->
             IF k \in touched THEN g ELSE ledger.family_by_round[k]]
        /\ ledger'.values_by_round = [k \in RoundIds |->
             IF k \in touched THEN ledger.values_by_round[k] + r.values
                              ELSE ledger.values_by_round[k]]
        /\ ledger'.values_per_round = [ledger.values_per_round EXCEPT
             ![g] = ledger.values_per_round[g] + r.values * r.rounds]
    BY <1>1, <1>3, FamilyChargeFields
  <2>3. IsFiniteSet(touched) /\ Cardinality(touched) = r.rounds
    BY <1>1, <2>1, TouchedCounted
  <2>4. /\ touched \subseteq RoundIds
        /\ \A k \in touched : ledger.family_by_round[k] \in {NoFamily, g}
    BY <2>2 DEF FamilyAdmits, RoundAdmits
  <2> HIDE DEF touched, g
  <2>5. SUFFICES ASSUME NEW f \in Families
                 PROVE  ledger'.values_per_round[f]
                          = SumOver(ledger'.values_by_round, RoundsOf(f)')
    BY DEF ValuesPaid, RoundsOf
  <2>6. PICK R, Q, v, w :
          /\ R = RoundsOf(f) /\ Q = RoundsOf(f)'
          /\ v = ledger.values_by_round /\ w = ledger'.values_by_round
    OBVIOUS
  <2>7. /\ IsFiniteSet(R) /\ R \subseteq RoundIds /\ Q \subseteq RoundIds
        /\ v \in [RoundIds -> Nat]
        /\ ledger.values_per_round[f] = SumOver(v, R)
    BY <1>1, <2>6 DEF RoundsPaid, ValuesPaid, RoundsOf, BudgetUsage
  <2>8. \A k \in RoundIds :
          w[k] = IF k \in touched THEN v[k] + r.values ELSE v[k]
    BY <2>2, <2>6
  <2>9. CASE f = g
    <3>1. Q = R \cup touched
      BY <2>2, <2>4, <2>6, <2>9 DEF RoundsOf
    <3>2. \A k \in touched \ R : v[k] = 0
      BY <2>4, <2>6, <2>7, <2>9 DEF OwnersRegistered, RoundsOf
    <3>3. IsFiniteSet(Q)
      BY <2>3, <2>7, <3>1, FS_Union
    <3>4. SumOver(v, Q) = SumOver(v, R)
      <4>1. \A k \in R \cup touched : v[k] \in Int
        BY <2>4, <2>7
      <4> QED BY <2>3, <2>7, <3>1, <3>2, <4>1, SumExtended
    <3>5. SumOver(w, Q) = SumOver(v, Q) + r.values * Cardinality(Q \cap touched)
      <4>1. \A k \in Q : v[k] \in Int
        BY <2>7
      <4>2. \A k \in Q : w[k] = IF k \in touched THEN v[k] + r.values ELSE v[k]
        BY <2>7, <2>8
      <4>3. r.values \in Int
        BY <2>2
      <4> QED BY <3>3, <4>1, <4>2, <4>3, SumRaised
    <3>6. Q \cap touched = touched
      BY <3>1
    <3>7. ledger'.values_per_round[f]
            = ledger.values_per_round[f] + r.values * r.rounds
      BY <1>1, <2>2, <2>9 DEF BudgetUsage
    <3> QED BY <2>3, <2>6, <2>7, <3>4, <3>5, <3>6, <3>7
  <2>10. CASE f # g
    <3>1. Q = R /\ R \cap touched = {}
      BY <2>2, <2>4, <2>6, <2>10, BudgetAssumption DEF RoundsOf
    <3>2. SumOver(w, R) = SumOver(v, R) + r.values * Cardinality(R \cap touched)
      <4>1. \A k \in R : v[k] \in Int
        BY <2>7
      <4>2. \A k \in R : w[k] = IF k \in touched THEN v[k] + r.values ELSE v[k]
        BY <2>7, <2>8
      <4>3. r.values \in Int
        BY <2>2
      <4>4. IsFiniteSet(R)
        BY <2>7
      <4> QED BY <4>1, <4>2, <4>3, <4>4, SumRaised
    <3>3. r.values * Cardinality(R \cap touched) = 0
      <4>1. Cardinality(R \cap touched) = 0
        BY <3>1, FS_EmptySet
      <4> QED BY <2>2, <4>1
    <3>4. SumOver(v, R) \in Int
      BY <1>1, <2>7 DEF BudgetUsage
    <3>5. ledger'.values_per_round[f] = ledger.values_per_round[f]
      BY <1>1, <2>2, <2>10 DEF BudgetUsage
    <3> QED BY <2>6, <2>7, <3>1, <3>2, <3>3, <3>4, <3>5
  <2> QED BY <2>9, <2>10
<1> QED BY <1>2, <1>3

(* The books that are keyed by round and by family agree, whatever was     *)
(* requested in whatever order (budget_enforcer.py:44-74).                 *)
THEOREM LedgerBooksAgree == LedgerSpec => []BooksAgree
<1> DEFINE Paid == OwnersRegistered(ledger) /\ RoundsPaid
<1>1. LedgerInit => ValuesPaid
  <2> SUFFICES ASSUME LedgerInit PROVE ValuesPaid
    OBVIOUS
  <2>1. \A f \in Families : RoundsOf(f) = {} /\ ledger.values_per_round[f] = 0
    BY BudgetAssumption DEF LedgerInit, ZeroUsage, RoundsOf
  <2> QED BY <2>1, SumOfNone DEF ValuesPaid
<1>2. LedgerTypeOK /\ Paid /\ ValuesPaid /\ [LedgerNext]_ledger => ValuesPaid'
  BY ChargeCountsValues DEF LedgerNext, ValuesPaid, RoundsOf
<1>3. Paid /\ ValuesPaid => BooksAgree
  <2> SUFFICES ASSUME Paid, ValuesPaid, NEW f \in Families
               PROVE  ledger.values_per_round[f] =
                 MapThenSumSet(LAMBDA k : ledger.values_by_round[k], RoundsOf(f))
    BY Zenon DEF BooksAgree, RoundsPaid
  <2>1. ledger.values_per_round[f]
          = SumOver(ledger.values_by_round, RoundsOf(f))
    BY DEF ValuesPaid
  <2> QED BY <2>1, Zenon
          DEF MapThenSumSet, MapThenFoldSet, SumOver, IsSum, TakenFirst
<1> HIDE DEF Paid
<1>4. LedgerSpec => []Paid
  BY LedgerRoundsPaid DEF Paid
<1> QED BY <1>1, <1>2, <1>3, <1>4, LedgerTyped, PTL DEF LedgerSpec
=============================================================================
