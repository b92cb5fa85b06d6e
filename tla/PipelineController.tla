------------------------- MODULE PipelineController -------------------------
(***************************************************************************)
(* One registered strategy version and the processes that drive it (CLI    *)
(* calls, workflow bridge calls): controller/pipeline_controller.py,       *)
(* controller/holdout_lock.py and the strategy part of                     *)
(* registry/repositories.py.                                               *)
(*                                                                         *)
(* registry/database.py opens every connection in sqlite3's default mode:  *)
(* a SELECT runs on its own, and a write transaction starts at the first   *)
(* INSERT or UPDATE.  So a method that selects, checks and then updates is *)
(* two steps here, and only the writes of one transaction are one step.    *)
(* What a process carries between its steps is in call[p].                 *)
(***************************************************************************)
EXTENDS Budget, StateMachine

VerificationOutcome ==
    {"VERIFIED", "TECHNICAL_REPAIR_REQUIRED", "MANUAL_REVIEW_REQUIRED",
     "INSUFFICIENT_DIAGNOSTIC_DATA", "TECHNICAL_FAILURE"}

CONSTANTS
    Procs,       \* processes that call the controller
    Mutable,     \* the parameter families the specification declares mutable
    Requests,    \* budget requests callers make
    Targets,     \* phases callers ask `transition` for
    SplitHashes, \* hashes of the split definitions callers create
    NoSplit,     \* get_split returns None: no row, or an invalidated one
    PhaseA,      \* the version starts with "phase-a-"
    Outcomes,    \* outcomes the verification runner comes to
    MaxConsumed  \* bound: backtests ever granted

ASSUME ControllerAssumption ==
    /\ Mutable \subseteq Families
    /\ Requests \subseteq BudgetRequest
    /\ Targets \subseteq PipelineState
    /\ NoSplit \notin SplitHashes
    /\ PhaseA \in BOOLEAN
    /\ Outcomes \subseteq VerificationOutcome
    /\ MaxConsumed \in Nat

VARIABLES
    row,        \* the strategies row
    split,      \* the splits row: its hash, and whether it is invalidated
    usage,      \* budgets.usage_json
    verified,   \* a verification_runs row with outcome VERIFIED exists
    lastOutcome,\* outcome of the newest verification_runs row, or "NONE"
    accesses,   \* number of holdout_accesses rows
    journal,    \* the last transitions row, <<old_state, new_state>>
    consumed,   \* history: backtests granted to callers
    pc,         \* where each process is
    call        \* what each process remembers of its call

db == <<row, split, usage, verified, lastOutcome, accesses, journal, consumed>>
vars == <<db, pc, call>>

ApprovalStatus == {"DRAFT", "SUBMITTED", "APPROVED"}

StrategyRow ==
    [current_phase : PipelineState, approval_status : ApprovalStatus,
     parameters_frozen : BOOLEAN, frozen_families : SUBSET Families,
     holdout_opened : BOOLEAN]

SplitRow == [hash : SplitHashes \cup {NoSplit}, invalidated : BOOLEAN]

ActiveSplit == IF split.invalidated THEN NoSplit ELSE split.hash

\* A process remembers the row it read, the phase it asks for, the usage it
\* is about to store, what it spends and the split it creates.
NoCall ==
    [op |-> "none", phase |-> "STRATEGY_DRAFT", frozen |-> FALSE,
     to |-> "STRATEGY_DRAFT", usage |-> ZeroUsage, spend |-> 0,
     hash |-> NoSplit]

Calls ==
    [op : {"none", "submit", "approve", "transition", "verify", "consume",
           "split", "holdout"},
     phase : PipelineState, frozen : BOOLEAN, to : PipelineState,
     usage : BudgetUsage, spend : Nat, hash : SplitHashes \cup {NoSplit}]

Steps ==
    {"idle", "guard", "select_phase", "write_phase", "freeze",
     "select_approval", "write_approval", "select_approved", "write_approved",
     "enter", "verify", "act_on_outcome", "read_budget", "write_budget",
     "select_split", "insert_split", "read_accesses", "write_access"}

Init ==
    /\ row = [current_phase |-> "STRATEGY_DRAFT", approval_status |-> "DRAFT",
              parameters_frozen |-> FALSE, frozen_families |-> {},
              holdout_opened |-> FALSE]
    /\ split = [hash |-> NoSplit, invalidated |-> FALSE]
    /\ usage = ZeroUsage
    /\ verified = FALSE
    /\ lastOutcome = "NONE"
    /\ accesses = 0
    /\ journal = <<"STRATEGY_DRAFT", "STRATEGY_DRAFT">>
    /\ consumed = 0
    /\ pc = [p \in Procs |-> "idle"]
    /\ call = [p \in Procs |-> NoCall]

-----------------------------------------------------------------------------

\* An operation starts by reading the strategies row.
Start(p, op, step, to) ==
    /\ pc[p] = "idle"
    /\ pc' = [pc EXCEPT ![p] = step]
    /\ call' = [call EXCEPT ![p] =
                  [NoCall EXCEPT !.op = op, !.to = to,
                                 !.phase = row.current_phase,
                                 !.frozen = row.parameters_frozen]]
    /\ UNCHANGED db

Goto(p, step) ==
    /\ pc' = [pc EXCEPT ![p] = step]
    /\ UNCHANGED call

\* The operation is over: it returned, or it raised.
Return(p) ==
    /\ pc' = [pc EXCEPT ![p] = "idle"]
    /\ call' = [call EXCEPT ![p] = NoCall]

\* A check that raises when `admitted` does not hold.
CheckThen(p, here, admitted, step) ==
    /\ pc[p] = here
    /\ IF admitted THEN Goto(p, step) ELSE Return(p)
    /\ UNCHANGED db

-----------------------------------------------------------------------------
\* Registry.transition, behind PipelineController._transition

\* The SELECT that compares the row with the phase the caller read.
SelectPhase(p) ==
    CheckThen(p, "select_phase", row.current_phase = call[p].phase,
              "write_phase")

\* What the caller goes on to do once its transition is committed.
AfterTransition(c) ==
    CASE c.op = "submit" -> "select_approval"
      [] c.op = "transition" /\ c.to = "CANDIDATE_FREEZE" -> "freeze"
      [] c.op = "verify" /\ c.to = "TECHNICAL_INTEGRITY_VERIFICATION" ->
           "verify"
      [] OTHER -> "idle"

\* The UPDATE and the INSERT, which name the row and not its old phase.
WritePhase(p) ==
    /\ pc[p] = "write_phase"
    /\ row' = [row EXCEPT !.current_phase = call[p].to]
    /\ journal' = <<call[p].phase, call[p].to>>
    /\ IF AfterTransition(call[p]) = "idle"
         THEN Return(p) ELSE Goto(p, AfterTransition(call[p]))
    /\ UNCHANGED <<split, usage, verified, lastOutcome, accesses, consumed>>

-----------------------------------------------------------------------------
\* submit_specification and approve_specification

Submit(p) ==
    /\ Legal(row.current_phase, "WAITING_FOR_SPEC_APPROVAL")
    /\ Start(p, "submit", "select_phase", "WAITING_FOR_SPEC_APPROVAL")

SelectApproval(p) ==
    CheckThen(p, "select_approval", row.approval_status # "APPROVED",
              "write_approval")

WriteApproval(p) ==
    /\ pc[p] = "write_approval"
    /\ row' = [row EXCEPT !.approval_status = "SUBMITTED"]
    /\ Return(p)
    /\ UNCHANGED <<split, usage, verified, lastOutcome, accesses, journal,
                   consumed>>

Approve(p) ==
    /\ row.current_phase = "WAITING_FOR_SPEC_APPROVAL"
    /\ Start(p, "approve", "select_approved", "IMPLEMENTATION")

SelectApproved(p) ==
    CheckThen(p, "select_approved", row.approval_status # "APPROVED",
              "write_approved")

\* The approved copy is stored first; the transition is a second transaction.
WriteApproved(p) ==
    /\ pc[p] = "write_approved"
    /\ row' = [row EXCEPT !.approval_status = "APPROVED"]
    /\ Goto(p, "select_phase")
    /\ UNCHANGED <<split, usage, verified, lastOutcome, accesses, journal,
                   consumed>>

-----------------------------------------------------------------------------
\* PipelineController.transition and freeze_parameter_families

Transition(p, to) == Start(p, "transition", "guard", to)

\* Mutant: baseline research without a verified result.
MayTransitionUnverified(c) ==
    /\ c.to = "PARAMETER_RESEARCH" => ActiveSplit # NoSplit /\ ~c.frozen
    /\ Legal(c.phase, c.to)

\* Every guard of transition(); the table is checked last, on the old read.
MayTransition(c) ==
    /\ c.to = "BASELINE_BACKTEST" =>
         /\ c.phase = "TECHNICAL_INTEGRITY_VERIFICATION" => verified
         /\ c.phase = "IMPLEMENTATION_VERIFICATION" => PhaseA
    /\ c.to = "PARAMETER_RESEARCH" => ActiveSplit # NoSplit /\ ~c.frozen
    /\ Legal(c.phase, c.to)

Guard(p) == CheckThen(p, "guard", MayTransition(call[p]), "select_phase")

Freeze(p) ==
    /\ pc[p] = "freeze"
    /\ row' = [row EXCEPT !.parameters_frozen = TRUE,
                          !.frozen_families = Mutable]
    /\ Return(p)
    /\ UNCHANGED <<split, usage, verified, lastOutcome, accesses, journal,
                   consumed>>

-----------------------------------------------------------------------------
\* VerificationService.run

\* It reads the phase and, before the verification itself, calls transition.
Verify(p) ==
    \/ /\ row.current_phase \in
            {"IMPLEMENTATION_VERIFICATION", "TECHNICAL_REPAIR_REQUIRED"}
       /\ Start(p, "verify", "enter", "TECHNICAL_INTEGRITY_VERIFICATION")
    \/ /\ row.current_phase \in
            {"TECHNICAL_INTEGRITY_VERIFICATION", "BASELINE_BACKTEST"}
       /\ Start(p, "verify", "verify", "TECHNICAL_INTEGRITY_VERIFICATION")

\* transition reads the row once more.
Enter(p) ==
    /\ pc[p] = "enter"
    /\ pc' = [pc EXCEPT ![p] = "guard"]
    /\ call' = [call EXCEPT ![p].phase = row.current_phase,
                            ![p].frozen = row.parameters_frozen]
    /\ UNCHANGED db

\* A caller retries an old verification_run_id, whose record is returned as
\* it is, or draws a fresh uuid.  Nobody else records that id meanwhile, so
\* looking it up and inserting it are one step.
KnownRun(p) ==
    /\ pc[p] = "verify"
    /\ lastOutcome # "NONE"
    /\ Return(p)
    /\ UNCHANGED db

NextState(outcome) ==
    IF outcome = "VERIFIED" THEN "BASELINE_BACKTEST" ELSE outcome

RecordOutcome(p, outcome) ==
    /\ pc[p] = "verify"
    /\ verified' = (verified \/ outcome = "VERIFIED")
    /\ lastOutcome' = outcome
    /\ pc' = [pc EXCEPT ![p] = "act_on_outcome"]
    /\ call' = [call EXCEPT ![p].to = NextState(outcome)]
    /\ UNCHANGED <<row, split, usage, accesses, journal, consumed>>

\* Only a strategy still under verification moves; a rerun leaves it alone.
ActOnOutcome(p) ==
    CheckThen(p, "act_on_outcome",
              row.current_phase = "TECHNICAL_INTEGRITY_VERIFICATION", "enter")

-----------------------------------------------------------------------------
\* consume_budget, which reads the usage, checks it and overwrites it

Consume(p) == Start(p, "consume", "read_budget", row.current_phase)

\* Only a mutable family of a strategy whose families are not frozen; the
\* test looks at the row the process read before it read the usage.
FamilyOpen(c, r) ==
    r.family # NoFamily => r.family \in Mutable /\ ~c.frozen

ReadBudget(p, r) ==
    /\ pc[p] = "read_budget"
    /\ consumed + r.backtests <= MaxConsumed
    /\ IF FamilyOpen(call[p], r) /\ Admits(usage, r)
         THEN /\ pc' = [pc EXCEPT ![p] = "write_budget"]
              /\ call' = [call EXCEPT ![p].usage = Charge(usage, r),
                                      ![p].spend = r.backtests]
         ELSE Return(p)
    /\ UNCHANGED db

WriteBudget(p) ==
    /\ pc[p] = "write_budget"
    /\ usage' = call[p].usage
    /\ consumed' = consumed + call[p].spend
    /\ Return(p)
    /\ UNCHANGED <<row, split, verified, lastOutcome, accesses, journal>>

-----------------------------------------------------------------------------
\* Registry.create_split and invalidate_split

CreateSplit(p, h) ==
    /\ pc[p] = "idle"
    /\ pc' = [pc EXCEPT ![p] = "select_split"]
    /\ call' = [call EXCEPT ![p] = [NoCall EXCEPT !.op = "split", !.hash = h]]
    /\ UNCHANGED db

\* An active split is returned as it is, or conflicts.
SelectSplit(p) ==
    CheckThen(p, "select_split", ActiveSplit = NoSplit, "insert_split")

\* (strategy_id, strategy_version) is the key: an invalidated row blocks it.
InsertSplit(p) ==
    /\ pc[p] = "insert_split"
    /\ split' = IF split.hash = NoSplit
                  THEN [hash |-> call[p].hash, invalidated |-> FALSE]
                  ELSE split
    /\ Return(p)
    /\ UNCHANGED <<row, usage, verified, lastOutcome, accesses, journal,
                   consumed>>

InvalidateSplit(p) ==
    /\ pc[p] = "idle"
    /\ ActiveSplit # NoSplit
    /\ split' = [split EXCEPT !.invalidated = TRUE]
    /\ UNCHANGED <<row, usage, verified, lastOutcome, accesses, journal,
                   consumed, pc, call>>

-----------------------------------------------------------------------------
\* HoldoutLock.open and Registry.record_holdout_access

\* Mutant: the phase is not looked at.
OpenHoldoutAnyPhase(p) ==
    /\ ~row.holdout_opened
    /\ Start(p, "holdout", "read_accesses", "HOLDOUT")

OpenHoldout(p) ==
    /\ row.current_phase = "HOLDOUT"
    /\ ~row.holdout_opened
    /\ Start(p, "holdout", "read_accesses", "HOLDOUT")

ReadAccesses(p) ==
    CheckThen(p, "read_accesses",
              usage.holdout_accesses < Limits.max_holdout_accesses,
              "write_access")

\* Mutants: only the audit row is written; the parameters are not frozen.
WriteAccessAuditOnly(p) ==
    /\ pc[p] = "write_access"
    /\ accesses' = accesses + 1
    /\ Return(p)
    /\ UNCHANGED <<row, split, usage, verified, lastOutcome, journal,
                   consumed>>

WriteAccessUnfrozen(p) ==
    /\ pc[p] = "write_access"
    /\ accesses' = accesses + 1
    /\ usage' = [usage EXCEPT !.holdout_accesses = @ + 1]
    /\ row' = [row EXCEPT !.holdout_opened = TRUE]
    /\ Return(p)
    /\ UNCHANGED <<split, verified, lastOutcome, journal, consumed>>

\* One transaction that starts with an INSERT: it sees its own snapshot.
WriteAccess(p) ==
    /\ pc[p] = "write_access"
    /\ accesses' = accesses + 1
    /\ usage' = [usage EXCEPT !.holdout_accesses = @ + 1]
    /\ row' = [row EXCEPT !.holdout_opened = TRUE, !.parameters_frozen = TRUE]
    /\ Return(p)
    /\ UNCHANGED <<split, verified, lastOutcome, journal, consumed>>

-----------------------------------------------------------------------------

\* The process dies; an open transaction is rolled back.
Crash(p) ==
    /\ pc[p] # "idle"
    /\ Return(p)
    /\ UNCHANGED db

Step(p) ==
    \/ SelectPhase(p) \/ WritePhase(p)
    \/ Submit(p) \/ SelectApproval(p) \/ WriteApproval(p)
    \/ Approve(p) \/ SelectApproved(p) \/ WriteApproved(p)
    \/ \E to \in Targets : Transition(p, to)
    \/ Guard(p) \/ Freeze(p)
    \/ Verify(p) \/ Enter(p) \/ KnownRun(p) \/ ActOnOutcome(p)
    \/ \E outcome \in Outcomes : RecordOutcome(p, outcome)
    \/ Consume(p) \/ WriteBudget(p)
    \/ \E r \in Requests : ReadBudget(p, r)
    \/ \E h \in SplitHashes : CreateSplit(p, h)
    \/ SelectSplit(p) \/ InsertSplit(p) \/ InvalidateSplit(p)
    \/ OpenHoldout(p) \/ ReadAccesses(p) \/ WriteAccess(p)
    \/ Crash(p)

Next == \E p \in Procs : Step(p)

Spec == Init /\ [][Next]_vars

-----------------------------------------------------------------------------
\* What holds however the processes interleave

(* Every row and every remembered call keeps its shape.                    *)
TypeOK ==
    /\ row \in StrategyRow
    /\ split \in SplitRow
    /\ usage \in BudgetUsage
    /\ verified \in BOOLEAN
    /\ lastOutcome \in VerificationOutcome \cup {"NONE"}
    /\ accesses \in Nat
    /\ journal \in PipelineState \X PipelineState
    /\ consumed \in Nat
    /\ pc \in [Procs -> Steps]
    /\ call \in [Procs -> Calls]

(* The stored usage never shows a counter over its limit, although every   *)
(* process charges the usage it read earlier and overwrites the whole JSON *)
(* of whoever wrote in between.                                            *)
UsageWithinLimits == WithinLimits(usage)

(* An access to the holdout leaves its traces together: the audit row, the *)
(* opened flag and the frozen parameters.  The budget's own counter may    *)
(* fall behind the audit rows when a stale usage overwrites it, and never  *)
(* runs ahead of them.                                                     *)
HoldoutEvidence ==
    /\ accesses > 0 <=> row.holdout_opened
    /\ row.holdout_opened => row.parameters_frozen
    /\ usage.holdout_accesses <= accesses

(* Every committed move, however stale the caller, is one the table of     *)
(* legal transitions has for the phase the caller read, and is journalled. *)
MovesAreLegal ==
    [][row'.current_phase # row.current_phase =>
         journal'[2] = row'.current_phase /\ Legal(journal'[1], journal'[2])]_vars

(* Baseline research starts from a recorded VERIFIED result, or on the     *)
(* historical phase-a path, whatever other processes do meanwhile.         *)
BaselineNeedsVerified ==
    [][row'.current_phase = "BASELINE_BACKTEST"
       /\ row.current_phase # "BASELINE_BACKTEST" =>
         verified \/ PhaseA]_vars

(* Nothing thaws: frozen parameters, the opened holdout, an invalidated    *)
(* split and the split's definition are for good.                          *)
NothingThaws ==
    [][/\ row.parameters_frozen => row'.parameters_frozen
       /\ row.holdout_opened => row'.holdout_opened
       /\ split.hash # NoSplit => split'.hash = split.hash
       /\ split.invalidated => split'.invalidated]_vars

-----------------------------------------------------------------------------
\* What holds when one process at a time drives the strategy

(* The untouched holdout is opened at most as often as the budget allows,  *)
(* after one opening never again.                                          *)
HoldoutOnce == accesses <= 1 /\ accesses <= Limits.max_holdout_accesses

(* The backtests granted to callers are within the hard budget, and no     *)
(* grant is lost: the usage stored is the sum of what was granted, and its *)
(* holdout counter agrees with the audit rows.                             *)
HardBudget ==
    /\ consumed <= Limits.max_total_backtests
    /\ consumed = usage.total_backtests
    /\ usage.holdout_accesses = accesses

(* Once the parameters are frozen no family is charged another round or    *)
(* value.                                                                  *)
FrozenFamiliesRest ==
    [][row.parameters_frozen =>
         /\ usage'.rounds_per_family = usage.rounds_per_family
         /\ usage'.values_by_round = usage.values_by_round]_vars

(* One process at a time, crashing where it may, does no more than atomic  *)
(* operations would: each test it made still holds when it writes.         *)
Atomic == INSTANCE AtomicController

ImplementsAtomic == Atomic!Spec

-----------------------------------------------------------------------------
\* What the documents promise and an interleaving or a crash breaks

(* IMPLEMENTATION is entered with an approved specification only.          *)
ApprovalMandatory ==
    row.current_phase = "IMPLEMENTATION" => row.approval_status = "APPROVED"

(* Phase B.5 lets only a verified result into baseline research: the one   *)
(* that was recorded last, not one that a later run has superseded.        *)
BaselineOnLatestOutcome ==
    [][row'.current_phase = "BASELINE_BACKTEST"
       /\ row.current_phase = "TECHNICAL_INTEGRITY_VERIFICATION" =>
         lastOutcome = "VERIFIED"]_vars

(* A split that passed the test for an active one can be inserted.         *)
SplitReplaceable ==
    \A p \in Procs : pc[p] = "insert_split" => split.hash = NoSplit
=============================================================================
