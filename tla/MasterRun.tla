----------------------------- MODULE MasterRun -----------------------------
(***************************************************************************)
(* One master run in real_run mode, from its intake to its report:         *)
(* phase_f1/service.py MasterPipelineService over the master tables of     *)
(* registry/repositories.py, with what it calls: PhaseBService (register,  *)
(* approve), VerificationService (B.5), PhaseCService (the research, as    *)
(* the phases the strategy passes through), PropResearchService (Phase D,  *)
(* as its own phases) and the implementation job (as what a resume tells   *)
(* apart).  One command drives the run at a time, and cancel may come in   *)
(* between.  Each step is one committed write; the process may die between *)
(* any two of them.                                                        *)
(***************************************************************************)
EXTENDS Budget, StateMachine, Sequences

CONSTANTS
    NoSplit, SplitHash,
    Faults,       \* whether a stage can fail by itself
    Cancels,      \* whether the operator may cancel the run
    MaxCrashes    \* bound on the crashes of one behaviour

ASSUME MasterRunAssumption ==
    /\ NoSplit # SplitHash
    /\ Faults \in BOOLEAN /\ Cancels \in BOOLEAN
    /\ MaxCrashes \in Nat

VARIABLES
    row, split, usage, verified, accesses, journal,  \* AtomicController
    registered,  \* the strategy version has its row
    run,         \* master_runs: current_step, outcome and approval_status
    recorded,    \* master_phase_results: the status of each phase
    job,         \* the implementation job, as _implementation tells it apart
    prop,        \* prop_runs.current_phase, or "NONE"
    report,      \* master_reports has the final report
    driver,      \* the command in progress: its next step, what it remembers
    crashes      \* history: how often the process died

controllerVars == <<row, split, usage, verified, accesses, journal>>
vars == <<controllerVars, registered, run, recorded, job, prop, report, driver,
          crashes>>

Outcomes ==
    {"VERIFIED", "TECHNICAL_REPAIR_REQUIRED", "MANUAL_REVIEW_REQUIRED",
     "INSUFFICIENT_DIAGNOSTIC_DATA", "TECHNICAL_FAILURE"}

Controller ==
    INSTANCE AtomicController WITH
        Mutable <- Families, Requests <- {}, SplitHashes <- {SplitHash},
        PhaseA <- FALSE

phase == row.current_phase

\* The stages that are recorded after the approval, in their order.
StageOrder ==
    <<"IMPLEMENTATION", "IMPLEMENTATION_VERIFICATION",
      "TECHNICAL_VERIFICATION", "RESEARCH", "PROP", "PORTFOLIO", "ARCHIVE">>

MasterPhases ==
    {"SPECIFICATION"} \cup {StageOrder[i] : i \in DOMAIN StageOrder}

MasterStep ==
    {"SPECIFICATION", "APPROVAL", "IMPLEMENTATION",
     "IMPLEMENTATION_VERIFICATION", "BASELINE", "PROP", "PORTFOLIO",
     "FINAL_REPORT", "COMPLETED"}

Failures ==
    {"TECHNICAL_FAILURE", "IMPLEMENTATION_FAILURE", "RESEARCH_FAILURE",
     "PROP_FAILURE", "PORTFOLIO_FAILURE", "FAILED"}

Done == {s \in MasterPhases : recorded[s] = "SUCCESS"}

NoRun == [step |-> "NONE", outcome |-> "NONE", approval |-> "NONE"]

Idle == [pc |-> "idle", at |-> "NONE"]

Init ==
    /\ Controller!Init
    /\ registered = FALSE
    /\ run = NoRun
    /\ recorded = [s \in MasterPhases |-> "NONE"]
    /\ job = "NONE" /\ prop = "NONE" /\ report = FALSE
    /\ driver = Idle /\ crashes = 0

-----------------------------------------------------------------------------

At(pc) == driver.pc = pc

Goto(pc) == driver' = [driver EXCEPT !.pc = pc]

Return == driver' = Idle

\* update_master_run of the step and the outcome.
SetStep(step, outcome) ==
    run' = [run EXCEPT !.step = step, !.outcome = outcome]

\* _record_phase: the row of a phase is inserted or overwritten.
Record(s, status) == recorded' = [recorded EXCEPT ![s] = status]

\* An exception of resume: its handler first reads the step of the run.
Raise(kind) == driver' = [pc |-> kind, at |-> run.step]

\* What a command that only moves the driver leaves alone.
Rest == <<controllerVars, registered, run, recorded, job, prop, report, crashes>>

\* The process dies; so does a command that lets an exception out.
Crash ==
    /\ ~At("idle")
    /\ crashes < MaxCrashes
    /\ crashes' = crashes + 1
    /\ Return
    /\ UNCHANGED <<controllerVars, registered, run, recorded, job, prop, report>>

\* cancel does not look at the run, nor at a resume under way.
Cancel ==
    /\ Cancels
    /\ run # NoRun
    /\ SetStep("COMPLETED", "ABORTED")
    /\ UNCHANGED <<controllerVars, registered, recorded, job, prop, report,
                   driver, crashes>>

-----------------------------------------------------------------------------
\* start, retry_specification, and _generate_and_register

\* An intake with open questions is left to a new run.
Start ==
    /\ At("idle")
    /\ run = NoRun
    /\ \/ /\ run' = [step |-> "SPECIFICATION",
                     outcome |-> "WAITING_FOR_APPROVAL", approval |-> "PENDING"]
          /\ driver' = [pc |-> "generate", at |-> "start"]
       \/ /\ run' = [step |-> "SPECIFICATION",
                     outcome |-> "WAITING_FOR_APPROVAL",
                     approval |-> "MANUAL_REVIEW_REQUIRED"]
          /\ driver' = [pc |-> "ambiguous", at |-> "start"]
    /\ UNCHANGED <<controllerVars, registered, recorded, job, prop, report,
                   crashes>>

Ambiguous ==
    /\ At("ambiguous")
    /\ SetStep("APPROVAL", "MANUAL_REVIEW_REQUIRED")
    /\ Return
    /\ UNCHANGED <<controllerVars, registered, recorded, job, prop, report,
                   crashes>>

\* A resume takes the generation up only where it waits for the executor.
Regenerate ==
    /\ At("idle")
    /\ run.step = "SPECIFICATION"
    /\ driver' = [pc |-> "generate", at |-> "again"]
    /\ UNCHANGED Rest

\* An executor has to be waited for, the generation fails, what it made needs
\* a review, or it is a specification to register.  Only start records a
\* failure.
Generate ==
    /\ At("generate")
    /\ \/ /\ Record("SPECIFICATION", "WAITING_EXTERNAL")
          /\ Goto("pause")
       \/ /\ IF driver.at = "start" THEN Record("SPECIFICATION", "FAILED")
                                    ELSE UNCHANGED recorded
          /\ Goto("generation_failed")
       \/ Goto("review") /\ UNCHANGED recorded
       \/ Goto("register") /\ UNCHANGED recorded
    /\ UNCHANGED <<controllerVars, registered, run, job, prop, report, crashes>>

Pause ==
    /\ \/ /\ At("pause")
          /\ SetStep("SPECIFICATION", "WAITING_EXTERNAL_SPECIFICATION_GENERATION")
       \/ /\ At("generation_failed")
          /\ SetStep("SPECIFICATION", "SPECIFICATION_GENERATION_FAILURE")
    /\ Return
    /\ UNCHANGED <<controllerVars, registered, recorded, job, prop, report,
                   crashes>>

\* register_generated.  A version that has its row is taken as it is.
Register ==
    /\ At("register")
    /\ registered' = TRUE
    /\ Goto(IF registered THEN "specified" ELSE "submit")
    /\ UNCHANGED <<controllerVars, run, recorded, job, prop, report, crashes>>

\* submit_specification is a transition and then the approval status.
Submit ==
    /\ \/ /\ At("submit")
          /\ Controller!Move("WAITING_FOR_SPEC_APPROVAL")
          /\ Goto("submitted")
       \/ /\ At("submitted")
          /\ Controller!MarkApproval("SUBMITTED")
          /\ Goto("specified")
    /\ UNCHANGED <<registered, run, recorded, job, prop, report, crashes>>

\* The specification is recorded; one to be reviewed has no row.
Specified ==
    /\ At("specified") \/ At("review")
    /\ Record("SPECIFICATION", "SUCCESS")
    /\ Goto(IF At("review") THEN "to_review" ELSE "to_approval")
    /\ UNCHANGED <<controllerVars, registered, run, job, prop, report, crashes>>

ToApproval ==
    /\ At("to_approval") \/ At("to_review")
    /\ run' = [step |-> "APPROVAL", outcome |-> "WAITING_FOR_APPROVAL",
               approval |-> IF At("to_review") THEN "MANUAL_REVIEW_REQUIRED"
                                               ELSE "PENDING"]
    /\ Return
    /\ UNCHANGED <<controllerVars, registered, recorded, job, prop, report,
                   crashes>>

-----------------------------------------------------------------------------
\* approve

\* PhaseBService.approve begins with the phase of the strategy: what does not
\* wait for approval keeps its phase.
Approve ==
    /\ At("idle")
    /\ run.step = "APPROVAL" /\ run.approval # "MANUAL_REVIEW_REQUIRED"
    /\ \/ Goto(IF phase = "WAITING_FOR_SPEC_APPROVAL" THEN "approve"
                                                      ELSE "approved_again")
       \/ Goto(IF phase = "WAITING_FOR_SPEC_APPROVAL" THEN "reject"
                                                      ELSE "rejected")
    /\ UNCHANGED Rest

\* approve_specification of the controller: the immutable approval, and then
\* the transition.  An approval that is there raises, and the command ends.
ApproveStrategy ==
    /\ \/ /\ At("approve")
          /\ IF row.approval_status = "APPROVED"
               THEN Return /\ UNCHANGED controllerVars
               ELSE Controller!MarkApproval("APPROVED") /\ Goto("implement")
       \/ /\ At("implement")
          /\ Controller!Move("IMPLEMENTATION")
          /\ Goto("approved_again")
    /\ UNCHANGED <<registered, run, recorded, job, prop, report, crashes>>

\* The registry is asked once more, in whatever phase the strategy is.
ApproveAgain ==
    /\ At("approved_again")
    /\ row' = [row EXCEPT !.approval_status = "APPROVED"]
    /\ Goto("approved")
    /\ UNCHANGED <<split, usage, verified, accesses, journal, registered, run,
                   recorded, job, prop, report, crashes>>

ApproveRun ==
    /\ \/ /\ At("approved")
          /\ run' = [run EXCEPT !.approval = "APPROVED"]
          /\ Goto("to_implementation")
       \/ /\ At("to_implementation")
          /\ SetStep("IMPLEMENTATION", "WAITING_FOR_APPROVAL")
          /\ Return
    /\ UNCHANGED <<controllerVars, registered, recorded, job, prop, report,
                   crashes>>

Reject ==
    /\ At("reject")
    /\ Controller!Move("REJECTED")
    /\ Goto("rejected")
    /\ UNCHANGED <<registered, run, recorded, job, prop, report, crashes>>

RejectRun ==
    /\ \/ /\ At("rejected")
          /\ run' = [run EXCEPT !.approval = "REJECTED"]
          /\ Goto("abort")
       \/ /\ At("abort")
          /\ SetStep("COMPLETED", "ABORTED")
          /\ Return
    /\ UNCHANGED <<controllerVars, registered, recorded, job, prop, report,
                   crashes>>

-----------------------------------------------------------------------------
\* resume: the implementation

Resume ==
    /\ At("idle")
    /\ run.approval = "APPROVED"
    /\ run.step # "COMPLETED"
    /\ run.outcome # "IMPLEMENTATION_FAILURE"
    /\ driver' = [pc |-> IF "IMPLEMENTATION" \in Done THEN "boundary"
                                                      ELSE "job",
                  at |-> run.step]
    /\ UNCHANGED Rest

\* The job is created or still open, and is waited for; it is reconciled; or
\* its ingested completion is loaded.
InspectJob ==
    /\ At("job")
    /\ CASE job \in {"NONE", "OPEN"} ->
              /\ job' = "OPEN"
              /\ Goto("wait")
         [] job \in {"PASSED", "FAILED"} ->
              /\ job' = IF job = "PASSED" THEN "INGESTED" ELSE job
              /\ Goto(IF job = "PASSED" THEN "ingested" ELSE "failed_job")
         [] OTHER -> Goto("adapter") /\ UNCHANGED job
    /\ UNCHANGED <<controllerVars, registered, run, recorded, prop, report,
                   crashes>>

\* The run follows its job: it waits, or reconcile settles it.
FollowJob ==
    /\ \/ /\ At("wait")
          /\ SetStep("IMPLEMENTATION", "WAITING_EXTERNAL_CODEX")
          /\ Goto("boundary")
       \/ /\ At("ingested")
          /\ SetStep("IMPLEMENTATION_VERIFICATION",
                     "IMPLEMENTATION_VERIFICATION_REQUIRED")
          /\ Goto("adapter")
       \/ /\ At("failed_job")
          /\ SetStep("IMPLEMENTATION", "IMPLEMENTATION_FAILURE")
          /\ Goto("boundary")
    /\ UNCHANGED <<controllerVars, registered, recorded, job, prop, report,
                   crashes>>

\* The adapter of the worktree may not be loadable.
LoadAdapter ==
    /\ At("adapter")
    /\ \/ Record("IMPLEMENTATION", "SUCCESS") /\ Goto("implemented")
       \/ /\ Faults
          /\ Raise("refused") \/ Raise("broken")
          /\ UNCHANGED recorded
    /\ UNCHANGED <<controllerVars, registered, run, job, prop, report, crashes>>

Implemented ==
    /\ At("implemented")
    /\ SetStep("IMPLEMENTATION_VERIFICATION",
               "IMPLEMENTATION_VERIFICATION_REQUIRED")
    /\ Goto("boundary")
    /\ UNCHANGED <<controllerVars, registered, recorded, job, prop, report,
                   crashes>>

\* Mutant: the verification does not ask for the implementation's record.
BoundaryUnrecorded ==
    /\ At("boundary")
    /\ IF \/ run.outcome = "WAITING_EXTERNAL_CODEX"
          \/ /\ driver.at = "IMPLEMENTATION"
             /\ run.step = "IMPLEMENTATION_VERIFICATION"
             /\ run.outcome = "IMPLEMENTATION_VERIFICATION_REQUIRED" THEN Return
       ELSE Goto(IF "TECHNICAL_VERIFICATION" \in Done THEN "research" ELSE "verify")
    /\ UNCHANGED Rest

\* A run that waits returns, and so does one that has just come from the
\* implementation.  Verification cannot do without the implementation's record.
Boundary ==
    /\ At("boundary")
    /\ IF \/ run.outcome = "WAITING_EXTERNAL_CODEX"
          \/ /\ driver.at = "IMPLEMENTATION"
             /\ run.step = "IMPLEMENTATION_VERIFICATION"
             /\ run.outcome = "IMPLEMENTATION_VERIFICATION_REQUIRED" THEN Return
       ELSE IF "TECHNICAL_VERIFICATION" \in Done THEN Goto("research")
       ELSE IF "IMPLEMENTATION" \in Done THEN Goto("verify")
       ELSE Raise("broken")
    /\ UNCHANGED Rest

-----------------------------------------------------------------------------
\* resume: _technical_verification and VerificationService.run

\* The strategy enters its verification; the adapter tests may fail, and the
\* adapter's baseline may raise.
Verify ==
    /\ At("verify")
    /\ IF phase = "IMPLEMENTATION"
         THEN Controller!Move("IMPLEMENTATION_VERIFICATION") /\ Goto("verify")
         ELSE /\ \/ Goto("integrity")
                 \/ Faults /\ (Raise("refused") \/ Raise("broken"))
              /\ UNCHANGED controllerVars
    /\ UNCHANGED <<registered, run, recorded, job, prop, report, crashes>>

\* B.5 runs in its own phase, or a second time where it has already passed.
Integrity ==
    /\ At("integrity")
    /\ CASE phase \in {"IMPLEMENTATION_VERIFICATION",
                       "TECHNICAL_REPAIR_REQUIRED"} ->
              /\ Controller!Move("TECHNICAL_INTEGRITY_VERIFICATION")
              /\ Goto("integrity")
         [] phase \in {"TECHNICAL_INTEGRITY_VERIFICATION",
                       "BASELINE_BACKTEST"} ->
              \E outcome \in IF Faults THEN Outcomes ELSE {"VERIFIED"} :
                /\ Controller!RecordOutcome(outcome)
                /\ driver' = [pc |-> "outcome", at |-> outcome]
         [] OTHER -> Raise("broken") /\ UNCHANGED controllerVars
    /\ UNCHANGED <<registered, run, recorded, job, prop, report, crashes>>

\* The outcome moves a strategy that is in its verification.
Outcome ==
    /\ At("outcome")
    /\ IF phase = "TECHNICAL_INTEGRITY_VERIFICATION"
         THEN Controller!Move(IF driver.at = "VERIFIED" THEN "BASELINE_BACKTEST"
                                                        ELSE driver.at)
         ELSE UNCHANGED controllerVars
    /\ Goto("verified")
    /\ UNCHANGED <<registered, run, recorded, job, prop, report, crashes>>

\* Mutant: the technical record comes first.
RecordVerificationSwapped ==
    /\ \/ /\ At("verified")
          /\ Record("TECHNICAL_VERIFICATION", "SUCCESS")
          /\ Goto("tested")
       \/ /\ At("tested")
          /\ Record("IMPLEMENTATION_VERIFICATION", "SUCCESS")
          /\ IF driver.at = "VERIFIED" THEN Goto("baseline")
                                       ELSE Raise("refused")
    /\ UNCHANGED <<controllerVars, registered, run, job, prop, report, crashes>>

\* Both records say SUCCESS before the outcome is looked at.
RecordVerification ==
    /\ \/ /\ At("verified")
          /\ Record("IMPLEMENTATION_VERIFICATION", "SUCCESS")
          /\ Goto("tested")
       \/ /\ At("tested")
          /\ Record("TECHNICAL_VERIFICATION", "SUCCESS")
          /\ IF driver.at = "VERIFIED" THEN Goto("baseline")
                                       ELSE Raise("refused")
    /\ UNCHANGED <<controllerVars, registered, run, job, prop, report, crashes>>

\* The verified artifact is the baseline of the research.
Baseline ==
    /\ At("baseline")
    /\ SetStep("BASELINE", "WAITING_FOR_APPROVAL")
    /\ Goto("research")
    /\ UNCHANGED <<controllerVars, registered, recorded, job, prop, report,
                   crashes>>

-----------------------------------------------------------------------------
\* resume: _research and _drive_research

\* The phases PhaseCService can move a strategy to, from each of its own.
ResearchMoves ==
    [BASELINE_BACKTEST  |-> {"EDGE_GATE", "TECHNICAL_FAILURE"},
     EDGE_GATE          |-> {"PARAMETER_RESEARCH"} \cup Verdicts,
     PARAMETER_RESEARCH |-> {"CANDIDATE_FREEZE", "INSUFFICIENT_EVIDENCE",
                             "MANUAL_REVIEW_REQUIRED"},
     CANDIDATE_FREEZE   |-> {"WALK_FORWARD"},
     WALK_FORWARD       |-> {"HOLDOUT", "REJECTED"},
     HOLDOUT            |-> {"STRESS_TESTS", "REJECTED"},
     STRESS_TESTS       |-> {"THROUGHPUT"},
     THROUGHPUT         |-> {"FINAL_REVIEW"},
     FINAL_REVIEW       |-> {"ACCEPTED", "REJECTED", "INSUFFICIENT_EVIDENCE"}]

Classified == {"ACCEPTED", "INSUFFICIENT_EVIDENCE", "REJECTED"}

\* A recorded research is not repeated.  Any other needs a split, and starts
\* in the baseline phase of a verified strategy only.
BeginResearch ==
    /\ At("research")
    /\ CASE "RESEARCH" \in Done -> Goto("prop") /\ UNCHANGED controllerVars
         [] "RESEARCH" \notin Done /\ Controller!ActiveSplit = NoSplit ->
              Controller!DefineSplit(SplitHash) /\ Goto("research")
         [] /\ "RESEARCH" \notin Done /\ Controller!ActiveSplit # NoSplit
            /\ phase = "BASELINE_BACKTEST" ->
              /\ IF verified THEN Goto("researching") ELSE Raise("refused")
              /\ UNCHANGED controllerVars
         [] OTHER -> Raise("broken") /\ UNCHANGED controllerVars
    /\ UNCHANGED <<registered, run, recorded, job, prop, report, crashes>>

\* The strategy goes through the phases of its research.  The frozen families
\* and the opened holdout are steps of the phase they belong to.
Research ==
    /\ At("researching")
    /\ phase \in DOMAIN ResearchMoves
    /\ \/ /\ CASE phase = "CANDIDATE_FREEZE" /\ ~row.parameters_frozen ->
                    Controller!FreezeFamilies
               [] phase = "HOLDOUT" /\ ~row.holdout_opened ->
                    Controller!OpenHoldout
               [] OTHER ->
                    \E to \in ResearchMoves[phase] :
                      /\ to \in Breakdowns => Faults
                      /\ Controller!Move(to)
          /\ UNCHANGED driver
       \/ /\ Faults
          /\ Raise("refused") \/ Raise("broken")
          /\ UNCHANGED controllerVars
    /\ UNCHANGED <<registered, run, recorded, job, prop, report, crashes>>

\* A research that came to its end is recorded as done, and only then looked
\* at.  (A baseline that fails raises instead.)
EndResearch ==
    /\ At("researching")
    /\ phase \notin DOMAIN ResearchMoves
    /\ IF phase = "TECHNICAL_FAILURE"
         THEN Raise("refused") /\ UNCHANGED recorded
         ELSE /\ Record("RESEARCH", "SUCCESS")
              /\ IF phase \in Classified THEN Goto("researched")
                                         ELSE Raise("refused")
    /\ UNCHANGED <<controllerVars, registered, run, job, prop, report, crashes>>

Researched ==
    /\ At("researched")
    /\ SetStep("PROP", "WAITING_FOR_APPROVAL")
    /\ Goto("prop")
    /\ UNCHANGED <<controllerVars, registered, recorded, job, prop, report,
                   crashes>>

-----------------------------------------------------------------------------
\* resume: _prop and PropResearchService

PropPhases ==
    <<"ENTRY_VERIFICATION", "CONTRACT_VERIFICATION", "RECONCILIATION",
      "RISK_SIZING", "PROP_SIMULATION", "PROP_ECONOMICS_REVIEW", "COMPLETE">>

\* What Phase D asks of the strategy it starts with.
Entitled ==
    phase = "ACCEPTED" /\ row.parameters_frozen /\ verified /\ accesses <= 1

\* Phase D is not for a strategy that was not accepted, nor for a market
\* without a futures mapping; otherwise its run is started, or found.
BeginProp ==
    /\ At("prop")
    /\ CASE "PROP" \in Done -> Goto("portfolio") /\ UNCHANGED <<recorded, prop>>
         [] "PROP" \notin Done /\ phase # "ACCEPTED" ->
              /\ Record("PROP", "SUCCESS")
              /\ Goto("to_report")
              /\ UNCHANGED prop
         [] OTHER ->
              \/ /\ Record("PROP", "SUCCESS")
                 /\ Goto("to_portfolio")
                 /\ UNCHANGED prop
              \/ /\ prop = "NONE" => Entitled
                 /\ prop' = IF prop = "NONE" THEN PropPhases[1] ELSE prop
                 /\ driver' = [pc |-> "accounts", at |-> PropPhases[1]]
                 /\ UNCHANGED recorded
              \/ /\ prop = "NONE" /\ ~Entitled
                 /\ Raise("refused")
                 /\ UNCHANGED <<recorded, prop>>
    /\ UNCHANGED <<controllerVars, registered, run, job, report, crashes>>

\* Each method of Phase D requires its own phase, ends with the next one, and
\* may find what keeps the run from going on.
Accounts ==
    /\ At("accounts")
    /\ IF prop # driver.at
         THEN Raise("broken") /\ UNCHANGED prop
         ELSE \/ \E i \in 1..(Len(PropPhases) - 1) :
                   /\ prop = PropPhases[i]
                   /\ prop' = PropPhases[i + 1]
                   /\ driver' = IF i + 1 = Len(PropPhases)
                                  THEN [driver EXCEPT !.pc = "accounted"]
                                  ELSE [driver EXCEPT !.at = prop']
              \/ /\ Faults
                 /\ Raise("refused") \/ Raise("broken")
                 /\ UNCHANGED prop
    /\ UNCHANGED <<controllerVars, registered, run, recorded, job, report,
                   crashes>>

Accounted ==
    /\ At("accounted")
    /\ Record("PROP", "SUCCESS")
    /\ Goto("to_portfolio")
    /\ UNCHANGED <<controllerVars, registered, run, job, prop, report, crashes>>

EndProp ==
    /\ \/ At("to_portfolio") /\ SetStep("PORTFOLIO", "WAITING_FOR_APPROVAL")
       \/ At("to_report") /\ SetStep("FINAL_REPORT", "WAITING_FOR_APPROVAL")
    /\ Goto("portfolio")
    /\ UNCHANGED <<controllerVars, registered, recorded, job, prop, report,
                   crashes>>

-----------------------------------------------------------------------------
\* resume: _portfolio, _report_and_archive, and the end

Portfolio ==
    /\ At("portfolio")
    /\ \/ /\ "PORTFOLIO" \in Done
          /\ Goto("report")
          /\ UNCHANGED recorded
       \/ /\ "PORTFOLIO" \notin Done
          /\ Record("PORTFOLIO", "SUCCESS")
          /\ Goto("assessed")
       \/ /\ "PORTFOLIO" \notin Done /\ Faults
          /\ Raise("broken")
          /\ UNCHANGED recorded
    /\ UNCHANGED <<controllerVars, registered, run, job, prop, report, crashes>>

Assessed ==
    /\ At("assessed")
    /\ SetStep("FINAL_REPORT", "WAITING_FOR_APPROVAL")
    /\ Goto("report")
    /\ UNCHANGED <<controllerVars, registered, recorded, job, prop, report,
                   crashes>>

\* Mutant: the archive is recorded, and then the report saved.
ReportAfterArchive ==
    /\ \/ /\ At("report")
          /\ IF "ARCHIVE" \in Done
               THEN Goto("complete") /\ UNCHANGED recorded
               ELSE Record("ARCHIVE", "SUCCESS") /\ Goto("archive")
          /\ UNCHANGED report
       \/ /\ At("archive")
          /\ report' = TRUE
          /\ Goto("complete")
          /\ UNCHANGED recorded
    /\ UNCHANGED <<controllerVars, registered, run, job, prop, crashes>>

\* The report is saved, and then the archive recorded.
Report ==
    /\ \/ /\ At("report")
          /\ IF "ARCHIVE" \in Done
               THEN Goto("complete") /\ UNCHANGED report
               ELSE report' = TRUE /\ Goto("archive")
          /\ UNCHANGED recorded
       \/ /\ At("archive")
          /\ Record("ARCHIVE", "SUCCESS")
          /\ Goto("complete")
          /\ UNCHANGED report
    /\ UNCHANGED <<controllerVars, registered, run, job, prop, crashes>>

Complete ==
    /\ At("complete")
    /\ SetStep("COMPLETED", "SUCCESS")
    /\ Return
    /\ UNCHANGED <<controllerVars, registered, recorded, job, prop, report,
                   crashes>>

\* Mutant: the handler keeps the outcome.
FailQuietly ==
    /\ At("refused") \/ At("broken")
    /\ SetStep(driver.at, run.outcome)
    /\ Return
    /\ UNCHANGED <<controllerVars, registered, recorded, job, prop, report,
                   crashes>>

\* The handler writes back the step it read, with the outcome of the failure.
Fail ==
    /\ At("refused") \/ At("broken")
    /\ SetStep(driver.at,
         IF At("broken") THEN IF driver.at = "IMPLEMENTATION"
                                THEN "IMPLEMENTATION_FAILURE" ELSE "FAILED"
         ELSE CASE driver.at \in {"IMPLEMENTATION", "IMPLEMENTATION_VERIFICATION"} ->
                "TECHNICAL_FAILURE"
           [] driver.at = "BASELINE" -> "RESEARCH_FAILURE"
           [] driver.at = "PROP" -> "PROP_FAILURE"
           [] OTHER -> "PORTFOLIO_FAILURE")
    /\ Return
    /\ UNCHANGED <<controllerVars, registered, recorded, job, prop, report,
                   crashes>>

\* The external executor finishes the job.
Execute ==
    /\ job = "OPEN"
    /\ job' \in {"PASSED"} \cup (IF Faults THEN {"FAILED"} ELSE {})
    /\ UNCHANGED <<controllerVars, registered, run, recorded, prop, report,
                   driver, crashes>>

\* A command that has begun goes on.
Continue ==
    \/ Ambiguous \/ Generate \/ Pause \/ Register \/ Submit \/ Specified
    \/ ToApproval
    \/ ApproveStrategy \/ ApproveAgain \/ ApproveRun \/ Reject \/ RejectRun
    \/ InspectJob \/ FollowJob \/ LoadAdapter \/ Implemented \/ Boundary
    \/ Verify \/ Integrity \/ Outcome \/ RecordVerification \/ Baseline
    \/ BeginResearch \/ Research \/ EndResearch \/ Researched
    \/ BeginProp \/ Accounts \/ Accounted \/ EndProp
    \/ Portfolio \/ Assessed \/ Report \/ Complete \/ Fail

Next ==
    \/ Start \/ Regenerate \/ Approve \/ Resume
    \/ Continue
    \/ Execute
    \/ Cancel \/ Crash

Spec == Init /\ [][Next]_vars

\* A command goes on, the executor finishes its job, and whoever waits for
\* the run (the workflow, or the operator) goes on resuming it.
FairSpec ==
    /\ Spec
    /\ WF_vars(Continue) /\ WF_vars(Execute) /\ WF_vars(Resume)

-----------------------------------------------------------------------------

Commands ==
    {"idle", "ambiguous", "generate", "pause", "generation_failed", "register",
     "submit", "submitted", "specified", "review", "to_review", "to_approval",
     "approve", "implement", "approved_again", "approved", "to_implementation",
     "reject", "rejected", "abort", "job", "wait", "ingested", "failed_job",
     "adapter", "implemented", "boundary", "verify", "integrity", "outcome",
     "verified", "tested", "baseline", "research", "researching", "researched",
     "prop", "accounts", "accounted", "to_portfolio", "to_report", "portfolio",
     "assessed", "report", "archive", "complete", "refused", "broken"}

RunOutcomes ==
    {"WAITING_FOR_APPROVAL", "MANUAL_REVIEW_REQUIRED", "ABORTED", "SUCCESS",
     "WAITING_EXTERNAL_SPECIFICATION_GENERATION",
     "SPECIFICATION_GENERATION_FAILURE", "WAITING_EXTERNAL_CODEX",
     "IMPLEMENTATION_VERIFICATION_REQUIRED"} \cup Failures

\* Every row of the run, and the command in progress.
TypeOK ==
    /\ phase \in PipelineState
    /\ registered \in BOOLEAN /\ report \in BOOLEAN
    /\ run \in [step : MasterStep \cup {"NONE"},
                outcome : RunOutcomes \cup {"NONE"},
                approval : {"NONE", "PENDING", "MANUAL_REVIEW_REQUIRED",
                            "APPROVED", "REJECTED"}]
    /\ recorded \in [MasterPhases ->
                       {"NONE", "WAITING_EXTERNAL", "FAILED", "SUCCESS"}]
    /\ job \in {"NONE", "OPEN", "PASSED", "FAILED", "INGESTED"}
    /\ prop \in {PropPhases[i] : i \in DOMAIN PropPhases} \cup {"NONE"}
    /\ driver.pc \in Commands
    /\ crashes \in 0..MaxCrashes

Staged ==
    INSTANCE StagedRun WITH
        Stages <- StageOrder,
        done <- Done \ {"SPECIFICATION"},
        finished <- run.step = "COMPLETED" /\ run.outcome = "SUCCESS"

\* Over any crashes, failures, cancellations and resumes, the records of the
\* stages come in their order and are never undone, and the run claims success
\* only with all of them.
ImplementsStagedRun == Staged!Spec

\* No work is done for a specification nobody approved: the run's approval is
\* the strategy's, no implementation job is created without it, and research
\* has behind it the ingested implementation and a VERIFIED result.
WorkIsApproved ==
    /\ run.approval = "APPROVED" => row.approval_status = "APPROVED"
    /\ job # "NONE" => row.approval_status = "APPROVED"
    /\ phase \in DOMAIN ResearchMoves \cup {"ACCEPTED"} =>
         verified /\ job = "INGESTED" /\ "IMPLEMENTATION" \in Done

\* Where the run says it stands, what leads there is on record, even after a
\* failure whose handler wrote back a step it read before.
StepIsBacked ==
    /\ run.step = "IMPLEMENTATION_VERIFICATION" => job = "INGESTED"
    /\ run.step = "BASELINE" => "TECHNICAL_VERIFICATION" \in Done
    /\ run.step = "PROP" => "RESEARCH" \in Done
    /\ run.step \in {"PORTFOLIO", "FINAL_REPORT"} => "PROP" \in Done
    /\ run.outcome = "SUCCESS" => report /\ run.step = "COMPLETED"

\* reconcile has ingested the job but not moved the run, and the
\* implementation was recorded without the step that follows it (two crashes):
\* each resume takes the run for one that still waits for its executor.
WaitsForFinishedJob ==
    run.outcome = "WAITING_EXTERNAL_CODEX" /\ "IMPLEMENTATION" \in Done

\* An approved run comes to its end or to a failure the operator is told of.
\* (One that was cut short before it left APPROVAL can still be rejected.)
\* WaitsForFinishedJob is the one way in which every resume leaves it open.
EveryRunSettles ==
    run.approval = "APPROVED" ~>
      \/ run.step = "COMPLETED" \/ run.outcome \in Failures
      \/ run.approval = "REJECTED"
      \/ WaitsForFinishedJob

\* What _research raises for: a run completes only with a strategy that its
\* research classified.
CompletedIsClassified ==
    run.step = "COMPLETED" /\ run.outcome = "SUCCESS" => phase \in Classified

\* What the documentation of resume says: after an interruption it reuses the
\* completed phase records and executes the remaining phases, so that a run
\* that has its verified baseline completes.
ResumeFinishes == run.step = "BASELINE" ~> run.step = "COMPLETED"
=============================================================================
