---------------------------- MODULE MasterProofs ----------------------------
(***************************************************************************)
(* A master run, for any number of crashes, failures and cancellations:    *)
(* it implements StagedRun, where it says it stands is backed, and nothing *)
(* is done for it that was not approved.                                   *)
(***************************************************************************)
EXTENDS MasterRun, TLAPS

\* The rows of the run have their columns, whatever is in them.
Rows ==
    /\ row = [current_phase |-> row.current_phase,
              approval_status |-> row.approval_status,
              parameters_frozen |-> row.parameters_frozen,
              frozen_families |-> row.frozen_families,
              holdout_opened |-> row.holdout_opened]
    /\ run = [step |-> run.step, outcome |-> run.outcome,
              approval |-> run.approval]
    /\ recorded = [s \in MasterPhases |-> recorded[s]]
    /\ driver = [pc |-> driver.pc, at |-> driver.at]
    /\ job \in {"NONE", "OPEN", "PASSED", "FAILED", "INGESTED"}

-----------------------------------------------------------------------------
\* What the operations on one row do

\* A command goes on, raises or ends.
LEMMA DriverFacts ==
    ASSUME Rows
    PROVE  /\ \A pc : Goto(pc) => driver'.pc = pc /\ driver'.at = driver.at
           /\ \A kind : Raise(kind) => driver'.pc = kind /\ driver'.at = run.step
           /\ Return => driver'.pc = "idle"
BY DEF Rows, Goto, Raise, Return, Idle

\* The run's row gets its step and its outcome.
LEMMA RunFacts ==
    ASSUME Rows
    PROVE  \A step, outcome : SetStep(step, outcome) =>
             /\ run'.step = step /\ run'.outcome = outcome
             /\ run'.approval = run.approval
BY DEF Rows, SetStep

\* The phases that are recorded.
LEMMA PhasesNamed ==
    MasterPhases =
      {"SPECIFICATION", "IMPLEMENTATION", "IMPLEMENTATION_VERIFICATION",
       "TECHNICAL_VERIFICATION", "RESEARCH", "PROP", "PORTFOLIO", "ARCHIVE"}
BY DEF MasterPhases, StageOrder

\* A phase is recorded with a status, and the others stay what they were.
LEMMA RecordFacts ==
    ASSUME Rows, NEW s \in MasterPhases, NEW status, Record(s, status)
    PROVE  /\ recorded' = [t \in MasterPhases |-> recorded'[t]]
           /\ status = "SUCCESS" => Done' = Done \cup {s}
           /\ Done \ {s} = Done' \ {s}
<1>1. /\ recorded' = [t \in MasterPhases |-> recorded'[t]]
      /\ recorded'[s] = status
      /\ \A t \in MasterPhases \ {s} : recorded'[t] = recorded[t]
  BY DEF Rows, Record
<1>2. Done' = {t \in MasterPhases : recorded'[t] = "SUCCESS"}
  BY DEF Done
<1> QED BY <1>1, <1>2 DEF Done

\* What was not recorded again is as done as it was.
LEMMA DoneKept == recorded' = recorded => Done' = Done
BY DEF Done

\* A transition changes the phase of the strategy and nothing else here.
LEMMA MoveFacts ==
    ASSUME Rows, NEW to, Controller!Move(to)
    PROVE  /\ row' = [row EXCEPT !.current_phase = to] /\ phase' = to
           /\ row'.approval_status = row.approval_status
           /\ verified' = verified
BY DEF Rows, Controller!Move, phase

\* The approval is written once, while the strategy waits for it.
LEMMA ApprovalFacts ==
    ASSUME Rows, NEW status, Controller!MarkApproval(status)
    PROVE  /\ row' = [row EXCEPT !.approval_status = status] /\ phase' = phase
           /\ row.approval_status # "APPROVED"
           /\ row'.approval_status = status
           /\ verified' = verified
BY DEF Rows, Controller!MarkApproval, phase

\* Freezing and the holdout leave the phase and the approval alone.
LEMMA FreezeFacts ==
    ASSUME Rows, Controller!FreezeFamilies \/ Controller!OpenHoldout
    PROVE  /\ phase' = phase
           /\ row'.approval_status = row.approval_status
           /\ verified' = verified
BY DEF Rows, Controller!FreezeFamilies, Controller!OpenHoldout, phase

-----------------------------------------------------------------------------
\* The columns

\* No step makes another record of a row.
LEMMA RowsStep == Rows /\ [Next]_vars => Rows'
<1> SUFFICES ASSUME Rows, [Next]_vars PROVE Rows'
  OBVIOUS
<1> DEFINE
      RowKept == row' = [current_phase |-> row'.current_phase,
                         approval_status |-> row'.approval_status,
                         parameters_frozen |-> row'.parameters_frozen,
                         frozen_families |-> row'.frozen_families,
                         holdout_opened |-> row'.holdout_opened]
      RunKept == run' = [step |-> run'.step, outcome |-> run'.outcome,
                         approval |-> run'.approval]
      RecordedKept == recorded' = [s \in MasterPhases |-> recorded'[s]]
      DriverKept == driver' = [pc |-> driver'.pc, at |-> driver'.at]
<1>row. /\ row' = row => RowKept
        /\ \A to : Controller!Move(to) => RowKept
        /\ \A status : Controller!MarkApproval(status) => RowKept
        /\ Controller!FreezeFamilies => RowKept
        /\ Controller!OpenHoldout => RowKept
        /\ \A outcome : Controller!RecordOutcome(outcome) => RowKept
        /\ Controller!DefineSplit(SplitHash) => RowKept
  BY DEF Rows, Controller!Move, Controller!MarkApproval,
         Controller!FreezeFamilies, Controller!OpenHoldout,
         Controller!RecordOutcome, Controller!DefineSplit
<1>run. /\ run' = run => RunKept
        /\ \A step, outcome : SetStep(step, outcome) => RunKept
  BY DEF Rows, SetStep
<1>recorded. /\ recorded' = recorded => RecordedKept
             /\ \A s, status : Record(s, status) => RecordedKept
  BY DEF Rows, Record
<1>driver. /\ driver' = driver => DriverKept
           /\ \A pc : Goto(pc) => DriverKept
           /\ \A kind : Raise(kind) => DriverKept
           /\ Return => DriverKept
           /\ \A pc, at : driver' = [pc |-> pc, at |-> at] => DriverKept
  BY DEF Rows, Goto, Raise, Return, Idle
<1>job. job' \in {"NONE", "OPEN", "PASSED", "FAILED", "INGESTED"}
  BY DEF Rows, Next, Continue, vars, Rest, Start, Regenerate, Approve, Resume,
         Ambiguous, Generate, Pause, Register, Submit, Specified, ToApproval,
         ApproveStrategy, ApproveAgain, ApproveRun, Reject, RejectRun,
         InspectJob, FollowJob, LoadAdapter, Implemented, Boundary, Verify,
         Integrity, Outcome, RecordVerification, Baseline, BeginResearch,
         Research, EndResearch, Researched, BeginProp, Accounts, Accounted,
         EndProp, Portfolio, Assessed, Report, Complete, Fail, Execute,
         Cancel, Crash
<1> USE <1>row, <1>run, <1>recorded, <1>driver, <1>job DEF Rows, Rest, controllerVars
<1>1. CASE Start
  BY <1>1 DEF Start
<1>2. CASE Regenerate
  BY <1>2 DEF Regenerate
<1>3. CASE Approve
  BY <1>3 DEF Approve
<1>4. CASE Resume
  BY <1>4 DEF Resume
<1>5. CASE Ambiguous
  BY <1>5 DEF Ambiguous
<1>6. CASE Generate
  BY <1>6 DEF Generate
<1>7. CASE Pause
  BY <1>7 DEF Pause
<1>8. CASE Register
  BY <1>8 DEF Register
<1>9. CASE Submit
  BY <1>9 DEF Submit
<1>10. CASE Specified
  BY <1>10 DEF Specified
<1>11. CASE ToApproval
  BY <1>11 DEF ToApproval
<1>12. CASE ApproveStrategy
  BY <1>12 DEF ApproveStrategy
<1>13. CASE ApproveAgain
  BY <1>13 DEF ApproveAgain
<1>14. CASE ApproveRun
  BY <1>14 DEF ApproveRun
<1>15. CASE Reject
  BY <1>15 DEF Reject
<1>16. CASE RejectRun
  BY <1>16 DEF RejectRun
<1>17. CASE InspectJob
  BY <1>17 DEF InspectJob
<1>18. CASE FollowJob
  BY <1>18 DEF FollowJob
<1>19. CASE LoadAdapter
  BY <1>19 DEF LoadAdapter
<1>20. CASE Implemented
  BY <1>20 DEF Implemented
<1>21. CASE Boundary
  BY <1>21 DEF Boundary
<1>22. CASE Verify
  BY <1>22 DEF Verify
<1>23. CASE Integrity
  BY <1>23 DEF Integrity
<1>24. CASE Outcome
  BY <1>24 DEF Outcome
<1>25. CASE RecordVerification
  BY <1>25 DEF RecordVerification
<1>26. CASE Baseline
  BY <1>26 DEF Baseline
<1>27. CASE BeginResearch
  BY <1>27 DEF BeginResearch
<1>28. CASE Research
  BY <1>28 DEF Research
<1>29. CASE EndResearch
  BY <1>29 DEF EndResearch
<1>30. CASE Researched
  BY <1>30 DEF Researched
<1>31. CASE BeginProp
  BY <1>31 DEF BeginProp
<1>32. CASE Accounts
  BY <1>32 DEF Accounts
<1>33. CASE Accounted
  BY <1>33 DEF Accounted
<1>34. CASE EndProp
  BY <1>34 DEF EndProp
<1>35. CASE Portfolio
  BY <1>35 DEF Portfolio
<1>36. CASE Assessed
  BY <1>36 DEF Assessed
<1>37. CASE Report
  BY <1>37 DEF Report
<1>38. CASE Complete
  BY <1>38 DEF Complete
<1>39. CASE Fail
  BY <1>39 DEF Fail
<1>40. CASE Execute
  BY <1>40 DEF Execute
<1>41. CASE Cancel
  BY <1>41 DEF Cancel
<1>42. CASE Crash
  BY <1>42 DEF Crash
<1>99. CASE UNCHANGED vars
  BY <1>99 DEF vars
<1> QED BY <1>1, <1>2, <1>3, <1>4, <1>5, <1>6, <1>7, <1>8, <1>9, <1>10, <1>11,
         <1>12, <1>13, <1>14, <1>15, <1>16, <1>17, <1>18, <1>19, <1>20, <1>21,
         <1>22, <1>23, <1>24, <1>25, <1>26, <1>27, <1>28, <1>29, <1>30, <1>31,
         <1>32, <1>33, <1>34, <1>35, <1>36, <1>37, <1>38, <1>39, <1>40, <1>41,
         <1>42, <1>99 DEF Next, Continue

-----------------------------------------------------------------------------
\* What is never undone

\* A stage that is recorded as done stays so.
LEMMA DoneGrows ==
    Rows /\ [Next]_vars =>
      \A s \in MasterPhases \ {"SPECIFICATION"} : s \in Done => s \in Done'
<1> SUFFICES ASSUME Rows, [Next]_vars,
                    NEW s \in MasterPhases \ {"SPECIFICATION"}, s \in Done
             PROVE  s \in Done'
  OBVIOUS
<1>k. recorded' = recorded => s \in Done'
  BY DoneKept
<1>s. \A status : Record("SPECIFICATION", status) => s \in Done'
  BY RecordFacts, PhasesNamed
<1>r. \A t \in MasterPhases : Record(t, "SUCCESS") => s \in Done'
  BY RecordFacts
<1>1. CASE Generate \/ Specified \/ LoadAdapter \/ RecordVerification \/
          EndResearch \/ BeginProp \/ Accounted \/ Portfolio \/ Report
  BY <1>1, <1>k, <1>s, <1>r, PhasesNamed
     DEF Generate, Specified, LoadAdapter, RecordVerification, EndResearch,
         BeginProp, Accounted, Portfolio, Report, Rest
<1>2. CASE Start \/ Regenerate \/ Approve \/ Resume \/ Ambiguous \/ Pause \/
          Register \/ Submit \/ ToApproval \/ ApproveStrategy \/ ApproveAgain
          \/ ApproveRun \/ Reject \/ RejectRun \/ InspectJob \/ FollowJob \/
          Implemented \/ Boundary \/ Verify \/ Integrity \/ Outcome \/
          Baseline \/ BeginResearch \/ Research \/ Researched \/ Accounts \/
          EndProp \/ Assessed \/ Complete \/ Fail \/ Execute \/ Cancel \/
          Crash
  BY <1>2, <1>k, <1>s, <1>r, PhasesNamed
     DEF Start, Regenerate, Approve, Resume, Ambiguous, Pause, Register,
         Submit, ToApproval, ApproveStrategy, ApproveAgain, ApproveRun,
         Reject, RejectRun, InspectJob, FollowJob, Implemented, Boundary,
         Verify, Integrity, Outcome, Baseline, BeginResearch, Research,
         Researched, Accounts, EndProp, Assessed, Complete, Fail, Execute,
         Cancel, Crash, Rest
<1>3. CASE UNCHANGED vars
  BY <1>3, <1>k DEF vars
<1> QED BY <1>1, <1>2, <1>3 DEF Next, Continue

\* An ingested job stays ingested, an approved strategy approved, a saved
\* report saved and a verified strategy verified.
LEMMA FactsStay ==
    Rows /\ [Next]_vars =>
      /\ job = "INGESTED" => job' = "INGESTED"
      /\ row.approval_status = "APPROVED" => row'.approval_status = "APPROVED"
      /\ report => report'
      /\ verified => verified'
<1> SUFFICES ASSUME Rows, [Next]_vars
             PROVE  /\ job = "INGESTED" => job' = "INGESTED"
                    /\ row.approval_status = "APPROVED" =>
                         row'.approval_status = "APPROVED"
                    /\ report => report'
                    /\ verified => verified'
  OBVIOUS
<1>job. job = "INGESTED" => job' = "INGESTED"
  BY DriverFacts DEF Next, Continue, vars, Rest, Start, Regenerate, Approve,
       Resume,
         Ambiguous, Generate, Pause, Register, Submit, Specified, ToApproval,
         ApproveStrategy, ApproveAgain, ApproveRun, Reject, RejectRun,
         InspectJob, FollowJob, LoadAdapter, Implemented, Boundary, Verify,
         Integrity, Outcome, RecordVerification, Baseline, BeginResearch,
         Research, EndResearch, Researched, BeginProp, Accounts, Accounted,
         EndProp, Portfolio, Assessed, Report, Complete, Fail, Execute,
         Cancel, Crash
<1>report. report => report'
  BY DriverFacts DEF Next, Continue, vars, Rest, Start, Regenerate, Approve,
       Resume,
         Ambiguous, Generate, Pause, Register, Submit, Specified, ToApproval,
         ApproveStrategy, ApproveAgain, ApproveRun, Reject, RejectRun,
         InspectJob, FollowJob, LoadAdapter, Implemented, Boundary, Verify,
         Integrity, Outcome, RecordVerification, Baseline, BeginResearch,
         Research, EndResearch, Researched, BeginProp, Accounts, Accounted,
         EndProp, Portfolio, Assessed, Report, Complete, Fail, Execute,
         Cancel, Crash
<1>verified. verified => verified'
  BY MoveFacts, ApprovalFacts, FreezeFacts
     DEF Next, Continue, vars, Rest, controllerVars, Controller!RecordOutcome,
         Controller!DefineSplit, Start, Regenerate, Approve, Resume,
         Ambiguous, Generate, Pause, Register, Submit, Specified, ToApproval,
         ApproveStrategy, ApproveAgain, ApproveRun, Reject, RejectRun,
         InspectJob, FollowJob, LoadAdapter, Implemented, Boundary, Verify,
         Integrity, Outcome, RecordVerification, Baseline, BeginResearch,
         Research, EndResearch, Researched, BeginProp, Accounts, Accounted,
         EndProp, Portfolio, Assessed, Report, Complete, Fail, Execute,
         Cancel, Crash
<1>row. row.approval_status = "APPROVED" => row'.approval_status = "APPROVED"
  BY MoveFacts, ApprovalFacts, FreezeFacts
     DEF Next, Continue, vars, Rest, controllerVars, Rows,
         Controller!RecordOutcome, Controller!DefineSplit, Start, Regenerate,
         Approve, Resume, Ambiguous, Generate, Pause, Register, Submit,
         Specified, ToApproval, ApproveStrategy, ApproveAgain, ApproveRun,
         Reject, RejectRun, InspectJob, FollowJob, LoadAdapter, Implemented,
         Boundary, Verify, Integrity, Outcome, RecordVerification, Baseline,
         BeginResearch, Research, EndResearch, Researched, BeginProp,
         Accounts, Accounted, EndProp, Portfolio, Assessed, Report, Complete,
         Fail, Execute, Cancel, Crash
<1> QED BY <1>job, <1>report, <1>verified, <1>row

-----------------------------------------------------------------------------
\* The order of the stages

\* What a command has behind it where it stands.
Reached ==
    /\ driver.pc \in {"verify", "integrity", "outcome", "verified"} =>
         "IMPLEMENTATION" \in Done
    /\ At("tested") => "IMPLEMENTATION_VERIFICATION" \in Done
    /\ driver.pc \in {"baseline", "research", "researching"} =>
         "TECHNICAL_VERIFICATION" \in Done
    /\ driver.pc \in {"researched", "prop", "accounts", "accounted"} =>
         "RESEARCH" \in Done
    /\ driver.pc \in {"to_portfolio", "to_report", "portfolio"} => "PROP" \in Done
    /\ driver.pc \in {"assessed", "report", "archive"} => "PORTFOLIO" \in Done
    /\ At("complete") => "ARCHIVE" \in Done

\* No stage is done before the one that precedes it.
InOrder ==
    /\ "IMPLEMENTATION_VERIFICATION" \in Done => "IMPLEMENTATION" \in Done
    /\ "TECHNICAL_VERIFICATION" \in Done => "IMPLEMENTATION_VERIFICATION" \in Done
    /\ "RESEARCH" \in Done => "TECHNICAL_VERIFICATION" \in Done
    /\ "PROP" \in Done => "RESEARCH" \in Done
    /\ "PORTFOLIO" \in Done => "PROP" \in Done
    /\ "ARCHIVE" \in Done => "PORTFOLIO" \in Done

\* What was not done is.
Adds(s) == s \notin Done /\ Done' = Done \cup {s}

\* The stages done so far.
StagesDone == Done \ {"SPECIFICATION"}

\* A step does no stage, or one whose predecessor is done, in a command.
LEMMA OneStage ==
    Rows /\ Reached /\ [Next]_vars =>
      \/ StagesDone' = StagesDone
      \/ /\ run' = run /\ ~At("idle")
         /\ \/ Adds("IMPLEMENTATION") /\ At("adapter")
            \/ Adds("IMPLEMENTATION_VERIFICATION") /\ "IMPLEMENTATION" \in Done
            \/ /\ Adds("TECHNICAL_VERIFICATION")
               /\ "IMPLEMENTATION_VERIFICATION" \in Done
            \/ Adds("RESEARCH") /\ "TECHNICAL_VERIFICATION" \in Done
            \/ Adds("PROP") /\ "RESEARCH" \in Done
            \/ Adds("PORTFOLIO") /\ "PROP" \in Done
            \/ Adds("ARCHIVE") /\ "PORTFOLIO" \in Done /\ At("archive")
<1> SUFFICES ASSUME Rows, Reached, [Next]_vars, StagesDone' # StagesDone
             PROVE  /\ run' = run /\ ~At("idle")
                    /\ \/ Adds("IMPLEMENTATION") /\ At("adapter")
                       \/ /\ Adds("IMPLEMENTATION_VERIFICATION")
                          /\ "IMPLEMENTATION" \in Done
                       \/ /\ Adds("TECHNICAL_VERIFICATION")
                          /\ "IMPLEMENTATION_VERIFICATION" \in Done
                       \/ Adds("RESEARCH") /\ "TECHNICAL_VERIFICATION" \in Done
                       \/ Adds("PROP") /\ "RESEARCH" \in Done
                       \/ Adds("PORTFOLIO") /\ "PROP" \in Done
                       \/ Adds("ARCHIVE") /\ "PORTFOLIO" \in Done /\ At("archive")
  OBVIOUS
<1>k. recorded' # recorded
  BY DoneKept DEF StagesDone
<1>s. \A status : ~Record("SPECIFICATION", status)
  BY RecordFacts, PhasesNamed DEF StagesDone
<1>r. \A s \in MasterPhases : Record(s, "SUCCESS") => Adds(s)
  BY RecordFacts DEF StagesDone, Adds
<1>a. (LoadAdapter \/ RecordVerification \/ EndResearch \/ BeginProp \/ Accounted
        \/ Portfolio \/ Report)
      /\ run' = run
  BY <1>k, <1>s
     DEF Next, Continue, vars, Rest, Start, Regenerate, Approve, Resume,
         Ambiguous, Generate, Pause, Register, Submit, Specified, ToApproval,
         ApproveStrategy, ApproveAgain, ApproveRun, Reject, RejectRun,
         InspectJob, FollowJob, LoadAdapter, Implemented, Boundary, Verify,
         Integrity, Outcome, RecordVerification, Baseline, BeginResearch,
         Research, EndResearch, Researched, BeginProp, Accounts, Accounted,
         EndProp, Portfolio, Assessed, Report, Complete, Fail, Execute,
         Cancel, Crash
<1> QED BY <1>a, <1>k, <1>r, PhasesNamed
     DEF Reached, At, LoadAdapter, RecordVerification, EndResearch, BeginProp,
         Accounted, Portfolio, Report

\* How a command comes to where it has something behind it.
Way(from, to) ==
    \/ driver' = driver
    \/ from = to /\ to \in {"verify", "integrity", "research", "researching", "accounts"}
    \/ from = "idle" /\ to = "job" /\ run.approval = "APPROVED"
    \/ <<from, to>> \in {<<"ingested", "adapter">>, <<"adapter", "implemented">>}
    \/ from = "job" /\ to \in {"ingested", "adapter"} /\ job' = "INGESTED"
    \/ from = "boundary" /\ to = "verify" /\ "IMPLEMENTATION" \in Done
    \/ from = "boundary" /\ to = "research" /\ "TECHNICAL_VERIFICATION" \in Done
    \/ <<from, to>> \in {<<"verify", "integrity">>, <<"integrity", "outcome">>,
                        <<"outcome", "verified">>}
    \/ /\ from = "verified" /\ to = "tested"
       /\ Record("IMPLEMENTATION_VERIFICATION", "SUCCESS")
    \/ /\ from = "tested" /\ to = "baseline"
       /\ Record("TECHNICAL_VERIFICATION", "SUCCESS")
    \/ from = "baseline" /\ to = "research"
    \/ from = "research" /\ to = "researching"
    \/ from = "research" /\ to = "prop" /\ "RESEARCH" \in Done
    \/ from = "researching" /\ to = "researched" /\ Record("RESEARCH", "SUCCESS")
    \/ <<from, to>> \in {<<"researched", "prop">>, <<"prop", "accounts">>,
                        <<"accounts", "accounted">>}
    \/ from = "prop" /\ to = "portfolio" /\ "PROP" \in Done
    \/ to \in {"to_portfolio", "to_report"} /\ Record("PROP", "SUCCESS")
    \/ from \in {"to_portfolio", "to_report"} /\ to = "portfolio"
    \/ from = "portfolio" /\ to = "report" /\ "PORTFOLIO" \in Done
    \/ from = "portfolio" /\ to = "assessed" /\ Record("PORTFOLIO", "SUCCESS")
    \/ from = "assessed" /\ to = "report"
    \/ from = "report" /\ to = "archive"
    \/ from = "report" /\ to = "complete" /\ "ARCHIVE" \in Done
    \/ from = "archive" /\ to = "complete" /\ Record("ARCHIVE", "SUCCESS")
    \/ to \in {"idle", "ambiguous", "generate", "pause", "generation_failed",
              "register", "submit", "submitted", "specified", "review",
              "to_review", "to_approval", "approve", "implement",
              "approved_again", "to_implementation", "reject", "rejected",
              "abort", "wait", "failed_job", "boundary"}
    \/ from = "approved_again" /\ to = "approved"
    \/ to \in {"refused", "broken"} /\ driver'.at = run.step

\* Each step goes such a way.
LEMMA Ways == Rows /\ [Next]_vars => Way(driver.pc, driver'.pc)
<1> SUFFICES ASSUME Rows, [Next]_vars PROVE Way(driver.pc, driver'.pc)
  OBVIOUS
<1>a. \A pc : Goto(pc) => driver'.pc = pc
  BY DriverFacts
<1>b. \A kind : Raise(kind) => driver'.pc = kind /\ driver'.at = run.step
  BY DriverFacts
<1>c. Return => driver'.pc = "idle"
  BY DriverFacts
<1>1. CASE Start
  <2>1. driver'.pc \in {"generate", "ambiguous"}
    BY <1>1 DEF Start
  <2> QED BY <2>1 DEF Way
<1>2. CASE Regenerate
  BY <1>2, <1>a, <1>b, <1>c DEF Regenerate, At, Way, Rest
<1>3. CASE Approve
  BY <1>3, <1>a, <1>b, <1>c DEF Approve, At, Way, Rest
<1>4. CASE Resume
  BY <1>4, <1>a, <1>b, <1>c DEF Resume, At, Way, Rest
<1>5. CASE Ambiguous
  BY <1>5, <1>a, <1>b, <1>c DEF Ambiguous, At, Way, Rest
<1>6. CASE Generate
  BY <1>6, <1>a, <1>b, <1>c DEF Generate, At, Way, Rest
<1>7. CASE Pause
  BY <1>7, <1>a, <1>b, <1>c DEF Pause, At, Way, Rest
<1>8. CASE Register
  BY <1>8, <1>a, <1>b, <1>c DEF Register, At, Way, Rest
<1>9. CASE Submit
  BY <1>9, <1>a, <1>b, <1>c DEF Submit, At, Way, Rest
<1>10. CASE Specified
  BY <1>10, <1>a, <1>b, <1>c DEF Specified, At, Way, Rest
<1>11. CASE ToApproval
  BY <1>11, <1>a, <1>b, <1>c DEF ToApproval, At, Way, Rest
<1>12. CASE ApproveStrategy
  BY <1>12, <1>a, <1>b, <1>c DEF ApproveStrategy, At, Way, Rest
<1>13. CASE ApproveAgain
  BY <1>13, <1>a, <1>b, <1>c DEF ApproveAgain, At, Way, Rest
<1>14. CASE ApproveRun
  BY <1>14, <1>a, <1>b, <1>c DEF ApproveRun, At, Way, Rest
<1>15. CASE Reject
  BY <1>15, <1>a, <1>b, <1>c DEF Reject, At, Way, Rest
<1>16. CASE RejectRun
  BY <1>16, <1>a, <1>b, <1>c DEF RejectRun, At, Way, Rest
<1>17. CASE InspectJob
  BY <1>17, <1>a, <1>b, <1>c DEF InspectJob, At, Way, Rest, Rows
<1>18. CASE FollowJob
  BY <1>18, <1>a, <1>b, <1>c DEF FollowJob, At, Way, Rest
<1>19. CASE LoadAdapter
  BY <1>19, <1>a, <1>b, <1>c DEF LoadAdapter, At, Way, Rest
<1>20. CASE Implemented
  BY <1>20, <1>a, <1>b, <1>c DEF Implemented, At, Way, Rest
<1>21. CASE Boundary
  BY <1>21, <1>a, <1>b, <1>c DEF Boundary, At, Way, Rest
<1>22. CASE Verify
  BY <1>22, <1>a, <1>b, <1>c DEF Verify, At, Way, Rest
<1>23. CASE Integrity
  <2>1. /\ At("integrity")
        /\ \/ driver'.pc \in {"integrity", "outcome"}
           \/ driver'.pc = "broken" /\ driver'.at = run.step
    BY <1>23, <1>a, <1>b DEF Integrity
  <2> QED BY <2>1 DEF Way, At
<1>24. CASE Outcome
  BY <1>24, <1>a, <1>b, <1>c DEF Outcome, At, Way, Rest
<1>25. CASE RecordVerification
  BY <1>25, <1>a, <1>b, <1>c DEF RecordVerification, At, Way, Rest
<1>26. CASE Baseline
  BY <1>26, <1>a, <1>b, <1>c DEF Baseline, At, Way, Rest
<1>27. CASE BeginResearch
  BY <1>27, <1>a, <1>b, <1>c DEF BeginResearch, At, Way, Rest
<1>28. CASE Research
  BY <1>28, <1>a, <1>b, <1>c DEF Research, At, Way, Rest
<1>29. CASE EndResearch
  BY <1>29, <1>a, <1>b, <1>c DEF EndResearch, At, Way, Rest
<1>30. CASE Researched
  BY <1>30, <1>a, <1>b, <1>c DEF Researched, At, Way, Rest
<1>31. CASE BeginProp
  <2>1. /\ At("prop")
        /\ \/ driver'.pc = "accounts"
           \/ driver'.pc = "refused" /\ driver'.at = run.step
           \/ driver'.pc = "portfolio" /\ "PROP" \in Done
           \/ /\ driver'.pc \in {"to_portfolio", "to_report"}
              /\ Record("PROP", "SUCCESS")
    <3>1. CASE driver' = [pc |-> "accounts", at |-> PropPhases[1]]
      <4>1. driver'.pc = "accounts"
        BY <3>1
      <4> QED BY <1>31, <4>1 DEF BeginProp
    <3>2. CASE driver' # [pc |-> "accounts", at |-> PropPhases[1]]
      BY <1>31, <3>2, <1>a, <1>b DEF BeginProp
    <3> QED BY <3>1, <3>2
  <2> QED BY <2>1 DEF Way, At
<1>32. CASE Accounts
  BY <1>32, <1>a, <1>b DEF Accounts, At, Way, Rows
<1>33. CASE Accounted
  BY <1>33, <1>a, <1>b, <1>c DEF Accounted, At, Way, Rest
<1>34. CASE EndProp
  BY <1>34, <1>a, <1>b, <1>c DEF EndProp, At, Way, Rest
<1>35. CASE Portfolio
  BY <1>35, <1>a, <1>b, <1>c DEF Portfolio, At, Way, Rest
<1>36. CASE Assessed
  BY <1>36, <1>a, <1>b, <1>c DEF Assessed, At, Way, Rest
<1>37. CASE Report
  BY <1>37, <1>a, <1>b, <1>c DEF Report, At, Way, Rest
<1>38. CASE Complete
  BY <1>38, <1>a, <1>b, <1>c DEF Complete, At, Way, Rest
<1>39. CASE Fail
  BY <1>39, <1>a, <1>b, <1>c DEF Fail, At, Way, Rest
<1>40. CASE Execute
  BY <1>40, <1>a, <1>b, <1>c DEF Execute, At, Way, Rest
<1>41. CASE Cancel
  BY <1>41, <1>a, <1>b, <1>c DEF Cancel, At, Way, Rest
<1>42. CASE Crash
  BY <1>42, <1>a, <1>b, <1>c DEF Crash, At, Way, Rest
<1>43. CASE UNCHANGED vars
  BY <1>43 DEF vars, Way
<1> QED BY <1>1, <1>2, <1>3, <1>4, <1>5, <1>6, <1>7, <1>8, <1>9, <1>10, <1>11,
           <1>12, <1>13, <1>14, <1>15, <1>16, <1>17, <1>18, <1>19, <1>20,
           <1>21, <1>22, <1>23, <1>24, <1>25, <1>26, <1>27, <1>28, <1>29,
           <1>30, <1>31, <1>32, <1>33, <1>34, <1>35, <1>36, <1>37, <1>38,
           <1>39, <1>40, <1>41, <1>42, <1>43 DEF Next, Continue

\* A command goes on only past what is done.
LEMMA ReachedStep == Rows /\ Reached /\ [Next]_vars => Reached'
<1> SUFFICES ASSUME Rows, Reached, [Next]_vars PROVE Reached'
  OBVIOUS
<1>g. \A s \in MasterPhases \ {"SPECIFICATION"} : s \in Done => s \in Done'
  BY DoneGrows
<1>r. \A s \in MasterPhases : Record(s, "SUCCESS") => s \in Done'
  BY RecordFacts
<1>w. Way(driver.pc, driver'.pc)
  BY Ways
<1> QED BY <1>g, <1>r, <1>w, PhasesNamed DEF Reached, At, Way

\* The stages are done in their order.
LEMMA InOrderStep ==
    Rows /\ Reached /\ InOrder /\ [Next]_vars => InOrder'
<1> SUFFICES ASSUME Rows, Reached, InOrder, [Next]_vars PROVE InOrder'
  OBVIOUS
<1>1. CASE StagesDone' = StagesDone
  BY <1>1 DEF InOrder, StagesDone
<1>2. CASE StagesDone' # StagesDone
  BY <1>2, OneStage DEF InOrder, Adds
<1> QED BY <1>1, <1>2

-----------------------------------------------------------------------------
\* Where the run says it stands

\* How the row of the run is written.
Written ==
    \/ run' = run
    \/ /\ run'.outcome # "SUCCESS"
       /\ run'.approval = "APPROVED" => run.approval = "APPROVED"
       /\ \/ run'.step \in {"SPECIFICATION", "APPROVAL", "IMPLEMENTATION",
                            "COMPLETED"}
          \/ /\ run'.step = "IMPLEMENTATION_VERIFICATION"
             /\ driver.pc \in {"ingested", "implemented"}
          \/ run'.step = "BASELINE" /\ At("baseline")
          \/ run'.step = "PROP" /\ At("researched")
          \/ run'.step = "PORTFOLIO" /\ At("to_portfolio")
          \/ run'.step = "FINAL_REPORT" /\ driver.pc \in {"to_report", "assessed"}
          \/ run'.step = driver.at /\ driver.pc \in {"refused", "broken"}
    \/ /\ run'.step = run.step /\ run'.outcome = run.outcome
       /\ \/ At("approved")
          \/ At("rejected") /\ run'.approval = "REJECTED"
    \/ /\ At("complete") /\ driver'.pc = "idle"
       /\ run'.step = "COMPLETED" /\ run'.approval = run.approval

\* Each step leaves the row alone, or writes it so.
LEMMA RunWritten == Rows /\ [Next]_vars => Written
<1> SUFFICES ASSUME Rows, [Next]_vars PROVE Written
  OBVIOUS
<1>a. \A step, outcome : SetStep(step, outcome) =>
        /\ run'.step = step /\ run'.outcome = outcome
        /\ run'.approval = run.approval
  BY RunFacts
<1>b. Return => driver'.pc = "idle"
  BY DriverFacts
<1>1. CASE Start
  BY <1>1, <1>a, <1>b DEF Start, At, Written
<1>2. CASE Ambiguous
  BY <1>2, <1>a, <1>b DEF Ambiguous, At, Written
<1>3. CASE Pause
  BY <1>3, <1>a, <1>b DEF Pause, At, Written
<1>4. CASE ToApproval
  BY <1>4, <1>a, <1>b DEF ToApproval, At, Written
<1>5. CASE ApproveRun
  BY <1>5, <1>a, <1>b DEF ApproveRun, At, Written, Rows
<1>6. CASE RejectRun
  BY <1>6, <1>a, <1>b DEF RejectRun, At, Written, Rows
<1>7. CASE FollowJob
  BY <1>7, <1>a, <1>b DEF FollowJob, At, Written
<1>8. CASE Implemented
  BY <1>8, <1>a, <1>b DEF Implemented, At, Written
<1>9. CASE Baseline
  BY <1>9, <1>a, <1>b DEF Baseline, At, Written
<1>10. CASE Researched
  BY <1>10, <1>a, <1>b DEF Researched, At, Written
<1>11. CASE EndProp
  BY <1>11, <1>a, <1>b DEF EndProp, At, Written
<1>12. CASE Assessed
  BY <1>12, <1>a, <1>b DEF Assessed, At, Written
<1>13. CASE Complete
  BY <1>13, <1>a, <1>b DEF Complete, At, Written
<1>14. CASE Fail
  BY <1>14, <1>a, <1>b DEF Fail, At, Written
<1>15. CASE Cancel
  BY <1>15, <1>a, <1>b DEF Cancel, At, Written
<1>16. CASE Regenerate \/ Approve \/ Resume \/ Generate \/ Register \/ Submit
          \/ Specified \/ ApproveStrategy \/ ApproveAgain \/ Reject \/
          InspectJob \/ LoadAdapter \/ Boundary \/ Verify \/ Integrity \/
          Outcome \/ RecordVerification \/ BeginResearch \/ Research \/
          EndResearch \/ BeginProp \/ Accounts \/ Accounted \/ Portfolio \/
          Report \/ Execute \/ Crash \/ UNCHANGED vars
  BY <1>16
     DEF Written, Rest, vars, Regenerate, Approve, Resume, Generate, Register,
         Submit, Specified, ApproveStrategy, ApproveAgain, Reject, InspectJob,
         LoadAdapter, Boundary, Verify, Integrity, Outcome,
         RecordVerification, BeginResearch, Research, EndResearch, BeginProp,
         Accounts, Accounted, Portfolio, Report, Execute, Crash
<1> QED BY <1>1, <1>2, <1>3, <1>4, <1>5, <1>6, <1>7, <1>8, <1>9, <1>10, <1>11,
           <1>12, <1>13, <1>14, <1>15, <1>16 DEF Next, Continue

\* The archive has its report, and only a run with both claims success.
Reported ==
    /\ "ARCHIVE" \in Done \/ At("archive") => report
    /\ run.outcome = "SUCCESS" =>
         At("idle") /\ run.step = "COMPLETED" /\ "ARCHIVE" \in Done

\* A step never lets go of a report it archives, nor takes a finished run up.
LEMMA ReportedStep ==
    Rows /\ Reached /\ Reported /\ [Next]_vars => Reported'
<1> SUFFICES ASSUME Rows, Reached, Reported, [Next]_vars PROVE Reported'
  OBVIOUS
<1>a. (report => report') /\ ("ARCHIVE" \in Done => "ARCHIVE" \in Done')
  BY FactsStay, DoneGrows, PhasesNamed
<1>1. "ARCHIVE" \in Done' => report'
  <2>1. CASE "ARCHIVE" \in Done
    BY <2>1, <1>a DEF Reported
  <2>2. CASE "ARCHIVE" \notin Done /\ "ARCHIVE" \in Done'
    BY <2>2, <1>a, OneStage DEF Reported, StagesDone, Adds
  <2> QED BY <2>1, <2>2
<1>2. At("archive")' => report'
  <2> SUFFICES ASSUME driver'.pc = "archive", ~At("archive") PROVE report'
    BY <1>a DEF At, Reported
  <2>1. At("report")
    BY Ways DEF Way, At
  <2>2. Report
    <3>1. driver' # driver /\ driver'.pc # "idle" /\ driver.pc = "report"
      BY <2>1 DEF At
    <3>2. Return => driver'.pc = "idle"
      BY DriverFacts
    <3> QED BY <3>1, <3>2 DEF At, Next, Continue, vars, Rest, Start,
         Regenerate, Approve, Resume,
         Ambiguous, Generate, Pause, Register, Submit, Specified, ToApproval,
         ApproveStrategy, ApproveAgain, ApproveRun, Reject, RejectRun,
         InspectJob, FollowJob, LoadAdapter, Implemented, Boundary, Verify,
         Integrity, Outcome, RecordVerification, Baseline, BeginResearch,
         Research, EndResearch, Researched, BeginProp, Accounts, Accounted,
         EndProp, Portfolio, Assessed, Report, Complete, Fail, Execute,
         Cancel, Crash
  <2>3. \A pc : Goto(pc) => driver'.pc = pc
    BY DriverFacts
  <2> QED BY <2>2, <2>3 DEF Report, At
<1>3. run'.outcome = "SUCCESS" =>
        At("idle")' /\ run'.step = "COMPLETED" /\ "ARCHIVE" \in Done'
  <2> SUFFICES ASSUME run'.outcome = "SUCCESS"
               PROVE  At("idle")' /\ run'.step = "COMPLETED" /\ "ARCHIVE" \in Done'
    OBVIOUS
  <2>1. CASE At("complete") /\ run'.step = "COMPLETED" /\ driver'.pc = "idle"
    BY <2>1, <1>a DEF Reached, At
  <2>2. CASE run' = run
    <3>1. At("idle") /\ run.step = "COMPLETED" /\ "ARCHIVE" \in Done
      BY <2>2 DEF Reported
    <3>2. run # NoRun
      BY <3>1 DEF NoRun
    <3>3. driver' = driver
      BY <3>1, <3>2 DEF At, Next, Continue, vars, Rest, Start, Regenerate,
           Approve, Resume,
         Ambiguous, Generate, Pause, Register, Submit, Specified, ToApproval,
         ApproveStrategy, ApproveAgain, ApproveRun, Reject, RejectRun,
         InspectJob, FollowJob, LoadAdapter, Implemented, Boundary, Verify,
         Integrity, Outcome, RecordVerification, Baseline, BeginResearch,
         Research, EndResearch, Researched, BeginProp, Accounts, Accounted,
         EndProp, Portfolio, Assessed, Report, Complete, Fail, Execute,
         Cancel, Crash
    <3> QED BY <3>1, <3>3, <2>2, <1>a DEF At
  <2> QED BY <2>1, <2>2, RunWritten DEF Written, Reported, At
<1> QED BY <1>1, <1>2, <1>3 DEF Reported

\* What a step of the run has behind it.
Standing(step) ==
    /\ step = "IMPLEMENTATION_VERIFICATION" => job = "INGESTED"
    /\ step = "BASELINE" => "TECHNICAL_VERIFICATION" \in Done
    /\ step = "PROP" => "RESEARCH" \in Done
    /\ step \in {"PORTFOLIO", "FINAL_REPORT"} => "PROP" \in Done

\* So has the step that a failed resume is going to write back, and the job is
\* ingested before its implementation is recorded.
Backed ==
    /\ Standing(run.step)
    /\ driver.pc \in {"refused", "broken"} => Standing(driver.at)
    /\ driver.pc \in {"ingested", "adapter", "implemented"} => job = "INGESTED"
    /\ "IMPLEMENTATION" \in Done => job = "INGESTED"

\* The run is moved on, or back, only to where it stands.
LEMMA BackedStep ==
    Rows /\ Reached /\ InOrder /\ Backed /\ [Next]_vars => Backed'
<1> SUFFICES ASSUME Rows, Reached, InOrder, Backed, [Next]_vars PROVE Backed'
  OBVIOUS
<1>a. \A s \in MasterPhases \ {"SPECIFICATION"} : s \in Done => s \in Done'
  BY DoneGrows
<1>b. job = "INGESTED" => job' = "INGESTED"
  BY FactsStay
<1>c. ASSUME NEW step, Standing(step)
      PROVE  /\ step = "IMPLEMENTATION_VERIFICATION" => job' = "INGESTED"
             /\ step = "BASELINE" => "TECHNICAL_VERIFICATION" \in Done'
             /\ step = "PROP" => "RESEARCH" \in Done'
             /\ step \in {"PORTFOLIO", "FINAL_REPORT"} => "PROP" \in Done'
  BY <1>a, <1>b, <1>c, PhasesNamed DEF Standing
<1>1. Standing(run.step)'
  <2>1. Standing(run'.step)
    BY RunWritten DEF Written, Backed, Reached, InOrder, Standing, At
  <2> QED BY <2>1, <1>c DEF Standing
<1>2. driver'.pc \in {"refused", "broken"} => Standing(driver.at)'
  <2> SUFFICES ASSUME driver'.pc \in {"refused", "broken"} PROVE Standing(driver.at)'
    OBVIOUS
  <2>1. driver' = driver \/ driver'.at = run.step
    BY Ways DEF Way
  <2>2. Standing(driver'.at)
    BY <2>1 DEF Backed
  <2> QED BY <2>2, <1>c DEF Standing
<1>3. driver'.pc \in {"ingested", "adapter", "implemented"} => job' = "INGESTED"
  BY Ways, <1>b DEF Way, Backed
<1>4. "IMPLEMENTATION" \in Done' => job' = "INGESTED"
  <2>1. CASE "IMPLEMENTATION" \in Done
    BY <2>1, <1>b DEF Backed
  <2>2. CASE "IMPLEMENTATION" \notin Done /\ "IMPLEMENTATION" \in Done'
    BY <2>2, <1>b, OneStage DEF Backed, StagesDone, Adds, At
  <2> QED BY <2>1, <2>2
<1> QED BY <1>1, <1>2, <1>3, <1>4 DEF Backed

-----------------------------------------------------------------------------
\* What was approved and verified

\* An approved run, a command that goes to its job, and a job have an approved
\* strategy.
Approved ==
    run.approval = "APPROVED" \/ driver.pc \in {"approved", "job"} \/ job # "NONE" =>
      row.approval_status = "APPROVED"

\* No step gets ahead of the approval.
LEMMA ApprovedStep == Rows /\ Approved /\ [Next]_vars => Approved'
<1> SUFFICES ASSUME Rows, Approved, [Next]_vars,
                    \/ run'.approval = "APPROVED"
                    \/ driver'.pc \in {"approved", "job"}
                    \/ job' # "NONE"
             PROVE  row'.approval_status = "APPROVED"
  BY DEF Approved
<1>a. row.approval_status = "APPROVED" => row'.approval_status = "APPROVED"
  BY FactsStay
<1>1. CASE run'.approval = "APPROVED"
  <2>1. run.approval = "APPROVED" \/ At("approved")
    BY <1>1, RunWritten DEF Written
  <2> QED BY <2>1, <1>a DEF Approved, At
<1>2. CASE driver'.pc = "job"
  BY <1>2, <1>a, Ways DEF Way, Approved
<1>3. CASE driver'.pc = "approved"
  <2>1. CASE driver' = driver
    BY <1>3, <2>1, <1>a DEF Approved
  <2>2. CASE driver' # driver
    <3>1. driver.pc = "approved_again" /\ driver'.pc # "idle"
      BY <1>3, <2>2, Ways DEF Way
    <3>2. Return => driver'.pc = "idle"
      BY DriverFacts
    <3>3. ApproveAgain
      BY <3>1, <3>2, <2>2
          DEF At, Next, Continue, vars, Rest, Start, Regenerate, Approve, Resume,
         Ambiguous, Generate, Pause, Register, Submit, Specified, ToApproval,
         ApproveStrategy, ApproveAgain, ApproveRun, Reject, RejectRun,
         InspectJob, FollowJob, LoadAdapter, Implemented, Boundary, Verify,
         Integrity, Outcome, RecordVerification, Baseline, BeginResearch,
         Research, EndResearch, Researched, BeginProp, Accounts, Accounted,
         EndProp, Portfolio, Assessed, Report, Complete, Fail, Execute,
         Cancel, Crash

    <3> QED BY <3>3 DEF ApproveAgain, Rows
  <2> QED BY <2>1, <2>2
<1>4. CASE job' # "NONE"
  <2>1. job # "NONE" \/ At("job")
    BY <1>4 DEF Next, Continue, vars, Rest, Start, Regenerate, Approve, Resume,
         Ambiguous, Generate, Pause, Register, Submit, Specified, ToApproval,
         ApproveStrategy, ApproveAgain, ApproveRun, Reject, RejectRun,
         InspectJob, FollowJob, LoadAdapter, Implemented, Boundary, Verify,
         Integrity, Outcome, RecordVerification, Baseline, BeginResearch,
         Research, EndResearch, Researched, BeginProp, Accounts, Accounted,
         EndProp, Portfolio, Assessed, Report, Complete, Fail, Execute,
         Cancel, Crash
  <2> QED BY <2>1, <1>a DEF Approved, At
<1> QED BY <1>1, <1>2, <1>3, <1>4

\* The phases of a research.
LEMMA ResearchPhases ==
    DOMAIN ResearchMoves =
      {"BASELINE_BACKTEST", "EDGE_GATE", "PARAMETER_RESEARCH",
       "CANDIDATE_FREEZE", "WALK_FORWARD", "HOLDOUT", "STRESS_TESTS",
       "THROUGHPUT", "FINAL_REVIEW"}
BY DEF ResearchMoves

\* A strategy in its research was verified with its implementation on record,
\* and so was the one that a VERIFIED outcome moves there.
InResearch ==
    /\ At("outcome") => driver.at \in Outcomes /\ (driver.at = "VERIFIED" => verified)
    /\ phase \in DOMAIN ResearchMoves \cup {"ACCEPTED"} =>
         verified /\ "IMPLEMENTATION" \in Done

\* Only a VERIFIED outcome moves a strategy into its research.
LEMMA ResearchedStep ==
    Rows /\ Reached /\ InResearch /\ [Next]_vars => InResearch'
<1> SUFFICES ASSUME Rows, Reached, InResearch, [Next]_vars PROVE InResearch'
  OBVIOUS
<1>a. (verified => verified') /\ ("IMPLEMENTATION" \in Done => "IMPLEMENTATION" \in Done')
  BY FactsStay, DoneGrows, PhasesNamed
<1>1. driver'.pc = "outcome" =>
        driver'.at \in Outcomes /\ (driver'.at = "VERIFIED" => verified')
  <2> SUFFICES ASSUME driver'.pc = "outcome"
               PROVE  driver'.at \in Outcomes /\ (driver'.at = "VERIFIED" => verified')
    OBVIOUS
  <2>1. CASE driver' = driver
    <3>1. At("outcome")
      BY <2>1 DEF At
    <3>2. driver'.at = driver.at
      BY <2>1
    <3>3. driver.at \in Outcomes /\ (driver.at = "VERIFIED" => verified)
      BY <3>1 DEF InResearch
    <3> QED BY <3>2, <3>3, <1>a
  <2>2. CASE driver' # driver
    <3>1. driver.pc = "integrity" /\ driver'.pc # "idle"
      BY <2>2, Ways DEF Way
    <3>2. Return => driver'.pc = "idle"
      BY DriverFacts
    <3>3. Integrity
      BY <3>1, <3>2, <2>2
          DEF At, Next, Continue, vars, Rest, Start, Regenerate, Approve, Resume,
         Ambiguous, Generate, Pause, Register, Submit, Specified, ToApproval,
         ApproveStrategy, ApproveAgain, ApproveRun, Reject, RejectRun,
         InspectJob, FollowJob, LoadAdapter, Implemented, Boundary, Verify,
         Integrity, Outcome, RecordVerification, Baseline, BeginResearch,
         Research, EndResearch, Researched, BeginProp, Accounts, Accounted,
         EndProp, Portfolio, Assessed, Report, Complete, Fail, Execute,
         Cancel, Crash

    <3>4. \A pc : Goto(pc) => driver'.pc = pc
      BY DriverFacts
    <3>5. \A kind : Raise(kind) => driver'.pc = kind
      BY DriverFacts
    <3>6. PICK outcome \in Outcomes :
            /\ Controller!RecordOutcome(outcome)
            /\ driver' = [pc |-> "outcome", at |-> outcome]
      BY <3>3, <3>4, <3>5 DEF Integrity, Outcomes
    <3>7. driver'.at = outcome
      BY <3>6
    <3>8. outcome = "VERIFIED" => verified'
      BY <3>6 DEF Controller!RecordOutcome
    <3> QED BY <3>7, <3>8
  <2> QED BY <2>1, <2>2
<1>2. phase' \in DOMAIN ResearchMoves \cup {"ACCEPTED"} =>
        \/ phase \in DOMAIN ResearchMoves \cup {"ACCEPTED"}
        \/ At("outcome") /\ driver.at = "VERIFIED"
  <2> SUFFICES ASSUME phase' \in DOMAIN ResearchMoves \cup {"ACCEPTED"}
               PROVE  \/ phase \in DOMAIN ResearchMoves \cup {"ACCEPTED"}
                      \/ At("outcome") /\ driver.at = "VERIFIED"
    OBVIOUS
  <2>m. \A to : Controller!Move(to) => phase' = to
    BY MoveFacts
  <2>k. \/ Controller!FreezeFamilies \/ Controller!OpenHoldout \/ row' = row
        \/ \E status : Controller!MarkApproval(status)
        \/ \E outcome : Controller!RecordOutcome(outcome)
        \/ Controller!DefineSplit(SplitHash)
        => phase' = phase
    BY FreezeFacts, ApprovalFacts
       DEF phase, Controller!RecordOutcome, Controller!DefineSplit
  <2>1. CASE Submit
    BY <2>1, <2>m, <2>k, ResearchPhases DEF Submit, controllerVars
  <2>2. CASE ApproveStrategy
    BY <2>2, <2>m, <2>k, ResearchPhases DEF ApproveStrategy, controllerVars
  <2>3. CASE ApproveAgain
    BY <2>3, <2>m, <2>k, ResearchPhases DEF ApproveAgain, phase, Rows
  <2>4. CASE Reject
    BY <2>4, <2>m, <2>k, ResearchPhases DEF Reject, controllerVars
  <2>5. CASE Verify
    BY <2>5, <2>m, <2>k, ResearchPhases DEF Verify, controllerVars
  <2>6. CASE Integrity
    BY <2>6, <2>m, <2>k, ResearchPhases DEF Integrity, controllerVars
  <2>7. CASE Outcome
    BY <2>7, <2>m, <2>k, ResearchPhases DEF Outcome, Outcomes, InResearch, At,
         controllerVars
  <2>8. CASE BeginResearch
    BY <2>8, <2>m, <2>k, ResearchPhases DEF BeginResearch, controllerVars
  <2>9. CASE Research
    BY <2>9, <2>m, <2>k, ResearchPhases DEF Research, controllerVars
  <2>10. CASE Start \/ Regenerate \/ Approve \/ Resume \/ Ambiguous \/
          Generate \/ Pause \/ Register \/ Specified \/ ToApproval \/
          ApproveRun \/ RejectRun \/ InspectJob \/ FollowJob \/ LoadAdapter \/
          Implemented \/ Boundary \/ RecordVerification \/ Baseline \/
          EndResearch \/ Researched \/ BeginProp \/ Accounts \/ Accounted \/
          EndProp \/ Portfolio \/ Assessed \/ Report \/ Complete \/ Fail \/
          Execute \/ Cancel \/ Crash \/ UNCHANGED vars
    BY <2>10
     DEF phase, controllerVars, vars, Rest, Start, Regenerate, Approve,
         Resume, Ambiguous, Generate, Pause, Register, Specified, ToApproval,
         ApproveRun, RejectRun, InspectJob, FollowJob, LoadAdapter,
         Implemented, Boundary, RecordVerification, Baseline, EndResearch,
         Researched, BeginProp, Accounts, Accounted, EndProp, Portfolio,
         Assessed, Report, Complete, Fail, Execute, Cancel, Crash
  <2> QED BY <2>1, <2>2, <2>3, <2>4, <2>5, <2>6, <2>7, <2>8, <2>9, <2>10 DEF
       Next, Continue
<1>3. phase' \in DOMAIN ResearchMoves \cup {"ACCEPTED"} =>
        verified' /\ "IMPLEMENTATION" \in Done'
  <2>1. CASE phase \in DOMAIN ResearchMoves \cup {"ACCEPTED"}
    BY <2>1, <1>a DEF InResearch
  <2>2. CASE At("outcome") /\ driver.at = "VERIFIED"
    BY <2>2, <1>a DEF InResearch, Reached, At
  <2> QED BY <1>2, <2>1, <2>2
<1>4. DOMAIN ResearchMoves' = DOMAIN ResearchMoves
  BY DEF ResearchMoves
<1> QED BY <1>1, <1>3, <1>4 DEF InResearch, At

-----------------------------------------------------------------------------
\* The theorems

\* The inductive invariant of a run.
MasterInv ==
    Rows /\ Reached /\ InOrder /\ Reported /\ Backed /\ Approved /\ InResearch

\* A run begins with nothing done.
LEMMA MasterInit == Init => MasterInv
<1> SUFFICES ASSUME Init PROVE MasterInv
  OBVIOUS
<1>a. Done = {}
  BY DEF Init, Done
<1>b. /\ row.approval_status = "DRAFT" /\ phase = "STRATEGY_DRAFT"
      /\ driver.pc = "idle" /\ job = "NONE"
      /\ run.step = "NONE" /\ run.outcome = "NONE" /\ run.approval = "NONE"
  BY DEF Init, Controller!Init, phase, Idle, NoRun
<1>1. Rows
  BY DEF Init, Controller!Init, Rows, Idle, NoRun
<1>2. Reached /\ InOrder /\ Reported /\ Backed /\ Approved
  BY <1>a, <1>b DEF Reached, InOrder, Reported, Backed, Standing, Approved, At
<1>3. InResearch
  BY <1>b, ResearchPhases DEF InResearch, At
<1> QED BY <1>1, <1>2, <1>3 DEF MasterInv

\* Every behaviour of the run keeps its invariant.
THEOREM MasterInvariant == Spec => []MasterInv
<1>1. MasterInv /\ [Next]_vars => MasterInv'
  BY RowsStep, ReachedStep, InOrderStep, ReportedStep, BackedStep, ApprovedStep,
     ResearchedStep DEF MasterInv
<1> QED BY <1>1, MasterInit, PTL DEF Spec

\* Over any crashes, failures and cancellations nothing is done for a
\* specification that nobody approved, and no research begins without an
\* ingested implementation and a VERIFIED result.
THEOREM MasterWorkIsApproved == Spec => []WorkIsApproved
<1>1. MasterInv => WorkIsApproved
  BY DEF MasterInv, Approved, Backed, InResearch, WorkIsApproved
<1> QED BY <1>1, MasterInvariant, PTL

\* Where the run says it stands, what leads there is on record, also where a
\* failed resume wrote back the step it had read.
THEOREM MasterStepIsBacked == Spec => []StepIsBacked
<1>1. MasterInv => StepIsBacked
  BY DEF MasterInv, Backed, Standing, Reported, StepIsBacked
<1> QED BY <1>1, MasterInvariant, PTL

\* The stages, by their places.
LEMMA StagesInOrder ==
    /\ DOMAIN StageOrder = 1..7
    /\ StageOrder[1] = "IMPLEMENTATION"
    /\ StageOrder[2] = "IMPLEMENTATION_VERIFICATION"
    /\ StageOrder[3] = "TECHNICAL_VERIFICATION"
    /\ StageOrder[4] = "RESEARCH" /\ StageOrder[5] = "PROP"
    /\ StageOrder[6] = "PORTFOLIO" /\ StageOrder[7] = "ARCHIVE"
BY DEF StageOrder

\* A stage that is added is the next one of the abstract run.
LEMMA StageDone ==
    ASSUME NEW i \in 1..7, Adds(StageOrder[i]), InOrder,
           i > 1 => StageOrder[i - 1] \in Done,
           ~(run'.step = "COMPLETED" /\ run'.outcome = "SUCCESS")
    PROVE  Staged!Do(i)
<1>1. StageOrder[i] # "SPECIFICATION"
  BY StagesInOrder
<1>2. \A j \in 1..(i - 1) : StageOrder[j] \in Done \ {"SPECIFICATION"}
  BY StagesInOrder DEF InOrder
<1>3. /\ StageOrder[i] \notin Done \ {"SPECIFICATION"}
      /\ (Done \ {"SPECIFICATION"})' = (Done \ {"SPECIFICATION"}) \cup {StageOrder[i]}
  BY <1>1 DEF Adds
<1> QED BY <1>2, <1>3 DEF Staged!Do

\* A step of the run is a step of the abstract one, or none.
LEMMA MasterStages ==
    MasterInv /\ MasterInv' /\ [Next]_vars => [Staged!Next]_(Staged!vars)
<1> SUFFICES ASSUME MasterInv, MasterInv', [Next]_vars PROVE Staged!Next
  OBVIOUS
<1>1. CASE StagesDone' = StagesDone
  <2>1. CASE run'.step = "COMPLETED" /\ run'.outcome = "SUCCESS"
    <3>1. \A i \in 1..7 : StageOrder[i] \in Done' \ {"SPECIFICATION"}
      BY <2>1, StagesInOrder DEF MasterInv, Reported, InOrder
    <3> QED BY <1>1, <2>1, <3>1, StagesInOrder DEF Staged!Next, Staged!Finish,
         StagesDone
  <2>2. CASE ~(run'.step = "COMPLETED" /\ run'.outcome = "SUCCESS")
    BY <1>1, <2>2 DEF Staged!Next, Staged!Withdraw, StagesDone
  <2> QED BY <2>1, <2>2
<1>2. CASE StagesDone' # StagesDone
  <2>1. run' = run /\ ~At("idle")
    BY <1>2, OneStage DEF MasterInv
  <2>2. run'.outcome # "SUCCESS"
    BY <2>1 DEF MasterInv, Reported
  <2>3. PICK i \in 1..7 :
          Adds(StageOrder[i]) /\ (i > 1 => StageOrder[i - 1] \in Done)
    BY <1>2, OneStage, StagesInOrder DEF MasterInv
  <2>4. Staged!Do(i)
    BY <2>2, <2>3, StageDone DEF MasterInv
  <2> QED BY <2>4, StagesInOrder DEF Staged!Next
<1> QED BY <1>1, <1>2

\* The run implements StagedRun: its stages are done in their order, none is
\* undone, and it claims success only with all of them, whatever crashes,
\* fails, is cancelled or resumed.
THEOREM MasterImplementsStagedRun == Spec => ImplementsStagedRun
<1>1. Init => Staged!Init
  BY DEF Init, NoRun, Done, Staged!Init
<1> QED BY <1>1, MasterStages, MasterInvariant, PTL
        DEF Spec, ImplementsStagedRun, Staged!Spec
=============================================================================
