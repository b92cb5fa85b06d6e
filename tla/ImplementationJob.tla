--------------------------- MODULE ImplementationJob ---------------------------
(***************************************************************************)
(* The external implementation jobs of one approved real-mode master run:  *)
(* implementation/jobs.py, implementation/executor.py, the part of         *)
(* phase_f1/service.py that resumes the run around them, and the rows they *)
(* keep in registry/repositories.py.                                       *)
(*                                                                         *)
(* A job lives twice, in its directory (request, status and completion     *)
(* files) and in SQLite (the run's current row and one row per attempt).   *)
(* Nothing makes the two change together, so every file write and every    *)
(* transaction is a step, and a process may die between any two.           *)
(* Time is left out: a job counts as old enough to be stale whenever a     *)
(* caller asks.                                                            *)
(***************************************************************************)
EXTENDS Naturals, Sequences, FiniteSets

CONSTANTS
    Executors,  \* processes that run `codex-executor run`
    Operators,  \* processes that run the other commands and `resume`
    NoProc,     \* no owner
    NoResult,   \* no completion
    MaxJobs,    \* bound: job directories
    MaxIngests  \* bound: INGESTED events in the journal

Procs == Executors \cup Operators

Jobs == 1..MaxJobs

ASSUME JobAssumption ==
    /\ NoProc \notin Procs
    /\ MaxJobs \in Nat \ {0}
    /\ MaxIngests \in Nat

VARIABLES
    dir,        \* the job directories
    current,    \* the implementation_jobs row of the run; job 0: no row
    attempts,   \* status of each implementation_job_attempts row, or "NONE"
    master,     \* the master_runs row
    phases,     \* master phases with a SUCCESS result
    journal,    \* the master journal's reconciliation and ingestion events
    signalled,  \* jobs whose completion was signalled to Smithers
    executions, \* history: how often Codex was started for a job
    pc, call    \* where each process is, and what it remembers

registry == <<current, attempts, master, phases, journal>>
outside == <<signalled, executions>>
vars == <<dir, registry, outside, pc, call>>

-----------------------------------------------------------------------------
\* One failure stands for the seven FAILED_ statuses: nothing tells them apart.
ActiveStatuses == {"WAITING_EXTERNAL_CODEX", "RUNNING"}

CompletionOutcomes == {"COMPLETED", "FAILED", "TIMED_OUT"}

TerminalStatuses ==
    CompletionOutcomes \cup {"INGESTED", "INTERRUPTED", "ABORTED_BY_USER"}

RetryableStatuses == {"INTERRUPTED", "TIMED_OUT"}

\* A completion is told apart by its outcome and the executor that wrote it.
Completion == [outcome : CompletionOutcomes, maker : Executors]

Successful(result) == result # NoResult /\ result.outcome = "COMPLETED"

JobDir ==
    [made : BOOLEAN, request : BOOLEAN,
     status : ActiveStatuses \cup TerminalStatuses \cup {"NONE"},
     owner : Procs \cup {NoProc}, artifacts : BOOLEAN,
     completion : Completion \cup {NoResult}]

NoDir ==
    [made |-> FALSE, request |-> FALSE, status |-> "NONE", owner |-> NoProc,
     artifacts |-> FALSE, completion |-> NoResult]

JobRow ==
    [job : 0..MaxJobs, status : ActiveStatuses \cup TerminalStatuses \cup {"NONE"},
     result : Completion \cup {NoResult}]

\* RESEARCH stands for the steps from BASELINE to FINAL_REPORT.
MasterStep ==
    {"IMPLEMENTATION", "IMPLEMENTATION_VERIFICATION", "RESEARCH", "COMPLETED"}

\* FAILURE stands for FAILED and the failures of a phase, IMPLEMENTATION_FAILURE
\* apart: a run with one of them can be resumed.
MasterOutcome ==
    {"WAITING_FOR_APPROVAL", "WAITING_EXTERNAL_CODEX",
     "IMPLEMENTATION_VERIFICATION_REQUIRED", "IMPLEMENTATION_FAILURE",
     "FAILURE", "SUCCESS"}

MasterRow == [step : MasterStep, outcome : MasterOutcome, job : 0..MaxJobs]

Event ==
    [event : {"RECONCILED", "INGESTED"}, job : Jobs,
     status : TerminalStatuses, result : Completion \cup {NoResult}]

\* What a process carries along: the job in hand, the job it marked running,
\* the status and result it is about to record, the step it resumed from.
NoCall ==
    [op |-> "none", job |-> 0, marked |-> 0, status |-> "NONE",
     result |-> NoResult, from |-> "IMPLEMENTATION"]

Calls ==
    [op : {"none", "create", "retry", "run", "reconcile", "ingest", "resume",
           "settle"},
     job : 0..MaxJobs, marked : 0..MaxJobs,
     status : ActiveStatuses \cup TerminalStatuses \cup {"NONE"},
     result : Completion \cup {NoResult}, from : MasterStep]

Executing ==
    {"mark_row", "execute", "codex", "finish_file", "signal", "finish_row",
     "abort", "abort_row"}

Steps ==
    Executing \cup
    {"idle", "find", "number", "make", "request", "save_job", "link",
     "restart", "interrupt", "load", "interrupt_file", "interrupt_row", "mark",
     "reconcile", "reconcile_row", "reconcile_master", "reconcile_event",
     "journal", "ingest_row", "ingest_master", "ingest_event", "inspect",
     "wait", "adapter", "enter_verification", "technical", "refuse", "fail"}

Init ==
    /\ dir = [j \in Jobs |-> NoDir]
    /\ current = [job |-> 0, status |-> "NONE", result |-> NoResult]
    /\ attempts = [j \in Jobs |-> "NONE"]
    /\ master = [step |-> "IMPLEMENTATION", outcome |-> "WAITING_FOR_APPROVAL",
                 job |-> 0]
    /\ phases = {}
    /\ journal = <<>>
    /\ signalled = {}
    /\ executions = [j \in Jobs |-> 0]
    /\ pc = [p \in Procs |-> "idle"]
    /\ call = [p \in Procs |-> NoCall]

-----------------------------------------------------------------------------
Goto(p, step) == pc' = [pc EXCEPT ![p] = step] /\ UNCHANGED call

GotoWith(p, step, c) ==
    /\ pc' = [pc EXCEPT ![p] = step]
    /\ call' = [call EXCEPT ![p] = c]

Return(p) == GotoWith(p, "idle", NoCall)

\* `resume`, and a `resume` that found a closed job without a result.
Resuming(p) == call[p].op \in {"resume", "settle"}

\* An error ends a command; `resume` catches it and records a failure, a
\* SpecificationValidationError apart from the others.
Raise(p) == IF Resuming(p) THEN Goto(p, "fail") ELSE Return(p)

Refuse(p) == IF Resuming(p) THEN Goto(p, "refuse") ELSE Return(p)

Start(p, op, step) ==
    /\ pc[p] = "idle"
    /\ GotoWith(p, step, [NoCall EXCEPT !.op = op])
    /\ UNCHANGED <<dir, registry, outside>>

\* Mutant: the attempt's row is inserted, or left as it was.
SaveJobIgnoring(job, status, result) ==
    /\ current' = [job |-> job, status |-> status, result |-> result]
    /\ attempts' = IF attempts[job] = "NONE"
                     THEN [attempts EXCEPT ![job] = status] ELSE attempts

\* Registry.save_implementation_job: the current row and the attempt's row in
\* one transaction.
SaveJob(job, status, result) ==
    /\ current' = [job |-> job, status |-> status, result |-> result]
    /\ attempts' = [attempts EXCEPT ![job] = status]

-----------------------------------------------------------------------------
\* ImplementationJobService.create

Create(p) == Start(p, "create", "find")

Requested == {j \in Jobs : dir[j].request}

Newest(jobs) == CHOOSE j \in jobs : \A k \in jobs : k <= j

\* What a caller goes on to do with the job create() gave it.
AfterCreate(op) ==
    CASE op = "retry" -> "restart"
      [] op = "resume" -> "wait"
      [] op = "create" -> "idle"

\* Without `retry`, the newest request on disk is the answer.
Find(p) ==
    /\ pc[p] = "find"
    /\ IF call[p].op = "retry"
         THEN IF current.status \in RetryableStatuses
                THEN Goto(p, "number") ELSE Raise(p)
         ELSE IF Requested = {}
                THEN Goto(p, "number")
                ELSE IF call[p].op = "resume"
                       THEN GotoWith(p, "wait",
                              [call[p] EXCEPT !.job = Newest(Requested)])
                       ELSE Return(p)
    /\ UNCHANGED <<dir, registry, outside>>

\* The preflight refuses an unsafe repository; _job_dir takes the next number,
\* for which the worktree is planned before the directory is made.
Number(p) ==
    /\ pc[p] = "number"
    /\ \/ Refuse(p)
       \/ \E j \in Jobs :
            /\ ~dir[j].made
            /\ \A k \in 1..(j - 1) : dir[k].made
            /\ GotoWith(p, "make", [call[p] EXCEPT !.job = j])
    /\ UNCHANGED <<dir, registry, outside>>

\* mkdir(exist_ok=False).
MakeDir(p) ==
    /\ pc[p] = "make"
    /\ IF dir[call[p].job].made
         THEN Raise(p) /\ UNCHANGED dir
         ELSE /\ dir' = [dir EXCEPT ![call[p].job].made = TRUE]
              /\ Goto(p, "request")
    /\ UNCHANGED <<registry, outside>>

\* The job's inputs, request.json and status.json; nobody knows the job yet.
WriteRequest(p) ==
    /\ pc[p] = "request"
    /\ dir' = [dir EXCEPT ![call[p].job].request = TRUE,
                          ![call[p].job].status = "WAITING_EXTERNAL_CODEX"]
    /\ Goto(p, "save_job")
    /\ UNCHANGED <<registry, outside>>

SaveCreated(p) ==
    /\ pc[p] = "save_job"
    /\ SaveJob(call[p].job, "WAITING_EXTERNAL_CODEX", NoResult)
    /\ Goto(p, "link")
    /\ UNCHANGED <<dir, master, phases, journal, outside>>

\* The run's resume state names the new job.
LinkJob(p) ==
    /\ pc[p] = "link"
    /\ master' = [master EXCEPT !.job = call[p].job]
    /\ IF AfterCreate(call[p].op) = "idle"
         THEN Return(p) ELSE Goto(p, AfterCreate(call[p].op))
    /\ UNCHANGED <<dir, current, attempts, phases, journal, outside>>

-----------------------------------------------------------------------------
\* stale_interruption, mark_interrupted and retry

\* The process that wrote owner_pid still runs; `owner` names a process of
\* this model, which runs many commands, and the job tells them apart.
OwnerLive(j) ==
    \E p \in Procs :
      /\ dir[j].owner = p
      /\ pc[p] \in Executing
      /\ j \in {call[p].job, call[p].marked}

\* Mutants: the owner of the partial artifacts may still be at work; a job
\* that nobody has started is stale.
StaleOwned ==
    LET d == dir[current.job] IN
      /\ current.status \in ActiveStatuses \/ d.status \in ActiveStatuses
      /\ d.completion = NoResult
      /\ d.artifacts

StaleUnstarted ==
    LET d == dir[current.job] IN
      /\ current.status \in ActiveStatuses \/ d.status \in ActiveStatuses
      /\ d.completion = NoResult
      /\ ~OwnerLive(current.job)

\* Structural evidence that the current job's executor died half way.
Stale ==
    LET d == dir[current.job] IN
      /\ current.status \in ActiveStatuses \/ d.status \in ActiveStatuses
      /\ d.completion = NoResult
      /\ d.artifacts
      /\ ~OwnerLive(current.job)

\* A timed-out job is replaced as it is, an active one once it is stale.
Retry(p) ==
    /\ pc[p] = "idle"
    /\ \/ /\ current.status = "TIMED_OUT"
          /\ GotoWith(p, "find", [NoCall EXCEPT !.op = "retry"])
       \/ /\ current.status \in ActiveStatuses
          /\ GotoWith(p, "interrupt", [NoCall EXCEPT !.op = "retry"])
    /\ UNCHANGED <<dir, registry, outside>>

\* mark_interrupted collects the evidence first.
Interrupt(p) ==
    /\ pc[p] = "interrupt"
    /\ IF Stale THEN Goto(p, "load") ELSE Raise(p)
    /\ UNCHANGED <<dir, registry, outside>>

\* load_request: whichever job is the run's current one by now.
LoadStale(p) ==
    /\ pc[p] = "load"
    /\ GotoWith(p, "interrupt_file", [call[p] EXCEPT !.job = current.job])
    /\ UNCHANGED <<dir, registry, outside>>

\* interruption.json and the status file.
CloseDir(job, status) ==
    dir' = [dir EXCEPT ![job].artifacts = TRUE, ![job].status = status,
                       ![job].owner = NoProc]

InterruptFile(p) ==
    /\ pc[p] = "interrupt_file"
    /\ CloseDir(call[p].job, "INTERRUPTED")
    /\ Goto(p, "interrupt_row")
    /\ UNCHANGED <<registry, outside>>

\* `codex-executor run` interrupts the stale job it found, and raises.
InterruptRow(p) ==
    /\ pc[p] = "interrupt_row"
    /\ SaveJob(call[p].job, "INTERRUPTED", NoResult)
    /\ IF call[p].op = "retry" THEN Goto(p, "find") ELSE Return(p)
    /\ UNCHANGED <<dir, master, phases, journal, outside>>

RestartMaster(p) ==
    /\ pc[p] = "restart"
    /\ master' = [step |-> "IMPLEMENTATION",
                  outcome |-> "WAITING_EXTERNAL_CODEX", job |-> call[p].job]
    /\ Return(p)
    /\ UNCHANGED <<dir, current, attempts, phases, journal, outside>>

-----------------------------------------------------------------------------
\* ExternalCodexExecutor.run

\* Mutant: a job that was started may be executed again.
MayRunActive == current.status \in ActiveStatuses

MayRun == current.status = "WAITING_EXTERNAL_CODEX"

\* A successful completion is returned as it is; partial artifacts without a
\* completion are never resumed.
Run(p) ==
    /\ pc[p] = "idle"
    /\ current.job # 0
    /\ ~Successful(dir[current.job].completion)
    /\ MayRun
    /\ LET d == dir[current.job] IN
         GotoWith(p,
           IF d.artifacts /\ d.completion = NoResult THEN "interrupt" ELSE "mark",
           [NoCall EXCEPT !.op = "run", !.job = current.job])
    /\ UNCHANGED <<dir, registry, outside>>

\* mark_running loads the run's current job once more.
Mark(p) ==
    /\ pc[p] = "mark"
    /\ IF MayRun
         THEN /\ dir' = [dir EXCEPT ![current.job].status = "RUNNING",
                                    ![current.job].owner = p]
              /\ GotoWith(p, "mark_row",
                   [call[p] EXCEPT !.marked = current.job])
         ELSE Raise(p) /\ UNCHANGED dir
    /\ UNCHANGED <<registry, outside>>

MarkRow(p) ==
    /\ pc[p] = "mark_row"
    /\ SaveJob(call[p].marked, "RUNNING", NoResult)
    /\ Goto(p, "execute")
    /\ UNCHANGED <<dir, master, phases, journal, outside>>

Finish(p, outcome) ==
    GotoWith(p, "finish_file",
      [call[p] EXCEPT !.status = outcome,
                      !.result = [outcome |-> outcome, maker |-> p]])

\* Inputs, worktree and preflight may fail the job before Codex starts.
Execute(p) ==
    /\ pc[p] = "execute"
    /\ \/ Finish(p, "FAILED") /\ UNCHANGED <<dir, executions>>
       \/ /\ dir' = [dir EXCEPT ![call[p].job].artifacts = TRUE]
          /\ executions' = [executions EXCEPT ![call[p].job] = @ + 1]
          /\ Goto(p, "codex")
    /\ UNCHANGED <<registry, signalled>>

\* Codex ends, times out, or the operator interrupts it.
Codex(p) ==
    /\ pc[p] = "codex"
    /\ \/ \E outcome \in CompletionOutcomes : Finish(p, outcome)
       \/ Goto(p, "abort")
    /\ UNCHANGED <<dir, registry, outside>>

FinishFile(p) ==
    /\ pc[p] = "finish_file"
    /\ dir' = [dir EXCEPT ![call[p].job].completion = call[p].result,
                          ![call[p].job].status = call[p].status,
                          ![call[p].job].owner = NoProc]
    /\ Goto(p, "signal")
    /\ UNCHANGED <<registry, outside>>

\* The job was requested from a Smithers run, which waits for this signal.
Signal(p) ==
    /\ pc[p] = "signal"
    /\ signalled' = signalled \cup {call[p].job}
    /\ Goto(p, "finish_row")
    /\ UNCHANGED <<dir, registry, executions>>

FinishRow(p) ==
    /\ pc[p] = "finish_row"
    /\ SaveJob(call[p].job, call[p].status, call[p].result)
    /\ Return(p)
    /\ UNCHANGED <<dir, master, phases, journal, outside>>

\* abort_by_user marks the run's current job, if it is still active.
Abort(p) ==
    /\ pc[p] = "abort"
    /\ IF current.status \in ActiveStatuses
         THEN /\ CloseDir(current.job, "ABORTED_BY_USER")
              /\ GotoWith(p, "abort_row",
                   [call[p] EXCEPT !.marked = current.job])
         ELSE Raise(p) /\ UNCHANGED dir
    /\ UNCHANGED <<registry, outside>>

AbortRow(p) ==
    /\ pc[p] = "abort_row"
    /\ SaveJob(call[p].marked, "ABORTED_BY_USER", NoResult)
    /\ Return(p)
    /\ UNCHANGED <<dir, master, phases, journal, outside>>

-----------------------------------------------------------------------------
\* reconcile and ingest

\* _load_and_validate_completion of the current job.
Validated ==
    /\ current.job # 0
    /\ dir[current.job].completion # NoResult
    /\ current.result \in {NoResult, dir[current.job].completion}

\* Mutant: a job is reconciled only after its row was closed.
ReconcileClosed(p) ==
    /\ current.status \in TerminalStatuses
    /\ Start(p, "reconcile", "reconcile")

\* The command asks for any current job.
Reconcile(p) == current.job # 0 /\ Start(p, "reconcile", "reconcile")

\* A completion decides; without one, only a closed job is reconciled.
LoadTerminal(p) ==
    /\ pc[p] = "reconcile"
    /\ LET completion == dir[current.job].completion IN
         CASE Validated ->
                GotoWith(p, "reconcile_row",
                  [call[p] EXCEPT !.job = current.job,
                                  !.status = completion.outcome,
                                  !.result = completion])
           [] /\ current.status \in {"INTERRUPTED", "ABORTED_BY_USER"}
              /\ completion = NoResult ->
                GotoWith(p, "reconcile_row",
                  [call[p] EXCEPT !.job = current.job,
                                  !.status = current.status])
           [] OTHER -> Raise(p)
    /\ UNCHANGED <<dir, registry, outside>>

ReconcileRow(p) ==
    /\ pc[p] = "reconcile_row"
    /\ SaveJob(call[p].job,
               IF Successful(call[p].result) THEN "INGESTED" ELSE call[p].status,
               call[p].result)
    /\ Goto(p, "reconcile_master")
    /\ UNCHANGED <<dir, master, phases, journal, outside>>

ReconcileMaster(p) ==
    /\ pc[p] = "reconcile_master"
    /\ master' =
         IF Successful(call[p].result)
           THEN [step |-> "IMPLEMENTATION_VERIFICATION",
                 outcome |-> "IMPLEMENTATION_VERIFICATION_REQUIRED",
                 job |-> call[p].job]
           ELSE [step |-> "IMPLEMENTATION",
                 outcome |-> "IMPLEMENTATION_FAILURE", job |-> call[p].job]
    /\ Goto(p, "reconcile_event")
    /\ UNCHANGED <<dir, current, attempts, phases, journal, outside>>

Reconciled(c) ==
    [event |-> "RECONCILED", job |-> c.job, status |-> c.status,
     result |-> c.result]

Journalled(e) == \E i \in DOMAIN journal : journal[i] = e

\* `resume` goes on with a success, and with a closed job only as far as the
\* boundary it came to; after a failure it still tries to verify, and raises
\* because nothing was implemented.
AfterReconcile(p) ==
    CASE call[p].op = "resume" /\ Successful(call[p].result) -> Goto(p, "adapter")
      [] /\ call[p].op = "settle"
         /\ Successful(call[p].result)
         /\ call[p].from = "IMPLEMENTATION" -> Return(p)
      [] OTHER -> Raise(p)

\* Mutant: every reconciliation is journalled.
ReconcileEventAlways(p) ==
    /\ pc[p] = "reconcile_event"
    /\ Goto(p, "journal")
    /\ UNCHANGED <<dir, registry, outside>>

\* Once for a job and its result: the journal is searched first.
ReconcileEvent(p) ==
    /\ pc[p] = "reconcile_event"
    /\ IF Journalled(Reconciled(call[p]))
         THEN AfterReconcile(p) ELSE Goto(p, "journal")
    /\ UNCHANGED <<dir, registry, outside>>

JournalResult(p) ==
    /\ pc[p] = "journal"
    /\ journal' = Append(journal, Reconciled(call[p]))
    /\ AfterReconcile(p)
    /\ UNCHANGED <<dir, current, attempts, master, phases, outside>>

Ingestions(j) ==
    {i \in DOMAIN journal : journal[i].event = "INGESTED" /\ journal[i].job = j}

Ingest(p) ==
    /\ pc[p] = "idle"
    /\ Validated
    /\ Successful(dir[current.job].completion)
    /\ Cardinality(Ingestions(current.job)) < MaxIngests
    /\ GotoWith(p, "ingest_row",
         [NoCall EXCEPT !.op = "ingest", !.job = current.job,
                        !.result = dir[current.job].completion])
    /\ UNCHANGED <<dir, registry, outside>>

IngestRow(p) ==
    /\ pc[p] = "ingest_row"
    /\ SaveJob(call[p].job, "INGESTED", call[p].result)
    /\ Goto(p, "ingest_master")
    /\ UNCHANGED <<dir, master, phases, journal, outside>>

\* Only the resume state changes, not the run's step or outcome.
IngestMaster(p) ==
    /\ pc[p] = "ingest_master"
    /\ master' = [master EXCEPT !.job = call[p].job]
    /\ Goto(p, "ingest_event")
    /\ UNCHANGED <<dir, current, attempts, phases, journal, outside>>

IngestEvent(p) ==
    /\ pc[p] = "ingest_event"
    /\ journal' = Append(journal,
         [event |-> "INGESTED", job |-> call[p].job, status |-> "INGESTED",
          result |-> call[p].result])
    /\ Return(p)
    /\ UNCHANGED <<dir, current, attempts, master, phases, outside>>

-----------------------------------------------------------------------------
\* MasterRunService.resume, in real mode

\* The run's data manifest may have changed under it.  An implementation on
\* record is not looked at again, and a run that still says it is waiting for
\* one stays as it is.
Resume(p) ==
    /\ pc[p] = "idle"
    /\ master.step # "COMPLETED"
    /\ master.outcome # "IMPLEMENTATION_FAILURE"
    /\ \E step \in {"refuse", "inspect", "technical"} :
         /\ step = "inspect" => "IMPLEMENTATION" \notin phases
         /\ step = "technical" =>
              /\ "IMPLEMENTATION" \in phases
              /\ master.outcome # "WAITING_EXTERNAL_CODEX"
         /\ GotoWith(p, step,
              [NoCall EXCEPT !.op = "resume", !.from = master.step])
    /\ UNCHANGED <<dir, registry, outside>>

\* Mutant: any closed job is taken for an ingested one.
InspectClosed(p) ==
    /\ pc[p] = "inspect"
    /\ CASE current.job = 0 \/ current.status = "WAITING_EXTERNAL_CODEX" ->
              Goto(p, "find")
         [] current.status \in TerminalStatuses -> Goto(p, "adapter")
         [] OTHER -> GotoWith(p, "wait", [call[p] EXCEPT !.job = current.job])
    /\ UNCHANGED <<dir, registry, outside>>

\* _implementation looks at the run's current job.  A row without a result
\* is settled if it is closed, and waited for if it is not.
Inspect(p) ==
    /\ pc[p] = "inspect"
    /\ CASE current.job = 0 \/ current.status = "WAITING_EXTERNAL_CODEX" ->
              Goto(p, "find")
         [] current.status = "INGESTED" -> Goto(p, "adapter")
         [] current.status = "RUNNING" /\ current.result = NoResult ->
              GotoWith(p, "wait", [call[p] EXCEPT !.job = current.job])
         [] current.status \in TerminalStatuses \ {"INGESTED"}
            /\ current.result = NoResult ->
              GotoWith(p, "reconcile", [call[p] EXCEPT !.op = "settle"])
         [] OTHER -> Goto(p, "reconcile")
    /\ UNCHANGED <<dir, registry, outside>>

Wait(p) ==
    /\ pc[p] = "wait"
    /\ master' = [step |-> "IMPLEMENTATION",
                  outcome |-> "WAITING_EXTERNAL_CODEX", job |-> call[p].job]
    /\ Return(p)
    /\ UNCHANGED <<dir, current, attempts, phases, journal, outside>>

\* The adapter of the finished worktree is loaded, or is not there.
Adapter(p) ==
    /\ pc[p] = "adapter"
    /\ \/ /\ phases' = phases \cup {"IMPLEMENTATION"}
          /\ Goto(p, "enter_verification")
       \/ (Raise(p) \/ Refuse(p)) /\ UNCHANGED phases
    /\ UNCHANGED <<dir, current, attempts, master, journal, outside>>

\* A run that came from IMPLEMENTATION stops at this boundary.
EnterVerification(p) ==
    /\ pc[p] = "enter_verification"
    /\ master' = [step |-> "IMPLEMENTATION_VERIFICATION",
                  outcome |-> "IMPLEMENTATION_VERIFICATION_REQUIRED",
                  job |-> current.job]
    /\ IF call[p].from = "IMPLEMENTATION" THEN Return(p) ELSE Goto(p, "technical")
    /\ UNCHANGED <<dir, current, attempts, phases, journal, outside>>

\* Verification, research, accounts, portfolio and report, as one step that
\* comes to the end or raises on the way there.
FinishRun(p) ==
    /\ pc[p] = "technical"
    /\ \/ /\ master' = [master EXCEPT !.step = "COMPLETED",
                                        !.outcome = "SUCCESS"]
          /\ Return(p)
       \/ /\ \/ UNCHANGED master
             \/ master' = [master EXCEPT !.step = "RESEARCH",
                                         !.outcome = "WAITING_FOR_APPROVAL"]
          /\ Raise(p) \/ Refuse(p)
    /\ UNCHANGED <<dir, current, attempts, phases, journal, outside>>

\* An error other than a validation error in IMPLEMENTATION ends the run.
Fail(p) ==
    /\ pc[p] \in {"refuse", "fail"}
    /\ master' =
         [master EXCEPT !.outcome =
            IF pc[p] = "fail" /\ master.step = "IMPLEMENTATION"
              THEN "IMPLEMENTATION_FAILURE" ELSE "FAILURE"]
    /\ Return(p)
    /\ UNCHANGED <<dir, current, attempts, phases, journal, outside>>

-----------------------------------------------------------------------------
\* The process dies between two steps.
Crash(p) ==
    /\ pc[p] # "idle"
    /\ Return(p)
    /\ UNCHANGED <<dir, registry, outside>>

ExecutorStep(p) ==
    \/ Run(p) \/ Mark(p) \/ MarkRow(p) \/ Execute(p) \/ Codex(p)
    \/ FinishFile(p) \/ Signal(p) \/ FinishRow(p)
    \/ Abort(p) \/ AbortRow(p)

OperatorStep(p) ==
    \/ Create(p) \/ Retry(p) \/ Reconcile(p) \/ Ingest(p) \/ Resume(p)
    \/ Find(p) \/ Number(p) \/ MakeDir(p) \/ WriteRequest(p)
    \/ SaveCreated(p) \/ LinkJob(p) \/ RestartMaster(p)
    \/ LoadTerminal(p) \/ ReconcileRow(p) \/ ReconcileMaster(p)
    \/ ReconcileEvent(p) \/ JournalResult(p)
    \/ IngestRow(p) \/ IngestMaster(p) \/ IngestEvent(p)
    \/ Inspect(p) \/ Wait(p) \/ Adapter(p) \/ EnterVerification(p)
    \/ FinishRun(p) \/ Fail(p)

\* Both kinds of process interrupt a stale job.
InterruptStep(p) ==
    Interrupt(p) \/ LoadStale(p) \/ InterruptFile(p) \/ InterruptRow(p)

Next ==
    \/ \E p \in Executors : ExecutorStep(p)
    \/ \E p \in Operators : OperatorStep(p)
    \/ \E p \in Procs : InterruptStep(p) \/ Crash(p)

Spec == Init /\ [][Next]_vars

\* Operators go on calling reconcile, commands that started go on, and a
\* process does not die at the same point of a command for ever.
FairSpec ==
    /\ Spec
    /\ \A p \in Executors : WF_vars(ExecutorStep(p)) /\ SF_vars(Codex(p))
    /\ \A p \in Operators :
         /\ WF_vars(OperatorStep(p))
         /\ SF_vars(Reconcile(p)) /\ SF_vars(LoadTerminal(p))
         /\ SF_vars(ReconcileRow(p)) /\ SF_vars(ReconcileMaster(p))
    /\ \A p \in Procs : WF_vars(InterruptStep(p))

-----------------------------------------------------------------------------
(* Files, rows and what processes remember keep their shape.               *)
TypeOK ==
    /\ dir \in [Jobs -> JobDir]
    /\ current \in JobRow
    /\ attempts \in [Jobs -> ActiveStatuses \cup TerminalStatuses \cup {"NONE"}]
    /\ master \in MasterRow
    /\ phases \subseteq {"IMPLEMENTATION"}
    /\ journal \in Seq(Event)
    /\ signalled \subseteq Jobs
    /\ executions \in [Jobs -> Nat]
    /\ pc \in [Procs -> Steps]
    /\ call \in [Procs -> Calls]

\* Attempts that have a row.
Attempted == {j \in Jobs : attempts[j] # "NONE"}

(* The run's current row is its newest attempt's, with the same status,    *)
(* and only jobs whose directory was completed have a row.                 *)
NewestIsCurrent ==
    /\ current.job = IF Attempted = {} THEN 0 ELSE Newest(Attempted)
    /\ current.job # 0 => current.status = attempts[current.job]
    /\ Attempted \subseteq Requested

(* Codex is started at most once for a job: a retry is a new job with a    *)
(* worktree of its own, whatever died half way.                            *)
OneExecutionPerJob == \A j \in Jobs : executions[j] <= 1

\* An executor is preparing the job's worktree or has Codex running in it.
AtWork(j) ==
    \E p \in Executors : pc[p] \in {"execute", "codex"} /\ call[p].job = j

(* A job is interrupted, and so given up for a new one, only when nobody   *)
(* is at work on it any more.  (Two operators can break it: one may load   *)
(* the job that the other put in place of the stale one.)                  *)
InterruptsTheDead ==
    [][\A j \in Jobs :
         attempts[j] # "INTERRUPTED" /\ attempts'[j] = "INTERRUPTED" =>
           ~AtWork(j)]_vars

(* The master run is past IMPLEMENTATION, or has recorded its              *)
(* implementation, only while its current job completed with success.      *)
VerificationHasSuccess ==
    master.step # "IMPLEMENTATION" \/ phases # {} =>
      current.job # 0 /\ Successful(dir[current.job].completion)

(* A job's result is journalled as reconciled once, however often it is    *)
(* reconciled and wherever a reconciliation dies.  (Two operators may both *)
(* find it missing, and both add it.)                                      *)
ReconciledOnce ==
    \A i, k \in DOMAIN journal :
      journal[i] = journal[k] /\ journal[i].event = "RECONCILED" => i = k

(* A new job replaces one that timed out or was interrupted, and nothing   *)
(* else; at most one attempt is open.                                      *)
Lifecycle == INSTANCE JobLifecycle

ImplementsLifecycle == Lifecycle!Spec

(* A successful completion of the current job reaches the master run, even *)
(* when its executor died before it recorded the job.                      *)
CompletionReachesMaster ==
    (current.job # 0 /\ Successful(dir[current.job].completion))
      ~> master.step # "IMPLEMENTATION"

-----------------------------------------------------------------------------
\* What a document or a message says and the code does not keep

(* An interrupted job that no command is working on can be retried.        *)
InterruptedIsRetryable ==
    (current.status = "INTERRUPTED" /\ \A p \in Procs : pc[p] = "idle")
      => \E p \in Operators : ENABLED Retry(p)

(* Reconciling once more leaves a completed run completed.                 *)
CompletedStays ==
    [][master.step = "COMPLETED" => master'.step = "COMPLETED"]_vars

(* A run that looks at its job after the job was signalled does not go on  *)
(* waiting for it.                                                         *)
SignalledIsNotAwaited ==
    [][\A p \in Procs : pc[p] = "inspect" /\ pc'[p] = "wait" =>
         current.job \notin signalled]_vars
=============================================================================
