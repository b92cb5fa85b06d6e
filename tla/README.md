# Verification of the research pipeline

The repository is a research framework for CME futures strategies. A strategy
is specified, approved, implemented by an external Codex run, verified,
researched under a budget, tested once on an untouched holdout, simulated on
prop-firm accounts and merged into portfolios. `src/research_pipeline` holds
the machinery that decides which of these steps may happen; the rest of the
tree are strategies, studies, data tools and an older backtester. This
directory holds TLA+ models of that machinery, the TLC runs that check them on
small instances, and TLAPS proofs about the core.

Paths below are relative to `src/`, and to `src/research_pipeline/` where they
name a package directly (`controller/...`, `registry/...`).

## Inventory

The program runs as many short-lived processes: CLI commands (`cli.py`), calls
from Smithers workflow nodes (`workflow_bridge/bridge.py`), one long
`codex-executor run` per implementation job. They share one SQLite registry and
a directory per run. Nothing locks a strategy or a job across a command.

| part | state | operations | what is hard |
| --- | --- | --- | --- |
| Budget (`controller/budget_enforcer.py`) | none; a usage record goes in and out | `check` | four kinds of limits, tested before anything is charged; values booked twice, per family and per round |
| State machine (`enums.py`, `controller/state_machine.py`) | none | `validate_transition` | a large table; breakdown, verdict and terminal states |
| Pipeline controller (`controller/pipeline_controller.py`, `holdout_lock.py`) | strategies, budgets, splits, transitions, holdout accesses in the registry | submit, approve, transition, consume, split, holdout | each operation reads in one statement and writes in a later transaction; a crash may part two transactions |
| Registry (`registry/`) | the SQLite file | one method per operation | `sqlite3`'s default mode opens the write transaction at the first write, after the SELECT that tested it |
| Verification (`verification/`) | verification runs, evidence | `run` | idempotent by run id; records an outcome, then moves the strategy |
| Implementation jobs (`implementation/jobs.py`) | job directories (request, status, completion), one current row and one row per attempt | create, retry, run, abort, reconcile, ingest | files and rows change apart; owners die; retries race late answers |
| External executor (`implementation/executor.py`) | worktree, logs | run | long-lived, may be interrupted anywhere; signals Smithers |
| Master run (`phase_f1/`) | master runs, phase results, journal | start, retry_specification, approve, resume, cancel | a run is resumed after any crash and must neither repeat nor skip a phase |
| Phase B (`phase_b/services.py`) | drafts, attempts, the canonical specification, a final failure | generate, repair, accept | attempts are judged in the process or through jobs, and the loop is resumed after any write |
| Specification jobs (`specification_executor/`) | job directories and one row per attempt | create, run, verify, signal | the directory comes before the row; executors of one job may overlap; a completion is read, verified and read again |
| Phase C (`research/`) | rounds, baseline, candidate, results | baseline, edge gate, rounds, freeze, walk-forward, holdout, stress, throughput, review | budget consumed and holdout opened before the work they pay for |
| Gates (`controller/gate_evaluator.py`) | none | evaluate | missing evidence against failed evidence |
| Prop account (`prop/replay.py`, `prop/sizing.py`, `prop/services.py`) | the simulated account; prop_runs and its phase | simulate a scenario; one method per phase of Phase D | daily locks, payout cycles and the change from evaluation to qualified account meet in one loop |
| Portfolio (`portfolio/`) | specifications, runs, budgets and results of each version | create, candidates, signals, analyses, risk, prop, ablation, stress, review | rows of all versions under the same keys, written one by one, paid for before |
| Compliance (`compliance/`) | results per run | evaluate | pure but long computations |
| Adapters, runners, worktrees | files, subprocesses | run | input and output |
| Replay downloader (`databento_replay_repair_downloader.py`) | manifest, progress file, `.part` and final files | plan, quote, download, resume | paid transfers, five writes per request, a run may die between any two |
| Order-flow study | files | tape, model, execution | numeric, one-off |
| Strategy studies, legacy backtester, scripts, Smithers definitions | - | - | numeric, deterministic or generated |

`PROJECT.json` lists each part with what is modelled of it, and each hazard at
its line with the properties that watch it.

What makes the parts correct:

- *Budget*: no request or mix of requests takes a counter over its limit, the
  two books agree, a research round belongs to one family.
- *Controller*: only table moves; approval, verification, split and freeze
  guards hold when the move is made; the holdout is opened as often as the
  budget allows; terminal states stay.
- *Jobs*: one execution per attempt, one open attempt, a live executor is never
  replaced, a completion reaches the master run once and only a successful one
  opens verification.
- *Specification*: candidates are judged one after the other and bounded, the
  canonical one was judged valid, a repair is about the draft that failed, and a
  completion's files are those of one invocation.
- *Master run*: the records of the stages come in their order and are never
  undone, success is claimed only with all of them, no work is done for a
  specification nobody approved, the run comes to an end or a reported failure.
- *Phase C*: every phase has its evidence, every end its verdict, results are
  about the frozen candidate, an experiment is paid for before it runs, and the
  holdout is run once and ends all selection.
- *Prop account*: payouts come out of profit, a day's loss is bounded, the
  buffer-aware sizing keeps the account alive.
- *Portfolio*: a phase has its evidence, of its own version; work is paid for
  within the budget; none is accepted without its analyses; a portfolio comes to
  its review.
- *Replay downloader*: valid data is kept and not bought again unless a retry
  deleted it, a run requests what it quoted and within its limit, a finished
  run has everything the plan promised, and the plan fills exactly the gaps.

## Modules

`Budget` ← `BudgetLedger` ← `MCBudgetLedger`. `Budget` is
`BudgetEnforcer.check` as operators: `Admits(usage, request)` says that it does
not raise, `Charge(usage, request)` is the record it returns. A dictionary key
that is missing is `NoFamily` or 0, which is what the code's `.get` makes of
it. `BudgetLedger` has the lemmas about the two, which the proofs of the
controller and of Phase C use as well, and one writer that stores each charge
(`ledger`, with `LedgerSpec`).

`StateMachine` is the phase enumeration and the table of legal moves, written
as a union of arrows as in the code.

`Budget`, `StateMachine` ← `PipelineController` ← `MCPipelineController`. One
registered strategy version and any number of processes. A variable stands for
a table: `row` (strategies), `split` (splits), `usage` (budgets.usage_json),
`accesses` (number of holdout_accesses rows), `verified` and `lastOutcome`
(verification_runs), `journal` (the last transitions row). `pc[p]` and
`call[p]` are a process in the middle of an operation and what it remembers.
The steps follow the connection's transactions: a SELECT is a step, the writes
of one transaction are a step, and what a method read is carried in `call[p]`
and may be stale when it is used. `transition`, for instance, is `Transition`
(get_strategy), `Guard` (its tests), `SelectPhase` (the registry compares the
phase), `WritePhase` (UPDATE and INSERT) and, into CANDIDATE_FREEZE, `Freeze`.
`Crash` drops a process's call at any step. `consumed` is a history variable:
backtests granted to callers.

`AtomicController` is what the controller promises: each operation tests the
registry and changes it in one step. `PipelineController` instantiates it
(`Atomic`) and, with one process, implements it.

`ImplementationJob` ← `MCImplementationJob`. The jobs of one approved run in
real mode. `dir[j]` is the j-th job directory, `current` the
implementation_jobs row, `attempts` the implementation_job_attempts rows,
`master` the master_runs row, `phases` the phase results, `journal` the
journal's events. Executors run `codex-executor run`; operators run create,
retry, reconcile, ingest and resume. Every file write, transaction and check
that depends on shared state is a step. The seven FAILED_ statuses are one,
FAILED: nothing in the code tells them apart. What the master run does after
its implementation is one step (`FinishRun`) that succeeds or raises; the
master steps it passes, BASELINE to FINAL_REPORT, are one, RESEARCH. Time is
left out of staleness, so a job counts as old enough whenever a caller asks:
the model has more interruptions than the program, and none it cannot have
after waiting. What a command has read and acts on later is a step of its own: the
evidence that a job is stale and the request that is then loaded (`Interrupt`,
`LoadStale`), the journal that has no event and the event that is then written
(`ReconcileEvent`, `JournalResult`). Still one step are an update of the run's
resume state, which reads the JSON and writes it back, and two readings of the
row directly after each other (`mark_running`, `abort_by_user`, `reconcile`):
with one operator at a time nothing comes between, with several the model would
hide what might.

`JobLifecycle` is what the attempts promise whatever happens to the files: they
are numbered as they open, one is open at a time, only an interrupted or
timed-out one is replaced. `ImplementationJob` instantiates it (`Lifecycle`).

`AtomicController`, `Budget`, `StateMachine` ← `PhaseC` ← `MCPhaseC`. The
research of one strategy version, `research/services.py`. The controller's
tables are changed through `AtomicController`'s operations (`Controller!Move`,
`Spend`, `OpenHoldout`, `FreezeFamilies`), which `controller_serial` and
`LoneProcessIsAtomic` justify for one process at a time; the research tables
are variables of this module: `baseline`, `rounds` (by round number),
`decision`, `candidate`, `results`, `review`. `call` is the method in progress.
A method is an action per committed write: `RunBaseline`, `SaveBaseline` and
`MoveOn` are `run_baseline`; `BeginRound` (the budget), `RunExperiment` and
`ReviewRound` are `run_round`; `EnterHoldout` (the lock), `RunHoldout` (the
backtest), `SaveResult` and `MoveOn` are `run_holdout`. The other stages'
backtests, which may be repeated and are not counted, are one step with the
saving of their result. `Abort` ends a method between two writes, whether
the process died or something it called raised; a guard that raises is a step
not taken. Every method is offered whenever its phase test allows, since each
is a command of its own. What gates and the reviewer conclude is any of their
conclusions. `ran` and `holdoutRuns` are history variables.

`AtomicController`, `Budget`, `StateMachine` ← `MasterRun` ← `MCMasterRun`. One
run in real mode, `phase_f1/service.py`. `run` is the master_runs row,
`recorded` the status in each phase's master_phase_results row, `report`
whether the final report is saved; `registered`, `row`, `verified`, `split` and
`accesses` are the strategy's tables, `prop` the phase of its prop run. `driver`
is the command in progress: `pc` names its next write, `at` what it remembers,
which for a failing `resume` is the step its handler read (`Raise`) and will
write back (`Fail`). `start` is `Start` ... `ToApproval`; `approve` is
`Approve` ... `RejectRun`; `resume` is `Resume`, then per stage
`InspectJob`/`FollowJob`/`LoadAdapter` (_implementation), `Verify` ...
`Baseline` (_technical_verification with B.5), `BeginResearch` ... `Researched`
(_research; the phases of Phase C are its moves, `ResearchMoves`), `BeginProp`
... `EndProp` (Phase D, with the phase each of its methods insists on),
`Portfolio`, `Report`, `Complete`. `Execute` is the executor finishing the job.
`Cancel` may come at any moment, also during a resume; `Crash` drops the
command. The files and rows of the job itself are in `ImplementationJob`; here
it is what `_implementation` tells apart (`job`). Dry runs and the contents of
artifacts and reports are left out.

`StagedRun` is what a run promises: its stages are done in their order, none is
undone, and it is finished only when all are done. `MasterRun` instantiates it
(`Staged`) with the recorded SUCCESSes for the done stages.

`SpecificationJob` ← `MCSpecificationJob`. The drafts of one run. `attempts`,
`jobs` and `failed` are the rows of specification_attempts, specification_jobs
and specification_failures; `drafts` and `canonical` the draft files of the
run; `dir[n]` the directory of attempt n's job with its request, result files
and `completion`; `outcome` what the master run says. What Codex wrote is told
apart by the number of its invocation (`outputs`), and `Verdict` and `StatusOf`
are what the parser, the validator and the executor make of it. `gen` is the
command at work: `Generate`, `Proceed` and `NextAttempt` are the loop of
`generate_spec`, `Codex` an invocation in the process, `Denied`, `MakeDir`,
`WriteRequest`, `SaveJob`, `Pause` the hand-over, `TakeExternal` and `ReadRaw`
the way back, `WriteDraft`, `SaveAttempt` the judgement, `SaveCanonical` ...
`Register` and `SaveFailure`, `Fail` the two ends. `exec[p]` is an executor:
`Run` ... `Notify`, an action per file, the row and the signal. `Crash` drops a
command or an executor at any of these. One command is at work at a time, as in
`MasterRun`, and executors may overlap with it. The deterministic dry run, the
prebuilt specification and the rows that nothing reads are left out, and so is
a job whose inputs somebody else changed (FAILED_INPUT_INTEGRITY). Smithers is
taken to listen whenever it is signalled.

`BoundedRepair` is what the generation promises: candidate n is judged only
after all before it were found invalid, one is accepted for good, and giving up
takes a verdict on every one. `SpecificationJob` instantiates it (`Bounded`).

`PropAccount` ← `MCPropAccount`. `simulate_scenario` over the trades of one
account. Each trade is `Skip`, or `Settle` and then the judgement that follows
in the loop: `Breach`, `Qualify`, `GoOn`, or `Account` with the payout. `day`,
`balance`, `cycle`, `withdrawn`, `stopped` are the function's locals of nearly
the same names. Amounts are integers relative to the account size, percentages
the fractions of the code, and division rounds down as the sizing does; the
trade's risk and gain are chosen from sets. `Contracts` is `sizing.py` for
every kind of policy. A contract is released as its trade is settled, which
leaves no exposure open when the next is sized; fees are part of what a
contract gains.

`PortfolioResearch` ← `MCPortfolioResearch`. The commands of
`portfolio/service.py` on one portfolio with several versions. `specs`, `runs`,
`phase`, `funded`, `usage` and `review` are its tables by version; `rows` says of
each record key, which has no version in it, whose version the row is.
`create` is `SaveSpec`, `SaveRun`, `SaveBudget`; each later command starts with
its phase test and its payment (`GenerateCandidates` ... `RunAblation`), writes
its rows (`SaveRow`) and moves the phase (`Advance`); the review is
`FinalReview`, `SaveReview`, `Complete`. `Crash` drops the command at any of
these. Which strategies are eligible is any of `Eligibilities` whenever it is
asked for, and what the metrics say of a candidate any of what it may be
classified as with the records there are. `run_stress` is `run_ablation` with a
row per scenario, and is left out. So are the fixture scenarios: the command
line's `final-review --scenario` names one, and `final_review` then takes the
classification the scenario prescribes (portfolio/service.py:227-231) instead of
judging the records. `AcceptedOnEvidence` is about reviews without it.

`ReplayDownload` ← `MCReplayDownload`. `databento_replay_repair_downloader.py`.
`SubtractCovered` and `MergeMissing` are its planning as folds over windows in
order, `Uncovered` and `MergeNext` what their loops do with one window; `Chosen`
picks the coarsest merge level within the budget. `saved`, `recorded`,
`complete` are the manifest, `listed`, `allListed` the progress file, `target`
and `partial` the files of each request, "good" being what `validate_dbn`
accepts. A request goes through `BeginDownload`, `Fetch` (`Retry`, `GiveUp`),
`Place` or `Refuse`, `Record`, `List`, or through `SkipVerified`,
`AdoptVerified`, `Promote` when an earlier run left something. `Crash` may come
before any of them. A transfer that fails may have brought anything, also valid
data: when the run ends (`GiveUp`, `Crash`) it stays in the `.part` file, and
when it is retried the next attempt deletes it without looking (`Retry`). The
provider's prices are one of `Tariffs` in each run: `Choose` quotes the candidates and
holds the plan against the remaining budget, `ResumePlan` quotes what is pending
anew and holds that against the hard cap only, and without a quote the run ends
(`QuoteFails`). `quotes` and `limit` are what the run goes by; `issued`,
`received` and `deleted` count the run's requests, the transfers that brought
valid data, and those of them a retry deleted. That the provider bills a request
at what it quoted in the same run is outside the model.

## Runs

| run | instance | what it shows |
| --- | --- | --- |
| `budget_ledger` | three families of which two fit, three round ids, limits of one and two, every family request with 0-2 rounds and 0-3 values and both kinds of round id, requests of every total, symmetry in the families | both books agree, and a round keeps its family, for every sequence of requests |
| `controller_serial` | one process, all phases as targets, a mutable and an immutable family, two split definitions, a passing and a repairable verification | with one process at a time that may die anywhere the controller implements `AtomicController`, and the holdout is opened once |
| `controller_races` | two processes, the phases from IMPLEMENTATION_VERIFICATION to HOLDOUT, one backtest in the budget | what survives stale reads: stored usage within limits, holdout evidence complete, baseline after a verified run |
| `job_serial` | one process as executor and operator, three attempts | attempts go through `JobLifecycle`, the row follows the newest of them, one reconciliation event per result |
| `job_roles` | an executor and an operator, two attempts, fairness | one execution per job, no live executor replaced, verification only after success, a completion reaches the master run |
| `phase_c` | two mutable families, two values, four rounds, six backtests, symmetry in the values | the research of a strategy whose methods are retried and die anywhere: phases have their evidence, ends their verdicts, results are about the frozen candidate, experiments are paid for, the holdout is run once and ends selection |
| `master_run` | every stage able to fail, cancelled at any moment, two crashes, fairness | the run implements `StagedRun`, its step is backed by records, nothing runs unapproved, and it comes to an end or a reported failure |
| `specification_jobs` | one executor, three attempts, three invocations of every outcome, one crash, fairness | the candidate loop implements `BoundedRepair`, a repair is about the draft that failed, completions do not mix invocations, what is canonical was judged, and a successful draft is judged |
| `prop_account` | five policies, three days, seven trades, each losing or gaining the same | payouts come out of profit, the buffer-aware account survives, the day's loss is bounded |
| `replay_download` | sessions of five units with every set of separate gaps, nothing or one window held, three runs, two attempts, prices with and without a fee on each request | valid data is kept unless a retry deletes it, a run requests what it quoted and within the limit it was held against, a finished run is complete, the plan fills exactly the gaps |
| `portfolio_research` | two versions of three strategies, all or two of them eligible, two candidates, one crash, fairness | phases have their evidence in their own version, work is paid for, none is accepted unanalysed, a portfolio is reviewed unless its budget or a cut-short review stops it |
| `resume_strands` | as `master_run`, with one crash and no other fault | refuted: a resume does not finish the run |

### Bounds

Three attempts in `specification_jobs` are a draft, a repair and a repair of a
repair; three invocations let a job be run again after a failure or a death and
still be repaired; one crash parts any two writes, and a death of the executor
leaves the command, so that the two meet. With `Restricted`
FALSE an attempt may be denied Codex where another was not.

Limits of one or two, with requests of up to three, put every counter below,
at and over its limit. Two families and three round ids let families compete
for a round and for the last family slot. Two processes are enough for a lost
update and a stale test, since each involves a reader and one writer between
its read and its write; the proofs below do not depend on the number. Targets
of the race run leave out phases that differ from the included ones only in
their name; the serial run has them all. `MaxConsumed` stops counting backtests
one over the budget's limit. Three attempts give a first, a replaced and a
newest one; two are enough where a race is between an old and a new attempt.
`MaxIngests` bounds how often an operator repeats `ingest`.

In `phase_c` a round can be paid for twice and not three times, and four rounds
let a family be selected again after it was frozen; a value more only permutes.
In `master_run` one crash parts two writes, and the second one parts the writes
of the command that was to repair that: some states need both. The prop
target is two gains, the loss limit three losses, a day locks after two, and
seven trades let an account qualify, be paid, lose, win again and be paid again.
Trades are closed on the day they are entered (`Holding`), which is what
`DayLossBounded` is about; the other two properties do not depend on it, and
their proofs cover any. Five units of time are enough for a gap to be cut at
either end, in the middle and away and for two gaps at every distance the merge
levels tell apart; the budget of four is short of the session, the hard cap is
not. Two attempts are a retry and its exhaustion, three runs a resume of a
resume.

Two candidates let a command die between their rows, two versions write over each
other's; a third would do so to the second what the second does to the first.
The budget pays for the candidates once and for the rest twice, so that one
repetition is within it and one is not. Versions are created in the order of
their numbers, and rows written in one order, since nothing tells them apart.

The job runs, the ledger and the six above are checked with CHECK_DEADLOCK FALSE: a spent
budget admits no request, and once the last attempt within `MaxJobs` has ended
and the run is completed no command has anything to do; a classified strategy
has no research left, a master run may be finished, a run's specification is
registered or given up, a portfolio is reviewed, the simulation ends, and a
downloader's runs are bounded. The controller's runs
check deadlock: some operation can always be started.

`job_serial` and `job_roles` have one operator, as the workflow issues one
command at a time; two concurrent `create` commands are named among the
hazards. The module takes sets of both. With two operators and one executor TLC
finds `ReconciledOnce` violated, since both can read the journal before either
writes to it, and `InterruptsTheDead`, since an operator with evidence about one
job can load the request of the job the other has just created; both properties,
and their theorems, are therefore about one operator.

### Fairness

`job_roles` assumes it (`FairSpec`) for `CompletionReachesMaster`.
A command that started goes on (weak fairness of its steps). An operator goes
on calling `reconcile`, which `docs/research_pipeline/external_codex_executor.md`
makes the recovery command, and a process does not die at the same point of a
command for ever (strong fairness of `Reconcile`, `LoadTerminal`,
`ReconcileRow`, `ReconcileMaster` and `Codex`): a crash is an accident and the
command is repeated. Nothing is assumed of `create`, `retry`, `ingest` or
`resume`.

`master_run` and `resume_strands` assume it (`MasterRun`'s `FairSpec`): a
command goes on (`Continue`), the executor finishes the job it was given
(`Execute`), and somebody goes on resuming an approved run that is open
(`Resume`): the workflow's loop does, and so does an operator who is told to by
the run's outcome. Weak fairness is enough, as crashes are bounded.
`EveryRunSettles` has two exceptions, which are behaviours of the code: a run
that was rejected after an approval that a crash cut short, and
`WaitsForFinishedJob`, described below.

`specification_jobs`, `SpecificationHandOver.cfg` and `SpecificationSignal.cfg`
assume it (`SpecificationJob`'s `FairSpec`): the command that is at work goes
on and is repeated while the run has no specification, and so does an executor:
the document makes `specification-executor run` the operator's next command,
and Smithers repeats its own. Weak fairness is enough, as crashes are bounded.

`portfolio_research` assumes it (`PortfolioResearch`'s `FairSpec`): the commands
are run in the order that `phase_e_operations.md` gives, and repeated after an
interruption. A command that is at work goes on (weak fairness), and each that a
phase waits for has its turn although others come and go in between (strong
fairness of `GenerateCandidates`, `MergeSignals`, `RunRisk`, `RunProp` and
`FinalReview`). The analyses and the ablation are assumed nothing of. The
property excepts what the code does: a budget used up by repetitions
(`Unaffordable`) and a review cut short between its phase and its record
(`CutShort`), after which no command goes on.

The properties of the other runs are safety only: their callers promise no
retries.

### Where code and documents disagree

`resume_strands` checks a sentence of a document, and TLC finds a behaviour of
the code that breaks it: a run that dies once inside its research is never
finished. `PhaseCService.start`, with which every resumed research begins,
insists on the baseline phase, so each resume raises.

Further configurations of the same modules, each with one property that TLC
refutes, are kept beside it:

- `RaceHoldout.cfg` (`HoldoutOnce`): two processes that both tested the holdout
  lock both record an access, though `docs/research_pipeline/holdout_policy.md`
  allows one. The cause, a test in a SELECT before the write transaction, is
  the same for `transition` out of a state that has just become terminal
  (`registry/repositories.py:94-102`), for a budget grant that overwrites
  another (`controller/pipeline_controller.py:89-104`) and for a submission
  that overwrites an approval (`registry/repositories.py:75-81`); with two
  processes `PipelineController` reaches these too.
- `QualifiedFailure.cfg` (`BreachIsReported`): a qualified account that breaches
  its loss limit is not among the failures the simulation reports: the breach is
  written to the status of the evaluation account, which the end of the function
  overwrites.
- `SpecificationHandOver.cfg` (`RepairIsHandedOver`): the job's directory is
  made, with `exist_ok=False`, before its row is saved; a crash in between
  leaves a repair that never becomes a job, however often the command is
  repeated.
- `SpecificationSignal.cfg` (`SuccessIsSignalled`): an executor that dies between
  the completion and the signal is not made up for: the next one finds a
  successful completion and returns it.
- `SpecificationReread.cfg` (`JudgedAsVerified`): the text of a completion is read
  from its path once more after it was verified, and an executor that works on
  the job again may have replaced it in between.
- `PortfolioReview.cfg` (`ReviewKeepsRecords`): the candidates and results of a
  new version replace those of the one before under the same keys, so that an
  earlier review cites what is no longer there
  (`docs/research_pipeline/portfolio_classification.md`: "Every review cites
  registry metrics").
- `PortfolioStatus.cfg` (`StatusAnswers`): `create` that dies after the
  specification leaves one without a run or a budget, which no repetition
  completes, since it finds the specification and returns; `status`, "safe to
  use after interruption" (`docs/research_pipeline/phase_e_operations.md`),
  then raises.
- `GapApproval.cfg` (`ApprovalMandatory`): the general `transition` command
  enters IMPLEMENTATION from WAITING_FOR_SPEC_APPROVAL without an approval.
- `GapSplit.cfg` (`SplitReplaceable`): an invalidated split keeps the table's
  key, so the split that is to replace it passes its test and fails at the
  INSERT.
- `StaleVerified.cfg` (`BaselineOnLatestOutcome`): a VERIFIED outcome that a
  later verification superseded still opens the baseline, when a crash parted
  its record from its transition.
- `JobInterrupted.cfg` (`InterruptedIsRetryable`): a retry that dies after it
  marked the job INTERRUPTED leaves a job that no later retry accepts.
- `JobReopened.cfg` (`CompletedStays`): `codex-executor reconcile` on a
  completed run takes it back to IMPLEMENTATION_VERIFICATION.
- `JobSignalled.cfg` (`SignalledIsNotAwaited`): the executor signals Smithers
  before it saves the row; the resume that the signal starts goes on waiting.
- `MasterUnclassified.cfg` (`CompletedIsClassified`): the research is recorded
  as SUCCESS before its result is looked at, so that the next resume skips it
  and completes the run with a strategy that nobody classified.

`ControllerMore.cfg` has three more properties of the instance of
`controller_serial`, which hold: the type invariant, `HardBudget` and
`FrozenFamiliesRest`.

### What else the models showed

- `start` that dies between registration and submission leaves a strategy in
  SPECIFICATION_DRAFT. `approve` approves it in that phase, and its
  verification then fails for ever. `approve` that dies inside the controller's
  approval leaves a strategy that every later `approve` refuses as immutable.
  `reject` that dies after the strategy's transition leaves a run that can
  still be approved, with a rejected strategy.
- `reconcile` that dies after it ingested the job, followed by a resume that
  dies after it recorded the implementation, leaves a run that says
  WAITING_EXTERNAL_CODEX for a job that is done, and every resume believes it
  (`WaitsForFinishedJob`).
- Two executors of one specification job that overlap can leave a SUCCEEDED
  completion whose files are another invocation's: it never verifies, and every
  later command raises. `SuccessIsOneRun` is therefore checked for one executor
  at a time, with its deaths. Two `start` commands of one run are not modelled;
  the second would find the job of the first, whose reused pause has no
  `pause_reason` (`specification_executor/jobs.py`), or overwrite the canonical
  specification.
- A job's row may say WAITING, or an earlier failure, beside a successful
  completion: `finish` may have died in between. Candidates are taken by the
  completion, so nothing is lost (`SuccessIsJudged`).
- `cancel` neither stops a resume in flight, which overwrites it, nor spares a
  finished run, whose SUCCESS becomes ABORTED.
- Each method of Phase D insists on its own phase (`prop/services.py:83`), so a
  resume after a crash inside it fails as in Phase C.
- `generate-candidates` pays before it writes: with candidates for its whole
  budget, one death stops the portfolio (`Unaffordable`). A strategy that is no
  longer eligible when the command is repeated keeps its candidates of the
  first attempt. `final-review` that dies after its first write is refused for
  ever (`CutShort`).
- `propose_round` looks at the decision and not at the phase: a round can be
  proposed after the holdout. It can no longer run (`HoldoutEndsResearch`).
- The simulation settles trades in the order of their entries, does not clear
  the stopped days when the account qualifies, and keeps the loss limit static
  while the rule set's text says trailing.
- The downloader's progress file may miss a request that the manifest has; a
  resumed plan is quoted anew and held against the hard cap only, so that over
  several runs, when prices rise or a transfer has to be repeated, more than the
  remaining budget may be requested; a retry deletes the `.part` file of the
  attempt before it without validating it, and may buy valid data again;
  `validate_dbn` looks at neither the number of records nor the last timestamp.

## Proofs

The first part of `BudgetLedger` is about `Admits` and `Charge`: an admitted
request charges a usage within the limits to one within the limits, keeps its
type, raises the counter of backtests by what it asked for, and writes only the
rounds it touches. The ledger applies these facts: `LedgerTyped`,
`LedgerWithinLimits`, and `LedgerRoundsKeepOwner`, an action property: of every
round it touches, the check compares the owner. `LedgerRoundsPaid` says that a
round with an owner was paid for by it. `LedgerBooksAgree` adds the sums: what
is counted for a family is the sum of what is counted in its rounds. The second
half of the module is about such sums: they exist over every finite set
(`SumExists`), do not depend on the order they are taken in (`SumInAnyOrder`,
`SumChosen`), and grow by what one entry grows (`SumRaised`, `SumExtended`), so
that a charge adds as much to either side (`ChargeCountsValues`).

`ControllerProofs` is about `PipelineController` for any set of processes.
`ControllerTyped` is the type invariant. `ControllerRaceSafe` proves the
inductive invariant `RaceInv`. `UsageWithinLimits` and `HoldoutEvidence` are
not inductive alone: a process stores a usage it computed earlier. `RaceInv`
adds what every process carries: a usage waiting to be stored is within the
limits and its holdout counter is at most the number of audit rows
(`BudgetReady`), and a phase waiting to be written is a legal move from the
phase that was read, with a verified run if it is the baseline (`MoveReady`);
and that an invalidated split was defined (`SplitDefined`). Limits and audit
rows only bound from above and the rows only grow, so what was ready stays
ready whatever the others do. `ControllerUsageWithinLimits`,
`ControllerHoldoutEvidence`, `ControllerMovesAreLegal`,
`ControllerBaselineNeedsVerified` and `ControllerNothingThaws` follow.

With one process, `PipelineController` implements `AtomicController`
(`LoneProcessIsAtomic`). The invariant, `AloneInv`, says that whatever the
process read is still so (`Known`: the phase, the freeze flag, the approval, the
step it is at, the budget, the split, the holdout), so each write is an
operation of the abstract controller and every other step, crash included, a
stutter. The same invariant gives what two processes break. `LoneHoldoutOnce`:
the lock that a process tested is still as it read it when it records the
access. `LoneHardBudget` needs `LoneBooks` besides: what was granted to callers
is what the usage counts, and a grant not yet stored is the difference.
`LoneFrozenFamiliesRest` follows from `AloneInv`, since a usage is stored over
the one it was computed from.

`JobProofs` is about `ImplementationJob` for any number of attempts and events,
in layers, each assuming less company than the one before.

- For any processes: `JobTyped`, with the shape of what they carry (`BaseInv`).
  Who writes about a job finds its row (`CallFits`), since a directory has one
  maker (`CreatorsApart`) and a job's row and the current one are written
  together (`RowFits`).
- One operator at a time and any executors (`OneOperator`):
  `JobReconciledOnce`, from `OnceInv`. Between reading the journal and writing
  the event nobody else writes one. Two operators do journal a result twice.
- One executor at a time and any operators (`OneExecutor`):
  `LoneExecutorRunsOnce`, from `UsedInv`. A job that was run is either no longer
  offered or in the hands of the executor that runs it (`JobUsed`,
  `ExecutorSafe`).
- One process, which acts as executor and operator by turns:
  `LoneNewestIsCurrent` and the refinement `LoneImplementsLifecycle`, from
  `SerialInv`. Files lead and rows follow (`FilesInOrder`), only the current job
  may be open (`OnlyCurrentIsOpen`), a row with an end has a completion that
  tells the same (`ResultTells`), and a process stands where what it remembers
  is what the disk says (`Stands`).
- One executor and one operator, interleaved at every write:
  `JobVerificationHasSuccess`, from `SuccessInv`, and
  `LoneExecutorIsNotInterrupted`, from `WorkInv`: an operator that is about to
  close a directory found it left by an executor that is no longer at it
  (`ClosesTheLeft`), and the request it loads is that job's, as the only operator
  there is has made no other in between. While the executor is busy
  nobody replaces or closes its job (`BusyFits`); if it lags behind a job that
  was replaced, the replacement has not been started, since the executor that
  would start it is the one that lags (`LagFits`); what it is going to say is
  what it wrote (`OutcomeFits`). So a row that says success, a command that is
  about to record one, and a master run past IMPLEMENTATION all have a current
  job with a successful completion (`RowTells`, `RecordFits`). Two operators
  break it, since one may record a success while the other replaces the job, and
  so do two executors of one job.

`SpecificationProofs` is about `SpecificationJob` for any number of attempts,
invocations and deaths. `SpecificationTyped` is the shape of files, rows and
what processes carry, with what needs no company to be kept: whatever a file or
a row tells of happened, and a job that has a candidate has the text it came
from (`TextKept`). On it rests the loop's invariant, `LoopInv`, for any
executors beside the one command: the command is at an attempt only when all
before it were found invalid (`InTurn`, `Stands`), such an attempt's row is a verdict on its
draft (`TellsDraft`), the request of the next one holds that draft
(`RepairFits`), and between two writes a command still is where the rows say
(`Stands`). `SpecificationRepairsWhatFailed`,
`SpecificationCanonicalWasJudged` and the refinement
`SpecificationImplementsBoundedRepair` follow. `SpecificationSuccessIsOneRun`
takes one executor at a time: over a job that is not done, it writes its files
in their order (`Progress`), so a completion lists what one invocation wrote,
and a job that is done is not run again (`SuccessFits`). Two executors of one
job do mix their files.

`PortfolioProofs` is about the two models of what comes after the research of a
strategy. They share the module and the lemmas on finite sets, and no state:
each theorem names the specification it is about.

For `PropAccount` it holds for any rule set, policies, risks, moves and holding
times. `PropTyped` is the type invariant. `WithdrawnFromProfit` is inductive
once it is stated for every point of the loop: a trade that is settled and not
yet judged is in the balance and not in the closed cycles (`BooksInv`).
`BufferAwareSurvives` needs that sizing leaves the floor: a position risks at
most the buffer less its floor, in integers, and a payout takes only what lies
above the start (`BufferInv`). `DayLossBounded` needs that a day not locked has
lost less than its guard (`DayInv`).

For `PortfolioResearch` it holds for any strategies, versions, limits and
deaths. `PortfolioTyped` is the type invariant. `PortfolioEvidence` and
`PortfolioAccepted` rest on `ResearchInv`: a command at work is one for the
newest version, in the phase its table is written in, and what it has yet to
write is about that version's candidates (`AtWork`, `WritesRows`); a version
that has no run yet has nothing on record, so that the next version does not
take over what an earlier one left (`FreshVersions`); and every row of the
newest version is about one of its candidates (`RowsHaveCandidate`). For the
tables the next phase asks for, each candidate's row is there or still to be
written, which is why the phase may advance when nothing is left to write.
`PortfolioPaid` is not inductive alone, since the payment comes first and the
rows one by one: `PaidAhead` counts the rows a version has together with those
its command has yet to write. A repeated command pays again for what it
overwrites.

`ReplayProofs` is about `ReplayDownload` for any session, evidence, holdings,
merge levels, prices, budgets and numbers of runs and attempts. The plan is a
result of three folds. Each is brought to the sequence of its intermediate
results (`FoldTrace`); by induction over their number, cutting out leaves
exactly the points that are missing (`SubtractCoveredPoints`), and merging
leaves blocks that are apart, hold every window, and begin and end where a
window does (`MergeMissingBlocks`). Merging needs the windows sorted, so that
the block that is extended starts no later than the window (`InOrderLists`: a
sorted listing of every set of windows exists). So whichever candidate is
chosen is a good plan (`CandidateGood`), and no longer than there are files
(`PlanLength`). `PlanInv` carries it along: a run works on the plan of the
manifest, which is written when there is none and never replaced by another.
`ReplayPlanFillsGaps` follows. `BoughtInv` is about the data: what was received
and not deleted by a retry is in the `.part` file or in its place, and a request
is issued only when neither validates (`ReplayBoughtIsKept`). `BillInv` is about
a run's requests: what it has not quoted is on disk, and it goes through the
plan in order, so that what it issues is part of what it quoted, each block as
often as there are attempts; a part costs no more than the whole
(`BillWithinLimit`, `ReplayRunWithinLimit`). `ProgressInv` is about the manifest: what is
recorded is in place, and a run has passed by recorded requests only
(`ReplayFinishedIsVerified`). `ReplayTyped` is the type invariant.

Induction over data appears in `BudgetLedger`, `ReplayProofs` and
`PortfolioProofs` in one form: a set of numbers that has 0 and with each number
the next has all of them (`NumberInduction`, from the library's theorem that
the numbers are well founded), applied to the set of those numbers up to which
the claim holds. That the folds and sums, which are defined by `CHOOSE`, exist
at all is proved in the same way (`RecursionExists`, `FoldExists`).

`PhaseCProofs` proves all properties of the run `phase_c` for any families,
values, limits and split. `Typed` is the type invariant with the budget's
(through `BudgetLedger`). `Placed` says which steps the method in progress can
be at in which phase, and where it may move on to: without it nothing relates a
result that is being saved to the phase it will open. `Paid` counts the
experiments a method has still to run against what it has paid. `Locked` says
that the accesses, the opened flag and the phase go together and that the
holdout's backtest comes at most once per access. `Backed` is
`EvidenceBehindPhase` and `VerdictOnRecord` for the phase a method is about to
move to as well as for the one reached. `Frozen` says that from the candidate's
freeze on the rounds select what the manifest holds; it is what
`HoldoutEndsResearch`, an action property, rests on too.

`MasterProofs` is about `MasterRun` for any number of crashes, failures,
cancellations and resumes. Its invariant, `MasterInv`, says what a command has
behind it where it stands (`Reached`): a command that is past a stage has that
stage on record, because each step comes from where it does (`Ways`). From it,
stages are done one at a time and in order (`OneStage`, `InOrder`); the archive
has its report (`Reported`); what a step of the run claims is on record, for
the step that a failing resume is going to write back as well (`Backed`:
without that, `StepIsBacked` is not inductive, since the write overtakes the
stages done in between); a job has an approved strategy (`Approved`); and a
strategy in research has its verification, which only a `VERIFIED` outcome
brought about (`InResearch`). `MasterWorkIsApproved`, `MasterStepIsBacked` and
the refinement `MasterImplementsStagedRun` follow: each step does the next
stage, finishes, withdraws, or is a stutter of `StagedRun`.

The assumptions are those the modules name: `BudgetAssumption` (families are a
finite set, limits are natural numbers, `NoFamily` is no family, `NoRound` no
number), `LedgerRequestsAssumption`, `ControllerAssumption` (mutable families
are families, requests and targets have their types, `NoSplit` is no hash),
`JobAssumption` (bounds are natural numbers, `NoProc` is no process, both
permissions are Booleans), `SpecificationJobAssumption` (bounds are natural
numbers, there is at least one attempt, `Restricted` is a Boolean),
`ReplayDownloadAssumption` (evidence and holdings are sets of windows of the
session, the merge levels include 0, a tariff gives each window a natural number,
bounds are natural numbers, with at least one attempt) and those of the same kind in `PhaseC`, `MasterRun`,
`PropAccount` and `PortfolioResearch`. TLC evaluates them in each run.

Theorems whose names begin with `Lone` or `Job`, and
`SpecificationSuccessIsOneRun`, may have a hypothesis on the processes, and
those are what the program's callers keep and its code does not enforce. `Procs
= {p}` is one command at a time, as the workflow issues them and
`controller_serial` and `job_serial` check them. `OneExecutor` and `OneOperator`
are one `codex-executor run` of a strategy beside one command of the workflow,
the instance of `job_roles`; the specification's executor is alone likewise.
Every theorem has crashes at every step.

Only model-checked:

- The liveness properties, `CompletionReachesMaster`, `EveryRunSettles`,
  `SuccessIsJudged` and `EveryPortfolioSettles`: liveness under fairness is
  outside what the proof system handles.

## Not modelled

- Gate evaluation: Phase C takes any conclusion the gates may lead to. The
  comparison of metrics with thresholds is pure, and planned as operators.
- The portfolio's fixture scenarios, which prescribe a classification
  (`final-review --scenario`, portfolio/service.py:227-231).
- What the portfolio commands compute: eligibility, the merging of signals,
  overlap and correlation, the joint replay. They are pure, and
  `PortfolioResearch` takes any outcome they may have.
- Compliance rules: pure computations over lists of results.
- The order-flow study (`cme_orderflow_absorption_l2_v1/`), by far the largest
  package: single-threaded numeric research over market-depth records, most of
  it one-off studies that no other part depends on. A model of it would be a
  copy of its arithmetic; its tests compare numbers, which is the right tool.
- The AlgoSeek client and the archive builder: input and output.
- `reclassify_legacy_timeout`: a one-time correction of results written before
  the present contract.
- Experiments, decisions, failures and reports: append-only, read back by
  nothing that decides.
- Git worktrees, subprocesses, environments: the executor's model chooses among
  their outcomes.
- Numeric strategies, the legacy backtester, study scripts, generated workflow
  definitions.

## Plan

Done: budget, state machine, controller with its abstract specification,
implementation jobs with theirs, specification jobs with theirs, Phase C, the
master run with its abstract specification, the prop account, the replay
downloader, the portfolio's commands, and the proofs above. Next, in this order:

1. Pure parts: gate evaluation, plateau selection of a round's values,
   the portfolio's joint replay, each against a reference definition.
2. The composition of `MasterRun` with `PhaseC`, in place of `ResearchMoves`.
3. Proofs: every invariant and action property that a run checks is proved, some
   for the company of processes named above. Left is the same for what 1 and 2
   add.
