------------------------------ MODULE JobProofs ------------------------------
(***************************************************************************)
(* What stays true of a run's implementation jobs for every number of jobs *)
(* and events: for any processes, for one operator beside any executors,   *)
(* for one executor beside any operators, for one of each, and for a       *)
(* process that is alone.                                                  *)
(***************************************************************************)
EXTENDS ImplementationJob, WellFoundedInduction, TLAPS

-----------------------------------------------------------------------------
\* Shape: what a process carries fits the step it stands at

HasRow(j) == j \in Jobs /\ attempts[j] # "NONE"

\* The steps in which the job a process carries has a row.
Carrying ==
    Executing \cup
    {"mark", "interrupt_file", "interrupt_row", "reconcile_row",
     "reconcile_master", "reconcile_event", "journal", "ingest_row",
     "ingest_master", "ingest_event"}

Creating == {"request", "save_job"}

(* The current row and the row of its attempt are written together.        *)
RowFits ==
    /\ current.job = 0 => current.status = "NONE"
    /\ current.job # 0 =>
         HasRow(current.job) /\ attempts[current.job] = current.status

(* A directory is made by one process, which alone gives its job a row.    *)
CreatorsApart ==
    /\ \A j \in Jobs : ~dir[j].made => attempts[j] = "NONE"
    /\ \A p \in Procs : pc[p] \in Creating =>
         /\ call[p].job \in Jobs
         /\ dir[call[p].job].made
         /\ attempts[call[p].job] = "NONE"
    /\ \A p, q \in Procs :
         pc[p] \in Creating /\ pc[q] \in Creating
         /\ call[p].job = call[q].job => p = q

CallFits(p) ==
    /\ pc[p] \in Executing \cup {"mark"} => p \in Executors
    /\ pc[p] = "make" => call[p].job \in Jobs
    /\ pc[p] = "inspect" => call[p].op = "resume"
    /\ pc[p] \in {"find", "number", "make", "request", "save_job", "link"} =>
         call[p].op \in {"create", "retry", "resume"}
    /\ pc[p] \in {"mark", "interrupt", "load", "reconcile"} => current.job # 0
    /\ pc[p] \in Carrying => HasRow(call[p].job)
    /\ pc[p] \in {"mark_row", "abort_row"} => HasRow(call[p].marked)
    /\ pc[p] \in {"finish_file", "signal", "finish_row"} =>
         call[p].status \in CompletionOutcomes
    /\ pc[p] \in {"reconcile_row", "reconcile_master", "reconcile_event",
                 "journal"} =>
         call[p].status \in TerminalStatuses

BaseInv ==
    TypeOK /\ RowFits /\ CreatorsApart /\ \A p \in Procs : CallFits(p)

-----------------------------------------------------------------------------
\* Going on

\* Where a process goes, and what the others keep.
LEMMA GotoWithFields ==
    ASSUME TypeOK, NEW p \in Procs, NEW step, NEW c, GotoWith(p, step, c)
    PROVE  /\ pc'[p] = step /\ call'[p] = c
           /\ \A q \in Procs \ {p} : pc'[q] = pc[q] /\ call'[q] = call[q]
BY DEF TypeOK, GotoWith

LEMMA GotoFields ==
    ASSUME TypeOK, NEW p \in Procs, NEW step, Goto(p, step)
    PROVE  GotoWith(p, step, call[p])
BY DEF TypeOK, Goto, GotoWith

\* Program counters and calls.
ControlTyped == pc \in [Procs -> Steps] /\ call \in [Procs -> Calls]

LEMMA GotoWithTyped ==
    ASSUME TypeOK, NEW p \in Procs, NEW step \in Steps, NEW c \in Calls,
           GotoWith(p, step, c)
    PROVE  ControlTyped'
BY DEF TypeOK, GotoWith, ControlTyped

LEMMA GotoTyped ==
    ASSUME TypeOK, NEW p \in Procs, NEW step \in Steps, Goto(p, step)
    PROVE  ControlTyped'
BY DEF TypeOK, Goto, ControlTyped

LEMMA NoCallTyped == NoCall \in Calls
BY JobAssumption DEF NoCall, Calls, MasterStep

LEMMA ReturnTyped ==
    ASSUME TypeOK, NEW p \in Procs, Return(p) PROVE ControlTyped'
BY NoCallTyped, GotoWithTyped DEF Return, Steps, Executing

LEMMA RaiseTyped ==
    ASSUME TypeOK, NEW p \in Procs, Raise(p) PROVE ControlTyped'
BY ReturnTyped, GotoTyped DEF Raise, Steps

LEMMA RefuseTyped ==
    ASSUME TypeOK, NEW p \in Procs, Refuse(p) PROVE ControlTyped'
BY ReturnTyped, GotoTyped DEF Refuse, Steps

\* A command starts with a fresh call.
LEMMA FreshCallTyped ==
    ASSUME NEW op \in {"none", "create", "retry", "run", "reconcile", "ingest",
                       "resume", "settle"}
    PROVE  [NoCall EXCEPT !.op = op] \in Calls
BY NoCallTyped DEF Calls

LEMMA StartTyped ==
    ASSUME TypeOK, NEW p \in Procs, NEW step \in Steps,
           NEW op \in {"none", "create", "retry", "run", "reconcile", "ingest",
                       "resume", "settle"},
           Start(p, op, step)
    PROVE  ControlTyped'
BY FreshCallTyped, GotoWithTyped DEF Start

(* A row is saved with a status and a result of the right shape.           *)
LEMMA SaveJobTyped ==
    ASSUME TypeOK, NEW j \in 0..MaxJobs,
           NEW status \in ActiveStatuses \cup TerminalStatuses \cup {"NONE"},
           NEW result \in Completion \cup {NoResult},
           SaveJob(j, status, result)
    PROVE  /\ current' \in JobRow
           /\ attempts' \in
                [Jobs -> ActiveStatuses \cup TerminalStatuses \cup {"NONE"}]
BY DEF TypeOK, SaveJob, JobRow

(* One directory's entry is written.                                       *)
LEMMA DirWriteTyped ==
    ASSUME TypeOK, NEW j, NEW d \in JobDir, dir' = [dir EXCEPT ![j] = d]
    PROVE  dir' \in [Jobs -> JobDir]
BY DEF TypeOK

LEMMA CloseDirTyped ==
    ASSUME TypeOK, NEW j \in Jobs, NEW status \in TerminalStatuses,
           CloseDir(j, status)
    PROVE  dir' \in [Jobs -> JobDir]
<1>1. dir[j] \in JobDir
  BY DEF TypeOK
<1>2. [dir[j] EXCEPT !.artifacts = TRUE, !.status = status, !.owner = NoProc]
        \in JobDir
  BY <1>1 DEF JobDir
<1>3. dir' = [dir EXCEPT ![j] = [dir[j] EXCEPT !.artifacts = TRUE,
                                !.status = status, !.owner = NoProc]]
  BY DEF CloseDir, TypeOK, JobDir
<1> QED BY <1>2, <1>3, DirWriteTyped

\* A step that only moves its process keeps the shape of everything else.
LEMMA QuietTyped ==
    ASSUME TypeOK, ControlTyped', UNCHANGED <<dir, registry, outside>>
    PROVE  TypeOK'
BY DEF TypeOK, ControlTyped, registry, outside, JobRow, MasterRow

\* The newest of some jobs is one of them.
LEMMA NewestIsNewest ==
    ASSUME NEW jobs, jobs \subseteq Jobs, jobs # {}
    PROVE  Newest(jobs) \in jobs /\ \A k \in jobs : k <= Newest(jobs)
<1> USE JobAssumption
<1> DEFINE Below == {n \in Nat : \E j \in jobs : n = MaxJobs - j}
           Less == {ss \in Nat \X Nat : ss[1] < ss[2]}
<1>1. Below \subseteq Nat /\ Below # {}
  <2>1. PICK j \in jobs : TRUE
    OBVIOUS
  <2>2. MaxJobs - j \in Below
    BY DEF Jobs
  <2> QED BY <2>2
<1>2. IsWellFoundedOn(Less, Nat)
  <2>1. IsWellFoundedOn(OpToRel(<, Nat), Nat)
    BY NatLessThanWellFounded
  <2>2. OpToRel(<, Nat) = Less
    BY DEF OpToRel
  <2> QED BY <2>1, <2>2
<1>3. PICK x \in Below : \A y \in Below : <<y, x>> \notin Less
  <2> HIDE DEF Below, Less
  <2> QED BY <1>1, <1>2, WFMin
<1>4. PICK j \in jobs : x = MaxJobs - j
  BY <1>3
<1>5. ASSUME NEW k \in jobs PROVE k <= j
  <2>1. MaxJobs - k \in Below
    BY DEF Jobs
  <2>2. ~(MaxJobs - k < x)
    BY <1>3, <2>1
  <2> QED BY <1>4, <2>2 DEF Jobs
<1> QED BY <1>5 DEF Newest

-----------------------------------------------------------------------------
\* Every step keeps the shape of files, rows and calls

LEMMA CreationTyped ==
    ASSUME BaseInv, NEW p \in Procs,
           \/ Create(p) \/ Find(p) \/ Number(p) \/ MakeDir(p)
           \/ WriteRequest(p) \/ SaveCreated(p) \/ LinkJob(p)
           \/ RestartMaster(p)
    PROVE  TypeOK'
<1> USE JobAssumption
<1>t. TypeOK /\ CallFits(p) /\ call[p] \in Calls
  BY DEF BaseInv, TypeOK
<1>d. \A j \in Jobs : dir[j] \in JobDir
  BY <1>t DEF TypeOK
<1>1. CASE Create(p)
  <2>1. ControlTyped'
    BY <1>1, <1>t, StartTyped DEF Create, Steps
  <2> QED BY <1>1, <1>t, <2>1, QuietTyped DEF Create, Start
<1>2. CASE Find(p)
  <2>1. ASSUME Requested # {} PROVE Newest(Requested) \in 0..MaxJobs
    BY <2>1, NewestIsNewest DEF Jobs, Requested
  <2>2. ASSUME NEW j \in 0..MaxJobs PROVE [call[p] EXCEPT !.job = j] \in Calls
    BY <1>t DEF Calls
  <2>3. ControlTyped'
    BY <1>2, <1>t, <2>1, <2>2, GotoTyped, GotoWithTyped, ReturnTyped, RaiseTyped
       DEF Find, Steps
  <2> QED BY <1>2, <1>t, <2>3, QuietTyped DEF Find
<1>3. CASE Number(p)
  <2>1. ASSUME NEW j \in Jobs PROVE [call[p] EXCEPT !.job = j] \in Calls
    BY <1>t DEF Calls, Jobs
  <2>2. ControlTyped'
    BY <1>3, <1>t, <2>1, GotoWithTyped, RefuseTyped DEF Number, Steps
  <2> QED BY <1>3, <1>t, <2>2, QuietTyped DEF Number
<1>4. CASE MakeDir(p)
  <2>1. ControlTyped'
    BY <1>4, <1>t, GotoTyped, RaiseTyped DEF MakeDir, Steps
  <2>2. dir' \in [Jobs -> JobDir]
    <3>1. call[p].job \in Jobs
      BY <1>4, <1>t DEF MakeDir, CallFits
    <3>2. [dir[call[p].job] EXCEPT !.made = TRUE] \in JobDir
      BY <3>1, <1>d DEF JobDir
    <3> QED BY <1>4, <1>t, <3>2, DirWriteTyped DEF MakeDir, TypeOK
  <2> QED BY <1>4, <1>t, <2>1, <2>2
          DEF MakeDir, TypeOK, ControlTyped, registry, outside
<1>5. CASE WriteRequest(p)
  <2>1. ControlTyped'
    BY <1>5, <1>t, GotoTyped DEF WriteRequest, Steps
  <2>2. dir' \in [Jobs -> JobDir]
    <3> DEFINE j == call[p].job
               d == [dir[j] EXCEPT !.request = TRUE,
                                   !.status = "WAITING_EXTERNAL_CODEX"]
    <3>1. j \in Jobs
      BY <1>5 DEF WriteRequest, BaseInv, CreatorsApart, Creating
    <3>2. d \in JobDir
      BY <3>1, <1>d DEF JobDir, ActiveStatuses
    <3>3. dir' = [dir EXCEPT ![j] = d]
      BY <1>5, <1>t, <3>1 DEF WriteRequest, TypeOK, JobDir
    <3> QED BY <1>t, <3>2, <3>3, DirWriteTyped
  <2> QED BY <1>5, <1>t, <2>1, <2>2
          DEF WriteRequest, TypeOK, ControlTyped, registry, outside
<1>6. CASE SaveCreated(p)
  <2>1. ControlTyped'
    BY <1>6, <1>t, GotoTyped DEF SaveCreated, Steps
  <2>2. /\ current' \in JobRow
        /\ attempts' \in
             [Jobs -> ActiveStatuses \cup TerminalStatuses \cup {"NONE"}]
    BY <1>6, <1>t, SaveJobTyped DEF SaveCreated, ActiveStatuses, Calls
  <2> QED BY <1>6, <1>t, <2>1, <2>2
          DEF SaveCreated, TypeOK, ControlTyped, outside
<1>7. CASE LinkJob(p)
  <2>1. ControlTyped'
    BY <1>7, <1>t, GotoTyped, ReturnTyped
       DEF LinkJob, CallFits, AfterCreate, Steps
  <2>2. master' \in MasterRow
    BY <1>7, <1>t DEF LinkJob, TypeOK, MasterRow, Calls
  <2> QED BY <1>7, <1>t, <2>1, <2>2 DEF LinkJob, TypeOK, ControlTyped, outside
<1>8. CASE RestartMaster(p)
  <2>1. ControlTyped'
    BY <1>8, <1>t, ReturnTyped DEF RestartMaster
  <2>2. master' \in MasterRow
    BY <1>8, <1>t
       DEF RestartMaster, TypeOK, MasterRow, MasterStep, MasterOutcome, Calls
  <2> QED BY <1>8, <1>t, <2>1, <2>2
          DEF RestartMaster, TypeOK, ControlTyped, outside
<1> QED BY <1>1, <1>2, <1>3, <1>4, <1>5, <1>6, <1>7, <1>8

LEMMA ExecutionTyped ==
    ASSUME BaseInv, NEW p \in Executors, ExecutorStep(p)
    PROVE  TypeOK'
<1> USE JobAssumption
<1>t. TypeOK /\ CallFits(p) /\ call[p] \in Calls /\ p \in Procs
  BY DEF BaseInv, TypeOK, Procs
<1>d. \A j \in Jobs : dir[j] \in JobDir
  BY <1>t DEF TypeOK
<1>1. CASE Run(p)
  <2>1. [NoCall EXCEPT !.op = "run", !.job = current.job] \in Calls
    BY <1>t, NoCallTyped DEF Calls, TypeOK, JobRow
  <2>2. ControlTyped'
    BY <1>1, <1>t, <2>1, GotoWithTyped DEF Run, Steps
  <2> QED BY <1>1, <1>t, <2>2, QuietTyped DEF Run
<1>2. CASE Mark(p)
  <2>1. [call[p] EXCEPT !.marked = current.job] \in Calls
    BY <1>t DEF Calls, TypeOK, JobRow
  <2>2. ControlTyped'
    BY <1>2, <1>t, <2>1, GotoWithTyped, RaiseTyped
       DEF Mark, Steps, Executing
  <2>3. dir' \in [Jobs -> JobDir]
    <3> DEFINE j == current.job
               d == [dir[j] EXCEPT !.status = "RUNNING", !.owner = p]
    <3>1. ASSUME MayRun PROVE j \in Jobs
      BY <3>1 DEF BaseInv, RowFits, HasRow, MayRun
    <3>2. ASSUME j \in Jobs PROVE d \in JobDir
      BY <1>t, <3>2, <1>d DEF JobDir, ActiveStatuses
    <3>3. ASSUME MayRun PROVE dir' = [dir EXCEPT ![j] = d]
      BY <1>2, <1>t, <3>1, <3>3 DEF Mark, TypeOK, JobDir
    <3> QED BY <1>2, <1>t, <3>1, <3>2, <3>3, DirWriteTyped DEF Mark, TypeOK
  <2> QED BY <1>2, <1>t, <2>2, <2>3
          DEF Mark, TypeOK, ControlTyped, registry, outside
<1>3. CASE MarkRow(p)
  <2>1. ControlTyped'
    BY <1>3, <1>t, GotoTyped DEF MarkRow, Steps, Executing
  <2>2. /\ current' \in JobRow
        /\ attempts' \in
             [Jobs -> ActiveStatuses \cup TerminalStatuses \cup {"NONE"}]
    BY <1>3, <1>t, SaveJobTyped DEF MarkRow, ActiveStatuses, Calls
  <2> QED BY <1>3, <1>t, <2>1, <2>2 DEF MarkRow, TypeOK, ControlTyped, outside
<1>f. ASSUME NEW outcome \in CompletionOutcomes
      PROVE  [call[p] EXCEPT !.status = outcome,
                             !.result = [outcome |-> outcome, maker |-> p]]
               \in Calls
  BY <1>t DEF Calls, Completion, TerminalStatuses
<1>4. CASE Execute(p)
  <2>1. ControlTyped'
    BY <1>4, <1>t, <1>f, GotoWithTyped, GotoTyped
       DEF Execute, Finish, Steps, Executing, CompletionOutcomes
  <2>2. dir' \in [Jobs -> JobDir]
    <3>1. call[p].job \in Jobs
      BY <1>4, <1>t DEF Execute, CallFits, Carrying, Executing, HasRow
    <3>2. [dir[call[p].job] EXCEPT !.artifacts = TRUE] \in JobDir
      BY <3>1, <1>d DEF JobDir
    <3> QED BY <1>4, <1>t, <3>2, DirWriteTyped DEF Execute, TypeOK
  <2>3. executions' \in [Jobs -> Nat]
    <3>1. \/ executions' = executions
          \/ executions' =
               [executions EXCEPT ![call[p].job] = executions[call[p].job] + 1]
      BY <1>4 DEF Execute
    <3>2. executions \in [Jobs -> Nat]
      BY <1>t DEF TypeOK
    <3> QED BY <3>1, <3>2
  <2> QED BY <1>4, <1>t, <2>1, <2>2, <2>3
          DEF Execute, TypeOK, ControlTyped, registry
<1>5. CASE Codex(p)
  <2>1. ControlTyped'
    BY <1>5, <1>t, <1>f, GotoWithTyped, GotoTyped
       DEF Codex, Finish, Steps, Executing
  <2> QED BY <1>5, <1>t, <2>1, QuietTyped DEF Codex
<1>6. CASE FinishFile(p)
  <2>1. ControlTyped'
    BY <1>6, <1>t, GotoTyped DEF FinishFile, Steps, Executing
  <2>2. dir' \in [Jobs -> JobDir]
    <3> DEFINE j == call[p].job
               d == [dir[j] EXCEPT !.completion = call[p].result,
                                   !.status = call[p].status,
                                   !.owner = NoProc]
    <3>1. j \in Jobs
      BY <1>6, <1>t DEF FinishFile, CallFits, Carrying, Executing, HasRow
    <3>2. d \in JobDir
      <4>1. /\ call[p].result \in Completion \cup {NoResult}
            /\ call[p].status \in
                 ActiveStatuses \cup TerminalStatuses \cup {"NONE"}
        BY <1>t DEF Calls
      <4>2. ASSUME NEW e \in JobDir, NEW r \in Completion \cup {NoResult},
                   NEW status \in ActiveStatuses \cup TerminalStatuses \cup {"NONE"}
            PROVE  [e EXCEPT !.completion = r, !.status = status,
                             !.owner = NoProc] \in JobDir
        BY DEF JobDir
      <4> QED BY <3>1, <1>d, <4>1, <4>2
    <3>3. dir' = [dir EXCEPT ![j] = d]
      BY <1>6, <1>t, <3>1 DEF FinishFile, TypeOK, JobDir
    <3> QED BY <1>t, <3>2, <3>3, DirWriteTyped
  <2> QED BY <1>6, <1>t, <2>1, <2>2
          DEF FinishFile, TypeOK, ControlTyped, registry, outside
<1>7. CASE Signal(p)
  <2>1. ControlTyped'
    BY <1>7, <1>t, GotoTyped DEF Signal, Steps, Executing
  <2>2. call[p].job \in Jobs
    BY <1>7, <1>t DEF Signal, CallFits, Carrying, Executing, HasRow
  <2> QED BY <1>7, <1>t, <2>1, <2>2 DEF Signal, TypeOK, ControlTyped, registry
<1>8. CASE FinishRow(p)
  <2>1. ControlTyped'
    BY <1>8, <1>t, ReturnTyped DEF FinishRow
  <2>2. /\ current' \in JobRow
        /\ attempts' \in
             [Jobs -> ActiveStatuses \cup TerminalStatuses \cup {"NONE"}]
    BY <1>8, <1>t, SaveJobTyped DEF FinishRow, Calls
  <2> QED BY <1>8, <1>t, <2>1, <2>2 DEF FinishRow, TypeOK, ControlTyped, outside
<1>9. CASE Abort(p)
  <2>1. [call[p] EXCEPT !.marked = current.job] \in Calls
    BY <1>t DEF Calls, TypeOK, JobRow
  <2>2. ControlTyped'
    BY <1>9, <1>t, <2>1, GotoWithTyped, RaiseTyped
       DEF Abort, Steps, Executing
  <2>3. dir' \in [Jobs -> JobDir]
    <3>1. ASSUME current.status \in ActiveStatuses PROVE current.job \in Jobs
      BY <3>1 DEF BaseInv, RowFits, HasRow, ActiveStatuses
    <3> QED BY <1>9, <1>t, <3>1, CloseDirTyped DEF Abort, TypeOK, TerminalStatuses
  <2> QED BY <1>9, <1>t, <2>2, <2>3
          DEF Abort, TypeOK, ControlTyped, registry, outside
<1>10. CASE AbortRow(p)
  <2>1. ControlTyped'
    BY <1>10, <1>t, ReturnTyped DEF AbortRow
  <2>2. /\ current' \in JobRow
        /\ attempts' \in
             [Jobs -> ActiveStatuses \cup TerminalStatuses \cup {"NONE"}]
    BY <1>10, <1>t, SaveJobTyped DEF AbortRow, Calls, TerminalStatuses
  <2> QED BY <1>10, <1>t, <2>1, <2>2 DEF AbortRow, TypeOK, ControlTyped, outside
<1> QED BY <1>1, <1>2, <1>3, <1>4, <1>5, <1>6, <1>7, <1>8, <1>9, <1>10
        DEF ExecutorStep

LEMMA InterruptionTyped ==
    ASSUME BaseInv, NEW p \in Procs, Retry(p) \/ InterruptStep(p) \/ Crash(p)
    PROVE  TypeOK'
<1> USE JobAssumption
<1>t. TypeOK /\ CallFits(p) /\ call[p] \in Calls
  BY DEF BaseInv, TypeOK
<1>1. CASE Retry(p)
  <2>1. ControlTyped'
    BY <1>1, <1>t, FreshCallTyped, GotoWithTyped DEF Retry, Steps
  <2> QED BY <1>1, <1>t, <2>1, QuietTyped DEF Retry
<1>2. CASE Interrupt(p)
  <2>1. ControlTyped'
    BY <1>2, <1>t, GotoTyped, RaiseTyped DEF Interrupt, Steps
  <2> QED BY <1>2, <1>t, <2>1, QuietTyped DEF Interrupt
<1>6. CASE LoadStale(p)
  <2>1. [call[p] EXCEPT !.job = current.job] \in Calls
    BY <1>t DEF Calls, TypeOK, JobRow
  <2>2. ControlTyped'
    BY <1>6, <1>t, <2>1, GotoWithTyped DEF LoadStale, Steps
  <2> QED BY <1>6, <1>t, <2>2, QuietTyped DEF LoadStale
<1>3. CASE InterruptFile(p)
  <2>1. ControlTyped'
    BY <1>3, <1>t, GotoTyped DEF InterruptFile, Steps
  <2>2. dir' \in [Jobs -> JobDir]
    BY <1>3, <1>t, CloseDirTyped
       DEF InterruptFile, CallFits, Carrying, HasRow, TerminalStatuses
  <2> QED BY <1>3, <1>t, <2>1, <2>2
          DEF InterruptFile, TypeOK, ControlTyped, registry, outside
<1>4. CASE InterruptRow(p)
  <2>1. ControlTyped'
    BY <1>4, <1>t, GotoTyped, ReturnTyped DEF InterruptRow, Steps
  <2>2. /\ current' \in JobRow
        /\ attempts' \in
             [Jobs -> ActiveStatuses \cup TerminalStatuses \cup {"NONE"}]
    BY <1>4, <1>t, SaveJobTyped DEF InterruptRow, Calls, TerminalStatuses
  <2> QED BY <1>4, <1>t, <2>1, <2>2
          DEF InterruptRow, TypeOK, ControlTyped, outside
<1>5. CASE Crash(p)
  BY <1>5, <1>t, ReturnTyped, QuietTyped DEF Crash
<1> QED BY <1>1, <1>2, <1>3, <1>4, <1>5, <1>6 DEF InterruptStep
\* A step that moves its process and writes the master run's row.
LEMMA MasterWriteTyped ==
    ASSUME TypeOK, ControlTyped', master' \in MasterRow,
           UNCHANGED <<dir, current, attempts, phases, journal, outside>>
    PROVE  TypeOK'
BY DEF TypeOK, ControlTyped, outside, JobRow

\* One that adds an event to the journal.
LEMMA EventTyped ==
    ASSUME TypeOK, ControlTyped', NEW e \in Event,
           journal' = journal \/ journal' = Append(journal, e),
           UNCHANGED <<dir, current, attempts, master, phases, outside>>
    PROVE  TypeOK'
<1>1. journal' \in Seq(Event)
  BY DEF TypeOK
<1> QED BY <1>1 DEF TypeOK, ControlTyped, outside, JobRow, MasterRow

LEMMA ReconciliationTyped ==
    ASSUME BaseInv, NEW p \in Procs,
           \/ Reconcile(p) \/ LoadTerminal(p) \/ ReconcileRow(p)
           \/ ReconcileMaster(p) \/ ReconcileEvent(p) \/ JournalResult(p)
    PROVE  TypeOK'
<1> USE JobAssumption
<1>t. TypeOK /\ CallFits(p) /\ call[p] \in Calls
  BY DEF BaseInv, TypeOK
<1>j. ASSUME pc[p] \in {"reconcile_row", "reconcile_master", "journal"}
      PROVE  call[p].job \in Jobs /\ call[p].status \in TerminalStatuses
  BY <1>j, <1>t DEF CallFits, Carrying, HasRow
<1>1. CASE Reconcile(p)
  <2>1. ControlTyped'
    BY <1>1, <1>t, StartTyped DEF Reconcile, Steps
  <2> QED BY <1>1, <1>t, <2>1, QuietTyped DEF Reconcile, Start
<1>2. CASE LoadTerminal(p)
  <2>1. ASSUME NEW c \in Calls, NEW j \in 0..MaxJobs,
               NEW status \in ActiveStatuses \cup TerminalStatuses \cup {"NONE"},
               NEW result \in Completion \cup {NoResult}
        PROVE  /\ [c EXCEPT !.job = j, !.status = status] \in Calls
               /\ [c EXCEPT !.job = j, !.status = status, !.result = result]
                    \in Calls
    BY DEF Calls
  <2>2. current.job \in 0..MaxJobs
    BY <1>t DEF TypeOK, JobRow
  <2>3. ASSUME Validated
        PROVE  /\ dir[current.job].completion \in Completion \cup {NoResult}
               /\ dir[current.job].completion.outcome \in TerminalStatuses
    <3>1. current.job \in Jobs
      BY <2>2, <2>3 DEF Validated, Jobs
    <3>2. dir[current.job] \in JobDir
      BY <3>1, <1>t DEF TypeOK
    <3>3. dir[current.job].completion \in Completion
      BY <3>2, <2>3 DEF JobDir, Validated
    <3> QED BY <3>3 DEF Completion, TerminalStatuses
  <2>4. ControlTyped'
    <3>1. CASE Validated
      <4> DEFINE done == dir[current.job].completion
                 c == [call[p] EXCEPT !.job = current.job,
                                      !.status = done.outcome, !.result = done]
      <4>1. c \in Calls
        BY <1>t, <3>1, <2>1, <2>2, <2>3
      <4>2. GotoWith(p, "reconcile_row", c)
        BY <1>2, <3>1 DEF LoadTerminal, Validated
      <4> QED BY <1>t, <4>1, <4>2, GotoWithTyped DEF Steps
    <3>2. CASE /\ ~Validated
               /\ current.status \in {"INTERRUPTED", "ABORTED_BY_USER"}
               /\ dir[current.job].completion = NoResult
      BY <1>2, <1>t, <3>2, <2>1, <2>2, GotoWithTyped
         DEF LoadTerminal, Steps, TerminalStatuses
    <3>3. CASE ~Validated /\ ~(/\ current.status \in {"INTERRUPTED", "ABORTED_BY_USER"}
                               /\ dir[current.job].completion = NoResult)
      BY <1>2, <1>t, <3>3, RaiseTyped DEF LoadTerminal
    <3> QED BY <3>1, <3>2, <3>3
  <2> QED BY <1>2, <1>t, <2>4, QuietTyped DEF LoadTerminal
<1>3. CASE ReconcileRow(p)
  <2>1. ControlTyped'
    BY <1>3, <1>t, GotoTyped DEF ReconcileRow, Steps
  <2>2. /\ current' \in JobRow
        /\ attempts' \in
             [Jobs -> ActiveStatuses \cup TerminalStatuses \cup {"NONE"}]
    <3>1. call[p].job \in 0..MaxJobs /\ call[p].status \in TerminalStatuses
          /\ call[p].result \in Completion \cup {NoResult}
      BY <1>3, <1>t, <1>j DEF ReconcileRow, Jobs, Calls
    <3> QED BY <1>3, <1>t, <3>1, SaveJobTyped DEF ReconcileRow, TerminalStatuses
  <2> QED BY <1>3, <1>t, <2>1, <2>2
          DEF ReconcileRow, TypeOK, ControlTyped, outside
<1>4. CASE ReconcileMaster(p)
  <2>1. ControlTyped'
    BY <1>4, <1>t, GotoTyped DEF ReconcileMaster, Steps
  <2>2. master' \in MasterRow
    BY <1>4, <1>t
       DEF ReconcileMaster, MasterRow, MasterStep, MasterOutcome, Calls
  <2> QED BY <1>4, <1>t, <2>1, <2>2, MasterWriteTyped DEF ReconcileMaster
<1>5. CASE ReconcileEvent(p)
  <2>1. ControlTyped'
    BY <1>5, <1>t, GotoTyped, ReturnTyped, RaiseTyped
       DEF ReconcileEvent, AfterReconcile, Steps
  <2> QED BY <1>5, <1>t, <2>1, QuietTyped DEF ReconcileEvent
<1>6. CASE JournalResult(p)
  <2>1. ControlTyped'
    BY <1>6, <1>t, GotoTyped, ReturnTyped, RaiseTyped
       DEF JournalResult, AfterReconcile, Steps
  <2>2. Reconciled(call[p]) \in Event
    BY <1>6, <1>t, <1>j DEF JournalResult, Reconciled, Event, Calls
  <2> QED BY <1>6, <1>t, <2>1, <2>2, EventTyped DEF JournalResult
<1> QED BY <1>1, <1>2, <1>3, <1>4, <1>5, <1>6

LEMMA IngestionTyped ==
    ASSUME BaseInv, NEW p \in Procs,
           Ingest(p) \/ IngestRow(p) \/ IngestMaster(p) \/ IngestEvent(p)
    PROVE  TypeOK'
<1> USE JobAssumption
<1>t. TypeOK /\ CallFits(p) /\ call[p] \in Calls
  BY DEF BaseInv, TypeOK
<1>j. ASSUME pc[p] \in {"ingest_row", "ingest_master", "ingest_event"}
      PROVE  /\ call[p].job \in Jobs
             /\ call[p].result \in Completion \cup {NoResult}
  BY <1>j, <1>t DEF CallFits, Carrying, HasRow, Calls
<1>1. CASE Ingest(p)
  <2>1. current.job \in 0..MaxJobs
    BY <1>t DEF TypeOK, JobRow
  <2>2. dir[current.job].completion \in Completion \cup {NoResult}
    <3>1. current.job \in Jobs
      BY <1>1, <2>1 DEF Ingest, Validated, Jobs
    <3>2. dir[current.job] \in JobDir
      BY <3>1, <1>t DEF TypeOK
    <3> QED BY <3>2 DEF JobDir
  <2>3. [NoCall EXCEPT !.op = "ingest", !.job = current.job,
                       !.result = dir[current.job].completion] \in Calls
    BY <2>1, <2>2, NoCallTyped DEF Calls
  <2>4. ControlTyped'
    BY <1>1, <1>t, <2>3, GotoWithTyped DEF Ingest, Steps
  <2> QED BY <1>1, <1>t, <2>4, QuietTyped DEF Ingest
<1>2. CASE IngestRow(p)
  <2>1. ControlTyped'
    BY <1>2, <1>t, GotoTyped DEF IngestRow, Steps
  <2>2. /\ current' \in JobRow
        /\ attempts' \in
             [Jobs -> ActiveStatuses \cup TerminalStatuses \cup {"NONE"}]
    <3>1. call[p].job \in 0..MaxJobs
          /\ call[p].result \in Completion \cup {NoResult}
      BY <1>2, <1>j DEF IngestRow, Jobs
    <3> QED BY <1>2, <1>t, <3>1, SaveJobTyped DEF IngestRow, TerminalStatuses
  <2> QED BY <1>2, <1>t, <2>1, <2>2 DEF IngestRow, TypeOK, ControlTyped, outside
<1>3. CASE IngestMaster(p)
  <2>1. ControlTyped'
    BY <1>3, <1>t, GotoTyped DEF IngestMaster, Steps
  <2>2. master' \in MasterRow
    BY <1>3, <1>t DEF IngestMaster, TypeOK, MasterRow, Calls
  <2> QED BY <1>3, <1>t, <2>1, <2>2, MasterWriteTyped DEF IngestMaster
<1>4. CASE IngestEvent(p)
  <2>1. ControlTyped'
    BY <1>4, <1>t, ReturnTyped DEF IngestEvent
  <2>2. [event |-> "INGESTED", job |-> call[p].job, status |-> "INGESTED",
         result |-> call[p].result] \in Event
    BY <1>4, <1>j DEF IngestEvent, Event, TerminalStatuses
  <2> QED BY <1>4, <1>t, <2>1, <2>2, EventTyped DEF IngestEvent
<1> QED BY <1>1, <1>2, <1>3, <1>4

LEMMA ResumptionTyped ==
    ASSUME BaseInv, NEW p \in Procs,
           \/ Resume(p) \/ Inspect(p) \/ Wait(p) \/ Adapter(p)
           \/ EnterVerification(p) \/ FinishRun(p) \/ Fail(p)
    PROVE  TypeOK'
<1> USE JobAssumption
<1>t. TypeOK /\ CallFits(p) /\ call[p] \in Calls
  BY DEF BaseInv, TypeOK
<1>m. master \in MasterRow /\ current.job \in 0..MaxJobs
  BY <1>t DEF TypeOK, JobRow
<1>1. CASE Resume(p)
  <2>1. [NoCall EXCEPT !.op = "resume", !.from = master.step] \in Calls
    BY <1>m, NoCallTyped DEF MasterRow, Calls
  <2>2. ControlTyped'
    BY <1>1, <1>t, <2>1, GotoWithTyped DEF Resume, Steps
  <2> QED BY <1>1, <1>t, <2>2, QuietTyped DEF Resume
<1>2. CASE Inspect(p)
  <2>1. /\ [call[p] EXCEPT !.job = current.job] \in Calls
        /\ [call[p] EXCEPT !.op = "settle"] \in Calls
    BY <1>t, <1>m DEF Calls
  <2>2. ControlTyped'
    <3>1. \/ Goto(p, "find") \/ Goto(p, "adapter") \/ Goto(p, "reconcile")
          \/ GotoWith(p, "wait", [call[p] EXCEPT !.job = current.job])
          \/ GotoWith(p, "reconcile", [call[p] EXCEPT !.op = "settle"])
      BY <1>2 DEF Inspect
    <3> QED BY <1>t, <2>1, <3>1, GotoTyped, GotoWithTyped DEF Steps
  <2> QED BY <1>2, <1>t, <2>2, QuietTyped DEF Inspect
<1>3. CASE Wait(p)
  <2>1. ControlTyped'
    BY <1>3, <1>t, ReturnTyped DEF Wait
  <2>2. master' \in MasterRow
    BY <1>3, <1>t DEF Wait, MasterRow, MasterStep, MasterOutcome, Calls
  <2> QED BY <1>3, <1>t, <2>1, <2>2, MasterWriteTyped DEF Wait
<1>4. CASE Adapter(p)
  <2>1. ControlTyped'
    BY <1>4, <1>t, GotoTyped, RaiseTyped, RefuseTyped DEF Adapter, Steps
  <2> QED BY <1>4, <1>t, <2>1
          DEF Adapter, TypeOK, ControlTyped, outside, JobRow, MasterRow
<1>5. CASE EnterVerification(p)
  <2>1. ControlTyped'
    BY <1>5, <1>t, GotoTyped, ReturnTyped DEF EnterVerification, Steps
  <2>2. master' \in MasterRow
    BY <1>5, <1>m DEF EnterVerification, MasterRow, MasterStep, MasterOutcome
  <2> QED BY <1>5, <1>t, <2>1, <2>2, MasterWriteTyped DEF EnterVerification
<1>6. CASE FinishRun(p)
  <2>1. ControlTyped'
    BY <1>6, <1>t, ReturnTyped, RaiseTyped, RefuseTyped DEF FinishRun
  <2>2. master' \in MasterRow
    BY <1>6, <1>m DEF FinishRun, MasterRow, MasterStep, MasterOutcome
  <2> QED BY <1>6, <1>t, <2>1, <2>2, MasterWriteTyped DEF FinishRun
<1>7. CASE Fail(p)
  <2>1. ControlTyped'
    BY <1>7, <1>t, ReturnTyped DEF Fail
  <2>2. master' \in MasterRow
    BY <1>7, <1>m DEF Fail, MasterRow, MasterOutcome
  <2> QED BY <1>7, <1>t, <2>1, <2>2, MasterWriteTyped DEF Fail
<1> QED BY <1>1, <1>2, <1>3, <1>4, <1>5, <1>6, <1>7

LEMMA OperationTyped ==
    ASSUME BaseInv, NEW p \in Operators, OperatorStep(p) PROVE TypeOK'
BY CreationTyped, InterruptionTyped, ReconciliationTyped, IngestionTyped,
   ResumptionTyped DEF OperatorStep, Procs

-----------------------------------------------------------------------------
\* What a step of one process leaves alone

\* The other processes stand where they stood.
Rests(p) == \A q \in Procs \ {p} : pc'[q] = pc[q] /\ call'[q] = call[q]

\* The command is over, or has an error to record.
Stops(p) == pc'[p] \in {"idle", "fail", "refuse"}

LEMMA MoveFields ==
    ASSUME TypeOK, NEW p \in Procs
    PROVE  /\ \A step : Goto(p, step) =>
                /\ Rests(p) /\ pc'[p] = step /\ call'[p] = call[p]
           /\ \A step, c : GotoWith(p, step, c) =>
                Rests(p) /\ pc'[p] = step /\ call'[p] = c
           /\ Return(p) => Rests(p) /\ Stops(p)
           /\ Raise(p) => Rests(p) /\ Stops(p)
           /\ Refuse(p) => Rests(p) /\ Stops(p)
<1>1. ASSUME NEW step, Goto(p, step)
      PROVE  Rests(p) /\ pc'[p] = step /\ call'[p] = call[p]
  BY <1>1 DEF Goto, TypeOK, Rests
<1>2. ASSUME NEW step, NEW c, GotoWith(p, step, c)
      PROVE  Rests(p) /\ pc'[p] = step /\ call'[p] = c
  BY <1>2 DEF GotoWith, TypeOK, Rests
<1>3. Return(p) => Rests(p) /\ Stops(p)
  BY <1>2 DEF Return, Stops
<1>4. Goto(p, "fail") \/ Goto(p, "refuse") => Rests(p) /\ Stops(p)
  BY <1>1 DEF Stops
<1> QED BY <1>1, <1>2, <1>3, <1>4 DEF Raise, Refuse

\* Rows never disappear.
RowsStay ==
    /\ \A j \in Jobs : attempts[j] # "NONE" => attempts'[j] # "NONE"
    /\ current.job # 0 => current'.job # 0

LEMMA BaseStep ==
    ASSUME BaseInv, NEW p \in Procs, TypeOK', Rests(p), RowsStay,
           RowFits', CreatorsApart', CallFits(p)'
    PROVE  BaseInv'
<1>1. ASSUME NEW q \in Procs \ {p} PROVE CallFits(q)'
  BY DEF BaseInv, CallFits, Rests, RowsStay, HasRow
<1> QED BY <1>1 DEF BaseInv

LEMMA DirStep ==
    ASSUME BaseInv, NEW p \in Procs, TypeOK', Rests(p), CallFits(p)',
           pc'[p] \notin Creating, UNCHANGED <<current, attempts>>,
           \A j \in Jobs : dir'[j].made = dir[j].made
    PROVE  BaseInv'
<1>1. RowFits' /\ RowsStay
  BY DEF BaseInv, RowFits, RowsStay, HasRow
<1>2. CreatorsApart'
  BY DEF BaseInv, CreatorsApart, Rests
<1> QED BY <1>1, <1>2, BaseStep

LEMMA QuietStep ==
    ASSUME BaseInv, NEW p \in Procs, TypeOK', Rests(p), CallFits(p)',
           pc'[p] \notin Creating, UNCHANGED <<dir, current, attempts>>
    PROVE  BaseInv'
BY DirStep

(* What the writes to a job's directory change.                            *)
LEMMA MadeFields ==
    ASSUME TypeOK, NEW j \in Jobs, dir' = [dir EXCEPT ![j].made = TRUE]
    PROVE  /\ dir'[j].made
           /\ dir'[j].artifacts = dir[j].artifacts
           /\ dir'[j].completion = dir[j].completion
           /\ dir'[j].request = dir[j].request
           /\ dir'[j].owner = dir[j].owner
           /\ \A k \in Jobs \ {j} : dir'[k] = dir[k]
<1> DEFINE d == [dir[j] EXCEPT !.made = TRUE]
<1>1. dir[j] \in JobDir /\ dir' = [dir EXCEPT ![j] = d]
  BY DEF TypeOK
<1>2. /\ d.made /\ d.artifacts = dir[j].artifacts /\ d.request = dir[j].request
      /\ d.completion = dir[j].completion /\ d.owner = dir[j].owner
  BY <1>1 DEF JobDir
<1> QED BY <1>1, <1>2 DEF TypeOK

LEMMA RequestFields ==
    ASSUME TypeOK, NEW j \in Jobs,
           dir' = [dir EXCEPT ![j].request = TRUE,
                              ![j].status = "WAITING_EXTERNAL_CODEX"]
    PROVE  /\ dir'[j].request
           /\ dir'[j].made = dir[j].made
           /\ dir'[j].artifacts = dir[j].artifacts
           /\ dir'[j].completion = dir[j].completion
           /\ dir'[j].owner = dir[j].owner
           /\ \A k \in Jobs \ {j} : dir'[k] = dir[k]
<1> DEFINE d == [dir[j] EXCEPT !.request = TRUE,
                               !.status = "WAITING_EXTERNAL_CODEX"]
<1>1. dir[j] \in JobDir
  BY DEF TypeOK
<1>2. dir' = [dir EXCEPT ![j] = d]
  BY DEF TypeOK, JobDir
<1>3. /\ d.request /\ d.made = dir[j].made /\ d.artifacts = dir[j].artifacts
      /\ d.completion = dir[j].completion /\ d.owner = dir[j].owner
  BY <1>1 DEF JobDir
<1> QED BY <1>2, <1>3 DEF TypeOK

LEMMA MarkFields ==
    ASSUME TypeOK, NEW j \in Jobs, NEW p,
           dir' = [dir EXCEPT ![j].status = "RUNNING", ![j].owner = p]
    PROVE  /\ dir'[j].owner = p
           /\ dir'[j].made = dir[j].made
           /\ dir'[j].request = dir[j].request
           /\ dir'[j].artifacts = dir[j].artifacts
           /\ dir'[j].completion = dir[j].completion
           /\ \A k \in Jobs \ {j} : dir'[k] = dir[k]
<1> DEFINE d == [dir[j] EXCEPT !.status = "RUNNING", !.owner = p]
<1>1. dir[j] \in JobDir
  BY DEF TypeOK
<1>2. dir' = [dir EXCEPT ![j] = d]
  BY DEF TypeOK, JobDir
<1>3. /\ d.owner = p /\ d.made = dir[j].made /\ d.artifacts = dir[j].artifacts
      /\ d.completion = dir[j].completion /\ d.request = dir[j].request
  BY <1>1 DEF JobDir
<1> QED BY <1>2, <1>3 DEF TypeOK

LEMMA ArtifactFields ==
    ASSUME TypeOK, NEW j \in Jobs, dir' = [dir EXCEPT ![j].artifacts = TRUE]
    PROVE  /\ dir'[j].artifacts
           /\ dir'[j].made = dir[j].made
           /\ dir'[j].request = dir[j].request
           /\ dir'[j].completion = dir[j].completion
           /\ dir'[j].owner = dir[j].owner
           /\ \A k \in Jobs \ {j} : dir'[k] = dir[k]
<1> DEFINE d == [dir[j] EXCEPT !.artifacts = TRUE]
<1>1. dir[j] \in JobDir /\ dir' = [dir EXCEPT ![j] = d]
  BY DEF TypeOK
<1>2. /\ d.artifacts /\ d.made = dir[j].made /\ d.request = dir[j].request
      /\ d.completion = dir[j].completion /\ d.owner = dir[j].owner
  BY <1>1 DEF JobDir
<1> QED BY <1>1, <1>2 DEF TypeOK

LEMMA CompletionFields ==
    ASSUME TypeOK, NEW j \in Jobs, NEW result, NEW status,
           dir' = [dir EXCEPT ![j].completion = result, ![j].status = status,
                              ![j].owner = NoProc]
    PROVE  /\ dir'[j].completion = result
           /\ dir'[j].made = dir[j].made
           /\ dir'[j].request = dir[j].request
           /\ dir'[j].artifacts = dir[j].artifacts
           /\ dir'[j].owner = NoProc
           /\ \A k \in Jobs \ {j} : dir'[k] = dir[k]
<1> DEFINE d == [dir[j] EXCEPT !.completion = result, !.status = status,
                               !.owner = NoProc]
<1>1. dir[j] \in JobDir
  BY DEF TypeOK
<1>2. dir' = [dir EXCEPT ![j] = d]
  BY DEF TypeOK, JobDir
<1>3. /\ d.completion = result /\ d.made = dir[j].made /\ d.owner = NoProc
      /\ d.artifacts = dir[j].artifacts /\ d.request = dir[j].request
  BY <1>1 DEF JobDir
<1> QED BY <1>2, <1>3 DEF TypeOK

LEMMA CloseFields ==
    ASSUME TypeOK, NEW j \in Jobs, NEW status, CloseDir(j, status)
    PROVE  /\ dir'[j].artifacts
           /\ dir'[j].made = dir[j].made
           /\ dir'[j].request = dir[j].request
           /\ dir'[j].completion = dir[j].completion
           /\ dir'[j].owner = NoProc
           /\ \A k \in Jobs \ {j} : dir'[k] = dir[k]
<1> DEFINE d == [dir[j] EXCEPT !.artifacts = TRUE, !.status = status,
                               !.owner = NoProc]
<1>1. dir[j] \in JobDir
  BY DEF TypeOK
<1>2. dir' = [dir EXCEPT ![j] = d]
  BY DEF CloseDir, TypeOK, JobDir
<1>3. /\ d.artifacts /\ d.made = dir[j].made /\ d.owner = NoProc
      /\ d.completion = dir[j].completion /\ d.request = dir[j].request
  BY <1>1 DEF JobDir
<1> QED BY <1>2, <1>3 DEF TypeOK

(* What a process changes of what it remembers.                            *)
LEMMA CallFields ==
    ASSUME NEW c \in Calls, NEW v, NEW status, NEW result
    PROVE  /\ LET d == [c EXCEPT !.job = v] IN
                /\ d.job = v /\ d.op = c.op /\ d.marked = c.marked
                /\ d.status = c.status /\ d.result = c.result /\ d.from = c.from
           /\ LET d == [c EXCEPT !.op = v] IN
                /\ d.op = v /\ d.job = c.job /\ d.marked = c.marked
                /\ d.status = c.status /\ d.result = c.result /\ d.from = c.from
           /\ LET d == [c EXCEPT !.marked = v] IN
                /\ d.marked = v /\ d.job = c.job /\ d.op = c.op
                /\ d.status = c.status /\ d.result = c.result /\ d.from = c.from
           /\ LET d == [c EXCEPT !.status = status, !.result = result] IN
                /\ d.status = status /\ d.result = result
                /\ d.job = c.job /\ d.op = c.op /\ d.marked = c.marked
                /\ d.from = c.from
           /\ LET d == [c EXCEPT !.job = v, !.status = status] IN
                /\ d.job = v /\ d.status = status /\ d.result = c.result
                /\ d.op = c.op /\ d.marked = c.marked /\ d.from = c.from
           /\ LET d == [c EXCEPT !.job = v, !.status = status,
                                 !.result = result] IN
                /\ d.job = v /\ d.status = status /\ d.result = result
                /\ d.op = c.op /\ d.marked = c.marked /\ d.from = c.from
BY DEF Calls

LEMMA StopStep ==
    ASSUME BaseInv, NEW p \in Procs, TypeOK', Rests(p), Stops(p),
           UNCHANGED <<dir, current, attempts>>
    PROVE  BaseInv'
<1>1. CallFits(p)'
  BY DEF Stops, CallFits, Carrying, Executing
<1> QED BY <1>1, QuietStep DEF Stops, Creating

LEMMA SaveJobFields ==
    ASSUME TypeOK, NEW j \in Jobs, NEW status, NEW result,
           SaveJob(j, status, result)
    PROVE  /\ current'.job = j /\ current'.status = status
           /\ current'.result = result /\ attempts'[j] = status
           /\ \A k \in Jobs \ {j} : attempts'[k] = attempts[k]
BY DEF TypeOK, SaveJob

LEMMA RowStep ==
    ASSUME BaseInv, NEW p \in Procs, TypeOK', Rests(p), CallFits(p)',
           pc'[p] \notin Creating, UNCHANGED dir, NEW j, HasRow(j),
           NEW status \in ActiveStatuses \cup TerminalStatuses, NEW result,
           SaveJob(j, status, result)
    PROVE  BaseInv'
<1> USE JobAssumption
<1>1. /\ current'.job = j /\ current'.status = status
      /\ attempts'[j] = status /\ status # "NONE" /\ j # 0 /\ j \in Jobs
      /\ \A k \in Jobs \ {j} : attempts'[k] = attempts[k]
  BY SaveJobFields DEF BaseInv, HasRow, Jobs, ActiveStatuses,
     TerminalStatuses, CompletionOutcomes
<1>2. RowFits' /\ RowsStay
  BY <1>1 DEF BaseInv, RowFits, RowsStay, HasRow
<1>3. CreatorsApart'
  BY <1>1 DEF BaseInv, CreatorsApart, Rests, HasRow
<1> QED BY <1>2, <1>3, BaseStep

-----------------------------------------------------------------------------
\* Every step keeps the shape

LEMMA CreationKeepsBase ==
    ASSUME BaseInv, NEW p \in Procs,
           \/ Create(p) \/ Find(p) \/ Number(p) \/ MakeDir(p)
           \/ WriteRequest(p) \/ SaveCreated(p) \/ LinkJob(p)
           \/ RestartMaster(p)
    PROVE  BaseInv'
<1> USE JobAssumption
<1>t. TypeOK /\ TypeOK' /\ CallFits(p)
  BY CreationTyped DEF BaseInv
<1>1. CASE Create(p)
  <2>1. /\ Rests(p) /\ pc'[p] = "find"
        /\ call'[p] = [NoCall EXCEPT !.op = "create"]
    BY <1>1, <1>t, MoveFields DEF Create, Start
  <2>2. CallFits(p)'
    BY <2>1 DEF CallFits, NoCall, Carrying, Executing
  <2> QED BY <1>1, <1>t, <2>1, <2>2, QuietStep
          DEF Create, Start, registry, Creating
<1>2. CASE Find(p)
  <2>1. \/ Rests(p) /\ Stops(p)
        \/ /\ Rests(p) /\ pc'[p] = "number" /\ call'[p] = call[p]
        \/ Rests(p) /\ pc'[p] = "wait"
    BY <1>2, <1>t, MoveFields DEF Find
  <2>2. CallFits(p)'
    BY <1>2, <1>t, <2>1 DEF Find, CallFits, Carrying, Executing, Stops
  <2> QED BY <1>2, <1>t, <2>1, <2>2, QuietStep DEF Find, registry, Creating, Stops
<1>3. CASE Number(p)
  <2>1. \/ Rests(p) /\ Stops(p)
        \/ \E j \in Jobs : /\ Rests(p) /\ pc'[p] = "make"
                           /\ call'[p] = [call[p] EXCEPT !.job = j]
    <3>1. ASSUME NEW j \in Jobs, GotoWith(p, "make", [call[p] EXCEPT !.job = j])
          PROVE  /\ Rests(p) /\ pc'[p] = "make"
                 /\ call'[p] = [call[p] EXCEPT !.job = j]
      BY <1>t, <3>1, MoveFields
    <3> QED BY <1>3, <1>t, <3>1, MoveFields DEF Number
  <2>2. call[p] \in Calls
    BY <1>t DEF TypeOK
  <2>3. CallFits(p)'
    BY <1>3, <1>t, <2>1, <2>2
       DEF Number, CallFits, Carrying, Executing, Stops, Calls
  <2> QED BY <1>3, <1>t, <2>1, <2>3, QuietStep
          DEF Number, registry, Creating, Stops
<1>4. CASE MakeDir(p)
  <2>1. CASE dir[call[p].job].made
    BY <1>4, <1>t, <2>1, MoveFields, StopStep DEF MakeDir, registry
  <2>2. CASE ~dir[call[p].job].made
    <3>1. /\ Rests(p) /\ pc'[p] = "request" /\ call'[p] = call[p]
          /\ call[p].job \in Jobs
      BY <1>4, <1>t, <2>2, MoveFields DEF MakeDir, CallFits
    <3>2. CallFits(p)'
      BY <1>4, <1>t, <3>1 DEF MakeDir, CallFits, Carrying, Executing
    <3>3. RowFits' /\ RowsStay
      BY <1>4, <1>t DEF MakeDir, BaseInv, RowFits, RowsStay, HasRow, registry
    <3>4. /\ dir'[call[p].job].made
          /\ \A j \in Jobs : j # call[p].job => dir'[j] = dir[j]
      BY <1>4, <1>t, <2>2, <3>1, MadeFields DEF MakeDir
    <3>5. CreatorsApart'
      BY <1>4, <1>t, <2>2, <3>1, <3>4
         DEF MakeDir, BaseInv, CreatorsApart, Creating, Rests, registry
    <3> QED BY <1>t, <3>1, <3>2, <3>3, <3>5, BaseStep
  <2> QED BY <2>1, <2>2
<1>5. CASE WriteRequest(p)
  <2>1. /\ Rests(p) /\ pc'[p] = "save_job" /\ call'[p] = call[p]
        /\ call[p].job \in Jobs
    BY <1>5, <1>t, MoveFields
       DEF WriteRequest, BaseInv, CreatorsApart, Creating
  <2>2. CallFits(p)'
    BY <1>5, <1>t, <2>1 DEF WriteRequest, CallFits, Carrying, Executing
  <2>3. RowFits' /\ RowsStay
    BY <1>5, <1>t DEF WriteRequest, BaseInv, RowFits, RowsStay, HasRow, registry
  <2>4. \A j \in Jobs : dir'[j].made = dir[j].made
    BY <1>5, <1>t, <2>1, RequestFields DEF WriteRequest
  <2>5. CreatorsApart'
    <3>1. pc[p] \in Creating /\ attempts' = attempts
      BY <1>5 DEF WriteRequest, Creating, registry
    <3>2. ASSUME NEW q \in Procs, pc'[q] \in Creating
          PROVE  pc[q] \in Creating /\ call'[q] = call[q]
      BY <2>1, <3>1, <3>2 DEF Rests
    <3> QED BY <3>1, <3>2, <2>4 DEF BaseInv, CreatorsApart
  <2> QED BY <1>t, <2>1, <2>2, <2>3, <2>5, BaseStep
<1>6. CASE SaveCreated(p)
  <2>1. /\ Rests(p) /\ pc'[p] = "link" /\ call'[p] = call[p]
        /\ call[p].job \in Jobs /\ dir[call[p].job].made
    BY <1>6, <1>t, MoveFields DEF SaveCreated, BaseInv, CreatorsApart, Creating
  <2>2. /\ current'.job = call[p].job
        /\ current'.status = "WAITING_EXTERNAL_CODEX"
        /\ attempts'[call[p].job] = "WAITING_EXTERNAL_CODEX"
        /\ \A k \in Jobs \ {call[p].job} : attempts'[k] = attempts[k]
    BY <1>6, <1>t, <2>1, SaveJobFields DEF SaveCreated
  <2>3. CallFits(p)'
    BY <1>6, <1>t, <2>1 DEF SaveCreated, CallFits, Carrying, Executing
  <2>4. RowFits' /\ RowsStay
    BY <2>1, <2>2 DEF BaseInv, RowFits, RowsStay, HasRow, Jobs
  <2>5. CreatorsApart'
    <3>1. ASSUME NEW q \in Procs, pc'[q] \in Creating
          PROVE  /\ q # p /\ pc[q] \in Creating /\ call'[q] = call[q]
                 /\ call[q].job # call[p].job
      BY <1>6, <2>1, <3>1 DEF SaveCreated, BaseInv, CreatorsApart, Creating, Rests
    <3> QED BY <1>6, <2>1, <2>2, <3>1 DEF SaveCreated, BaseInv, CreatorsApart
  <2> QED BY <1>t, <2>1, <2>3, <2>4, <2>5, BaseStep
<1>7. CASE LinkJob(p)
  <2>1. Rests(p) /\ pc'[p] \in {"idle", "restart", "wait"}
    BY <1>7, <1>t, MoveFields
       DEF LinkJob, AfterCreate, CallFits, Return, NoCall
  <2>2. CallFits(p)'
    BY <2>1 DEF CallFits, Carrying, Executing
  <2> QED BY <1>7, <1>t, <2>1, <2>2, QuietStep DEF LinkJob, Creating
<1>8. CASE RestartMaster(p)
  BY <1>8, <1>t, MoveFields, StopStep DEF RestartMaster
<1> QED BY <1>1, <1>2, <1>3, <1>4, <1>5, <1>6, <1>7, <1>8

LEMMA ExecutionKeepsBase ==
    ASSUME BaseInv, NEW p \in Executors, ExecutorStep(p)
    PROVE  BaseInv'
<1> USE JobAssumption
<1>t. TypeOK /\ TypeOK' /\ CallFits(p) /\ p \in Procs /\ call[p] \in Calls
  BY ExecutionTyped DEF BaseInv, TypeOK, Procs
<1>r. ASSUME current.job # 0 PROVE HasRow(current.job)
  BY <1>r DEF BaseInv, RowFits
<1>a. ASSUME current.status \in ActiveStatuses PROVE current.job # 0
  BY <1>a DEF BaseInv, RowFits, ActiveStatuses
<1>1. CASE Run(p)
  <2>1. /\ Rests(p) /\ pc'[p] \in {"interrupt", "mark"}
        /\ call'[p].job = current.job
    <3> DEFINE step == IF dir[current.job].artifacts
                          /\ dir[current.job].completion = NoResult
                       THEN "interrupt" ELSE "mark"
               c == [NoCall EXCEPT !.op = "run", !.job = current.job]
    <3>1. GotoWith(p, step, c)
      BY <1>1 DEF Run
    <3>2. Rests(p) /\ pc'[p] = step /\ call'[p] = c
      BY <1>t, <3>1, MoveFields
    <3>3. c.job = current.job
      BY DEF NoCall
    <3> QED BY <3>2, <3>3
  <2>2. CallFits(p)'
    BY <1>1, <1>r, <2>1 DEF Run, CallFits, Carrying, Executing, HasRow, registry
  <2> QED BY <1>1, <1>t, <2>1, <2>2, QuietStep DEF Run, registry, Creating
<1>2. CASE Mark(p)
  <2>1. CASE ~MayRun
    BY <1>2, <1>t, <2>1, MoveFields, StopStep DEF Mark, registry
  <2>2. CASE MayRun
    <3>1. /\ Rests(p) /\ pc'[p] = "mark_row"
          /\ call'[p] = [call[p] EXCEPT !.marked = current.job]
          /\ current.job \in Jobs /\ HasRow(current.job)
      BY <1>2, <1>t, <1>r, <1>a, <2>2, MoveFields
         DEF Mark, MayRun, ActiveStatuses, HasRow
    <3>2. call'[p].job = call[p].job /\ call'[p].marked = current.job
      BY <1>t, <3>1 DEF Calls
    <3>3. CallFits(p)'
      BY <1>2, <1>t, <3>1, <3>2
         DEF Mark, CallFits, Carrying, Executing, HasRow, registry
    <3>4. \A j \in Jobs : dir'[j].made = dir[j].made
      BY <1>2, <1>t, <2>2, <3>1, MarkFields DEF Mark
    <3> QED BY <1>2, <1>t, <3>1, <3>3, <3>4, DirStep DEF Mark, registry, Creating
  <2> QED BY <2>1, <2>2
<1>3. CASE MarkRow(p)
  <2>1. Rests(p) /\ pc'[p] = "execute" /\ call'[p] = call[p]
    BY <1>3, <1>t, MoveFields DEF MarkRow
  <2>2. HasRow(call[p].marked) /\ HasRow(call[p].job)
    BY <1>3, <1>t DEF MarkRow, CallFits, Carrying, Executing
  <2>3. SaveJob(call[p].marked, "RUNNING", NoResult)
    BY <1>3 DEF MarkRow
  <2>4. CallFits(p)'
    <3>1. attempts'[call[p].job] # "NONE"
      BY <1>t, <2>2, <2>3, SaveJobFields DEF HasRow
    <3> QED BY <1>3, <1>t, <2>1, <2>2, <3>1
            DEF MarkRow, CallFits, Carrying, Executing, HasRow
  <2> QED BY <1>3, <1>t, <2>1, <2>2, <2>3, <2>4, RowStep
          DEF MarkRow, Creating, ActiveStatuses
<1>f. ASSUME NEW outcome \in CompletionOutcomes, Finish(p, outcome),
             HasRow(call[p].job), UNCHANGED attempts
      PROVE  Rests(p) /\ CallFits(p)' /\ pc'[p] = "finish_file"
  <2>1. /\ Rests(p) /\ pc'[p] = "finish_file"
        /\ call'[p].job = call[p].job /\ call'[p].status = outcome
    <3> DEFINE c == [call[p] EXCEPT !.status = outcome,
                       !.result = [outcome |-> outcome, maker |-> p]]
    <3>1. GotoWith(p, "finish_file", c)
      BY <1>f DEF Finish
    <3>2. c.job = call[p].job /\ c.status = outcome
      BY <1>t, CallFields
    <3> HIDE DEF c
    <3> QED BY <1>t, <3>1, <3>2, MoveFields
  <2> QED BY <1>f, <1>t, <2>1
          DEF CallFits, Carrying, Executing, HasRow
<1>4. CASE Execute(p)
  <2>1. HasRow(call[p].job)
    BY <1>4, <1>t DEF Execute, CallFits, Carrying, Executing
  <2>2. \A j \in Jobs : dir'[j].made = dir[j].made
    BY <1>4, <1>t, <2>1, ArtifactFields DEF Execute, HasRow
  <2>3. CASE Finish(p, "FAILED")
    BY <1>4, <1>t, <1>f, <2>1, <2>2, <2>3, DirStep
       DEF Execute, registry, CompletionOutcomes, Creating
  <2>4. CASE Goto(p, "codex")
    <3>1. Rests(p) /\ pc'[p] = "codex" /\ call'[p] = call[p]
      BY <1>t, <2>4, MoveFields
    <3>2. CallFits(p)'
      BY <1>4, <1>t, <2>1, <3>1
         DEF Execute, CallFits, Carrying, Executing, HasRow, registry
    <3> QED BY <1>4, <1>t, <2>2, <3>1, <3>2, DirStep
            DEF Execute, registry, Creating
  <2> QED BY <1>4, <2>3, <2>4 DEF Execute
<1>5. CASE Codex(p)
  <2>1. HasRow(call[p].job)
    BY <1>5, <1>t DEF Codex, CallFits, Carrying, Executing
  <2>2. CASE \E outcome \in CompletionOutcomes : Finish(p, outcome)
    BY <1>5, <1>t, <1>f, <2>1, <2>2, QuietStep DEF Codex, registry, Creating
  <2>3. CASE Goto(p, "abort")
    <3>1. Rests(p) /\ pc'[p] = "abort" /\ call'[p] = call[p]
      BY <1>t, <2>3, MoveFields
    <3>2. CallFits(p)'
      BY <1>5, <1>t, <2>1, <3>1
         DEF Codex, CallFits, Carrying, Executing, HasRow, registry
    <3> QED BY <1>5, <1>t, <3>1, <3>2, QuietStep DEF Codex, registry, Creating
  <2> QED BY <1>5, <2>2, <2>3 DEF Codex
<1>6. CASE FinishFile(p)
  <2>1. Rests(p) /\ pc'[p] = "signal" /\ call'[p] = call[p]
    BY <1>6, <1>t, MoveFields DEF FinishFile
  <2>2. HasRow(call[p].job) /\ CallFits(p)'
    BY <1>6, <1>t, <2>1
       DEF FinishFile, CallFits, Carrying, Executing, HasRow, registry
  <2>3. \A j \in Jobs : dir'[j].made = dir[j].made
    BY <1>6, <1>t, <2>2, CompletionFields DEF FinishFile, HasRow
  <2> QED BY <1>6, <1>t, <2>1, <2>2, <2>3, DirStep
          DEF FinishFile, registry, Creating
<1>7. CASE Signal(p)
  <2>1. Rests(p) /\ pc'[p] = "finish_row" /\ call'[p] = call[p]
    BY <1>7, <1>t, MoveFields DEF Signal
  <2>2. CallFits(p)'
    BY <1>7, <1>t, <2>1
       DEF Signal, CallFits, Carrying, Executing, HasRow, registry
  <2> QED BY <1>7, <1>t, <2>1, <2>2, QuietStep DEF Signal, registry, Creating
<1>8. CASE FinishRow(p)
  <2>1. Rests(p) /\ Stops(p)
    BY <1>8, <1>t, MoveFields DEF FinishRow
  <2>2. HasRow(call[p].job) /\ call[p].status \in TerminalStatuses
    BY <1>8, <1>t
       DEF FinishRow, CallFits, Carrying, Executing, TerminalStatuses
  <2>3. CallFits(p)'
    BY <2>1 DEF Stops, CallFits, Carrying, Executing
  <2> QED BY <1>8, <1>t, <2>1, <2>2, <2>3, RowStep
          DEF FinishRow, Stops, Creating
<1>9. CASE Abort(p)
  <2>1. CASE current.status \notin ActiveStatuses
    BY <1>9, <1>t, <2>1, MoveFields, StopStep DEF Abort, registry
  <2>2. CASE current.status \in ActiveStatuses
    <3>1. /\ Rests(p) /\ pc'[p] = "abort_row"
          /\ call'[p] = [call[p] EXCEPT !.marked = current.job]
          /\ current.job \in Jobs /\ HasRow(current.job)
      BY <1>9, <1>t, <1>r, <1>a, <2>2, MoveFields DEF Abort, HasRow
    <3>2. call'[p].job = call[p].job /\ call'[p].marked = current.job
      BY <1>t, <3>1 DEF Calls
    <3>3. CallFits(p)'
      BY <1>9, <1>t, <3>1, <3>2
         DEF Abort, CallFits, Carrying, Executing, HasRow, registry
    <3>4. \A j \in Jobs : dir'[j].made = dir[j].made
      BY <1>9, <1>t, <2>2, <3>1, CloseFields DEF Abort
    <3> QED BY <1>9, <1>t, <3>1, <3>3, <3>4, DirStep
            DEF Abort, registry, Creating
  <2> QED BY <2>1, <2>2
<1>10. CASE AbortRow(p)
  <2>1. Rests(p) /\ Stops(p)
    BY <1>10, <1>t, MoveFields DEF AbortRow
  <2>2. HasRow(call[p].marked)
    BY <1>10, <1>t DEF AbortRow, CallFits
  <2>3. CallFits(p)'
    BY <2>1 DEF Stops, CallFits, Carrying, Executing
  <2> QED BY <1>10, <1>t, <2>1, <2>2, <2>3, RowStep
          DEF AbortRow, Stops, Creating, TerminalStatuses
<1> QED BY <1>1, <1>2, <1>3, <1>4, <1>5, <1>6, <1>7, <1>8, <1>9, <1>10
        DEF ExecutorStep

LEMMA InterruptionKeepsBase ==
    ASSUME BaseInv, NEW p \in Procs, Retry(p) \/ InterruptStep(p) \/ Crash(p)
    PROVE  BaseInv'
<1> USE JobAssumption
<1>t. TypeOK /\ TypeOK' /\ CallFits(p) /\ call[p] \in Calls
  BY InterruptionTyped DEF BaseInv, TypeOK
<1>r. ASSUME current.status # "NONE"
      PROVE  HasRow(current.job) /\ current.job # 0
  BY <1>r DEF BaseInv, RowFits
<1>1. CASE Retry(p)
  <2>1. \/ GotoWith(p, "find", [NoCall EXCEPT !.op = "retry"])
        \/ /\ GotoWith(p, "interrupt", [NoCall EXCEPT !.op = "retry"])
           /\ current.status \in ActiveStatuses
    BY <1>1 DEF Retry
  <2>2. /\ Rests(p) /\ pc'[p] \in {"find", "interrupt"}
        /\ call'[p] = [NoCall EXCEPT !.op = "retry"]
        /\ pc'[p] = "interrupt" => current.status \in ActiveStatuses
    BY <1>t, <2>1, MoveFields
  <2>3. call'[p].op = "retry"
    BY <2>2 DEF NoCall
  <2>4. CallFits(p)'
    BY <1>1, <1>r, <2>2, <2>3
       DEF Retry, CallFits, Carrying, Executing, registry, ActiveStatuses
  <2> QED BY <1>1, <1>t, <2>2, <2>4, QuietStep DEF Retry, registry, Creating
<1>2. CASE Interrupt(p)
  <2>1. CASE ~Stale
    BY <1>2, <1>t, <2>1, MoveFields, StopStep DEF Interrupt, registry
  <2>2. CASE Stale
    <3>1. Rests(p) /\ pc'[p] = "load" /\ call'[p] = call[p]
      BY <1>2, <1>t, <2>2, MoveFields DEF Interrupt
    <3>2. CallFits(p)'
      BY <1>2, <1>t, <3>1
         DEF Interrupt, CallFits, Carrying, Executing, registry
    <3> QED BY <1>2, <1>t, <3>1, <3>2, QuietStep
            DEF Interrupt, registry, Creating
  <2> QED BY <2>1, <2>2
<1>6. CASE LoadStale(p)
  <2>1. GotoWith(p, "interrupt_file", [call[p] EXCEPT !.job = current.job])
    BY <1>6 DEF LoadStale
  <2>2. /\ Rests(p) /\ pc'[p] = "interrupt_file"
        /\ call'[p] = [call[p] EXCEPT !.job = current.job]
    BY <1>t, <2>1, MoveFields
  <2>3. call'[p].job = current.job
    BY <1>t, <2>2, CallFields
  <2>4. HasRow(current.job)
    BY <1>6, <1>t DEF LoadStale, CallFits, BaseInv, RowFits
  <2>5. CallFits(p)'
    BY <1>6, <2>2, <2>3, <2>4
       DEF LoadStale, CallFits, Carrying, Executing, registry, HasRow
  <2> QED BY <1>6, <1>t, <2>2, <2>5, QuietStep
          DEF LoadStale, registry, Creating
<1>3. CASE InterruptFile(p)
  <2>1. Rests(p) /\ pc'[p] = "interrupt_row" /\ call'[p] = call[p]
    BY <1>3, <1>t, MoveFields DEF InterruptFile
  <2>2. HasRow(call[p].job) /\ CallFits(p)'
    BY <1>3, <1>t, <2>1
       DEF InterruptFile, CallFits, Carrying, Executing, HasRow, registry
  <2>3. \A j \in Jobs : dir'[j].made = dir[j].made
    BY <1>3, <1>t, <2>2, CloseFields DEF InterruptFile, HasRow
  <2> QED BY <1>3, <1>t, <2>1, <2>2, <2>3, DirStep
          DEF InterruptFile, registry, Creating
<1>4. CASE InterruptRow(p)
  <2>1. /\ Rests(p) /\ pc'[p] \in {"find", "idle"}
        /\ pc'[p] = "find" => call'[p] = call[p] /\ call[p].op = "retry"
    BY <1>4, <1>t, MoveFields DEF InterruptRow, Return
  <2>2. HasRow(call[p].job)
    BY <1>4, <1>t DEF InterruptRow, CallFits, Carrying
  <2>3. CallFits(p)'
    BY <2>1 DEF CallFits, Carrying, Executing
  <2> QED BY <1>4, <1>t, <2>1, <2>2, <2>3, RowStep
          DEF InterruptRow, Creating, TerminalStatuses
<1>5. CASE Crash(p)
  BY <1>5, <1>t, MoveFields, StopStep DEF Crash, registry
<1> QED BY <1>1, <1>2, <1>3, <1>4, <1>5, <1>6 DEF InterruptStep

LEMMA ReconciliationKeepsBase ==
    ASSUME BaseInv, NEW p \in Procs,
           \/ Reconcile(p) \/ LoadTerminal(p) \/ ReconcileRow(p)
           \/ ReconcileMaster(p) \/ ReconcileEvent(p) \/ JournalResult(p)
    PROVE  BaseInv'
<1> USE JobAssumption
<1>t. TypeOK /\ TypeOK' /\ CallFits(p) /\ call[p] \in Calls
  BY ReconciliationTyped DEF BaseInv, TypeOK
<1>1. CASE Reconcile(p)
  <2>1. Rests(p) /\ pc'[p] = "reconcile"
    BY <1>1, <1>t, MoveFields DEF Reconcile, Start
  <2>2. CallFits(p)'
    BY <1>1, <2>1
       DEF Reconcile, Start, CallFits, Carrying, Executing, registry
  <2> QED BY <1>1, <1>t, <2>1, <2>2, QuietStep
          DEF Reconcile, Start, registry, Creating
<1>2. CASE LoadTerminal(p)
  <2> DEFINE done == dir[current.job].completion
  <2>r. HasRow(current.job)
    BY <1>2, <1>t DEF LoadTerminal, CallFits, BaseInv, RowFits
  <2>1. CASE Validated
    <3> DEFINE c == [call[p] EXCEPT !.job = current.job,
                                    !.status = done.outcome, !.result = done]
    <3>1. GotoWith(p, "reconcile_row", c)
      BY <1>2, <2>1 DEF LoadTerminal, Validated
    <3>2. c.job = current.job /\ c.status = done.outcome
      BY <1>t, CallFields
    <3>3. done.outcome \in TerminalStatuses
      <4>1. dir[current.job] \in JobDir
        BY <1>t, <2>r DEF TypeOK, HasRow
      <4>2. done \in Completion
        BY <4>1, <2>1 DEF JobDir, Validated
      <4> QED BY <4>2 DEF Completion, TerminalStatuses
    <3>4. /\ Rests(p) /\ pc'[p] = "reconcile_row"
          /\ call'[p].job = current.job /\ call'[p].status \in TerminalStatuses
      <4> HIDE DEF c
      <4> QED BY <1>t, <3>1, <3>2, <3>3, MoveFields
    <3>5. CallFits(p)'
      BY <1>2, <2>r, <3>4
         DEF LoadTerminal, CallFits, Carrying, Executing, HasRow, registry
    <3> QED BY <1>2, <1>t, <3>4, <3>5, QuietStep
            DEF LoadTerminal, registry, Creating
  <2>2. CASE /\ ~Validated
             /\ current.status \in {"INTERRUPTED", "ABORTED_BY_USER"}
             /\ done = NoResult
    <3> DEFINE c == [call[p] EXCEPT !.job = current.job,
                                    !.status = current.status]
    <3>1. GotoWith(p, "reconcile_row", c)
      BY <1>2, <2>2 DEF LoadTerminal
    <3>2. c.job = current.job /\ c.status = current.status
      BY <1>t, CallFields
    <3>3. /\ Rests(p) /\ pc'[p] = "reconcile_row"
          /\ call'[p].job = current.job /\ call'[p].status \in TerminalStatuses
      <4> HIDE DEF c
      <4> QED BY <1>t, <2>2, <3>1, <3>2, MoveFields DEF TerminalStatuses
    <3>4. CallFits(p)'
      BY <1>2, <2>r, <3>3
         DEF LoadTerminal, CallFits, Carrying, Executing, HasRow, registry
    <3> QED BY <1>2, <1>t, <3>3, <3>4, QuietStep
            DEF LoadTerminal, registry, Creating
  <2>3. CASE ~Validated /\ ~(/\ current.status \in {"INTERRUPTED", "ABORTED_BY_USER"}
                             /\ done = NoResult)
    <3>1. Raise(p)
      BY <1>2, <2>3 DEF LoadTerminal
    <3> QED BY <1>2, <1>t, <3>1, MoveFields, StopStep DEF LoadTerminal, registry
  <2> QED BY <2>1, <2>2, <2>3
<1>3. CASE ReconcileRow(p)
  <2>1. Rests(p) /\ pc'[p] = "reconcile_master" /\ call'[p] = call[p]
    BY <1>3, <1>t, MoveFields DEF ReconcileRow
  <2>2. HasRow(call[p].job) /\ call[p].status \in TerminalStatuses
    BY <1>3, <1>t DEF ReconcileRow, CallFits, Carrying
  <2> DEFINE status == IF Successful(call[p].result)
                         THEN "INGESTED" ELSE call[p].status
  <2>3. /\ SaveJob(call[p].job, status, call[p].result)
        /\ status \in TerminalStatuses
    BY <1>3, <2>2 DEF ReconcileRow, TerminalStatuses
  <2> HIDE DEF status
  <2>4. CallFits(p)'
    <3>1. attempts'[call[p].job] # "NONE"
      BY <1>t, <2>2, <2>3, SaveJobFields
         DEF HasRow, TerminalStatuses, CompletionOutcomes
    <3> QED BY <2>1, <2>2, <3>1 DEF CallFits, Carrying, Executing, HasRow
  <2> QED BY <1>3, <1>t, <2>1, <2>2, <2>3, <2>4, RowStep
          DEF ReconcileRow, Creating
<1>4. CASE ReconcileMaster(p)
  <2>1. Rests(p) /\ pc'[p] = "reconcile_event" /\ call'[p] = call[p]
    BY <1>4, <1>t, MoveFields DEF ReconcileMaster
  <2>2. CallFits(p)'
    BY <1>4, <1>t, <2>1
       DEF ReconcileMaster, CallFits, Carrying, Executing, HasRow
  <2> QED BY <1>4, <1>t, <2>1, <2>2, QuietStep DEF ReconcileMaster, Creating
<1>5. CASE ReconcileEvent(p)
  <2>1. \/ Rests(p) /\ Stops(p)
        \/ Rests(p) /\ pc'[p] = "adapter"
        \/ Rests(p) /\ pc'[p] = "journal" /\ call'[p] = call[p]
    BY <1>5, <1>t, MoveFields DEF ReconcileEvent, AfterReconcile
  <2>2. CallFits(p)'
    BY <1>5, <1>t, <2>1
       DEF ReconcileEvent, CallFits, Carrying, Executing, Stops, HasRow,
           registry
  <2> QED BY <1>5, <1>t, <2>1, <2>2, QuietStep
          DEF ReconcileEvent, Creating, Stops, registry
<1>6. CASE JournalResult(p)
  <2>1. \/ Rests(p) /\ Stops(p)
        \/ Rests(p) /\ pc'[p] = "adapter"
    BY <1>6, <1>t, MoveFields DEF JournalResult, AfterReconcile
  <2>2. CallFits(p)'
    BY <2>1 DEF CallFits, Carrying, Executing, Stops
  <2> QED BY <1>6, <1>t, <2>1, <2>2, QuietStep
          DEF JournalResult, Creating, Stops
<1> QED BY <1>1, <1>2, <1>3, <1>4, <1>5, <1>6

LEMMA IngestionKeepsBase ==
    ASSUME BaseInv, NEW p \in Procs,
           Ingest(p) \/ IngestRow(p) \/ IngestMaster(p) \/ IngestEvent(p)
    PROVE  BaseInv'
<1> USE JobAssumption
<1>t. TypeOK /\ TypeOK' /\ CallFits(p) /\ call[p] \in Calls
  BY IngestionTyped DEF BaseInv, TypeOK
<1>1. CASE Ingest(p)
  <2> DEFINE c == [NoCall EXCEPT !.op = "ingest", !.job = current.job,
                                 !.result = dir[current.job].completion]
  <2>1. GotoWith(p, "ingest_row", c) /\ HasRow(current.job)
    BY <1>1 DEF Ingest, Validated, BaseInv, RowFits
  <2>2. c.job = current.job
    BY DEF NoCall
  <2>3. Rests(p) /\ pc'[p] = "ingest_row" /\ call'[p].job = current.job
    <3> HIDE DEF c
    <3> QED BY <1>t, <2>1, <2>2, MoveFields
  <2>4. CallFits(p)'
    BY <1>1, <2>1, <2>3
       DEF Ingest, CallFits, Carrying, Executing, HasRow, registry
  <2> QED BY <1>1, <1>t, <2>3, <2>4, QuietStep DEF Ingest, registry, Creating
<1>2. CASE IngestRow(p)
  <2>1. Rests(p) /\ pc'[p] = "ingest_master" /\ call'[p] = call[p]
    BY <1>2, <1>t, MoveFields DEF IngestRow
  <2>2. HasRow(call[p].job) /\ SaveJob(call[p].job, "INGESTED", call[p].result)
    BY <1>2, <1>t DEF IngestRow, CallFits, Carrying
  <2>3. CallFits(p)'
    <3>1. attempts'[call[p].job] # "NONE"
      BY <1>t, <2>2, SaveJobFields DEF HasRow
    <3> QED BY <2>1, <2>2, <3>1 DEF CallFits, Carrying, Executing, HasRow
  <2> QED BY <1>2, <1>t, <2>1, <2>2, <2>3, RowStep
          DEF IngestRow, Creating, TerminalStatuses
<1>3. CASE IngestMaster(p)
  <2>1. Rests(p) /\ pc'[p] = "ingest_event" /\ call'[p] = call[p]
    BY <1>3, <1>t, MoveFields DEF IngestMaster
  <2>2. CallFits(p)'
    BY <1>3, <1>t, <2>1 DEF IngestMaster, CallFits, Carrying, Executing, HasRow
  <2> QED BY <1>3, <1>t, <2>1, <2>2, QuietStep DEF IngestMaster, Creating
<1>4. CASE IngestEvent(p)
  BY <1>4, <1>t, MoveFields, StopStep DEF IngestEvent
<1> QED BY <1>1, <1>2, <1>3, <1>4

LEMMA ResumptionKeepsBase ==
    ASSUME BaseInv, NEW p \in Procs,
           \/ Resume(p) \/ Inspect(p) \/ Wait(p) \/ Adapter(p)
           \/ EnterVerification(p) \/ FinishRun(p) \/ Fail(p)
    PROVE  BaseInv'
<1> USE JobAssumption
<1>t. TypeOK /\ TypeOK' /\ CallFits(p) /\ call[p] \in Calls
  BY ResumptionTyped DEF BaseInv, TypeOK
<1>q. UNCHANGED <<dir, current, attempts>>
  BY DEF Resume, Inspect, Wait, Adapter, EnterVerification, FinishRun, Fail,
         registry
<1>n. current.job = 0 => current.status = "NONE"
  BY DEF BaseInv, RowFits
<1>1. CASE Resume(p)
  <2> DEFINE c == [NoCall EXCEPT !.op = "resume", !.from = master.step]
  <2>1. /\ Rests(p) /\ pc'[p] \in {"refuse", "inspect", "technical"}
        /\ call'[p].op = "resume"
    <3>1. /\ \E step \in {"refuse", "inspect", "technical"} : GotoWith(p, step, c)
          /\ c.op = "resume"
      BY <1>1 DEF Resume, NoCall
    <3> HIDE DEF c
    <3> QED BY <1>t, <3>1, MoveFields
  <2>2. CallFits(p)'
    BY <2>1 DEF CallFits, Carrying, Executing
  <2> QED BY <1>t, <1>q, <2>1, <2>2, QuietStep DEF Creating
<1>2. CASE Inspect(p)
  <2>1. \/ Goto(p, "find") \/ Goto(p, "adapter")
        \/ Goto(p, "reconcile") /\ current.job # 0
        \/ GotoWith(p, "wait", [call[p] EXCEPT !.job = current.job])
        \/ /\ GotoWith(p, "reconcile", [call[p] EXCEPT !.op = "settle"])
           /\ current.job # 0
    <3> DEFINE A == current.job = 0 \/ current.status = "WAITING_EXTERNAL_CODEX"
    <3>1. CASE A
      BY <1>2, <3>1, <1>n DEF Inspect, TerminalStatuses, CompletionOutcomes
    <3>2. CASE ~A
      BY <1>2, <3>2 DEF Inspect, TerminalStatuses, CompletionOutcomes
    <3> QED BY <3>1, <3>2
  <2>2. /\ Rests(p) /\ pc'[p] \in {"find", "adapter", "reconcile", "wait"}
        /\ pc'[p] = "find" => call'[p] = call[p]
        /\ pc'[p] = "reconcile" => current.job # 0
    <3> DEFINE c == [call[p] EXCEPT !.job = current.job]
               d == [call[p] EXCEPT !.op = "settle"]
    <3>1. \/ Goto(p, "find") \/ Goto(p, "adapter")
          \/ Goto(p, "reconcile") /\ current.job # 0
          \/ GotoWith(p, "wait", c)
          \/ GotoWith(p, "reconcile", d) /\ current.job # 0
      BY <2>1
    <3> HIDE DEF c, d
    <3> QED BY <1>t, <3>1, MoveFields
  <2>3. CallFits(p)'
    <3>1. pc[p] = "inspect" /\ call[p].op \in {"create", "retry", "resume"}
      BY <1>2, <1>t DEF Inspect, CallFits
    <3> QED BY <1>q, <2>2, <3>1 DEF CallFits, Carrying, Executing
  <2> QED BY <1>t, <1>q, <2>2, <2>3, QuietStep DEF Creating
<1>3. CASE Wait(p)
  BY <1>3, <1>t, <1>q, MoveFields, StopStep DEF Wait
<1>4. CASE Adapter(p)
  <2>1. \/ Rests(p) /\ Stops(p)
        \/ Rests(p) /\ pc'[p] = "enter_verification"
    BY <1>4, <1>t, MoveFields DEF Adapter
  <2>2. CallFits(p)'
    BY <2>1 DEF CallFits, Carrying, Executing, Stops
  <2> QED BY <1>t, <1>q, <2>1, <2>2, QuietStep DEF Creating, Stops
<1>5. CASE EnterVerification(p)
  <2>1. \/ Rests(p) /\ Stops(p)
        \/ Rests(p) /\ pc'[p] = "technical"
    BY <1>5, <1>t, MoveFields DEF EnterVerification
  <2>2. CallFits(p)'
    BY <2>1 DEF CallFits, Carrying, Executing, Stops
  <2> QED BY <1>t, <1>q, <2>1, <2>2, QuietStep DEF Creating, Stops
<1>6. CASE FinishRun(p)
  BY <1>6, <1>t, <1>q, MoveFields, StopStep DEF FinishRun
<1>7. CASE Fail(p)
  BY <1>7, <1>t, <1>q, MoveFields, StopStep DEF Fail
<1> QED BY <1>1, <1>2, <1>3, <1>4, <1>5, <1>6, <1>7

LEMMA InitBase == Init => BaseInv
<1> USE JobAssumption
<1>1. SUFFICES ASSUME Init PROVE BaseInv
  OBVIOUS
<1>2. NoDir \in JobDir
  BY DEF NoDir, JobDir
<1>3. TypeOK
  BY <1>1, <1>2, NoCallTyped
     DEF Init, TypeOK, JobRow, MasterRow, MasterStep, MasterOutcome, Steps,
         Executing
<1>4. RowFits /\ CreatorsApart
  BY <1>1 DEF Init, RowFits, CreatorsApart, Creating
<1>5. \A p \in Procs : CallFits(p)
  BY <1>1 DEF Init, CallFits, Carrying, Executing
<1> QED BY <1>3, <1>4, <1>5 DEF BaseInv

LEMMA NextBase == BaseInv /\ [Next]_vars => BaseInv'
<1> SUFFICES ASSUME BaseInv, [Next]_vars PROVE BaseInv'
  OBVIOUS
<1>1. ASSUME NEW p \in Executors, ExecutorStep(p) PROVE BaseInv'
  BY <1>1, ExecutionKeepsBase
<1>2. ASSUME NEW p \in Operators, OperatorStep(p) PROVE BaseInv'
  BY <1>2, CreationKeepsBase, InterruptionKeepsBase, ReconciliationKeepsBase,
     IngestionKeepsBase, ResumptionKeepsBase DEF OperatorStep, Procs
<1>3. ASSUME NEW p \in Procs, InterruptStep(p) \/ Crash(p) PROVE BaseInv'
  BY <1>3, InterruptionKeepsBase
<1>4. CASE UNCHANGED vars
  BY <1>4 DEF vars, registry, outside, BaseInv, TypeOK, RowFits, CreatorsApart,
     CallFits, HasRow
<1> QED BY <1>1, <1>2, <1>3, <1>4 DEF Next

(* Files, rows and what processes remember keep their shape; a status is   *)
(* recorded only for a job that has a row, and a directory belongs to the  *)
(* one process that made it until its job has one.                         *)
THEOREM JobTyped == Spec => [](TypeOK /\ BaseInv)
<1>1. Spec => []BaseInv
  BY InitBase, NextBase, PTL DEF Spec
<1>2. BaseInv => TypeOK
  BY DEF BaseInv
<1> QED BY <1>1, <1>2, PTL

-----------------------------------------------------------------------------
\* Where a process goes, and which step took it there

LEMMA ExecutorMoves ==
    ASSUME TypeOK, NEW p \in Procs, ExecutorStep(p)
    PROVE  /\ Rests(p) /\ pc'[p] # "journal"
           /\ pc'[p] = "mark" => Run(p)
           /\ pc'[p] = "mark_row" => Mark(p)
           /\ pc'[p] = "execute" => MarkRow(p)
<1>c. call[p] \in Calls
  BY DEF TypeOK
<1>1. CASE Run(p)
  <2> DEFINE step == IF /\ dir[current.job].artifacts
                        /\ dir[current.job].completion = NoResult
                       THEN "interrupt" ELSE "mark"
             c == [NoCall EXCEPT !.op = "run", !.job = current.job]
  <2>1. GotoWith(p, step, c) /\ step \in {"interrupt", "mark"}
    BY <1>1 DEF Run
  <2> HIDE DEF step, c
  <2> QED BY <1>1, <2>1, MoveFields
<1>2. CASE Mark(p)
  <2> DEFINE c == [call[p] EXCEPT !.marked = current.job]
  <2>1. GotoWith(p, "mark_row", c) \/ Raise(p)
    BY <1>2 DEF Mark
  <2> HIDE DEF c
  <2> QED BY <1>2, <2>1, MoveFields DEF Stops
<1>3. ASSUME NEW outcome, Finish(p, outcome)
      PROVE  Rests(p) /\ pc'[p] = "finish_file"
  <2> DEFINE c == [call[p] EXCEPT !.status = outcome,
                     !.result = [outcome |-> outcome, maker |-> p]]
  <2>1. GotoWith(p, "finish_file", c)
    BY <1>3 DEF Finish
  <2> HIDE DEF c
  <2> QED BY <2>1, MoveFields
<1>4. CASE Execute(p) \/ Codex(p)
  BY <1>3, <1>4, MoveFields DEF Execute, Codex
<1>5. CASE Abort(p)
  <2> DEFINE c == [call[p] EXCEPT !.marked = current.job]
  <2>1. GotoWith(p, "abort_row", c) \/ Raise(p)
    BY <1>5 DEF Abort
  <2> HIDE DEF c
  <2> QED BY <2>1, MoveFields DEF Stops
<1>6. CASE MarkRow(p) \/ FinishFile(p) \/ Signal(p) \/ FinishRow(p)
           \/ AbortRow(p)
  BY <1>6, MoveFields DEF MarkRow, FinishFile, Signal, FinishRow, AbortRow,
     Stops
<1> QED BY <1>1, <1>2, <1>4, <1>5, <1>6 DEF ExecutorStep

LEMMA InterruptMoves ==
    ASSUME TypeOK, NEW p \in Procs, InterruptStep(p) \/ Crash(p)
    PROVE  /\ Rests(p)
           /\ pc'[p] \notin {"mark", "mark_row", "execute", "journal"}
<1>1. CASE LoadStale(p)
  <2> DEFINE c == [call[p] EXCEPT !.job = current.job]
  <2>1. GotoWith(p, "interrupt_file", c)
    BY <1>1 DEF LoadStale
  <2> HIDE DEF c
  <2> QED BY <2>1, MoveFields
<1> QED BY <1>1, MoveFields
        DEF InterruptStep, Interrupt, InterruptFile, InterruptRow, Crash, Stops

\* Nothing but an executor's step makes a process mark or execute a job.
LEMMA OtherMoves ==
    ASSUME BaseInv, NEW p \in Procs,
           OperatorStep(p) \/ InterruptStep(p) \/ Crash(p)
    PROVE  /\ Rests(p) /\ pc'[p] \notin {"mark", "mark_row", "execute"}
           /\ pc'[p] = "journal" =>
                /\ call'[p] = call[p] /\ UNCHANGED journal
                /\ ~Journalled(Reconciled(call[p]))
<1>t. TypeOK /\ CallFits(p)
  BY DEF BaseInv
<1> DEFINE Elsewhere == {"idle", "find", "number", "make", "request",
             "save_job", "link", "restart", "interrupt", "load",
             "interrupt_file", "interrupt_row", "reconcile", "reconcile_row",
             "reconcile_master", "reconcile_event", "ingest_row",
             "ingest_master", "ingest_event", "inspect", "wait", "adapter",
             "enter_verification", "technical", "refuse", "fail"}
<1>s. ASSUME Stops(p) PROVE pc'[p] \in Elsewhere
  BY <1>s DEF Stops
<1>g. ASSUME NEW step \in Elsewhere, NEW c, GotoWith(p, step, c)
      PROVE  Rests(p) /\ pc'[p] \in Elsewhere
  BY <1>g, <1>t, MoveFields
<1>n. ASSUME Rests(p), pc'[p] \in Elsewhere
      PROVE  Rests(p) /\ pc'[p] \notin {"mark", "mark_row", "execute", "journal"}
  BY <1>n
<1>1. CASE Create(p) \/ Reconcile(p)
  BY <1>1, <1>g, <1>n DEF Create, Reconcile, Start
<1>2. CASE Retry(p) \/ Ingest(p) \/ Resume(p)
  BY <1>2, <1>g, <1>n DEF Retry, Ingest, Resume
<1>3. CASE Find(p) \/ Number(p)
  BY <1>3, <1>t, <1>g, <1>n, <1>s, MoveFields DEF Find, Number
<1>4. CASE MakeDir(p) \/ WriteRequest(p) \/ SaveCreated(p) \/ RestartMaster(p)
  BY <1>4, <1>t, <1>n, <1>s, MoveFields
     DEF MakeDir, WriteRequest, SaveCreated, RestartMaster
<1>5. CASE LinkJob(p)
  BY <1>5, <1>t, <1>n, <1>s, MoveFields DEF LinkJob, AfterCreate, CallFits
<1>6. CASE LoadTerminal(p)
  <2> DEFINE done == dir[current.job].completion
             c == [call[p] EXCEPT !.job = current.job,
                     !.status = done.outcome, !.result = done]
             d == [call[p] EXCEPT !.job = current.job,
                                  !.status = current.status]
  <2>1. \/ GotoWith(p, "reconcile_row", c) \/ GotoWith(p, "reconcile_row", d)
        \/ Raise(p)
    BY <1>6 DEF LoadTerminal, Validated
  <2> HIDE DEF c, d
  <2> QED BY <2>1, <1>t, <1>g, <1>n, <1>s, MoveFields
<1>7. CASE ReconcileRow(p) \/ ReconcileMaster(p) \/ IngestRow(p)
           \/ IngestMaster(p) \/ IngestEvent(p)
  BY <1>7, <1>t, <1>n, <1>s, MoveFields
     DEF ReconcileRow, ReconcileMaster, IngestRow, IngestMaster, IngestEvent
<1>8. CASE ReconcileEvent(p) \/ JournalResult(p)
  <2>1. \/ /\ Goto(p, "journal") /\ ~Journalled(Reconciled(call[p]))
           /\ UNCHANGED registry
        \/ Goto(p, "adapter") \/ Return(p) \/ Raise(p)
    BY <1>8 DEF ReconcileEvent, JournalResult, AfterReconcile
  <2> QED BY <2>1, <1>t, <1>n, <1>s, MoveFields DEF registry
<1>9. CASE Inspect(p)
  <2> DEFINE c == [call[p] EXCEPT !.job = current.job]
             d == [call[p] EXCEPT !.op = "settle"]
  <2>1. \/ Goto(p, "find") \/ Goto(p, "adapter") \/ Goto(p, "reconcile")
        \/ GotoWith(p, "wait", c) \/ GotoWith(p, "reconcile", d)
    BY <1>9 DEF Inspect
  <2> HIDE DEF c, d
  <2> QED BY <2>1, <1>t, <1>g, <1>n, <1>s, MoveFields
<1>10. CASE Wait(p) \/ Adapter(p) \/ EnterVerification(p) \/ FinishRun(p)
            \/ Fail(p)
  BY <1>10, <1>t, <1>n, <1>s, MoveFields
     DEF Wait, Adapter, EnterVerification, FinishRun, Fail
<1>11. CASE InterruptStep(p) \/ Crash(p)
  BY <1>11, <1>t, InterruptMoves
<1> QED BY <1>1, <1>2, <1>3, <1>4, <1>5, <1>6, <1>7, <1>8, <1>9, <1>10, <1>11
        DEF OperatorStep

-----------------------------------------------------------------------------
\* One operator: a result is journalled once

OneOperator == \A p, q \in Operators : p = q

(* Who is about to journal a result has not found it.                      *)
OnceInv ==
    /\ BaseInv
    /\ ReconciledOnce
    /\ \A p \in Procs : pc[p] = "journal" =>
         p \in Operators /\ ~Journalled(Reconciled(call[p]))

LEMMA JournalSteps ==
    ASSUME Next
    PROVE  \/ journal' = journal
           \/ \E p \in Operators :
                \/ /\ pc[p] = "journal"
                   /\ journal' = Append(journal, Reconciled(call[p]))
                \/ \E e : /\ e.event = "INGESTED"
                          /\ journal' = Append(journal, e)
<1>1. ASSUME NEW p \in Executors, ExecutorStep(p) PROVE journal' = journal
  BY <1>1 DEF ExecutorStep, Run, Mark, MarkRow, Execute, Codex, FinishFile,
     Signal, FinishRow, Abort, AbortRow, registry
<1>2. ASSUME NEW p \in Procs, InterruptStep(p) \/ Crash(p)
      PROVE  journal' = journal
  BY <1>2 DEF InterruptStep, Interrupt, LoadStale, InterruptFile, InterruptRow,
     Crash, registry
<1>3. ASSUME NEW p \in Operators, OperatorStep(p),
             ~JournalResult(p), ~IngestEvent(p)
      PROVE  journal' = journal
  BY <1>3 DEF OperatorStep, Create, Start, Retry, Reconcile, Ingest, Resume,
     Find, Number, MakeDir, WriteRequest, SaveCreated, LinkJob, RestartMaster,
     LoadTerminal, ReconcileRow, ReconcileMaster, ReconcileEvent, IngestRow,
     IngestMaster, Inspect, Wait, Adapter, EnterVerification, FinishRun, Fail,
     registry
<1>4. ASSUME NEW p, JournalResult(p)
      PROVE  /\ pc[p] = "journal"
             /\ journal' = Append(journal, Reconciled(call[p]))
  BY <1>4 DEF JournalResult
<1>5. ASSUME NEW p, IngestEvent(p)
      PROVE  \E e : e.event = "INGESTED" /\ journal' = Append(journal, e)
  <2> DEFINE e == [event |-> "INGESTED", job |-> call[p].job,
                   status |-> "INGESTED", result |-> call[p].result]
  <2>1. e.event = "INGESTED" /\ journal' = Append(journal, e)
    BY <1>5 DEF IngestEvent
  <2> QED BY <2>1
<1> QED BY <1>1, <1>2, <1>3, <1>4, <1>5 DEF Next

LEMMA AppendKeepsOnce ==
    ASSUME TypeOK, ReconciledOnce, NEW e, journal' = Append(journal, e),
           e.event = "RECONCILED" => ~Journalled(e)
    PROVE  ReconciledOnce'
<1>s. journal \in Seq(Event)
  BY DEF TypeOK
<1>1. /\ DOMAIN journal = 1..Len(journal) /\ Len(journal) \in Nat
      /\ DOMAIN journal' = 1..(Len(journal) + 1)
      /\ \A i \in 1..Len(journal) : journal'[i] = journal[i]
      /\ journal'[Len(journal) + 1] = e
  BY <1>s
<1>2. \A i \in 1..Len(journal) : e.event = "RECONCILED" => journal[i] # e
  BY <1>1 DEF Journalled
<1>3. \A i \in 1..(Len(journal) + 1) :
        i \in 1..Len(journal) \/ i = Len(journal) + 1
  BY <1>1
<1> SUFFICES ASSUME NEW i \in 1..(Len(journal) + 1),
                    NEW k \in 1..(Len(journal) + 1),
                    journal'[i] = journal'[k],
                    journal'[i].event = "RECONCILED"
             PROVE  i = k
  BY <1>1 DEF ReconciledOnce
<1>4. CASE i \in 1..Len(journal) /\ k \in 1..Len(journal)
  BY <1>1, <1>4 DEF ReconciledOnce
<1>5. CASE i = Len(journal) + 1 /\ k \in 1..Len(journal)
  BY <1>1, <1>2, <1>5
<1>6. CASE k = Len(journal) + 1 /\ i \in 1..Len(journal)
  BY <1>1, <1>2, <1>6
<1> QED BY <1>3, <1>4, <1>5, <1>6

LEMMA NextOnce ==
    ASSUME OneOperator, OnceInv, BaseInv', Next PROVE OnceInv'
<1>t. BaseInv /\ TypeOK
  BY DEF OnceInv, BaseInv
<1>1. ReconciledOnce'
  <2>1. CASE journal' = journal
    BY <2>1 DEF OnceInv, ReconciledOnce
  <2>2. ASSUME NEW p \in Operators, pc[p] = "journal",
               journal' = Append(journal, Reconciled(call[p]))
        PROVE  ReconciledOnce'
    <3>1. ~Journalled(Reconciled(call[p]))
      BY <2>2 DEF OnceInv, Procs
    <3> QED BY <1>t, <2>2, <3>1, AppendKeepsOnce DEF OnceInv
  <2>3. ASSUME NEW e, e.event = "INGESTED", journal' = Append(journal, e)
        PROVE  ReconciledOnce'
    BY <1>t, <2>3, AppendKeepsOnce DEF OnceInv
  <2> QED BY <2>1, <2>2, <2>3, JournalSteps
<1>2. ASSUME NEW q \in Procs, Rests(q), q \in Operators \/ journal' = journal,
             pc'[q] = "journal" =>
               /\ q \in Operators /\ journal' = journal /\ call'[q] = call[q]
               /\ ~Journalled(Reconciled(call[q])),
             NEW p \in Procs, pc'[p] = "journal"
      PROVE  (p \in Operators /\ ~Journalled(Reconciled(call[p])))'
  <2>1. CASE p = q
    BY <1>2, <2>1 DEF Journalled, Reconciled
  <2>2. CASE p # q
    <3>1. /\ pc[p] = "journal" /\ call'[p] = call[p] /\ p \in Operators
          /\ ~Journalled(Reconciled(call[p]))
      BY <1>2, <2>2 DEF OnceInv, Rests
    <3>2. journal' = journal
      BY <1>2, <2>2, <3>1 DEF OneOperator
    <3> QED BY <3>1, <3>2 DEF Journalled, Reconciled
  <2> QED BY <2>1, <2>2
<1>3. ASSUME NEW q \in Executors, ExecutorStep(q),
             NEW p \in Procs, pc'[p] = "journal"
      PROVE  (p \in Operators /\ ~Journalled(Reconciled(call[p])))'
  <2>1. journal' = journal
    BY <1>3 DEF ExecutorStep, Run, Mark, MarkRow, Execute, Codex, FinishFile,
       Signal, FinishRow, Abort, AbortRow, registry
  <2> QED BY <1>2, <1>3, <1>t, <2>1, ExecutorMoves DEF Procs
<1>4. ASSUME NEW q \in Operators, OperatorStep(q),
             NEW p \in Procs, pc'[p] = "journal"
      PROVE  (p \in Operators /\ ~Journalled(Reconciled(call[p])))'
  BY <1>2, <1>4, <1>t, OtherMoves DEF Procs
<1>5. ASSUME NEW q \in Procs, InterruptStep(q) \/ Crash(q),
             NEW p \in Procs, pc'[p] = "journal"
      PROVE  (p \in Operators /\ ~Journalled(Reconciled(call[p])))'
  <2>1. journal' = journal
    BY <1>5 DEF InterruptStep, Interrupt, LoadStale, InterruptFile,
       InterruptRow, Crash, registry
  <2>2. Rests(q) /\ pc'[q] # "journal"
    BY <1>5, <1>t, InterruptMoves
  <2> QED BY <1>2, <1>5, <2>1, <2>2
<1> QED BY <1>1, <1>3, <1>4, <1>5 DEF OnceInv, Next

(* However often the one operator at a time reconciles a job, and wherever *)
(* it or an executor dies, each of its results is journalled as reconciled *)
(* at most once.                                                           *)
THEOREM JobReconciledOnce == ASSUME OneOperator PROVE Spec => []ReconciledOnce
<1>1. Init => OnceInv
  BY InitBase DEF Init, ReconciledOnce, OnceInv
<1>2. OnceInv /\ BaseInv' /\ [Next]_vars => OnceInv'
  <2>1. ASSUME OnceInv, BaseInv', UNCHANGED vars PROVE OnceInv'
    BY <2>1 DEF vars, registry, OnceInv, ReconciledOnce, Journalled, Reconciled
  <2> QED BY <2>1, NextOnce
<1>3. OnceInv => ReconciledOnce
  BY DEF OnceInv
<1> QED BY <1>1, <1>2, <1>3, JobTyped, PTL DEF Spec

-----------------------------------------------------------------------------
\* One executor, any operators: Codex runs once

OneExecutor == \A p, q \in Executors : p = q

\* The job is the current one and `codex-executor run` takes it.
Offered(j) == current.job = j /\ current.status = "WAITING_EXTERNAL_CODEX"

\* It was taken, or closed: it is never offered again.
Spent(j) == HasRow(j) /\ ~Offered(j)

(* What was executed is spent; what the executor has in hand was not.      *)
UsedInv ==
    /\ BaseInv
    /\ \A j \in Jobs : executions[j] <= 1 /\ (executions[j] > 0 => Spent(j))
    /\ \A p \in Executors :
         /\ pc[p] \in {"mark", "mark_row", "execute"} =>
              executions[call[p].job] = 0
         /\ pc[p] = "execute" => Spent(call[p].job)

\* Only a new job is offered.
LEMMA SpentStays ==
    ASSUME BaseInv, BaseInv', Next PROVE \A j \in Jobs : Spent(j) => Spent(j)'
<1> USE JobAssumption
<1>t. TypeOK /\ \A p \in Procs : CallFits(p)
  BY DEF BaseInv
<1>s. ASSUME NEW k \in Jobs, NEW status \in ActiveStatuses \cup TerminalStatuses,
             NEW result, SaveJob(k, status, result),
             status = "WAITING_EXTERNAL_CODEX" => attempts[k] = "NONE"
      PROVE  \A j \in Jobs : Spent(j) => Spent(j)'
  <2>1. /\ current'.job = k /\ current'.status = status /\ attempts'[k] = status
        /\ \A i \in Jobs \ {k} : attempts'[i] = attempts[i]
    BY <1>s, <1>t, SaveJobFields
  <2>2. status # "NONE"
    BY DEF ActiveStatuses, TerminalStatuses, CompletionOutcomes
  <2> QED BY <1>s, <2>1, <2>2 DEF Spent, HasRow, Offered
<1>n. ASSUME UNCHANGED <<current, attempts>>
      PROVE  \A j \in Jobs : Spent(j) => Spent(j)'
  BY <1>n DEF Spent, HasRow, Offered
<1>1. ASSUME NEW p \in Executors, ExecutorStep(p)
      PROVE  \A j \in Jobs : Spent(j) => Spent(j)'
  <2>1. CASE MarkRow(p) \/ FinishRow(p) \/ AbortRow(p)
    <3>1. CallFits(p)
      BY <1>t DEF Procs
    <3> QED BY <1>s, <2>1, <3>1
            DEF MarkRow, FinishRow, AbortRow, CallFits, Carrying, Executing,
                HasRow, ActiveStatuses, TerminalStatuses, CompletionOutcomes
  <2> QED BY <1>1, <1>n, <2>1
          DEF ExecutorStep, Run, Mark, Execute, Codex, FinishFile, Signal,
              Abort, registry
<1>2. ASSUME NEW p \in Operators, OperatorStep(p)
      PROVE  \A j \in Jobs : Spent(j) => Spent(j)'
  <2>0. CallFits(p) /\ p \in Procs
    BY <1>t DEF Procs
  <2>1. CASE SaveCreated(p)
    BY <1>s, <2>0, <2>1
       DEF SaveCreated, BaseInv, CreatorsApart, Creating, ActiveStatuses
  <2>2. CASE ReconcileRow(p)
    <3> DEFINE status == IF Successful(call[p].result)
                           THEN "INGESTED" ELSE call[p].status
    <3>1. /\ SaveJob(call[p].job, status, call[p].result)
          /\ status \in TerminalStatuses /\ call[p].job \in Jobs
      BY <2>0, <2>2 DEF ReconcileRow, CallFits, Carrying, HasRow, TerminalStatuses
    <3> HIDE DEF status
    <3> QED BY <1>s, <3>1 DEF TerminalStatuses, CompletionOutcomes
  <2>3. CASE IngestRow(p)
    BY <1>s, <2>0, <2>3 DEF IngestRow, CallFits, Carrying, HasRow, TerminalStatuses
  <2> QED BY <1>2, <1>n, <2>1, <2>2, <2>3
          DEF OperatorStep, Create, Start, Retry, Reconcile, Ingest, Resume,
              Find, Number, MakeDir, WriteRequest, LinkJob, RestartMaster,
              LoadTerminal, ReconcileMaster, ReconcileEvent, JournalResult,
              IngestMaster, IngestEvent, Inspect, Wait, Adapter,
              EnterVerification, FinishRun, Fail, registry
<1>3. ASSUME NEW p \in Procs, InterruptStep(p) \/ Crash(p)
      PROVE  \A j \in Jobs : Spent(j) => Spent(j)'
  <2>1. CASE InterruptRow(p)
    BY <1>s, <1>t, <2>1
       DEF InterruptRow, CallFits, Carrying, HasRow, TerminalStatuses
  <2> QED BY <1>3, <1>n, <2>1
          DEF InterruptStep, Interrupt, LoadStale, InterruptFile, Crash, registry
<1> QED BY <1>1, <1>2, <1>3 DEF Next

LEMMA NextUsed ==
    ASSUME OneExecutor, UsedInv, BaseInv', Next PROVE UsedInv'
<1>t. BaseInv /\ TypeOK /\ \A p \in Procs : CallFits(p) /\ call[p] \in Calls
  BY DEF UsedInv, BaseInv, TypeOK
<1>s. \A j \in Jobs : Spent(j) => Spent(j)'
  BY <1>t, SpentStays
<1>1. ASSUME NEW p \in Procs, Rests(p), UNCHANGED executions,
             p \in Executors =>
               pc'[p] \notin {"mark", "mark_row", "execute"}
      PROVE  UsedInv'
  <2>1. ASSUME NEW q \in Executors
        PROVE  /\ pc'[q] \in {"mark", "mark_row", "execute"} =>
                    executions[call'[q].job] = 0
               /\ pc'[q] = "execute" => Spent(call[q].job)'
    <3>1. CASE q = p
      BY <1>1, <3>1
    <3>2. CASE q # p
      <4>1. pc'[q] = pc[q] /\ call'[q] = call[q] /\ CallFits(q)
        BY <1>1, <1>t, <3>2 DEF Rests, Procs
      <4>2. pc[q] = "execute" => call[q].job \in Jobs
        BY <4>1 DEF CallFits, Carrying, Executing, HasRow
      <4> QED BY <1>s, <4>1, <4>2 DEF UsedInv
    <3> QED BY <3>1, <3>2
  <2> QED BY <1>1, <1>s, <2>1 DEF UsedInv
<1>2. ASSUME NEW p \in Operators, OperatorStep(p) PROVE UsedInv'
  <2>1. UNCHANGED executions
    BY <1>2 DEF OperatorStep, Create, Start, Retry, Reconcile, Ingest, Resume,
       Find, Number, MakeDir, WriteRequest, SaveCreated, LinkJob, RestartMaster,
       LoadTerminal, ReconcileRow, ReconcileMaster, ReconcileEvent,
       JournalResult, IngestRow, IngestMaster, IngestEvent, Inspect, Wait,
       Adapter, EnterVerification, FinishRun, Fail, outside
  <2> QED BY <1>1, <1>2, <1>t, <2>1, OtherMoves DEF Procs
<1>3. ASSUME NEW p \in Procs, InterruptStep(p) \/ Crash(p) PROVE UsedInv'
  <2>1. UNCHANGED executions
    BY <1>3 DEF InterruptStep, Interrupt, LoadStale, InterruptFile,
       InterruptRow, Crash, outside
  <2> QED BY <1>1, <1>3, <1>t, <2>1, OtherMoves
<1>4. ASSUME NEW p \in Executors, ExecutorStep(p) PROVE UsedInv'
  <2>t. p \in Procs /\ CallFits(p) /\ \A q \in Executors : q = p
    BY <1>t DEF Procs, OneExecutor
  <2> DEFINE j == call[p].job
  <2>m. /\ Rests(p)
        /\ pc'[p] = "mark" => Run(p)
        /\ pc'[p] = "mark_row" => Mark(p)
        /\ pc'[p] = "execute" => MarkRow(p)
    BY <1>4, <1>t, <2>t, ExecutorMoves
  <2>1. CASE UNCHANGED executions
    <3>j. ASSUME pc[p] \in {"mark", "mark_row"}
          PROVE  j \in Jobs /\ HasRow(j) /\ executions[j] = 0
      BY <3>j, <2>t DEF UsedInv, CallFits, Carrying, Executing, HasRow
    <3>1. CASE Run(p)
      <4> DEFINE step == IF /\ dir[current.job].artifacts
                            /\ dir[current.job].completion = NoResult
                           THEN "interrupt" ELSE "mark"
                 c == [NoCall EXCEPT !.op = "run", !.job = current.job]
      <4>1. GotoWith(p, step, c) /\ c.job = current.job
            /\ step \in {"interrupt", "mark"}
        BY <3>1 DEF Run, NoCall
      <4>2. pc'[p] \in {"interrupt", "mark"} /\ call'[p].job = current.job
        <5> HIDE DEF c, step
        <5> QED BY <1>t, <2>t, <4>1, MoveFields
      <4>3. Offered(current.job) /\ current.job \in Jobs
        BY <3>1, <1>t DEF Run, MayRun, Offered, BaseInv, RowFits, HasRow
      <4>4. executions[current.job] = 0
        BY <1>t, <4>3 DEF UsedInv, Spent, TypeOK
      <4> QED BY <2>1, <2>t, <1>s, <4>2, <4>4 DEF UsedInv
    <3>2. CASE Mark(p) /\ pc'[p] = "mark_row"
      <4> DEFINE c == [call[p] EXCEPT !.marked = current.job]
      <4>1. (GotoWith(p, "mark_row", c) \/ Raise(p)) /\ c.job = j
            /\ pc[p] = "mark"
        BY <3>2, <1>t, <2>t, CallFields DEF Mark
      <4>2. call'[p].job = j
        <5> HIDE DEF c
        <5> QED BY <1>t, <2>t, <3>2, <4>1, MoveFields DEF Stops
      <4> QED BY <2>1, <2>t, <1>s, <3>2, <3>j, <4>1, <4>2 DEF UsedInv
    <3>3. CASE MarkRow(p)
      <4> DEFINE k == call[p].marked
      <4>1. /\ pc[p] = "mark_row" /\ pc'[p] = "execute" /\ call'[p] = call[p]
            /\ k \in Jobs
        BY <3>3, <1>t, <2>t, MoveFields DEF MarkRow, CallFits, HasRow
      <4>2. /\ current'.job = k /\ current'.status = "RUNNING"
            /\ attempts'[k] = "RUNNING"
            /\ \A i \in Jobs \ {k} : attempts'[i] = attempts[i]
        BY <3>3, <1>t, <4>1, SaveJobFields DEF MarkRow
      <4>3. Spent(j)'
        BY <3>j, <4>1, <4>2 DEF Spent, HasRow, Offered
      <4> QED BY <2>1, <2>t, <1>s, <3>j, <4>1, <4>3 DEF UsedInv
    <3> QED BY <1>1, <2>1, <2>m, <2>t, <3>1, <3>2, <3>3
  <2>2. CASE executions' # executions
    <3>1. /\ Execute(p) /\ pc[p] = "execute" /\ pc'[p] = "codex"
          /\ executions' = [executions EXCEPT ![j] = @ + 1]
      BY <1>4, <2>2, <1>t, <2>t, MoveFields
         DEF ExecutorStep, Run, Mark, MarkRow, Execute, Codex, FinishFile,
             Signal, FinishRow, Abort, AbortRow, outside
    <3>2. PICK k \in Jobs : k = j
      BY <2>t, <3>1 DEF CallFits, Carrying, Executing, HasRow
    <3>3. executions[k] = 0 /\ Spent(k)'
      BY <1>s, <3>1, <3>2 DEF UsedInv
    <3>4. \A i \in Jobs : executions'[i] = IF i = k THEN 1 ELSE executions[i]
      BY <1>t, <3>1, <3>2, <3>3 DEF TypeOK
    <3>5. \A i \in Jobs : executions'[i] <= 1 /\ (executions'[i] > 0 => Spent(i)')
      BY <1>s, <3>3, <3>4 DEF UsedInv
    <3> QED BY <2>t, <3>1, <3>5 DEF UsedInv
  <2> QED BY <2>1, <2>2
<1> QED BY <1>2, <1>3, <1>4 DEF Next

(* With one executor, however many operators give its jobs up beside it    *)
(* and wherever any of them dies, Codex is started at most once for a job. *)
THEOREM LoneExecutorRunsOnce ==
    ASSUME OneExecutor PROVE Spec => []OneExecutionPerJob
<1>1. Init => UsedInv
  <2> SUFFICES ASSUME Init PROVE UsedInv
    OBVIOUS
  <2>1. /\ \A j \in Jobs : executions[j] = 0
        /\ \A p \in Executors : pc[p] = "idle"
    BY DEF Init, Procs
  <2> QED BY <2>1, InitBase DEF UsedInv
<1>2. UsedInv /\ BaseInv' /\ [Next]_vars => UsedInv'
  <2>1. ASSUME UsedInv, BaseInv', UNCHANGED vars PROVE UsedInv'
    BY <2>1 DEF vars, registry, outside, UsedInv, Spent, HasRow, Offered
  <2> QED BY <2>1, NextUsed
<1>3. UsedInv => OneExecutionPerJob
  BY DEF UsedInv, OneExecutionPerJob
<1> QED BY <1>1, <1>2, <1>3, JobTyped, PTL DEF Spec

-----------------------------------------------------------------------------
\* One executor and one operator

Engaging == {"mark", "mark_row", "execute", "codex"}

\* The executor has the job, and Codex has not ended.
Engaged(p, j) == pc[p] \in Engaging /\ call[p].job = j

Spending == {"execute", "codex", "finish_file", "signal", "finish_row"}

(* What Codex leaves is found only at a spent job.                         *)
JobUsed(j) ==
    /\ executions[j] > 0 => Spent(j)
    /\ dir[j].completion # NoResult => Spent(j)
    /\ dir[j].artifacts => HasRow(j)
    /\ executions[j] <= 1

(* Until Codex starts the job is untouched, and until it ends the job is   *)
(* open and, while it is the run's current one, names its executor.        *)
ExecutorSafe(p) ==
    /\ pc[p] \in {"mark", "mark_row", "execute"} =>
         executions[call[p].job] = 0 /\ ~dir[call[p].job].artifacts
    /\ pc[p] \in Engaging =>
         /\ dir[call[p].job].completion = NoResult
         /\ attempts[call[p].job] \in ActiveStatuses
    /\ pc[p] = "mark_row" =>
         /\ current.job = call[p].job => call[p].marked = call[p].job
         /\ call[p].marked = call[p].job => dir[call[p].job].owner = p
    /\ pc[p] \in {"execute", "codex"} /\ current.job = call[p].job =>
         dir[call[p].job].owner = p
    /\ pc[p] \in Spending => Spent(call[p].job)

(* Who is about to close a job knows that no executor has it: an operator  *)
(* has seen what one left behind, or the job is spent.                     *)
ClosesTheLeft(p) ==
    /\ pc[p] \in {"interrupt_file", "interrupt_row"} =>
         /\ \/ p \in Executors
            \/ dir[call[p].job].artifacts
            \/ Spent(call[p].job)
         /\ \A q \in Executors : ~Engaged(q, call[p].job)
    /\ pc[p] \in {"reconcile_row", "ingest_row"} =>
         /\ Spent(call[p].job)
         /\ \A q \in Executors : ~Engaged(q, call[p].job)

WorkInv ==
    /\ BaseInv
    /\ \A j \in Jobs : JobUsed(j)
    /\ \A p \in Executors : ExecutorSafe(p)
    /\ \A p \in Procs : ClosesTheLeft(p)

\* A process is going to give the run a new job in place of its current one.
Opening(p) ==
    \/ pc[p] \in {"number", "make", "request", "save_job"}
    \/ pc[p] = "find" /\ call[p].op = "retry"

\* The executor has not said yet how the job ended.
Busy == {"mark", "mark_row", "execute", "codex", "abort", "finish_file"}

\* A process is about to close the row of a job.
Closing ==
    {"load", "interrupt_file", "interrupt_row", "reconcile_row", "ingest_row"}

\* The steps of a process that runs no operator's command.
ExecutorSteps ==
    Executing \cup {"idle", "mark", "interrupt", "load", "interrupt_file",
                    "interrupt_row"}

Fresh(j) == Offered(j) /\ ~dir[j].artifacts

Won == current.job # 0 /\ Successful(dir[current.job].completion)

RowsFollow ==
    \A j \in Jobs : attempts[j] # "NONE" => current.job # 0 /\ dir[j].request

(* What a row says of success, the completion says.                        *)
RowTells(j) ==
    /\ attempts[j] = "INGESTED" => Successful(dir[j].completion)
    /\ attempts[j] \in RetryableStatuses => ~Successful(dir[j].completion)

RoleFits(p) ==
    p \notin Operators =>
      pc[p] \in ExecutorSteps /\ call[p].op \in {"none", "run"}

(* While the executor is busy with the current job nobody replaces it or   *)
(* closes it.                                                              *)
BusyFits(p) ==
    pc[p] \in Busy =>
      /\ call[p].job = current.job
      /\ current.status \in ActiveStatuses
      /\ dir[current.job].completion = NoResult
      /\ pc[p] # "mark" => dir[current.job].owner = p
      /\ pc[p] = "mark_row" => call[p].marked = current.job
      /\ \A q \in Procs \ {p} : ~Opening(q) /\ pc[q] \notin Closing

(* Who lags behind, with the row of a job that was replaced, lags behind   *)
(* one that was not started.                                               *)
LagFits(p) ==
    /\ /\ pc[p] \in {"signal", "finish_row", "interrupt_file", "interrupt_row"}
       /\ call[p].job # current.job
       => Fresh(current.job)
    /\ pc[p] = "abort_row" /\ call[p].marked # current.job =>
         Fresh(current.job)

OutcomeFits(p) ==
    /\ pc[p] \in {"finish_file", "signal", "finish_row"} =>
         call[p].result.outcome = call[p].status
    /\ pc[p] \in {"signal", "finish_row"} =>
         dir[call[p].job].completion = call[p].result
    /\ pc[p] = "load" =>
         /\ dir[current.job].completion = NoResult
         /\ p \notin Executors => ~Fresh(current.job)
    /\ pc[p] \in {"interrupt_file", "interrupt_row"} =>
         /\ dir[call[p].job].completion = NoResult
         /\ p \notin Executors => call[p].job = current.job

(* A job is replaced when it was spent in vain.                            *)
OpeningFits(p) ==
    /\ Opening(p) /\ current.job # 0 => Spent(current.job) /\ ~Won
    /\ pc[p] = "save_job" => dir[call[p].job].request

RecordFits(p) ==
    /\ pc[p] \in {"inspect", "reconcile"} => call[p].result = NoResult
    /\ pc[p] = "reconcile_row" =>
         /\ call[p].job = current.job
         /\ IF call[p].result = NoResult
              THEN call[p].status \in {"INTERRUPTED", "ABORTED_BY_USER"} /\ ~Won
              ELSE /\ call[p].result = dir[current.job].completion
                   /\ call[p].status = call[p].result.outcome
    /\ pc[p] = "ingest_row" => call[p].job = current.job /\ Won
    /\ pc[p] \in {"reconcile_master", "reconcile_event", "journal"}
       /\ Successful(call[p].result) => Won
    /\ pc[p] \in {"adapter", "enter_verification", "technical"} => Won

Fits(p) ==
    /\ RoleFits(p) /\ BusyFits(p) /\ LagFits(p)
    /\ OutcomeFits(p) /\ OpeningFits(p) /\ RecordFits(p)

SuccessInv ==
    /\ RowsFollow
    /\ \A j \in Jobs : RowTells(j)
    /\ \A p \in Procs : Fits(p)
    /\ VerificationHasSuccess

\* A step that takes no job in hand and leaves the files and rows alone.
LEMMA WorkQuiet ==
    ASSUME WorkInv, NEW p \in Procs, BaseInv', Rests(p),
           UNCHANGED <<dir, current, attempts, executions>>,
           pc'[p] \notin Engaging \cup Spending, ClosesTheLeft(p)'
    PROVE  WorkInv'
<1>1. ASSUME NEW j \in Jobs PROVE JobUsed(j)'
  BY DEF WorkInv, JobUsed, Spent, HasRow, Offered
<1>2. ASSUME NEW q \in Executors PROVE ExecutorSafe(q)'
  <2>1. CASE q = p
    BY <2>1 DEF ExecutorSafe, Engaging, Spending
  <2>2. CASE q # p
    BY <2>2 DEF WorkInv, ExecutorSafe, Rests, Spent, HasRow, Offered, Procs
  <2> QED BY <2>1, <2>2
<1>3. ASSUME NEW q \in Procs PROVE ClosesTheLeft(q)'
  <2>1. ASSUME q # p PROVE ClosesTheLeft(q)'
    <3>1. ASSUME NEW e \in Executors, NEW j, Engaged(e, j)'
          PROVE  Engaged(e, j)
      BY <3>1 DEF Engaged, Rests, Procs
    <3> QED BY <2>1, <3>1
            DEF WorkInv, ClosesTheLeft, Rests, Spent, HasRow, Offered
  <2> QED BY <2>1
<1> QED BY <1>1, <1>2, <1>3 DEF WorkInv

LEMMA WorkStop ==
    ASSUME WorkInv, NEW p \in Procs, BaseInv', Rests(p), Stops(p),
           UNCHANGED <<dir, current, attempts, executions>>
    PROVE  WorkInv'
BY WorkQuiet DEF Stops, ClosesTheLeft, Engaging, Spending

\* The row of a job that no executor has is closed.
LEMMA WorkRow ==
    ASSUME OneExecutor, WorkInv, NEW p \in Procs, BaseInv', Rests(p),
           UNCHANGED <<dir, executions>>, NEW j, HasRow(j),
           NEW status \in TerminalStatuses, NEW result,
           SaveJob(j, status, result),
           \A q \in Executors \ {p} : ~Engaged(q, j),
           pc'[p] \notin Engaging \cup Spending, ClosesTheLeft(p)'
    PROVE  WorkInv'
<1>1. /\ current'.job = j /\ current'.status = status
      /\ attempts'[j] = status /\ j \in Jobs /\ status # "NONE"
      /\ status # "WAITING_EXTERNAL_CODEX"
      /\ \A k \in Jobs \ {j} : attempts'[k] = attempts[k]
  BY SaveJobFields DEF WorkInv, BaseInv, HasRow, TerminalStatuses,
     CompletionOutcomes
<1>2. \A k : (HasRow(k) => HasRow(k)') /\ (Spent(k) => Spent(k)')
  BY <1>1 DEF Spent, HasRow, Offered
<1>3. ASSUME NEW k \in Jobs PROVE JobUsed(k)'
  BY <1>2 DEF WorkInv, JobUsed
<1>4. ASSUME NEW q \in Executors PROVE ExecutorSafe(q)'
  <2>1. CASE q = p
    BY <2>1 DEF ExecutorSafe, Engaging, Spending
  <2>2. CASE q # p
    <3>1. /\ ExecutorSafe(q) /\ pc'[q] = pc[q] /\ call'[q] = call[q]
          /\ q \in Procs /\ ~Engaged(q, j)
      BY <2>2 DEF WorkInv, Rests, Procs
    <3>2. ASSUME pc[q] \in Engaging
          PROVE  call[q].job \in Jobs /\ call[q].job # j
      BY <3>1, <3>2
         DEF Engaged, WorkInv, BaseInv, CallFits, Carrying, HasRow, Engaging,
             Executing
    <3> QED BY <1>1, <1>2, <3>1, <3>2 DEF ExecutorSafe, Engaging
  <2> QED BY <2>1, <2>2
<1>5. ASSUME NEW q \in Procs PROVE ClosesTheLeft(q)'
  <2>1. ASSUME q # p PROVE ClosesTheLeft(q)'
    <3>1. ASSUME NEW e \in Executors, NEW k, Engaged(e, k)'
          PROVE  Engaged(e, k)
      BY <3>1 DEF Engaged, Rests, Procs
    <3> QED BY <1>2, <2>1, <3>1 DEF WorkInv, ClosesTheLeft, Rests
  <2> QED BY <2>1
<1> QED BY <1>3, <1>4, <1>5 DEF WorkInv

LEMMA CreationKeepsWork ==
    ASSUME OneExecutor, WorkInv, NEW p \in Procs, BaseInv',
           \/ Create(p) \/ Find(p) \/ Number(p) \/ MakeDir(p)
           \/ WriteRequest(p) \/ SaveCreated(p) \/ LinkJob(p)
           \/ RestartMaster(p)
    PROVE  WorkInv'
<1> USE JobAssumption
<1>t. BaseInv /\ TypeOK /\ CallFits(p)
  BY DEF WorkInv, BaseInv
<1>1. CASE Create(p)
  <2>1. Rests(p) /\ pc'[p] = "find"
    BY <1>1, <1>t, MoveFields DEF Create, Start
  <2> QED BY <1>1, <2>1, WorkQuiet
          DEF Create, Start, registry, outside, Engaging, Spending, ClosesTheLeft
<1>2. CASE Find(p)
  <2>1. Rests(p) /\ pc'[p] \in {"number", "wait", "idle", "fail", "refuse"}
    BY <1>2, <1>t, MoveFields DEF Find, Stops
  <2> QED BY <1>2, <2>1, WorkQuiet
          DEF Find, registry, outside, Engaging, Spending, ClosesTheLeft
<1>3. CASE Number(p)
  <2>1. ASSUME NEW j \in Jobs, GotoWith(p, "make", [call[p] EXCEPT !.job = j])
        PROVE  Rests(p) /\ pc'[p] = "make"
    BY <1>t, <2>1, MoveFields
  <2>2. Rests(p) /\ pc'[p] \in {"make", "idle", "fail", "refuse"}
    BY <1>3, <1>t, <2>1, MoveFields DEF Number, Stops
  <2> QED BY <1>3, <2>2, WorkQuiet
          DEF Number, registry, outside, Engaging, Spending, ClosesTheLeft
<1>4. CASE MakeDir(p) \/ WriteRequest(p)
  <2> DEFINE j == call[p].job
  <2>1. CASE Rests(p) /\ Stops(p) /\ UNCHANGED dir
    BY <1>4, <2>1, WorkStop DEF MakeDir, WriteRequest, registry, outside
  <2>2. CASE ~(Rests(p) /\ Stops(p) /\ UNCHANGED dir)
    <3>1. /\ Rests(p) /\ pc'[p] \in {"request", "save_job"} /\ j \in Jobs
          /\ UNCHANGED <<current, attempts, executions>>
      BY <1>4, <1>t, <2>2, MoveFields
         DEF MakeDir, WriteRequest, registry, outside, CallFits, BaseInv,
             CreatorsApart, Creating
    <3>2. \A k \in Jobs :
            /\ dir'[k].completion = dir[k].completion
            /\ dir'[k].artifacts = dir[k].artifacts
            /\ dir'[k].owner = dir[k].owner
      BY <1>4, <1>t, <2>2, <3>1, MadeFields, RequestFields
         DEF MakeDir, WriteRequest
    <3>3. ASSUME NEW k \in Jobs PROVE JobUsed(k)'
      BY <3>1, <3>2 DEF WorkInv, JobUsed, Spent, HasRow, Offered
    <3>4. ASSUME NEW q \in Executors PROVE ExecutorSafe(q)'
      <4>1. CASE q = p
        BY <3>1, <4>1 DEF ExecutorSafe, Engaging, Spending
      <4>2. CASE q # p
        <5>1. /\ ExecutorSafe(q) /\ pc'[q] = pc[q] /\ call'[q] = call[q]
              /\ pc[q] \in Engaging \cup Spending => call[q].job \in Jobs
          BY <3>1, <4>2
             DEF WorkInv, Rests, Procs, BaseInv, CallFits, Carrying, HasRow,
                 Engaging, Spending, Executing
        <5> QED BY <3>1, <3>2, <5>1
                DEF ExecutorSafe, Spent, HasRow, Offered, Engaging, Spending
      <4> QED BY <4>1, <4>2
    <3>5. ASSUME NEW q \in Procs PROVE ClosesTheLeft(q)'
      <4>1. CASE q = p
        BY <3>1, <4>1 DEF ClosesTheLeft
      <4>2. CASE q # p
        <5>1. ASSUME NEW e \in Executors, NEW k, Engaged(e, k)'
              PROVE  Engaged(e, k)
          BY <3>1, <5>1 DEF Engaged, Rests, Procs, Engaging
        <5>2. /\ ClosesTheLeft(q) /\ pc'[q] = pc[q] /\ call'[q] = call[q]
              /\ pc[q] \in {"interrupt_file", "interrupt_row"} =>
                   call[q].job \in Jobs
          BY <3>1, <4>2
             DEF WorkInv, Rests, BaseInv, CallFits, Carrying, HasRow
        <5> QED BY <3>1, <3>2, <5>1, <5>2
                DEF ClosesTheLeft, Spent, HasRow, Offered
      <4> QED BY <4>1, <4>2
    <3> QED BY <3>3, <3>4, <3>5 DEF WorkInv
  <2> QED BY <2>1, <2>2
<1>5. CASE SaveCreated(p)
  <2> DEFINE j == call[p].job
  <2>1. /\ Rests(p) /\ pc'[p] = "link" /\ j \in Jobs /\ ~HasRow(j)
        /\ UNCHANGED <<dir, executions>>
    BY <1>5, <1>t, MoveFields
       DEF SaveCreated, outside, BaseInv, CreatorsApart, Creating, HasRow
  <2>2. /\ current'.job = j
        /\ attempts'[j] = "WAITING_EXTERNAL_CODEX"
        /\ \A k \in Jobs \ {j} : attempts'[k] = attempts[k]
    BY <1>5, <1>t, <2>1, SaveJobFields DEF SaveCreated
  <2>3. \A k : (HasRow(k) => HasRow(k)') /\ (Spent(k) => Spent(k)')
    BY <2>1, <2>2 DEF Spent, HasRow, Offered
  <2>4. ASSUME NEW k \in Jobs PROVE JobUsed(k)'
    BY <2>1, <2>3 DEF WorkInv, JobUsed
  <2>5. ASSUME NEW q \in Executors PROVE ExecutorSafe(q)'
    <3>1. CASE q = p
      BY <2>1, <3>1 DEF ExecutorSafe, Engaging, Spending
    <3>2. CASE q # p
      <4>1. /\ ExecutorSafe(q) /\ pc'[q] = pc[q] /\ call'[q] = call[q]
            /\ pc[q] \in Engaging =>
                 HasRow(call[q].job) /\ call[q].job # j /\ call[q].job \in Jobs
        BY <2>1, <3>2
           DEF WorkInv, Rests, Procs, BaseInv, CallFits, Carrying, Engaging,
               Executing, HasRow
      <4> QED BY <2>1, <2>2, <2>3, <4>1 DEF ExecutorSafe, Engaging
    <3> QED BY <3>1, <3>2
  <2>6. ASSUME NEW q \in Procs PROVE ClosesTheLeft(q)'
    <3>1. CASE q = p
      BY <2>1, <3>1 DEF ClosesTheLeft
    <3>2. CASE q # p
      <4>1. ASSUME NEW e \in Executors, NEW k, Engaged(e, k)'
            PROVE  Engaged(e, k)
        BY <2>1, <4>1 DEF Engaged, Rests, Procs, Engaging
      <4> QED BY <2>1, <2>3, <3>2, <4>1 DEF WorkInv, ClosesTheLeft, Rests
    <3> QED BY <3>1, <3>2
  <2> QED BY <2>4, <2>5, <2>6 DEF WorkInv
<1>6. CASE LinkJob(p)
  <2>1. Rests(p) /\ pc'[p] \in {"idle", "restart", "wait"}
    BY <1>6, <1>t, MoveFields
       DEF LinkJob, AfterCreate, CallFits, Return, NoCall
  <2> QED BY <1>6, <2>1, WorkQuiet
          DEF LinkJob, outside, Engaging, Spending, ClosesTheLeft
<1>7. CASE RestartMaster(p)
  BY <1>7, <1>t, MoveFields, WorkStop DEF RestartMaster, outside
<1> QED BY <1>1, <1>2, <1>3, <1>4, <1>5, <1>6, <1>7

LEMMA ExecutionKeepsWork ==
    ASSUME OneExecutor, WorkInv, NEW p \in Executors, BaseInv', ExecutorStep(p)
    PROVE  WorkInv'
<1> USE JobAssumption
<1>t. /\ BaseInv /\ TypeOK /\ CallFits(p) /\ p \in Procs /\ call[p] \in Calls
      /\ ExecutorSafe(p) /\ \A q \in Executors : q = p
  BY DEF WorkInv, BaseInv, Procs, OneExecutor, TypeOK
<1> DEFINE j == call[p].job
<1>j. ASSUME pc[p] \in Engaging \cup Spending PROVE HasRow(j) /\ j \in Jobs
  BY <1>j, <1>t DEF CallFits, Carrying, Executing, Engaging, Spending, HasRow
<1>r. ASSUME MayRun \/ current.status \in ActiveStatuses
      PROVE  /\ current.job \in Jobs /\ HasRow(current.job)
             /\ attempts[current.job] = current.status
  BY <1>r, <1>t DEF BaseInv, RowFits, MayRun, ActiveStatuses, HasRow
<1>c. ASSUME Rests(p), NEW q \in Procs, q # p
      PROVE  pc'[q] = pc[q] /\ call'[q] = call[q] /\ ClosesTheLeft(q)
  BY <1>c DEF Rests, WorkInv
<1>1. CASE Run(p)
  <2> DEFINE d == dir[current.job]
             step == IF d.artifacts /\ d.completion = NoResult
                       THEN "interrupt" ELSE "mark"
             c == [NoCall EXCEPT !.op = "run", !.job = current.job]
  <2>1. GotoWith(p, step, c) /\ c.job = current.job
    BY <1>1 DEF Run, NoCall
  <2>2. Rests(p) /\ pc'[p] = step /\ call'[p].job = current.job
    <3> HIDE DEF c, step
    <3> QED BY <1>t, <2>1, MoveFields
  <2>3. MayRun /\ UNCHANGED <<dir, current, attempts, executions>>
    BY <1>1 DEF Run, registry, outside
  <2>4. CASE d.artifacts /\ d.completion = NoResult
    <3>1. pc'[p] \notin Engaging \cup Spending /\ ClosesTheLeft(p)'
      BY <2>2, <2>4 DEF Engaging, Spending, ClosesTheLeft
    <3> QED BY <1>t, <2>2, <2>3, <3>1, WorkQuiet
  <2>5. CASE ~(d.artifacts /\ d.completion = NoResult)
    <3>1. /\ ~Spent(current.job) /\ JobUsed(current.job)
          /\ executions[current.job] \in Nat
      BY <1>r, <1>t, <2>3 DEF Spent, Offered, MayRun, WorkInv, TypeOK
    <3>2. d.completion = NoResult /\ ~d.artifacts /\ executions[current.job] = 0
      BY <2>5, <3>1 DEF JobUsed
    <3>3. ASSUME NEW k \in Jobs PROVE JobUsed(k)'
      BY <2>3 DEF WorkInv, JobUsed, Spent, HasRow, Offered
    <3>4. ExecutorSafe(p)'
      BY <1>r, <2>2, <2>3, <2>5, <3>2
         DEF ExecutorSafe, Engaging, Spending, MayRun, ActiveStatuses
    <3>5. ASSUME NEW q \in Procs PROVE ClosesTheLeft(q)'
      <4>1. CASE q = p
        BY <2>2, <2>5, <4>1 DEF ClosesTheLeft
      <4>2. CASE q # p
        <5>1. ASSUME pc[q] \in {"interrupt_file", "interrupt_row",
                                "reconcile_row", "ingest_row"}
              PROVE  call[q].job # current.job
          BY <1>c, <1>t, <2>2, <3>1, <3>2, <4>2, <5>1 DEF ClosesTheLeft
        <5>2. ASSUME NEW k, Engaged(p, k)' PROVE k = current.job
          BY <2>2, <5>2 DEF Engaged
        <5>3. ASSUME pc[q] \in {"interrupt_file", "interrupt_row",
                                "reconcile_row", "ingest_row"},
                     NEW e \in Executors
              PROVE  ~Engaged(e, call[q].job)'
          BY <1>c, <1>t, <2>2, <4>2, <5>1, <5>2, <5>3
        <5> QED BY <1>c, <2>2, <2>3, <4>2, <5>3
                DEF ClosesTheLeft, Spent, HasRow, Offered
      <4> QED BY <4>1, <4>2
    <3> QED BY <1>t, <3>3, <3>4, <3>5 DEF WorkInv
  <2> QED BY <2>4, <2>5
<1>o. ASSUME Rests(p), UNCHANGED <<current, attempts>>,
             \A k \in Jobs : dir[k].artifacts => dir'[k].artifacts,
             \A k : Engaged(p, k)' => Engaged(p, k)
      PROVE  \A q \in Procs \ {p} : ClosesTheLeft(q)'
  <2> SUFFICES ASSUME NEW q \in Procs \ {p} PROVE ClosesTheLeft(q)'
    OBVIOUS
  <2>1. \A e \in Executors : \A k : Engaged(e, k)' => Engaged(e, k)
    BY <1>o, <1>t
  <2>2. pc[q] \in {"interrupt_file", "interrupt_row"} => call[q].job \in Jobs
    BY DEF WorkInv, BaseInv, CallFits, Carrying, HasRow
  <2> QED BY <1>c, <1>o, <2>1, <2>2 DEF ClosesTheLeft, Spent, HasRow, Offered
<1>2. CASE Mark(p)
  <2>1. CASE ~MayRun
    BY <1>2, <1>t, <2>1, MoveFields, WorkStop DEF Mark, registry, outside
  <2>2. CASE MayRun
    <3> DEFINE c == [call[p] EXCEPT !.marked = current.job]
    <3>1. GotoWith(p, "mark_row", c) /\ c.job = j /\ c.marked = current.job
      BY <1>2, <1>t, <2>2, CallFields DEF Mark
    <3>2. /\ Rests(p) /\ pc[p] = "mark" /\ pc'[p] = "mark_row"
          /\ call'[p].job = j /\ call'[p].marked = current.job
      <4> HIDE DEF c
      <4> QED BY <1>2, <1>t, <3>1, MoveFields DEF Mark
    <3>3. /\ UNCHANGED <<current, attempts, executions>>
          /\ dir'[current.job].owner = p
          /\ \A k \in Jobs : /\ dir'[k].completion = dir[k].completion
                             /\ dir'[k].artifacts = dir[k].artifacts
      BY <1>2, <1>r, <1>t, <2>2, MarkFields DEF Mark, registry, outside
    <3>4. ASSUME NEW k \in Jobs PROVE JobUsed(k)'
      BY <3>3 DEF WorkInv, JobUsed, Spent, HasRow, Offered
    <3>5. ExecutorSafe(p)'
      BY <1>j, <1>t, <3>2, <3>3 DEF ExecutorSafe, Engaging, Spending
    <3>6. \A q \in Procs \ {p} : ClosesTheLeft(q)'
      BY <1>o, <3>2, <3>3 DEF Engaged, Engaging
    <3>7. ClosesTheLeft(p)'
      BY <3>2 DEF ClosesTheLeft
    <3> QED BY <1>t, <3>4, <3>5, <3>6, <3>7 DEF WorkInv
  <2> QED BY <2>1, <2>2
<1>3. CASE MarkRow(p)
  <2> DEFINE k == call[p].marked
  <2>1. /\ Rests(p) /\ pc[p] = "mark_row" /\ pc'[p] = "execute"
        /\ call'[p] = call[p] /\ UNCHANGED <<dir, executions>>
        /\ HasRow(k) /\ k \in Jobs /\ HasRow(j) /\ j \in Jobs
    BY <1>3, <1>j, <1>t, MoveFields
       DEF MarkRow, outside, CallFits, HasRow, Engaging
  <2>2. /\ current'.job = k /\ current'.status = "RUNNING"
        /\ attempts'[k] = "RUNNING"
        /\ \A i \in Jobs \ {k} : attempts'[i] = attempts[i]
    BY <1>3, <1>t, <2>1, SaveJobFields DEF MarkRow
  <2>3. \A i : (HasRow(i) => HasRow(i)') /\ (Spent(i) => Spent(i)')
    BY <2>2 DEF Spent, HasRow, Offered
  <2>4. ASSUME NEW i \in Jobs PROVE JobUsed(i)'
    BY <2>1, <2>3 DEF WorkInv, JobUsed
  <2>5. ExecutorSafe(p)'
    <3>1. Spent(j)' /\ attempts'[j] \in ActiveStatuses
      BY <1>t, <2>1, <2>2, <2>3
         DEF Spent, Offered, ExecutorSafe, Engaging, ActiveStatuses
    <3> QED BY <1>t, <2>1, <2>2, <3>1 DEF ExecutorSafe, Engaging
  <2>6. ASSUME NEW q \in Procs \ {p} PROVE ClosesTheLeft(q)'
    <3>1. \A e \in Executors : \A i : Engaged(e, i)' => Engaged(e, i)
      BY <1>t, <2>1 DEF Engaged, Engaging
    <3> QED BY <1>c, <2>1, <2>3, <3>1 DEF ClosesTheLeft
  <2>7. ClosesTheLeft(p)'
    BY <2>1 DEF ClosesTheLeft
  <2> QED BY <1>t, <2>4, <2>5, <2>6, <2>7 DEF WorkInv
<1>f. ASSUME NEW outcome, Finish(p, outcome), pc[p] \in Spending,
             UNCHANGED <<dir, current, attempts, executions>>
      PROVE  WorkInv'
  <2> DEFINE c == [call[p] EXCEPT !.status = outcome,
                     !.result = [outcome |-> outcome, maker |-> p]]
  <2>1. GotoWith(p, "finish_file", c) /\ c.job = j
    BY <1>f, <1>t, CallFields DEF Finish
  <2>2. Rests(p) /\ pc'[p] = "finish_file" /\ call'[p].job = j
    <3> HIDE DEF c
    <3> QED BY <1>t, <2>1, MoveFields
  <2>3. ASSUME NEW i \in Jobs PROVE JobUsed(i)'
    BY <1>f DEF WorkInv, JobUsed, Spent, HasRow, Offered
  <2>4. ExecutorSafe(p)'
    BY <1>f, <1>t, <2>2
       DEF ExecutorSafe, Spending, Engaging, Spent, HasRow, Offered
  <2>5. \A q \in Procs \ {p} : ClosesTheLeft(q)'
    BY <1>f, <1>o, <2>2 DEF Engaged, Engaging
  <2>6. ClosesTheLeft(p)'
    BY <2>2 DEF ClosesTheLeft
  <2> QED BY <1>t, <2>3, <2>4, <2>5, <2>6 DEF WorkInv
<1>4. CASE Execute(p)
  <2>1. CASE Finish(p, "FAILED") /\ UNCHANGED <<dir, executions>>
    BY <1>4, <1>f, <2>1 DEF Execute, registry, Spending
  <2>2. CASE /\ dir' = [dir EXCEPT ![j].artifacts = TRUE]
             /\ executions' = [executions EXCEPT ![j] = @ + 1]
             /\ Goto(p, "codex")
    <3>1. /\ Rests(p) /\ pc[p] = "execute" /\ pc'[p] = "codex"
          /\ call'[p] = call[p] /\ HasRow(j) /\ j \in Jobs /\ Spent(j)
          /\ UNCHANGED <<current, attempts>> /\ executions[j] = 0
      BY <1>4, <1>j, <1>t, <2>2, MoveFields
         DEF Execute, registry, Spending, ExecutorSafe
    <3>2. /\ dir'[j].completion = dir[j].completion
          /\ dir'[j].owner = dir[j].owner
          /\ executions'[j] = 1
          /\ \A i \in Jobs \ {j} : /\ dir'[i] = dir[i]
                                   /\ executions'[i] = executions[i]
      BY <1>t, <2>2, <3>1, ArtifactFields DEF TypeOK
    <3>3. ASSUME NEW i \in Jobs PROVE JobUsed(i)'
      BY <3>1, <3>2 DEF WorkInv, JobUsed, Spent, HasRow, Offered
    <3>4. ExecutorSafe(p)'
      BY <1>t, <3>1, <3>2
         DEF ExecutorSafe, Spending, Engaging, Spent, HasRow, Offered
    <3>5. \A q \in Procs \ {p} : ClosesTheLeft(q)'
      <4>1. \A i \in Jobs : dir[i].artifacts => dir'[i].artifacts
        BY <1>t, <2>2, <3>1, ArtifactFields
      <4>2. \A i : Engaged(p, i)' => Engaged(p, i)
        BY <3>1 DEF Engaged, Engaging
      <4> QED BY <1>o, <3>1, <4>1, <4>2
    <3>6. ClosesTheLeft(p)'
      BY <3>1 DEF ClosesTheLeft
    <3> QED BY <1>t, <3>3, <3>4, <3>5, <3>6 DEF WorkInv
  <2> QED BY <1>4, <2>1, <2>2 DEF Execute
<1>5. CASE Codex(p)
  <2>1. CASE \E outcome \in CompletionOutcomes : Finish(p, outcome)
    BY <1>5, <1>f, <2>1 DEF Codex, registry, outside, Spending
  <2>2. CASE Goto(p, "abort")
    BY <1>5, <1>t, <2>2, MoveFields, WorkQuiet
       DEF Codex, registry, outside, Engaging, Spending, ClosesTheLeft
  <2> QED BY <1>5, <2>1, <2>2 DEF Codex
<1>6. CASE FinishFile(p)
  <2>1. /\ Rests(p) /\ pc[p] = "finish_file" /\ pc'[p] = "signal"
        /\ call'[p] = call[p] /\ HasRow(j) /\ j \in Jobs /\ Spent(j)
        /\ UNCHANGED <<current, attempts, executions>>
    BY <1>6, <1>j, <1>t, MoveFields
       DEF FinishFile, registry, outside, Spending, ExecutorSafe
  <2>2. /\ dir'[j].artifacts = dir[j].artifacts
        /\ \A i \in Jobs \ {j} : dir'[i] = dir[i]
    BY <1>6, <1>t, <2>1, CompletionFields DEF FinishFile
  <2>3. ASSUME NEW i \in Jobs PROVE JobUsed(i)'
    BY <2>1, <2>2 DEF WorkInv, JobUsed, Spent, HasRow, Offered
  <2>4. ExecutorSafe(p)'
    BY <2>1 DEF ExecutorSafe, Spending, Engaging, Spent, HasRow, Offered
  <2>5. \A q \in Procs \ {p} : ClosesTheLeft(q)'
    <3>1. /\ \A i \in Jobs : dir[i].artifacts => dir'[i].artifacts
          /\ \A i : Engaged(p, i)' => Engaged(p, i)
      BY <2>1, <2>2 DEF Engaged, Engaging
    <3> QED BY <1>o, <2>1, <3>1
  <2>6. ClosesTheLeft(p)'
    BY <2>1 DEF ClosesTheLeft
  <2> QED BY <1>t, <2>3, <2>4, <2>5, <2>6 DEF WorkInv
<1>7. CASE Signal(p)
  <2>1. /\ Rests(p) /\ pc[p] = "signal" /\ pc'[p] = "finish_row"
        /\ call'[p] = call[p]
        /\ UNCHANGED <<dir, current, attempts, executions>>
    BY <1>7, <1>t, MoveFields DEF Signal, registry
  <2>2. ASSUME NEW i \in Jobs PROVE JobUsed(i)'
    BY <2>1 DEF WorkInv, JobUsed, Spent, HasRow, Offered
  <2>3. ExecutorSafe(p)'
    BY <1>t, <2>1 DEF ExecutorSafe, Spending, Engaging, Spent, HasRow, Offered
  <2>4. \A q \in Procs \ {p} : ClosesTheLeft(q)'
    BY <1>o, <2>1 DEF Engaged, Engaging
  <2>5. ClosesTheLeft(p)'
    BY <2>1 DEF ClosesTheLeft
  <2> QED BY <1>t, <2>2, <2>3, <2>4, <2>5 DEF WorkInv
<1>8. CASE FinishRow(p)
  <2>1. /\ Rests(p) /\ Stops(p) /\ HasRow(j)
        /\ call[p].status \in TerminalStatuses
    BY <1>8, <1>t, <1>j, MoveFields
       DEF FinishRow, CallFits, TerminalStatuses, Spending
  <2> QED BY <1>8, <1>t, <2>1, WorkRow
          DEF FinishRow, outside, Stops, Engaging, Spending, ClosesTheLeft
<1>9. CASE Abort(p)
  <2>1. CASE current.status \notin ActiveStatuses
    BY <1>9, <1>t, <2>1, MoveFields, WorkStop DEF Abort, registry, outside
  <2>2. CASE current.status \in ActiveStatuses
    <3> DEFINE c == [call[p] EXCEPT !.marked = current.job]
    <3>1. GotoWith(p, "abort_row", c)
      BY <1>9, <2>2 DEF Abort
    <3>2. Rests(p) /\ pc'[p] = "abort_row"
      <4> HIDE DEF c
      <4> QED BY <1>t, <3>1, MoveFields
    <3>3. /\ UNCHANGED <<current, attempts, executions>>
          /\ \A k \in Jobs : dir'[k].completion = dir[k].completion
          /\ \A k \in Jobs : dir[k].artifacts => dir'[k].artifacts
          /\ \A k \in Jobs \ {current.job} : dir'[k] = dir[k]
      BY <1>9, <1>r, <1>t, <2>2, CloseFields DEF Abort, registry, outside
    <3>4. ASSUME NEW k \in Jobs PROVE JobUsed(k)'
      BY <1>r, <2>2, <3>3 DEF WorkInv, JobUsed, Spent, HasRow, Offered
    <3>5. ExecutorSafe(p)'
      BY <3>2 DEF ExecutorSafe, Engaging, Spending
    <3>6. \A q \in Procs \ {p} : ClosesTheLeft(q)'
      BY <1>o, <3>2, <3>3 DEF Engaged, Engaging
    <3>7. ClosesTheLeft(p)'
      BY <3>2 DEF ClosesTheLeft
    <3> QED BY <1>t, <3>4, <3>5, <3>6, <3>7 DEF WorkInv
  <2> QED BY <2>1, <2>2
<1>10. CASE AbortRow(p)
  <2>1. Rests(p) /\ Stops(p) /\ HasRow(call[p].marked)
    BY <1>10, <1>t, MoveFields DEF AbortRow, CallFits
  <2> QED BY <1>10, <1>t, <2>1, WorkRow
          DEF AbortRow, outside, Stops, Engaging, Spending, ClosesTheLeft,
              TerminalStatuses
<1> QED BY <1>1, <1>2, <1>3, <1>4, <1>5, <1>6, <1>7, <1>8, <1>9, <1>10
        DEF ExecutorStep

LEMMA InterruptionKeepsWork ==
    ASSUME OneExecutor, WorkInv, SuccessInv, NEW p \in Procs, BaseInv',
           Retry(p) \/ InterruptStep(p) \/ Crash(p)
    PROVE  WorkInv'
<1> USE JobAssumption
<1>t. BaseInv /\ TypeOK /\ CallFits(p) /\ call[p] \in Calls /\ ClosesTheLeft(p)
  BY DEF WorkInv, BaseInv, TypeOK
<1> DEFINE j == call[p].job
<1>1. CASE Retry(p)
  <2> DEFINE c == [NoCall EXCEPT !.op = "retry"]
  <2>1. GotoWith(p, "find", c) \/ GotoWith(p, "interrupt", c)
    BY <1>1 DEF Retry
  <2>2. Rests(p) /\ pc'[p] \in {"find", "interrupt"}
    <3> HIDE DEF c
    <3> QED BY <1>t, <2>1, MoveFields
  <2> QED BY <1>1, <2>2, WorkQuiet
          DEF Retry, registry, outside, Engaging, Spending, ClosesTheLeft
<1>2. CASE Interrupt(p)
  <2>1. CASE ~Stale
    BY <1>2, <1>t, <2>1, MoveFields, WorkStop DEF Interrupt, registry, outside
  <2>2. CASE Stale
    <3>1. Rests(p) /\ pc'[p] = "load"
      BY <1>2, <1>t, <2>2, MoveFields DEF Interrupt
    <3> QED BY <1>2, <3>1, WorkQuiet
            DEF Interrupt, registry, outside, Engaging, Spending, ClosesTheLeft
  <2> QED BY <2>1, <2>2
<1>6. CASE LoadStale(p)
  <2> DEFINE c == [call[p] EXCEPT !.job = current.job]
  <2>1. GotoWith(p, "interrupt_file", c) /\ c.job = current.job
    BY <1>6, <1>t, CallFields DEF LoadStale
  <2>2. /\ Rests(p) /\ pc[p] = "load" /\ pc'[p] = "interrupt_file"
        /\ call'[p].job = current.job
        /\ UNCHANGED <<dir, current, attempts, executions>>
    <3> HIDE DEF c
    <3> QED BY <1>6, <1>t, <2>1, MoveFields DEF LoadStale, registry, outside
  <2>3. HasRow(current.job)
    BY <1>t, <2>2 DEF CallFits, BaseInv, RowFits
  <2>4. p \in Executors \/ dir[current.job].artifacts \/ Spent(current.job)
    BY <2>2, <2>3 DEF SuccessInv, Fits, OutcomeFits, Fresh, Spent
  <2>5. ASSUME NEW q \in Executors PROVE ~Engaged(q, current.job)
    <3>1. CASE q = p
      BY <2>2, <3>1 DEF Engaged, Engaging
    <3>2. CASE q # p
      <4>1. BusyFits(q) /\ p \in Procs \ {q}
        BY <3>2 DEF SuccessInv, Fits, Procs
      <4> QED BY <2>2, <4>1 DEF BusyFits, Busy, Closing, Engaged, Engaging
    <3> QED BY <3>1, <3>2
  <2>6. ASSUME NEW q \in Executors PROVE ~Engaged(q, current.job)'
    BY <2>2, <2>5 DEF Engaged, Engaging, Rests, Procs
  <2>7. ClosesTheLeft(p)'
    BY <2>2, <2>4, <2>6 DEF ClosesTheLeft, Spent, HasRow, Offered
  <2> QED BY <2>2, <2>7, WorkQuiet DEF Engaging, Spending
<1>3. CASE InterruptFile(p)
  <2>1. /\ Rests(p) /\ pc[p] = "interrupt_file" /\ pc'[p] = "interrupt_row"
        /\ call'[p] = call[p] /\ HasRow(j) /\ j \in Jobs
        /\ UNCHANGED <<current, attempts, executions>>
        /\ \A q \in Executors : ~Engaged(q, j)
    BY <1>3, <1>t, MoveFields
       DEF InterruptFile, CallFits, Carrying, HasRow, registry, outside,
           ClosesTheLeft
  <2>2. /\ dir'[j].artifacts /\ dir'[j].completion = dir[j].completion
        /\ \A k \in Jobs \ {j} : dir'[k] = dir[k]
    BY <1>3, <1>t, <2>1, CloseFields DEF InterruptFile
  <2>3. ASSUME NEW k \in Jobs PROVE JobUsed(k)'
    BY <2>1, <2>2 DEF WorkInv, JobUsed, Spent, HasRow, Offered
  <2>4. ASSUME NEW q \in Executors PROVE ExecutorSafe(q)'
    <3>1. CASE q = p
      BY <2>1, <3>1 DEF ExecutorSafe, Engaging, Spending
    <3>2. CASE q # p
      <4>1. /\ ExecutorSafe(q) /\ pc'[q] = pc[q] /\ call'[q] = call[q]
            /\ pc[q] \in Engaging => call[q].job \in Jobs \ {j}
            /\ pc[q] \in Spending => call[q].job \in Jobs
        BY <2>1, <3>2
           DEF WorkInv, Rests, Procs, BaseInv, CallFits, Carrying, HasRow,
               Engaged, Engaging, Spending, Executing
      <4> QED BY <2>1, <2>2, <4>1
              DEF ExecutorSafe, Spent, HasRow, Offered, Engaging, Spending
    <3> QED BY <3>1, <3>2
  <2>5. \A e \in Executors : \A k : Engaged(e, k)' => Engaged(e, k)
    BY <2>1 DEF Engaged, Engaging, Rests, Procs
  <2>6. ASSUME NEW q \in Procs PROVE ClosesTheLeft(q)'
    <3>1. CASE q = p
      BY <2>1, <2>2, <2>5, <3>1 DEF ClosesTheLeft
    <3>2. CASE q # p
      <4>1. /\ ClosesTheLeft(q) /\ pc'[q] = pc[q] /\ call'[q] = call[q]
            /\ pc[q] \in {"interrupt_file", "interrupt_row"} =>
                 call[q].job \in Jobs
        BY <2>1, <3>2
           DEF WorkInv, Rests, BaseInv, CallFits, Carrying, HasRow
      <4> QED BY <2>1, <2>2, <2>5, <4>1
              DEF ClosesTheLeft, Spent, HasRow, Offered
    <3> QED BY <3>1, <3>2
  <2> QED BY <2>3, <2>4, <2>6 DEF WorkInv
<1>4. CASE InterruptRow(p)
  <2>1. /\ Rests(p) /\ pc'[p] \in {"find", "idle"} /\ HasRow(j)
        /\ \A q \in Executors : ~Engaged(q, j)
    BY <1>4, <1>t, MoveFields
       DEF InterruptRow, Return, CallFits, Carrying, ClosesTheLeft
  <2> QED BY <1>4, <2>1, WorkRow
          DEF InterruptRow, outside, Engaging, Spending, ClosesTheLeft,
              TerminalStatuses
<1>5. CASE Crash(p)
  BY <1>5, <1>t, MoveFields, WorkStop DEF Crash, registry, outside
<1> QED BY <1>1, <1>2, <1>3, <1>4, <1>5, <1>6 DEF InterruptStep

\* Nobody works on a job that has a completion, or that is closed.
LEMMA NotEngaged ==
    ASSUME WorkInv, current.job # 0,
           \/ dir[current.job].completion # NoResult
           \/ current.status \in {"INTERRUPTED", "ABORTED_BY_USER"}
    PROVE  /\ Spent(current.job)
           /\ \A q \in Executors : ~Engaged(q, current.job)
<1>1. /\ HasRow(current.job) /\ attempts[current.job] = current.status
      /\ JobUsed(current.job)
  BY DEF WorkInv, BaseInv, RowFits, HasRow
<1>2. Spent(current.job)
  BY <1>1 DEF JobUsed, Spent, Offered
<1>3. ASSUME NEW q \in Executors PROVE ~Engaged(q, current.job)
  BY <1>1 DEF WorkInv, ExecutorSafe, Engaged, ActiveStatuses
<1> QED BY <1>2, <1>3

LEMMA RecordingKeepsWork ==
    ASSUME OneExecutor, WorkInv, NEW p \in Procs, BaseInv',
           \/ Reconcile(p) \/ LoadTerminal(p) \/ ReconcileRow(p)
           \/ ReconcileMaster(p) \/ ReconcileEvent(p) \/ JournalResult(p)
           \/ Ingest(p) \/ IngestRow(p) \/ IngestMaster(p) \/ IngestEvent(p)
    PROVE  WorkInv'
<1> USE JobAssumption
<1>t. BaseInv /\ TypeOK /\ CallFits(p) /\ call[p] \in Calls /\ ClosesTheLeft(p)
  BY DEF WorkInv, BaseInv, TypeOK
<1> DEFINE j == call[p].job
<1>r. ASSUME Rests(p), pc'[p] \in {"reconcile_row", "ingest_row"},
             call'[p].job = current.job, current.job # 0,
             \/ dir[current.job].completion # NoResult
             \/ current.status \in {"INTERRUPTED", "ABORTED_BY_USER"},
             UNCHANGED <<dir, current, attempts, executions>>
      PROVE  WorkInv'
  <2>1. /\ Spent(current.job)
        /\ \A q \in Executors : ~Engaged(q, current.job)
    BY <1>r, NotEngaged
  <2>2. \A q \in Executors : ~Engaged(q, current.job)'
    BY <1>r, <2>1 DEF Engaged, Engaging, Rests, Procs
  <2>3. ClosesTheLeft(p)'
    BY <1>r, <2>1, <2>2 DEF ClosesTheLeft, Spent, HasRow, Offered
  <2> QED BY <1>r, <2>3, WorkQuiet DEF Engaging, Spending
<1>1. CASE Reconcile(p)
  <2>1. Rests(p) /\ pc'[p] = "reconcile"
    BY <1>1, <1>t, MoveFields DEF Reconcile, Start
  <2> QED BY <1>1, <2>1, WorkQuiet
          DEF Reconcile, Start, registry, outside, Engaging, Spending,
              ClosesTheLeft
<1>2. CASE LoadTerminal(p)
  <2> DEFINE done == dir[current.job].completion
             c == [call[p] EXCEPT !.job = current.job,
                     !.status = done.outcome, !.result = done]
             d == [call[p] EXCEPT !.job = current.job,
                                  !.status = current.status]
  <2>1. /\ UNCHANGED <<dir, current, attempts, executions>>
        /\ \/ Validated /\ GotoWith(p, "reconcile_row", c)
           \/ /\ current.status \in {"INTERRUPTED", "ABORTED_BY_USER"}
              /\ GotoWith(p, "reconcile_row", d)
           \/ Raise(p)
    BY <1>2 DEF LoadTerminal, Validated, registry, outside
  <2>2. c.job = current.job /\ d.job = current.job
    BY <1>t, CallFields
  <2>3. current.job # 0
    BY <1>2, <1>t DEF LoadTerminal, CallFits
  <2>4. CASE Validated /\ GotoWith(p, "reconcile_row", c)
    <3>1. Rests(p) /\ pc'[p] = "reconcile_row" /\ call'[p].job = current.job
      <4> HIDE DEF c, d
      <4> QED BY <1>t, <2>2, <2>4, MoveFields
    <3> QED BY <1>r, <2>1, <2>3, <2>4, <3>1 DEF Validated
  <2>5. CASE /\ current.status \in {"INTERRUPTED", "ABORTED_BY_USER"}
             /\ GotoWith(p, "reconcile_row", d)
    <3>1. Rests(p) /\ pc'[p] = "reconcile_row" /\ call'[p].job = current.job
      <4> HIDE DEF c, d
      <4> QED BY <1>t, <2>2, <2>5, MoveFields
    <3> QED BY <1>r, <2>1, <2>3, <2>5, <3>1
  <2>6. CASE Raise(p)
    BY <1>t, <2>1, <2>6, MoveFields, WorkStop
  <2> QED BY <2>1, <2>4, <2>5, <2>6
<1>3. CASE ReconcileRow(p)
  <2> DEFINE status == IF Successful(call[p].result)
                         THEN "INGESTED" ELSE call[p].status
  <2>1. /\ Rests(p) /\ pc'[p] = "reconcile_master" /\ HasRow(j)
        /\ \A q \in Executors : ~Engaged(q, j)
        /\ status \in TerminalStatuses /\ UNCHANGED <<dir, executions>>
        /\ SaveJob(j, status, call[p].result)
    BY <1>3, <1>t, MoveFields
       DEF ReconcileRow, CallFits, Carrying, ClosesTheLeft, TerminalStatuses,
           outside
  <2> HIDE DEF status
  <2> QED BY <2>1, WorkRow DEF Engaging, Spending, ClosesTheLeft
<1>4. CASE ReconcileMaster(p)
  BY <1>4, <1>t, MoveFields, WorkQuiet
     DEF ReconcileMaster, outside, Engaging, Spending, ClosesTheLeft
<1>5. CASE ReconcileEvent(p)
  <2>1. Rests(p) /\ pc'[p] \in {"journal", "adapter", "idle", "fail", "refuse"}
    BY <1>5, <1>t, MoveFields DEF ReconcileEvent, AfterReconcile, Stops
  <2> QED BY <1>5, <2>1, WorkQuiet
          DEF ReconcileEvent, registry, outside, Engaging, Spending,
              ClosesTheLeft
<1>10. CASE JournalResult(p)
  <2>1. Rests(p) /\ pc'[p] \in {"adapter", "idle", "fail", "refuse"}
    BY <1>10, <1>t, MoveFields DEF JournalResult, AfterReconcile, Stops
  <2> QED BY <1>10, <2>1, WorkQuiet
          DEF JournalResult, outside, Engaging, Spending, ClosesTheLeft
<1>6. CASE Ingest(p)
  <2> DEFINE c == [NoCall EXCEPT !.op = "ingest", !.job = current.job,
                                 !.result = dir[current.job].completion]
  <2>1. GotoWith(p, "ingest_row", c) /\ c.job = current.job
    BY <1>6 DEF Ingest, NoCall
  <2>2. Rests(p) /\ pc'[p] = "ingest_row" /\ call'[p].job = current.job
    <3> HIDE DEF c
    <3> QED BY <1>t, <2>1, MoveFields
  <2> QED BY <1>6, <1>r, <2>2 DEF Ingest, Validated, registry, outside
<1>7. CASE IngestRow(p)
  <2>1. /\ Rests(p) /\ pc'[p] = "ingest_master" /\ HasRow(j)
        /\ \A q \in Executors : ~Engaged(q, j)
    BY <1>7, <1>t, MoveFields
       DEF IngestRow, CallFits, Carrying, ClosesTheLeft
  <2> QED BY <1>7, <2>1, WorkRow
          DEF IngestRow, outside, Engaging, Spending, ClosesTheLeft,
              TerminalStatuses
<1>8. CASE IngestMaster(p)
  BY <1>8, <1>t, MoveFields, WorkQuiet
     DEF IngestMaster, outside, Engaging, Spending, ClosesTheLeft
<1>9. CASE IngestEvent(p)
  BY <1>9, <1>t, MoveFields, WorkStop DEF IngestEvent, outside
<1> QED BY <1>1, <1>2, <1>3, <1>4, <1>5, <1>6, <1>7, <1>8, <1>9, <1>10

LEMMA ResumptionKeepsWork ==
    ASSUME WorkInv, NEW p \in Procs, BaseInv',
           \/ Resume(p) \/ Inspect(p) \/ Wait(p) \/ Adapter(p)
           \/ EnterVerification(p) \/ FinishRun(p) \/ Fail(p)
    PROVE  WorkInv'
<1>t. TypeOK
  BY DEF WorkInv, BaseInv
<1>1. UNCHANGED <<dir, current, attempts, executions>>
  BY DEF Resume, Inspect, Wait, Adapter, EnterVerification, FinishRun, Fail,
         registry, outside
<1>2. /\ Rests(p)
      /\ pc'[p] \in {"refuse", "fail", "idle", "inspect", "technical", "find",
                     "adapter", "reconcile", "wait", "enter_verification"}
  <2>1. CASE Resume(p)
    BY <2>1, <1>t, MoveFields DEF Resume
  <2>2. CASE Inspect(p)
    <3> DEFINE c == [call[p] EXCEPT !.job = current.job]
               d == [call[p] EXCEPT !.op = "settle"]
    <3>1. \/ Goto(p, "find") \/ Goto(p, "adapter") \/ Goto(p, "reconcile")
          \/ GotoWith(p, "wait", c) \/ GotoWith(p, "reconcile", d)
      BY <2>2 DEF Inspect
    <3> HIDE DEF c, d
    <3> QED BY <1>t, <3>1, MoveFields
  <2>3. CASE Wait(p) \/ FinishRun(p) \/ Fail(p)
    BY <2>3, <1>t, MoveFields DEF Wait, FinishRun, Fail, Stops
  <2>4. CASE Adapter(p) \/ EnterVerification(p)
    BY <2>4, <1>t, MoveFields DEF Adapter, EnterVerification, Stops
  <2> QED BY <2>1, <2>2, <2>3, <2>4
<1> QED BY <1>1, <1>2, WorkQuiet DEF Engaging, Spending, ClosesTheLeft

LEMMA NextWork ==
    ASSUME OneExecutor, WorkInv, SuccessInv, BaseInv', [Next]_vars
    PROVE  WorkInv'
<1>1. ASSUME NEW p \in Executors, ExecutorStep(p) PROVE WorkInv'
  BY <1>1, ExecutionKeepsWork
<1>2. ASSUME NEW p \in Operators, OperatorStep(p) PROVE WorkInv'
  BY <1>2, CreationKeepsWork, InterruptionKeepsWork, RecordingKeepsWork,
     ResumptionKeepsWork DEF OperatorStep, Procs
<1>3. ASSUME NEW p \in Procs, InterruptStep(p) \/ Crash(p) PROVE WorkInv'
  BY <1>3, InterruptionKeepsWork
<1>4. CASE UNCHANGED vars
  BY <1>4 DEF vars, registry, outside, WorkInv, JobUsed, ExecutorSafe,
     ClosesTheLeft, Spent, HasRow, Offered, Engaged
<1> QED BY <1>1, <1>2, <1>3, <1>4 DEF Next

\* Steps that ask nothing of the files and the rows.
AtEase ==
    {"idle", "link", "restart", "interrupt", "wait", "ingest_master",
     "ingest_event", "refuse", "fail"}

LEMMA EaseFits ==
    ASSUME NEW p \in Procs, RoleFits(p)',
           \/ pc'[p] \in AtEase
           \/ pc'[p] = "find" /\ call'[p].op # "retry"
    PROVE  Fits(p)'
BY DEF AtEase, Fits, BusyFits, LagFits, OutcomeFits, OpeningFits, RecordFits,
   Busy, Opening

LEMMA StopFits ==
    ASSUME TypeOK, NEW p \in Procs, RoleFits(p),
           Return(p) \/ Raise(p) \/ Refuse(p)
    PROVE  Fits(p)' /\ Rests(p) /\ Stops(p)
<1>1. ASSUME Return(p) PROVE Fits(p)'
  <2>1. pc'[p] = "idle" /\ call'[p].op = "none"
    BY <1>1, MoveFields DEF Return, NoCall
  <2> QED BY <2>1, EaseFits DEF AtEase, RoleFits, ExecutorSteps
<1>2. ASSUME Goto(p, "fail") \/ Goto(p, "refuse"), Resuming(p)
      PROVE  Fits(p)'
  <2>1. p \in Operators /\ pc'[p] \in {"fail", "refuse"}
    BY <1>2, MoveFields DEF RoleFits, Resuming
  <2> QED BY <2>1, EaseFits DEF AtEase, RoleFits
<1> QED BY <1>1, <1>2, MoveFields DEF Raise, Refuse

\* A job that is still free to be taken has no completion.
LEMMA FreshIsUnspent ==
    ASSUME WorkInv, current.job \in Jobs, Fresh(current.job)
    PROVE  ~Spent(current.job) /\ ~Won
BY DEF WorkInv, JobUsed, Fresh, Spent, Won, Successful

\* Two processes: one of them is the executor, the other one the operator.
LEMMA OtherRole ==
    ASSUME OneExecutor, OneOperator, NEW p \in Procs, NEW q \in Procs, p # q
    PROVE  /\ p \in Executors => p \notin Operators /\ q \notin Executors
           /\ p \notin Executors => p \in Operators /\ q \in Executors
           /\ q \in Executors => q \notin Operators
BY DEF OneExecutor, OneOperator, Procs

LEMMA VerifiedStays ==
    ASSUME VerificationHasSuccess, Won => Won', UNCHANGED <<master, phases>>
    PROVE  VerificationHasSuccess'
BY DEF VerificationHasSuccess, Won

\* A step that leaves the files and the rows alone.
LEMMA SuccessQuiet ==
    ASSUME WorkInv, SuccessInv, NEW p \in Procs, Rests(p),
           UNCHANGED <<dir, current, attempts>>, Fits(p)',
           (\E q \in Procs \ {p} : pc[q] \in Busy)
             => (~Opening(p))' /\ pc'[p] \notin Closing,
           master'.step # "IMPLEMENTATION" \/ phases' # {} => Won
    PROVE  SuccessInv'
<1>1. RowsFollow' /\ \A j \in Jobs : RowTells(j)'
  BY DEF SuccessInv, RowsFollow, RowTells
<1>2. ASSUME NEW q \in Procs \ {p} PROVE Fits(q)'
  <2>1. Fits(q) /\ pc'[q] = pc[q] /\ call'[q] = call[q]
    BY DEF SuccessInv, Rests
  <2>2. BusyFits(q)'
    <3> SUFFICES ASSUME pc[q] \in Busy PROVE BusyFits(q)'
      BY <2>1 DEF BusyFits
    <3>1. ASSUME NEW r \in Procs \ {q}
          PROVE  (~Opening(r))' /\ pc'[r] \notin Closing
      <4>1. CASE r = p
        BY <4>1
      <4>2. CASE r # p
        BY <2>1, <4>2 DEF Fits, BusyFits, Opening, Rests
      <4> QED BY <4>1, <4>2
    <3> QED BY <2>1, <3>1 DEF Fits, BusyFits
  <2>3. (Won <=> Won') /\ \A j : Spent(j) <=> Spent(j)'
    BY DEF Won, Spent, HasRow, Offered
  <2>4. RoleFits(q)' /\ LagFits(q)' /\ OutcomeFits(q)'
    BY <2>1 DEF Fits, RoleFits, LagFits, OutcomeFits, Fresh, Offered
  <2>5. OpeningFits(q)' /\ RecordFits(q)'
    BY <2>1, <2>3 DEF Fits, OpeningFits, RecordFits, Opening
  <2> QED BY <2>2, <2>4, <2>5 DEF Fits
<1>3. VerificationHasSuccess'
  BY DEF VerificationHasSuccess, Won
<1> QED BY <1>1, <1>2, <1>3 DEF SuccessInv

LEMMA SuccessStop ==
    ASSUME WorkInv, SuccessInv, NEW p \in Procs,
           UNCHANGED <<dir, current, attempts>>,
           Return(p) \/ Raise(p) \/ Refuse(p),
           master'.step # "IMPLEMENTATION" \/ phases' # {} => Won
    PROVE  SuccessInv'
<1>1. TypeOK /\ RoleFits(p)
  BY DEF WorkInv, BaseInv, SuccessInv, Fits
<1>2. Fits(p)' /\ Rests(p) /\ Stops(p)
  BY <1>1, StopFits
<1>3. (~Opening(p))' /\ pc'[p] \notin Closing
  BY <1>2 DEF Stops, Opening, Closing
<1> QED BY <1>2, <1>3, SuccessQuiet

\* The executor's writes: the operator stands where it stood.
LEMMA BesideExecutor ==
    ASSUME OneExecutor, OneOperator, WorkInv, SuccessInv, NEW p \in Executors,
           Rests(p),
           \A j \in Jobs : /\ dir[j].request => dir'[j].request
                           /\ dir[j].artifacts => dir'[j].artifacts,
           \A j \in Jobs : Spent(j) => Spent(j)',
           \/ current.job \in Jobs /\ Fresh(current.job)
           \/ /\ current'.job = current.job
              /\ \/ pc[p] \in Busy
                 \/ current.job \in Jobs =>
                      dir'[current.job].completion = dir[current.job].completion
    PROVE  (Won => Won') /\ \A q \in Procs \ {p} : Fits(q)'
<1>t. p \in Procs /\ BaseInv /\ TypeOK /\ current.job \in 0..MaxJobs /\ Fits(p)
  BY DEF WorkInv, BaseInv, Procs, TypeOK, JobRow, SuccessInv
<1>1. Won => Won'
  <2>1. CASE current.job \in Jobs /\ Fresh(current.job)
    BY <2>1, FreshIsUnspent
  <2>2. CASE pc[p] \in Busy
    BY <1>t, <2>2 DEF Fits, BusyFits, Won, Successful
  <2> QED BY <1>t, <2>1, <2>2, JobAssumption DEF Won, Jobs
<1>2. ASSUME NEW q \in Procs \ {p} PROVE Fits(q)'
  <2>1. /\ q \notin Executors /\ pc'[q] = pc[q] /\ call'[q] = call[q]
        /\ Fits(q) /\ CallFits(q) /\ ClosesTheLeft(q)
    BY <1>t, OtherRole DEF SuccessInv, WorkInv, BaseInv, Rests
  <2>2. pc[q] \notin Executing \cup Busy
    BY <2>1 DEF CallFits, Busy, Executing
  <2>3. RoleFits(q)' /\ BusyFits(q)'
    BY <2>1, <2>2 DEF Fits, RoleFits, BusyFits
  <2>4. ASSUME pc[q] \in Closing
        PROVE  /\ pc[q] # "load" => call[q].job = current.job
               /\ current'.job = current.job /\ current.job \in Jobs
               /\ dir'[current.job].completion = dir[current.job].completion
               /\ ~Fresh(current.job)'
    <3>1. /\ pc[q] # "load" => call[q].job = current.job
          /\ HasRow(current.job) /\ current.job \in Jobs
      <4>1. CASE pc[q] = "load"
        BY <1>t, <2>1, <4>1, JobAssumption
           DEF CallFits, BaseInv, RowFits, HasRow, Jobs
      <4>2. CASE pc[q] # "load"
        BY <2>1, <2>4, <4>2
           DEF Closing, Fits, OutcomeFits, RecordFits, CallFits, Carrying,
               HasRow
      <4> QED BY <4>1, <4>2
    <3>2. ~Fresh(current.job)
      <4>1. CASE pc[q] = "load"
        BY <2>1, <4>1 DEF Fits, OutcomeFits
      <4>2. CASE pc[q] # "load"
        BY <2>1, <2>4, <3>1, <4>2, FreshIsUnspent
           DEF Closing, ClosesTheLeft, Fresh
      <4> QED BY <4>1, <4>2
    <3>3. pc[p] \notin Busy
      BY <1>t, <2>4 DEF Fits, BusyFits
    <3>4. /\ current'.job = current.job
          /\ dir'[current.job].completion = dir[current.job].completion
      BY <3>1, <3>2, <3>3
    <3>5. ~Fresh(current.job)'
      BY <3>1, <3>2, <3>4 DEF Fresh, Offered, Spent
    <3> QED BY <3>1, <3>4, <3>5
  <2>5. LagFits(q)' /\ OutcomeFits(q)'
    <3>1. CASE pc[q] \in Closing
      BY <2>1, <2>2, <2>4, <3>1 DEF Fits, LagFits, OutcomeFits, Executing
    <3>2. CASE pc[q] \notin Closing
      BY <2>1, <2>2, <3>2 DEF LagFits, OutcomeFits, Executing, Closing
    <3> QED BY <3>1, <3>2
  <2>6. OpeningFits(q)'
    <3>1. ASSUME Opening(q), current'.job # 0
          PROVE  Spent(current.job)' /\ ~Won'
      <4>1. current.job # 0 => Spent(current.job) /\ ~Won
        BY <2>1, <3>1 DEF Fits, OpeningFits
      <4>2. pc[p] \notin Busy
        BY <1>t, <3>1 DEF Fits, BusyFits
      <4>3. ~(current.job \in Jobs /\ Fresh(current.job))
        BY <4>1, FreshIsUnspent, JobAssumption DEF Jobs
      <4>4. /\ current'.job = current.job /\ current.job \in Jobs
            /\ dir'[current.job].completion = dir[current.job].completion
        BY <1>t, <3>1, <4>2, <4>3, JobAssumption DEF Jobs
      <4> QED BY <3>1, <4>1, <4>4 DEF Won
    <3>2. pc[q] = "save_job" => dir'[call[q].job].request
      BY <1>t, <2>1 DEF Fits, OpeningFits, BaseInv, CreatorsApart, Creating
    <3> QED BY <2>1, <3>1, <3>2 DEF OpeningFits, Opening
  <2>7. RecordFits(q)'
    <3>1. CASE pc[q] \in Closing
      <4>1. Won <=> Won'
        BY <2>4, <3>1 DEF Won
      <4> QED BY <2>1, <2>4, <3>1, <4>1 DEF Fits, RecordFits
    <3>2. CASE pc[q] \notin Closing
      BY <1>1, <2>1, <3>2 DEF Fits, RecordFits, Closing
    <3> QED BY <3>1, <3>2
  <2> QED BY <2>3, <2>5, <2>6, <2>7 DEF Fits
<1> QED BY <1>1, <1>2

\* The operator's writes: the executor stands where it stood.
LEMMA BesideOperator ==
    ASSUME OneExecutor, OneOperator, WorkInv, SuccessInv, NEW p \in Operators,
           Rests(p),
           \A j \in Jobs : dir'[j].completion = dir[j].completion,
           \/ /\ Opening(p) /\ UNCHANGED <<current, attempts>>
              /\ \A j \in Jobs : dir'[j].artifacts = dir[j].artifacts
           \/ pc[p] \in Closing \ {"load"} /\ current'.job = current.job
           \/ /\ Opening(p) /\ Fresh(current.job)'
              /\ current'.job \in Jobs /\ dir[current'.job].completion = NoResult
    PROVE  (Won => Won') /\ \A q \in Procs \ {p} : Fits(q)'
<1>t. p \in Procs /\ BaseInv /\ TypeOK /\ current.job \in 0..MaxJobs /\ Fits(p)
  BY DEF WorkInv, BaseInv, Procs, TypeOK, JobRow, SuccessInv
<1>1. Won => Won'
  <2>1. CASE Opening(p)
    BY <1>t, <2>1 DEF Fits, OpeningFits, Won
  <2> QED BY <1>t, <2>1, JobAssumption DEF Won, Jobs
<1>2. ASSUME NEW q \in Procs \ {p} PROVE Fits(q)'
  <2>1. /\ p \notin Executors /\ q \in Executors /\ q \notin Operators
        /\ pc'[q] = pc[q] /\ call'[q] = call[q]
        /\ Fits(q) /\ CallFits(q) /\ ClosesTheLeft(p) /\ CallFits(p)
    BY <1>t, OtherRole DEF SuccessInv, WorkInv, BaseInv, Rests
  <2>2. pc[q] \in ExecutorSteps
    BY <2>1 DEF Fits, RoleFits
  <2>3. pc[q] \notin Busy
    BY <1>t, <2>1 DEF Fits, BusyFits
  <2>4. RoleFits(q)' /\ BusyFits(q)' /\ OpeningFits(q)' /\ RecordFits(q)'
    BY <2>1, <2>2, <2>3
       DEF Fits, RoleFits, BusyFits, OpeningFits, RecordFits, Opening,
           ExecutorSteps, Executing
  <2>5. OutcomeFits(q)'
    <3>1. CASE pc[q] = "load"
      <4>1. current.job \in Jobs /\ dir[current.job].completion = NoResult
        BY <1>t, <2>1, <3>1, JobAssumption
           DEF CallFits, Fits, OutcomeFits, Jobs
      <4>2. dir'[current'.job].completion = NoResult
        BY <4>1
      <4> QED BY <2>1, <3>1, <4>2 DEF OutcomeFits
    <3>2. CASE pc[q] # "load"
      BY <2>1, <2>2, <3>2
         DEF Fits, OutcomeFits, CallFits, Carrying, Executing, HasRow
    <3> QED BY <3>1, <3>2
  <2>6. LagFits(q)'
    <3>1. CASE /\ Opening(p) /\ UNCHANGED <<current, attempts>>
               /\ \A j \in Jobs : dir'[j].artifacts = dir[j].artifacts
      <4>1. ASSUME Fresh(current.job), current.job \in Jobs
            PROVE  Fresh(current.job)'
        BY <3>1, <4>1 DEF Fresh, Offered
      <4>2. Fresh(current.job) => current.job \in Jobs
        BY <1>t DEF Fresh, Offered, BaseInv, RowFits, HasRow
      <4> QED BY <2>1, <3>1, <4>1, <4>2 DEF Fits, LagFits
    <3>2. CASE pc[p] \in Closing \ {"load"} /\ current'.job = current.job
      <4>1. call[p].job = current.job /\ current.job \in Jobs
        BY <2>1, <1>t, <3>2
           DEF Closing, Fits, OutcomeFits, RecordFits, CallFits, Carrying,
               HasRow
      <4>2. ~Fresh(current.job)
        BY <2>1, <3>2, <4>1, FreshIsUnspent DEF Closing, ClosesTheLeft, Fresh
      <4> QED BY <2>1, <3>2, <4>2 DEF Fits, LagFits
    <3>3. CASE Fresh(current.job)'
      BY <3>3 DEF LagFits
    <3> QED BY <3>1, <3>2, <3>3
  <2> QED BY <2>4, <2>5, <2>6 DEF Fits
<1> QED BY <1>1, <1>2

\* Who is busy has a job, which is open.
LEMMA BusyHasJob ==
    ASSUME WorkInv, SuccessInv, NEW q \in Procs, pc[q] \in Busy
    PROVE  /\ current.job \in Jobs /\ HasRow(current.job)
           /\ current.status \in ActiveStatuses
           /\ dir[current.job].completion = NoResult
           /\ \A r \in Procs \ {q} : ~Opening(r) /\ pc[r] \notin Closing
<1>1. Fits(q) /\ CallFits(q)
  BY DEF SuccessInv, WorkInv, BaseInv
<1>2. HasRow(call[q].job)
  BY <1>1 DEF CallFits, Busy, Carrying, Executing
<1> QED BY <1>1, <1>2 DEF Fits, BusyFits, HasRow

LEMMA CreationKeepsSuccess ==
    ASSUME OneExecutor, OneOperator, WorkInv, SuccessInv, NEW p \in Operators,
           \/ Create(p) \/ Find(p) \/ Number(p) \/ MakeDir(p)
           \/ WriteRequest(p) \/ SaveCreated(p) \/ LinkJob(p)
           \/ RestartMaster(p)
    PROVE  SuccessInv'
<1> USE JobAssumption
<1>t. /\ BaseInv /\ TypeOK /\ CallFits(p) /\ p \in Procs /\ call[p] \in Calls
      /\ Fits(p) /\ RowFits /\ current.job \in 0..MaxJobs
  BY DEF WorkInv, BaseInv, SuccessInv, TypeOK, JobRow, Procs
<1>v. master.step # "IMPLEMENTATION" \/ phases # {} => Won
  BY DEF SuccessInv, VerificationHasSuccess, Won
<1>r. RoleFits(p)'
  BY DEF RoleFits
<1> DEFINE j == call[p].job
<1>o. ASSUME Opening(p), NEW q \in Procs \ {p} PROVE pc[q] \notin Busy
  BY <1>o, <1>t, BusyHasJob
<1>n. ASSUME pc'[p] \in {"number", "make", "request", "save_job"},
             current'.job # 0 => Spent(current.job)' /\ ~Won',
             pc'[p] = "save_job" => dir'[call'[p].job].request
      PROVE  Fits(p)'
  BY <1>n, <1>r
     DEF Fits, BusyFits, LagFits, OutcomeFits, OpeningFits, RecordFits, Busy
<1>s. ASSUME UNCHANGED <<dir, current, attempts>>
      PROVE  (Won <=> Won') /\ (Spent(current.job) <=> Spent(current.job)')
  BY <1>s DEF Won, Spent, HasRow, Offered
<1>1. CASE Create(p)
  <2> DEFINE c == [NoCall EXCEPT !.op = "create"]
  <2>1. GotoWith(p, "find", c) /\ c.op = "create"
    BY <1>1 DEF Create, Start, NoCall
  <2>2. Rests(p) /\ pc'[p] = "find" /\ call'[p].op = "create"
    <3> HIDE DEF c
    <3> QED BY <1>t, <2>1, MoveFields
  <2>3. Fits(p)' /\ (~Opening(p))' /\ pc'[p] \notin Closing
    BY <1>r, <1>t, <2>2, EaseFits DEF Opening, Closing
  <2> QED BY <1>1, <1>t, <1>v, <2>2, <2>3, SuccessQuiet
          DEF Create, Start, registry
<1>2. CASE Find(p)
  <2> DEFINE c == [call[p] EXCEPT !.job = Newest(Requested)]
  <2>1. /\ UNCHANGED <<dir, current, attempts, master, phases>>
        /\ \/ Goto(p, "number") /\ current.status \in RetryableStatuses
           \/ Goto(p, "number") /\ Requested = {}
           \/ GotoWith(p, "wait", c)
           \/ Raise(p) \/ Return(p)
    BY <1>2 DEF Find, registry
  <2>2. ASSUME Goto(p, "number"),
               current.status \in RetryableStatuses \/ Requested = {}
        PROVE  SuccessInv'
    <3>1. Rests(p) /\ pc'[p] = "number"
      BY <1>t, <2>2, MoveFields
    <3>2. ASSUME current.job # 0 PROVE Spent(current.job) /\ ~Won
      <4>1. HasRow(current.job) /\ attempts[current.job] = current.status
        BY <1>t, <3>2 DEF RowFits
      <4>2. dir[current.job].request /\ RowTells(current.job)
        BY <4>1 DEF SuccessInv, RowsFollow, HasRow
      <4>3. current.status \in RetryableStatuses
        BY <2>2, <4>1, <4>2 DEF Requested, HasRow
      <4> QED BY <4>1, <4>2, <4>3
              DEF Spent, Offered, RowTells, Won, RetryableStatuses
    <3>3. Fits(p)'
      BY <1>n, <1>s, <2>1, <3>1, <3>2
    <3>4. ASSUME NEW q \in Procs, pc[q] \in Busy PROVE FALSE
      <4>1. /\ current.job \in Jobs /\ HasRow(current.job)
            /\ current.status \in ActiveStatuses
        BY <3>4, BusyHasJob
      <4>2. dir[current.job].request
        BY <4>1 DEF SuccessInv, RowsFollow, HasRow
      <4> QED BY <2>2, <4>1, <4>2
              DEF Requested, RetryableStatuses, ActiveStatuses
    <3> QED BY <1>t, <1>v, <2>1, <3>1, <3>3, <3>4, SuccessQuiet
  <2>3. ASSUME GotoWith(p, "wait", c) PROVE SuccessInv'
    <3>1. Rests(p) /\ pc'[p] = "wait"
      BY <1>t, <2>3, MoveFields
    <3>2. Fits(p)' /\ (~Opening(p))' /\ pc'[p] \notin Closing
      BY <1>r, <1>t, <3>1, EaseFits DEF AtEase, Opening, Closing
    <3> QED BY <1>t, <1>v, <2>1, <3>1, <3>2, SuccessQuiet
  <2>4. ASSUME Raise(p) \/ Return(p) PROVE SuccessInv'
    BY <1>t, <1>v, <2>1, <2>4, SuccessStop
  <2> QED BY <2>1, <2>2, <2>3, <2>4
<1>3. CASE Number(p)
  <2>1. CASE Refuse(p)
    BY <1>3, <1>t, <1>v, <2>1, SuccessStop DEF Number, registry
  <2>2. ASSUME NEW k \in Jobs, GotoWith(p, "make", [call[p] EXCEPT !.job = k])
        PROVE  SuccessInv'
    <3> DEFINE c == [call[p] EXCEPT !.job = k]
    <3>1. /\ Rests(p) /\ pc'[p] = "make" /\ Opening(p)
          /\ UNCHANGED <<dir, current, attempts, master, phases>>
      <4>1. GotoWith(p, "make", c)
        BY <2>2
      <4> HIDE DEF c
      <4> QED BY <1>3, <1>t, <4>1, MoveFields DEF Number, registry, Opening
    <3>2. Fits(p)'
      BY <1>n, <1>s, <1>t, <3>1 DEF Fits, OpeningFits
    <3> QED BY <1>o, <1>t, <1>v, <3>1, <3>2, SuccessQuiet
  <2> QED BY <1>3, <2>1, <2>2 DEF Number
<1>w. ASSUME Rests(p), Opening(p), UNCHANGED <<current, attempts, master, phases>>,
             \A k \in Jobs : /\ dir'[k].completion = dir[k].completion
                             /\ dir'[k].artifacts = dir[k].artifacts
                             /\ dir[k].request => dir'[k].request,
             pc'[p] \in {"request", "save_job"},
             pc'[p] = "save_job" => dir'[call'[p].job].request
      PROVE  SuccessInv'
  <2>1. (Won <=> Won') /\ (Spent(current.job) <=> Spent(current.job)')
    BY <1>t, <1>w DEF Won, Spent, HasRow, Offered, Jobs
  <2>2. Fits(p)'
    BY <1>n, <1>t, <1>w, <2>1 DEF Fits, OpeningFits
  <2>3. \A q \in Procs \ {p} : Fits(q)'
    BY <1>w, BesideOperator
  <2>4. RowsFollow' /\ \A k \in Jobs : RowTells(k)'
    BY <1>w DEF SuccessInv, RowsFollow, RowTells
  <2>5. VerificationHasSuccess'
    BY <1>w, <2>1, VerifiedStays DEF SuccessInv
  <2> QED BY <2>2, <2>3, <2>4, <2>5 DEF SuccessInv
<1>4. CASE MakeDir(p)
  <2>1. CASE dir[j].made
    BY <1>4, <1>t, <1>v, <2>1, SuccessStop DEF MakeDir, registry
  <2>2. CASE ~dir[j].made
    <3>1. /\ Rests(p) /\ pc[p] = "make" /\ pc'[p] = "request" /\ j \in Jobs
          /\ UNCHANGED <<current, attempts, master, phases>>
      BY <1>4, <1>t, <2>2, MoveFields DEF MakeDir, CallFits, registry
    <3>2. /\ dir'[j].artifacts = dir[j].artifacts
          /\ dir'[j].completion = dir[j].completion
          /\ dir'[j].request = dir[j].request
          /\ \A k \in Jobs \ {j} : dir'[k] = dir[k]
      BY <1>4, <1>t, <2>2, <3>1, MadeFields DEF MakeDir
    <3> QED BY <1>w, <3>1, <3>2 DEF Opening
  <2> QED BY <2>1, <2>2
<1>5. CASE WriteRequest(p)
  <2>1. /\ Rests(p) /\ pc[p] = "request" /\ pc'[p] = "save_job"
        /\ call'[p] = call[p] /\ j \in Jobs
        /\ UNCHANGED <<current, attempts, master, phases>>
    BY <1>5, <1>t, MoveFields
       DEF WriteRequest, BaseInv, CreatorsApart, Creating, registry
  <2>2. /\ dir'[j].request
        /\ dir'[j].artifacts = dir[j].artifacts
        /\ dir'[j].completion = dir[j].completion
        /\ \A k \in Jobs \ {j} : dir'[k] = dir[k]
    BY <1>5, <1>t, <2>1, RequestFields DEF WriteRequest
  <2> QED BY <1>w, <2>1, <2>2 DEF Opening
<1>6. CASE SaveCreated(p)
  <2>1. /\ Rests(p) /\ pc[p] = "save_job" /\ pc'[p] = "link"
        /\ j \in Jobs /\ UNCHANGED <<dir, master, phases>>
        /\ ~HasRow(j) /\ dir[j].request /\ Opening(p)
    BY <1>6, <1>t, MoveFields
       DEF SaveCreated, BaseInv, CreatorsApart, Creating, HasRow, Fits,
           OpeningFits, Opening
  <2>2. /\ current'.job = j /\ current'.status = "WAITING_EXTERNAL_CODEX"
        /\ attempts'[j] = "WAITING_EXTERNAL_CODEX"
        /\ \A k \in Jobs \ {j} : attempts'[k] = attempts[k]
    BY <1>6, <1>t, <2>1, SaveJobFields DEF SaveCreated
  <2>3. Fresh(current.job)' /\ dir[current'.job].completion = NoResult
    BY <2>1, <2>2 DEF Fresh, Offered, Spent, WorkInv, JobUsed
  <2>4. (Won => Won') /\ \A q \in Procs \ {p} : Fits(q)'
    BY <2>1, <2>2, <2>3, BesideOperator
  <2>5. Fits(p)'
    BY <1>r, <1>t, <2>1, EaseFits DEF AtEase
  <2>6. RowsFollow' /\ \A k \in Jobs : RowTells(k)'
    <3>1. RowsFollow'
      BY <2>1, <2>2 DEF SuccessInv, RowsFollow, Jobs
    <3>2. ASSUME NEW k \in Jobs PROVE RowTells(k)'
      BY <2>1, <2>2 DEF SuccessInv, RowTells, RetryableStatuses
    <3> QED BY <3>1, <3>2
  <2>7. VerificationHasSuccess'
    BY <2>1, <2>4, VerifiedStays DEF SuccessInv
  <2> QED BY <2>4, <2>5, <2>6, <2>7 DEF SuccessInv
<1>7. CASE LinkJob(p)
  <2>1. /\ Rests(p) /\ pc'[p] \in {"idle", "restart", "wait"}
        /\ UNCHANGED <<dir, current, attempts, phases>>
    BY <1>7, <1>t, MoveFields
       DEF LinkJob, AfterCreate, CallFits, Return, NoCall
  <2>2. master'.step = master.step
    BY <1>7, <1>t DEF LinkJob, TypeOK, MasterRow
  <2>3. Fits(p)' /\ (~Opening(p))' /\ pc'[p] \notin Closing
    BY <1>r, <1>t, <2>1, EaseFits DEF AtEase, Opening, Closing
  <2> QED BY <1>t, <1>v, <2>1, <2>2, <2>3, SuccessQuiet
<1>8. CASE RestartMaster(p)
  <2>1. /\ Return(p) /\ UNCHANGED <<dir, current, attempts, phases>>
        /\ master'.step = "IMPLEMENTATION"
    BY <1>8 DEF RestartMaster
  <2> QED BY <1>t, <1>v, <2>1, SuccessStop
<1> QED BY <1>1, <1>2, <1>3, <1>4, <1>5, <1>6, <1>7, <1>8

LEMMA ExecutionKeepsSuccess ==
    ASSUME OneExecutor, OneOperator, WorkInv, SuccessInv, NEW p \in Executors,
           ExecutorStep(p)
    PROVE  SuccessInv'
<1> USE JobAssumption
<1>t. /\ BaseInv /\ TypeOK /\ CallFits(p) /\ p \in Procs /\ call[p] \in Calls
      /\ Fits(p) /\ RowFits /\ current.job \in 0..MaxJobs /\ ExecutorSafe(p)
  BY DEF WorkInv, BaseInv, SuccessInv, TypeOK, JobRow, Procs
<1>v. master.step # "IMPLEMENTATION" \/ phases # {} => Won
  BY DEF SuccessInv, VerificationHasSuccess, Won
<1> DEFINE j == call[p].job
           k == current.job
<1>r. ASSUME current.status # "NONE"
      PROVE  k \in Jobs /\ HasRow(k) /\ attempts[k] = current.status
  BY <1>r, <1>t DEF RowFits, HasRow
<1>o. \A q \in Procs \ {p} : pc[q] \notin Busy
  <2>1. ASSUME NEW q \in Procs \ {p}, pc[q] \in Busy PROVE FALSE
    BY <1>t, <2>1, OtherRole DEF WorkInv, BaseInv, CallFits, Busy, Executing
  <2> QED BY <2>1
<1>b. ASSUME pc[p] \in Busy
      PROVE  /\ k \in Jobs /\ j = k /\ HasRow(k) /\ BusyFits(p)
             /\ dir[k].completion = NoResult
             /\ attempts[k] = current.status /\ current.status \in ActiveStatuses
             /\ \A q \in Procs \ {p} : ~Opening(q) /\ pc[q] \notin Closing
  BY <1>b, <1>t, <1>r, BusyHasJob DEF Fits, BusyFits, ActiveStatuses
\* Where the busy executor goes while its job stays open.
<1>n. ASSUME pc[p] \in Busy, Rests(p), pc'[p] \in Busy \ {"mark", "mark_row"},
             call'[p].job = j, call'[p].op = call[p].op,
             current'.job = k, current'.status \in ActiveStatuses,
             dir'[k].completion = NoResult, dir'[k].owner = p,
             pc'[p] = "finish_file" => call'[p].result.outcome = call'[p].status
      PROVE  Fits(p)'
  <2>1. RoleFits(p)'
    BY <1>n, <1>t DEF Fits, RoleFits, ExecutorSteps, Executing, Busy
  <2>2. BusyFits(p)'
    BY <1>b, <1>n DEF BusyFits, Busy, Rests, Opening
  <2> QED BY <1>n, <2>1, <2>2
          DEF Fits, LagFits, OutcomeFits, OpeningFits, RecordFits, Busy, Opening
\* A step that writes to a directory, or to the row of the job in hand.
<1>w. ASSUME Rests(p), Fits(p)', UNCHANGED <<master, phases>>,
             RowsFollow', \A i \in Jobs : RowTells(i)',
             \A i \in Jobs : /\ dir[i].request => dir'[i].request
                             /\ dir[i].artifacts => dir'[i].artifacts,
             \A i \in Jobs : Spent(i) => Spent(i)',
             \/ k \in Jobs /\ Fresh(k)
             \/ /\ current'.job = k
                /\ \/ pc[p] \in Busy
                   \/ k \in Jobs => dir'[k].completion = dir[k].completion
      PROVE  SuccessInv'
  <2>1. (Won => Won') /\ \A q \in Procs \ {p} : Fits(q)'
    BY <1>w, BesideExecutor
  <2>2. VerificationHasSuccess'
    BY <1>w, <2>1, VerifiedStays DEF SuccessInv
  <2> QED BY <1>w, <2>1, <2>2 DEF SuccessInv
<1>d. ASSUME UNCHANGED <<current, attempts>>,
             \A i \in Jobs : dir'[i].request = dir[i].request
      PROVE  /\ RowsFollow'
             /\ \A i \in Jobs : dir[i].request => dir'[i].request
             /\ \A i \in Jobs : Spent(i) => Spent(i)'
  BY <1>d DEF SuccessInv, RowsFollow, Spent, HasRow, Offered
<1>e. ASSUME NEW i \in Jobs, HasRow(i), NEW status, NEW result, UNCHANGED dir,
             SaveJob(i, status, result),
             status \in TerminalStatuses \cup {"RUNNING"}, status # "INGESTED",
             status \in RetryableStatuses => ~Successful(dir[i].completion)
      PROVE  /\ RowsFollow' /\ \A m \in Jobs : RowTells(m)'
             /\ \A m \in Jobs : dir[m].request => dir'[m].request
             /\ \A m \in Jobs : Spent(m) => Spent(m)'
             /\ current'.job = i /\ current'.status = status
  <2>1. /\ current'.job = i /\ current'.status = status
        /\ attempts'[i] = status /\ i # 0
        /\ \A m \in Jobs \ {i} : attempts'[m] = attempts[m]
        /\ status # "NONE" /\ status # "WAITING_EXTERNAL_CODEX"
    BY <1>e, <1>t, SaveJobFields
       DEF Jobs, TerminalStatuses, CompletionOutcomes
  <2>2. RowsFollow' /\ \A m \in Jobs : RowTells(m)'
    BY <1>e, <2>1 DEF SuccessInv, RowsFollow, RowTells, HasRow
  <2>3. \A m \in Jobs : Spent(m) => Spent(m)'
    BY <2>1 DEF Spent, HasRow, Offered
  <2> QED BY <1>e, <2>1, <2>2, <2>3
<1>q. ASSUME UNCHANGED <<dir, current, attempts, master, phases>>,
             Rests(p), Fits(p)'
      PROVE  SuccessInv'
  BY <1>o, <1>q, <1>t, <1>v, SuccessQuiet
<1>1. CASE Run(p)
  <2> DEFINE d == dir[k]
             step == IF d.artifacts /\ d.completion = NoResult
                       THEN "interrupt" ELSE "mark"
             c == [NoCall EXCEPT !.op = "run", !.job = k]
  <2>1. GotoWith(p, step, c) /\ c.job = k /\ c.op = "run"
    BY <1>1 DEF Run, NoCall
  <2>2. /\ Rests(p) /\ pc'[p] = step /\ call'[p].job = k
        /\ call'[p].op = "run"
    <3> HIDE DEF c, step
    <3> QED BY <1>t, <2>1, MoveFields
  <2>3. /\ MayRun /\ UNCHANGED <<dir, current, attempts, master, phases>>
        /\ k \in Jobs /\ HasRow(k) /\ ~Spent(k) /\ current.status # "NONE"
    BY <1>1, <1>r DEF Run, registry, MayRun, Spent, Offered
  <2>4. RoleFits(p)'
    BY <2>2 DEF RoleFits, ExecutorSteps, Executing
  <2>5. CASE step = "interrupt"
    BY <1>q, <1>t, <2>2, <2>3, <2>4, <2>5, EaseFits DEF AtEase
  <2>6. CASE step = "mark"
    <3>1. dir[k].completion = NoResult /\ ~dir[k].artifacts
      BY <2>3, <2>6 DEF WorkInv, JobUsed
    <3>2. ASSUME NEW q \in Procs \ {p} PROVE ~Opening(q) /\ pc[q] \notin Closing
      <4>1. Fits(q) /\ ClosesTheLeft(q) /\ q \notin Executors
        BY <1>t, OtherRole DEF SuccessInv, WorkInv
      <4>2. ~Opening(q)
        BY <2>3, <4>1 DEF Fits, OpeningFits, Jobs
      <4>3. pc[q] \notin Closing
        BY <2>3, <3>1, <4>1
           DEF Closing, Fits, OutcomeFits, RecordFits, ClosesTheLeft, Fresh,
               Offered, Spent
      <4> QED BY <4>2, <4>3
    <3>3. BusyFits(p)'
      BY <2>2, <2>3, <2>6, <3>1, <3>2
         DEF BusyFits, Busy, Rests, Opening, MayRun, ActiveStatuses
    <3>4. Fits(p)'
      BY <2>2, <2>4, <2>6, <3>3
         DEF Fits, LagFits, OutcomeFits, OpeningFits, RecordFits, Opening
    <3> QED BY <1>q, <2>2, <2>3, <3>4
  <2> QED BY <2>5, <2>6
<1>2. CASE Mark(p)
  <2>1. CASE ~MayRun
    BY <1>2, <1>t, <1>v, <2>1, SuccessStop DEF Mark, registry
  <2>2. CASE MayRun
    <3> DEFINE c == [call[p] EXCEPT !.marked = k]
    <3>1. GotoWith(p, "mark_row", c) /\ c.job = j /\ c.marked = k
          /\ c.op = call[p].op
      BY <1>2, <1>t, <2>2, CallFields DEF Mark
    <3>2. /\ pc[p] = "mark" /\ pc'[p] = "mark_row" /\ Rests(p)
          /\ call'[p].job = j /\ call'[p].marked = k
          /\ call'[p].op = call[p].op
      <4> HIDE DEF c
      <4> QED BY <1>2, <1>t, <3>1, MoveFields DEF Mark
    <3>3. /\ k \in Jobs /\ UNCHANGED <<current, attempts, master, phases>>
          /\ pc[p] \in Busy
      BY <1>2, <1>b, <2>2, <3>2 DEF Mark, registry, Busy
    <3>4. /\ dir'[k].owner = p
          /\ \A i \in Jobs : /\ dir'[i].completion = dir[i].completion
                             /\ dir'[i].request = dir[i].request
                             /\ dir'[i].artifacts = dir[i].artifacts
      BY <1>2, <1>t, <2>2, <3>3, MarkFields DEF Mark
    <3>5. BusyFits(p)'
      BY <1>b, <3>2, <3>3, <3>4 DEF BusyFits, Busy, Rests, Opening
    <3>6. Fits(p)'
      BY <1>t, <3>2, <3>5
         DEF Fits, RoleFits, LagFits, OutcomeFits, OpeningFits, RecordFits,
             Opening, ExecutorSteps, Executing
    <3>7. \A i \in Jobs : RowTells(i)'
      BY <3>3, <3>4 DEF SuccessInv, RowTells
    <3> QED BY <1>d, <1>w, <3>2, <3>3, <3>4, <3>6, <3>7
  <2> QED BY <2>1, <2>2
<1>3. CASE MarkRow(p)
  <2>1. /\ pc[p] = "mark_row" /\ pc'[p] = "execute" /\ Rests(p)
        /\ call'[p] = call[p] /\ UNCHANGED <<dir, master, phases>>
        /\ pc[p] \in Busy
    BY <1>3, <1>t, MoveFields DEF MarkRow, Busy
  <2>2. /\ call[p].marked = k /\ dir[k].owner = p
        /\ SaveJob(k, "RUNNING", NoResult)
    BY <1>3, <1>b, <2>1 DEF BusyFits, MarkRow
  <2>3. /\ RowsFollow' /\ \A m \in Jobs : RowTells(m)'
        /\ \A m \in Jobs : dir[m].request => dir'[m].request
        /\ \A m \in Jobs : Spent(m) => Spent(m)'
        /\ current'.job = k /\ current'.status = "RUNNING"
    BY <1>b, <1>e, <2>1, <2>2 DEF RetryableStatuses
  <2>4. Fits(p)'
    BY <1>b, <1>n, <2>1, <2>2, <2>3 DEF Busy, ActiveStatuses
  <2> QED BY <1>w, <2>1, <2>3, <2>4
<1>f. ASSUME NEW outcome, Finish(p, outcome), pc[p] \in {"execute", "codex"},
             UNCHANGED <<dir, current, attempts, master, phases>>
      PROVE  SuccessInv'
  <2> DEFINE result == [outcome |-> outcome, maker |-> p]
             c == [call[p] EXCEPT !.status = outcome, !.result = result]
  <2>1. /\ GotoWith(p, "finish_file", c) /\ c.job = j /\ c.op = call[p].op
        /\ c.status = outcome /\ c.result = result
        /\ result.outcome = outcome
    BY <1>f, <1>t, CallFields DEF Finish
  <2>2. /\ Rests(p) /\ pc'[p] = "finish_file" /\ call'[p].job = j
        /\ call'[p].op = call[p].op
        /\ call'[p].result.outcome = call'[p].status
    <3> HIDE DEF c, result
    <3> QED BY <1>t, <2>1, MoveFields
  <2>3. pc[p] \in Busy /\ dir[k].owner = p
    BY <1>b, <1>f DEF BusyFits, Busy
  <2>4. Fits(p)'
    BY <1>b, <1>f, <1>n, <2>2, <2>3 DEF Busy
  <2> QED BY <1>f, <1>q, <2>2, <2>4
<1>4. CASE Execute(p)
  <2>1. CASE Finish(p, "FAILED") /\ UNCHANGED <<dir, executions>>
    BY <1>4, <1>f, <2>1 DEF Execute, registry
  <2>2. CASE dir' = [dir EXCEPT ![j].artifacts = TRUE] /\ Goto(p, "codex")
    <3>1. /\ pc[p] = "execute" /\ pc'[p] = "codex" /\ Rests(p)
          /\ call'[p] = call[p] /\ pc[p] \in Busy
          /\ UNCHANGED <<current, attempts, master, phases>>
      BY <1>4, <1>t, <2>2, MoveFields DEF Execute, registry, Busy
    <3>2. /\ dir[k].owner = p
          /\ \A i \in Jobs : /\ dir'[i].completion = dir[i].completion
                             /\ dir'[i].request = dir[i].request
                             /\ dir'[i].owner = dir[i].owner
                             /\ dir[i].artifacts => dir'[i].artifacts
      BY <1>b, <1>t, <2>2, <3>1, ArtifactFields DEF BusyFits
    <3>3. Fits(p)'
      BY <1>b, <1>n, <3>1, <3>2 DEF Busy
    <3>4. \A i \in Jobs : RowTells(i)'
      BY <3>1, <3>2 DEF SuccessInv, RowTells
    <3> QED BY <1>d, <1>w, <3>1, <3>2, <3>3, <3>4
  <2> QED BY <1>4, <2>1, <2>2 DEF Execute
<1>5. CASE Codex(p)
  <2>1. CASE \E outcome \in CompletionOutcomes : Finish(p, outcome)
    BY <1>5, <1>f, <2>1 DEF Codex, registry
  <2>2. CASE Goto(p, "abort")
    <3>1. /\ pc[p] = "codex" /\ pc'[p] = "abort" /\ Rests(p)
          /\ call'[p] = call[p] /\ pc[p] \in Busy
          /\ UNCHANGED <<dir, current, attempts, master, phases>>
      BY <1>5, <1>t, <2>2, MoveFields DEF Codex, registry, Busy
    <3>2. Fits(p)'
      BY <1>b, <1>n, <3>1 DEF Busy, BusyFits
    <3> QED BY <1>q, <3>1, <3>2
  <2> QED BY <1>5, <2>1, <2>2 DEF Codex
<1>6. CASE FinishFile(p)
  <2>1. /\ Rests(p) /\ pc[p] = "finish_file" /\ pc'[p] = "signal"
        /\ call'[p] = call[p] /\ pc[p] \in Busy
        /\ UNCHANGED <<current, attempts, master, phases>>
    BY <1>6, <1>t, MoveFields DEF FinishFile, registry, Busy
  <2>2. /\ dir'[k].completion = call[p].result
        /\ \A i \in Jobs \ {k} : dir'[i] = dir[i]
        /\ \A i \in Jobs : /\ dir'[i].request = dir[i].request
                           /\ dir'[i].artifacts = dir[i].artifacts
    BY <1>6, <1>b, <1>t, <2>1, CompletionFields DEF FinishFile
  <2>3. Fits(p)'
    BY <1>b, <1>t, <2>1, <2>2
       DEF Fits, RoleFits, BusyFits, LagFits, OutcomeFits, OpeningFits,
           RecordFits, Opening, Busy, ExecutorSteps, Executing
  <2>4. \A i \in Jobs : RowTells(i)'
    BY <1>b, <2>1, <2>2
       DEF SuccessInv, RowTells, ActiveStatuses, RetryableStatuses
  <2> QED BY <1>d, <1>w, <2>1, <2>2, <2>3, <2>4
<1>7. CASE Signal(p)
  <2>1. /\ Rests(p) /\ pc[p] = "signal" /\ pc'[p] = "finish_row"
        /\ call'[p] = call[p]
        /\ UNCHANGED <<dir, current, attempts, master, phases>>
    BY <1>7, <1>t, MoveFields DEF Signal, registry
  <2>2. Fits(p)'
    BY <1>t, <2>1
       DEF Fits, RoleFits, BusyFits, LagFits, OutcomeFits, OpeningFits,
           RecordFits, Opening, Busy, ExecutorSteps, Executing, Fresh, Offered
  <2> QED BY <1>q, <2>1, <2>2
\* The last write of a command: the row of the current job, or of one that
\* was replaced by a job nobody took yet.
<1>l. ASSUME NEW i, HasRow(i), NEW status, NEW result, UNCHANGED <<dir, master, phases>>,
             SaveJob(i, status, result), Return(p),
             status \in TerminalStatuses, status # "INGESTED",
             status \in RetryableStatuses => ~Successful(dir[i].completion),
             i # k => Fresh(k)
      PROVE  SuccessInv'
  <2>1. Fits(p)' /\ Rests(p)
    BY <1>l, <1>t, StopFits DEF Fits
  <2>2. /\ RowsFollow' /\ \A m \in Jobs : RowTells(m)'
        /\ \A m \in Jobs : dir[m].request => dir'[m].request
        /\ \A m \in Jobs : Spent(m) => Spent(m)'
        /\ current'.job = i
    BY <1>e, <1>l DEF HasRow
  <2>3. Fresh(k) => k \in Jobs
    BY <1>r DEF Fresh, Offered
  <2> QED BY <1>l, <1>w, <2>1, <2>2, <2>3
<1>8. CASE FinishRow(p)
  <2>1. /\ pc[p] = "finish_row" /\ HasRow(j)
        /\ call[p].status \in CompletionOutcomes
        /\ call[p].result.outcome = call[p].status
        /\ dir[j].completion = call[p].result
        /\ j # k => Fresh(k)
    BY <1>8, <1>t
       DEF FinishRow, CallFits, Carrying, Executing, Fits, OutcomeFits, LagFits
  <2>2. /\ call[p].status \in TerminalStatuses /\ call[p].status # "INGESTED"
        /\ call[p].status \in RetryableStatuses =>
             ~Successful(dir[j].completion)
    BY <2>1
       DEF TerminalStatuses, CompletionOutcomes, RetryableStatuses, Successful
  <2> QED BY <1>8, <1>l, <2>1, <2>2 DEF FinishRow
<1>9. CASE Abort(p)
  <2>1. pc[p] = "abort" /\ pc[p] \in Busy
    BY <1>9 DEF Abort, Busy
  <2>2. current.status \in ActiveStatuses /\ k \in Jobs
    BY <1>b, <2>1
  <2> DEFINE c == [call[p] EXCEPT !.marked = k]
  <2>3. /\ GotoWith(p, "abort_row", c) /\ c.marked = k /\ c.op = call[p].op
        /\ CloseDir(k, "ABORTED_BY_USER")
    BY <1>9, <1>t, <2>2, CallFields DEF Abort
  <2>4. /\ Rests(p) /\ pc'[p] = "abort_row" /\ call'[p].marked = k
        /\ call'[p].op = call[p].op
    <3> HIDE DEF c
    <3> QED BY <1>t, <2>3, MoveFields
  <2>5. /\ UNCHANGED <<current, attempts, master, phases>>
        /\ \A i \in Jobs : /\ dir'[i].completion = dir[i].completion
                           /\ dir'[i].request = dir[i].request
                           /\ dir[i].artifacts => dir'[i].artifacts
    BY <1>9, <1>t, <2>2, <2>3, CloseFields DEF Abort, registry
  <2>6. Fits(p)'
    BY <1>t, <2>1, <2>4, <2>5
       DEF Fits, RoleFits, BusyFits, LagFits, OutcomeFits, OpeningFits,
           RecordFits, Opening, Busy, ExecutorSteps, Executing
  <2>7. \A i \in Jobs : RowTells(i)'
    BY <2>5 DEF SuccessInv, RowTells
  <2> QED BY <1>d, <1>w, <2>2, <2>4, <2>5, <2>6, <2>7
<1>10. CASE AbortRow(p)
  <2>1. HasRow(call[p].marked) /\ (call[p].marked # k => Fresh(k))
    BY <1>10, <1>t DEF AbortRow, CallFits, Fits, LagFits
  <2> QED BY <1>10, <1>l, <2>1
          DEF AbortRow, TerminalStatuses, RetryableStatuses
<1> QED BY <1>1, <1>2, <1>3, <1>4, <1>5, <1>6, <1>7, <1>8, <1>9, <1>10
        DEF ExecutorStep

LEMMA InterruptionKeepsSuccess ==
    ASSUME OneExecutor, OneOperator, WorkInv, SuccessInv, NEW p \in Procs,
           \/ Retry(p) /\ p \in Operators
           \/ InterruptStep(p) \/ Crash(p)
    PROVE  SuccessInv'
<1> USE JobAssumption
<1>t. /\ BaseInv /\ TypeOK /\ CallFits(p) /\ call[p] \in Calls
      /\ Fits(p) /\ RowFits /\ current.job \in 0..MaxJobs /\ ClosesTheLeft(p)
  BY DEF WorkInv, BaseInv, SuccessInv, TypeOK, JobRow
<1>v. master.step # "IMPLEMENTATION" \/ phases # {} => Won
  BY DEF SuccessInv, VerificationHasSuccess, Won
<1> DEFINE j == call[p].job
           k == current.job
<1>r. ASSUME current.status # "NONE"
      PROVE  k \in Jobs /\ HasRow(k) /\ attempts[k] = current.status
  BY <1>r, <1>t DEF RowFits, HasRow
\* The others, when it writes to the job it closes.
<1>w. ASSUME Rests(p), pc[p] \in {"interrupt_file", "interrupt_row"},
             \A i \in Jobs : /\ dir'[i].completion = dir[i].completion
                             /\ dir'[i].request = dir[i].request
                             /\ dir[i].artifacts => dir'[i].artifacts,
             \A i \in Jobs : Spent(i) => Spent(i)',
             current'.job = k \/ current'.job = j
      PROVE  (Won => Won') /\ \A q \in Procs \ {p} : Fits(q)'
  <2>1. CASE p \in Executors
    <3>1. Fresh(k) => k \in Jobs
      BY <1>r DEF Fresh, Offered
    <3>2. j # k => Fresh(k)
      BY <1>t, <1>w DEF Fits, LagFits
    <3> QED BY <1>w, <2>1, <3>1, <3>2, BesideExecutor
  <2>2. CASE p \notin Executors
    <3>1. p \in Operators /\ j = k
      BY <1>t, <1>w, <2>2 DEF Fits, OutcomeFits, Procs
    <3> QED BY <1>w, <3>1, BesideOperator DEF Closing
  <2> QED BY <2>1, <2>2
<1>1. CASE Retry(p) /\ p \in Operators
  <2> DEFINE c == [NoCall EXCEPT !.op = "retry"]
  <2>1. /\ UNCHANGED <<dir, current, attempts, master, phases>>
        /\ \/ current.status = "TIMED_OUT" /\ GotoWith(p, "find", c)
           \/ GotoWith(p, "interrupt", c)
    BY <1>1 DEF Retry, registry
  <2>2. /\ Rests(p)
        /\ \/ current.status = "TIMED_OUT" /\ pc'[p] = "find"
           \/ pc'[p] = "interrupt"
    <3> HIDE DEF c
    <3> QED BY <1>t, <2>1, MoveFields
  <2>3. CASE pc'[p] = "interrupt"
    <3>1. Fits(p)' /\ (~Opening(p))' /\ pc'[p] \notin Closing
      BY <1>1, <2>3, EaseFits DEF AtEase, Opening, Closing, RoleFits
    <3> QED BY <1>v, <2>1, <2>2, <3>1, SuccessQuiet
  <2>4. CASE current.status = "TIMED_OUT" /\ pc'[p] = "find"
    <3>1. k \in Jobs /\ HasRow(k) /\ attempts[k] = "TIMED_OUT"
      BY <1>r, <2>4
    <3>2. Spent(k) /\ ~Won
      BY <2>4, <3>1
         DEF Spent, Offered, SuccessInv, RowTells, RetryableStatuses, Won
    <3>3. current'.job = k /\ Spent(k)' /\ ~Won'
      BY <2>1, <3>2 DEF Spent, HasRow, Offered, Won
    <3>4. Fits(p)'
      BY <1>1, <2>4, <3>3
         DEF Fits, RoleFits, BusyFits, LagFits, OutcomeFits, OpeningFits,
             RecordFits, Busy
    <3>5. ASSUME NEW q \in Procs, pc[q] \in Busy PROVE FALSE
      BY <2>4, <3>5, BusyHasJob DEF ActiveStatuses
    <3> QED BY <1>v, <2>1, <2>2, <3>4, <3>5, SuccessQuiet
  <2> QED BY <2>2, <2>3, <2>4
<1>2. CASE Interrupt(p)
  <2>1. CASE ~Stale
    BY <1>2, <1>v, <2>1, SuccessStop DEF Interrupt, registry
  <2>2. CASE Stale
    <3>2. /\ Rests(p) /\ pc[p] = "interrupt" /\ pc'[p] = "load"
          /\ call'[p] = call[p]
          /\ UNCHANGED <<dir, current, attempts, master, phases>>
      BY <1>2, <1>t, <2>2, MoveFields DEF Interrupt, registry
    <3>3. dir[k].completion = NoResult /\ dir[k].artifacts /\ ~OwnerLive(k)
      BY <2>2 DEF Stale
    <3>4. Fits(p)'
      BY <1>t, <3>2, <3>3
         DEF Fits, RoleFits, BusyFits, LagFits, OutcomeFits, OpeningFits,
             RecordFits, Opening, Busy, ExecutorSteps, Executing, Fresh
    <3>5. ASSUME NEW q \in Procs, pc[q] \in Busy PROVE FALSE
      <4>1. /\ BusyFits(q) /\ q \in Executors /\ call[q].job = k
            /\ ExecutorSafe(q)
        BY <3>5
           DEF SuccessInv, Fits, BusyFits, WorkInv, BaseInv, CallFits,
               Executing, Busy
      <4>2. CASE pc[q] = "mark"
        BY <3>3, <4>1, <4>2 DEF ExecutorSafe
      <4>3. CASE pc[q] # "mark"
        BY <3>3, <3>5, <4>1, <4>3 DEF BusyFits, OwnerLive, Busy, Executing
      <4> QED BY <4>2, <4>3
    <3> QED BY <1>v, <3>2, <3>4, <3>5, SuccessQuiet
  <2> QED BY <2>1, <2>2
<1>6. CASE LoadStale(p)
  <2> DEFINE c == [call[p] EXCEPT !.job = k]
  <2>1. GotoWith(p, "interrupt_file", c) /\ c.job = k /\ c.op = call[p].op
    BY <1>6, <1>t, CallFields DEF LoadStale
  <2>2. /\ Rests(p) /\ pc[p] = "load" /\ pc'[p] = "interrupt_file"
        /\ call'[p].job = k /\ call'[p].op = call[p].op
        /\ UNCHANGED <<dir, current, attempts, master, phases>>
    <3> HIDE DEF c
    <3> QED BY <1>6, <1>t, <2>1, MoveFields DEF LoadStale, registry
  <2>3. Fits(p)'
    BY <1>t, <2>2
       DEF Fits, RoleFits, BusyFits, LagFits, OutcomeFits, OpeningFits,
           RecordFits, Opening, Busy, ExecutorSteps, Executing
  <2>4. ASSUME NEW q \in Procs, pc[q] \in Busy PROVE FALSE
    BY <2>2, <2>4, BusyHasJob DEF Busy, Closing
  <2> QED BY <1>v, <2>2, <2>3, <2>4, SuccessQuiet
<1>3. CASE InterruptFile(p)
  <2>1. /\ Rests(p) /\ pc[p] = "interrupt_file" /\ pc'[p] = "interrupt_row"
        /\ call'[p] = call[p] /\ j \in Jobs
        /\ UNCHANGED <<current, attempts, master, phases>>
    BY <1>3, <1>t, MoveFields
       DEF InterruptFile, registry, CallFits, Carrying, HasRow
  <2>2. /\ \A i \in Jobs : /\ dir'[i].completion = dir[i].completion
                           /\ dir'[i].request = dir[i].request
                           /\ dir[i].artifacts => dir'[i].artifacts
        /\ \A i \in Jobs \ {j} : dir'[i] = dir[i]
    BY <1>3, <1>t, <2>1, CloseFields DEF InterruptFile
  <2>3. Fits(p)'
    <3>1. j # k => Fresh(k) /\ k \in Jobs
      BY <1>r, <1>t, <2>1 DEF Fits, LagFits, Fresh, Offered
    <3>2. j # k => Fresh(k)'
      BY <2>1, <2>2, <3>1 DEF Fresh, Offered
    <3> QED BY <1>t, <2>1, <2>2, <3>2
            DEF Fits, RoleFits, BusyFits, LagFits, OutcomeFits, OpeningFits,
                RecordFits, Opening, Busy, ExecutorSteps, Executing
  <2>4. RowsFollow' /\ \A i \in Jobs : RowTells(i)'
    BY <2>1, <2>2 DEF SuccessInv, RowsFollow, RowTells
  <2>5. \A i \in Jobs : Spent(i) => Spent(i)'
    BY <2>1 DEF Spent, HasRow, Offered
  <2>6. (Won => Won') /\ \A q \in Procs \ {p} : Fits(q)'
    BY <1>w, <2>1, <2>2, <2>5
  <2>7. VerificationHasSuccess'
    BY <2>1, <2>6, VerifiedStays DEF SuccessInv
  <2> QED BY <2>3, <2>4, <2>6, <2>7 DEF SuccessInv
<1>4. CASE InterruptRow(p)
  <2>1. /\ Rests(p) /\ pc[p] = "interrupt_row" /\ HasRow(j) /\ j \in Jobs
        /\ SaveJob(j, "INTERRUPTED", NoResult)
        /\ UNCHANGED <<dir, master, phases>>
        /\ dir[j].completion = NoResult
    BY <1>4, <1>t, MoveFields
       DEF InterruptRow, CallFits, Carrying, HasRow, Fits, OutcomeFits
  <2>2. /\ current'.job = j /\ current'.status = "INTERRUPTED"
        /\ attempts'[j] = "INTERRUPTED"
        /\ \A i \in Jobs \ {j} : attempts'[i] = attempts[i]
    BY <1>t, <2>1, SaveJobFields
  <2>3. RowsFollow' /\ \A i \in Jobs : RowTells(i)'
    <3>1. RowsFollow'
      BY <2>1, <2>2 DEF SuccessInv, RowsFollow, HasRow, Jobs
    <3>2. ASSUME NEW i \in Jobs PROVE RowTells(i)'
      BY <2>1, <2>2 DEF SuccessInv, RowTells, Successful
    <3> QED BY <3>1, <3>2
  <2>4. \A i \in Jobs : Spent(i) => Spent(i)'
    BY <2>2 DEF Spent, HasRow, Offered
  <2>5. (Won => Won') /\ \A q \in Procs \ {p} : Fits(q)'
    BY <1>w, <2>1, <2>2, <2>4
  <2>6. Fits(p)'
    <3>1. CASE Return(p)
      BY <1>t, <3>1, StopFits DEF Fits
    <3>2. CASE Goto(p, "find") /\ call[p].op = "retry"
      <4>1. pc'[p] = "find" /\ call'[p] = call[p] /\ p \in Operators
        BY <1>t, <3>2, MoveFields DEF Fits, RoleFits
      <4>2. Spent(j)' /\ ~Won'
        BY <2>1, <2>2, <4>1 DEF Spent, HasRow, Offered, Won, Successful
      <4> QED BY <2>2, <4>1, <4>2
              DEF Fits, RoleFits, BusyFits, LagFits, OutcomeFits, OpeningFits,
                  RecordFits, Busy
    <3> QED BY <1>4, <3>1, <3>2 DEF InterruptRow
  <2>7. VerificationHasSuccess'
    BY <2>1, <2>5, VerifiedStays DEF SuccessInv
  <2> QED BY <2>3, <2>5, <2>6, <2>7 DEF SuccessInv
<1>5. CASE Crash(p)
  BY <1>5, <1>v, SuccessStop DEF Crash, registry
<1> QED BY <1>1, <1>2, <1>3, <1>4, <1>5, <1>6 DEF InterruptStep

LEMMA RecordingKeepsSuccess ==
    ASSUME OneExecutor, OneOperator, WorkInv, SuccessInv, NEW p \in Operators,
           \/ Reconcile(p) \/ LoadTerminal(p) \/ ReconcileRow(p)
           \/ ReconcileMaster(p) \/ ReconcileEvent(p) \/ JournalResult(p)
           \/ Ingest(p) \/ IngestRow(p) \/ IngestMaster(p) \/ IngestEvent(p)
    PROVE  SuccessInv'
<1> USE JobAssumption
<1>t. /\ BaseInv /\ TypeOK /\ CallFits(p) /\ p \in Procs /\ call[p] \in Calls
      /\ Fits(p) /\ RowFits /\ current.job \in 0..MaxJobs
  BY DEF WorkInv, BaseInv, SuccessInv, TypeOK, JobRow, Procs
<1>v. master.step # "IMPLEMENTATION" \/ phases # {} => Won
  BY DEF SuccessInv, VerificationHasSuccess, Won
<1>r. RoleFits(p)'
  BY DEF RoleFits
<1> DEFINE j == call[p].job
           k == current.job
           done == dir[k].completion
<1>q. ASSUME UNCHANGED <<dir, current, attempts>>, Rests(p), Fits(p)',
             (~Opening(p))',
             pc'[p] \in Closing => \A q \in Procs : pc[q] \notin Busy,
             master'.step # "IMPLEMENTATION" \/ phases' # {} => Won
      PROVE  SuccessInv'
  BY <1>q, <1>t, SuccessQuiet
<1>w. ASSUME UNCHANGED dir PROVE (Won <=> Won') \/ current'.job # k
  BY <1>w DEF Won
\* Where it goes once the row tells the result.
<1>n. ASSUME pc'[p] \in {"reconcile_master", "reconcile_event", "journal",
                         "adapter"},
             call'[p] = call[p],
             pc'[p] = "adapter" \/ Successful(call[p].result) => Won'
      PROVE  Fits(p)' /\ (~Opening(p))' /\ pc'[p] \notin Closing
  BY <1>n, <1>r
     DEF Fits, BusyFits, LagFits, OutcomeFits, OpeningFits, RecordFits, Opening,
         Busy, Closing
<1>1. CASE Reconcile(p)
  <2> DEFINE c == [NoCall EXCEPT !.op = "reconcile"]
  <2>1. GotoWith(p, "reconcile", c) /\ c.result = NoResult
    BY <1>1 DEF Reconcile, Start, NoCall
  <2>2. Rests(p) /\ pc'[p] = "reconcile" /\ call'[p].result = NoResult
    <3> HIDE DEF c
    <3> QED BY <1>t, <2>1, MoveFields
  <2>3. Fits(p)' /\ (~Opening(p))' /\ pc'[p] \notin Closing
    BY <1>r, <2>2
       DEF Fits, BusyFits, LagFits, OutcomeFits, OpeningFits, RecordFits,
           Opening, Busy, Closing
  <2> QED BY <1>1, <1>q, <1>v, <2>2, <2>3 DEF Reconcile, Start, registry
<1>2. CASE LoadTerminal(p)
  <2> DEFINE c == [call[p] EXCEPT !.job = k, !.status = done.outcome,
                                  !.result = done]
             d == [call[p] EXCEPT !.job = k, !.status = current.status]
  <2>1. /\ UNCHANGED <<dir, current, attempts, master, phases>>
        /\ call[p].result = NoResult
        /\ \/ GotoWith(p, "reconcile_row", c) /\ done # NoResult
           \/ /\ GotoWith(p, "reconcile_row", d) /\ done = NoResult
              /\ current.status \in {"INTERRUPTED", "ABORTED_BY_USER"}
           \/ Raise(p)
    BY <1>2, <1>t
       DEF LoadTerminal, Validated, registry, Fits, RecordFits
  <2>2. /\ c.job = k /\ c.status = done.outcome /\ c.result = done
        /\ d.job = k /\ d.status = current.status /\ d.result = call[p].result
    BY <1>t, CallFields
  <2>3. CASE GotoWith(p, "reconcile_row", c) /\ done # NoResult
    <3>1. /\ Rests(p) /\ pc'[p] = "reconcile_row" /\ call'[p].job = k
          /\ call'[p].status = done.outcome /\ call'[p].result = done
      <4> HIDE DEF c
      <4> QED BY <1>t, <2>2, <2>3, MoveFields
    <3>2. Fits(p)' /\ (~Opening(p))'
      BY <1>r, <2>1, <2>3, <3>1
         DEF Fits, BusyFits, LagFits, OutcomeFits, OpeningFits, RecordFits,
             Opening, Busy
    <3>3. \A q \in Procs : pc[q] \notin Busy
      BY <2>3, BusyHasJob
    <3> QED BY <1>q, <1>v, <2>1, <3>1, <3>2, <3>3
  <2>4. CASE /\ GotoWith(p, "reconcile_row", d) /\ done = NoResult
             /\ current.status \in {"INTERRUPTED", "ABORTED_BY_USER"}
    <3>1. /\ Rests(p) /\ pc'[p] = "reconcile_row" /\ call'[p].job = k
          /\ call'[p].status = current.status /\ call'[p].result = NoResult
      <4> HIDE DEF d
      <4> QED BY <1>t, <2>1, <2>2, <2>4, MoveFields
    <3>2. ~Won'
      BY <2>1, <2>4 DEF Won, Successful
    <3>3. Fits(p)' /\ (~Opening(p))'
      BY <1>r, <2>1, <2>4, <3>1, <3>2
         DEF Fits, BusyFits, LagFits, OutcomeFits, OpeningFits, RecordFits,
             Opening, Busy
    <3>4. \A q \in Procs : pc[q] \notin Busy
      BY <2>4, BusyHasJob DEF ActiveStatuses
    <3> QED BY <1>q, <1>v, <2>1, <3>1, <3>3, <3>4
  <2>5. CASE Raise(p)
    BY <1>t, <1>v, <2>1, <2>5, SuccessStop
  <2> HIDE DEF c, d
  <2> QED BY <2>1, <2>3, <2>4, <2>5
\* A result goes into the row of the current job.
<1>s. ASSUME UNCHANGED <<dir, master, phases>>, Rests(p), Fits(p)',
             pc[p] \in Closing \ {"load"}, HasRow(k),
             NEW status \in TerminalStatuses,
             NEW result, SaveJob(k, status, result),
             status = "INGESTED" => Successful(done),
             status \in RetryableStatuses => ~Successful(done)
      PROVE  SuccessInv'
  <2>1. /\ current'.job = k /\ attempts'[k] = status /\ k \in Jobs
        /\ \A i \in Jobs \ {k} : attempts'[i] = attempts[i]
    BY <1>s, <1>t, SaveJobFields DEF HasRow
  <2>2. RowsFollow'
    BY <1>s, <2>1 DEF SuccessInv, RowsFollow, HasRow
  <2>3. \A i \in Jobs : RowTells(i)'
    BY <1>s, <2>1 DEF SuccessInv, RowTells
  <2>4. (Won => Won') /\ \A q \in Procs \ {p} : Fits(q)'
    BY <1>s, <2>1, BesideOperator
  <2>5. VerificationHasSuccess'
    BY <1>s, <2>4, VerifiedStays DEF SuccessInv
  <2> QED BY <1>s, <2>2, <2>3, <2>4, <2>5 DEF SuccessInv
<1>3. CASE ReconcileRow(p)
  <2> DEFINE status == IF Successful(call[p].result)
                         THEN "INGESTED" ELSE call[p].status
  <2>1. /\ Rests(p) /\ pc[p] = "reconcile_row" /\ pc'[p] = "reconcile_master"
        /\ call'[p] = call[p] /\ UNCHANGED <<dir, master, phases>>
        /\ SaveJob(j, status, call[p].result) /\ status \in TerminalStatuses
        /\ HasRow(j) /\ j = k
    BY <1>3, <1>t, MoveFields
       DEF ReconcileRow, CallFits, Carrying, TerminalStatuses, Fits, RecordFits
  <2>2. /\ Successful(call[p].result) => Successful(done)
        /\ call[p].status # "INGESTED"
        /\ ~Successful(call[p].result) => ~Successful(done)
    <3>1. CASE call[p].result = NoResult
      BY <1>t, <2>1, <3>1 DEF Fits, RecordFits, Won, Successful, HasRow, Jobs
    <3>2. CASE call[p].result # NoResult
      <4>1. call[p].result = done /\ call[p].status = done.outcome
        BY <1>t, <2>1, <3>2 DEF Fits, RecordFits
      <4>2. done \in Completion
        <5>1. dir[k] \in JobDir
          BY <1>t, <2>1 DEF TypeOK, HasRow
        <5> QED BY <3>2, <4>1, <5>1 DEF JobDir
      <4> QED BY <4>1, <4>2 DEF Completion, CompletionOutcomes
    <3> QED BY <3>1, <3>2
  <2>3. current'.job = k
    BY <2>1 DEF SaveJob
  <2>4. Fits(p)'
    BY <1>n, <2>1, <2>2, <2>3 DEF Won, HasRow, Jobs
  <2>5. /\ status = "INGESTED" => Successful(done)
        /\ status \in RetryableStatuses => ~Successful(done)
    BY <2>2 DEF RetryableStatuses
  <2> HIDE DEF status
  <2> QED BY <1>s, <2>1, <2>4, <2>5 DEF Closing
<1>4. CASE ReconcileMaster(p)
  <2>1. /\ Rests(p) /\ pc[p] = "reconcile_master"
        /\ pc'[p] = "reconcile_event" /\ call'[p] = call[p]
        /\ UNCHANGED <<dir, current, attempts, phases>>
    BY <1>4, <1>t, MoveFields DEF ReconcileMaster
  <2>2. Successful(call[p].result) => Won
    BY <1>t, <2>1 DEF Fits, RecordFits
  <2>3. Fits(p)' /\ (~Opening(p))' /\ pc'[p] \notin Closing
    BY <1>n, <1>w, <2>1, <2>2
  <2>4. master'.step # "IMPLEMENTATION" \/ phases' # {} => Won
    BY <1>4, <1>v, <2>1, <2>2 DEF ReconcileMaster
  <2> QED BY <1>q, <2>1, <2>3, <2>4
<1>5. CASE ReconcileEvent(p)
  <2>1. /\ pc[p] = "reconcile_event"
        /\ UNCHANGED <<dir, current, attempts, master, phases>>
        /\ \/ Goto(p, "journal")
           \/ Goto(p, "adapter") /\ Successful(call[p].result)
           \/ Return(p) \/ Raise(p)
    BY <1>5 DEF ReconcileEvent, AfterReconcile, registry
  <2>4. CASE Goto(p, "journal")
    <3>1. /\ Rests(p) /\ pc'[p] = "journal" /\ call'[p] = call[p]
          /\ Successful(call[p].result) => Won
      BY <1>t, <2>1, <2>4, MoveFields DEF Fits, RecordFits
    <3>2. Fits(p)' /\ (~Opening(p))' /\ pc'[p] \notin Closing
      BY <1>n, <1>w, <2>1, <3>1
    <3> QED BY <1>q, <1>v, <2>1, <3>1, <3>2
  <2>2. CASE Goto(p, "adapter") /\ Successful(call[p].result)
    <3>1. Rests(p) /\ pc'[p] = "adapter" /\ call'[p] = call[p] /\ Won
      BY <1>t, <2>1, <2>2, MoveFields DEF Fits, RecordFits
    <3>2. Fits(p)' /\ (~Opening(p))' /\ pc'[p] \notin Closing
      BY <1>n, <1>w, <2>1, <3>1
    <3> QED BY <1>q, <1>v, <2>1, <3>1, <3>2
  <2>3. CASE Return(p) \/ Raise(p)
    BY <1>t, <1>v, <2>1, <2>3, SuccessStop
  <2> QED BY <2>1, <2>2, <2>3, <2>4
<1>10. CASE JournalResult(p)
  <2>1. /\ pc[p] = "journal"
        /\ UNCHANGED <<dir, current, attempts, master, phases>>
        /\ \/ Goto(p, "adapter") /\ Successful(call[p].result)
           \/ Return(p) \/ Raise(p)
    BY <1>10 DEF JournalResult, AfterReconcile
  <2>2. CASE Goto(p, "adapter") /\ Successful(call[p].result)
    <3>1. Rests(p) /\ pc'[p] = "adapter" /\ call'[p] = call[p] /\ Won
      BY <1>t, <2>1, <2>2, MoveFields DEF Fits, RecordFits
    <3>2. Fits(p)' /\ (~Opening(p))' /\ pc'[p] \notin Closing
      BY <1>n, <1>w, <2>1, <3>1
    <3> QED BY <1>q, <1>v, <2>1, <3>1, <3>2
  <2>3. CASE Return(p) \/ Raise(p)
    BY <1>t, <1>v, <2>1, <2>3, SuccessStop
  <2> QED BY <2>1, <2>2, <2>3
<1>6. CASE Ingest(p)
  <2> DEFINE c == [NoCall EXCEPT !.op = "ingest", !.job = k, !.result = done]
  <2>1. GotoWith(p, "ingest_row", c) /\ c.job = k
    BY <1>6 DEF Ingest, NoCall
  <2>2. Rests(p) /\ pc'[p] = "ingest_row" /\ call'[p].job = k
    <3> HIDE DEF c
    <3> QED BY <1>t, <2>1, MoveFields
  <2>3. /\ Won /\ UNCHANGED <<dir, current, attempts, master, phases>>
        /\ done # NoResult
    BY <1>6 DEF Ingest, registry, Won, Validated
  <2>4. Fits(p)' /\ (~Opening(p))'
    BY <1>r, <1>w, <2>2, <2>3
       DEF Fits, BusyFits, LagFits, OutcomeFits, OpeningFits, RecordFits,
           Opening, Busy
  <2>5. \A q \in Procs : pc[q] \notin Busy
    BY <2>3, BusyHasJob
  <2> QED BY <1>q, <1>v, <2>2, <2>3, <2>4, <2>5
<1>7. CASE IngestRow(p)
  <2>1. /\ Rests(p) /\ pc[p] = "ingest_row" /\ pc'[p] = "ingest_master"
        /\ UNCHANGED <<dir, master, phases>>
        /\ SaveJob(j, "INGESTED", call[p].result) /\ HasRow(j) /\ j = k /\ Won
    BY <1>7, <1>t, MoveFields
       DEF IngestRow, CallFits, Carrying, Fits, RecordFits
  <2>2. Fits(p)'
    BY <1>r, <1>t, <2>1, EaseFits DEF AtEase
  <2> QED BY <1>s, <2>1, <2>2
          DEF Closing, Won, TerminalStatuses, RetryableStatuses
<1>8. CASE IngestMaster(p)
  <2>1. /\ Rests(p) /\ pc'[p] = "ingest_event"
        /\ UNCHANGED <<dir, current, attempts, phases>>
    BY <1>8, <1>t, MoveFields DEF IngestMaster
  <2>2. master'.step = master.step
    BY <1>8, <1>t DEF IngestMaster, TypeOK, MasterRow
  <2>3. Fits(p)' /\ (~Opening(p))' /\ pc'[p] \notin Closing
    BY <1>r, <1>t, <2>1, EaseFits DEF AtEase, Opening, Closing
  <2> QED BY <1>q, <1>v, <2>1, <2>2, <2>3
<1>9. CASE IngestEvent(p)
  BY <1>9, <1>t, <1>v, SuccessStop DEF IngestEvent
<1> QED BY <1>1, <1>2, <1>3, <1>4, <1>5, <1>6, <1>7, <1>8, <1>9, <1>10

LEMMA ResumptionKeepsSuccess ==
    ASSUME OneExecutor, OneOperator, WorkInv, SuccessInv, NEW p \in Operators,
           \/ Resume(p) \/ Inspect(p) \/ Wait(p) \/ Adapter(p)
           \/ EnterVerification(p) \/ FinishRun(p) \/ Fail(p)
    PROVE  SuccessInv'
<1> USE JobAssumption
<1>t. /\ BaseInv /\ TypeOK /\ CallFits(p) /\ p \in Procs /\ call[p] \in Calls
      /\ Fits(p) /\ RowFits
  BY DEF WorkInv, BaseInv, SuccessInv, TypeOK, Procs
<1>v. master.step # "IMPLEMENTATION" \/ phases # {} => Won
  BY DEF SuccessInv, VerificationHasSuccess, Won
<1>u. UNCHANGED <<dir, current, attempts>> /\ (Won <=> Won')
  BY DEF Resume, Inspect, Wait, Adapter, EnterVerification, FinishRun, Fail,
         registry, Won
<1>n. ASSUME Rests(p), master'.step # "IMPLEMENTATION" \/ phases' # {} => Won,
             \/ pc'[p] \in {"refuse", "wait"}
             \/ pc'[p] \in {"technical", "adapter", "enter_verification"} /\ Won
             \/ pc'[p] \in {"inspect", "reconcile"}
                /\ call'[p].result = NoResult
             \/ pc'[p] = "find" /\ call'[p].op = "resume"
      PROVE  SuccessInv'
  <2>1. Fits(p)' /\ (~Opening(p))' /\ pc'[p] \notin Closing
    BY <1>n, <1>u
       DEF Fits, RoleFits, BusyFits, LagFits, OutcomeFits, OpeningFits,
           RecordFits, Opening, Busy, Closing
  <2> QED BY <1>n, <1>t, <1>u, <2>1, SuccessQuiet
<1>1. CASE Resume(p)
  <2> DEFINE c == [NoCall EXCEPT !.op = "resume", !.from = master.step]
  <2>1. /\ c.result = NoResult /\ UNCHANGED <<master, phases>>
        /\ \/ GotoWith(p, "refuse", c) \/ GotoWith(p, "inspect", c)
           \/ GotoWith(p, "technical", c) /\ phases # {}
    BY <1>1 DEF Resume, NoCall, registry
  <2>2. /\ Rests(p) /\ call'[p].result = NoResult
        /\ \/ pc'[p] \in {"refuse", "inspect"}
           \/ pc'[p] = "technical" /\ phases # {}
    <3> HIDE DEF c
    <3> QED BY <1>t, <2>1, MoveFields
  <2> QED BY <1>n, <1>v, <2>1, <2>2
<1>2. CASE Inspect(p)
  <2> DEFINE c == [call[p] EXCEPT !.job = current.job]
             d == [call[p] EXCEPT !.op = "settle"]
  <2>1. /\ \/ Goto(p, "find") \/ Goto(p, "reconcile")
           \/ Goto(p, "adapter") /\ current.status = "INGESTED"
           \/ GotoWith(p, "wait", c) \/ GotoWith(p, "reconcile", d)
        /\ call[p].result = NoResult /\ call[p].op = "resume"
        /\ UNCHANGED <<master, phases>>
    BY <1>2, <1>t DEF Inspect, CallFits, Fits, RecordFits, registry
  <2>2. d.result = NoResult
    BY <1>t, <2>1, CallFields
  <2>3. /\ Rests(p)
        /\ \/ pc'[p] = "wait"
           \/ pc'[p] = "adapter" /\ current.status = "INGESTED"
           \/ pc'[p] = "reconcile" /\ call'[p].result = NoResult
           \/ pc'[p] = "find" /\ call'[p].op = "resume"
    <3> HIDE DEF c, d
    <3> QED BY <1>t, <2>1, <2>2, MoveFields
  <2>4. current.status = "INGESTED" => Won
    BY <1>t DEF RowFits, HasRow, SuccessInv, RowTells, Won
  <2> QED BY <1>n, <1>v, <2>1, <2>3, <2>4
<1>3. CASE Wait(p)
  <2>1. Return(p) /\ master'.step = "IMPLEMENTATION" /\ UNCHANGED phases
    BY <1>3 DEF Wait
  <2> QED BY <1>t, <1>u, <1>v, <2>1, SuccessStop
<1>4. CASE Adapter(p)
  <2>1. Won /\ UNCHANGED master
    BY <1>4, <1>t DEF Adapter, Fits, RecordFits
  <2>2. CASE Goto(p, "enter_verification")
    <3>1. Rests(p) /\ pc'[p] = "enter_verification"
      BY <1>t, <2>2, MoveFields
    <3> QED BY <1>n, <2>1, <3>1
  <2>3. CASE Raise(p) \/ Refuse(p)
    BY <1>t, <1>u, <2>1, <2>3, SuccessStop
  <2> QED BY <1>4, <2>2, <2>3 DEF Adapter
<1>5. CASE EnterVerification(p)
  <2>1. Won
    BY <1>5, <1>t DEF EnterVerification, Fits, RecordFits
  <2>2. CASE Goto(p, "technical")
    <3>1. Rests(p) /\ pc'[p] = "technical"
      BY <1>t, <2>2, MoveFields
    <3> QED BY <1>n, <2>1, <3>1
  <2>3. CASE Return(p)
    BY <1>t, <1>u, <2>1, <2>3, SuccessStop
  <2> QED BY <1>5, <2>2, <2>3 DEF EnterVerification
<1>6. CASE FinishRun(p)
  <2>1. Won /\ (Return(p) \/ Raise(p) \/ Refuse(p))
    BY <1>6, <1>t DEF FinishRun, Fits, RecordFits
  <2> QED BY <1>t, <1>u, <2>1, SuccessStop
<1>7. CASE Fail(p)
  <2>1. Return(p) /\ UNCHANGED phases /\ master'.step = master.step
    BY <1>7, <1>t DEF Fail, TypeOK, MasterRow
  <2> QED BY <1>t, <1>u, <1>v, <2>1, SuccessStop
<1> QED BY <1>1, <1>2, <1>3, <1>4, <1>5, <1>6, <1>7

LEMMA InitSuccess == Init => SuccessInv
<1> SUFFICES ASSUME Init PROVE SuccessInv
  OBVIOUS
<1>1. RowsFollow /\ \A j \in Jobs : RowTells(j)
  BY DEF Init, RowsFollow, RowTells, RetryableStatuses
<1>2. \A p \in Procs : Fits(p)
  BY DEF Init, NoCall, Fits, RoleFits, BusyFits, LagFits, OutcomeFits,
         OpeningFits, RecordFits, Opening, Busy, ExecutorSteps
<1>3. VerificationHasSuccess
  BY DEF Init, VerificationHasSuccess
<1> QED BY <1>1, <1>2, <1>3 DEF SuccessInv

LEMMA NextSuccess ==
    ASSUME OneExecutor, OneOperator
    PROVE  WorkInv /\ SuccessInv /\ [Next]_vars => SuccessInv'
<1> SUFFICES ASSUME WorkInv, SuccessInv, [Next]_vars PROVE SuccessInv'
  OBVIOUS
<1>1. ASSUME NEW p \in Executors, ExecutorStep(p) PROVE SuccessInv'
  BY <1>1, ExecutionKeepsSuccess
<1>2. ASSUME NEW p \in Operators, OperatorStep(p) PROVE SuccessInv'
  BY <1>2, CreationKeepsSuccess, InterruptionKeepsSuccess,
     RecordingKeepsSuccess, ResumptionKeepsSuccess DEF OperatorStep, Procs
<1>3. ASSUME NEW p \in Procs, InterruptStep(p) \/ Crash(p) PROVE SuccessInv'
  BY <1>3, InterruptionKeepsSuccess
<1>4. CASE UNCHANGED vars
  BY <1>4 DEF vars, registry, SuccessInv, RowsFollow, RowTells, Fits, RoleFits,
     BusyFits, LagFits, OutcomeFits, OpeningFits, RecordFits, Opening, Fresh,
     Offered, Won, Spent, HasRow, VerificationHasSuccess
<1> QED BY <1>1, <1>2, <1>3, <1>4 DEF Next

LEMMA JobWork ==
    ASSUME OneExecutor, OneOperator PROVE Spec => [](WorkInv /\ SuccessInv)
<1>1. Init => WorkInv
  <2> SUFFICES ASSUME Init PROVE WorkInv
    OBVIOUS
  <2>1. BaseInv
    BY InitBase
  <2>2. ASSUME NEW j \in Jobs PROVE JobUsed(j)
    BY DEF Init, JobUsed, NoDir
  <2>3. ASSUME NEW p \in Procs PROVE ExecutorSafe(p) /\ ClosesTheLeft(p)
    BY DEF Init, ExecutorSafe, ClosesTheLeft, Engaging, Spending
  <2> QED BY <2>1, <2>2, <2>3 DEF WorkInv, Procs
<1>2. WorkInv /\ SuccessInv /\ BaseInv' /\ [Next]_vars
        => WorkInv' /\ SuccessInv'
  BY NextWork, NextSuccess
<1> QED BY <1>1, <1>2, InitSuccess, JobTyped, PTL DEF Spec

(* With an executor and an operator interleaved at every file write and    *)
(* transaction, and either dying anywhere, the master run goes past        *)
(* IMPLEMENTATION only with a job that completed with success.             *)
THEOREM JobVerificationHasSuccess ==
    ASSUME OneExecutor, OneOperator PROVE Spec => []VerificationHasSuccess
<1>1. SuccessInv => VerificationHasSuccess
  BY DEF SuccessInv
<1> QED BY <1>1, JobWork, PTL

(* And a job is interrupted only when nobody is at work on it any more.    *)
THEOREM LoneExecutorIsNotInterrupted ==
    ASSUME OneExecutor, OneOperator PROVE Spec => InterruptsTheDead
<1>1. ASSUME WorkInv, [Next]_vars, NEW j \in Jobs,
             attempts[j] # "INTERRUPTED", attempts'[j] = "INTERRUPTED"
      PROVE  ~AtWork(j)
  <2>t. TypeOK
    BY <1>1 DEF WorkInv, BaseInv
  <2>s. ASSUME NEW k, NEW status, NEW result, SaveJob(k, status, result)
        PROVE  k = j /\ status = "INTERRUPTED"
    BY <1>1, <2>s, <2>t DEF SaveJob, TypeOK
  <2>n. UNCHANGED attempts => FALSE
    BY <1>1
  <2>c. ASSUME NEW p \in Procs,
               pc[p] \in {"interrupt_row", "reconcile_row", "ingest_row"},
               call[p].job = j
        PROVE  ~AtWork(j)
    BY <1>1, <2>c DEF WorkInv, ClosesTheLeft, AtWork, Engaged, Engaging
  <2>1. ASSUME NEW p \in Executors, ExecutorStep(p) PROVE FALSE
    <3>1. CallFits(p)
      BY <1>1 DEF WorkInv, BaseInv, Procs
    <3>2. CASE MarkRow(p) \/ FinishRow(p) \/ AbortRow(p)
      BY <2>s, <3>1, <3>2
         DEF MarkRow, FinishRow, AbortRow, CallFits, CompletionOutcomes
    <3> QED BY <2>1, <2>n, <3>2
            DEF ExecutorStep, Run, Mark, Execute, Codex, FinishFile, Signal,
                Abort, registry
  <2>2. ASSUME NEW p \in Operators, OperatorStep(p) PROVE ~AtWork(j)
    <3>1. CASE SaveCreated(p)
      BY <2>s, <3>1 DEF SaveCreated
    <3>2. CASE ReconcileRow(p) \/ IngestRow(p)
      BY <2>c, <2>s, <3>2 DEF ReconcileRow, IngestRow, Procs
    <3> QED BY <2>2, <2>n, <3>1, <3>2
            DEF OperatorStep, Create, Start, Retry, Reconcile, Ingest, Resume,
                Find, Number, MakeDir, WriteRequest, LinkJob, RestartMaster,
                LoadTerminal, ReconcileMaster, ReconcileEvent, JournalResult, IngestMaster,
                IngestEvent, Inspect, Wait, Adapter, EnterVerification,
                FinishRun, Fail, registry
  <2>3. ASSUME NEW p \in Procs, InterruptStep(p) \/ Crash(p) PROVE ~AtWork(j)
    <3>1. CASE InterruptRow(p)
      BY <2>c, <2>s, <3>1 DEF InterruptRow
    <3> QED BY <2>3, <2>n, <3>1
            DEF InterruptStep, Interrupt, LoadStale, InterruptFile, Crash, registry
  <2> QED BY <1>1, <2>1, <2>2, <2>3, <2>n DEF Next, vars, registry
<1>2. WorkInv /\ [Next]_vars =>
        [\A j \in Jobs :
           attempts[j] # "INTERRUPTED" /\ attempts'[j] = "INTERRUPTED" =>
             ~AtWork(j)]_vars
  BY <1>1
<1> QED BY <1>2, JobWork, PTL DEF Spec, InterruptsTheDead

-----------------------------------------------------------------------------
\* A process alone: the newest job is the current one

Attending ==
    {"execute", "codex", "finish_file", "signal", "finish_row", "abort",
     "abort_row", "load", "interrupt_file", "interrupt_row"}

GivingUp == {"abort", "abort_row", "load", "interrupt_file", "interrupt_row"}

(* Directories are numbered without gaps, and rows follow requests.        *)
FilesInOrder ==
    /\ \A j, k \in Jobs : dir[j].made /\ k < j => dir[k].made
    /\ \A j \in Jobs : attempts[j] # "NONE" => dir[j].request

(* Every job before the current one was replaced.                          *)
OnlyCurrentIsOpen ==
    \A j \in Jobs : attempts[j] # "NONE" =>
      /\ j <= current.job
      /\ j # current.job => attempts[j] \in RetryableStatuses

(* A job with a completion was closed as the completion says, if at all.   *)
ResultTells(j) ==
    dir[j].completion # NoResult =>
      \/ attempts[j] \in {"RUNNING", dir[j].completion.outcome}
      \/ attempts[j] = "INGESTED" /\ Successful(dir[j].completion)

StandsCreating(p) ==
    /\ pc[p] = "make" =>
         /\ ~dir[call[p].job].made
         /\ \A k \in Jobs : k < call[p].job => dir[k].made
    /\ pc[p] \in Creating => \A k \in Jobs : dir[k].made => k <= call[p].job
    /\ pc[p] = "save_job" => dir[call[p].job].request
    /\ Opening(p) /\ current.job # 0 =>
         attempts[current.job] \in RetryableStatuses

StandsAtCurrent(p) ==
    /\ pc[p] \in Carrying => call[p].job = current.job
    /\ pc[p] \in {"mark_row", "abort_row"} => call[p].marked = current.job
    /\ pc[p] \in {"mark", "mark_row"} =>
         current.status = "WAITING_EXTERNAL_CODEX"
    /\ pc[p] \in Attending => current.status = "RUNNING"
    /\ pc[p] = "interrupt" => current.status \in ActiveStatuses
    /\ pc[p] \in GivingUp => dir[current.job].completion = NoResult

StandsWithResult(p) ==
    /\ pc[p] \in {"finish_file", "signal", "finish_row"} =>
         call[p].result.outcome = call[p].status
    /\ pc[p] \in {"signal", "finish_row"} =>
         dir[current.job].completion = call[p].result
    /\ pc[p] \in {"inspect", "reconcile"} => call[p].result = NoResult
    /\ pc[p] = "reconcile_row" =>
         IF call[p].result = NoResult
           THEN call[p].status = current.status
           ELSE /\ call[p].result = dir[current.job].completion
                /\ call[p].status = call[p].result.outcome
    /\ pc[p] = "ingest_row" => Successful(dir[current.job].completion)

Stands(p) == StandsCreating(p) /\ StandsAtCurrent(p) /\ StandsWithResult(p)

SerialInv ==
    /\ FilesInOrder
    /\ OnlyCurrentIsOpen
    /\ \A j \in Jobs : ResultTells(j)
    /\ \A j \in Jobs : Offered(j) => ~dir[j].artifacts
    /\ \A p \in Procs : Stands(p)

\* A step that leaves the files and the rows alone.
LEMMA SerialQuiet ==
    ASSUME NEW p, Procs = {p}, SerialInv, UNCHANGED <<dir, current, attempts>>,
           Stands(p)'
    PROVE  SerialInv'
BY DEF SerialInv, FilesInOrder, OnlyCurrentIsOpen, ResultTells, Offered

LEMMA StopStands == ASSUME NEW p, Stops(p) PROVE Stands(p)'
BY DEF Stops, Stands, StandsCreating, StandsAtCurrent, StandsWithResult,
   Carrying, Creating, Opening, Attending, GivingUp, Executing

LEMMA SerialStop ==
    ASSUME NEW p, Procs = {p}, SerialInv, UNCHANGED <<dir, current, attempts>>,
           Stops(p)
    PROVE  SerialInv'
BY SerialQuiet, StopStands

\* One that writes the directory of the current job.
LEMMA SerialDir ==
    ASSUME NEW p, Procs = {p}, SerialInv, UNCHANGED <<current, attempts>>,
           \A k \in Jobs : /\ dir'[k].made = dir[k].made
                           /\ dir'[k].request = dir[k].request
                           /\ Offered(k) => dir'[k].artifacts = dir[k].artifacts
                           /\ \/ dir'[k].completion = dir[k].completion
                              \/ attempts[k] = "RUNNING",
           Stands(p)'
    PROVE  SerialInv'
<1>1. FilesInOrder' /\ OnlyCurrentIsOpen'
  BY DEF SerialInv, FilesInOrder, OnlyCurrentIsOpen
<1>2. ASSUME NEW j \in Jobs PROVE ResultTells(j)'
  BY DEF SerialInv, ResultTells
<1>3. ASSUME NEW j \in Jobs PROVE (Offered(j) => ~dir[j].artifacts)'
  BY DEF SerialInv, Offered
<1> QED BY <1>1, <1>2, <1>3 DEF SerialInv

\* One that writes the row of the current job.
LEMMA SerialRow ==
    ASSUME NEW p, Procs = {p}, TypeOK, SerialInv, UNCHANGED dir,
           HasRow(current.job), NEW status \in TerminalStatuses \cup {"RUNNING"},
           NEW result, SaveJob(current.job, status, result),
           dir[current.job].completion # NoResult =>
             \/ status \in {"RUNNING", dir[current.job].completion.outcome}
             \/ status = "INGESTED" /\ Successful(dir[current.job].completion),
           Stands(p)'
    PROVE  SerialInv'
<1> DEFINE j == current.job
<1>1. /\ current'.job = j /\ current'.status = status /\ attempts'[j] = status
      /\ j \in Jobs /\ status # "NONE" /\ status # "WAITING_EXTERNAL_CODEX"
      /\ \A k \in Jobs \ {j} : attempts'[k] = attempts[k]
  BY SaveJobFields DEF HasRow, TerminalStatuses, CompletionOutcomes
<1>2. FilesInOrder' /\ OnlyCurrentIsOpen'
  BY <1>1 DEF SerialInv, FilesInOrder, OnlyCurrentIsOpen, HasRow
<1>3. ASSUME NEW k \in Jobs PROVE ResultTells(k)'
  BY <1>1 DEF SerialInv, ResultTells
<1>4. ASSUME NEW k \in Jobs PROVE (Offered(k) => ~dir[k].artifacts)'
  BY <1>1 DEF Offered
<1> QED BY <1>2, <1>3, <1>4 DEF SerialInv

LEMMA CreationKeepsSerial ==
    ASSUME NEW p, Procs = {p}, WorkInv, SerialInv,
           \/ Create(p) \/ Find(p) \/ Number(p) \/ MakeDir(p)
           \/ WriteRequest(p) \/ SaveCreated(p) \/ LinkJob(p)
           \/ RestartMaster(p)
    PROVE  SerialInv'
<1> USE JobAssumption
<1>t. /\ BaseInv /\ TypeOK /\ CallFits(p) /\ p \in Procs /\ call[p] \in Calls
      /\ Stands(p) /\ RowFits /\ FilesInOrder /\ current.job \in 0..MaxJobs
  BY DEF WorkInv, BaseInv, SerialInv, TypeOK, JobRow
<1> DEFINE j == call[p].job
<1>n. ASSUME pc'[p] \notin Carrying \cup Creating \cup Attending \cup GivingUp
                            \cup {"make", "mark_row", "abort_row", "mark",
                                  "interrupt", "inspect", "reconcile"},
             (Opening(p) /\ current.job # 0
                => attempts[current.job] \in RetryableStatuses)'
      PROVE  Stands(p)'
  BY <1>n DEF Stands, StandsCreating, StandsAtCurrent, StandsWithResult,
     Carrying, Creating, Attending, GivingUp, Executing
<1>1. CASE Create(p)
  <2> DEFINE c == [NoCall EXCEPT !.op = "create"]
  <2>1. GotoWith(p, "find", c) /\ c.op = "create"
    BY <1>1 DEF Create, Start, NoCall
  <2>2. pc'[p] = "find" /\ call'[p].op = "create"
    <3> HIDE DEF c
    <3> QED BY <1>t, <2>1, MoveFields
  <2>3. Stands(p)'
    BY <1>n, <2>2
       DEF Opening, Carrying, Creating, Attending, GivingUp, Executing
  <2> QED BY <1>1, <2>3, SerialQuiet DEF Create, Start, registry
<1>2. CASE Find(p)
  <2> DEFINE c == [call[p] EXCEPT !.job = Newest(Requested)]
  <2>1. /\ UNCHANGED <<dir, current, attempts>>
        /\ \/ Goto(p, "number") /\ current.status \in RetryableStatuses
           \/ Goto(p, "number") /\ Requested = {}
           \/ GotoWith(p, "wait", c)
           \/ Raise(p) \/ Return(p)
    BY <1>2 DEF Find, registry
  <2>2. ASSUME pc'[p] = "number",
               current.status \in RetryableStatuses \/ Requested = {}
        PROVE  Stands(p)'
    <3>1. current'.job # 0 => attempts'[current'.job] \in RetryableStatuses
      BY <1>t, <2>1, <2>2 DEF RowFits, HasRow, FilesInOrder, Requested
    <3> QED BY <1>n, <2>2, <3>1
            DEF Opening, Carrying, Creating, Attending, GivingUp, Executing
  <2>3. ASSUME pc'[p] = "wait" PROVE Stands(p)'
    BY <1>n, <2>3
       DEF Opening, Carrying, Creating, Attending, GivingUp, Executing
  <2>4. \/ pc'[p] = "number" /\ current.status \in RetryableStatuses
        \/ pc'[p] = "number" /\ Requested = {}
        \/ pc'[p] = "wait"
        \/ Stops(p)
    <3> HIDE DEF c
    <3> QED BY <1>t, <2>1, MoveFields
  <2> QED BY <2>1, <2>2, <2>3, <2>4, SerialQuiet, SerialStop
<1>3. CASE Number(p)
  <2>1. CASE Refuse(p)
    BY <1>3, <1>t, <2>1, MoveFields, SerialStop DEF Number, registry
  <2>2. ASSUME NEW k \in Jobs, ~dir[k].made,
               \A i \in 1..(k - 1) : dir[i].made,
               GotoWith(p, "make", [call[p] EXCEPT !.job = k])
        PROVE  SerialInv'
    <3> DEFINE c == [call[p] EXCEPT !.job = k]
    <3>1. c.job = k
      BY <1>t, CallFields
    <3>2. /\ pc'[p] = "make" /\ call'[p].job = k /\ pc[p] = "number"
          /\ UNCHANGED <<dir, current, attempts>>
      <4>1. GotoWith(p, "make", c)
        BY <2>2
      <4> HIDE DEF c
      <4> QED BY <1>3, <1>t, <3>1, <4>1, MoveFields DEF Number, registry
    <3>3. \A i \in Jobs : i < k => dir[i].made
      BY <2>2 DEF Jobs
    <3>4. Stands(p)'
      BY <1>t, <2>2, <3>2, <3>3
         DEF Stands, StandsCreating, StandsAtCurrent, StandsWithResult,
             Opening, Carrying, Creating, Attending, GivingUp, Executing
    <3> QED BY <3>2, <3>4, SerialQuiet
  <2> QED BY <1>3, <2>1, <2>2 DEF Number
<1>4. CASE MakeDir(p)
  <2>1. CASE dir[j].made
    BY <1>4, <1>t, <2>1, MoveFields, SerialStop DEF MakeDir, registry
  <2>2. CASE ~dir[j].made
    <3>1. /\ pc[p] = "make" /\ pc'[p] = "request" /\ call'[p] = call[p]
          /\ j \in Jobs /\ UNCHANGED <<current, attempts>>
          /\ \A k \in Jobs : k < j => dir[k].made
      BY <1>4, <1>t, <2>2, MoveFields
         DEF MakeDir, CallFits, registry, Stands, StandsCreating
    <3>2. /\ dir'[j].made /\ dir'[j].artifacts = dir[j].artifacts
          /\ dir'[j].completion = dir[j].completion
          /\ dir'[j].request = dir[j].request
          /\ \A k \in Jobs \ {j} : dir'[k] = dir[k]
      BY <1>4, <1>t, <2>2, <3>1, MadeFields DEF MakeDir
    <3>3. \A k \in Jobs : dir[k].made => k < j
      BY <1>t, <2>2, <3>1 DEF FilesInOrder, Jobs
    <3>4. FilesInOrder'
      BY <1>t, <3>1, <3>2, <3>3 DEF FilesInOrder, Jobs
    <3>5. Stands(p)'
      <4>1. \A k \in Jobs : dir'[k].made => k <= j
        BY <3>1, <3>2, <3>3 DEF Jobs
      <4> QED BY <1>t, <3>1, <4>1
              DEF Stands, StandsCreating, StandsAtCurrent, StandsWithResult,
                  Opening, Carrying, Creating, Attending, GivingUp, Executing
    <3>6. OnlyCurrentIsOpen'
      BY <3>1 DEF SerialInv, OnlyCurrentIsOpen
    <3>7. ASSUME NEW k \in Jobs
          PROVE  ResultTells(k)' /\ (Offered(k) => ~dir[k].artifacts)'
      BY <3>1, <3>2 DEF SerialInv, ResultTells, Offered
    <3> QED BY <3>4, <3>5, <3>6, <3>7 DEF SerialInv
  <2> QED BY <2>1, <2>2
<1>5. CASE WriteRequest(p)
  <2>1. /\ pc[p] = "request" /\ pc'[p] = "save_job" /\ call'[p] = call[p]
        /\ j \in Jobs /\ UNCHANGED <<current, attempts>>
    BY <1>5, <1>t, MoveFields
       DEF WriteRequest, BaseInv, CreatorsApart, Creating, registry
  <2>2. /\ dir'[j].request /\ dir'[j].made = dir[j].made
        /\ dir'[j].artifacts = dir[j].artifacts
        /\ dir'[j].completion = dir[j].completion
        /\ \A k \in Jobs \ {j} : dir'[k] = dir[k]
    BY <1>5, <1>t, <2>1, RequestFields DEF WriteRequest
  <2>3. FilesInOrder' /\ OnlyCurrentIsOpen'
    BY <1>t, <2>1, <2>2 DEF SerialInv, FilesInOrder, OnlyCurrentIsOpen, Jobs
  <2>4. ASSUME NEW k \in Jobs
        PROVE  ResultTells(k)' /\ (Offered(k) => ~dir[k].artifacts)'
    BY <2>1, <2>2 DEF SerialInv, ResultTells, Offered
  <2>5. Stands(p)'
    BY <1>t, <2>1, <2>2
       DEF Stands, StandsCreating, StandsAtCurrent, StandsWithResult,
           Opening, Carrying, Creating, Attending, GivingUp, Executing
  <2> QED BY <2>3, <2>4, <2>5 DEF SerialInv
<1>6. CASE SaveCreated(p)
  <2>1. /\ pc[p] = "save_job" /\ pc'[p] = "link" /\ call'[p] = call[p]
        /\ j \in Jobs /\ UNCHANGED dir /\ ~HasRow(j) /\ dir[j].request
        /\ \A k \in Jobs : dir[k].made => k <= j
    BY <1>6, <1>t, MoveFields
       DEF SaveCreated, BaseInv, CreatorsApart, Creating, HasRow, Stands,
           StandsCreating
  <2>2. /\ current'.job = j /\ attempts'[j] = "WAITING_EXTERNAL_CODEX"
        /\ \A k \in Jobs \ {j} : attempts'[k] = attempts[k]
    BY <1>6, <1>t, <2>1, SaveJobFields DEF SaveCreated
  <2>3. FilesInOrder'
    BY <1>t, <2>1, <2>2 DEF FilesInOrder
  <2>4. OnlyCurrentIsOpen'
    <3>1. \A k \in Jobs : attempts[k] # "NONE" =>
            k <= j /\ attempts[k] \in RetryableStatuses
      <4> SUFFICES ASSUME NEW k \in Jobs, attempts[k] # "NONE"
                   PROVE  k <= j /\ attempts[k] \in RetryableStatuses
        OBVIOUS
      <4>1. k <= j
        BY <1>t, <2>1 DEF BaseInv, CreatorsApart
      <4>2. current.job # 0
        BY <1>t DEF SerialInv, OnlyCurrentIsOpen, Jobs
      <4>3. attempts[current.job] \in RetryableStatuses
        BY <1>t, <2>1, <4>2 DEF Stands, StandsCreating, Opening
      <4> QED BY <4>1, <4>3 DEF SerialInv, OnlyCurrentIsOpen
    <3> QED BY <2>1, <2>2, <3>1 DEF OnlyCurrentIsOpen, Jobs
  <2>5. JobUsed(j) /\ ~Spent(j)
    BY <2>1 DEF WorkInv, Spent
  <2>6. ASSUME NEW k \in Jobs PROVE ResultTells(k)'
    BY <2>1, <2>2, <2>5 DEF SerialInv, ResultTells, JobUsed
  <2>7. ASSUME NEW k \in Jobs PROVE (Offered(k) => ~dir[k].artifacts)'
    BY <2>1, <2>2, <2>5 DEF Offered, JobUsed
  <2>8. Stands(p)'
    BY <1>n, <2>1
       DEF Opening, Carrying, Creating, Attending, GivingUp, Executing
  <2> QED BY <2>3, <2>4, <2>6, <2>7, <2>8 DEF SerialInv
<1>7. CASE LinkJob(p)
  <2>1. pc'[p] \in {"idle", "restart", "wait"}
    BY <1>7, <1>t, MoveFields
       DEF LinkJob, AfterCreate, CallFits, Return, NoCall
  <2>2. Stands(p)'
    BY <1>n, <2>1
       DEF Opening, Carrying, Creating, Attending, GivingUp, Executing
  <2> QED BY <1>7, <2>2, SerialQuiet DEF LinkJob
<1>8. CASE RestartMaster(p)
  BY <1>8, <1>t, MoveFields, SerialStop DEF RestartMaster
<1> QED BY <1>1, <1>2, <1>3, <1>4, <1>5, <1>6, <1>7, <1>8

LEMMA ExecutionKeepsSerial ==
    ASSUME NEW p, Procs = {p}, WorkInv, SerialInv, p \in Executors,
           ExecutorStep(p)
    PROVE  SerialInv'
<1> USE JobAssumption
<1>t. /\ BaseInv /\ TypeOK /\ CallFits(p) /\ p \in Procs /\ call[p] \in Calls
      /\ Stands(p) /\ RowFits
  BY DEF WorkInv, BaseInv, SerialInv, TypeOK
<1> DEFINE j == call[p].job
           k == current.job
<1>r. ASSUME current.status # "NONE"
      PROVE  k \in Jobs /\ HasRow(k) /\ attempts[k] = current.status
  BY <1>r, <1>t DEF RowFits, HasRow
<1>1. CASE Run(p)
  <2> DEFINE d == dir[k]
             step == IF d.artifacts /\ d.completion = NoResult
                       THEN "interrupt" ELSE "mark"
             c == [NoCall EXCEPT !.op = "run", !.job = k]
  <2>1. /\ GotoWith(p, step, c) /\ c.job = k
        /\ step \in {"interrupt", "mark"}
    BY <1>1 DEF Run, NoCall
  <2>2. pc'[p] \in {"interrupt", "mark"} /\ call'[p].job = k
    <3> HIDE DEF c, step
    <3> QED BY <1>t, <2>1, MoveFields
  <2>3. MayRun /\ UNCHANGED <<dir, current, attempts>>
    BY <1>1 DEF Run, registry
  <2>4. Stands(p)'
    BY <2>2, <2>3
       DEF Stands, StandsCreating, StandsAtCurrent, StandsWithResult, Opening,
           Carrying, Creating, Attending, GivingUp, Executing, MayRun,
           ActiveStatuses
  <2> QED BY <2>3, <2>4, SerialQuiet
<1>2. CASE Mark(p)
  <2>1. CASE ~MayRun
    BY <1>2, <1>t, <2>1, MoveFields, SerialStop DEF Mark, registry
  <2>2. CASE MayRun
    <3> DEFINE c == [call[p] EXCEPT !.marked = k]
    <3>1. GotoWith(p, "mark_row", c) /\ c.job = j /\ c.marked = k
      BY <1>2, <1>t, <2>2, CallFields DEF Mark
    <3>2. /\ pc[p] = "mark" /\ pc'[p] = "mark_row"
          /\ call'[p].job = j /\ call'[p].marked = k /\ j = k
      <4> HIDE DEF c
      <4> QED BY <1>2, <1>t, <3>1, MoveFields
              DEF Mark, Stands, StandsAtCurrent, Carrying
    <3>3. k \in Jobs /\ UNCHANGED <<current, attempts>>
      BY <1>2, <1>r, <2>2 DEF Mark, MayRun, registry
    <3>4. /\ dir'[k].made = dir[k].made /\ dir'[k].request = dir[k].request
          /\ dir'[k].artifacts = dir[k].artifacts
          /\ dir'[k].completion = dir[k].completion
          /\ \A i \in Jobs \ {k} : dir'[i] = dir[i]
      BY <1>2, <1>t, <2>2, <3>3, MarkFields DEF Mark
    <3>5. Stands(p)'
      BY <2>2, <3>2, <3>3
         DEF Stands, StandsCreating, StandsAtCurrent, StandsWithResult,
             Opening, Carrying, Creating, Attending, GivingUp, Executing, MayRun
    <3> QED BY <3>3, <3>4, <3>5, SerialDir
  <2> QED BY <2>1, <2>2
<1>a. ASSUME pc[p] \in Attending \cup {"mark_row"}
      PROVE  /\ k \in Jobs /\ HasRow(k) /\ attempts[k] = current.status
             /\ pc[p] \notin {"abort_row", "load"} => j = k
  BY <1>a, <1>r, <1>t
     DEF Stands, StandsAtCurrent, Attending, Carrying, Executing
<1>3. CASE MarkRow(p)
  <2>1. /\ pc[p] = "mark_row" /\ pc'[p] = "execute" /\ call'[p] = call[p]
        /\ UNCHANGED dir /\ j = k /\ call[p].marked = k /\ HasRow(k)
    BY <1>3, <1>a, <1>t, MoveFields
       DEF MarkRow, Stands, StandsAtCurrent
  <2>2. SaveJob(k, "RUNNING", NoResult)
    BY <1>3, <2>1 DEF MarkRow
  <2>3. current'.job = k /\ current'.status = "RUNNING"
    BY <2>2 DEF SaveJob
  <2>4. Stands(p)'
    BY <2>1, <2>3
       DEF Stands, StandsCreating, StandsAtCurrent, StandsWithResult, Opening,
           Carrying, Creating, Attending, GivingUp, Executing
  <2> QED BY <1>t, <2>1, <2>2, <2>4, SerialRow
<1>f. ASSUME NEW outcome, Finish(p, outcome), pc[p] \in Attending, j = k,
             UNCHANGED <<dir, current, attempts>>
      PROVE  SerialInv'
  <2> DEFINE c == [call[p] EXCEPT !.status = outcome,
                     !.result = [outcome |-> outcome, maker |-> p]]
  <2>1. /\ GotoWith(p, "finish_file", c) /\ c.job = j
        /\ c.result.outcome = c.status
    <3>1. /\ c.job = j /\ c.status = outcome
          /\ c.result = [outcome |-> outcome, maker |-> p]
      BY <1>t, CallFields
    <3>2. c.result.outcome = outcome
      BY <3>1
    <3> QED BY <1>f, <3>1, <3>2 DEF Finish
  <2>2. /\ pc'[p] = "finish_file" /\ call'[p].job = k
        /\ call'[p].result.outcome = call'[p].status
    <3> HIDE DEF c
    <3> QED BY <1>f, <1>t, <2>1, MoveFields
  <2>3. Stands(p)'
    BY <1>f, <1>t, <2>2
       DEF Stands, StandsCreating, StandsAtCurrent, StandsWithResult, Opening,
           Carrying, Creating, Attending, GivingUp, Executing
  <2> QED BY <1>f, <2>3, SerialQuiet
<1>4. CASE Execute(p)
  <2>1. /\ pc[p] = "execute" /\ j = k /\ k \in Jobs
        /\ current.status = "RUNNING" /\ UNCHANGED <<current, attempts>>
    BY <1>4, <1>a, <1>t DEF Execute, Stands, StandsAtCurrent, Attending, registry
  <2>2. CASE Finish(p, "FAILED") /\ UNCHANGED dir
    BY <1>f, <2>1, <2>2 DEF Attending
  <2>3. CASE Goto(p, "codex") /\ dir' = [dir EXCEPT ![j].artifacts = TRUE]
    <3>1. pc'[p] = "codex" /\ call'[p] = call[p]
      BY <1>t, <2>3, MoveFields
    <3>2. /\ dir'[k].made = dir[k].made /\ dir'[k].request = dir[k].request
          /\ dir'[k].completion = dir[k].completion
          /\ \A i \in Jobs \ {k} : dir'[i] = dir[i]
      BY <1>t, <2>1, <2>3, ArtifactFields
    <3>3. Stands(p)'
      BY <1>t, <2>1, <3>1
         DEF Stands, StandsCreating, StandsAtCurrent, StandsWithResult,
             Opening, Carrying, Creating, Attending, GivingUp, Executing
    <3> QED BY <2>1, <3>2, <3>3, SerialDir DEF Offered
  <2> QED BY <1>4, <2>2, <2>3 DEF Execute
<1>5. CASE Codex(p)
  <2>1. /\ pc[p] = "codex" /\ j = k /\ UNCHANGED <<dir, current, attempts>>
    BY <1>5, <1>a, <1>t DEF Codex, Attending, registry
  <2>2. CASE \E outcome \in CompletionOutcomes : Finish(p, outcome)
    BY <1>f, <2>1, <2>2 DEF Attending
  <2>3. CASE Goto(p, "abort")
    <3>1. pc'[p] = "abort" /\ call'[p] = call[p]
      BY <1>t, <2>3, MoveFields
    <3>2. dir[k].completion = NoResult
      BY <2>1 DEF WorkInv, ExecutorSafe, Engaging
    <3>3. Stands(p)'
      BY <1>t, <2>1, <3>1, <3>2
         DEF Stands, StandsCreating, StandsAtCurrent, StandsWithResult,
             Opening, Carrying, Creating, Attending, GivingUp, Executing
    <3> QED BY <2>1, <3>3, SerialQuiet
  <2> QED BY <1>5, <2>2, <2>3 DEF Codex
<1>6. CASE FinishFile(p)
  <2>1. /\ pc[p] = "finish_file" /\ pc'[p] = "signal" /\ call'[p] = call[p]
        /\ j = k /\ k \in Jobs /\ UNCHANGED <<current, attempts>>
        /\ attempts[k] = "RUNNING" /\ current.status = "RUNNING"
    BY <1>6, <1>a, <1>t, MoveFields
       DEF FinishFile, registry, Attending, Stands, StandsAtCurrent
  <2>2. /\ dir'[k].made = dir[k].made /\ dir'[k].request = dir[k].request
        /\ dir'[k].artifacts = dir[k].artifacts
        /\ dir'[k].completion = call[p].result
        /\ \A i \in Jobs \ {k} : dir'[i] = dir[i]
    BY <1>6, <1>t, <2>1, CompletionFields DEF FinishFile
  <2>3. Stands(p)'
    BY <1>t, <2>1, <2>2
       DEF Stands, StandsCreating, StandsAtCurrent, StandsWithResult, Opening,
           Carrying, Creating, Attending, GivingUp, Executing
  <2> QED BY <2>1, <2>2, <2>3, SerialDir
<1>7. CASE Signal(p)
  <2>1. /\ pc[p] = "signal" /\ pc'[p] = "finish_row" /\ call'[p] = call[p]
        /\ UNCHANGED <<dir, current, attempts>>
    BY <1>7, <1>t, MoveFields DEF Signal, registry
  <2>2. Stands(p)'
    BY <1>t, <2>1
       DEF Stands, StandsCreating, StandsAtCurrent, StandsWithResult, Opening,
           Carrying, Creating, Attending, GivingUp, Executing
  <2> QED BY <2>1, <2>2, SerialQuiet
<1>8. CASE FinishRow(p)
  <2>1. /\ Stops(p) /\ UNCHANGED dir /\ j = k /\ HasRow(k)
        /\ SaveJob(k, call[p].status, call[p].result)
        /\ call[p].status \in TerminalStatuses
        /\ dir[k].completion.outcome = call[p].status
    BY <1>8, <1>a, <1>t, MoveFields
       DEF FinishRow, Attending, CallFits, TerminalStatuses, Stands,
           StandsWithResult
  <2> QED BY <1>t, <2>1, SerialRow, StopStands
<1>9. CASE Abort(p)
  <2>1. CASE current.status \notin ActiveStatuses
    BY <1>9, <1>t, <2>1, MoveFields, SerialStop DEF Abort, registry
  <2>2. CASE current.status \in ActiveStatuses
    <3> DEFINE c == [call[p] EXCEPT !.marked = k]
    <3>1. GotoWith(p, "abort_row", c) /\ c.job = j /\ c.marked = k
      BY <1>9, <1>t, <2>2, CallFields DEF Abort
    <3>2. pc'[p] = "abort_row" /\ call'[p].job = j /\ call'[p].marked = k
      <4> HIDE DEF c
      <4> QED BY <1>t, <3>1, MoveFields
    <3>3. /\ pc[p] = "abort" /\ j = k /\ k \in Jobs
          /\ current.status = "RUNNING" /\ dir[k].completion = NoResult
          /\ UNCHANGED <<current, attempts>>
      BY <1>9, <1>a, <1>t
         DEF Abort, Attending, GivingUp, Stands, StandsAtCurrent, registry
    <3>4. /\ dir'[k].made = dir[k].made /\ dir'[k].request = dir[k].request
          /\ dir'[k].completion = dir[k].completion
          /\ \A i \in Jobs \ {k} : dir'[i] = dir[i]
      BY <1>9, <1>t, <2>2, <3>3, CloseFields DEF Abort
    <3>5. Stands(p)'
      BY <3>2, <3>3, <3>4
         DEF Stands, StandsCreating, StandsAtCurrent, StandsWithResult,
             Opening, Carrying, Creating, Attending, GivingUp, Executing
    <3> QED BY <3>3, <3>4, <3>5, SerialDir DEF Offered
  <2> QED BY <2>1, <2>2
<1>10. CASE AbortRow(p)
  <2>1. /\ Stops(p) /\ UNCHANGED dir /\ HasRow(k)
        /\ SaveJob(k, "ABORTED_BY_USER", NoResult)
        /\ dir[k].completion = NoResult
    BY <1>10, <1>a, <1>t, MoveFields
       DEF AbortRow, Attending, GivingUp, Stands, StandsAtCurrent
  <2> QED BY <1>t, <2>1, SerialRow, StopStands DEF TerminalStatuses
<1> QED BY <1>1, <1>2, <1>3, <1>4, <1>5, <1>6, <1>7, <1>8, <1>9, <1>10
        DEF ExecutorStep

LEMMA InterruptionKeepsSerial ==
    ASSUME NEW p, Procs = {p}, WorkInv, SerialInv,
           Retry(p) \/ InterruptStep(p) \/ Crash(p)
    PROVE  SerialInv'
<1> USE JobAssumption
<1>t. /\ BaseInv /\ TypeOK /\ CallFits(p) /\ p \in Procs /\ call[p] \in Calls
      /\ Stands(p) /\ RowFits
  BY DEF WorkInv, BaseInv, SerialInv, TypeOK
<1> DEFINE j == call[p].job
           k == current.job
<1>r. ASSUME current.status # "NONE"
      PROVE  k \in Jobs /\ HasRow(k) /\ attempts[k] = current.status
  BY <1>r, <1>t DEF RowFits, HasRow
<1>1. CASE Retry(p)
  <2> DEFINE c == [NoCall EXCEPT !.op = "retry"]
  <2>1. /\ UNCHANGED <<dir, current, attempts>>
        /\ \/ current.status = "TIMED_OUT" /\ GotoWith(p, "find", c)
           \/ current.status \in ActiveStatuses /\ GotoWith(p, "interrupt", c)
    BY <1>1 DEF Retry, registry
  <2>2. \/ current.status = "TIMED_OUT" /\ pc'[p] = "find"
        \/ current.status \in ActiveStatuses /\ pc'[p] = "interrupt"
    <3> HIDE DEF c
    <3> QED BY <1>t, <2>1, MoveFields
  <2>3. Stands(p)'
    BY <1>r, <2>1, <2>2
       DEF Stands, StandsCreating, StandsAtCurrent, StandsWithResult, Opening,
           Carrying, Creating, Attending, GivingUp, Executing,
           RetryableStatuses
  <2> QED BY <2>1, <2>3, SerialQuiet
<1>2. CASE Interrupt(p)
  <2>1. CASE ~Stale
    BY <1>2, <1>t, <2>1, MoveFields, SerialStop DEF Interrupt, registry
  <2>2. CASE Stale
    <3>2. /\ pc[p] = "interrupt" /\ pc'[p] = "load" /\ call'[p] = call[p]
          /\ UNCHANGED <<dir, current, attempts>>
      BY <1>2, <1>t, <2>2, MoveFields DEF Interrupt, registry
    <3>3. current.status \in ActiveStatuses /\ current.status # "NONE"
      BY <1>t, <3>2 DEF Stands, StandsAtCurrent, ActiveStatuses
    <3>4. dir[k].completion = NoResult /\ current.status = "RUNNING"
      BY <1>r, <2>2, <3>3 DEF Stale, SerialInv, Offered, ActiveStatuses
    <3>5. Stands(p)'
      BY <3>2, <3>4
         DEF Stands, StandsCreating, StandsAtCurrent, StandsWithResult,
             Opening, Carrying, Creating, Attending, GivingUp, Executing
    <3> QED BY <3>2, <3>5, SerialQuiet
  <2> QED BY <2>1, <2>2
<1>6. CASE LoadStale(p)
  <2> DEFINE c == [call[p] EXCEPT !.job = k]
  <2>1. GotoWith(p, "interrupt_file", c) /\ c.job = k
    BY <1>6, <1>t, CallFields DEF LoadStale
  <2>2. /\ pc[p] = "load" /\ pc'[p] = "interrupt_file"
        /\ call'[p].job = k /\ UNCHANGED <<dir, current, attempts>>
    <3> HIDE DEF c
    <3> QED BY <1>6, <1>t, <2>1, MoveFields DEF LoadStale, registry
  <2>3. Stands(p)'
    BY <1>t, <2>2
       DEF Stands, StandsCreating, StandsAtCurrent, StandsWithResult, Opening,
           Carrying, Creating, Attending, GivingUp, Executing
  <2> QED BY <2>2, <2>3, SerialQuiet
<1>a. ASSUME pc[p] \in {"interrupt_file", "interrupt_row"}
      PROVE  /\ k \in Jobs /\ HasRow(k) /\ j = k
             /\ current.status = "RUNNING" /\ dir[k].completion = NoResult
  BY <1>a, <1>r, <1>t
     DEF Stands, StandsAtCurrent, Attending, Carrying, GivingUp
<1>3. CASE InterruptFile(p)
  <2>1. /\ pc[p] = "interrupt_file" /\ pc'[p] = "interrupt_row"
        /\ call'[p] = call[p] /\ UNCHANGED <<current, attempts>>
    BY <1>3, <1>t, MoveFields DEF InterruptFile, registry
  <2>2. /\ dir'[k].made = dir[k].made /\ dir'[k].request = dir[k].request
        /\ dir'[k].completion = dir[k].completion
        /\ \A i \in Jobs \ {k} : dir'[i] = dir[i]
    BY <1>3, <1>a, <1>t, <2>1, CloseFields DEF InterruptFile
  <2>3. Stands(p)'
    BY <1>a, <2>1, <2>2
       DEF Stands, StandsCreating, StandsAtCurrent, StandsWithResult, Opening,
           Carrying, Creating, Attending, GivingUp, Executing
  <2> QED BY <1>a, <2>1, <2>2, <2>3, SerialDir DEF Offered
<1>4. CASE InterruptRow(p)
  <2>1. /\ pc'[p] \in {"find", "idle"} /\ UNCHANGED dir
        /\ SaveJob(k, "INTERRUPTED", NoResult)
        /\ HasRow(k) /\ dir[k].completion = NoResult
    BY <1>4, <1>a, <1>t, MoveFields DEF InterruptRow, Return
  <2>2. current'.job = k /\ attempts'[k] = "INTERRUPTED"
    BY <1>t, <2>1, SaveJobFields DEF HasRow
  <2>3. Stands(p)'
    BY <2>1, <2>2
       DEF Stands, StandsCreating, StandsAtCurrent, StandsWithResult, Opening,
           Carrying, Creating, Attending, GivingUp, Executing,
           RetryableStatuses
  <2> QED BY <1>t, <2>1, <2>3, SerialRow DEF TerminalStatuses
<1>5. CASE Crash(p)
  BY <1>5, <1>t, MoveFields, SerialStop DEF Crash, registry
<1> QED BY <1>1, <1>2, <1>3, <1>4, <1>5, <1>6 DEF InterruptStep

\* Where a result of the current job is about to be recorded.
LEMMA RecordingKeepsSerial ==
    ASSUME NEW p, Procs = {p}, WorkInv, SerialInv,
           \/ Reconcile(p) \/ LoadTerminal(p) \/ ReconcileRow(p)
           \/ ReconcileMaster(p) \/ ReconcileEvent(p) \/ JournalResult(p)
           \/ Ingest(p) \/ IngestRow(p) \/ IngestMaster(p) \/ IngestEvent(p)
    PROVE  SerialInv'
<1> USE JobAssumption
<1>t. /\ BaseInv /\ TypeOK /\ CallFits(p) /\ p \in Procs /\ call[p] \in Calls
      /\ Stands(p) /\ RowFits
  BY DEF WorkInv, BaseInv, SerialInv, TypeOK
<1> DEFINE j == call[p].job
           k == current.job
           done == dir[k].completion
<1>a. ASSUME pc[p] \in Carrying PROVE k \in Jobs /\ HasRow(k) /\ j = k
  BY <1>a, <1>t DEF Stands, StandsAtCurrent, CallFits, HasRow
<1>n. ASSUME pc'[p] \in {"reconcile_master", "reconcile_event", "journal",
                         "ingest_master", "ingest_event"},
             call'[p] = call[p], pc[p] \in Carrying, current'.job = k
      PROVE  Stands(p)'
  BY <1>a, <1>n
     DEF Stands, StandsCreating, StandsAtCurrent, StandsWithResult, Opening,
         Carrying, Creating, Attending, GivingUp, Executing
<1>d. ASSUME pc'[p] = "adapter" PROVE Stands(p)'
  BY <1>d
     DEF Stands, StandsCreating, StandsAtCurrent, StandsWithResult, Opening,
         Carrying, Creating, Attending, GivingUp, Executing
<1>1. CASE Reconcile(p)
  <2> DEFINE c == [NoCall EXCEPT !.op = "reconcile"]
  <2>1. GotoWith(p, "reconcile", c) /\ c.result = NoResult
    BY <1>1 DEF Reconcile, Start, NoCall
  <2>2. pc'[p] = "reconcile" /\ call'[p].result = NoResult
    <3> HIDE DEF c
    <3> QED BY <1>t, <2>1, MoveFields
  <2>3. Stands(p)'
    BY <2>2
       DEF Stands, StandsCreating, StandsAtCurrent, StandsWithResult, Opening,
           Carrying, Creating, Attending, GivingUp, Executing
  <2> QED BY <1>1, <2>3, SerialQuiet DEF Reconcile, Start, registry
<1>2. CASE LoadTerminal(p)
  <2> DEFINE c == [call[p] EXCEPT !.job = k, !.status = done.outcome,
                                  !.result = done]
             d == [call[p] EXCEPT !.job = k, !.status = current.status]
  <2>1. /\ UNCHANGED <<dir, current, attempts>> /\ call[p].result = NoResult
        /\ \/ GotoWith(p, "reconcile_row", c) /\ done # NoResult
           \/ GotoWith(p, "reconcile_row", d)
           \/ Raise(p)
    BY <1>2, <1>t
       DEF LoadTerminal, Validated, registry, Stands, StandsWithResult
  <2>2. /\ c.job = k /\ c.status = done.outcome /\ c.result = done
        /\ d.job = k /\ d.status = current.status /\ d.result = call[p].result
    BY <1>t, CallFields
  <2>3. \/ /\ pc'[p] = "reconcile_row" /\ call'[p].job = k
           /\ call'[p].status = done.outcome /\ call'[p].result = done
           /\ done # NoResult
        \/ /\ pc'[p] = "reconcile_row" /\ call'[p].job = k
           /\ call'[p].status = current.status /\ call'[p].result = NoResult
        \/ Stops(p)
    <3> HIDE DEF c, d
    <3> QED BY <1>t, <2>1, <2>2, MoveFields
  <2>4. ASSUME ~Stops(p) PROVE Stands(p)'
    BY <2>1, <2>3, <2>4
       DEF Stands, StandsCreating, StandsAtCurrent, StandsWithResult, Opening,
           Carrying, Creating, Attending, GivingUp, Executing
  <2> QED BY <2>1, <2>4, SerialQuiet, SerialStop
<1>3. CASE ReconcileRow(p)
  <2> DEFINE status == IF Successful(call[p].result)
                         THEN "INGESTED" ELSE call[p].status
  <2>1. /\ pc[p] = "reconcile_row" /\ pc'[p] = "reconcile_master"
        /\ call'[p] = call[p] /\ UNCHANGED dir
        /\ SaveJob(j, status, call[p].result) /\ status \in TerminalStatuses
    BY <1>3, <1>t, MoveFields DEF ReconcileRow, CallFits, TerminalStatuses
  <2>2. j = k /\ HasRow(k) /\ k \in Jobs /\ pc[p] \in Carrying
    BY <1>a, <2>1 DEF Carrying
  <2>3. ASSUME done # NoResult
        PROVE  \/ status \in {"RUNNING", done.outcome}
               \/ status = "INGESTED" /\ Successful(done)
    <3>1. CASE call[p].result = NoResult
      <4>1. status = current.status /\ attempts[k] = current.status
        BY <1>t, <2>1, <2>2, <3>1
           DEF Stands, StandsWithResult, Successful, RowFits, HasRow, Jobs
      <4> QED BY <2>2, <2>3, <4>1 DEF SerialInv, ResultTells
    <3>2. CASE call[p].result # NoResult
      BY <1>t, <2>1, <3>2 DEF Stands, StandsWithResult
    <3> QED BY <3>1, <3>2
  <2>4. current'.job = k
    BY <2>1, <2>2 DEF SaveJob
  <2>5. Stands(p)'
    BY <1>n, <2>1, <2>2, <2>4
  <2> HIDE DEF status
  <2> QED BY <1>t, <2>1, <2>2, <2>3, <2>5, SerialRow
<1>4. CASE ReconcileMaster(p)
  <2>1. /\ pc[p] \in Carrying /\ pc'[p] = "reconcile_event"
        /\ call'[p] = call[p] /\ UNCHANGED <<dir, current, attempts>>
    BY <1>4, <1>t, MoveFields DEF ReconcileMaster, Carrying
  <2> QED BY <1>n, <2>1, SerialQuiet
<1>5. CASE ReconcileEvent(p)
  <2>1. /\ UNCHANGED <<dir, current, attempts>> /\ pc[p] \in Carrying
        /\ \/ Stops(p) \/ pc'[p] = "adapter"
           \/ pc'[p] = "journal" /\ call'[p] = call[p]
    BY <1>5, <1>t, MoveFields
       DEF ReconcileEvent, AfterReconcile, registry, Carrying
  <2>2. ASSUME pc'[p] \in {"adapter", "journal"} PROVE Stands(p)'
    <3>1. CASE pc'[p] = "adapter"
      BY <1>d, <3>1
    <3>2. CASE pc'[p] = "journal"
      BY <1>n, <2>1, <3>2 DEF Stops
    <3> QED BY <2>2, <3>1, <3>2
  <2> QED BY <2>1, <2>2, SerialQuiet, SerialStop
<1>10. CASE JournalResult(p)
  <2>1. Stops(p) \/ pc'[p] = "adapter"
    BY <1>10, <1>t, MoveFields DEF JournalResult, AfterReconcile
  <2> QED BY <1>10, <1>d, <2>1, SerialQuiet, SerialStop DEF JournalResult
<1>6. CASE Ingest(p)
  <2> DEFINE c == [NoCall EXCEPT !.op = "ingest", !.job = k, !.result = done]
  <2>1. GotoWith(p, "ingest_row", c) /\ c.job = k
    BY <1>6 DEF Ingest, NoCall
  <2>2. pc'[p] = "ingest_row" /\ call'[p].job = k
    <3> HIDE DEF c
    <3> QED BY <1>t, <2>1, MoveFields
  <2>3. Successful(done) /\ UNCHANGED <<dir, current, attempts>>
    BY <1>6 DEF Ingest, registry
  <2>4. Stands(p)'
    BY <2>2, <2>3
       DEF Stands, StandsCreating, StandsAtCurrent, StandsWithResult, Opening,
           Carrying, Creating, Attending, GivingUp, Executing
  <2> QED BY <2>3, <2>4, SerialQuiet
<1>7. CASE IngestRow(p)
  <2>1. /\ pc[p] = "ingest_row" /\ pc'[p] = "ingest_master"
        /\ call'[p] = call[p] /\ UNCHANGED dir
        /\ SaveJob(j, "INGESTED", call[p].result)
    BY <1>7, <1>t, MoveFields DEF IngestRow
  <2>2. j = k /\ HasRow(k) /\ pc[p] \in Carrying /\ Successful(done)
    BY <1>a, <1>t, <2>1 DEF Carrying, Stands, StandsWithResult
  <2>3. current'.job = k
    BY <2>1, <2>2 DEF SaveJob
  <2>4. Stands(p)'
    BY <1>n, <2>1, <2>2, <2>3
  <2> QED BY <1>t, <2>1, <2>2, <2>4, SerialRow DEF TerminalStatuses
<1>8. CASE IngestMaster(p)
  <2>1. /\ pc[p] \in Carrying /\ pc'[p] = "ingest_event"
        /\ call'[p] = call[p] /\ UNCHANGED <<dir, current, attempts>>
    BY <1>8, <1>t, MoveFields DEF IngestMaster, Carrying
  <2> QED BY <1>n, <2>1, SerialQuiet
<1>9. CASE IngestEvent(p)
  BY <1>9, <1>t, MoveFields, SerialStop DEF IngestEvent
<1> QED BY <1>1, <1>2, <1>3, <1>4, <1>5, <1>6, <1>7, <1>8, <1>9, <1>10

LEMMA ResumptionKeepsSerial ==
    ASSUME NEW p, Procs = {p}, WorkInv, SerialInv,
           \/ Resume(p) \/ Inspect(p) \/ Wait(p) \/ Adapter(p)
           \/ EnterVerification(p) \/ FinishRun(p) \/ Fail(p)
    PROVE  SerialInv'
<1> USE JobAssumption
<1>t. /\ BaseInv /\ TypeOK /\ CallFits(p) /\ p \in Procs /\ call[p] \in Calls
      /\ Stands(p)
  BY DEF WorkInv, BaseInv, SerialInv, TypeOK
<1>q. UNCHANGED <<dir, current, attempts>>
  BY DEF Resume, Inspect, Wait, Adapter, EnterVerification, FinishRun, Fail,
         registry
<1>n. ASSUME \/ pc'[p] \in {"technical", "adapter", "wait",
                            "enter_verification"}
             \/ pc'[p] \in {"inspect", "reconcile"}
                /\ call'[p].result = NoResult
             \/ pc'[p] = "find" /\ call'[p].op = "resume"
      PROVE  Stands(p)'
  BY <1>n
     DEF Stands, StandsCreating, StandsAtCurrent, StandsWithResult, Opening,
         Carrying, Creating, Attending, GivingUp, Executing
<1>1. CASE Resume(p)
  <2> DEFINE c == [NoCall EXCEPT !.op = "resume", !.from = master.step]
  <2>1. /\ \E step \in {"refuse", "inspect", "technical"} : GotoWith(p, step, c)
        /\ c.result = NoResult
    BY <1>1 DEF Resume, NoCall
  <2>2. /\ pc'[p] \in {"refuse", "inspect", "technical"}
        /\ call'[p].result = NoResult
    <3> HIDE DEF c
    <3> QED BY <1>t, <2>1, MoveFields
  <2> QED BY <1>n, <1>q, <2>2, SerialQuiet, SerialStop DEF Stops
<1>2. CASE Inspect(p)
  <2> DEFINE c == [call[p] EXCEPT !.job = current.job]
             d == [call[p] EXCEPT !.op = "settle"]
  <2>1. /\ \/ Goto(p, "find") \/ Goto(p, "adapter") \/ Goto(p, "reconcile")
           \/ GotoWith(p, "wait", c) \/ GotoWith(p, "reconcile", d)
        /\ call[p].result = NoResult /\ call[p].op = "resume"
    BY <1>2, <1>t DEF Inspect, CallFits, Stands, StandsWithResult
  <2>2. d.result = NoResult
    BY <1>t, <2>1, CallFields
  <2>3. \/ pc'[p] \in {"adapter", "wait"}
        \/ pc'[p] = "reconcile" /\ call'[p].result = NoResult
        \/ pc'[p] = "find" /\ call'[p].op = "resume"
    <3> HIDE DEF c, d
    <3> QED BY <1>t, <2>1, <2>2, MoveFields
  <2> QED BY <1>n, <1>q, <2>3, SerialQuiet
<1>3. CASE Wait(p) \/ FinishRun(p) \/ Fail(p)
  BY <1>3, <1>q, <1>t, MoveFields, SerialStop DEF Wait, FinishRun, Fail
<1>4. CASE Adapter(p) \/ EnterVerification(p)
  <2>1. Stops(p) \/ pc'[p] \in {"enter_verification", "technical"}
    BY <1>4, <1>t, MoveFields DEF Adapter, EnterVerification
  <2> QED BY <1>n, <1>q, <2>1, SerialQuiet, SerialStop
<1> QED BY <1>1, <1>2, <1>3, <1>4

LEMMA InitSerial == Init => SerialInv
<1> SUFFICES ASSUME Init PROVE SerialInv
  OBVIOUS
<1>1. FilesInOrder /\ OnlyCurrentIsOpen
  BY DEF Init, FilesInOrder, OnlyCurrentIsOpen, NoDir
<1>2. ASSUME NEW j \in Jobs PROVE ResultTells(j) /\ ~dir[j].artifacts
  BY DEF Init, ResultTells, NoDir
<1>3. ASSUME NEW p \in Procs PROVE Stands(p)
  BY DEF Init, Stands, StandsCreating, StandsAtCurrent, StandsWithResult,
     Opening, Carrying, Creating, Attending, GivingUp, Executing
<1> QED BY <1>1, <1>2, <1>3 DEF SerialInv

LEMMA NextSerial ==
    ASSUME NEW p, Procs = {p}, WorkInv, SerialInv, [Next]_vars
    PROVE  SerialInv'
<1>1. CASE p \in Executors /\ ExecutorStep(p)
  BY <1>1, ExecutionKeepsSerial
<1>2. CASE OperatorStep(p)
  BY <1>2, CreationKeepsSerial, InterruptionKeepsSerial,
     RecordingKeepsSerial, ResumptionKeepsSerial DEF OperatorStep
<1>3. CASE InterruptStep(p) \/ Crash(p)
  BY <1>3, InterruptionKeepsSerial
<1>4. CASE UNCHANGED vars
  BY <1>4 DEF vars, registry, SerialInv, FilesInOrder, OnlyCurrentIsOpen,
     ResultTells, Offered, Stands, StandsCreating, StandsAtCurrent,
     StandsWithResult, Opening
<1> QED BY <1>1, <1>2, <1>3, <1>4 DEF Next, Procs

LEMMA LoneWork ==
    ASSUME NEW p, Procs = {p} PROVE Spec => [](WorkInv /\ SerialInv)
<1>1. OneExecutor /\ OneOperator
  BY DEF OneExecutor, OneOperator, Procs
<1>2. SerialInv /\ WorkInv /\ [Next]_vars => SerialInv'
  BY NextSerial
<1> QED BY <1>1, <1>2, InitSerial, JobWork, PTL DEF Spec

(* When one process runs every command, and dies in any of them, the run's *)
(* current row is that of its newest attempt, with the same status, and no *)
(* job whose request is incomplete has a row.                              *)
THEOREM LoneNewestIsCurrent ==
    ASSUME NEW p, Procs = {p} PROVE Spec => []NewestIsCurrent
<1>1. ASSUME WorkInv, SerialInv PROVE NewestIsCurrent
  <2>1. TypeOK /\ RowFits
    BY <1>1 DEF WorkInv, BaseInv
  <2>2. CASE Attempted = {}
    BY <1>1, <2>1, <2>2
       DEF NewestIsCurrent, RowFits, HasRow, Attempted
  <2>3. CASE Attempted # {}
    <3>1. /\ Newest(Attempted) \in Attempted
          /\ \A k \in Attempted : k <= Newest(Attempted)
      BY <2>3, NewestIsNewest DEF Attempted
    <3>2. /\ \A k \in Attempted : k <= current.job
          /\ current.job \in 0..MaxJobs
      BY <1>1, <2>1 DEF SerialInv, OnlyCurrentIsOpen, Attempted, TypeOK, JobRow
    <3>3. current.job \in Attempted
      BY <2>1, <3>1, <3>2, JobAssumption DEF RowFits, HasRow, Attempted, Jobs
    <3>4. current.job = Newest(Attempted)
      BY <3>1, <3>2, <3>3, JobAssumption DEF Attempted, Jobs
    <3> QED BY <1>1, <2>1, <2>3, <3>4
            DEF NewestIsCurrent, RowFits, SerialInv, FilesInOrder, Attempted,
                Requested
  <2> QED BY <2>2, <2>3
<1> QED BY <1>1, LoneWork, PTL

(* When one process runs every command, its attempts open, run and close   *)
(* as the lifecycle says: a step of the program changes at most one        *)
(* attempt's row, and in a way the lifecycle allows.                       *)
THEOREM LoneImplementsLifecycle ==
    ASSUME NEW p, Procs = {p} PROVE Spec => ImplementsLifecycle
<1> USE JobAssumption
<1>1. Init => Lifecycle!Init
  BY DEF Init, Lifecycle!Init, Jobs, Lifecycle!Jobs
<1>2. ASSUME WorkInv, SerialInv, [Next]_vars PROVE [Lifecycle!Next]_attempts
  <2> DEFINE k == current.job
             j == call[p].job
  <2>t. /\ TypeOK /\ RowFits /\ CallFits(p) /\ Stands(p) /\ p \in Procs
        /\ Jobs = Lifecycle!Jobs
    BY <1>2 DEF WorkInv, BaseInv, SerialInv, Jobs, Lifecycle!Jobs
  <2>s. ASSUME NEW status, NEW result, SaveJob(k, status, result), HasRow(k),
               \/ status = attempts[k]
               \/ Lifecycle!Begin(k) \/ Lifecycle!Close(k)
               \/ Lifecycle!Ingest(k)
        PROVE  [Lifecycle!Next]_attempts
    <3>1. ASSUME status = attempts[k] PROVE attempts' = attempts
      BY <2>s, <2>t, <3>1 DEF SaveJob, TypeOK, HasRow
    <3> QED BY <2>s, <2>t, <3>1 DEF Lifecycle!Next, HasRow
  <2>a. ASSUME pc[p] \in Carrying
        PROVE  j = k /\ HasRow(k) /\ attempts[k] = current.status
    BY <2>a, <2>t
       DEF Stands, StandsAtCurrent, CallFits, RowFits, HasRow, Jobs
  <2>1. CASE SaveCreated(p)
    <3>1. /\ j \in Jobs /\ attempts[j] = "NONE"
          /\ attempts' = [attempts EXCEPT ![j] = "WAITING_EXTERNAL_CODEX"]
      BY <2>1, <1>2
         DEF SaveCreated, SaveJob, WorkInv, BaseInv, CreatorsApart, Creating,
             Procs
    <3>2. ASSUME NEW i \in Jobs, attempts[i] # "NONE"
          PROVE  i < j /\ attempts[i] \in RetryableStatuses
      <4>1. dir[i].made /\ i # j
        BY <1>2, <3>1, <3>2 DEF WorkInv, BaseInv, CreatorsApart
      <4>2. i <= j
        BY <2>1, <2>t, <4>1
           DEF SaveCreated, Stands, StandsCreating, Creating
      <4>3. k # 0 /\ (i # k => attempts[i] \in RetryableStatuses)
        BY <1>2, <2>t, <3>2
           DEF SerialInv, OnlyCurrentIsOpen, Jobs, TypeOK, JobRow
      <4>4. attempts[k] \in RetryableStatuses
        BY <2>1, <2>t, <4>3 DEF SaveCreated, Stands, StandsCreating, Opening
      <4> QED BY <3>1, <4>1, <4>2, <4>3, <4>4 DEF Jobs
    <3>3. Lifecycle!Open(j)
      BY <2>t, <3>1, <3>2
         DEF Lifecycle!Open, Lifecycle!Opened, RetryableStatuses
    <3> QED BY <2>t, <3>1, <3>3 DEF Lifecycle!Next
  <2>2. CASE MarkRow(p)
    <3>1. /\ SaveJob(k, "RUNNING", NoResult) /\ HasRow(k)
          /\ attempts[k] = "WAITING_EXTERNAL_CODEX"
      BY <2>2, <2>a, <2>t
         DEF MarkRow, Stands, StandsAtCurrent, Carrying, Executing
    <3>2. Lifecycle!Begin(k)
      BY <3>1 DEF SaveJob, Lifecycle!Begin
    <3> QED BY <2>s, <3>1, <3>2
  <2>c. ASSUME NEW status \in CompletionOutcomes
                     \cup {"INTERRUPTED", "ABORTED_BY_USER"}, NEW result,
               SaveJob(k, status, result), HasRow(k), attempts[k] = "RUNNING"
        PROVE  [Lifecycle!Next]_attempts
    <3>1. Lifecycle!Close(k)
      BY <2>c DEF SaveJob, Lifecycle!Close, CompletionOutcomes
    <3> QED BY <2>c, <2>s, <3>1
  <2>3. CASE FinishRow(p)
    <3>1. /\ SaveJob(k, call[p].status, call[p].result) /\ HasRow(k)
          /\ attempts[k] = "RUNNING" /\ call[p].status \in CompletionOutcomes
      BY <2>3, <2>a, <2>t
         DEF FinishRow, Stands, StandsAtCurrent, Carrying, Executing,
             Attending, CallFits
    <3> QED BY <2>c, <3>1
  <2>4. CASE AbortRow(p)
    <3>1. /\ SaveJob(k, "ABORTED_BY_USER", NoResult) /\ HasRow(k)
          /\ attempts[k] = "RUNNING"
      BY <2>4, <2>a, <2>t
         DEF AbortRow, Stands, StandsAtCurrent, Carrying, Executing, Attending
    <3> QED BY <2>c, <3>1
  <2>5. CASE InterruptRow(p)
    <3>1. /\ SaveJob(k, "INTERRUPTED", NoResult) /\ HasRow(k)
          /\ attempts[k] = "RUNNING"
      BY <2>5, <2>a, <2>t
         DEF InterruptRow, Stands, StandsAtCurrent, Carrying, Attending
    <3> QED BY <2>c, <3>1
  <2>i. ASSUME NEW result, SaveJob(k, "INGESTED", result), HasRow(k),
               Successful(dir[k].completion)
        PROVE  [Lifecycle!Next]_attempts
    <3>1. attempts[k] \in {"RUNNING", "COMPLETED", "INGESTED"}
      BY <1>2, <2>i DEF SerialInv, ResultTells, Successful, HasRow
    <3>2. attempts[k] = "INGESTED" \/ Lifecycle!Ingest(k)
      BY <2>i, <3>1 DEF SaveJob, Lifecycle!Ingest
    <3> QED BY <2>i, <2>s, <3>2
  <2>6. CASE ReconcileRow(p)
    <3>1. /\ pc[p] = "reconcile_row" /\ HasRow(k)
          /\ attempts[k] = current.status
          /\ SaveJob(k, IF Successful(call[p].result) THEN "INGESTED"
                        ELSE call[p].status, call[p].result)
      BY <2>6, <2>a DEF ReconcileRow, Carrying
    <3>2. CASE call[p].result = NoResult
      BY <2>s, <2>t, <3>1, <3>2 DEF Stands, StandsWithResult, Successful
    <3>3. CASE Successful(call[p].result)
      BY <2>i, <2>t, <3>1, <3>3 DEF Stands, StandsWithResult, Successful
    <3>4. CASE call[p].result # NoResult /\ ~Successful(call[p].result)
      <4>1. /\ call[p].result = dir[k].completion
            /\ call[p].status = dir[k].completion.outcome
            /\ SaveJob(k, call[p].status, call[p].result)
        BY <2>t, <3>1, <3>4 DEF Stands, StandsWithResult
      <4>2. attempts[k] \in {"RUNNING", call[p].status}
        BY <1>2, <3>1, <3>4, <4>1 DEF SerialInv, ResultTells, HasRow
      <4>3. call[p].status \in CompletionOutcomes
        <5>1. dir[k] \in JobDir
          BY <2>t, <3>1 DEF TypeOK, HasRow
        <5>2. dir[k].completion \in Completion
          BY <3>4, <4>1, <5>1 DEF JobDir
        <5> QED BY <4>1, <5>2 DEF Completion
      <4> QED BY <2>c, <2>s, <3>1, <4>1, <4>2, <4>3
    <3> QED BY <3>2, <3>3, <3>4
  <2>7. CASE IngestRow(p)
    <3>1. /\ SaveJob(k, "INGESTED", call[p].result) /\ HasRow(k)
          /\ Successful(dir[k].completion)
      BY <2>7, <2>a, <2>t DEF IngestRow, Carrying, Stands, StandsWithResult
    <3> QED BY <2>i, <3>1
  <2>8. CASE ~(\/ SaveCreated(p) \/ MarkRow(p) \/ FinishRow(p) \/ AbortRow(p)
               \/ InterruptRow(p) \/ ReconcileRow(p) \/ IngestRow(p))
    <3>1. \/ ExecutorStep(p) \/ OperatorStep(p) \/ InterruptStep(p) \/ Crash(p)
          \/ UNCHANGED vars
      BY <1>2 DEF Next, Procs
    <3>2. UNCHANGED attempts
      BY <2>8, <3>1
         DEF vars, registry, ExecutorStep, Run, Mark, Execute, Codex,
             FinishFile, Signal, Abort, OperatorStep, Create, Start, Retry,
             Reconcile, Ingest, Resume, Find, Number, MakeDir, WriteRequest,
             LinkJob, RestartMaster, LoadTerminal, ReconcileMaster,
             ReconcileEvent, JournalResult, IngestMaster, IngestEvent, Inspect,
             Wait, Adapter, EnterVerification, FinishRun, Fail, InterruptStep,
             Interrupt, LoadStale, InterruptFile, Crash
    <3> QED BY <3>2
  <2> QED BY <2>1, <2>2, <2>3, <2>4, <2>5, <2>6, <2>7, <2>8
<1>3. WorkInv /\ SerialInv /\ [Next]_vars => [Lifecycle!Next]_attempts
  BY <1>2
<1> QED BY <1>1, <1>3, LoneWork, PTL DEF Spec, ImplementsLifecycle, Lifecycle!Spec
=============================================================================
