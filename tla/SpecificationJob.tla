-------------------------- MODULE SpecificationJob --------------------------
(***************************************************************************)
(* The drafts of one run's specification: the candidate loop of            *)
(* phase_b/services.py, the jobs of specification_executor/jobs.py by      *)
(* which a restricted environment hands a draft over, and the external     *)
(* executor that works on them.  Files and rows change one after the       *)
(* other, and a process may die between any two writes.                    *)
(*                                                                         *)
(* One command of the run is at work at a time; executors may overlap with *)
(* it.  What Codex wrote is told apart by the number of its invocation.    *)
(* Left out: the deterministic dry run and the prebuilt specification,     *)
(* inputs of a job that somebody else changed, and the rows that nothing   *)
(* reads (invocations, result manifests, pause signals).                   *)
(***************************************************************************)
EXTENDS Naturals, Sequences, FiniteSets

CONSTANTS
    Executors,   \* processes that run `specification-executor run`
    MaxAttempts, \* candidates of a run: one draft and its repairs
    Restricted,  \* this environment always denies Codex
    MaxRuns,     \* bound: invocations of Codex
    MaxCrashes   \* bound: deaths of a process

ASSUME SpecificationJobAssumption ==
    /\ MaxAttempts \in Nat \ {0}
    /\ Restricted \in BOOLEAN
    /\ MaxRuns \in Nat /\ MaxCrashes \in Nat

VARIABLES
    outputs,    \* history: what each invocation of Codex came to
    dir,        \* the job directory of each attempt
    jobs,       \* status of each specification_jobs row, or "NONE"
    attempts,   \* status of each specification_attempts row, or "NONE"
    drafts,     \* attempts/attempt-NNN/draft.yaml
    canonical,  \* canonical/specification.yaml; 0: none
    failed,     \* there is a specification_failures row
    outcome,    \* what the master run says of its specification
    signalled,  \* jobs whose completion was signalled to Smithers
    gen,        \* the command at work: pc, attempt, text in hand, text verified
    exec,       \* the executors: pc, job, invocation
    crashes

candidates == <<attempts, drafts, canonical, failed, outcome>>
vars == <<outputs, dir, jobs, candidates, signalled, gen, exec, crashes>>

Attempts == 1..MaxAttempts

-----------------------------------------------------------------------------
\* What an invocation comes to: a valid mapping (one that is only held back by
\* an ambiguity included), an invalid one, no mapping, a failure, or a failure
\* because the repository changed under it.
OutputKind == {"valid", "invalid", "prose", "failed", "mutated"}

\* SpecificationCompletionStatus.  CANCELLED is never written, and
\* FAILED_INPUT_INTEGRITY takes a change of the inputs.
CompletionStatus ==
    {"SUCCEEDED", "FAILED_CODEX_EXECUTION", "FAILED_OUTPUT_EXTRACTION",
     "FAILED_ARTIFACT_INTEGRITY"}

StatusOf(kind) ==
    CASE kind \in {"valid", "invalid"} -> "SUCCEEDED"
      [] kind = "prose" -> "FAILED_OUTPUT_EXTRACTION"
      [] kind = "failed" -> "FAILED_CODEX_EXECUTION"
      [] kind = "mutated" -> "FAILED_ARTIFACT_INTEGRITY"

Verdict(kind) ==
    CASE kind = "valid" -> "VALID"
      [] kind \in {"invalid", "prose"} -> "INVALID"
      [] kind = "failed" -> "CODEX_FAILED"

\* The result files of a job, each by the invocation it holds; 0: none.
NoFiles == [invocation |-> 0, raw |-> 0, draft |-> 0, report |-> 0]

NoCompletion == [status |-> "NONE", run |-> 0, files |-> NoFiles]

NoDir ==
    [made |-> FALSE, request |-> FALSE, prior |-> 0, files |-> NoFiles,
     completion |-> NoCompletion]

Idle == [pc |-> "idle", at |-> 0, raw |-> 0, seen |-> 0]

Resting == [pc |-> "idle", job |-> 0, run |-> 0]

Init ==
    /\ outputs = <<>>
    /\ dir = [n \in Attempts |-> NoDir]
    /\ jobs = [n \in Attempts |-> "NONE"]
    /\ attempts = [n \in Attempts |-> "NONE"]
    /\ drafts = [n \in Attempts |-> 0]
    /\ canonical = 0
    /\ failed = FALSE
    /\ outcome = "NEW"
    /\ signalled = {}
    /\ gen = Idle
    /\ exec = [p \in Executors |-> Resting]
    /\ crashes = 0

-----------------------------------------------------------------------------
\* PhaseBService.generate_spec

At(pc) == gen.pc = pc
Goto(pc) == gen' = [gen EXCEPT !.pc = pc]

\* The command ends, with a result or an exception.
Return == gen' = Idle

\* Mutant: an attempt whose invocation failed is drafted again.
PassedOverInvalid(n) == attempts[n] = "INVALID"

\* What was found invalid is not drafted again.
PassedOver(n) == attempts[n] \in {"INVALID", "CODEX_FAILED"}

\* The loop goes on with the first attempt from n on that is not passed over.
Proceed(n) ==
    \/ /\ \A k \in n..MaxAttempts : PassedOver(k)
       /\ gen' = [Idle EXCEPT !.pc = "exhausted"]
    \/ \E k \in n..MaxAttempts :
         /\ ~PassedOver(k)
         /\ \A j \in n..(k - 1) : PassedOver(j)
         /\ gen' = [Idle EXCEPT !.pc = "attempt", !.at = k]

\* `start`, `resume` or `retry_specification` while the run has no registered
\* specification.  A valid canonical one is reused.
Generate ==
    /\ At("idle") /\ outcome # "REGISTERED"
    /\ IF canonical # 0 /\ \E n \in Attempts : attempts[n] = "VALID"
         THEN Goto("register")
         ELSE Proceed(1)
    /\ UNCHANGED <<outputs, dir, jobs, candidates, signalled, exec, crashes>>

\* The newest job is that of the attempt.
External(n) == jobs[n] # "NONE" /\ \A k \in (n + 1)..MaxAttempts : jobs[k] = "NONE"

\* Every artifact the completion lists is still the one that was hashed.
Verifies(n) ==
    \A f \in DOMAIN NoFiles :
      dir[n].completion.files[f] # 0 =>
        dir[n].files[f] = dir[n].completion.files[f]

\* Mutant: the row says whether there is a candidate.
CandidateByRow(n) == jobs[n] \in {"SUCCEEDED", "FAILED_OUTPUT_EXTRACTION"}

Candidate(n) ==
    dir[n].completion.status \in {"SUCCEEDED", "FAILED_OUTPUT_EXTRACTION"}

\* The completion of the attempt's job is verified, or the job is waited for.
TakeExternal ==
    /\ At("attempt") /\ External(gen.at)
    /\ \/ /\ Candidate(gen.at) /\ Verifies(gen.at)
          /\ gen' = [gen EXCEPT !.pc = "raw",
                                !.seen = dir[gen.at].completion.run]
       \/ ~Candidate(gen.at) /\ Verifies(gen.at) /\ Goto("pause")
       \/ ~Verifies(gen.at) /\ Return
    /\ UNCHANGED <<outputs, dir, jobs, candidates, signalled, exec, crashes>>

\* The text is read from its path, after the completion was verified.
ReadRaw ==
    /\ At("raw")
    /\ gen' = [gen EXCEPT !.pc = "draft", !.raw = dir[gen.at].files.raw]
    /\ UNCHANGED <<outputs, dir, jobs, candidates, signalled, exec, crashes>>

\* Codex is denied: the attempt becomes a job.
Denied ==
    /\ At("attempt") /\ ~External(gen.at)
    /\ Goto("make")
    /\ UNCHANGED <<outputs, dir, jobs, candidates, signalled, exec, crashes>>

\* Codex runs here.
Codex ==
    /\ At("attempt") /\ ~External(gen.at) /\ ~Restricted
    /\ Len(outputs) < MaxRuns
    /\ \E kind \in OutputKind \ {"mutated"} : outputs' = Append(outputs, kind)
    /\ gen' = [gen EXCEPT !.pc = "draft", !.raw = Len(outputs'),
                          !.seen = Len(outputs')]
    /\ UNCHANGED <<dir, jobs, candidates, signalled, exec, crashes>>

\* _persist_attempt: the files of the attempt, then its row.
WriteDraft ==
    /\ At("draft")
    /\ drafts' = [drafts EXCEPT ![gen.at] = gen.raw]
    /\ Goto("judged")
    /\ UNCHANGED <<outputs, dir, jobs, attempts, canonical, failed, outcome,
                   signalled, exec, crashes>>

\* Mutant: a mapping is accepted before it was validated.
SaveAttemptUntested ==
    /\ At("judged")
    /\ attempts' = [attempts EXCEPT ![gen.at] = Verdict(outputs[gen.raw])]
    /\ Goto("canonical")
    /\ UNCHANGED <<outputs, dir, jobs, drafts, canonical, failed, outcome,
                   signalled, exec, crashes>>

\* A candidate that came from a job is repaired by a job.
SaveAttempt ==
    /\ At("judged")
    /\ LET verdict == Verdict(outputs[gen.raw]) IN
         /\ attempts' = [attempts EXCEPT ![gen.at] = verdict]
         /\ IF verdict = "VALID" THEN Goto("canonical")
            ELSE IF ~External(gen.at) THEN Goto("next")
            ELSE IF gen.at = MaxAttempts THEN Goto("exhausted")
            ELSE gen' = [Idle EXCEPT !.pc = "make", !.at = gen.at + 1]
    /\ UNCHANGED <<outputs, dir, jobs, drafts, canonical, failed, outcome,
                   signalled, exec, crashes>>

\* The attempts are read again.
NextAttempt ==
    /\ At("next")
    /\ Proceed(gen.at + 1)
    /\ UNCHANGED <<outputs, dir, jobs, candidates, signalled, exec, crashes>>

SaveCanonical ==
    /\ At("canonical")
    /\ canonical' = gen.raw
    /\ Goto("clear")
    /\ UNCHANGED <<outputs, dir, jobs, attempts, drafts, failed, outcome,
                   signalled, exec, crashes>>

\* After the copy for the approval was written.
ClearFailure ==
    /\ At("clear")
    /\ failed' = FALSE
    /\ Goto("register")
    /\ UNCHANGED <<outputs, dir, jobs, attempts, drafts, canonical, outcome,
                   signalled, exec, crashes>>

\* What follows, until the run waits for its approval, is MasterRun's.
Register ==
    /\ At("register")
    /\ outcome' = "REGISTERED"
    /\ Return
    /\ UNCHANGED <<outputs, dir, jobs, attempts, drafts, canonical, failed,
                   signalled, exec, crashes>>

\* final_failure.json and its row.
SaveFailure ==
    /\ At("exhausted")
    /\ failed' = TRUE
    /\ Goto("fail")
    /\ UNCHANGED <<outputs, dir, jobs, attempts, drafts, canonical, outcome,
                   signalled, exec, crashes>>

Fail ==
    /\ At("fail")
    /\ outcome' = "SPECIFICATION_GENERATION_FAILURE"
    /\ Return
    /\ UNCHANGED <<outputs, dir, jobs, attempts, drafts, canonical, failed,
                   signalled, exec, crashes>>

-----------------------------------------------------------------------------
\* SpecificationJobService.create

\* mkdir(exist_ok=False).
MakeDir ==
    /\ At("make")
    /\ IF dir[gen.at].made
         THEN Return /\ UNCHANGED dir
         ELSE /\ dir' = [dir EXCEPT ![gen.at].made = TRUE]
              /\ Goto("request")
    /\ UNCHANGED <<outputs, jobs, candidates, signalled, exec, crashes>>

\* Mutant: the draft of the first attempt is what a repair gets.
PriorFirst(n) == IF n = 1 THEN 0 ELSE drafts[1]

Prior(n) == IF n = 1 THEN 0 ELSE drafts[n - 1]

\* The inputs, with a copy of the invalid draft, and the request.
WriteRequest ==
    /\ At("request")
    /\ dir' = [dir EXCEPT ![gen.at].request = TRUE,
                          ![gen.at].prior = Prior(gen.at)]
    /\ Goto("job")
    /\ UNCHANGED <<outputs, jobs, candidates, signalled, exec, crashes>>

SaveJob ==
    /\ At("job")
    /\ jobs' = [jobs EXCEPT ![gen.at] = "WAITING"]
    /\ Goto("pause")
    /\ UNCHANGED <<outputs, dir, candidates, signalled, exec, crashes>>

\* _pause_for_external_specification.
Pause ==
    /\ At("pause")
    /\ outcome' = "WAITING_EXTERNAL_SPECIFICATION"
    /\ Return
    /\ UNCHANGED <<outputs, dir, jobs, attempts, drafts, canonical, failed,
                   signalled, exec, crashes>>

-----------------------------------------------------------------------------
\* ExternalSpecificationExecutor.run

ExecAt(p, pc) == exec[p].pc = pc
ExecGoto(p, pc) == exec' = [exec EXCEPT ![p].pc = pc]

Write(p, files) ==
    dir' = [dir EXCEPT ![exec[p].job].files =
              [f \in DOMAIN NoFiles |->
                 IF f \in files THEN exec[p].run ELSE @[f]]]

\* A successful completion is verified and returned as it is.
MayRun(n) == jobs[n] # "NONE" /\ dir[n].completion.status # "SUCCEEDED"

Run(p, n) ==
    /\ ExecAt(p, "idle") /\ MayRun(n)
    /\ exec' = [exec EXCEPT ![p] = [pc |-> "codex", job |-> n, run |-> 0]]
    /\ UNCHANGED <<outputs, dir, jobs, candidates, signalled, gen, crashes>>

ExecCodex(p) ==
    /\ ExecAt(p, "codex")
    /\ Len(outputs) < MaxRuns
    /\ \E kind \in OutputKind : outputs' = Append(outputs, kind)
    /\ exec' = [exec EXCEPT ![p].pc = "invocation", ![p].run = Len(outputs')]
    /\ UNCHANGED <<dir, jobs, candidates, signalled, gen, crashes>>

KindOf(p) == outputs[exec[p].run]

\* Output is kept only of an invocation that succeeded and changed nothing.
WriteInvocation(p) ==
    /\ ExecAt(p, "invocation")
    /\ Write(p, {"invocation"})
    /\ ExecGoto(p, IF KindOf(p) \in {"failed", "mutated"}
                     THEN "completion" ELSE "raw")
    /\ UNCHANGED <<outputs, jobs, candidates, signalled, gen, crashes>>

WriteRaw(p) ==
    /\ ExecAt(p, "raw")
    /\ Write(p, {"raw"})
    /\ ExecGoto(p, "extract")
    /\ UNCHANGED <<outputs, jobs, candidates, signalled, gen, crashes>>

\* Mutant: a draft that is there already is kept.
ExtractedOnce(p) ==
    IF KindOf(p) = "prose" \/ dir[exec[p].job].files.draft # 0
      THEN {"report"} ELSE {"draft", "report"}

\* Without a mapping there is a report and no draft.
Extracted(p) == IF KindOf(p) = "prose" THEN {"report"} ELSE {"draft", "report"}

WriteDraftFile(p) ==
    /\ ExecAt(p, "extract")
    /\ "draft" \in Extracted(p)
    /\ Write(p, {"draft"})
    /\ ExecGoto(p, "report")
    /\ UNCHANGED <<outputs, jobs, candidates, signalled, gen, crashes>>

\* The extraction report and the output manifest.
WriteReport(p) ==
    /\ \/ ExecAt(p, "report")
       \/ ExecAt(p, "extract") /\ "draft" \notin Extracted(p)
    /\ Write(p, {"report"})
    /\ ExecGoto(p, "completion")
    /\ UNCHANGED <<outputs, jobs, candidates, signalled, gen, crashes>>

\* _finish: completion.json with the hashes of whatever files are there, then
\* the row, then the signal.
WriteCompletion(p) ==
    /\ ExecAt(p, "completion")
    /\ dir' = [dir EXCEPT ![exec[p].job].completion =
                 [status |-> StatusOf(KindOf(p)), run |-> exec[p].run,
                  files |-> dir[exec[p].job].files]]
    /\ ExecGoto(p, "row")
    /\ UNCHANGED <<outputs, jobs, candidates, signalled, gen, crashes>>

FinishRow(p) ==
    /\ ExecAt(p, "row")
    /\ jobs' = [jobs EXCEPT ![exec[p].job] = StatusOf(KindOf(p))]
    /\ ExecGoto(p, "notify")
    /\ UNCHANGED <<outputs, dir, candidates, signalled, gen, crashes>>

\* Smithers is taken to be there and to listen.
Notify(p) ==
    /\ ExecAt(p, "notify")
    /\ signalled' = signalled \cup {exec[p].job}
    /\ exec' = [exec EXCEPT ![p] = Resting]
    /\ UNCHANGED <<outputs, dir, jobs, candidates, gen, crashes>>

-----------------------------------------------------------------------------
Crash ==
    /\ crashes < MaxCrashes
    /\ crashes' = crashes + 1
    /\ \/ ~At("idle") /\ Return /\ UNCHANGED exec
       \/ \E p \in Executors :
            /\ ~ExecAt(p, "idle")
            /\ exec' = [exec EXCEPT ![p] = Resting]
            /\ UNCHANGED gen
    /\ UNCHANGED <<outputs, dir, jobs, candidates, signalled>>

Command ==
    \/ Generate \/ TakeExternal \/ ReadRaw \/ Denied \/ Codex \/ WriteDraft
    \/ SaveAttempt \/ NextAttempt \/ SaveCanonical \/ ClearFailure \/ Register
    \/ SaveFailure \/ Fail \/ MakeDir \/ WriteRequest \/ SaveJob \/ Pause

Execute(p) ==
    \/ \E n \in Attempts : Run(p, n)
    \/ ExecCodex(p) \/ WriteInvocation(p) \/ WriteRaw(p) \/ WriteDraftFile(p)
    \/ WriteReport(p) \/ WriteCompletion(p) \/ FinishRow(p) \/ Notify(p)

Next == Command \/ (\E p \in Executors : Execute(p)) \/ Crash

Spec == Init /\ [][Next]_vars

\* A command runs to its end and is repeated while the run has no
\* specification, and so is an executor's: Smithers and the operator do that.
FairSpec ==
    /\ Spec
    /\ WF_vars(Command)
    /\ \A p \in Executors : WF_vars(Execute(p))

-----------------------------------------------------------------------------
\* What is in the rows and files is of its kind.
TypeOK ==
    /\ outputs \in Seq(OutputKind) /\ Len(outputs) <= MaxRuns
    /\ \A n \in Attempts :
         /\ dir[n].made \in BOOLEAN /\ dir[n].request \in BOOLEAN
         /\ dir[n].prior \in 0..Len(outputs)
         /\ dir[n].files \in [DOMAIN NoFiles -> 0..Len(outputs)]
         /\ dir[n].completion = NoCompletion
              \/ /\ dir[n].completion.status \in CompletionStatus
                 /\ dir[n].completion.run \in DOMAIN outputs
                 /\ dir[n].completion.files \in [DOMAIN NoFiles -> 0..Len(outputs)]
    /\ jobs \in [Attempts -> CompletionStatus \cup {"NONE", "WAITING"}]
    /\ attempts \in [Attempts -> {"NONE", "VALID", "INVALID", "CODEX_FAILED"}]
    /\ drafts \in [Attempts -> 0..Len(outputs)]
    /\ canonical \in 0..Len(outputs) /\ failed \in BOOLEAN
    /\ signalled \subseteq Attempts
    /\ gen.at \in 0..MaxAttempts /\ gen.raw \in 0..Len(outputs)
    /\ \A p \in Executors :
         exec[p].job \in 0..MaxAttempts /\ exec[p].run \in 0..Len(outputs)
    /\ crashes \in 0..MaxCrashes

\* A repair is asked for the draft that was found invalid, and still is about
\* it whatever is run again: the request of attempt n + 1 holds the draft that
\* the row of attempt n was a verdict on.
RepairsWhatFailed ==
    \A n \in Attempts : dir[n].made /\ n > 1 =>
      /\ attempts[n - 1] \in {"INVALID", "CODEX_FAILED"}
      /\ drafts[n - 1] # 0 /\ Verdict(outputs[drafts[n - 1]]) = attempts[n - 1]
      /\ dir[n].request => dir[n].prior = drafts[n - 1]

\* A successful completion lists the files of one invocation that wrote a
\* mapping, they are still there, and no row claims a success without one:
\* an executor that dies over a job and the one that takes it up again never
\* mix their results.
SuccessIsOneRun ==
    \A n \in Attempts :
      /\ dir[n].completion.status = "SUCCEEDED" =>
           /\ outputs[dir[n].completion.run] \in {"valid", "invalid"}
           /\ dir[n].files = [f \in DOMAIN NoFiles |-> dir[n].completion.run]
           /\ Verifies(n)
      /\ jobs[n] = "SUCCEEDED" => dir[n].completion.status = "SUCCEEDED"

\* The canonical specification is the draft of an attempt that was judged
\* valid, and no run is registered, or reported as failed, against it.
CanonicalWasJudged ==
    /\ canonical # 0 =>
         /\ outputs[canonical] = "valid"
         /\ \E n \in Attempts : attempts[n] = "VALID" /\ drafts[n] = canonical
         /\ ~failed
    /\ outcome = "REGISTERED" => canonical # 0
    /\ failed => \A n \in Attempts : attempts[n] \in {"INVALID", "CODEX_FAILED"}

\* The candidate loop, through files, jobs, crashes and retries, is the bounded
\* loop that BoundedRepair states.
Bounded ==
    INSTANCE BoundedRepair WITH
      judged <- [n \in Attempts |->
                   IF attempts[n] = "CODEX_FAILED" THEN "INVALID" ELSE attempts[n]],
      accepted <- IF canonical = 0 THEN 0
                  ELSE CHOOSE n \in Attempts : attempts[n] = "VALID",
      givenUp <- failed

ImplementsBoundedRepair == Bounded!Spec

\* A successful draft is judged: no crash leaves a run waiting for a job that
\* is done, however often the commands are repeated.
SuccessIsJudged ==
    \A n \in Attempts :
      dir[n].completion.status = "SUCCEEDED" ~> attempts[n] # "NONE"

\* What the documentation says of restricted environments: a repair that is due
\* becomes a durable job.
RepairIsHandedOver ==
    \A n \in Attempts : n > 1 /\ attempts[n - 1] = "INVALID" ~> jobs[n] # "NONE"

\* What the documentation says of the executor: it signals the waiting run.
SuccessIsSignalled ==
    \A n \in Attempts :
      dir[n].completion.status = "SUCCEEDED" ~> n \in signalled

\* What the documentation says of a completion: it is accepted only when every
\* listed artifact matches, so the text that is judged is the verified one.
JudgedAsVerified == At("draft") => gen.raw = gen.seen

=============================================================================
