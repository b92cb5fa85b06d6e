------------------------ MODULE SpecificationProofs ------------------------
(***************************************************************************)
(* What stays true of the drafts of a run, for every number of attempts,   *)
(* invocations and deaths: for any executors beside the command, and, what *)
(* is about the files of a job, for one executor at a time.                *)
(***************************************************************************)
EXTENDS SpecificationJob, SequenceTheorems, TLAPS

-----------------------------------------------------------------------------
\* Shape

FileNames == {"invocation", "raw", "draft", "report"}

Files == [FileNames -> Nat]

JobEntry ==
    [made : BOOLEAN, request : BOOLEAN, prior : Nat, files : Files,
     completion : [status : CompletionStatus \cup {"NONE"}, run : Nat,
                   files : Files]]

CommandSteps ==
    {"idle", "attempt", "raw", "draft", "judged", "next", "canonical", "clear",
     "register", "exhausted", "fail", "make", "request", "job", "pause"}

\* The steps of a command that are about one attempt.
Attempting ==
    {"attempt", "raw", "draft", "judged", "next", "canonical", "make",
     "request", "job"}

ExecutorSteps ==
    {"idle", "codex", "invocation", "raw", "extract", "report", "completion",
     "row", "notify"}

Recording == ExecutorSteps \ {"idle", "codex"}

CommandState ==
    [pc : CommandSteps, at : 0..MaxAttempts, raw : Nat, seen : Nat]

ExecutorState == [pc : ExecutorSteps, job : 0..MaxAttempts, run : Nat]

Shape ==
    /\ outputs \in Seq(OutputKind)
    /\ dir \in [Attempts -> JobEntry]
    /\ gen \in CommandState
    /\ exec \in [Executors -> ExecutorState]

\* What is written down of invocations was invoked.
Happened(i) == i \in 0..Len(outputs)

RowsTyped ==
    /\ jobs \in [Attempts -> CompletionStatus \cup {"NONE", "WAITING"}]
    /\ attempts \in [Attempts -> {"NONE", "VALID", "INVALID", "CODEX_FAILED"}]
    /\ drafts \in [Attempts -> Nat] /\ \A n \in Attempts : Happened(drafts[n])
    /\ canonical \in Nat /\ Happened(canonical)
    /\ failed \in BOOLEAN
    /\ signalled \subseteq Attempts
    /\ crashes \in 0..MaxCrashes

EntryHappened(d) ==
    /\ Happened(d.prior) /\ \A f \in FileNames : Happened(d.files[f])
    /\ d.completion = NoCompletion
         \/ /\ d.completion.status # "NONE"
            /\ d.completion.run \in DOMAIN outputs
            /\ \A f \in FileNames : Happened(d.completion.files[f])

CommandHappened ==
    /\ Happened(gen.raw)
    /\ gen.pc \in Attempting => gen.at \in Attempts
    /\ gen.pc \in {"draft", "judged", "canonical"} => gen.raw # 0

ExecutorHappened(p) ==
    /\ exec[p].pc # "idle" => exec[p].job \in Attempts
    /\ IF exec[p].pc \in Recording THEN exec[p].run \in DOMAIN outputs
                                   ELSE exec[p].run = 0

\* The text of an invocation that left one.
Text(i) == outputs[i] \in {"valid", "invalid", "prose"}

(* Text is kept of an invocation that succeeded, and a job with a candidate *)
(* has a text, which later invocations replace and do not remove.           *)
TextKept(n) ==
    /\ dir[n].files["raw"] # 0 => Text(dir[n].files["raw"])
    /\ Candidate(n) => dir[n].files["raw"] # 0

TextWritten(p) ==
    /\ exec[p].pc \in {"raw", "extract", "report"} => Text(exec[p].run)
    /\ exec[p].pc \in {"extract", "report"} => dir[exec[p].job].files["raw"] # 0
    /\ exec[p].pc = "completion" /\ Text(exec[p].run) =>
         dir[exec[p].job].files["raw"] # 0

TextInHand ==
    /\ gen.pc = "raw" => dir[gen.at].files["raw"] # 0
    /\ gen.pc \in {"draft", "judged", "canonical"} =>
         Text(gen.raw) \/ outputs[gen.raw] = "failed"

Typed ==
    /\ Shape /\ RowsTyped
    /\ Len(outputs) <= MaxRuns
    /\ \A n \in Attempts : EntryHappened(dir[n]) /\ TextKept(n)
    /\ CommandHappened /\ TextInHand
    /\ \A p \in Executors : ExecutorHappened(p) /\ TextWritten(p)

-----------------------------------------------------------------------------
\* Going on

LEMMA GotoFields ==
    ASSUME Shape, NEW step \in CommandSteps, Goto(step)
    PROVE  /\ gen' \in CommandState
           /\ gen'.pc = step /\ gen'.at = gen.at /\ gen'.raw = gen.raw
BY DEF Shape, Goto, CommandState

LEMMA ReturnFields ==
    ASSUME Return
    PROVE  /\ gen' \in CommandState
           /\ gen'.pc = "idle" /\ gen'.at = 0 /\ gen'.raw = 0
BY SpecificationJobAssumption DEF Return, Idle, CommandState, CommandSteps

LEMMA ProceedFields ==
    ASSUME NEW n \in Nat \ {0}, Proceed(n)
    PROVE  /\ gen' \in CommandState
           /\ gen'.raw = 0
           /\ \/ /\ gen'.pc = "exhausted" /\ gen'.at = 0
                 /\ \A k \in n..MaxAttempts : PassedOver(k)
              \/ /\ gen'.pc = "attempt" /\ gen'.at \in n..MaxAttempts
                 /\ gen'.at \in Attempts /\ ~PassedOver(gen'.at)
                 /\ \A k \in n..(gen'.at - 1) : PassedOver(k)
<1> USE SpecificationJobAssumption
<1>1. CASE /\ \A k \in n..MaxAttempts : PassedOver(k)
           /\ gen' = [Idle EXCEPT !.pc = "exhausted"]
  BY <1>1 DEF Idle, CommandState, CommandSteps
<1>2. ASSUME NEW k \in n..MaxAttempts, ~PassedOver(k),
             \A j \in n..(k - 1) : PassedOver(j),
             gen' = [Idle EXCEPT !.pc = "attempt", !.at = k]
      PROVE  /\ gen' \in CommandState
             /\ gen'.raw = 0 /\ gen'.pc = "attempt"
             /\ gen'.at \in n..MaxAttempts /\ gen'.at \in Attempts
             /\ ~PassedOver(gen'.at)
             /\ \A j \in n..(gen'.at - 1) : PassedOver(j)
  <2>1. gen' = [pc |-> "attempt", at |-> k, raw |-> 0, seen |-> 0]
    BY <1>2 DEF Idle
  <2>2. k \in Attempts /\ k \in 0..MaxAttempts
    BY DEF Attempts
  <2>3. gen'.pc = "attempt" /\ gen'.raw = 0 /\ gen'.at = k
    BY <2>1
  <2>4. gen' \in CommandState
    BY <2>1, <2>2 DEF CommandState, CommandSteps
  <2>5. ~PassedOver(gen'.at) /\ \A j \in n..(gen'.at - 1) : PassedOver(j)
    BY <1>2, <2>3
  <2> QED BY <2>2, <2>3, <2>4, <2>5
<1> QED BY <1>1, <1>2 DEF Proceed

\* One more invocation happens, and the earlier ones stay what they were.
LEMMA OneMore ==
    ASSUME outputs \in Seq(OutputKind), NEW kind \in OutputKind,
           outputs' = Append(outputs, kind)
    PROVE  /\ outputs' \in Seq(OutputKind) /\ Len(outputs') = Len(outputs) + 1
           /\ \A i \in DOMAIN outputs :
                i \in DOMAIN outputs' /\ outputs'[i] = outputs[i]
           /\ Len(outputs') \in DOMAIN outputs'
           /\ outputs'[Len(outputs')] = kind
           /\ \A i : Happened(i) => Happened(i)'
BY DEF Happened

-----------------------------------------------------------------------------
\* Every step keeps the shape

\* A command writes rows at most.
LEMMA CommandStep ==
    ASSUME Typed, UNCHANGED <<outputs, dir, exec>>, RowsTyped',
           gen' \in CommandState, CommandHappened', TextInHand'
    PROVE  Typed'
<1>1. Shape'
  BY DEF Typed, Shape
<1>2. ASSUME NEW n \in Attempts PROVE EntryHappened(dir[n])' /\ TextKept(n)'
  BY DEF Typed, EntryHappened, TextKept, Happened, Text, Candidate
<1>3. ASSUME NEW p \in Executors PROVE ExecutorHappened(p)' /\ TextWritten(p)'
  BY DEF Typed, ExecutorHappened, TextWritten, Text
<1> QED BY <1>1, <1>2, <1>3 DEF Typed

\* A command writes the directory of its attempt, and none of its results.
LEMMA CommandDirStep ==
    ASSUME Typed, UNCHANGED <<outputs, exec>>, RowsTyped', NEW n \in Attempts,
           NEW d \in JobEntry, dir' = [dir EXCEPT ![n] = d],
           d.files = dir[n].files, d.completion = dir[n].completion,
           Happened(d.prior),
           gen' \in CommandState, CommandHappened', TextInHand'
    PROVE  Typed'
<1>1. Shape'
  BY DEF Typed, Shape
<1>2. /\ dir'[n] = d
      /\ \A k \in Attempts : /\ dir'[k].files = dir[k].files
                             /\ dir'[k].completion = dir[k].completion
                             /\ k # n => dir'[k] = dir[k]
  BY DEF Typed, Shape
<1>3. ASSUME NEW k \in Attempts PROVE EntryHappened(dir[k])' /\ TextKept(k)'
  <2>1. EntryHappened(dir[k]) /\ TextKept(k)
    BY DEF Typed
  <2>2. Happened(dir'[k].prior)
    BY <1>2, <2>1 DEF EntryHappened
  <2> QED BY <1>2, <2>1, <2>2
          DEF EntryHappened, TextKept, Happened, Text, Candidate
<1>4. ASSUME NEW p \in Executors PROVE ExecutorHappened(p)' /\ TextWritten(p)'
  BY <1>2 DEF Typed, ExecutorHappened, TextWritten, Text, Recording
<1> QED BY <1>1, <1>3, <1>4 DEF Typed

\* One more invocation changes nothing that was written of the others.
LEMMA OutputStep ==
    ASSUME Typed, NEW kind \in OutputKind, outputs' = Append(outputs, kind),
           Len(outputs) < MaxRuns,
           UNCHANGED <<dir, jobs, candidates, signalled, crashes>>
    PROVE  /\ outputs' \in Seq(OutputKind) /\ Len(outputs') <= MaxRuns
           /\ RowsTyped'
           /\ \A n \in Attempts : EntryHappened(dir[n])' /\ TextKept(n)'
           /\ \A p \in Executors : exec'[p] = exec[p] =>
                ExecutorHappened(p)' /\ TextWritten(p)'
           /\ gen' = gen => CommandHappened' /\ TextInHand'
<1> USE SpecificationJobAssumption
<1>1. /\ outputs' \in Seq(OutputKind) /\ Len(outputs') = Len(outputs) + 1
      /\ Len(outputs) \in Nat /\ DOMAIN outputs = 1..Len(outputs)
      /\ \A i \in DOMAIN outputs :
           i \in DOMAIN outputs' /\ outputs'[i] = outputs[i]
      /\ \A i : Happened(i) => Happened(i)'
  BY OneMore DEF Typed, Shape
<1>2. \A i \in Nat \ {0} : Happened(i) => i \in DOMAIN outputs
  BY <1>1 DEF Happened
<1>3. RowsTyped'
  BY <1>1 DEF Typed, RowsTyped, candidates
<1>4. ASSUME NEW n \in Attempts PROVE EntryHappened(dir[n])' /\ TextKept(n)'
  <2>1. dir[n].files["raw"] \in Nat /\ dir' = dir
    BY DEF Typed, Shape, JobEntry, Files, FileNames
  <2>2. EntryHappened(dir[n]) /\ TextKept(n)
    BY DEF Typed
  <2>3. EntryHappened(dir[n])'
    BY <1>1, <2>1, <2>2 DEF EntryHappened
  <2>4. Happened(dir[n].files["raw"])
    BY <2>2 DEF EntryHappened, FileNames
  <2> QED BY <1>1, <1>2, <2>1, <2>2, <2>3, <2>4 DEF TextKept, Text, Candidate
<1>5. ASSUME NEW p \in Executors, exec'[p] = exec[p]
      PROVE  ExecutorHappened(p)' /\ TextWritten(p)'
  <2>1. ExecutorHappened(p) /\ TextWritten(p)
    BY DEF Typed
  <2> QED BY <1>1, <1>5, <2>1
          DEF ExecutorHappened, TextWritten, Text, Recording, ExecutorSteps
<1>6. ASSUME gen' = gen PROVE CommandHappened' /\ TextInHand'
  <2>1. CommandHappened /\ TextInHand /\ gen.raw \in Nat
    BY DEF Typed, Shape, CommandState
  <2> QED BY <1>1, <1>2, <1>6, <2>1 DEF CommandHappened, TextInHand, Text
<1> QED BY <1>1, <1>3, <1>4, <1>5, <1>6 DEF Typed

LEMMA CommandTyped == ASSUME Typed, Command PROVE Typed'
<1> USE SpecificationJobAssumption
<1>t. /\ Shape /\ RowsTyped /\ CommandHappened /\ TextInHand
      /\ gen \in CommandState /\ outputs \in Seq(OutputKind)
      /\ (UNCHANGED <<outputs, jobs, candidates, signalled, crashes>>
            => RowsTyped')
  BY DEF Typed, Shape, RowsTyped, candidates, Happened
<1>r. ASSUME UNCHANGED <<outputs, dir, exec>>, RowsTyped', gen' \in CommandState,
             gen'.raw = 0, gen'.pc \in Attempting => gen'.at \in Attempts,
             gen'.pc \notin {"raw", "draft", "judged", "canonical"}
      PROVE  Typed'
  BY <1>r, <1>t, CommandStep DEF CommandHappened, TextInHand, Happened
<1>q. ASSUME NEW step \in CommandSteps, Goto(step),
             UNCHANGED <<outputs, dir, exec>>, RowsTyped',
             step \in Attempting => gen.at \in Attempts,
             step \in {"draft", "judged", "canonical"} =>
               gen.pc \in {"draft", "judged", "canonical"},
             step # "raw"
      PROVE  Typed'
  <2>1. /\ gen' \in CommandState /\ gen'.pc = step /\ gen'.at = gen.at
        /\ gen'.raw = gen.raw
    BY <1>q, <1>t, GotoFields
  <2> QED BY <1>q, <1>t, <2>1, CommandStep
          DEF CommandHappened, TextInHand, Happened, Text
<1>1. CASE Generate
  <2>1. ASSUME Proceed(1) PROVE Typed'
    BY <1>1, <1>t, <1>r, <2>1, ProceedFields
       DEF Generate, candidates, Attempting
  <2>2. ASSUME Goto("register") PROVE Typed'
    BY <1>1, <1>t, <1>q, <2>2 DEF Generate, CommandSteps, Attempting
  <2> QED BY <1>1, <2>1, <2>2 DEF Generate
<1>2. CASE TakeExternal
  <2>1. gen.at \in Attempts
    BY <1>2, <1>t DEF TakeExternal, At, CommandHappened, Attempting
  <2>2. CASE /\ Candidate(gen.at)
             /\ gen' = [gen EXCEPT !.pc = "raw",
                                   !.seen = dir[gen.at].completion.run]
    <3>1. dir[gen.at].completion.run \in Nat /\ dir[gen.at].files["raw"] # 0
      BY <1>t, <2>1, <2>2 DEF Shape, JobEntry, Typed, TextKept
    <3>2. /\ gen' \in CommandState /\ gen'.pc = "raw" /\ gen'.at = gen.at
          /\ gen'.raw = gen.raw
      BY <1>t, <2>2, <3>1 DEF CommandState, CommandSteps
    <3> QED BY <1>2, <1>t, <2>1, <3>1, <3>2, CommandStep
            DEF TakeExternal, CommandHappened, TextInHand, Happened
  <2>3. CASE Goto("pause")
    BY <1>2, <1>t, <1>q, <2>3 DEF TakeExternal, CommandSteps, Attempting
  <2>4. CASE Return
    BY <1>2, <1>t, <1>r, <2>4, ReturnFields DEF TakeExternal, Attempting
  <2> QED BY <1>2, <2>2, <2>3, <2>4 DEF TakeExternal
<1>3. CASE ReadRaw
  <2> DEFINE text == dir[gen.at].files["raw"]
  <2>1. gen.at \in Attempts /\ text # 0 /\ Text(text) /\ Happened(text)
        /\ text \in Nat
    BY <1>3, <1>t
       DEF ReadRaw, At, CommandHappened, Attempting, TextInHand, Typed,
           TextKept, EntryHappened, FileNames, Happened
  <2>2. /\ gen' \in CommandState /\ gen'.pc = "draft" /\ gen'.at = gen.at
        /\ gen'.raw = text
    BY <1>3, <1>t, <2>1 DEF ReadRaw, CommandState, CommandSteps
  <2> QED BY <1>3, <1>t, <2>1, <2>2, CommandStep
          DEF ReadRaw, CommandHappened, TextInHand, Happened, Text
<1>4. CASE Denied
  BY <1>4, <1>t, <1>q
     DEF Denied, At, CommandHappened, CommandSteps, Attempting
<1>5. CASE WriteDraft
  <2>1. RowsTyped'
    BY <1>5, <1>t DEF WriteDraft, RowsTyped, CommandState, Happened,
       CommandHappened
  <2> QED BY <1>5, <1>t, <1>q, <2>1
          DEF WriteDraft, At, CommandHappened, CommandSteps, Attempting
<1>6. CASE SaveAttempt
  <2>1. gen.at \in Attempts /\ At("judged")
    BY <1>6, <1>t DEF SaveAttempt, At, CommandHappened, Attempting
  <2>2. Verdict(outputs[gen.raw]) \in {"VALID", "INVALID", "CODEX_FAILED"}
    BY <1>t, <2>1 DEF At, TextInHand, Text, Verdict
  <2>3. RowsTyped'
    BY <1>6, <1>t, <2>2 DEF SaveAttempt, RowsTyped, Happened
  <2>4. CASE Goto("canonical") \/ Goto("next") \/ Goto("exhausted")
    BY <1>6, <1>t, <1>q, <2>1, <2>3, <2>4
       DEF SaveAttempt, At, CommandSteps, Attempting
  <2>5. CASE /\ gen.at # MaxAttempts
             /\ gen' = [Idle EXCEPT !.pc = "make", !.at = gen.at + 1]
    <3>1. gen.at + 1 \in Attempts
      BY <2>1, <2>5 DEF Attempts
    <3>2. gen' = [pc |-> "make", at |-> gen.at + 1, raw |-> 0, seen |-> 0]
      BY <2>5 DEF Idle
    <3> QED BY <1>6, <1>r, <2>3, <3>1, <3>2
            DEF SaveAttempt, CommandState, CommandSteps, Attempts
  <2> QED BY <1>6, <2>4, <2>5 DEF SaveAttempt
<1>7. CASE NextAttempt
  <2>1. gen.at + 1 \in Nat \ {0}
    BY <1>t DEF CommandState
  <2> QED BY <1>7, <1>t, <1>r, <2>1, ProceedFields DEF NextAttempt, Attempting
<1>8. CASE SaveCanonical
  <2>1. RowsTyped'
    BY <1>8, <1>t DEF SaveCanonical, RowsTyped, CommandState, Happened,
       CommandHappened
  <2> QED BY <1>8, <1>t, <1>q, <2>1 DEF SaveCanonical, CommandSteps, Attempting
<1>9. CASE ClearFailure
  <2>1. RowsTyped'
    BY <1>9, <1>t DEF ClearFailure, RowsTyped, Happened
  <2> QED BY <1>9, <1>t, <1>q, <2>1 DEF ClearFailure, CommandSteps, Attempting
<1>10. CASE Register \/ Fail \/ Pause
  <2>1. RowsTyped'
    BY <1>10, <1>t DEF Register, Fail, Pause, RowsTyped, Happened
  <2> QED BY <1>10, <1>r, <2>1, ReturnFields DEF Register, Fail, Pause, Attempting
<1>11. CASE SaveFailure
  <2>1. RowsTyped'
    BY <1>11, <1>t DEF SaveFailure, RowsTyped, Happened
  <2> QED BY <1>11, <1>t, <1>q, <2>1 DEF SaveFailure, CommandSteps, Attempting
<1>12. CASE SaveJob
  <2>1. RowsTyped'
    BY <1>12, <1>t DEF SaveJob, RowsTyped, candidates, Happened
  <2> QED BY <1>12, <1>t, <1>q, <2>1 DEF SaveJob, CommandSteps, Attempting
<1>13. CASE Codex
  <2>1. PICK kind \in OutputKind \ {"mutated"} : outputs' = Append(outputs, kind)
    BY <1>13 DEF Codex
  <2>2. /\ outputs' \in Seq(OutputKind) /\ Len(outputs') <= MaxRuns
        /\ RowsTyped'
        /\ \A n \in Attempts : EntryHappened(dir[n])' /\ TextKept(n)'
        /\ \A p \in Executors : exec'[p] = exec[p] =>
             ExecutorHappened(p)' /\ TextWritten(p)'
    BY <1>13, <2>1, OutputStep DEF Codex
  <2>3. Len(outputs') \in Nat \ {0} /\ outputs'[Len(outputs')] = kind
    BY <1>t, <2>1, OneMore
  <2>4. /\ gen' \in CommandState /\ gen'.pc = "draft" /\ gen'.at = gen.at
        /\ gen'.raw = Len(outputs')
    BY <1>13, <1>t, <2>3 DEF Codex, CommandState, CommandSteps
  <2>5. gen.at \in Attempts
    BY <1>13, <1>t DEF Codex, At, CommandHappened, Attempting
  <2>6. CommandHappened' /\ TextInHand'
    BY <2>1, <2>3, <2>4, <2>5
       DEF CommandHappened, TextInHand, Happened, Text, OutputKind
  <2> QED BY <1>13, <1>t, <2>2, <2>4, <2>6 DEF Codex, Typed, Shape
<1>14. CASE MakeDir
  <2>1. gen.at \in Attempts
    BY <1>14, <1>t DEF MakeDir, At, CommandHappened, Attempting
  <2>2. CASE dir' = dir /\ Return
    BY <1>14, <1>t, <1>r, <2>2, ReturnFields DEF MakeDir, Attempting
  <2>3. CASE /\ dir' = [dir EXCEPT ![gen.at].made = TRUE]
             /\ Goto("request")
    <3> DEFINE d == [dir[gen.at] EXCEPT !.made = TRUE]
    <3>1. /\ dir[gen.at] \in JobEntry /\ EntryHappened(dir[gen.at])
      BY <1>t, <2>1 DEF Shape, Typed
    <3>2. /\ d \in JobEntry /\ d.files = dir[gen.at].files
          /\ d.completion = dir[gen.at].completion /\ Happened(d.prior)
      BY <3>1 DEF JobEntry, EntryHappened
    <3>3. dir' = [dir EXCEPT ![gen.at] = d]
      BY <2>3
    <3>4. /\ gen' \in CommandState /\ gen'.pc = "request" /\ gen'.at = gen.at
          /\ gen'.raw = gen.raw
      BY <1>t, <2>3, GotoFields DEF CommandSteps
    <3>5. CommandHappened' /\ TextInHand'
      BY <1>14, <1>t, <2>1, <3>4
         DEF MakeDir, CommandHappened, TextInHand, Happened
    <3> HIDE DEF d
    <3> QED BY <1>14, <1>t, <2>1, <3>2, <3>3, <3>4, <3>5, CommandDirStep
            DEF MakeDir
  <2> QED BY <1>14, <2>2, <2>3 DEF MakeDir
<1>15. CASE WriteRequest
  <2> DEFINE d == [dir[gen.at] EXCEPT !.request = TRUE, !.prior = Prior(gen.at)]
  <2>1. gen.at \in Attempts
    BY <1>15, <1>t DEF WriteRequest, At, CommandHappened, Attempting
  <2>2. Prior(gen.at) \in Nat /\ Happened(Prior(gen.at))
    <3>1. CASE gen.at = 1
      BY <1>t, <3>1 DEF Prior, Happened, Shape
    <3>2. CASE gen.at # 1
      <4>1. gen.at - 1 \in Attempts
        BY <2>1, <3>2, SpecificationJobAssumption DEF Attempts
      <4>2. drafts[gen.at - 1] \in Nat /\ Happened(drafts[gen.at - 1])
        BY <1>t, <4>1 DEF RowsTyped
      <4> QED BY <3>2, <4>2 DEF Prior
    <3> QED BY <3>1, <3>2
  <2>3. /\ dir[gen.at] \in JobEntry
    BY <1>t, <2>1 DEF Shape
  <2>4. /\ d \in JobEntry /\ d.files = dir[gen.at].files
        /\ d.completion = dir[gen.at].completion /\ Happened(d.prior)
    BY <2>2, <2>3 DEF JobEntry
  <2>5. dir' = [dir EXCEPT ![gen.at] = d]
    BY <1>15, <1>t, <2>1 DEF WriteRequest, Shape, JobEntry
  <2>6. /\ gen' \in CommandState /\ gen'.pc = "job" /\ gen'.at = gen.at
        /\ gen'.raw = gen.raw
    BY <1>15, <1>t, GotoFields DEF WriteRequest, CommandSteps
  <2>7. CommandHappened' /\ TextInHand'
    BY <1>15, <1>t, <2>1, <2>6
       DEF WriteRequest, CommandHappened, TextInHand, Happened
  <2> HIDE DEF d
  <2> QED BY <1>15, <1>t, <2>1, <2>4, <2>5, <2>6, <2>7, CommandDirStep
          DEF WriteRequest
<1> QED BY <1>1, <1>2, <1>3, <1>4, <1>5, <1>6, <1>7, <1>8, <1>9, <1>10, <1>11,
           <1>12, <1>13, <1>14, <1>15 DEF Command
LEMMA ExecGotoFields ==
    ASSUME exec \in [Executors -> ExecutorState], NEW p \in Executors,
           NEW step \in ExecutorSteps, ExecGoto(p, step)
    PROVE  /\ exec' \in [Executors -> ExecutorState]
           /\ exec'[p].pc = step /\ exec'[p].job = exec[p].job
           /\ exec'[p].run = exec[p].run
           /\ \A q \in Executors \ {p} : exec'[q] = exec[q]
BY DEF ExecGoto, ExecutorState

LEMMA RestingFields ==
    ASSUME exec \in [Executors -> ExecutorState], NEW p \in Executors,
           exec' = [exec EXCEPT ![p] = Resting]
    PROVE  /\ exec' \in [Executors -> ExecutorState]
           /\ exec'[p] = Resting /\ Resting.pc = "idle" /\ Resting.run = 0
           /\ \A q \in Executors \ {p} : exec'[q] = exec[q]
BY SpecificationJobAssumption DEF Resting, ExecutorState, ExecutorSteps

\* The executor's job has some of its files written anew.
LEMMA WriteFields ==
    ASSUME dir \in [Attempts -> JobEntry], NEW p \in Executors,
           exec[p].job \in Attempts, exec[p].run \in Nat, NEW names,
           Write(p, names)
    PROVE  \E d \in JobEntry :
             /\ dir' = [dir EXCEPT ![exec[p].job] = d]
             /\ d.made = dir[exec[p].job].made
             /\ d.request = dir[exec[p].job].request
             /\ d.prior = dir[exec[p].job].prior
             /\ d.completion = dir[exec[p].job].completion
             /\ \A f \in FileNames :
                  d.files[f] = IF f \in names THEN exec[p].run
                               ELSE dir[exec[p].job].files[f]
<1> DEFINE n == exec[p].job
           new == [f \in FileNames |->
                     IF f \in names THEN exec[p].run ELSE dir[n].files[f]]
           d == [dir[n] EXCEPT !.files = new]
<1>1. DOMAIN NoFiles = FileNames
  BY DEF NoFiles, FileNames
<1>2. dir[n] \in JobEntry /\ dir[n].files \in Files
  BY DEF JobEntry
<1>3. new \in Files
  BY <1>2 DEF Files
<1>4. dir' = [dir EXCEPT ![n] = d]
  BY <1>1 DEF Write
<1> HIDE DEF new
<1>5. /\ d \in JobEntry /\ d.files = new /\ d.made = dir[n].made
      /\ d.request = dir[n].request /\ d.prior = dir[n].prior
      /\ d.completion = dir[n].completion
  BY <1>2, <1>3 DEF JobEntry
<1>6. \A f \in FileNames :
        new[f] = IF f \in names THEN exec[p].run ELSE dir[n].files[f]
  BY DEF new
<1> HIDE DEF d
<1> QED BY <1>4, <1>5, <1>6

\* An executor writes to its job: a text, once there, stays or is replaced.
LEMMA ResultStep ==
    ASSUME Typed, UNCHANGED <<outputs, gen>>, RowsTyped', NEW p \in Executors,
           exec[p].job \in Attempts,
           NEW d \in JobEntry, dir' = [dir EXCEPT ![exec[p].job] = d],
           EntryHappened(d),
           d.files["raw"] # dir[exec[p].job].files["raw"] =>
             d.files["raw"] # 0 /\ Text(d.files["raw"]),
           d.completion.status \in {"SUCCEEDED", "FAILED_OUTPUT_EXTRACTION"} =>
             d.files["raw"] # 0,
           exec' \in [Executors -> ExecutorState],
           \A q \in Executors \ {p} : exec'[q] = exec[q],
           ExecutorHappened(p)', TextWritten(p)'
    PROVE  Typed'
<1> DEFINE n == exec[p].job
<1>1. Shape'
  BY DEF Typed, Shape
<1>2. /\ dir'[n] = d /\ \A k \in Attempts : k # n => dir'[k] = dir[k]
      /\ \A k \in Attempts :
           dir[k].files["raw"] # 0 => dir'[k].files["raw"] # 0
  BY DEF Typed, Shape
<1>3. ASSUME NEW k \in Attempts PROVE EntryHappened(dir[k])' /\ TextKept(k)'
  <2>1. EntryHappened(dir[k]) /\ TextKept(k)
    BY DEF Typed
  <2>2. CASE k = n
    <3>1. EntryHappened(dir[k])'
      BY <1>2, <2>2 DEF EntryHappened, Happened
    <3> QED BY <1>2, <2>1, <2>2, <3>1 DEF TextKept, Text, Candidate
  <2>3. CASE k # n
    BY <1>2, <2>1, <2>3 DEF EntryHappened, Happened, TextKept, Text, Candidate
  <2> QED BY <2>2, <2>3
<1>4. ASSUME NEW q \in Executors PROVE ExecutorHappened(q)' /\ TextWritten(q)'
  <2>1. CASE q # p
    <3>1. ExecutorHappened(q) /\ TextWritten(q) /\ exec'[q] = exec[q]
      BY <2>1 DEF Typed
    <3> QED BY <1>2, <3>1 DEF ExecutorHappened, TextWritten, Text
  <2> QED BY <2>1
<1>5. CommandHappened' /\ TextInHand'
  <2>1. CommandHappened /\ TextInHand /\ gen \in CommandState
    BY DEF Typed, Shape
  <2> QED BY <1>2, <2>1
          DEF CommandHappened, TextInHand, Text, Happened, Attempting
<1> QED BY <1>1, <1>3, <1>4, <1>5 DEF Typed

LEMMA ExecutorTyped ==
    ASSUME Typed, NEW p \in Executors, Execute(p) PROVE Typed'
<1> USE SpecificationJobAssumption
<1> DEFINE n == exec[p].job
           i == exec[p].run
<1>t. /\ Shape /\ RowsTyped /\ exec \in [Executors -> ExecutorState]
      /\ dir \in [Attempts -> JobEntry]
      /\ ExecutorHappened(p) /\ TextWritten(p) /\ i \in Nat /\ n \in 0..MaxAttempts
      /\ (UNCHANGED <<outputs, jobs, candidates, signalled, crashes>>
            => RowsTyped')
  BY DEF Typed, Shape, RowsTyped, candidates, Happened, ExecutorState
<1>a. ASSUME exec[p].pc # "idle"
      PROVE  /\ n \in Attempts /\ dir[n] \in JobEntry /\ EntryHappened(dir[n])
             /\ TextKept(n)
  BY <1>t, <1>a DEF ExecutorHappened, Typed
<1>b. ASSUME exec[p].pc \in Recording
      PROVE  /\ i \in DOMAIN outputs /\ Happened(i) /\ i # 0
             /\ outputs[i] \in OutputKind
  BY <1>t, <1>b DEF ExecutorHappened, Shape, Happened
\* Steps that move the executor and leave the directories alone.
<1>m. ASSUME UNCHANGED <<outputs, dir, gen>>, RowsTyped',
             exec' \in [Executors -> ExecutorState],
             \A q \in Executors \ {p} : exec'[q] = exec[q],
             ExecutorHappened(p)', exec'[p].pc \in {"idle", "codex", "notify"}
      PROVE  Typed'
  <2>1. Shape'
    BY <1>m, <1>t DEF Shape
  <2>2. \A k \in Attempts : EntryHappened(dir[k])' /\ TextKept(k)'
    BY <1>m DEF Typed, EntryHappened, TextKept, Text, Happened, Candidate
  <2>3. ASSUME NEW q \in Executors
        PROVE  ExecutorHappened(q)' /\ TextWritten(q)'
    <3>1. CASE q = p
      BY <1>m, <3>1 DEF TextWritten
    <3>2. CASE q # p
      BY <1>m, <3>2 DEF Typed, ExecutorHappened, TextWritten, Text
    <3> QED BY <3>1, <3>2
  <2>4. CommandHappened' /\ TextInHand'
    BY <1>m DEF Typed, CommandHappened, TextInHand, Text, Happened
  <2> QED BY <1>m, <2>1, <2>2, <2>3, <2>4 DEF Typed
\* Steps that write files.
<1>w. ASSUME NEW names, NEW step \in Recording, Write(p, names),
             ExecGoto(p, step), UNCHANGED <<outputs, gen>>, RowsTyped',
             exec[p].pc \in Recording, "raw" \in names => Text(i),
             step \in {"raw", "extract", "report"} => Text(i),
             step \in {"extract", "report"}
             \/ (step = "completion" /\ Text(i)) =>
               "raw" \in names \/ dir[n].files["raw"] # 0
      PROVE  Typed'
  <2>1. n \in Attempts /\ EntryHappened(dir[n]) /\ TextKept(n)
    BY <1>a, <1>w DEF Recording
  <2>2. PICK d \in JobEntry :
          /\ dir' = [dir EXCEPT ![n] = d]
          /\ d.prior = dir[n].prior /\ d.completion = dir[n].completion
          /\ \A f \in FileNames :
               d.files[f] = IF f \in names THEN i ELSE dir[n].files[f]
    BY <1>t, <1>w, <2>1, WriteFields
  <2>3. EntryHappened(d)
    BY <1>b, <1>w, <2>1, <2>2 DEF EntryHappened
  <2>4. /\ exec' \in [Executors -> ExecutorState]
        /\ exec'[p].pc = step /\ exec'[p].job = n /\ exec'[p].run = i
        /\ \A q \in Executors \ {p} : exec'[q] = exec[q]
    BY <1>t, <1>w, ExecGotoFields DEF Recording
  <2>5. d.files["raw"] = IF "raw" \in names THEN i ELSE dir[n].files["raw"]
    BY <2>2 DEF FileNames
  <2>6. dir'[n] = d
    BY <1>t, <2>1, <2>2
  <2>7. ExecutorHappened(p)' /\ TextWritten(p)'
    BY <1>b, <1>w, <2>1, <2>4, <2>5, <2>6
       DEF ExecutorHappened, TextWritten, Text, Recording, ExecutorSteps
  <2>8. /\ d.files["raw"] # dir[n].files["raw"] =>
             d.files["raw"] # 0 /\ Text(d.files["raw"])
        /\ d.completion.status \in {"SUCCEEDED", "FAILED_OUTPUT_EXTRACTION"} =>
             d.files["raw"] # 0
    BY <1>b, <1>w, <2>1, <2>2, <2>5 DEF TextKept, Candidate
  <2> QED BY <1>w, <2>1, <2>2, <2>3, <2>4, <2>7, <2>8, ResultStep
<1>1. CASE \E k \in Attempts : Run(p, k)
  <2>1. PICK k \in Attempts : Run(p, k)
    BY <1>1
  <2>2. [pc |-> "codex", job |-> k, run |-> 0] \in ExecutorState
    BY DEF ExecutorState, ExecutorSteps, Attempts
  <2>3. /\ exec' \in [Executors -> ExecutorState]
        /\ exec'[p] = [pc |-> "codex", job |-> k, run |-> 0]
        /\ \A q \in Executors \ {p} : exec'[q] = exec[q]
    BY <1>t, <2>1, <2>2 DEF Run
  <2> QED BY <1>m, <1>t, <2>1, <2>3 DEF Run, ExecutorHappened, Recording
<1>2. CASE ExecCodex(p)
  <2>1. PICK kind \in OutputKind : outputs' = Append(outputs, kind)
    BY <1>2 DEF ExecCodex
  <2>2. /\ outputs' \in Seq(OutputKind) /\ Len(outputs') <= MaxRuns
        /\ RowsTyped'
        /\ \A k \in Attempts : EntryHappened(dir[k])' /\ TextKept(k)'
        /\ \A q \in Executors : exec'[q] = exec[q] =>
             ExecutorHappened(q)' /\ TextWritten(q)'
        /\ CommandHappened' /\ TextInHand'
    BY <1>2, <2>1, OutputStep DEF ExecCodex
  <2>3. Len(outputs') \in Nat /\ Len(outputs') \in DOMAIN outputs'
    BY <1>t, <2>1, OneMore DEF Shape
  <2>4. /\ exec' \in [Executors -> ExecutorState]
        /\ exec'[p].pc = "invocation" /\ exec'[p].job = n
        /\ exec'[p].run = Len(outputs')
        /\ \A q \in Executors \ {p} : exec'[q] = exec[q]
    BY <1>2, <1>t, <2>3 DEF ExecCodex, ExecutorState, ExecutorSteps
  <2>5. ExecutorHappened(p)' /\ TextWritten(p)'
    BY <1>2, <1>t, <2>3, <2>4
       DEF ExecCodex, ExecAt, ExecutorHappened, TextWritten, Recording,
           ExecutorSteps
  <2>6. Shape'
    BY <1>2, <1>t, <2>2, <2>4 DEF ExecCodex, Shape
  <2> QED BY <2>2, <2>4, <2>5, <2>6 DEF Typed
<1>3. CASE WriteInvocation(p)
  <2>1. exec[p].pc = "invocation" /\ outputs[i] \in OutputKind
    BY <1>3, <1>b DEF WriteInvocation, ExecAt, Recording, ExecutorSteps
  <2>2. CASE KindOf(p) \in {"failed", "mutated"} /\ ExecGoto(p, "completion")
    BY <1>3, <1>t, <1>w, <2>1, <2>2
       DEF WriteInvocation, KindOf, Text, Recording, ExecutorSteps
  <2>3. CASE KindOf(p) \notin {"failed", "mutated"} /\ ExecGoto(p, "raw")
    BY <1>3, <1>t, <1>w, <2>1, <2>3
       DEF WriteInvocation, KindOf, Text, Recording, ExecutorSteps, OutputKind
  <2> QED BY <1>3, <2>2, <2>3 DEF WriteInvocation
<1>4. CASE WriteRaw(p)
  BY <1>4, <1>t, <1>w
     DEF WriteRaw, ExecAt, TextWritten, Recording, ExecutorSteps
<1>5. CASE WriteDraftFile(p)
  BY <1>5, <1>t, <1>w
     DEF WriteDraftFile, ExecAt, TextWritten, Recording, ExecutorSteps
<1>6. CASE WriteReport(p)
  BY <1>6, <1>t, <1>w
     DEF WriteReport, ExecAt, TextWritten, Recording, ExecutorSteps
<1>7. CASE WriteCompletion(p)
  <2> DEFINE c == [status |-> StatusOf(KindOf(p)), run |-> i,
                   files |-> dir[n].files]
             d == [dir[n] EXCEPT !.completion = c]
  <2>1. /\ exec[p].pc = "completion" /\ n \in Attempts /\ dir[n] \in JobEntry
        /\ EntryHappened(dir[n]) /\ i \in DOMAIN outputs
        /\ outputs[i] \in OutputKind
    BY <1>7, <1>a, <1>b
       DEF WriteCompletion, ExecAt, Recording, ExecutorSteps
  <2>2. /\ StatusOf(KindOf(p)) \in CompletionStatus
        /\ StatusOf(KindOf(p)) \in {"SUCCEEDED", "FAILED_OUTPUT_EXTRACTION"} =>
             Text(i)
    BY <2>1 DEF StatusOf, KindOf, Text, OutputKind, CompletionStatus
  <2>3. /\ d \in JobEntry /\ d.files = dir[n].files /\ d.completion = c
        /\ d.prior = dir[n].prior
    BY <1>t, <2>1, <2>2 DEF JobEntry
  <2>4. EntryHappened(d)
    <3>1. c.status # "NONE"
      BY <2>2 DEF CompletionStatus
    <3> QED BY <2>1, <2>3, <3>1 DEF EntryHappened
  <2>5. dir' = [dir EXCEPT ![n] = d]
    BY <1>7 DEF WriteCompletion
  <2>6. d.completion.status \in {"SUCCEEDED", "FAILED_OUTPUT_EXTRACTION"} =>
          d.files["raw"] # 0
    BY <1>t, <2>1, <2>2, <2>3 DEF TextWritten
  <2>7. /\ exec' \in [Executors -> ExecutorState]
        /\ exec'[p].pc = "row" /\ exec'[p].job = n /\ exec'[p].run = i
        /\ \A q \in Executors \ {p} : exec'[q] = exec[q]
    BY <1>7, <1>t, ExecGotoFields DEF WriteCompletion, ExecutorSteps
  <2>8. ExecutorHappened(p)' /\ TextWritten(p)'
    BY <1>7, <2>1, <2>7
       DEF WriteCompletion, ExecutorHappened, TextWritten, Recording,
           ExecutorSteps
  <2> HIDE DEF d, c
  <2> QED BY <1>7, <1>t, <2>1, <2>3, <2>4, <2>5, <2>6, <2>7, <2>8, ResultStep
          DEF WriteCompletion
<1>8. CASE FinishRow(p)
  <2>1. /\ exec[p].pc = "row" /\ n \in Attempts /\ i \in DOMAIN outputs
        /\ StatusOf(KindOf(p)) \in CompletionStatus
    BY <1>8, <1>a, <1>b
       DEF FinishRow, ExecAt, Recording, ExecutorSteps, StatusOf, KindOf,
           OutputKind, CompletionStatus
  <2>2. RowsTyped'
    BY <1>8, <1>t, <2>1 DEF FinishRow, RowsTyped, candidates, Happened
  <2>3. /\ exec' \in [Executors -> ExecutorState]
        /\ exec'[p].pc = "notify" /\ exec'[p].job = n /\ exec'[p].run = i
        /\ \A q \in Executors \ {p} : exec'[q] = exec[q]
    BY <1>8, <1>t, ExecGotoFields DEF FinishRow, ExecutorSteps
  <2> QED BY <1>8, <1>m, <2>1, <2>2, <2>3
          DEF FinishRow, ExecutorHappened, Recording, ExecutorSteps
<1>9. CASE Notify(p)
  <2>1. RowsTyped'
    BY <1>9, <1>a, <1>t DEF Notify, ExecAt, RowsTyped, candidates, Happened
  <2>2. /\ exec' \in [Executors -> ExecutorState]
        /\ exec'[p] = Resting /\ Resting.pc = "idle" /\ Resting.run = 0
        /\ \A q \in Executors \ {p} : exec'[q] = exec[q]
    BY <1>9, <1>t, RestingFields DEF Notify
  <2> QED BY <1>9, <1>m, <2>1, <2>2 DEF Notify, ExecutorHappened, Recording
<1> QED BY <1>1, <1>2, <1>3, <1>4, <1>5, <1>6, <1>7, <1>8, <1>9 DEF Execute
LEMMA CrashTyped == ASSUME Typed, Crash PROVE Typed'
<1>t. /\ Shape /\ exec \in [Executors -> ExecutorState]
  BY DEF Typed, Shape
<1>1. RowsTyped' /\ UNCHANGED <<outputs, dir>>
  BY SpecificationJobAssumption
     DEF Crash, Typed, RowsTyped, candidates, Happened
<1>2. CASE Return /\ UNCHANGED exec
  BY <1>1, <1>2, ReturnFields, CommandStep
     DEF CommandHappened, TextInHand, Happened, Attempting
<1>3. ASSUME NEW p \in Executors, exec' = [exec EXCEPT ![p] = Resting],
             UNCHANGED gen
      PROVE  Typed'
  <2>1. /\ exec' \in [Executors -> ExecutorState]
        /\ exec'[p] = Resting /\ Resting.pc = "idle" /\ Resting.run = 0
        /\ \A q \in Executors \ {p} : exec'[q] = exec[q]
    BY <1>3, <1>t, RestingFields
  <2>2. \A k \in Attempts : EntryHappened(dir[k])' /\ TextKept(k)'
    BY <1>1 DEF Typed, EntryHappened, TextKept, Text, Happened, Candidate
  <2>3. ASSUME NEW q \in Executors
        PROVE  ExecutorHappened(q)' /\ TextWritten(q)'
    <3>1. CASE q = p
      BY <2>1, <3>1 DEF ExecutorHappened, TextWritten, Recording
    <3>2. CASE q # p
      BY <1>1, <2>1, <3>2 DEF Typed, ExecutorHappened, TextWritten, Text
    <3> QED BY <3>1, <3>2
  <2>4. CommandHappened' /\ TextInHand'
    BY <1>1, <1>3 DEF Typed, CommandHappened, TextInHand, Text, Happened
  <2> QED BY <1>1, <1>3, <2>1, <2>2, <2>3, <2>4 DEF Typed, Shape
<1> QED BY <1>2, <1>3 DEF Crash

LEMMA InitTyped == Init => Typed
<1> SUFFICES ASSUME Init PROVE Typed
  OBVIOUS
<1> USE SpecificationJobAssumption
<1>1. NoDir \in JobEntry
  BY DEF NoDir, NoFiles, NoCompletion, JobEntry, Files, FileNames
<1>2. Idle \in CommandState /\ Resting \in ExecutorState
  BY DEF Idle, Resting, CommandState, ExecutorState, CommandSteps,
         ExecutorSteps
<1>3. Shape /\ outputs = <<>> /\ Len(outputs) = 0
  BY <1>1, <1>2 DEF Init, Shape
<1>4. RowsTyped
  <2>1. \A n \in Attempts : drafts[n] = 0
    BY DEF Init
  <2>2. /\ jobs \in [Attempts -> CompletionStatus \cup {"NONE", "WAITING"}]
        /\ attempts \in [Attempts -> {"NONE", "VALID", "INVALID", "CODEX_FAILED"}]
        /\ drafts \in [Attempts -> Nat]
    BY DEF Init
  <2>3. /\ canonical \in Nat /\ signalled \subseteq Attempts
        /\ crashes \in 0..MaxCrashes /\ canonical = 0
    BY DEF Init
  <2>4. failed \in BOOLEAN
    BY DEF Init
  <2> QED BY <1>3, <2>1, <2>2, <2>3, <2>4 DEF RowsTyped, Happened
<1>5. \A n \in Attempts : EntryHappened(dir[n]) /\ TextKept(n)
  BY <1>3 DEF Init, NoDir, NoFiles, NoCompletion, EntryHappened, TextKept,
     Happened, Candidate, FileNames
<1>6. CommandHappened /\ TextInHand
  BY <1>3 DEF Init, Idle, CommandHappened, TextInHand, Happened, Attempting
<1>7. \A p \in Executors : ExecutorHappened(p) /\ TextWritten(p)
  BY DEF Init, Resting, ExecutorHappened, TextWritten, Recording
<1> QED BY <1>3, <1>4, <1>5, <1>6, <1>7 DEF Typed

LEMMA NextTyped == Typed /\ [Next]_vars => Typed'
<1> SUFFICES ASSUME Typed, [Next]_vars PROVE Typed'
  OBVIOUS
<1>1. CASE UNCHANGED vars
  BY <1>1 DEF vars, candidates, Typed, Shape, RowsTyped, EntryHappened, TextKept,
     Text, Happened, Candidate, CommandHappened, TextInHand, ExecutorHappened,
     TextWritten
<1> QED BY <1>1, CommandTyped, ExecutorTyped, CrashTyped DEF Next

(* The rows, files, commands and executors keep their shape, an invocation *)
(* that something names has happened, a text that is kept was written by   *)
(* one that succeeded, and a job with a candidate has a text.              *)
THEOREM SpecificationTyped == Spec => [](TypeOK /\ Typed)
<1>1. Typed => TypeOK
  <2> SUFFICES ASSUME Typed PROVE TypeOK
    OBVIOUS
  <2>0. DOMAIN NoFiles = FileNames
    BY DEF NoFiles, FileNames
  <2>1. ASSUME NEW n \in Attempts
        PROVE  /\ dir[n].made \in BOOLEAN /\ dir[n].request \in BOOLEAN
               /\ dir[n].prior \in 0..Len(outputs)
               /\ dir[n].files \in [DOMAIN NoFiles -> 0..Len(outputs)]
               /\ dir[n].completion = NoCompletion
                    \/ /\ dir[n].completion.status \in CompletionStatus
                       /\ dir[n].completion.run \in DOMAIN outputs
                       /\ dir[n].completion.files
                            \in [DOMAIN NoFiles -> 0..Len(outputs)]
    <3>1. dir[n] \in JobEntry /\ EntryHappened(dir[n])
      BY DEF Typed, Shape
    <3> QED BY <2>0, <3>1 DEF JobEntry, Files, EntryHappened, Happened
  <2>2. ASSUME NEW p \in Executors
        PROVE  exec[p].job \in 0..MaxAttempts /\ exec[p].run \in 0..Len(outputs)
    <3>1. /\ exec[p] \in ExecutorState /\ ExecutorHappened(p)
          /\ outputs \in Seq(OutputKind)
      BY DEF Typed, Shape
    <3> QED BY <3>1 DEF ExecutorState, ExecutorHappened
  <2>3. drafts \in [Attempts -> 0..Len(outputs)]
    BY DEF Typed, RowsTyped, Happened
  <2>4. gen.at \in 0..MaxAttempts /\ gen.raw \in 0..Len(outputs)
    BY DEF Typed, Shape, CommandState, CommandHappened, Happened
  <2> QED BY <2>1, <2>2, <2>3, <2>4
          DEF Typed, Shape, RowsTyped, Happened, TypeOK
<1> QED BY <1>1, InitTyped, NextTyped, PTL DEF Spec

-----------------------------------------------------------------------------
\* The candidate loop

(* Candidates are judged in turn.                                          *)
InTurn ==
    \A n \in Attempts : attempts[n] # "NONE" =>
      \A k \in 1..(n - 1) : PassedOver(k)

(* A candidate that is passed over keeps the draft that it was judged by.  *)
TellsDraft(n) ==
    PassedOver(n) =>
      drafts[n] # 0 /\ Verdict(outputs[drafts[n]]) = attempts[n]

(* A repair's job is made after the verdict, and asks for that draft.      *)
RepairFits(n) ==
    /\ dir[n].request => dir[n].made
    /\ dir[n].made /\ n > 1 =>
         /\ PassedOver(n - 1)
         /\ dir[n].request => dir[n].prior = drafts[n - 1]

(* A command works on the first candidate that is not passed over, and on  *)
(* none once a specification is canonical.                                 *)
Stands ==
    /\ gen.pc \in Attempting \ {"next"} =>
         ~PassedOver(gen.at) /\ \A k \in 1..(gen.at - 1) : PassedOver(k)
    /\ gen.pc = "next" => \A k \in 1..gen.at : PassedOver(k)
    /\ gen.pc = "judged" => drafts[gen.at] = gen.raw
    /\ gen.pc = "canonical" =>
         /\ attempts[gen.at] = "VALID" /\ drafts[gen.at] = gen.raw
         /\ outputs[gen.raw] = "valid"
    /\ gen.pc = "request" => dir[gen.at].made
    /\ gen.pc \in {"clear", "register"} => canonical # 0
    /\ gen.pc \in {"exhausted", "fail"} => \A n \in Attempts : PassedOver(n)
    /\ gen.pc \notin {"idle", "clear", "register"} => canonical = 0

LoopInv ==
    /\ InTurn /\ Stands /\ CanonicalWasJudged
    /\ \A n \in Attempts : TellsDraft(n) /\ RepairFits(n)

\* What the loop rests on is not touched, and the command stands where it may.
LEMMA LoopQuiet ==
    ASSUME Typed, LoopInv, \A i \in DOMAIN outputs : outputs'[i] = outputs[i],
           UNCHANGED candidates,
           \A n \in Attempts : /\ dir'[n].made = dir[n].made
                               /\ dir'[n].request = dir[n].request
                               /\ dir'[n].prior = dir[n].prior,
           gen' = gen \/ Stands'
    PROVE  LoopInv'
<1>1. /\ outputs \in Seq(OutputKind) /\ DOMAIN outputs = 1..Len(outputs)
      /\ Len(outputs) \in Nat
  BY DEF Typed, Shape
<1>2. \A i \in Nat \ {0} : Happened(i) => outputs'[i] = outputs[i]
  BY <1>1 DEF Happened
<1>3. InTurn'
  BY DEF LoopInv, InTurn, PassedOver, candidates
<1>4. ASSUME NEW n \in Attempts PROVE TellsDraft(n)' /\ RepairFits(n)'
  <2>1. /\ TellsDraft(n) /\ RepairFits(n) /\ drafts[n] \in Nat
        /\ Happened(drafts[n])
    BY DEF LoopInv, Typed, RowsTyped
  <2>2. TellsDraft(n)'
    BY <1>2, <2>1 DEF TellsDraft, PassedOver, candidates
  <2> QED BY <2>1, <2>2 DEF RepairFits, PassedOver, candidates
<1>5. CanonicalWasJudged'
  <2>1. CanonicalWasJudged /\ canonical \in Nat /\ Happened(canonical)
    BY DEF LoopInv, Typed, RowsTyped
  <2> QED BY <1>2, <2>1 DEF CanonicalWasJudged, candidates
<1>6. ASSUME gen' = gen PROVE Stands'
  <2>1. /\ Stands /\ CommandHappened /\ gen.raw \in Nat
    BY DEF LoopInv, Typed, Shape, CommandState
  <2>2. gen.pc = "canonical" => outputs'[gen.raw] = outputs[gen.raw]
    BY <1>2, <2>1 DEF CommandHappened
  <2>3. gen.pc = "request" => dir'[gen.at].made = dir[gen.at].made
    BY <2>1 DEF CommandHappened, Attempting
  <2> QED BY <1>6, <2>1, <2>2, <2>3 DEF Stands, PassedOver, candidates
<1> QED BY <1>3, <1>4, <1>5, <1>6 DEF LoopInv

\* The verdict on the first candidate that has none yet, or was not accepted.
LEMMA JudgementKeepsLoop ==
    ASSUME Typed, LoopInv, SaveAttempt PROVE LoopInv'
<1> USE SpecificationJobAssumption
<1>0. PICK n \in Attempts : n = gen.at /\ gen.pc = "judged"
  BY DEF Typed, CommandHappened, SaveAttempt, At, Attempting
<1> DEFINE verdict == Verdict(outputs[gen.raw])
<1>1. /\ n \in Attempts /\ ~PassedOver(n)
      /\ \A k \in 1..(n - 1) : PassedOver(k)
      /\ drafts[n] = gen.raw /\ gen.raw # 0 /\ canonical = 0
      /\ Text(gen.raw) \/ outputs[gen.raw] = "failed"
  BY <1>0 DEF Typed, CommandHappened, TextInHand, LoopInv, Stands, Attempting
<1>2. /\ verdict \in {"VALID", "INVALID", "CODEX_FAILED"}
      /\ verdict = "VALID" => outputs[gen.raw] = "valid"
  BY <1>1 DEF Text, Verdict
<1>3. /\ attempts' = [attempts EXCEPT ![n] = verdict]
      /\ attempts \in [Attempts -> {"NONE", "VALID", "INVALID", "CODEX_FAILED"}]
      /\ UNCHANGED <<outputs, dir, drafts, canonical, failed, outcome>>
  BY <1>0 DEF SaveAttempt, Typed, RowsTyped
<1> HIDE DEF verdict
<1>4. /\ attempts'[n] = verdict
      /\ \A k \in Attempts \ {n} : attempts'[k] = attempts[k]
  BY <1>1, <1>3
<1>5. \A k \in 1..(n - 1) : PassedOver(k)'
  BY <1>1, <1>4 DEF PassedOver, Attempts
<1>6. \A k \in Attempts : k > n => attempts[k] = "NONE"
  BY <1>1 DEF LoopInv, InTurn, Attempts
<1>7. InTurn'
  <2> SUFFICES ASSUME NEW m \in Attempts, attempts'[m] # "NONE",
                      NEW k \in 1..(m - 1)
               PROVE  PassedOver(k)'
    BY DEF InTurn
  <2>1. m <= n
    BY <1>1, <1>4, <1>6 DEF Attempts
  <2> QED BY <1>1, <1>5, <2>1 DEF Attempts
<1>8. ASSUME NEW m \in Attempts PROVE TellsDraft(m)' /\ RepairFits(m)'
  <2>1. TellsDraft(m) /\ RepairFits(m)
    BY DEF LoopInv
  <2>2. TellsDraft(m)'
    BY <1>1, <1>3, <1>4, <2>1 DEF TellsDraft, PassedOver, verdict
  <2>3. ASSUME dir[m].made, m > 1 PROVE PassedOver(m - 1)'
    <3>1. PassedOver(m - 1) /\ m - 1 \in Attempts
      BY <2>1, <2>3 DEF RepairFits, Attempts
    <3> QED BY <1>1, <1>4, <3>1 DEF PassedOver
  <2> QED BY <1>3, <2>1, <2>2, <2>3 DEF RepairFits
<1>9. CanonicalWasJudged'
  <2>1. ~failed /\ outcome # "REGISTERED"
    BY <1>1 DEF LoopInv, CanonicalWasJudged, PassedOver
  <2> QED BY <1>1, <1>3, <2>1 DEF CanonicalWasJudged
<1>10. Stands'
  <2>1. CASE verdict = "VALID" /\ Goto("canonical")
    <3>1. gen'.pc = "canonical" /\ gen'.at = n /\ gen'.raw = gen.raw
      BY <1>0, <2>1, GotoFields DEF Typed, CommandSteps
    <3>2. ~PassedOver(n)'
      BY <1>4, <2>1 DEF PassedOver
    <3> QED BY <1>1, <1>2, <1>3, <1>4, <1>5, <2>1, <3>1, <3>2
            DEF Stands, PassedOver, Attempting
  <2>2. CASE verdict # "VALID"
    <3>1. \A k \in 1..n : PassedOver(k)'
      BY <1>1, <1>2, <1>4, <1>5, <2>2 DEF PassedOver, Attempts
    <3>2. CASE Goto("next")
      <4>1. gen'.pc = "next" /\ gen'.at = n
        BY <1>0, <3>2, GotoFields DEF Typed, CommandSteps
      <4> QED BY <1>1, <1>3, <3>1, <4>1 DEF Stands, PassedOver
    <3>3. CASE n = MaxAttempts /\ Goto("exhausted")
      <4>1. gen'.pc = "exhausted"
        BY <3>3, GotoFields DEF Typed, CommandSteps
      <4> QED BY <1>1, <1>3, <3>1, <3>3, <4>1
              DEF Stands, PassedOver, Attempts, Attempting
    <3>4. CASE /\ n # MaxAttempts
               /\ gen' = [Idle EXCEPT !.pc = "make", !.at = gen.at + 1]
      <4>1. gen'.pc = "make" /\ gen'.at = n + 1 /\ gen'.at - 1 = n
        <5>1. gen' = [pc |-> "make", at |-> n + 1, raw |-> 0, seen |-> 0]
          BY <1>0, <3>4 DEF Idle
        <5> QED BY <5>1 DEF Attempts
      <4>2. n + 1 \in Attempts /\ ~PassedOver(n + 1)'
        BY <1>1, <1>4, <1>6, <3>4 DEF PassedOver, Attempts
      <4> QED BY <1>1, <1>3, <3>1, <4>1, <4>2 DEF Stands, PassedOver
    <3> QED BY <1>0, <2>2, <3>2, <3>3, <3>4 DEF SaveAttempt, verdict
  <2> QED BY <2>1, <2>2 DEF SaveAttempt, verdict
<1> QED BY <1>7, <1>8, <1>9, <1>10 DEF LoopInv

LEMMA CommandKeepsLoop ==
    ASSUME Typed, LoopInv, Command PROVE LoopInv'
<1> USE SpecificationJobAssumption
<1>t. /\ Shape /\ RowsTyped /\ CommandHappened /\ TextInHand /\ Stands
      /\ CanonicalWasJudged
      /\ dir \in [Attempts -> JobEntry] /\ drafts \in [Attempts -> Nat]
  BY DEF Typed, Shape, RowsTyped, LoopInv
<1>q. ASSUME UNCHANGED <<outputs, dir, candidates>>, Stands' PROVE LoopInv'
  BY <1>q, LoopQuiet
<1>r. ASSUME Return PROVE Stands'
  <2>1. gen'.pc = "idle"
    BY <1>r, ReturnFields
  <2> QED BY <2>1 DEF Stands, Attempting
<1>g. ASSUME NEW step \in CommandSteps, Goto(step)
      PROVE  gen'.pc = step /\ gen'.at = gen.at /\ gen'.raw = gen.raw
  BY <1>g, <1>t, GotoFields
<1>1. CASE Generate
  <2>1. ASSUME canonical # 0, Goto("register") PROVE Stands'
    <3>1. gen'.pc = "register"
      BY <1>g, <2>1 DEF CommandSteps
    <3> QED BY <1>1, <2>1, <3>1 DEF Generate, candidates, Stands, Attempting
  <2>2. ASSUME Proceed(1), canonical = 0 PROVE Stands'
    BY <1>1, <2>2, ProceedFields
       DEF Generate, candidates, Stands, Attempting, PassedOver, Attempts
  <2>3. canonical # 0 => \E n \in Attempts : attempts[n] = "VALID"
    BY <1>t DEF CanonicalWasJudged
  <2> QED BY <1>1, <1>q, <2>1, <2>2, <2>3 DEF Generate
<1>2. CASE TakeExternal
  <2>1. CASE gen' = [gen EXCEPT !.pc = "raw",
                                !.seen = dir[gen.at].completion.run]
    <3>1. gen'.pc = "raw" /\ gen'.at = gen.at
      BY <1>t, <2>1 DEF Shape, CommandState
    <3> QED BY <1>2, <1>q, <1>t, <3>1
            DEF TakeExternal, At, candidates, Stands, Attempting, PassedOver
  <2>2. CASE Goto("pause")
    BY <1>2, <1>g, <1>q, <1>t, <2>2
       DEF TakeExternal, At, candidates, Stands, Attempting, CommandSteps
  <2>3. CASE Return
    BY <1>2, <1>q, <1>r, <2>3 DEF TakeExternal
  <2> QED BY <1>2, <2>1, <2>2, <2>3 DEF TakeExternal
<1>3. CASE ReadRaw
  <2>1. gen'.pc = "draft" /\ gen'.at = gen.at
    BY <1>3, <1>t DEF ReadRaw, Shape, CommandState
  <2> QED BY <1>3, <1>q, <1>t, <2>1
          DEF ReadRaw, At, candidates, Stands, Attempting, PassedOver
<1>4. CASE Denied
  BY <1>4, <1>g, <1>q, <1>t
     DEF Denied, At, candidates, Stands, Attempting, PassedOver, CommandSteps
<1>5. CASE Codex
  <2>1. gen'.pc = "draft" /\ gen'.at = gen.at
    BY <1>5, <1>t DEF Codex, Shape, CommandState
  <2>2. Stands'
    BY <1>5, <1>t, <2>1
       DEF Codex, At, candidates, Stands, Attempting, PassedOver
  <2>3. \A i \in DOMAIN outputs : outputs'[i] = outputs[i]
    BY <1>5, <1>t, OneMore DEF Codex, Shape
  <2> QED BY <1>5, <2>2, <2>3, LoopQuiet DEF Codex
<1>6. CASE WriteDraft
  <2> DEFINE n == gen.at
  <2>1. /\ n \in Attempts /\ ~PassedOver(n) /\ canonical = 0
        /\ \A k \in 1..(n - 1) : PassedOver(k)
    BY <1>6, <1>t DEF WriteDraft, At, CommandHappened, Attempting, Stands
  <2>2. /\ drafts'[n] = gen.raw
        /\ \A k \in Attempts \ {n} : drafts'[k] = drafts[k]
        /\ UNCHANGED <<outputs, dir, attempts, canonical, failed, outcome>>
    BY <1>6, <1>t, <2>1 DEF WriteDraft
  <2>3. gen'.pc = "judged" /\ gen'.at = n /\ gen'.raw = gen.raw
    BY <1>6, <1>g DEF WriteDraft, CommandSteps
  <2>4. Stands'
    BY <2>1, <2>2, <2>3 DEF Stands, PassedOver
  <2>5. ASSUME NEW m \in Attempts PROVE TellsDraft(m)' /\ RepairFits(m)'
    <3>1. TellsDraft(m) /\ RepairFits(m)
      BY DEF LoopInv
    <3>2. TellsDraft(m)'
      BY <2>1, <2>2, <3>1 DEF TellsDraft, PassedOver
    <3>3. m > 1 => m - 1 \in Attempts
      BY DEF Attempts
    <3> QED BY <2>1, <2>2, <3>1, <3>2, <3>3 DEF RepairFits, PassedOver
  <2>6. InTurn' /\ CanonicalWasJudged'
    BY <1>t, <2>1, <2>2 DEF LoopInv, InTurn, PassedOver, CanonicalWasJudged
  <2> QED BY <2>4, <2>5, <2>6 DEF LoopInv
<1>7. CASE SaveAttempt
  BY <1>7, JudgementKeepsLoop
<1>8. CASE NextAttempt
  <2>1. /\ gen.at \in Attempts /\ \A k \in 1..gen.at : PassedOver(k)
        /\ canonical = 0
    BY <1>8, <1>t DEF NextAttempt, At, CommandHappened, Attempting, Stands
  <2>2. gen.at + 1 \in Nat \ {0} /\ Proceed(gen.at + 1)
    BY <1>8, <2>1 DEF NextAttempt, Attempts
  <2>3. CASE /\ gen'.pc = "exhausted"
             /\ \A k \in (gen.at + 1)..MaxAttempts : PassedOver(k)
    <3>1. \A k \in Attempts : PassedOver(k)
      BY <2>1, <2>3 DEF Attempts
    <3> QED BY <1>8, <1>q, <2>1, <2>3, <3>1
            DEF NextAttempt, candidates, Stands, Attempting, PassedOver
  <2>4. CASE /\ gen'.pc = "attempt" /\ gen'.at \in (gen.at + 1)..MaxAttempts
             /\ ~PassedOver(gen'.at)
             /\ \A k \in (gen.at + 1)..(gen'.at - 1) : PassedOver(k)
    <3>1. \A k \in 1..(gen'.at - 1) : PassedOver(k)
      BY <2>1, <2>4 DEF Attempts
    <3> QED BY <1>8, <1>q, <2>1, <2>4, <3>1
            DEF NextAttempt, candidates, Stands, Attempting, PassedOver
  <2> QED BY <2>2, <2>3, <2>4, ProceedFields
<1>9. CASE SaveCanonical
  <2>1. /\ gen.at \in Attempts /\ gen.raw # 0 /\ attempts[gen.at] = "VALID"
        /\ drafts[gen.at] = gen.raw /\ outputs[gen.raw] = "valid"
    BY <1>9, <1>t DEF SaveCanonical, At, CommandHappened, Attempting, Stands
  <2>2. ~failed
    BY <1>t, <2>1 DEF CanonicalWasJudged
  <2>3. gen'.pc = "clear" /\ canonical' = gen.raw
        /\ UNCHANGED <<outputs, dir, attempts, drafts, failed, outcome>>
    BY <1>9, <1>g DEF SaveCanonical, CommandSteps
  <2>4. CanonicalWasJudged' /\ Stands'
    BY <1>t, <2>1, <2>2, <2>3 DEF CanonicalWasJudged, Stands, Attempting
  <2> QED BY <2>3, <2>4 DEF LoopInv, InTurn, PassedOver, TellsDraft, RepairFits
<1>10. CASE ClearFailure
  <2>1. /\ gen'.pc = "register" /\ canonical # 0 /\ failed' = FALSE
        /\ UNCHANGED <<outputs, dir, attempts, drafts, canonical, outcome>>
    BY <1>10, <1>g, <1>t DEF ClearFailure, At, Stands, CommandSteps
  <2>2. CanonicalWasJudged' /\ Stands'
    BY <1>t, <2>1 DEF CanonicalWasJudged, Stands, Attempting
  <2> QED BY <2>1, <2>2 DEF LoopInv, InTurn, PassedOver, TellsDraft, RepairFits
<1>11. CASE Register
  <2>1. /\ canonical # 0
        /\ UNCHANGED <<outputs, dir, attempts, drafts, canonical, failed>>
    BY <1>11, <1>t DEF Register, At, Stands
  <2>2. CanonicalWasJudged' /\ Stands'
    BY <1>11, <1>r, <1>t, <2>1 DEF Register, CanonicalWasJudged
  <2> QED BY <2>1, <2>2 DEF LoopInv, InTurn, PassedOver, TellsDraft, RepairFits
<1>12. CASE SaveFailure
  <2>1. /\ \A n \in Attempts : PassedOver(n) /\ canonical = 0
        /\ gen'.pc = "fail" /\ failed' = TRUE
        /\ UNCHANGED <<outputs, dir, attempts, drafts, canonical, outcome>>
    BY <1>12, <1>g, <1>t DEF SaveFailure, At, Stands, CommandSteps
  <2>2. CanonicalWasJudged' /\ Stands'
    BY <1>t, <2>1 DEF CanonicalWasJudged, Stands, Attempting, PassedOver
  <2> QED BY <2>1, <2>2 DEF LoopInv, InTurn, PassedOver, TellsDraft, RepairFits
<1>13. CASE Fail \/ Pause
  <2>1. /\ outcome' # "REGISTERED" /\ Return
        /\ UNCHANGED <<outputs, dir, attempts, drafts, canonical, failed>>
    BY <1>13 DEF Fail, Pause
  <2>2. CanonicalWasJudged' /\ Stands'
    BY <1>r, <1>t, <2>1 DEF CanonicalWasJudged
  <2> QED BY <2>1, <2>2 DEF LoopInv, InTurn, PassedOver, TellsDraft, RepairFits
<1>14. CASE MakeDir
  <2>1. /\ gen.at \in Attempts /\ ~PassedOver(gen.at) /\ canonical = 0
        /\ \A k \in 1..(gen.at - 1) : PassedOver(k)
    BY <1>14, <1>t DEF MakeDir, At, CommandHappened, Attempting, Stands
  <2>2. CASE dir' = dir /\ Return
    BY <1>14, <1>q, <1>r, <2>2 DEF MakeDir
  <2>3. CASE /\ ~dir[gen.at].made
             /\ dir' = [dir EXCEPT ![gen.at].made = TRUE]
             /\ Goto("request")
    <3>1. gen'.pc = "request" /\ gen'.at = gen.at
      BY <1>g, <2>3 DEF CommandSteps
    <3>2. /\ dir'[gen.at].made /\ dir'[gen.at].request = dir[gen.at].request
          /\ \A k \in Attempts \ {gen.at} : dir'[k] = dir[k]
      BY <1>t, <2>1, <2>3 DEF JobEntry
    <3>3. Stands'
      BY <1>14, <2>1, <3>1, <3>2
         DEF MakeDir, candidates, Stands, Attempting, PassedOver
    <3>4. ASSUME NEW m \in Attempts PROVE TellsDraft(m)' /\ RepairFits(m)'
      <4>1. TellsDraft(m) /\ RepairFits(m)
        BY DEF LoopInv
      <4>2. TellsDraft(m)'
        BY <1>14, <4>1 DEF MakeDir, candidates, TellsDraft, PassedOver
      <4>3. CASE m = gen.at
        BY <1>14, <2>1, <2>3, <3>2, <4>1, <4>2, <4>3
           DEF MakeDir, candidates, RepairFits, PassedOver, Attempts
      <4>4. CASE m # gen.at
        BY <1>14, <3>2, <4>1, <4>2, <4>4
           DEF MakeDir, candidates, RepairFits, PassedOver
      <4> QED BY <4>3, <4>4
    <3> QED BY <1>14, <3>3, <3>4
            DEF MakeDir, candidates, LoopInv, InTurn, PassedOver,
                CanonicalWasJudged
  <2> QED BY <1>14, <2>2, <2>3 DEF MakeDir
<1>15. CASE WriteRequest
  <2>1. /\ gen.at \in Attempts /\ ~PassedOver(gen.at) /\ canonical = 0
        /\ \A k \in 1..(gen.at - 1) : PassedOver(k)
        /\ dir[gen.at].made /\ dir[gen.at] \in JobEntry
    BY <1>15, <1>t DEF WriteRequest, At, CommandHappened, Attempting, Stands
  <2>2. gen'.pc = "job" /\ gen'.at = gen.at
    BY <1>15, <1>g DEF WriteRequest, CommandSteps
  <2>3. /\ dir'[gen.at].made /\ dir'[gen.at].prior = Prior(gen.at)
        /\ \A k \in Attempts \ {gen.at} : dir'[k] = dir[k]
    BY <1>15, <1>t, <2>1 DEF WriteRequest, JobEntry
  <2>4. Stands'
    BY <1>15, <2>1, <2>2
       DEF WriteRequest, candidates, Stands, Attempting, PassedOver
  <2>5. ASSUME NEW m \in Attempts PROVE TellsDraft(m)' /\ RepairFits(m)'
    <3>1. TellsDraft(m) /\ RepairFits(m)
      BY DEF LoopInv
    <3>2. TellsDraft(m)'
      BY <1>15, <3>1 DEF WriteRequest, candidates, TellsDraft, PassedOver
    <3>3. CASE m = gen.at
      BY <1>15, <2>1, <2>3, <3>2, <3>3
         DEF WriteRequest, candidates, RepairFits, PassedOver, Attempts, Prior
    <3>4. CASE m # gen.at
      BY <1>15, <2>3, <3>1, <3>2, <3>4
         DEF WriteRequest, candidates, RepairFits, PassedOver
    <3> QED BY <3>3, <3>4
  <2> QED BY <1>15, <2>4, <2>5
          DEF WriteRequest, candidates, LoopInv, InTurn, PassedOver,
              CanonicalWasJudged
<1>16. CASE SaveJob
  BY <1>16, <1>g, <1>q, <1>t
     DEF SaveJob, At, candidates, Stands, Attempting, CommandSteps
<1> QED BY <1>1, <1>2, <1>3, <1>4, <1>5, <1>6, <1>7, <1>8, <1>9, <1>10, <1>11,
           <1>12, <1>13, <1>14, <1>15, <1>16 DEF Command

\* Executors write results only.
LEMMA ExecutorKeepsLoop ==
    ASSUME Typed, LoopInv, NEW p \in Executors, Execute(p) PROVE LoopInv'
<1>t. /\ Shape /\ ExecutorHappened(p) /\ exec[p].run \in Nat
      /\ dir \in [Attempts -> JobEntry]
  BY DEF Typed, Shape, ExecutorState
<1>1. UNCHANGED <<candidates, gen>>
  BY DEF Execute, Run, ExecCodex, WriteInvocation, WriteRaw, WriteDraftFile,
     WriteReport, WriteCompletion, FinishRow, Notify
<1>2. \A i \in DOMAIN outputs : outputs'[i] = outputs[i]
  <2>1. CASE ExecCodex(p)
    BY <1>t, <2>1, OneMore DEF ExecCodex, Shape
  <2>2. CASE outputs' = outputs
    BY <2>2
  <2> QED BY <2>1, <2>2
          DEF Execute, Run, WriteInvocation, WriteRaw, WriteDraftFile,
              WriteReport, WriteCompletion, FinishRow, Notify
<1>3. ASSUME NEW n \in Attempts
      PROVE  /\ dir'[n].made = dir[n].made /\ dir'[n].request = dir[n].request
             /\ dir'[n].prior = dir[n].prior
  <2>1. ASSUME NEW names, Write(p, names), exec[p].pc # "idle" PROVE <1>3!2
    <3>1. exec[p].job \in Attempts
      BY <1>t, <2>1 DEF ExecutorHappened
    <3>2. PICK d \in JobEntry :
            /\ dir' = [dir EXCEPT ![exec[p].job] = d]
            /\ d.made = dir[exec[p].job].made
            /\ d.request = dir[exec[p].job].request
            /\ d.prior = dir[exec[p].job].prior
      BY <1>t, <2>1, <3>1, WriteFields
    <3> QED BY <1>t, <3>1, <3>2
  <2>2. CASE dir' = dir
    BY <2>2
  <2>3. CASE WriteCompletion(p)
    BY <1>t, <2>3 DEF WriteCompletion, JobEntry
  <2> QED BY <2>1, <2>2, <2>3
          DEF Execute, Run, ExecCodex, WriteInvocation, WriteRaw,
              WriteDraftFile, WriteReport, FinishRow, Notify, ExecAt
<1> QED BY <1>1, <1>2, <1>3, LoopQuiet

LEMMA InitLoop == Init => LoopInv
<1> SUFFICES ASSUME Init PROVE LoopInv
  OBVIOUS
<1>1. /\ gen.pc = "idle" /\ canonical = 0 /\ ~failed /\ outcome = "NEW"
      /\ \A n \in Attempts : /\ attempts[n] = "NONE"
                             /\ ~dir[n].made /\ ~dir[n].request
  BY DEF Init, Idle, NoDir
<1> QED BY <1>1
        DEF LoopInv, InTurn, Stands, Attempting, CanonicalWasJudged, TellsDraft,
            RepairFits, PassedOver

LEMMA NextLoop == Typed /\ LoopInv /\ [Next]_vars => LoopInv'
<1> SUFFICES ASSUME Typed, LoopInv, [Next]_vars PROVE LoopInv'
  OBVIOUS
<1>1. CASE UNCHANGED vars
  BY <1>1, LoopQuiet DEF vars
<1>2. CASE Crash
  <2>1. gen' = gen \/ Return
    BY <1>2 DEF Crash
  <2>2. ASSUME Return PROVE Stands'
    BY <2>2, ReturnFields DEF Stands, Attempting
  <2> QED BY <1>2, <2>1, <2>2, LoopQuiet DEF Crash
<1> QED BY <1>1, <1>2, CommandKeepsLoop, ExecutorKeepsLoop DEF Next

LEMMA SpecificationLoop == Spec => [](Typed /\ LoopInv)
BY InitTyped, InitLoop, NextTyped, NextLoop, PTL DEF Spec

(* Whatever dies and whoever works on the jobs, a repair is made for a     *)
(* candidate that was found invalid and asks for the draft of that verdict.*)
THEOREM SpecificationRepairsWhatFailed == Spec => []RepairsWhatFailed
<1>1. ASSUME Typed, LoopInv PROVE RepairsWhatFailed
  <2> SUFFICES ASSUME NEW n \in Attempts, dir[n].made, n > 1
               PROVE  /\ attempts[n - 1] \in {"INVALID", "CODEX_FAILED"}
                      /\ drafts[n - 1] # 0
                      /\ Verdict(outputs[drafts[n - 1]]) = attempts[n - 1]
                      /\ dir[n].request => dir[n].prior = drafts[n - 1]
    BY DEF RepairsWhatFailed
  <2>1. n - 1 \in Attempts
    BY SpecificationJobAssumption DEF Attempts
  <2>2. RepairFits(n) /\ TellsDraft(n - 1)
    BY <1>1, <2>1 DEF LoopInv
  <2> QED BY <2>2 DEF RepairFits, TellsDraft, PassedOver
<1> QED BY <1>1, SpecificationLoop, PTL

(* What is canonical was judged valid, a registered run has a canonical    *)
(* specification, and a run is given up with a verdict on every candidate. *)
THEOREM SpecificationCanonicalWasJudged == Spec => []CanonicalWasJudged
<1>1. LoopInv => CanonicalWasJudged
  BY DEF LoopInv
<1> QED BY <1>1, SpecificationLoop, PTL

\* A valid candidate is the only one.
LEMMA ValidIsOne ==
    ASSUME LoopInv, NEW n \in Attempts, attempts[n] = "VALID"
    PROVE  (CHOOSE m \in Attempts : attempts[m] = "VALID") = n
<1>1. ASSUME NEW m \in Attempts, attempts[m] = "VALID" PROVE m = n
  <2>1. ASSUME NEW i \in Attempts, NEW j \in Attempts, i < j,
               attempts[i] = "VALID", attempts[j] = "VALID"
        PROVE  FALSE
    BY <2>1 DEF LoopInv, InTurn, PassedOver, Attempts
  <2>2. ~(m < n) /\ ~(n < m)
    BY <1>1, <2>1
  <2> QED BY <2>2 DEF Attempts
<1> QED BY <1>1

(* The candidate loop implements the bounded loop: a command's steps judge *)
(* the next candidate, accept a valid one or give up after the last, and   *)
(* all others, deaths and executors included, change none of it.           *)
THEOREM SpecificationImplementsBoundedRepair == Spec => ImplementsBoundedRepair
<1> USE SpecificationJobAssumption
<1> DEFINE Verdicts == [n \in Attempts |->
              IF attempts[n] = "CODEX_FAILED" THEN "INVALID" ELSE attempts[n]]
           Chosen == IF canonical = 0 THEN 0
                     ELSE CHOOSE n \in Attempts : attempts[n] = "VALID"
<1>a. Bounded!Candidates = Attempts
  BY DEF Bounded!Candidates, Attempts
<1>1. Init => Bounded!Init
  BY <1>a DEF Init, Bounded!Init
<1>2. ASSUME Typed, LoopInv, [Next]_vars
      PROVE  [Bounded!Next]_(Bounded!vars)
  <2>s. ASSUME UNCHANGED <<attempts, canonical, failed>>
        PROVE  UNCHANGED Bounded!vars
    BY <2>s DEF Bounded!vars
  <2>t. /\ CommandHappened /\ TextInHand /\ Stands /\ CanonicalWasJudged
        /\ attempts \in
             [Attempts -> {"NONE", "VALID", "INVALID", "CODEX_FAILED"}]
    BY <1>2 DEF Typed, RowsTyped, LoopInv
  <2>1. CASE SaveAttempt
    <3>0. PICK n \in Attempts : n = gen.at /\ gen.pc = "judged"
      BY <2>1, <2>t DEF CommandHappened, SaveAttempt, At, Attempting
    <3> DEFINE verdict == Verdict(outputs[gen.raw])
               judgement == IF verdict = "VALID" THEN "VALID" ELSE "INVALID"
    <3>1. /\ canonical = 0 /\ ~PassedOver(n)
          /\ \A k \in 1..(n - 1) : PassedOver(k)
          /\ verdict \in {"VALID", "INVALID", "CODEX_FAILED"}
      BY <2>t, <3>0 DEF Stands, Attempting, TextInHand, Text, Verdict
    <3>2. /\ attempts' = [attempts EXCEPT ![n] = verdict]
          /\ canonical' = canonical /\ failed' = failed
      BY <2>1, <3>0 DEF SaveAttempt
    <3> HIDE DEF verdict
    <3>3. Verdicts' = [Verdicts EXCEPT ![n] = judgement]
      BY <2>t, <3>1, <3>2
    <3>4. \A k \in 1..(n - 1) : Verdicts[k] = "INVALID"
      BY <3>1 DEF PassedOver, Attempts
    <3>5. Verdicts[n] # "INVALID"
      BY <3>1 DEF PassedOver
    <3>6. Chosen = 0 /\ Chosen' = 0
      BY <3>1, <3>2
    <3>7. judgement \in {"VALID", "INVALID"}
      OBVIOUS
    <3> HIDE DEF Verdicts, Chosen, judgement
    <3>8. Bounded!Judge(n)
      BY <3>2, <3>3, <3>4, <3>5, <3>6, <3>7
         DEF Bounded!Judge, Verdicts, Chosen
    <3> QED BY <1>a, <3>8 DEF Bounded!Next
  <2>2. CASE SaveCanonical
    <3>0. PICK n \in Attempts : n = gen.at /\ gen.pc = "canonical"
      BY <2>2, <2>t DEF CommandHappened, SaveCanonical, At, Attempting
    <3>1. /\ canonical = 0 /\ attempts[n] = "VALID" /\ gen.raw # 0
      BY <2>t, <3>0 DEF Stands, CommandHappened
    <3>2. /\ canonical' = gen.raw /\ attempts' = attempts /\ failed' = failed
      BY <2>2 DEF SaveCanonical
    <3>3. ~failed
      BY <2>t, <3>1 DEF CanonicalWasJudged
    <3>4. Chosen = 0 /\ Chosen' = n
      BY <1>2, <3>1, <3>2, ValidIsOne
    <3>5. Bounded!Accept(n)
      BY <3>1, <3>2, <3>3, <3>4 DEF Bounded!Accept
    <3> QED BY <1>a, <3>5 DEF Bounded!Next
  <2>3. CASE SaveFailure
    <3>1. \A n \in Attempts : PassedOver(n)
      BY <2>3, <2>t DEF SaveFailure, At, Stands
    <3>2. \A n \in Attempts : Verdicts[n] = "INVALID"
      BY <3>1 DEF PassedOver
    <3>3. Bounded!GiveUp
      BY <1>a, <2>3, <3>2 DEF SaveFailure, Bounded!GiveUp
    <3> QED BY <3>3 DEF Bounded!Next
  <2>4. CASE ClearFailure
    <3>1. ~failed
      BY <2>4, <2>t DEF ClearFailure, At, Stands, CanonicalWasJudged
    <3>2. UNCHANGED <<attempts, canonical>> /\ failed' = FALSE
      BY <2>4 DEF ClearFailure
    <3>3. failed = FALSE
      BY <1>2, <3>1 DEF Typed, RowsTyped
    <3> QED BY <2>s, <3>2, <3>3
  <2>5. CASE UNCHANGED <<attempts, canonical, failed>>
    BY <2>5, <2>s
  <2>6. ASSUME NEW p \in Executors, Execute(p)
        PROVE  UNCHANGED <<attempts, canonical, failed>>
    BY <2>6
       DEF candidates, Execute, Run, ExecCodex, WriteInvocation, WriteRaw,
           WriteDraftFile, WriteReport, WriteCompletion, FinishRow, Notify
  <2> QED BY <1>2, <2>1, <2>2, <2>3, <2>4, <2>5, <2>6
          DEF Next, vars, candidates, Command, Crash, Generate, TakeExternal,
              ReadRaw, Denied, Codex, WriteDraft, NextAttempt, Register, Fail,
              MakeDir, WriteRequest, SaveJob, Pause
<1>3. Typed /\ LoopInv /\ [Next]_vars => [Bounded!Next]_(Bounded!vars)
  BY <1>2
<1> QED BY <1>1, <1>3, SpecificationLoop, PTL
        DEF Spec, ImplementsBoundedRepair, Bounded!Spec

-----------------------------------------------------------------------------
\* One executor: a success is one invocation's

OneExecutor == \A p, q \in Executors : p = q

Mapped(i) == outputs[i] \in {"valid", "invalid"}

Done(n) == dir[n].completion.status = "SUCCEEDED"

(* The completion of a success is about the files as they are.             *)
SuccessFits(n) ==
    /\ Done(n) =>
         /\ Mapped(dir[n].completion.run)
         /\ dir[n].completion.files = dir[n].files
         /\ \A f \in FileNames : dir[n].files[f] = dir[n].completion.run
    /\ jobs[n] = "SUCCEEDED" => Done(n)

(* Files of the invocation at hand are written in order, over a job that   *)
(* has no success yet.                                                     *)
Progress(p) ==
    /\ exec[p].pc \in ExecutorSteps \ {"idle", "row", "notify"} =>
         ~Done(exec[p].job)
    /\ exec[p].pc \in {"raw", "extract", "report"} =>
         dir[exec[p].job].files["invocation"] = exec[p].run
    /\ exec[p].pc \in {"extract", "report"} =>
         dir[exec[p].job].files["raw"] = exec[p].run
    /\ exec[p].pc = "report" => dir[exec[p].job].files["draft"] = exec[p].run
    /\ exec[p].pc = "completion" /\ Mapped(exec[p].run) =>
         \A f \in FileNames : dir[exec[p].job].files[f] = exec[p].run
    /\ exec[p].pc = "row" =>
         dir[exec[p].job].completion.status = StatusOf(KindOf(p))

RunInv ==
    /\ \A n \in Attempts : SuccessFits(n)
    /\ \A p \in Executors : Progress(p)

\* What the files and their completions say is not touched.
LEMMA RunQuiet ==
    ASSUME Typed, RunInv, \A i \in DOMAIN outputs : outputs'[i] = outputs[i],
           \A n \in Attempts : /\ dir'[n].files = dir[n].files
                               /\ dir'[n].completion = dir[n].completion
                               /\ jobs'[n] = "SUCCEEDED" =>
                                    jobs[n] = "SUCCEEDED" \/ Done(n),
           \A q \in Executors : exec'[q] = exec[q] \/ Progress(q)'
    PROVE  RunInv'
<1>1. ASSUME NEW n \in Attempts PROVE SuccessFits(n)'
  <2>1. SuccessFits(n) /\ EntryHappened(dir[n])
    BY DEF RunInv, Typed
  <2>2. Done(n)' <=> Done(n)
    BY DEF Done
  <2>3. Done(n) => dir[n].completion.run \in DOMAIN outputs
    BY <2>1 DEF Done, EntryHappened, NoCompletion
  <2>4. Done(n) => Mapped(dir[n].completion.run)'
    BY <2>1, <2>3 DEF SuccessFits, Mapped
  <2> QED BY <2>1, <2>2, <2>4 DEF SuccessFits
<1>2. ASSUME NEW q \in Executors, exec'[q] = exec[q] PROVE Progress(q)'
  <2>1. Progress(q) /\ ExecutorHappened(q) /\ exec[q] \in ExecutorState
    BY DEF RunInv, Typed, Shape
  <2>2. exec[q].pc \in Recording => outputs'[exec[q].run] = outputs[exec[q].run]
    BY <2>1 DEF ExecutorHappened
  <2>3. exec[q].pc # "idle" =>
          /\ dir'[exec[q].job].files = dir[exec[q].job].files
          /\ dir'[exec[q].job].completion = dir[exec[q].job].completion
    BY <2>1 DEF ExecutorHappened
  <2> QED BY <1>2, <2>1, <2>2, <2>3
          DEF Progress, Done, Mapped, KindOf, Recording, ExecutorSteps
<1> QED BY <1>1, <1>2 DEF RunInv

LEMMA CommandKeepsRun ==
    ASSUME Typed, RunInv, Command PROVE RunInv'
<1>t. /\ outputs \in Seq(OutputKind) /\ dir \in [Attempts -> JobEntry]
      /\ jobs \in [Attempts -> CompletionStatus \cup {"NONE", "WAITING"}]
  BY DEF Typed, Shape, RowsTyped
<1>1. exec' = exec
  BY DEF Command, Generate, TakeExternal, ReadRaw, Denied, Codex, WriteDraft,
     SaveAttempt, NextAttempt, SaveCanonical, ClearFailure, Register,
     SaveFailure, Fail, MakeDir, WriteRequest, SaveJob, Pause
<1>2. \A i \in DOMAIN outputs : outputs'[i] = outputs[i]
  <2>1. CASE Codex
    BY <1>t, <2>1, OneMore DEF Codex
  <2>2. CASE outputs' = outputs
    BY <2>2
  <2> QED BY <2>1, <2>2
          DEF Command, Generate, TakeExternal, ReadRaw, Denied, WriteDraft,
              SaveAttempt, NextAttempt, SaveCanonical, ClearFailure, Register,
              SaveFailure, Fail, MakeDir, WriteRequest, SaveJob, Pause
<1>3. ASSUME NEW n \in Attempts
      PROVE  /\ dir'[n].files = dir[n].files
             /\ dir'[n].completion = dir[n].completion
  <2>1. CASE MakeDir
    <3>1. CASE UNCHANGED dir
      BY <3>1
    <3>2. CASE dir' = [dir EXCEPT ![gen.at].made = TRUE]
      BY <1>t, <3>2 DEF JobEntry
    <3> QED BY <2>1, <3>1, <3>2 DEF MakeDir
  <2>2. CASE WriteRequest
    BY <1>t, <2>2 DEF WriteRequest, JobEntry
  <2>3. CASE dir' = dir
    BY <2>3
  <2> QED BY <2>1, <2>2, <2>3
          DEF Command, Generate, TakeExternal, ReadRaw, Denied, Codex,
              WriteDraft, SaveAttempt, NextAttempt, SaveCanonical,
              ClearFailure, Register, SaveFailure, Fail, SaveJob, Pause
<1>4. ASSUME NEW n \in Attempts, jobs'[n] = "SUCCEEDED"
      PROVE  jobs[n] = "SUCCEEDED"
  <2>1. CASE SaveJob
    BY <1>4, <1>t, <2>1 DEF SaveJob
  <2>2. CASE jobs' = jobs
    BY <1>4, <2>2
  <2> QED BY <2>1, <2>2
          DEF Command, Generate, TakeExternal, ReadRaw, Denied, Codex,
              WriteDraft, SaveAttempt, NextAttempt, SaveCanonical,
              ClearFailure, Register, SaveFailure, Fail, MakeDir, WriteRequest,
              Pause
<1> QED BY <1>1, <1>2, <1>3, <1>4, RunQuiet

LEMMA ExecutorKeepsRun ==
    ASSUME OneExecutor, Typed, RunInv, NEW p \in Executors, Execute(p)
    PROVE  RunInv'
<1>0. PICK n, i : n = exec[p].job /\ i = exec[p].run
  OBVIOUS
<1>t. /\ outputs \in Seq(OutputKind) /\ dir \in [Attempts -> JobEntry]
      /\ jobs \in [Attempts -> CompletionStatus \cup {"NONE", "WAITING"}]
      /\ exec \in [Executors -> ExecutorState] /\ exec[p] \in ExecutorState
      /\ ExecutorHappened(p) /\ TextWritten(p) /\ Progress(p) /\ i \in Nat
      /\ \A q \in Executors : q = p
  BY <1>0 DEF Typed, Shape, RowsTyped, ExecutorState, RunInv, OneExecutor
<1>a. exec[p].pc # "idle" => n \in Attempts /\ SuccessFits(n)
  BY <1>0, <1>t DEF ExecutorHappened, RunInv
\* A file is written over a job that is not done.
<1>w. ASSUME NEW names, NEW step \in ExecutorSteps, Write(p, names),
             ExecGoto(p, step), UNCHANGED <<outputs, jobs>>,
             exec[p].pc \in ExecutorSteps \ {"idle", "codex", "row", "notify"},
             step \in {"raw", "extract", "report", "completion"},
             step \in {"raw", "extract", "report"} \/ Mapped(i) =>
               "invocation" \in names \/ dir[n].files["invocation"] = i,
             step \in {"extract", "report"}
             \/ (step = "completion" /\ Mapped(i)) =>
               "raw" \in names \/ dir[n].files["raw"] = i,
             step = "report" \/ (step = "completion" /\ Mapped(i)) =>
               "draft" \in names \/ dir[n].files["draft"] = i,
             step = "completion" /\ Mapped(i) =>
               "report" \in names \/ dir[n].files["report"] = i
      PROVE  RunInv'
  <2>1. n \in Attempts /\ SuccessFits(n) /\ ~Done(n)
    BY <1>0, <1>a, <1>t, <1>w DEF Progress
  <2>2. PICK d \in JobEntry :
          /\ dir' = [dir EXCEPT ![n] = d] /\ d.completion = dir[n].completion
          /\ \A f \in FileNames :
               d.files[f] = IF f \in names THEN i ELSE dir[n].files[f]
    BY <1>0, <1>t, <1>w, <2>1, WriteFields
  <2>3. dir'[n] = d /\ \A k \in Attempts \ {n} : dir'[k] = dir[k]
    BY <1>t, <2>1, <2>2
  <2>4. exec'[p].pc = step /\ exec'[p].job = n /\ exec'[p].run = i
    BY <1>0, <1>t, <1>w, ExecGotoFields
  <2>5. ~Done(n)' /\ jobs'[n] # "SUCCEEDED"
    BY <1>w, <2>1, <2>2, <2>3 DEF Done, SuccessFits
  <2>6. ASSUME NEW k \in Attempts PROVE SuccessFits(k)'
    <3>1. CASE k = n
      BY <2>5, <3>1 DEF SuccessFits
    <3>2. CASE k # n
      BY <1>w, <2>3, <3>2 DEF RunInv, SuccessFits, Done, Mapped
    <3> QED BY <3>1, <3>2
  <2>7. /\ "invocation" \in FileNames /\ "raw" \in FileNames
        /\ "draft" \in FileNames /\ "report" \in FileNames
        /\ \A f \in FileNames : f \in {"invocation", "raw", "draft", "report"}
    BY DEF FileNames
  <2>8. /\ step \in {"raw", "extract", "report"} \/ Mapped(i) =>
             d.files["invocation"] = i
        /\ step \in {"extract", "report"} \/ (step = "completion" /\ Mapped(i)) =>
             d.files["raw"] = i
        /\ step = "report" \/ (step = "completion" /\ Mapped(i)) =>
             d.files["draft"] = i
        /\ step = "completion" /\ Mapped(i) => d.files["report"] = i
    BY <1>w, <2>2, <2>7
  <2>9. step = "completion" /\ Mapped(i) => \A f \in FileNames : d.files[f] = i
    BY <2>7, <2>8
  <2>10. Mapped(i)' <=> Mapped(i)
    BY <1>w DEF Mapped
  <2>11. Progress(p)'
    <3>1. ~Done(exec[p].job)' /\ exec'[p].pc # "row"
      BY <1>w, <2>4, <2>5 DEF Done
    <3>2. exec'[p].pc = "completion" /\ Mapped(exec[p].run)' =>
            \A f \in FileNames : dir'[exec'[p].job].files[f] = exec'[p].run
      BY <2>3, <2>4, <2>9, <2>10 DEF Mapped
    <3>3. /\ exec'[p].pc \in {"raw", "extract", "report"} =>
               dir'[exec'[p].job].files["invocation"] = exec'[p].run
          /\ exec'[p].pc \in {"extract", "report"} =>
               dir'[exec'[p].job].files["raw"] = exec'[p].run
          /\ exec'[p].pc = "report" =>
               dir'[exec'[p].job].files["draft"] = exec'[p].run
      BY <2>3, <2>4, <2>8
    <3> QED BY <3>1, <3>2, <3>3 DEF Progress
  <2> QED BY <1>t, <2>6, <2>11 DEF RunInv
<1>1. CASE \E k \in Attempts : Run(p, k)
  <2>1. PICK k \in Attempts : Run(p, k)
    BY <1>1
  <2>2. /\ exec'[p].pc = "codex" /\ exec'[p].job = k
        /\ UNCHANGED <<outputs, dir, jobs>> /\ ~Done(k)
    BY <1>t, <2>1 DEF Run, MayRun, Done
  <2>3. Progress(p)'
    BY <2>2 DEF Progress, Done
  <2> QED BY <1>t, <2>2, <2>3, RunQuiet
<1>2. CASE ExecCodex(p)
  <2>1. /\ exec'[p].pc = "invocation" /\ exec'[p].job = n
        /\ UNCHANGED <<dir, jobs>> /\ ~Done(n)
    BY <1>0, <1>2, <1>t
       DEF ExecCodex, ExecAt, ExecutorState, Progress, ExecutorSteps
  <2>2. Progress(p)'
    BY <2>1 DEF Progress, Done
  <2>3. \A k \in DOMAIN outputs : outputs'[k] = outputs[k]
    BY <1>2, <1>t, OneMore DEF ExecCodex
  <2> QED BY <1>t, <2>1, <2>2, <2>3, RunQuiet
<1>3. CASE WriteInvocation(p)
  <2>1. CASE KindOf(p) \in {"failed", "mutated"} /\ ExecGoto(p, "completion")
    BY <1>0, <1>3, <1>w, <2>1
       DEF WriteInvocation, ExecAt, KindOf, Mapped, ExecutorSteps
  <2>2. CASE ExecGoto(p, "raw")
    BY <1>3, <1>w, <2>2 DEF WriteInvocation, ExecAt, ExecutorSteps
  <2> QED BY <1>3, <2>1, <2>2 DEF WriteInvocation
<1>4. CASE WriteRaw(p)
  BY <1>0, <1>4, <1>t, <1>w DEF WriteRaw, ExecAt, Progress, ExecutorSteps
<1>5. CASE WriteDraftFile(p)
  BY <1>0, <1>5, <1>t, <1>w
     DEF WriteDraftFile, ExecAt, Progress, ExecutorSteps
<1>6. CASE WriteReport(p)
  <2>1. /\ exec[p].pc \in {"extract", "report"}
        /\ exec[p].pc = "extract" => ~Mapped(i)
    BY <1>0, <1>6, <1>t
       DEF WriteReport, ExecAt, Extracted, KindOf, Mapped
  <2>2. /\ dir[n].files["invocation"] = i /\ dir[n].files["raw"] = i
        /\ exec[p].pc = "report" => dir[n].files["draft"] = i
    BY <1>0, <1>t, <2>1 DEF Progress
  <2> QED BY <1>6, <1>w, <2>1, <2>2 DEF WriteReport, ExecutorSteps
<1>7. CASE WriteCompletion(p)
  <2>1. /\ n \in Attempts /\ SuccessFits(n) /\ ~Done(n)
        /\ exec[p].pc = "completion"
        /\ Mapped(i) => \A f \in FileNames : dir[n].files[f] = i
    BY <1>0, <1>7, <1>a, <1>t
       DEF WriteCompletion, ExecAt, Progress, ExecutorSteps
  <2>2. /\ dir'[n].files = dir[n].files
        /\ dir'[n].completion.status = StatusOf(KindOf(p))
        /\ dir'[n].completion.run = i
        /\ dir'[n].completion.files = dir[n].files
        /\ \A k \in Attempts \ {n} : dir'[k] = dir[k]
        /\ UNCHANGED <<outputs, jobs>>
    BY <1>0, <1>7, <1>t, <2>1 DEF WriteCompletion, JobEntry
  <2>3. StatusOf(KindOf(p)) = "SUCCEEDED" => Mapped(i)
    <3>1. outputs[i] \in OutputKind
      BY <1>0, <1>t, <2>1 DEF ExecutorHappened, Recording, ExecutorSteps
    <3> QED BY <1>0, <3>1 DEF StatusOf, KindOf, Mapped, OutputKind
  <2>4. ASSUME NEW k \in Attempts PROVE SuccessFits(k)'
    <3>1. CASE k = n
      BY <2>1, <2>2, <2>3, <3>1 DEF SuccessFits, Done, Mapped
    <3>2. CASE k # n
      BY <2>2, <3>2 DEF RunInv, SuccessFits, Done, Mapped
    <3> QED BY <3>1, <3>2
  <2>5. exec'[p].pc = "row" /\ exec'[p].job = n /\ exec'[p].run = i
    BY <1>0, <1>7, <1>t, ExecGotoFields DEF WriteCompletion, ExecutorSteps
  <2>6. Progress(p)'
    BY <1>0, <2>2, <2>5 DEF Progress, KindOf, ExecutorSteps
  <2> QED BY <1>t, <2>4, <2>6 DEF RunInv
<1>8. CASE FinishRow(p)
  <2>1. /\ n \in Attempts /\ dir[n].completion.status = StatusOf(KindOf(p))
        /\ UNCHANGED <<outputs, dir>>
        /\ jobs' = [jobs EXCEPT ![n] = StatusOf(KindOf(p))]
    BY <1>0, <1>8, <1>a, <1>t DEF FinishRow, ExecAt, Progress
  <2>2. exec'[p].pc = "notify"
    BY <1>8, <1>t, ExecGotoFields DEF FinishRow, ExecutorSteps
  <2>3. Progress(p)'
    BY <2>2 DEF Progress
  <2>4. \A k \in Attempts : jobs'[k] = "SUCCEEDED" =>
          jobs[k] = "SUCCEEDED" \/ Done(k)
    BY <1>t, <2>1 DEF Done
  <2> QED BY <1>t, <2>1, <2>3, <2>4, RunQuiet
<1>9. CASE Notify(p)
  <2>1. exec'[p].pc = "idle" /\ UNCHANGED <<outputs, dir, jobs>>
    BY <1>9, <1>t, RestingFields DEF Notify
  <2>2. Progress(p)'
    BY <2>1 DEF Progress
  <2> QED BY <1>t, <2>1, <2>2, RunQuiet
<1> QED BY <1>1, <1>2, <1>3, <1>4, <1>5, <1>6, <1>7, <1>8, <1>9 DEF Execute

LEMMA InitRun == Init => RunInv
<1> SUFFICES ASSUME Init PROVE RunInv
  OBVIOUS
<1>1. \A n \in Attempts : jobs[n] = "NONE" /\ dir[n].completion.status = "NONE"
  BY DEF Init, NoDir, NoCompletion
<1>2. \A p \in Executors : exec[p].pc = "idle"
  BY DEF Init, Resting
<1> QED BY <1>1, <1>2 DEF RunInv, SuccessFits, Progress, Done

LEMMA NextRun ==
    ASSUME OneExecutor PROVE Typed /\ RunInv /\ [Next]_vars => RunInv'
<1> SUFFICES ASSUME Typed, RunInv, [Next]_vars PROVE RunInv'
  OBVIOUS
<1>1. CASE UNCHANGED vars
  BY <1>1, RunQuiet DEF vars
<1>2. CASE Crash
  <2>1. UNCHANGED <<outputs, dir, jobs>>
    BY <1>2 DEF Crash
  <2>2. ASSUME NEW q \in Executors PROVE exec'[q] = exec[q] \/ Progress(q)'
    <3>1. ASSUME NEW p \in Executors, exec' = [exec EXCEPT ![p] = Resting]
          PROVE  exec'[q] = exec[q] \/ Progress(q)'
      <4>1. /\ exec'[p] = Resting /\ Resting.pc = "idle"
            /\ \A r \in Executors \ {p} : exec'[r] = exec[r]
        BY <3>1, RestingFields DEF Typed, Shape
      <4> QED BY <4>1 DEF Progress
    <3> QED BY <1>2, <3>1 DEF Crash
  <2> QED BY <2>1, <2>2, RunQuiet
<1> QED BY <1>1, <1>2, CommandKeepsRun, ExecutorKeepsRun DEF Next

(* With one executor at a time, which may die anywhere and take the job up *)
(* again, a successful completion and the files beside it are those of one *)
(* invocation that wrote a mapping, and no row claims a success without it.*)
THEOREM SpecificationSuccessIsOneRun ==
    ASSUME OneExecutor PROVE Spec => []SuccessIsOneRun
<1>1. ASSUME Typed, RunInv PROVE SuccessIsOneRun
  <2>0. DOMAIN NoFiles = FileNames
    BY DEF NoFiles, FileNames
  <2> SUFFICES ASSUME NEW n \in Attempts
               PROVE  /\ Done(n) =>
                           /\ Mapped(dir[n].completion.run)
                           /\ dir[n].files = [f \in FileNames |->
                                                dir[n].completion.run]
                           /\ Verifies(n)
                      /\ jobs[n] = "SUCCEEDED" => Done(n)
    BY <2>0 DEF SuccessIsOneRun, Done, Mapped
  <2>1. SuccessFits(n) /\ dir[n].files \in [FileNames -> Nat]
    BY <1>1 DEF RunInv, Typed, Shape, JobEntry, Files
  <2> QED BY <2>0, <2>1 DEF SuccessFits, Verifies
<1> QED BY <1>1, InitTyped, InitRun, NextTyped, NextRun, PTL DEF Spec
=============================================================================
