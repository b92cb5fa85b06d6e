--------------------------- MODULE ReplayDownload ---------------------------
(***************************************************************************)
(* Buying the missing market data: databento_replay_repair_downloader.py.  *)
(* A run plans blocks around the windows that are still missing, has them  *)
(* quoted, freezes the plan in a manifest, and downloads each block into a *)
(* .part file that is validated, moved into place and recorded in the      *)
(* manifest and in a progress file.  A run may die before any step; the    *)
(* next one goes on with the plan of the manifest.                         *)
(*                                                                         *)
(* Time is 0..Horizon and a window a pair <<start, end>>, half open; one   *)
(* day, schema and symbol.  A file is "none", "bad" or "good": good is     *)
(* what validate_dbn accepts.  Files are changed by this program only, so  *)
(* that the size and digest of a record, written after its file was moved, *)
(* are those of the file.  What the provider asks for a window may differ  *)
(* from run to run.  --dry-run, which stops before anything is written, is *)
(* left out.                                                               *)
(***************************************************************************)
EXTENDS Integers, Sequences, FiniteSets, SequencesExt

CONSTANTS
    Horizon,          \* the session is 0..Horizon
    Evidence,         \* sets of windows the archive may name as missing
    Holdings,         \* sets of windows that may be held already
    MergeLevels,      \* PRACTICAL_MERGE_LEVELS_SECONDS
    Tariffs,          \* what the provider may ask for each window in a run
    RemainingBudget, HardCap,
    MaxAttempts,      \* MAX_RETRY_ATTEMPTS
    MaxRuns           \* bound on the number of runs

Windows == {w \in (0..Horizon) \X (0..Horizon) : w[1] < w[2]}

Content == {"none", "bad", "good"}

ASSUME ReplayDownloadAssumption ==
    /\ Horizon \in Nat \ {0}
    /\ \A gaps \in Evidence : gaps \subseteq Windows
    /\ \A held \in Holdings : held \subseteq Windows
    /\ MergeLevels \subseteq Nat /\ 0 \in MergeLevels
    /\ Tariffs \subseteq [Windows -> Nat]
    /\ RemainingBudget \in Nat /\ HardCap \in Nat
    /\ MaxAttempts \in Nat \ {0} /\ MaxRuns \in Nat

VARIABLES
    gaps, held,         \* the archive's evidence and the verified artifacts
    saved, recorded, complete,  \* the manifest: plan, requests, status
    listed, allListed,  \* the progress file: completed, status
    target, partial,    \* the files of each request of the plan
    pc, plan, quotes, at, attempt, runs,
    limit,              \* history: what the run's quotes were held against
    issued,             \* history: transfers the run has requested
    received,           \* history: transfers that brought valid data
    deleted             \* history: of these, deleted before the next attempt

manifest == <<saved, recorded, complete>>
progress == <<listed, allListed>>
files == <<target, partial>>
bill == <<quotes, limit>>
bought == <<received, deleted>>
vars == <<gaps, held, manifest, progress, files, pc, plan, at, attempt, runs,
          bill, issued, bought>>

-----------------------------------------------------------------------------
\* The plan

Before(v, w) == v[1] < w[1] \/ (v[1] = w[1] /\ v[2] < w[2])

InOrder(windows) ==
    CHOOSE s \in SetToSeqs(windows) :
      \A i, j \in DOMAIN s : i < j => Before(s[i], s[j])

\* Mutant: what lies after the covered part is lost.
CutOutHead(w, c) ==
    IF c[2] <= w[1] \/ c[1] >= w[2] THEN {w}
    ELSE {v \in {<<w[1], c[1]>>} : v \in Windows}

\* What is left of window w outside of c.
CutOut(w, c) ==
    IF c[2] <= w[1] \/ c[1] >= w[2] THEN {w}
    ELSE {v \in {<<w[1], c[1]>>, <<c[2], w[2]>>} : v \in Windows}

Uncovered(pieces, c) == UNION {CutOut(w, c) : w \in pieces}

\* _subtract_covered, over all windows.
SubtractCovered(windows, covered) ==
    FoldLeft(LAMBDA pieces, c : Uncovered(pieces, c), windows, InOrder(covered))

\* A window at most gap after the last block becomes a part of it.
MergeNext(merged, w, gap) ==
    IF merged = <<>> \/ w[1] - merged[Len(merged)][2] > gap
      THEN Append(merged, w)
      ELSE LET last == merged[Len(merged)]
           IN  [merged EXCEPT ![Len(merged)] =
                  <<last[1], IF w[2] > last[2] THEN w[2] ELSE last[2]>>]

\* _merge_missing
MergeMissing(windows, gap) ==
    FoldLeft(LAMBDA merged, w : MergeNext(merged, w, gap), <<>>, InOrder(windows))

Candidate(level) == MergeMissing(SubtractCovered(gaps, held), level)

\* _quote_requests: each request is quoted, once in a run.
Quoted(requests, tariff) == [i \in DOMAIN requests |-> tariff[requests[i]]]

\* Mutant: a plan is held against the hard cap.
FitsHardCap(level, tariff) ==
    SumFunction(Quoted(Candidate(level), tariff)) <= HardCap

Fits(level, tariff) ==
    SumFunction(Quoted(Candidate(level), tariff)) <= RemainingBudget

\* Levels are tried from the coarsest one, and the first that fits is taken.
Chosen(level, tariff) ==
    /\ Fits(level, tariff)
    /\ \A l \in MergeLevels : l > level => ~Fits(l, tariff)

-----------------------------------------------------------------------------

MaxBlocks == Horizon

Zero == [i \in 1..MaxBlocks |-> 0]

Init ==
    /\ gaps \in Evidence /\ held \in Holdings
    /\ saved = <<>> /\ recorded = {} /\ complete = FALSE
    /\ listed = {} /\ allListed = FALSE
    /\ target = [i \in 1..MaxBlocks |-> "none"]
    /\ partial = [i \in 1..MaxBlocks |-> "none"]
    /\ pc = "idle" /\ plan = <<>> /\ at = 0 /\ attempt = 0 /\ runs = 0
    /\ quotes = <<>> /\ limit = 0 /\ issued = Zero
    /\ received = Zero /\ deleted = Zero

RunBegins ==
    /\ pc \in {"idle", "done"} /\ runs < MaxRuns
    /\ runs' = runs + 1
    /\ UNCHANGED <<gaps, held, manifest, progress, files, at, attempt, bought>>

RunEnds ==
    /\ pc' = "idle"
    /\ UNCHANGED <<plan, bill, issued>>

\* Without a plan in the manifest, the run makes one.  When no candidate fits
\* the budget the run ends.
Choose ==
    /\ RunBegins
    /\ saved = <<>>
    /\ \E tariff \in Tariffs :
         \/ /\ \E level \in MergeLevels :
                 /\ Chosen(level, tariff)
                 /\ plan' = Candidate(level)
                 /\ quotes' = Quoted(Candidate(level), tariff)
            /\ limit' = RemainingBudget /\ issued' = Zero /\ pc' = "save"
         \/ (\A level \in MergeLevels : ~Fits(level, tariff)) /\ RunEnds

TargetVerified(i) == target[i] = "good"

\* Mutant: a .part file is not looked at.
PartialIgnored(i) == FALSE

PartialVerified(i) == partial[i] = "good"

Pending(requests) ==
    {i \in DOMAIN requests : ~TargetVerified(i) /\ ~PartialVerified(i)}

\* _quote_pending: what is still to be bought is quoted anew.
PendingQuoted(requests, tariff) ==
    [i \in Pending(requests) |-> tariff[requests[i]]]

\* A run resumes the plan of the manifest.  What its pending requests are quoted
\* at is held against the hard cap, and not against the remaining budget.
ResumePlan ==
    /\ RunBegins
    /\ saved # <<>>
    /\ \E tariff \in Tariffs :
         IF SumFunction(PendingQuoted(saved, tariff)) <= HardCap
           THEN /\ plan' = saved /\ quotes' = PendingQuoted(saved, tariff)
                /\ limit' = HardCap /\ issued' = Zero /\ pc' = "save"
           ELSE RunEnds

\* The provider gives no quote, whatever the retries: the run ends.
QuoteFails ==
    /\ RunBegins
    /\ IF saved = <<>> THEN Candidate(0) # <<>> ELSE Pending(saved) # {}
    /\ RunEnds

\* The manifest and then the progress file are written before any download.
Save ==
    /\ pc = "save"
    /\ saved' = plan
    /\ pc' = "saveProgress"
    /\ UNCHANGED <<gaps, held, recorded, complete, progress, files, plan, at,
                   attempt, runs,
                   bill, issued, bought>>

SaveProgress ==
    /\ pc = "saveProgress"
    /\ at' = 1 /\ pc' = "loop"
    /\ UNCHANGED <<gaps, held, manifest, progress, files, plan, attempt, runs,
                   bill, issued, bought>>

-----------------------------------------------------------------------------
\* _download

AtRequest == pc = "loop" /\ at \in DOMAIN plan

SkipVerified ==
    /\ AtRequest
    /\ TargetVerified(at) /\ at \in recorded
    /\ at' = at + 1
    /\ UNCHANGED <<gaps, held, manifest, progress, files, pc, plan, attempt,
                   runs,
                   bill, issued, bought>>

\* A verified file that an earlier run moved and did not record.
AdoptVerified ==
    /\ AtRequest
    /\ TargetVerified(at) /\ at \notin recorded
    /\ pc' = "record"
    /\ UNCHANGED <<gaps, held, manifest, progress, files, plan, at, attempt,
                   runs,
                   bill, issued, bought>>

MovePartial ==
    /\ target' = [target EXCEPT ![at] = partial[at]]
    /\ partial' = [partial EXCEPT ![at] = "none"]
    /\ pc' = "record"
    /\ UNCHANGED <<gaps, held, manifest, progress, plan, at, attempt, runs,
                   bill, issued, bought>>

Promote ==
    /\ AtRequest
    /\ ~TargetVerified(at) /\ PartialVerified(at)
    /\ MovePartial

\* A .part file that does not validate is removed, and the request is issued.
BeginDownload ==
    /\ AtRequest
    /\ ~TargetVerified(at) /\ ~PartialVerified(at)
    /\ partial' = [partial EXCEPT ![at] = "none"]
    /\ attempt' = 1 /\ pc' = "fetch"
    /\ issued' = [issued EXCEPT ![at] = @ + 1]
    /\ UNCHANGED <<gaps, held, manifest, progress, target, plan, at, runs,
                   bill, bought>>

Arrives(content) ==
    received' = [received EXCEPT ![at] = IF content = "good" THEN @ + 1 ELSE @]

\* get_range returns; what it wrote need not validate.
Fetch ==
    /\ pc = "fetch"
    /\ \E content \in Content \ {"none"} :
         partial' = [partial EXCEPT ![at] = content] /\ Arrives(content)
    /\ pc' = "fetched"
    /\ UNCHANGED <<gaps, held, manifest, progress, target, plan, at, attempt,
                   runs, bill, issued, deleted>>

MayRetry == attempt < MaxAttempts

\* A transient failure.  Whatever the attempt has written is deleted by the next
\* one, which does not validate it, and the request is issued again.
Retry ==
    /\ pc = "fetch"
    /\ MayRetry
    /\ \E content \in Content :
         /\ Arrives(content)
         /\ deleted' = [deleted EXCEPT ![at] =
                          IF content = "good" THEN @ + 1 ELSE @]
    /\ attempt' = attempt + 1
    /\ issued' = [issued EXCEPT ![at] = @ + 1]
    /\ UNCHANGED <<gaps, held, manifest, progress, files, pc, plan, at, runs,
                   bill>>

\* The last attempt failed, or the failure is permanent: the run ends, and what
\* the transfer has written stays.
GiveUp ==
    /\ pc = "fetch"
    /\ \E content \in Content :
         partial' = [partial EXCEPT ![at] = content] /\ Arrives(content)
    /\ pc' = "idle"
    /\ UNCHANGED <<gaps, held, manifest, progress, target, plan, at, attempt,
                   runs, bill, issued, deleted>>

\* Mutant: any file that was written is taken.
ValidIfWritten(content) == content # "none"

Valid(content) == content = "good"

Place ==
    /\ pc = "fetched"
    /\ Valid(partial[at])
    /\ MovePartial

\* Validation raises: the run ends with the .part file in place.
Refuse ==
    /\ pc = "fetched"
    /\ ~Valid(partial[at])
    /\ pc' = "idle"
    /\ UNCHANGED <<gaps, held, manifest, progress, files, plan, at, attempt,
                   runs,
                   bill, issued, bought>>

Record ==
    /\ pc = "record"
    /\ recorded' = recorded \cup {at}
    /\ pc' = "list"
    /\ UNCHANGED <<gaps, held, saved, complete, progress, files, plan, at,
                   attempt, runs,
                   bill, issued, bought>>

List ==
    /\ pc = "list"
    /\ listed' = listed \cup {at}
    /\ at' = at + 1 /\ pc' = "loop"
    /\ UNCHANGED <<gaps, held, manifest, allListed, files, plan, attempt, runs,
                   bill, issued, bought>>

Finish ==
    /\ pc = "loop" /\ at \notin DOMAIN plan
    /\ complete' = TRUE
    /\ pc' = "finish"
    /\ UNCHANGED <<gaps, held, saved, recorded, progress, files, plan, at,
                   attempt, runs,
                   bill, issued, bought>>

FinishProgress ==
    /\ pc = "finish"
    /\ allListed' = TRUE
    /\ pc' = "done"
    /\ UNCHANGED <<gaps, held, manifest, listed, files, plan, at, attempt, runs,
                   bill, issued, bought>>

\* The process dies; a transfer may leave anything in its .part file.
Crash ==
    /\ pc \notin {"idle", "done"}
    /\ IF pc = "fetch"
         THEN \E content \in Content :
                partial' = [partial EXCEPT ![at] = content] /\ Arrives(content)
         ELSE UNCHANGED <<partial, received>>
    /\ pc' = "idle"
    /\ UNCHANGED <<gaps, held, manifest, progress, target, plan, at, attempt,
                   runs,
                   bill, issued, deleted>>

Next ==
    \/ Choose \/ ResumePlan \/ QuoteFails \/ Save \/ SaveProgress
    \/ SkipVerified \/ AdoptVerified \/ Promote \/ BeginDownload
    \/ Fetch \/ Retry \/ GiveUp \/ Place \/ Refuse \/ Record \/ List
    \/ Finish \/ FinishProgress \/ Crash

Spec == Init /\ [][Next]_vars

-----------------------------------------------------------------------------

\* Every variable of the program and its files.
TypeOK ==
    /\ gaps \in Evidence /\ held \in Holdings
    /\ saved \in Seq(Windows) /\ plan \in Seq(Windows)
    /\ recorded \subseteq DOMAIN saved /\ listed \subseteq DOMAIN saved
    /\ complete \in BOOLEAN /\ allListed \in BOOLEAN
    /\ target \in [1..MaxBlocks -> Content]
    /\ partial \in [1..MaxBlocks -> Content]
    /\ pc \in {"idle", "save", "saveProgress", "loop", "fetch", "fetched",
               "record", "list", "finish", "done"}
    /\ at \in 0..MaxBlocks + 1 /\ attempt \in 0..MaxAttempts /\ runs \in 0..MaxRuns
    /\ DOMAIN quotes \subseteq 1..MaxBlocks /\ quotes \in [DOMAIN quotes -> Nat]
    /\ limit \in {0, RemainingBudget, HardCap}
    /\ issued \in [1..MaxBlocks -> 0..MaxAttempts]
    /\ received \in [1..MaxBlocks -> Nat] /\ deleted \in [1..MaxBlocks -> Nat]

OnDisk(i) == "good" \in {target[i], partial[i]}

\* Valid data that a transfer has brought is there, whatever died since, and is
\* not requested a second time; unless the attempt failed all the same, and the
\* retry of the same run has deleted it without looking at it.
BoughtIsKept ==
    \A i \in 1..MaxBlocks :
      received[i] = deleted[i] + (IF OnDisk(i) THEN 1 ELSE 0)

Issued == {i \in 1..MaxBlocks : issued[i] > 0}

\* What a run requests it has quoted before, and once each its requests cost no
\* more than the limit it was held against: the remaining budget where it made
\* the plan, the hard cap where it resumed one.  Retries included, no request
\* is issued more than MaxAttempts times.
RunWithinLimit ==
    /\ Issued \subseteq DOMAIN quotes
    /\ SumFunctionOnSet(quotes, Issued) <= limit
    /\ \A i \in Issued : issued[i] <= MaxAttempts

\* A run that reports ACQUISITION_COMPLETE has every block of the plan in
\* place, validated and recorded, however many runs it took.
FinishedIsVerified ==
    pc = "done" /\ plan # <<>> =>
      /\ complete /\ plan = saved
      /\ \A i \in DOMAIN plan : target[i] = "good" /\ i \in recorded

Points(w) == w[1]..(w[2] - 1)
Missing ==
    (UNION {Points(w) : w \in gaps}) \ (UNION {Points(w) : w \in held})

\* The frozen plan buys everything that is missing; its blocks do not overlap,
\* and begin and end with something missing.
PlanFillsGaps ==
    saved # <<>> =>
      /\ Missing \subseteq UNION {Points(saved[i]) : i \in DOMAIN saved}
      /\ \A i \in DOMAIN saved : {saved[i][1], saved[i][2] - 1} \subseteq Missing
      /\ \A i, j \in DOMAIN saved : i < j => saved[i][2] < saved[j][1]
=============================================================================
