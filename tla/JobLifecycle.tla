----------------------------- MODULE JobLifecycle -----------------------------
(***************************************************************************)
(* What a run's implementation attempts promise whatever the files are in  *)
(* between: they are numbered as they open, one is open at a time, only an *)
(* interrupted or timed-out one is replaced, and a closed one stays closed *)
(* except that a completion is ingested.                                   *)
(***************************************************************************)
EXTENDS Naturals

CONSTANT MaxJobs

VARIABLE attempts

Jobs == 1..MaxJobs

Opened == {j \in Jobs : attempts[j] # "NONE"}

Init == attempts = [j \in Jobs |-> "NONE"]

\* Only the newest attempt is replaced.
Open(j) ==
    /\ \A k \in Opened : k < j
    /\ \A k \in Opened : attempts[k] \in {"INTERRUPTED", "TIMED_OUT"}
    /\ attempts' = [attempts EXCEPT ![j] = "WAITING_EXTERNAL_CODEX"]

Begin(j) ==
    /\ attempts[j] = "WAITING_EXTERNAL_CODEX"
    /\ attempts' = [attempts EXCEPT ![j] = "RUNNING"]

Close(j) ==
    /\ attempts[j] = "RUNNING"
    /\ \E status \in {"COMPLETED", "FAILED", "TIMED_OUT", "INTERRUPTED",
                      "ABORTED_BY_USER"} :
         attempts' = [attempts EXCEPT ![j] = status]

Ingest(j) ==
    /\ attempts[j] \in {"RUNNING", "COMPLETED"}
    /\ attempts' = [attempts EXCEPT ![j] = "INGESTED"]

Next == \E j \in Jobs : Open(j) \/ Begin(j) \/ Close(j) \/ Ingest(j)

Spec == Init /\ [][Next]_attempts
=============================================================================
