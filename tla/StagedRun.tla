----------------------------- MODULE StagedRun -----------------------------
(***************************************************************************)
(* What a master run promises once its specification is approved: its      *)
(* stages are done in their order, none is undone, and the run finishes    *)
(* only when every one of them is done.  Whatever else happens to the run, *)
(* it may be stopped and taken up again at any time.                       *)
(***************************************************************************)
EXTENDS Naturals, Sequences

CONSTANT Stages    \* the stages of a run, in their order

VARIABLES
    done,       \* the stages done so far
    finished    \* the run claims success

vars == <<done, finished>>

Init == done = {} /\ finished = FALSE

\* The first stage that is not done yet is done.
Do(i) ==
    /\ Stages[i] \notin done
    /\ \A j \in 1..(i - 1) : Stages[j] \in done
    /\ done' = done \cup {Stages[i]}
    /\ finished' = FALSE

Finish ==
    /\ \A i \in DOMAIN Stages : Stages[i] \in done
    /\ finished' = TRUE
    /\ UNCHANGED done

\* A finished run can still be cancelled.
Withdraw ==
    /\ finished' = FALSE
    /\ UNCHANGED done

Next == (\E i \in DOMAIN Stages : Do(i)) \/ Finish \/ Withdraw

Spec == Init /\ [][Next]_vars
=============================================================================
