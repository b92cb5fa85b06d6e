--------------------------- MODULE BoundedRepair ---------------------------
(***************************************************************************)
(* What the generation of a specification promises: candidates are judged  *)
(* one after the other, each only after all before it were found invalid;  *)
(* one valid candidate is accepted, for good; and giving up takes a        *)
(* verdict on every one of them.                                           *)
(***************************************************************************)
EXTENDS Naturals

CONSTANT MaxAttempts

VARIABLES
    judged,     \* the verdict on each candidate
    accepted,   \* the candidate that was accepted; 0: none
    givenUp

vars == <<judged, accepted, givenUp>>

Candidates == 1..MaxAttempts

Init ==
    /\ judged = [n \in Candidates |-> "NONE"]
    /\ accepted = 0
    /\ givenUp = FALSE

\* A valid candidate may be drafted and judged anew until it is accepted.
Judge(n) ==
    /\ accepted = 0
    /\ \A k \in 1..(n - 1) : judged[k] = "INVALID"
    /\ judged[n] # "INVALID"
    /\ \E verdict \in {"VALID", "INVALID"} :
         judged' = [judged EXCEPT ![n] = verdict]
    /\ UNCHANGED <<accepted, givenUp>>

Accept(n) ==
    /\ accepted = 0 /\ ~givenUp
    /\ judged[n] = "VALID"
    /\ accepted' = n
    /\ UNCHANGED <<judged, givenUp>>

GiveUp ==
    /\ \A n \in Candidates : judged[n] = "INVALID"
    /\ givenUp' = TRUE
    /\ UNCHANGED <<judged, accepted>>

Next == (\E n \in Candidates : Judge(n) \/ Accept(n)) \/ GiveUp

Spec == Init /\ [][Next]_vars
=============================================================================
