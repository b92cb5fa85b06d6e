------------------------- MODULE PortfolioResearch -------------------------
(***************************************************************************)
(* The research of a portfolio, portfolio/service.py: a specification of   *)
(* some strategies, in one version after another, goes through a command   *)
(* per phase.  A command writes its rows one by one and then the phase;    *)
(* it may die between any two writes, and is repeated.                     *)
(*                                                                         *)
(* One command is at work at a time.  Rows are told apart by the key they  *)
(* are saved under, and have the version of their last writer.  Members,   *)
(* conflict counts, marginal contributions and the journal are left out:   *)
(* nothing that decides reads them.  So are the fixture scenarios that     *)
(* prescribe a classification, a retry of `create`, which finds its        *)
(* specification and does nothing, and run_stress, which is run_ablation   *)
(* with a row per scenario.                                                *)
(***************************************************************************)
EXTENDS Naturals, Sequences, FiniteSets

CONSTANTS
    Strategies,        \* members of every version
    Versions,          \* 1..n, in the order of their creation
    Eligibilities,     \* the sets of strategies eligibility() may let in
    MaximumStrategies, \* budget.maximum_strategies
    Limits,            \* the other limits of the budget
    MaxCrashes         \* bound: deaths of a command

Counters == {"candidates", "scenarios", "ablation_runs"}

ASSUME PortfolioAssumption ==
    /\ IsFiniteSet(Strategies) /\ MaximumStrategies \in Nat
    /\ Versions \subseteq Nat \ {0}
    /\ Limits \in [Counters -> Nat \ {0}]
    /\ Eligibilities \subseteq SUBSET Strategies
    /\ MaxCrashes \in Nat

VARIABLES
    specs,     \* versions with a portfolio_specs row
    runs,      \* versions with a portfolio_runs row, in order of creation
    phase,     \* current_phase of each run
    funded,    \* versions with a portfolio_budgets row
    usage,     \* usage_json of each budget
    rows,      \* the version of the row under each key; 0: no row
    review,    \* the portfolio_final_reviews row of each version
    call,      \* the command at work: next write, version, keys to write
    crashes

registry == <<specs, runs, phase, funded, usage, rows, review>>
vars == <<registry, call, crashes>>

-----------------------------------------------------------------------------
\* generate_candidates: combinations of eligible members, smaller ones first,
\* up to the limit.
Combinations(members) ==
    {c \in SUBSET members : Cardinality(c) \in 2..MaximumStrategies}

Chosen(members) ==
    LET all == Combinations(members) IN
    IF Cardinality(all) <= Limits["candidates"] THEN all
    ELSE CHOOSE cs \in SUBSET all :
           /\ Cardinality(cs) = Limits["candidates"]
           /\ \A c \in cs, d \in all \ cs : Cardinality(c) <= Cardinality(d)

Tables ==
    {"candidates", "signals", "overlap", "correlation", "risk", "prop",
     "ablation"}

\* The record keys of a table: a row per candidate, but one per member that is
\* left out in an ablation.  The version is not part of a key.
Keys(table, cs) ==
    IF table = "ablation" THEN UNION {{<<table, c, s>> : s \in c} : c \in cs}
    ELSE {<<table, c, "all">> : c \in cs}

AllKeys == UNION {Keys(t, Combinations(Strategies)) : t \in Tables}

\* Rows of a version, and the version's candidates.
RowsOf(table, v) == {k \in AllKeys : k[1] = table /\ rows[k] = v}
Candidates(v) == {k[2] : k \in RowsOf("candidates", v)}

Has(table, c, v) == rows[<<table, c, "all">>] = v

\* Specifications are looked up by the newest run.
Newest == IF runs = <<>> THEN 0 ELSE runs[Len(runs)]
Started == runs # <<>>

NoReview == [selected |-> {}, class |-> "NONE"]

Idle == [at |-> "idle", version |-> 0, table |-> "none", todo |-> {}]

Init ==
    /\ specs = {} /\ runs = <<>> /\ funded = {}
    /\ phase = [v \in Versions |-> "NONE"]
    /\ usage = [v \in Versions |-> [c \in Counters |-> 0]]
    /\ rows = [k \in AllKeys |-> 0]
    /\ review = [v \in Versions |-> NoReview]
    /\ call = Idle
    /\ crashes = 0

At(step) == call.at = step
Goto(step) == call' = [call EXCEPT !.at = step]

\* _require_phase, for a command that is about to start.
InPhase(p) == At("idle") /\ Started /\ phase[Newest] = p

-----------------------------------------------------------------------------
\* create: versions are numbered in the order of their creation.

SaveSpec(v) ==
    /\ At("idle") /\ v \notin specs
    /\ \A w \in Versions : w < v => w \in specs
    /\ Strategies \in Eligibilities
    /\ specs' = specs \cup {v}
    /\ call' = [Idle EXCEPT !.at = "run", !.version = v]
    /\ UNCHANGED <<runs, phase, funded, usage, rows, review, crashes>>

SaveRun ==
    /\ At("run")
    /\ runs' = Append(runs, call.version)
    /\ phase' = [phase EXCEPT ![call.version] = "MULTI_STRATEGY_PORTFOLIO"]
    /\ Goto("budget")
    /\ UNCHANGED <<specs, funded, usage, rows, review, crashes>>

SaveBudget ==
    /\ At("budget")
    /\ funded' = funded \cup {call.version}
    /\ call' = Idle
    /\ UNCHANGED <<specs, runs, phase, usage, rows, review, crashes>>

-----------------------------------------------------------------------------
\* The phases

\* _consume
Consume(counter, n) ==
    /\ usage[Newest][counter] + n <= Limits[counter]
    /\ usage' = [usage EXCEPT ![Newest][counter] = @ + n]

\* A command is about to write its rows.
Write(table, keys) ==
    call' = [at |-> "rows", version |-> Newest, table |-> table, todo |-> keys]

GenerateCandidates ==
    /\ InPhase("MULTI_STRATEGY_PORTFOLIO") /\ Newest \in funded
    /\ \E members \in Eligibilities :
         LET cs == Chosen(members) IN
         /\ cs # {}
         /\ Consume("candidates", Cardinality(cs))
         /\ Write("candidates", Keys("candidates", cs))
    /\ UNCHANGED <<specs, runs, phase, funded, rows, review, crashes>>

\* Mutant: streams of any version are kept.
MissingAnyVersion == {c \in Candidates(Newest) : rows[<<"signals", c, "all">>] = 0}

\* Streams that are there are kept.
Missing == {c \in Candidates(Newest) : ~Has("signals", c, Newest)}

MergeSignals ==
    /\ InPhase("PORTFOLIO_SIGNAL_ANALYSIS") /\ Missing # {}
    /\ Write("signals", Keys("signals", Missing))
    /\ UNCHANGED <<registry, crashes>>

\* analyze_overlap and analyze_correlation.
Analyze ==
    /\ InPhase("PORTFOLIO_SIGNAL_ANALYSIS")
    /\ \E t \in {"overlap", "correlation"} : Write(t, Keys(t, Candidates(Newest)))
    /\ UNCHANGED <<registry, crashes>>

RunRisk ==
    /\ InPhase("PORTFOLIO_SIGNAL_ANALYSIS")
    /\ Write("risk", Keys("risk", Candidates(Newest)))
    /\ UNCHANGED <<registry, crashes>>

RunProp ==
    /\ InPhase("PORTFOLIO_RISK_ANALYSIS")
    /\ Consume("scenarios", Cardinality(Candidates(Newest)))
    /\ Write("prop", Keys("prop", Candidates(Newest)))
    /\ UNCHANGED <<specs, runs, phase, funded, rows, review, crashes>>

\* Mutant: rows that are there are taken to be those of this version.
DueAnyVersion(table) ==
    LET ks == Keys(table, Candidates(Newest)) IN
    Cardinality(ks) - Cardinality({k \in ks : rows[k] # 0})

\* The rows that are not there yet; only they are paid for, and all are written.
Due(table) ==
    LET ks == Keys(table, Candidates(Newest)) IN
    Cardinality(ks) - Cardinality(RowsOf(table, Newest))

RunAblation ==
    /\ InPhase("PORTFOLIO_PROP_SIMULATION")
    /\ RowsOf("ablation", Newest) # Keys("ablation", Candidates(Newest))
    /\ Consume("ablation_runs", Due("ablation"))
    /\ Write("ablation", Keys("ablation", Candidates(Newest)))
    /\ UNCHANGED <<specs, runs, phase, funded, rows, review, crashes>>

\* Everything but the candidates and their signals is computed from signals; a
\* command that does not find them raises.
NeedsSignals == {"overlap", "correlation", "risk", "prop", "ablation"}

\* The rows are written in one order.
SaveRow ==
    /\ At("rows") /\ call.todo # {}
    /\ LET k == CHOOSE k \in call.todo : TRUE IN
         IF k[1] \in NeedsSignals /\ ~Has("signals", k[2], call.version)
           THEN call' = Idle /\ UNCHANGED rows
           ELSE /\ rows' = [rows EXCEPT ![k] = call.version]
                /\ call' = [call EXCEPT !.todo = @ \ {k}]
    /\ UNCHANGED <<specs, runs, phase, funded, usage, review, crashes>>

PhaseAfter(table, p) ==
    CASE table = "candidates" -> "PORTFOLIO_SIGNAL_ANALYSIS"
      [] table = "risk" -> "PORTFOLIO_RISK_ANALYSIS"
      [] table = "prop" -> "PORTFOLIO_PROP_SIMULATION"
      [] OTHER -> p

\* Mutant: the phase moves on before its rows are written.
WrittenOrNot == TRUE

Written == call.todo = {}

\* _advance
Advance ==
    /\ At("rows") /\ Written
    /\ phase' = [phase EXCEPT ![call.version] = PhaseAfter(call.table, @)]
    /\ call' = Idle
    /\ UNCHANGED <<specs, runs, funded, usage, rows, review, crashes>>

-----------------------------------------------------------------------------
\* final_review

FinalReview ==
    /\ InPhase("PORTFOLIO_PROP_SIMULATION") /\ review[Newest] = NoReview
    /\ RowsOf("prop", Newest) # {}
    /\ phase' = [phase EXCEPT ![Newest] = "PORTFOLIO_FINAL_REVIEW"]
    /\ call' = [Idle EXCEPT !.at = "review", !.version = Newest]
    /\ UNCHANGED <<specs, runs, funded, usage, rows, review, crashes>>

\* Mutant: a candidate without overlap metrics is not redundant.
ClassesWithoutOverlap(c, v) ==
    {"TURNED_DOWN"} \cup (IF Has("correlation", c, v) THEN {"ACCEPTED"} ELSE {})

\* What a candidate may be classified as.  Whatever is known, its cash flow may
\* be negative.  Without overlap metrics it is redundant, since all of no
\* contributions are small; without a correlation the evidence is insufficient.
Classes(c, v) ==
    {"TURNED_DOWN"}
      \cup (IF Has("overlap", c, v) /\ Has("correlation", c, v)
              THEN {"ACCEPTED"} ELSE {})

\* The candidate with the best prop result is selected.
SaveReview ==
    /\ At("review")
    /\ \E c \in Candidates(call.version) :
         /\ Has("prop", c, call.version)
         /\ \E class \in Classes(c, call.version) :
              review' = [review EXCEPT ![call.version] =
                           [selected |-> c, class |-> class]]
    /\ Goto("complete")
    /\ UNCHANGED <<specs, runs, phase, funded, usage, rows, crashes>>

Complete ==
    /\ At("complete")
    /\ phase' = [phase EXCEPT ![call.version] = "COMPLETE"]
    /\ call' = Idle
    /\ UNCHANGED <<specs, runs, funded, usage, rows, review, crashes>>

-----------------------------------------------------------------------------
Crash ==
    /\ crashes < MaxCrashes /\ ~At("idle")
    /\ crashes' = crashes + 1
    /\ call' = Idle
    /\ UNCHANGED registry

\* A command that was started goes on.
Continue ==
    \/ SaveRun \/ SaveBudget \/ SaveRow \/ Advance \/ SaveReview \/ Complete

Next ==
    \/ \E v \in Versions : SaveSpec(v)
    \/ GenerateCandidates \/ MergeSignals \/ Analyze \/ RunRisk \/ RunProp
    \/ RunAblation \/ FinalReview
    \/ Continue
    \/ Crash

Spec == Init /\ [][Next]_vars

\* The commands are run in their order, again and again: each of those that the
\* next phase waits for gets its turn.
FairSpec ==
    /\ Spec
    /\ WF_vars(Continue)
    /\ SF_vars(GenerateCandidates) /\ SF_vars(MergeSignals)
    /\ SF_vars(RunRisk) /\ SF_vars(RunProp) /\ SF_vars(FinalReview)

-----------------------------------------------------------------------------
\* A phase is reached with all of its evidence, for every candidate there is,
\* though the rows are written one by one, by commands that died and were
\* repeated, and though an earlier version's rows are under the same keys.
Ranked ==
    <<"NONE", "MULTI_STRATEGY_PORTFOLIO", "PORTFOLIO_SIGNAL_ANALYSIS",
      "PORTFOLIO_RISK_ANALYSIS", "PORTFOLIO_PROP_SIMULATION",
      "PORTFOLIO_FINAL_REVIEW", "COMPLETE">>

Reached(v, p) ==
    \E i, j \in DOMAIN Ranked : Ranked[i] = p /\ Ranked[j] = phase[v] /\ i <= j

EvidenceBehindPhase ==
    Started =>
      LET v == Newest IN
        /\ Reached(v, "PORTFOLIO_SIGNAL_ANALYSIS") => Candidates(v) # {}
        /\ \A c \in Candidates(v) :
             /\ Reached(v, "PORTFOLIO_RISK_ANALYSIS") =>
                  Has("signals", c, v) /\ Has("risk", c, v)
             /\ Reached(v, "PORTFOLIO_PROP_SIMULATION") => Has("prop", c, v)
        /\ Reached(v, "COMPLETE") => review[v] # NoReview

\* What a version has on record was paid for, once at least and within the
\* budget, however often its commands were repeated.
CounterOf ==
    [candidates |-> "candidates", prop |-> "scenarios",
     ablation |-> "ablation_runs"]

WorkIsPaid ==
    \A v \in Versions :
      /\ \A t \in DOMAIN CounterOf :
           Cardinality(RowsOf(t, v)) <= usage[v][CounterOf[t]]
      /\ \A c \in Counters : usage[v][c] <= Limits[c]

\* The review is about a candidate that was simulated, and none is accepted
\* whose overlap and correlation nobody looked at: both commands may be left
\* out, or have died half way.
AcceptedOnEvidence ==
    Started /\ review[Newest] # NoReview =>
      LET v == Newest selected == review[Newest].selected IN
        /\ selected \in Candidates(v) /\ Has("prop", selected, v)
        /\ review[v].class = "ACCEPTED" =>
             Has("overlap", selected, v) /\ Has("correlation", selected, v)

\* A portfolio that was created is reviewed, or followed by another version,
\* unless it has no candidates, its budget is used up by repetitions, or its
\* review was cut short, which none of the commands repairs.
CutShort(v) ==
    phase[v] = "PORTFOLIO_FINAL_REVIEW" /\ review[v] = NoReview /\ At("idle")

Unaffordable(v) ==
    \/ /\ phase[v] = "MULTI_STRATEGY_PORTFOLIO"
       /\ \A members \in Eligibilities :
            LET n == Cardinality(Chosen(members)) IN
              n = 0 \/ usage[v]["candidates"] + n > Limits["candidates"]
    \/ /\ phase[v] = "PORTFOLIO_RISK_ANALYSIS"
       /\ usage[v]["scenarios"] + Cardinality(Candidates(v)) > Limits["scenarios"]

EveryPortfolioSettles ==
    \A v \in Versions :
      v \in funded ~>
        \/ review[v] # NoReview \/ Newest # v
        \/ CutShort(v) \/ (At("idle") /\ Unaffordable(v))

\* What the documentation says of reviews: each cites what the registry has.
ReviewKeepsRecords ==
    \A v \in Versions :
      review[v] # NoReview => Has("prop", review[v].selected, v)

\* What the documentation says of interruptions: `status` is safe to use after
\* one, so a specification on record has its run and its budget.
StatusAnswers ==
    At("idle") => \A v \in specs : v \in funded
=============================================================================
