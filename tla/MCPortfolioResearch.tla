------------------------ MODULE MCPortfolioResearch ------------------------
(* Three strategies, of which one may stop being eligible: two candidates, *)
(* or one, in each of two versions.                                        *)
EXTENDS PortfolioResearch

CONSTANTS a, b, c

MCStrategies == {a, b, c}
MCEligibilities == {{a, b}, {a, b, c}}
MCVersions == 1..2

\* A budget for a prop simulation and an ablation that are repeated once.
MCLimits == [candidates |-> 2, scenarios |-> 4, ablation_runs |-> 6]
=============================================================================
