-------------------------- MODULE MCReplayDownload --------------------------
(* A session of five units: every set of separate gaps, and nothing or one  *)
(* window already held, so that gaps are cut at either end, in the middle,  *)
(* and away.  The budget is short of the whole session, so that blocks have *)
(* to be split; the hard cap is not.                                        *)
EXTENDS ReplayDownload

MCEvidence ==
    {W \in SUBSET Windows \ {{}} : \A v, w \in W : v # w => v[2] < w[1] \/ w[2] < v[1]}

MCHoldings == {{}} \cup {{w} : w \in Windows}

MCMergeLevels == {0, 1, 3}

\* By length, and with a fee on each request.
MCTariffs == {[w \in Windows |-> w[2] - w[1] + fee] : fee \in {0, 1}}
=============================================================================
