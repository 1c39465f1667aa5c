------------------------------ MODULE MCCampaign ------------------------------
(***************************************************************************)
(* Small instances of Campaign.                                            *)
(***************************************************************************)
EXTENDS Campaign, TLC

CONSTANTS c1, c2, w1, w2

OneRow == {c1}
TwoRows == {c1, c2}
OneWorker == {w1}
TwoWorkers == {w1, w2}

Starts == {"start"}
AllRequests == {"start", "pause", "resume"}

CampaignSymmetry == Permutations(Rows) \cup Permutations(Workers)
=============================================================================
