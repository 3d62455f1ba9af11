------------------------- MODULE MCCampaignFixtures -------------------------
(* Three preparations of one campaign: two operators, one of them twice.   *)
EXTENDS CampaignFixtures, TLC

CONSTANTS p1, p2, p3, here, there

TwoOperators == (p1 :> here) @@ (p2 :> here) @@ (p3 :> there)

SameOperator == Permutations({p1, p2})
=============================================================================
