---------------------------- MODULE MCSignedCampaign ----------------------------
(* The campaign's delivery and another one of the same revision.           *)
EXTENDS SignedCampaign

CONSTANTS reopened, again
=============================================================================
