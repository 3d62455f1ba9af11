SPECIFICATION FairSpec
CONSTANTS
  reopened = reopened
  again = again
  Deliveries = {reopened, again}
  MaxOutages = 2
  Reopened = reopened
INVARIANTS
  IInv
  ReadyMeansAdmitting
  PassedMeansProven
  UntroubledCampaignPasses
PROPERTIES
  CampaignEnds
\* the campaign ended and every delivery was answered
CHECK_DEADLOCK FALSE
