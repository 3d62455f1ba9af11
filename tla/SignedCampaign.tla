---------------------------- MODULE SignedCampaign ----------------------------
(***************************************************************************)
(* run_signed_review_campaign of campaign.py with the evidence gates of    *)
(* live.py, against the service: the campaign closes and reopens a pull    *)
(* request and then polls comments, journal and host until they prove one  *)
(* review, or its time is up.                                              *)
(*                                                                         *)
(* A step is one read or command of the campaign with what it does about   *)
(* the outcome; the service, GitHub and other deliveries come in between.  *)
(*                                                                         *)
(* Operators named Faulty... are variants of the step that follows them,   *)
(* with a mistake in it; no specification uses them.                       *)
(***************************************************************************)
EXTENDS ReviewService

CONSTANT Reopened   \* the delivery of the campaign's own reopened event

ASSUME CampaignAssumption == Reopened \in Deliveries

VARIABLES step,       \* where the campaign is
          verdict,    \* "passed" or the stage of its CampaignError
          evidence,   \* the comment it verified and the attempt it found
          prOpen,     \* GitHub: is the pull request open?
          expired,    \* has the campaign's deadline passed?
          troubled    \* did anything happen that an idle, healthy system never does?

campaignVars == <<step, verdict, evidence, prOpen, expired>>
vars == <<serviceVars, campaignVars, troubled>>

Polling == {"poll", "verify", "journal", "resources", "sleep"}
Steps == {"service", "fresh", "host", "cursor", "close", "reopen", "ended"} \cup Polling
NoComment == [by |-> Reopened, body |-> "missed", late |-> TRUE]

Init ==
  /\ ServiceInit
  /\ step = "service"
  /\ verdict = "none"
  /\ evidence = [comment |-> NoComment, attempt |-> Reopened]
  /\ prOpen = TRUE
  /\ expired = FALSE
  /\ troubled = FALSE

Fail(stage) ==
  /\ step' = "ended"
  /\ verdict' = stage
  /\ UNCHANGED <<evidence, expired>>

Goto(s) ==
  /\ step' = s
  /\ UNCHANGED <<verdict, evidence, expired>>

-----------------------------------------------------------------------------
(* The preconditions, up to the trigger.                                   *)

RequireService ==
  /\ step = "service"
  /\ ready
  /\ Goto("fresh")
  /\ UNCHANGED <<serviceVars, prOpen>>

\* the readiness endpoint answers 503, and curl --fail exits with an error
NotReady ==
  /\ step = "service"
  /\ ~ready
  /\ Fail("host_command")
  /\ UNCHANGED <<serviceVars, prOpen>>

\* require_fresh_live_review
RequireFresh ==
  /\ step = "fresh"
  /\ \/ comments = {} /\ Goto("host")
     \/ comments # {} /\ Fail("precondition")
  /\ UNCHANGED <<serviceVars, prOpen>>

RequireCleanHost ==
  /\ step = "host"
  /\ \/ onHost = {} /\ Goto("cursor")
     \/ onHost # {} /\ Fail("resource_cleanup")
  /\ UNCHANGED <<serviceVars, prOpen>>

\* journal_cursor: records from before it are never read
TakeCursor ==
  /\ step = "cursor"
  /\ journal' = [d \in Deliveries |-> {}]
  /\ Goto("close")
  /\ UNCHANGED <<front, delivery, work, result, onHost, github, prOpen>>

Close ==
  /\ step = "close"
  /\ prOpen' = FALSE
  /\ Goto("reopen")
  /\ UNCHANGED serviceVars

\* gh pr reopen: GitHub delivers the eligible event
Reopen ==
  /\ step = "reopen"
  /\ prOpen' = TRUE
  /\ Send(Reopened)
  /\ Goto("poll")

-----------------------------------------------------------------------------
(* One round of the poll.                                                  *)

Poll ==
  /\ step = "poll"
  /\ \/ comments = {} /\ Goto("sleep")
     \/ Single /\ Goto("verify")
     \/ comments # {} /\ ~Single /\ Fail("comment_evidence")
  /\ UNCHANGED <<serviceVars, prOpen>>

Proves(c) == comments = {c} /\ c.body = "grounded"

\* verify_live_review_evidence, which reads the comments again
Verify ==
  /\ step = "verify"
  /\ \/ /\ \E c \in comments : Proves(c) /\ evidence' = [evidence EXCEPT !.comment = c]
        /\ step' = "journal"
        /\ UNCHANGED <<verdict, expired>>
     \/ /\ \A c \in comments : ~Proves(c)
        /\ Fail("comment_evidence")
  /\ UNCHANGED <<serviceVars, prOpen>>

(* _completed_attempt on the records after the cursor.                     *)
Failed == \E d \in Deliveries : "failed" \in journal[d]
Admitted == {d \in Deliveries : "accepted" \in journal[d]}
SeveralAdmitted == \E d, e \in Admitted : d # e
Complete(d) == {"accepted", "cleanup", "publication", "succeeded"} \subseteq journal[d]

\* a review that has not ended is a failure
FaultyReadJournal ==
  /\ step = "journal"
  /\ \/ /\ \A d \in Deliveries : ~Complete(d)
        /\ Fail("technical_failure")
     \/ /\ \E d \in Deliveries : Complete(d) /\ evidence' = [evidence EXCEPT !.attempt = d]
        /\ step' = "resources"
        /\ UNCHANGED <<verdict, expired>>
  /\ UNCHANGED <<serviceVars, prOpen>>

ReadJournal ==
  /\ step = "journal"
  /\ \/ Failed /\ Fail("technical_failure")
     \/ ~Failed /\ SeveralAdmitted /\ Fail("duplicate_execution")
     \/ /\ ~Failed /\ ~SeveralAdmitted
        /\ \A d \in Deliveries : ~Complete(d)
        /\ Goto("sleep")
     \/ /\ ~Failed /\ ~SeveralAdmitted
        /\ \E d \in Deliveries : Complete(d) /\ evidence' = [evidence EXCEPT !.attempt = d]
        /\ step' = "resources"
        /\ UNCHANGED <<verdict, expired>>
  /\ UNCHANGED <<serviceVars, prOpen>>

CheckResources ==
  /\ step = "resources"
  /\ \/ onHost = {} /\ Fail("passed")
     \/ onHost # {} /\ Fail("resource_cleanup")
  /\ UNCHANGED <<serviceVars, prOpen>>

\* the deadline is not looked at
FaultySleep ==
  /\ step = "sleep"
  /\ Goto("poll")
  /\ UNCHANGED <<serviceVars, prOpen>>

Sleep ==
  /\ step = "sleep"
  /\ IF expired THEN Fail("timeout") ELSE Goto("poll")
  /\ UNCHANGED <<serviceVars, prOpen>>

Expire ==
  /\ step \in Polling
  /\ ~expired
  /\ expired' = TRUE
  /\ UNCHANGED <<serviceVars, step, verdict, evidence, prOpen>>

-----------------------------------------------------------------------------
(* The reads and commands that raise.                                      *)

\* before and during the trigger, at the end, and the second read of comments;
\* a CampaignError of require_installed_service keeps its stage
FailStage ==
  [service |-> "host_command", fresh |-> "precondition", host |-> "resource_inspection",
   cursor |-> "signed_event", verify |-> "input", resources |-> "resource_inspection"]

Raises ==
  /\ step \in DOMAIN FailStage
  /\ Fail(FailStage[step])
  /\ UNCHANGED <<serviceVars, prOpen>>

(* gh fails, before or after GitHub did what it was asked.                 *)
CloseRaises ==
  /\ step = "close"
  /\ prOpen' \in BOOLEAN
  /\ Fail("signed_event")
  /\ UNCHANGED serviceVars

ReopenRaises ==
  /\ step = "reopen"
  /\ Fail("signed_event")
  /\ \/ prOpen' = TRUE /\ Send(Reopened)
     \/ UNCHANGED <<prOpen, serviceVars>>

\* the first read of the comments and the journal are polled again
PollRaises ==
  /\ step \in {"poll", "journal"}
  /\ Goto("sleep")
  /\ UNCHANGED <<serviceVars, prOpen>>

\* comment or journal contain forbidden text, or the journal is too long
RefusalStages == [verify |-> {"comment_evidence"}, journal |-> {"log_evidence", "log_redaction"}]

Redaction ==
  /\ step \in DOMAIN RefusalStages
  /\ \E stage \in RefusalStages[step] : Fail(stage)
  /\ UNCHANGED <<serviceVars, prOpen>>

\* a review of another revision is on the host
OthersOnHost ==
  /\ step \in {"host", "resources"}
  /\ Fail("resource_cleanup")
  /\ UNCHANGED <<serviceVars, prOpen>>

-----------------------------------------------------------------------------
Advance ==
  \/ RequireService \/ RequireFresh \/ RequireCleanHost \/ TakeCursor \/ Close \/ Reopen
  \/ Poll \/ Verify \/ ReadJournal \/ CheckResources \/ Sleep

CampaignTrouble ==
  \/ Expire \/ NotReady \/ Raises \/ CloseRaises \/ ReopenRaises \/ PollRaises \/ Redaction
  \/ OthersOnHost

(* The service starts before the campaign, and other deliveries come at    *)
(* any time, though the campaign asks for an idle service.  What comes     *)
(* after a campaign that failed is not followed.                           *)
Followed == verdict \in {"none", "passed"}

Next ==
  \/ Advance /\ UNCHANGED troubled
  \/ CampaignTrouble /\ troubled' = TRUE
  \/ Followed /\ (Start \/ Normal(Reopened)) /\ UNCHANGED <<campaignVars, troubled>>
  \/ /\ Followed
     /\ \/ Trouble
        \/ \E d \in Deliveries \ {Reopened} : Send(d) \/ Normal(d)
     /\ troubled' = TRUE
     /\ UNCHANGED campaignVars

Spec == Init /\ [][Next]_vars

(* Each command of the campaign has a time-out and the clock goes on.  The *)
(* service and GitHub owe it nothing.                                      *)
Fairness ==
  /\ WF_vars((Advance /\ UNCHANGED troubled) \/ (NotReady /\ troubled' = TRUE))
  /\ WF_vars(Expire /\ troubled' = TRUE)

FairSpec == Spec /\ Fairness

-----------------------------------------------------------------------------
(* Type invariant of the campaign and the system it watches.               *)
TypeOK ==
  /\ ServiceTypeOK
  /\ step \in Steps
  /\ verdict \in {"none", "passed", "host_command", "precondition", "resource_inspection",
                  "resource_cleanup", "signed_event", "comment_evidence",
                  "technical_failure", "duplicate_execution", "log_evidence",
                  "log_redaction", "input", "timeout"}
  /\ evidence \in [comment : [by : Deliveries, body : Bodies, late : BOOLEAN],
                   attempt : Deliveries]
  /\ prOpen \in BOOLEAN /\ expired \in BOOLEAN /\ troubled \in BOOLEAN

-----------------------------------------------------------------------------
(* The inductive invariant.                                                *)

Published == Dispositions \cup {"closing", "succeeded"}
Under(d) == delivery[d] = "clear" \/ work[d] \in Live \cup {"succeeded"}

(* A delivery starts at most one review, under the only claim and for a    *)
(* revision without a comment; a review that succeeded leaves one, and a   *)
(* comment that was not late keeps every other delivery from its review.   *)
OneReview ==
  /\ \A d \in Deliveries : delivery[d] # "answered" => work[d] = "none"
  /\ \A d, e \in Held : d = e
  /\ \A d \in Deliveries : work[d] \in Published => comments # {}
  /\ \A d, e \in Deliveries : work[d] = "succeeded" /\ Under(e) => d = e
  /\ \A c \in comments : ~c.late => \A d \in Deliveries : Under(d) => d = c.by

(* The journal tells the truth.                                            *)
JournalIsTrue ==
  \A d \in Deliveries :
    /\ "accepted" \in journal[d] => work[d] # "none"
    /\ "succeeded" \in journal[d] => work[d] = "succeeded"

(* What a later step of the poll relies on.                                *)
EvidenceHolds ==
  /\ step \in {"journal", "resources"} \/ verdict = "passed" =>
       /\ evidence.comment.body = "grounded"
       /\ \E c \in comments : c.by = evidence.comment.by
  /\ step = "resources" \/ verdict = "passed" =>
       /\ Complete(evidence.attempt)
       /\ Admitted = {evidence.attempt}
  /\ verdict = "passed" => onHost = {}
  /\ ~prOpen => step = "reopen" \/ verdict = "signed_event"
  /\ verdict = "none" <=> step # "ended"

(* Claims, and resources of reviews that run, belong to a process that     *)
(* does; its start has removed what another one left.                      *)
ServiceOwns ==
  /\ ready <=> server = "serving"
  /\ \A d \in Held : server # "down"
  /\ \A d \in onHost : server # "down" => work[d] # "killed"
  /\ \A d \in onHost : work[d] \in {"reviewing", "failed", "closing_failed", "over", "killed"}

Sound ==
  /\ TypeOK
  /\ ServiceOwns
  /\ OneReview
  /\ JournalIsTrue
  /\ EvidenceHolds

(* Without trouble there is one review, the campaign's own, and every      *)
(* record of it says what is on GitHub and on the host.                    *)
Before == {"service", "fresh", "host", "cursor", "close", "reopen"}
Unpublished == {"none", "accepted", "reviewing", "cleaned", "creating"}
OwnComment == [by |-> Reopened, body |-> "grounded", late |-> FALSE]

QuietHost ==
  /\ server # "draining"
  /\ inFlight = {}
  /\ \A d \in Deliveries \ {Reopened} : delivery[d] = "unsent"
  /\ step \in Before => delivery[Reopened] = "unsent"
  /\ work[Reopened] \in Unpublished \cup {"created", "closing", "succeeded"}
  /\ \A d \in onHost : work[d] = "reviewing"
  /\ work[Reopened] \in {"cleaned", "creating"} => result[Reopened] = "grounded"
  /\ comments = IF work[Reopened] \in Unpublished THEN {} ELSE {OwnComment}

QuietEvidence ==
  /\ ~expired
  /\ verdict \in {"none", "passed"}
  /\ step = "verify" => comments # {}
  /\ ~Failed
  /\ work[Reopened] # "none" => "accepted" \in journal[Reopened]
  /\ work[Reopened] \in {"closing", "succeeded"} =>
       {"cleanup", "publication"} \subseteq journal[Reopened]

Quiet == ~troubled => QuietHost /\ QuietEvidence

IInv == Sound /\ Quiet

-----------------------------------------------------------------------------
(* A campaign that passed tells the truth although it read its evidence in *)
(* pieces while reviews, restarts and redeliveries went on: the attempt it *)
(* names was admitted after the trigger, is the only one that was, ran to  *)
(* its end and left nothing on the host; the comment it names is grounded, *)
(* and it is the attempt's own unless a create that GitHub applied late    *)
(* came in between.                                                        *)
PassedMeansProven ==
  verdict = "passed" =>
    /\ Admitted = {evidence.attempt}
    /\ work[evidence.attempt] = "succeeded"
    /\ onHost = {}
    /\ prOpen
    /\ \E c \in comments : c.by = evidence.comment.by
    /\ evidence.comment.body = "grounded"
    /\ evidence.comment.by = evidence.attempt \/ \E c \in comments : c.late

(* And it never fails a release for what it saw half done: it fails only   *)
(* if a command failed, its time was up, the service or GitHub did not do  *)
(* their part, or the service was not idle.                                *)
UntroubledCampaignPasses == step = "ended" /\ ~troubled => verdict = "passed"

(* The campaign ends, whatever the service and GitHub do.                  *)
CampaignEnds == <>(step = "ended")
=============================================================================
