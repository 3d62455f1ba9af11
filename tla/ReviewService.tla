---------------------------- MODULE ReviewService ----------------------------
(***************************************************************************)
(* The service as GitHub and a release campaign meet it, for one accepted  *)
(* revision: the webhook and readiness endpoints of web.py on              *)
(* _ProductionLifecycle of production.py, the reviews of the revision it   *)
(* accepts, the comments and the host's resources they leave, and the      *)
(* lifecycle evidence in the journal.                                      *)
(*                                                                         *)
(* The parts in between are abstracted to what their own modules show:     *)
(* ReviewLifecycle (a revision has one claim, from the preflight to the    *)
(* terminal release), ReviewAttempt (publication after a confirmed         *)
(* cleanup) and Publication (a lost create may land later).  Reviews of    *)
(* other revisions only take the places in which one could run.            *)
(*                                                                         *)
(* Trouble is everything that an idle, healthy service and a working       *)
(* network never do; the other steps are Normal.                           *)
(*                                                                         *)
(* Operators named Faulty... are the mistakes that the properties would    *)
(* catch; no step uses them.                                               *)
(***************************************************************************)
EXTENDS Naturals

CONSTANTS Deliveries,     \* pull_request deliveries with an eligible action, of the revision
          MaxOutages      \* stops and kills of the service (a bound)

ASSUME ServiceAssumption == MaxOutages \in Nat

VARIABLES server,    \* _ProductionLifecycle and the lifecycle in it
          ready,     \* is_ready
          delivery,  \* where GitHub's delivery is
          work,      \* the review an accepted delivery started
          result,    \* its rendered result
          onHost,    \* attempts whose sandbox or workspace is on the host
          comments,  \* owned comments of the revision
          inFlight,  \* creates whose answer was lost
          journal,   \* evidence about the revision, since the cursor
          outages

front == <<server, ready, outages>>
github == <<comments, inFlight>>
serviceVars == <<front, delivery, work, result, onHost, github, journal>>

(* What a review may say: the defect that is there, or not.      *)
Bodies == {"grounded", "missed"}
Dispositions == {"created", "updated", "already_current", "reconciled"}
Live == {"accepted", "reviewing", "cleaned", "creating", "recheck", "failed", "closing",
         "closing_failed"} \cup Dispositions
Events == {"accepted", "cleanup", "publication", "succeeded", "failed"}

Claimed == {"preflight", "clear"}

Held == {d \in Deliveries : delivery[d] \in Claimed \/ work[d] \in Live}

ServiceInit ==
  /\ server = "down"
  /\ ready = FALSE
  /\ delivery = [d \in Deliveries |-> "unsent"]
  /\ work = [d \in Deliveries |-> "none"]
  /\ result = [d \in Deliveries |-> "missed"]
  /\ onHost = {}
  /\ comments = {}
  /\ inFlight = {}
  /\ journal = [d \in Deliveries |-> {}]
  /\ outages = 0

\* emit_lifecycle_evidence
Emit(d, events) == journal' = [journal EXCEPT ![d] = @ \cup events]

-----------------------------------------------------------------------------
(* The lifespan of the application.                                        *)

\* readiness is reported before the stale resources are gone
FaultyStart ==
  /\ server = "down"
  /\ server' = "serving"
  /\ ready' = TRUE
  /\ UNCHANGED <<delivery, work, result, onHost, github, journal, outages>>

(* lifespan and _ProductionLifecycle.__aenter__: check, sweep, assemble,   *)
(* enter and only then ready, with no suspension in between.               *)
Start ==
  /\ server = "down"
  /\ onHost' = {}
  /\ server' = "serving"
  /\ ready' = TRUE
  /\ UNCHANGED <<delivery, work, result, github, journal, outages>>

\* any step of it raises; the sweep may have removed some resources
StartFails ==
  /\ server = "down"
  /\ onHost' \in SUBSET onHost
  /\ UNCHANGED <<front, delivery, work, result, github, journal>>

\* the lifespan ends: not ready, then no admission, then the drain
Stop ==
  /\ server = "serving"
  /\ outages < MaxOutages
  /\ outages' = outages + 1
  /\ server' = "draining"
  /\ ready' = FALSE
  /\ UNCHANGED <<delivery, work, result, onHost, github, journal>>

\* the drain waits for the reviews and not for the preflights
FaultyDrained ==
  /\ server = "draining"
  /\ \A d \in Deliveries : work[d] \notin Live
  /\ server' = "down"
  /\ UNCHANGED <<ready, outages, delivery, work, result, onHost, github, journal>>

Drained ==
  /\ server = "draining"
  /\ Held = {}
  /\ server' = "down"
  /\ UNCHANGED <<ready, outages, delivery, work, result, onHost, github, journal>>

(* The process is killed.  What its reviews left on the host stays, and a  *)
(* create that was being sent may arrive later.                            *)
Kill ==
  /\ server # "down"
  /\ outages < MaxOutages
  /\ outages' = outages + 1
  /\ server' = "down"
  /\ ready' = FALSE
  /\ delivery' = [d \in Deliveries |-> IF delivery[d] \in Claimed THEN "answered" ELSE delivery[d]]
  /\ work' = [d \in Deliveries |-> IF work[d] \in Live THEN "killed" ELSE work[d]]
  /\ inFlight' \in {inFlight, inFlight \cup {d \in Deliveries : work[d] = "creating"}}
  /\ UNCHANGED <<result, onHost, comments, journal>>

-----------------------------------------------------------------------------
(* The webhook.                                                            *)

Answer(d) == delivery' = [delivery EXCEPT ![d] = "answered"]

Send(d) ==
  /\ delivery[d] = "unsent"
  /\ delivery' = [delivery EXCEPT ![d] = "sent"]
  /\ UNCHANGED <<front, work, result, onHost, github, journal>>

(* The delivery does not arrive, or is answered without a claim: a bad     *)
(* signature or payload (4xx), no admission (503), a claimed revision.     *)
Refused(d) ==
  /\ delivery[d] = "sent"
  /\ Answer(d)
  /\ UNCHANGED <<front, work, result, onHost, github, journal>>

\* a duplicate of a running review is accepted
FaultyClaim(d) ==
  /\ delivery[d] = "sent"
  /\ server = "serving"
  /\ delivery' = [delivery EXCEPT ![d] = "preflight"]
  /\ UNCHANGED <<front, work, result, onHost, github, journal>>

\* _accept_github_webhook, up to the claim in ReviewLifecycle.submit
Claim(d) ==
  /\ delivery[d] = "sent"
  /\ server = "serving"
  /\ Held = {}
  /\ delivery' = [delivery EXCEPT ![d] = "preflight"]
  /\ UNCHANGED <<front, work, result, onHost, github, journal>>

\* a revision with an owned comment is not reviewed again
AlreadyReviewed(d) ==
  /\ delivery[d] = "preflight"
  /\ comments # {}
  /\ Answer(d)
  /\ UNCHANGED <<front, work, result, onHost, github, journal>>

\* not authorized; or the promotion finds no place or a service that stops
Declined(d) ==
  /\ delivery[d] \in Claimed
  /\ Answer(d)
  /\ UNCHANGED <<front, work, result, onHost, github, journal>>

\* the preflight raises, or the attempt identifier: 503 and a normalized failure
PreflightFails(d) ==
  /\ delivery[d] \in Claimed
  /\ Answer(d)
  /\ Emit(d, {"failed"})
  /\ UNCHANGED <<front, work, result, onHost, github>>

\* the preflight met no owned comment
Cleared(d) ==
  /\ delivery[d] = "preflight"
  /\ comments = {}
  /\ delivery' = [delivery EXCEPT ![d] = "clear"]
  /\ UNCHANGED <<front, work, result, onHost, github, journal>>

\* the promotion: 202, with the evidence of the admission
Accept(d) ==
  /\ delivery[d] = "clear"
  /\ server = "serving"
  /\ Answer(d)
  /\ work' = [work EXCEPT ![d] = "accepted"]
  /\ Emit(d, {"accepted"})
  /\ UNCHANGED <<front, result, onHost, github>>

-----------------------------------------------------------------------------
(* The review: ReviewRunner.run and the end of _run.                       *)

Goes(d, w) == work' = [work EXCEPT ![d] = w]

Allocate(d) ==
  /\ work[d] = "accepted"
  /\ Goes(d, "reviewing")
  /\ onHost' = onHost \cup {d}
  /\ UNCHANGED <<front, delivery, result, github, journal>>

\* a result, and the resources confirmed gone
Review(d, body) ==
  /\ work[d] = "reviewing"
  /\ Goes(d, "cleaned")
  /\ result' = [result EXCEPT ![d] = body]
  /\ onHost' = onHost \ {d}
  /\ UNCHANGED <<front, delivery, github, journal>>

\* no result, or a cleanup that could not be confirmed
ReviewFails(d) ==
  /\ work[d] \in {"accepted", "reviewing"}
  /\ Goes(d, "failed")
  /\ onHost' \in {onHost, onHost \ {d}}
  /\ UNCHANGED <<front, delivery, result, github, journal>>

Comment(d, late) == [by |-> d, body |-> result[d], late |-> late]
Single == \E c \in comments : comments = {c}
Current(d) == Single /\ \A c \in comments : c.body = result[d]

\* publish_review_result meets no comment
ScanNone(d) ==
  /\ work[d] = "cleaned"
  /\ comments = {}
  /\ Goes(d, "creating")
  /\ UNCHANGED <<front, delivery, result, onHost, github, journal>>

\* and creates one; a lost create may have landed since
Create(d) ==
  /\ work[d] = "creating"
  /\ comments' = comments \cup {Comment(d, FALSE)}
  /\ Goes(d, "created")
  /\ UNCHANGED <<front, delivery, result, onHost, inFlight, journal>>

Rewrites(d) == comments' = {[c EXCEPT !.body = result[d]] : c \in comments}

(* It meets one that a lost create of an earlier attempt left.  The answer *)
(* of the update may be lost; GitHub has applied it by then, or never does.*)
Update(d) ==
  /\ work[d] = "cleaned"
  /\ Single
  /\ \/ Current(d) /\ Goes(d, "already_current") /\ UNCHANGED comments
     \/ ~Current(d) /\ Goes(d, "updated") /\ Rewrites(d)
     \/ ~Current(d) /\ Goes(d, "recheck") /\ (Rewrites(d) \/ UNCHANGED comments)
  /\ UNCHANGED <<front, delivery, result, onHost, inFlight, journal>>

\* its create is sent and the answer is lost
CreateLost(d) ==
  /\ work[d] = "creating"
  /\ inFlight' = inFlight \cup {d}
  /\ Goes(d, "recheck")
  /\ UNCHANGED <<front, delivery, result, onHost, comments, journal>>

Reconcile(d) ==
  /\ work[d] = "recheck"
  /\ Current(d)
  /\ Goes(d, "reconciled")
  /\ UNCHANGED <<front, delivery, result, onHost, github, journal>>

PublicationFails(d) ==
  /\ work[d] \in {"cleaned", "creating", "recheck"}
  /\ Goes(d, "failed")
  /\ UNCHANGED <<front, delivery, result, onHost, github, journal>>

\* GitHub applies a create whose sender got no answer
Lands ==
  /\ \E d \in inFlight : /\ comments' = comments \cup {Comment(d, work[d] # "recheck")}
                        /\ inFlight' = inFlight \ {d}
  /\ UNCHANGED <<front, delivery, work, result, onHost, journal>>

(* The evidence at the end of run.  A publication follows a confirmed      *)
(* cleanup; otherwise the cleanup may be unconfirmed although the          *)
(* resources are gone, or not required.  The client may fail to close.     *)
RunEnds(d, ended) ==
  /\ \/ ended = "closing" /\ work[d] \in Dispositions
     \/ ended = "closing_failed" /\ work[d] \in Dispositions \cup {"failed"}
  /\ Goes(d, ended)
  /\ \E cleanup \in SUBSET {"cleanup"} :
       /\ cleanup # {} => d \notin onHost
       /\ work[d] \in Dispositions => cleanup # {}
       /\ Emit(d, cleanup \cup IF work[d] \in {"created", "reconciled"}
                               THEN {"publication"} ELSE {})
  /\ UNCHANGED <<front, delivery, result, onHost, github>>

\* the claim is released, and the terminal record says how the run ended
TerminalRelease(d) ==
  /\ work[d] \in {"closing", "closing_failed"}
  /\ Goes(d, IF work[d] = "closing" THEN "succeeded" ELSE "over")
  /\ Emit(d, {IF work[d] = "closing" THEN "succeeded" ELSE "failed"})
  /\ UNCHANGED <<front, delivery, result, onHost, github>>

-----------------------------------------------------------------------------
(* Steps of an idle, healthy service that is sent the delivery d.          *)
Normal(d) ==
  \/ Claim(d) \/ Cleared(d) \/ Accept(d) \/ Allocate(d) \/ Review(d, "grounded")
  \/ ScanNone(d) \/ Create(d) \/ RunEnds(d, "closing") \/ TerminalRelease(d)

Trouble ==
  \/ StartFails \/ Stop \/ Drained \/ Kill \/ Lands
  \/ \E d \in Deliveries :
       \/ Refused(d) \/ AlreadyReviewed(d) \/ Declined(d) \/ PreflightFails(d)
       \/ ReviewFails(d) \/ Review(d, "missed") \/ Update(d) \/ CreateLost(d)
       \/ Reconcile(d) \/ PublicationFails(d) \/ RunEnds(d, "closing_failed")

(* Type invariant of the service, GitHub's comments and the journal.       *)
ServiceTypeOK ==
  /\ server \in {"down", "serving", "draining"}
  /\ ready \in BOOLEAN
  /\ delivery \in [Deliveries -> {"unsent", "sent", "answered"} \cup Claimed]
  /\ work \in [Deliveries -> Live \cup {"none", "killed", "over", "succeeded"}]
  /\ result \in [Deliveries -> Bodies]
  /\ onHost \subseteq Deliveries
  /\ comments \subseteq [by : Deliveries, body : Bodies, late : BOOLEAN]
  /\ inFlight \subseteq Deliveries
  /\ journal \in [Deliveries -> SUBSET Events]
  /\ outages \in 0..MaxOutages

(* A probe of the readiness endpoint and the admission never disagree: the *)
(* service answers ready only while it admits, and from the first moment   *)
(* it does, nothing of a killed predecessor is left on the host.           *)
ReadyMeansAdmitting ==
  /\ ready <=> server = "serving"
  /\ ready => \A d \in onHost : work[d] # "killed"

(* What a delivery has of the revision's claim, in RevisionClaims, the     *)
(* contract that ReviewLifecycle obeys too.                                *)
Holds(d) ==
  IF delivery[d] \in {"unsent", "sent"} THEN "new"
    ELSE IF delivery[d] \in Claimed THEN "PREFLIGHT"
           ELSE IF work[d] \in Live THEN "RUNNING" ELSE "done"

AdmissionState == [down |-> "closed", serving |-> "open", draining |-> "draining"]

Claiming == INSTANCE RevisionClaims WITH
  Revision <- [d \in Deliveries |-> "the revision"],
  admission <- AdmissionState[server], holds <- [d \in Deliveries |-> Holds(d)]

(* Restarts, drains and kills included, no delivery claims, promotes or    *)
(* drains in a way RevisionClaims does not allow.                          *)
ImplementsClaims == Claiming!CSpec

(* A review in ReviewTransactions, the contract that ReviewAttempt obeys   *)
(* too.                                                                    *)
Phase(d) ==
  CASE work[d] \in {"none", "accepted"} -> "waiting"
    [] work[d] = "reviewing" -> "working"
    [] work[d] \in {"cleaned", "creating", "recheck"} -> "publishing"
    [] work[d] \in Dispositions -> "published"
    [] work[d] = "failed" -> "failed"
    [] work[d] \in {"closing", "succeeded"} -> "returned"
    [] work[d] \in {"closing_failed", "over"} -> "raised"
    [] work[d] = "killed" -> "killed"

Transacting == INSTANCE ReviewTransactions WITH
  Attempts <- Deliveries, up <- server # "down",
  phase <- [d \in Deliveries |-> Phase(d)], resources <- onHost,
  posted <- {c.by : c \in comments} \cup inFlight,
  records <- [d \in Deliveries |-> journal[d] \cap {"cleanup", "publication"}]

(* No review publishes, ends or is recorded in a way ReviewTransactions    *)
(* does not allow, whatever becomes of its creates and of the service.     *)
ImplementsTransactions == Transacting!TSpec
=============================================================================
