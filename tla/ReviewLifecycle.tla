--------------------------- MODULE ReviewLifecycle ---------------------------
(***************************************************************************)
(* The in-process admission of reviews: class ReviewLifecycle of           *)
(* lifecycle.py, as the event loop runs it, with the worker threads that   *)
(* asyncio.to_thread starts for it.                                        *)
(*                                                                         *)
(* One action is what the event loop runs between two suspensions.  The    *)
(* condition's lock is never held across a suspension, so a section under  *)
(* it is part of the step it is in.  submit suspends only while it waits   *)
(* for its preflight; that is where a cancellation reaches it.             *)
(*                                                                         *)
(* Operators named Faulty... are variants of the step that follows them,   *)
(* with a mistake in it; no specification uses them.                       *)
(***************************************************************************)
EXTENDS Naturals, FiniteSets

CONSTANTS Calls,                 \* calls of submit, one per webhook delivery
          Revisions,             \* accepted revisions
          Identity,              \* Identity[c]: AcceptedRevision of call c's request
          MaxConcurrentReviews,  \* max_concurrent_reviews
          Workers,               \* threads of the event loop's default executor
          RepeatedCancellation   \* may a call be cancelled a second time?

ASSUME LifecycleAssumption ==
  /\ Identity \in [Calls -> Revisions]
  /\ MaxConcurrentReviews \in Nat \ {0}
  /\ Workers \in Nat \ {0}
  /\ RepeatedCancellation \in BOOLEAN

VARIABLES state,      \* _state
          claims,     \* _claims: the phase of each revision's claim, or "free"
          tasks,      \* _tasks: the calls whose _run task is not finished
          waiter,     \* __aexit__ inside Condition.wait_for
          pc,         \* where each call of submit is
          outcome,    \* what it answered
          preflight,  \* the thread that runs runner.preflight for the call
          review      \* the thread that runs runner.run for the call

callVars == <<pc, outcome>>
vars == <<state, claims, tasks, waiter, pc, outcome, preflight, review>>

LifecycleState == {"CREATED", "ACCEPTING", "STOPPING", "STOPPED"}
ClaimPhase == {"PREFLIGHT", "RUNNING"}
SubmissionOutcome ==
  {"ACCEPTED", "ALREADY_RUNNING", "ALREADY_REVIEWED", "NOT_AUTHORIZED",
   "AT_CAPACITY", "STOPPING", "UNAVAILABLE"}
\* what runner.preflight ends with: a PreflightOutcome or an exception
PreflightResult == {"READY", "ALREADY_REVIEWED", "NOT_AUTHORIZED", "raised"}
\* a thread of the executor: not submitted, in its queue, running
ThreadState == {"none", "queued", "running"}

(* "shielded": at the shield.  "draining": cancelled, at the bare await of *)
(* the preflight task.  "abandoning": that await was cancelled as well.    *)
Waiting == {"shielded", "draining", "abandoning"}

-----------------------------------------------------------------------------
Init ==
  /\ state = "CREATED"
  /\ claims = [r \in Revisions |-> "free"]
  /\ tasks = {}
  /\ waiter = "none"
  /\ pc = [c \in Calls |-> "new"]
  /\ outcome = [c \in Calls |-> "none"]
  /\ preflight = [c \in Calls |-> "none"]
  /\ review = [c \in Calls |-> "none"]

FaultyNotifyAll == UNCHANGED waiter

(* notify_all: the one possible waiter is __aexit__.                       *)
NotifyAll == waiter' = IF waiter = "waiting" THEN "woken" ELSE waiter

(* _release_claim, and the same two statements written out elsewhere: the  *)
(* claim is found by its identity, not by the call that made it.           *)
ReleaseClaim(c) ==
  /\ claims' = [claims EXCEPT ![Identity[c]] = "free"]
  /\ NotifyAll

Answer(c, o) ==
  /\ pc' = [pc EXCEPT ![c] = "returned"]
  /\ outcome' = [outcome EXCEPT ![c] = o]

RunningClaims == {r \in Revisions : claims[r] = "RUNNING"}
Idle == (\A r \in Revisions : claims[r] = "free") /\ tasks = {}
BusyWorkers ==
  Cardinality({c \in Calls : preflight[c] = "running"})
    + Cardinality({c \in Calls : review[c] = "running"})

-----------------------------------------------------------------------------
\* __aenter__
Enter ==
  /\ state = "CREATED"
  /\ state' = "ACCEPTING"
  /\ UNCHANGED <<claims, tasks, waiter, callVars, preflight, review>>

\* __aexit__ up to its first suspension: wait_for tests before it waits
Exit ==
  /\ state = "ACCEPTING"
  /\ state' = IF Idle THEN "STOPPED" ELSE "STOPPING"
  /\ waiter' = IF Idle THEN waiter ELSE "waiting"
  /\ UNCHANGED <<claims, tasks, callVars, preflight, review>>

\* a bare wait instead of wait_for
FaultyExitWakes ==
  /\ waiter = "woken"
  /\ state' = "STOPPED"
  /\ waiter' = "none"
  /\ UNCHANGED <<claims, tasks, callVars, preflight, review>>

\* __aexit__ after a notification: wait_for tests again
ExitWakes ==
  /\ waiter = "woken"
  /\ state' = IF Idle THEN "STOPPED" ELSE state
  /\ waiter' = IF Idle THEN "none" ELSE "waiting"
  /\ UNCHANGED <<claims, tasks, callVars, preflight, review>>

-----------------------------------------------------------------------------
\* submit up to its first suspension: refuse, or claim and start a preflight
SubmitStopping(c) ==
  /\ pc[c] = "new"
  /\ state # "ACCEPTING"
  /\ Answer(c, "STOPPING")
  /\ UNCHANGED <<state, claims, tasks, waiter, preflight, review>>

SubmitDuplicate(c) ==
  /\ pc[c] = "new"
  /\ state = "ACCEPTING"
  /\ claims[Identity[c]] # "free"
  /\ Answer(c, "ALREADY_RUNNING")
  /\ UNCHANGED <<state, claims, tasks, waiter, preflight, review>>

SubmitClaims(c) ==
  /\ pc[c] = "new"
  /\ state = "ACCEPTING"
  /\ claims[Identity[c]] = "free"
  /\ claims' = [claims EXCEPT ![Identity[c]] = "PREFLIGHT"]
  /\ pc' = [pc EXCEPT ![c] = "shielded"]
  /\ preflight' = [preflight EXCEPT ![c] = "queued"]
  /\ UNCHANGED <<state, tasks, waiter, outcome, review>>

PreflightStarts(c) ==
  /\ preflight[c] = "queued"
  /\ BusyWorkers < Workers
  /\ preflight' = [preflight EXCEPT ![c] = "running"]
  /\ UNCHANGED <<state, claims, tasks, waiter, callVars, review>>

PreflightReturns(c) ==
  /\ preflight[c] = "running"
  /\ \E result \in PreflightResult : preflight' = [preflight EXCEPT ![c] = result]
  /\ UNCHANGED <<state, claims, tasks, waiter, callVars, review>>

-----------------------------------------------------------------------------
(* submit resumed with its preflight's result, through its return.         *)

Resumes(c) == pc[c] = "shielded" /\ preflight[c] \in PreflightResult

\* an early return that forgets the claim
FaultyDeclinesKeeping(c) ==
  /\ Resumes(c)
  /\ preflight[c] # "READY"
  /\ Answer(c, IF preflight[c] = "raised" THEN "UNAVAILABLE" ELSE preflight[c])
  /\ UNCHANGED <<state, claims, waiter, tasks, preflight, review>>

\* a preflight that is not READY releases the claim and names the outcome
Declines(c) ==
  /\ Resumes(c)
  /\ preflight[c] # "READY"
  /\ ReleaseClaim(c)
  /\ Answer(c, IF preflight[c] = "raised" THEN "UNAVAILABLE" ELSE preflight[c])
  /\ UNCHANGED <<state, tasks, preflight, review>>

\* the attempt identifier cannot be made
AttemptIdFails(c) ==
  /\ Resumes(c)
  /\ preflight[c] = "READY"
  /\ ReleaseClaim(c)
  /\ Answer(c, "UNAVAILABLE")
  /\ UNCHANGED <<state, tasks, preflight, review>>

PromotionStopping(c) ==
  /\ Resumes(c)
  /\ preflight[c] = "READY"
  /\ state # "ACCEPTING"
  /\ ReleaseClaim(c)
  /\ Answer(c, "STOPPING")
  /\ UNCHANGED <<state, tasks, preflight, review>>

PromotionAtCapacity(c) ==
  /\ Resumes(c)
  /\ preflight[c] = "READY"
  /\ state = "ACCEPTING"
  /\ Cardinality(RunningClaims) >= MaxConcurrentReviews
  /\ ReleaseClaim(c)
  /\ Answer(c, "AT_CAPACITY")
  /\ UNCHANGED <<state, tasks, preflight, review>>

FaultyPromoteWhen(c, allowed) ==
  /\ Resumes(c)
  /\ preflight[c] = "READY"
  /\ allowed
  /\ claims' = [claims EXCEPT ![Identity[c]] = "RUNNING"]
  /\ tasks' = tasks \cup {c}
  /\ review' = [review EXCEPT ![c] = "queued"]
  /\ Answer(c, "ACCEPTED")
  /\ UNCHANGED <<state, waiter, preflight>>

\* off by one
FaultyPromoteFull(c) ==
  FaultyPromoteWhen(c, /\ state = "ACCEPTING"
                       /\ Cardinality(RunningClaims) <= MaxConcurrentReviews)

\* the state is not looked at again after the preflight
FaultyPromoteLate(c) ==
  FaultyPromoteWhen(c, Cardinality(RunningClaims) < MaxConcurrentReviews)

\* the claim becomes RUNNING and its task is created, in one section
Promote(c) ==
  /\ Resumes(c)
  /\ preflight[c] = "READY"
  /\ state = "ACCEPTING"
  /\ Cardinality(RunningClaims) < MaxConcurrentReviews
  /\ claims' = [claims EXCEPT ![Identity[c]] = "RUNNING"]
  /\ tasks' = tasks \cup {c}
  /\ review' = [review EXCEPT ![c] = "queued"]
  /\ Answer(c, "ACCEPTED")
  /\ UNCHANGED <<state, waiter, preflight>>

-----------------------------------------------------------------------------
\* the claim is released at once
FaultyCancel(c) ==
  /\ pc[c] = "shielded"
  /\ pc' = [pc EXCEPT ![c] = "draining"]
  /\ ReleaseClaim(c)
  /\ UNCHANGED <<state, tasks, outcome, preflight, review>>

(* The shield keeps a first cancellation from the preflight task, and the  *)
(* call goes on to await that task.                                        *)
Cancel(c) ==
  /\ pc[c] = "shielded"
  /\ pc' = [pc EXCEPT ![c] = "draining"]
  /\ UNCHANGED <<state, claims, tasks, waiter, outcome, preflight, review>>

\* the preflight is cancelled, and the call goes on waiting for it
FaultyCancelAgain(c) ==
  /\ RepeatedCancellation
  /\ pc[c] = "draining"
  /\ preflight' = [preflight EXCEPT ![c] = IF @ = "queued" THEN "none" ELSE @]
  /\ UNCHANGED <<state, claims, tasks, waiter, callVars, review>>

(* A second one finds no shield: the task is cancelled.  Work still in the *)
(* executor's queue is withdrawn; a running thread is not stopped.         *)
CancelAgain(c) ==
  /\ RepeatedCancellation
  /\ pc[c] = "draining"
  /\ pc' = [pc EXCEPT ![c] = "abandoning"]
  /\ preflight' = [preflight EXCEPT ![c] = IF @ = "queued" THEN "none" ELSE @]
  /\ UNCHANGED <<state, claims, tasks, waiter, outcome, review>>

\* a cancelled call does not wait for its preflight
FaultyCancelled(c) ==
  /\ pc[c] \in {"draining", "abandoning"}
  /\ ReleaseClaim(c)
  /\ Answer(c, "cancelled")
  /\ UNCHANGED <<state, tasks, preflight, review>>

\* CancelledError leaves _preflight, and submit releases the claim
Cancelled(c) ==
  /\ \/ pc[c] = "draining" /\ preflight[c] \in PreflightResult
     \/ pc[c] = "abandoning"
  /\ ReleaseClaim(c)
  /\ Answer(c, "cancelled")
  /\ UNCHANGED <<state, tasks, preflight, review>>

-----------------------------------------------------------------------------
ReviewStarts(c) ==
  /\ review[c] = "queued"
  /\ BusyWorkers < Workers
  /\ review' = [review EXCEPT ![c] = "running"]
  /\ UNCHANGED <<state, claims, tasks, waiter, callVars, preflight>>

\* runner.run returns or raises; _run goes on in the same way after both
ReviewReturns(c) ==
  /\ review[c] = "running"
  /\ review' = [review EXCEPT ![c] = "returned"]
  /\ UNCHANGED <<state, claims, tasks, waiter, callVars, preflight>>

\* the task does not wait for its thread
FaultyTerminalRelease(c) ==
  /\ c \in tasks
  /\ ReleaseClaim(c)
  /\ tasks' = tasks \ {c}
  /\ UNCHANGED <<state, callVars, preflight, review>>

\* the finally clause of _run
TerminalRelease(c) ==
  /\ c \in tasks
  /\ review[c] = "returned"
  /\ ReleaseClaim(c)
  /\ tasks' = tasks \ {c}
  /\ UNCHANGED <<state, callVars, preflight, review>>

-----------------------------------------------------------------------------
Step(c) ==
  \/ SubmitStopping(c) \/ SubmitDuplicate(c) \/ SubmitClaims(c)
  \/ PreflightStarts(c) \/ PreflightReturns(c)
  \/ Declines(c) \/ AttemptIdFails(c)
  \/ PromotionStopping(c) \/ PromotionAtCapacity(c) \/ Promote(c)
  \/ Cancel(c) \/ CancelAgain(c) \/ Cancelled(c)
  \/ ReviewStarts(c) \/ ReviewReturns(c) \/ TerminalRelease(c)

Next == Enter \/ Exit \/ ExitWakes \/ \E c \in Calls : Step(c)

Spec == Init /\ [][Next]_vars

Resume(c) ==
  \/ Declines(c) \/ AttemptIdFails(c)
  \/ PromotionStopping(c) \/ PromotionAtCapacity(c) \/ Promote(c)

(* The event loop runs what is ready, the executor runs what is queued,    *)
(* and the runner returns.  Deliveries, cancellations and the shutdown may *)
(* come or not.                                                            *)
Fairness ==
  /\ WF_vars(ExitWakes)
  /\ \A c \in Calls :
       /\ WF_vars(PreflightStarts(c)) /\ WF_vars(PreflightReturns(c))
       /\ WF_vars(Resume(c)) /\ WF_vars(Cancelled(c))
       /\ WF_vars(ReviewStarts(c)) /\ WF_vars(ReviewReturns(c))
       /\ WF_vars(TerminalRelease(c))

FairSpec == Spec /\ Fairness

-----------------------------------------------------------------------------
(* Type invariant of the lifecycle's state and of the calls it serves.     *)
TypeOK ==
  /\ state \in LifecycleState
  /\ claims \in [Revisions -> ClaimPhase \cup {"free"}]
  /\ tasks \subseteq Calls
  /\ waiter \in {"none", "waiting", "woken"}
  /\ pc \in [Calls -> Waiting \cup {"new", "returned"}]
  /\ outcome \in [Calls -> SubmissionOutcome \cup {"none", "cancelled"}]
  /\ preflight \in [Calls -> ThreadState \cup PreflightResult]
  /\ review \in [Calls -> ThreadState \cup {"returned"}]

Live == {"queued", "running"}
LiveReviews == {c \in Calls : review[c] \in Live}
LivePreflights == {c \in Calls : preflight[c] \in Live}
Reviewed == {Identity[c] : c \in LiveReviews}

(* However calls, cancellations and terminal releases interleave, the      *)
(* threads that execute reviews never outnumber max_concurrent_reviews:    *)
(* the count of claims that guards a promotion counts real threads.        *)
CapacityRespected == Cardinality(LiveReviews) <= MaxConcurrentReviews

(* No two threads ever review the same revision, though a claim is freed   *)
(* by its identity and a redelivery may arrive at any moment.              *)
OneReviewPerRevision ==
  \A c, d \in LiveReviews : Identity[c] = Identity[d] => c = d

(* Stronger, and the reason a cancelled call still waits for its preflight:*)
(* at any time at most one thread, preflight or review, works on a revision.*)
OneThreadPerRevision ==
  /\ \A c, d \in LiveReviews \cup LivePreflights : Identity[c] = Identity[d] => c = d
  /\ LiveReviews \cap LivePreflights = {}

(* A call owns the claim of its revision while submit is suspended, and    *)
(* after a promotion while its task is not finished.                       *)
Owns(c) == pc[c] \in Waiting \/ c \in tasks

(* Every claim has exactly one owner, in the phase the owner is in: no     *)
(* claim is orphaned (its revision would be a duplicate for ever), and no  *)
(* call can lose its claim to the release of another.                      *)
ClaimsHaveOneOwner ==
  /\ \A c \in Calls : pc[c] \in Waiting => claims[Identity[c]] = "PREFLIGHT"
  /\ \A c \in tasks : claims[Identity[c]] = "RUNNING"
  /\ \A c, d \in Calls : Owns(c) /\ Owns(d) /\ Identity[c] = Identity[d] => c = d
  /\ \A r \in Revisions : claims[r] # "free" => \E c \in Calls : Owns(c) /\ Identity[c] = r

(* __aexit__ returns only after the work it admitted: no thread reviews a  *)
(* stopped service's revision, no task and no claim is left.               *)
StoppedMeansDrained == state = "STOPPED" => Idle /\ LiveReviews = {}

(* With calls cancelled at most once, no preflight outlives the service    *)
(* either.                                                                 *)
StoppedMeansQuiet == state = "STOPPED" => LiveReviews \cup LivePreflights = {}

(* __aexit__ never sleeps while its predicate holds: every removal that    *)
(* can make it true notifies the condition.                                *)
NoLostWakeup ==
  /\ waiter = "waiting" => ~Idle
  /\ state = "STOPPING" <=> waiter # "none"

(* The parts of the inductive invariant that are not properties of their   *)
(* own.  Where a call is, and what its review thread and task are doing:   *)
ReviewsFollowCalls ==
  /\ \A c \in Calls : pc[c] # "returned" => review[c] = "none"
  /\ \A c \in Calls : review[c] \in Live => c \in tasks
  /\ \A c \in tasks : pc[c] = "returned"

\* the number a promotion compares with the capacity
RunningBounded ==
  /\ IsFiniteSet(RunningClaims)
  /\ Cardinality(RunningClaims) <= MaxConcurrentReviews

\* cancelled at most once, a call does not return before its preflight does
PreflightsFollowCalls ==
  ~RepeatedCancellation =>
    \A c \in Calls : /\ pc[c] # "abandoning"
                     /\ preflight[c] \in Live => pc[c] \in {"shielded", "draining"}

(* The inductive invariant the theorems of ReviewLifecycleProofs rest on.  *)
IInv ==
  /\ TypeOK
  /\ ClaimsHaveOneOwner
  /\ ReviewsFollowCalls
  /\ RunningBounded
  /\ NoLostWakeup
  /\ state = "STOPPED" => Idle
  /\ PreflightsFollowCalls

(* Once admission is closed, no revision is claimed and no review starts:  *)
(* the claims and the tasks only shrink.                                   *)
OnlyDrainsWhenClosed ==
  state \in {"STOPPING", "STOPPED"} =>
    /\ tasks' \subseteq tasks
    /\ \A r \in Revisions : claims'[r] = claims[r] \/ claims'[r] = "free"

ClosedAdmissionOnlyDrains == [][OnlyDrainsWhenClosed]_vars

(* A shutdown that began finishes.                                         *)
DrainCompletes == state = "STOPPING" ~> state = "STOPPED"

(* Every delivery gets its answer, whatever becomes of the service.        *)
EveryCallAnswered == \A c \in Calls : (pc[c] \in Waiting) ~> (pc[c] = "returned")

(* No revision stays claimed for ever: it can be reviewed again.           *)
ClaimsAreReleased == \A r \in Revisions : (claims[r] # "free") ~> (claims[r] = "free")

-----------------------------------------------------------------------------
(* The lifecycle implements ReviewAdmission.  A revision is under review   *)
(* while a thread of the executor has its review, not while it is claimed. *)
AdmissionPhase ==
  [CREATED |-> "before", ACCEPTING |-> "open", STOPPING |-> "draining", STOPPED |-> "over"]

Admission == INSTANCE ReviewAdmission WITH
  phase <- AdmissionPhase[state], reviewing <- Reviewed

ImplementsAdmission == Admission!ASpec

(* And RevisionClaims: a call holds the claim of its revision from submit  *)
(* to its answer, or to the terminal release of the task it started.       *)
Holds(c) ==
  IF pc[c] = "new" THEN "new"
    ELSE IF pc[c] \in Waiting THEN "PREFLIGHT"
           ELSE IF c \in tasks THEN "RUNNING" ELSE "done"

AdmissionState ==
  [CREATED |-> "closed", ACCEPTING |-> "open", STOPPING |-> "draining", STOPPED |-> "closed"]

Claiming == INSTANCE RevisionClaims WITH
  Deliveries <- Calls, Revision <- Identity,
  admission <- AdmissionState[state], holds <- [c \in Calls |-> Holds(c)]

(* Admission, claims and drain are those of RevisionClaims, however calls  *)
(* are cancelled and wherever a shutdown meets them.                       *)
ImplementsClaims == Claiming!CSpec
=============================================================================
