------------------------ MODULE ReviewLifecycleProofs ------------------------
(***************************************************************************)
(* What ReviewLifecycle guarantees for any calls, revisions, capacity and  *)
(* executor.  IInv is inductive: the lemmas below prove each of its parts  *)
(* over one step, and the theorems read the properties off it.             *)
(***************************************************************************)
EXTENDS ReviewLifecycle, FiniteSetTheorems, TLAPS

(* Five actions end a suspended call in the same way: its claim released,  *)
(* the condition notified, an answer given.                                *)
GivesUp(c) ==
  /\ pc[c] \in {"shielded", "draining", "abandoning"}
  /\ preflight[c] \in Live => pc[c] = "abandoning"
  /\ claims' = [claims EXCEPT ![Identity[c]] = "free"]
  /\ waiter' = IF waiter = "waiting" THEN "woken" ELSE waiter
  /\ pc' = [pc EXCEPT ![c] = "returned"]
  /\ \E o \in SubmissionOutcome \cup {"cancelled"} : outcome' = [outcome EXCEPT ![c] = o]
  /\ UNCHANGED <<state, tasks, preflight, review>>

(* Two actions answer a new call at once.                                  *)
Refuses(c) ==
  /\ pc[c] = "new"
  /\ pc' = [pc EXCEPT ![c] = "returned"]
  /\ \E o \in SubmissionOutcome : outcome' = [outcome EXCEPT ![c] = o]
  /\ UNCHANGED <<state, claims, tasks, waiter, preflight, review>>

(* Three are steps of the executor.                                        *)
PreflightMoves(c) ==
  /\ preflight[c] \in Live
  /\ \E t \in {"running"} \cup PreflightResult : preflight' = [preflight EXCEPT ![c] = t]
  /\ UNCHANGED <<state, claims, tasks, waiter, pc, outcome, review>>

ReviewMoves(c) ==
  /\ review[c] \in Live
  /\ \E t \in {"running", "returned"} : review' = [review EXCEPT ![c] = t]
  /\ UNCHANGED <<state, claims, tasks, waiter, pc, outcome, preflight>>

(* Next by kinds: the window's own steps, and the steps of one call.       *)
LEMMA StepKinds ==
  ASSUME NEW c \in Calls, TypeOK, Step(c)
  PROVE  \/ Refuses(c) \/ SubmitClaims(c) \/ GivesUp(c) \/ Promote(c)
         \/ Cancel(c) \/ CancelAgain(c)
         \/ PreflightMoves(c) \/ ReviewMoves(c) \/ TerminalRelease(c)
<1>1. CASE SubmitStopping(c) \/ SubmitDuplicate(c)
  BY <1>1 DEF SubmitStopping, SubmitDuplicate, Refuses, Answer, SubmissionOutcome
<1>2. CASE PreflightStarts(c) \/ PreflightReturns(c)
  BY <1>2 DEF PreflightStarts, PreflightReturns, PreflightMoves, Live, callVars
<1>3. CASE ReviewStarts(c) \/ ReviewReturns(c)
  BY <1>3 DEF ReviewStarts, ReviewReturns, ReviewMoves, Live, callVars
<1>4. CASE Declines(c)
  <2>1. (IF preflight[c] = "raised" THEN "UNAVAILABLE" ELSE preflight[c]) \in SubmissionOutcome
    BY <1>4 DEF Declines, Resumes, PreflightResult, SubmissionOutcome
  <2>2. preflight[c] \notin Live
    BY <1>4 DEF Declines, Resumes, PreflightResult, Live
  <2>. QED
    BY <1>4, <2>1, <2>2 DEF Declines, Resumes, ReleaseClaim, NotifyAll, Answer, GivesUp
<1>5. CASE AttemptIdFails(c) \/ PromotionStopping(c) \/ PromotionAtCapacity(c)
  BY <1>5 DEF AttemptIdFails, PromotionStopping, PromotionAtCapacity, Resumes,
              ReleaseClaim, NotifyAll, Answer, GivesUp, SubmissionOutcome, Live
<1>6. CASE Cancelled(c)
  BY <1>6 DEF Cancelled, ReleaseClaim, NotifyAll, Answer, GivesUp, PreflightResult, Live
<1>. QED
  BY <1>1, <1>2, <1>3, <1>4, <1>5, <1>6 DEF Step

(* A new lifecycle has no claim, no task and no thread.                    *)
LEMMA InitIInv == Init => IInv
<1>. SUFFICES ASSUME Init PROVE IInv
  OBVIOUS
<1>1. RunningClaims = {}
  BY DEF Init, RunningClaims
<1>2. RunningBounded
  BY <1>1, FS_EmptySet, LifecycleAssumption DEF RunningBounded
<1>. QED
  BY <1>2 DEF Init, IInv, TypeOK, LifecycleState, ClaimPhase, Waiting, SubmissionOutcome,
              ThreadState, PreflightResult, ClaimsHaveOneOwner, Owns, ReviewsFollowCalls,
              Live, NoLostWakeup, Idle, PreflightsFollowCalls

(* Every step keeps state and calls in their types.                        *)
LEMMA TypeStep == TypeOK /\ [Next]_vars => TypeOK'
<1>. SUFFICES ASSUME TypeOK, [Next]_vars PROVE TypeOK'
  OBVIOUS
<1>. USE LifecycleAssumption DEF TypeOK, LifecycleState, ClaimPhase, Waiting,
       SubmissionOutcome, ThreadState, PreflightResult
<1>1. CASE Enter \/ Exit \/ ExitWakes
  BY <1>1 DEF Enter, Exit, ExitWakes, callVars
<1>2. ASSUME NEW c \in Calls, Step(c) PROVE TypeOK'
  <2>1. CASE Refuses(c)
    BY <2>1 DEF Refuses
  <2>2. CASE SubmitClaims(c)
    BY <2>2 DEF SubmitClaims
  <2>3. CASE GivesUp(c)
    BY <2>3 DEF GivesUp
  <2>4. CASE Promote(c)
    BY <2>4 DEF Promote, Answer
  <2>5. CASE Cancel(c) \/ CancelAgain(c)
    BY <2>5 DEF Cancel, CancelAgain
  <2>6. CASE PreflightMoves(c)
    BY <2>6 DEF PreflightMoves
  <2>7. CASE ReviewMoves(c)
    BY <2>7 DEF ReviewMoves
  <2>8. CASE TerminalRelease(c)
    BY <2>8 DEF TerminalRelease, ReleaseClaim, NotifyAll, callVars
  <2>. QED
    BY <1>2, <2>1, <2>2, <2>3, <2>4, <2>5, <2>6, <2>7, <2>8, StepKinds
<1>3. CASE UNCHANGED vars
  BY <1>3 DEF vars, callVars
<1>. QED
  BY <1>1, <1>2, <1>3 DEF Next

(* Every run of the lifecycle keeps its state and its calls in their types.*)
THEOREM TypeCorrect == Spec => []TypeOK
<1>1. Init => TypeOK
  BY InitIInv DEF IInv
<1>. QED
  BY <1>1, TypeStep, PTL DEF Spec

-----------------------------------------------------------------------------
(* A step that frees a claim ends its only owner; one that makes a claim   *)
(* finds the revision free.                                                *)
LEMMA OwnersStep ==
  ASSUME TypeOK, ClaimsHaveOneOwner, ReviewsFollowCalls, [Next]_vars
  PROVE  ClaimsHaveOneOwner'
<1>. USE LifecycleAssumption DEF Waiting
<1>1. ASSUME UNCHANGED <<claims, tasks, pc>>
      PROVE ClaimsHaveOneOwner'
  BY <1>1 DEF ClaimsHaveOneOwner, Owns
<1>2. CASE Enter \/ Exit \/ ExitWakes \/ UNCHANGED vars
  BY <1>1, <1>2 DEF Enter, Exit, ExitWakes, callVars, vars
<1>3. ASSUME NEW c \in Calls, Step(c) PROVE ClaimsHaveOneOwner'
  <2>1. CASE Refuses(c)
    BY <2>1 DEF Refuses, ClaimsHaveOneOwner, Owns, TypeOK
  <2>2. CASE SubmitClaims(c)
    BY <2>2 DEF SubmitClaims, ClaimsHaveOneOwner, Owns, TypeOK
  <2>3. CASE GivesUp(c)
    BY <2>3 DEF GivesUp, ClaimsHaveOneOwner, Owns, TypeOK, ReviewsFollowCalls
  <2>4. CASE Promote(c)
    BY <2>4 DEF Promote, Resumes, Answer, ClaimsHaveOneOwner, Owns, TypeOK,
                ReviewsFollowCalls
  <2>5. CASE Cancel(c) \/ CancelAgain(c)
    BY <2>5 DEF Cancel, CancelAgain, ClaimsHaveOneOwner, Owns, TypeOK
  <2>6. CASE PreflightMoves(c) \/ ReviewMoves(c)
    BY <1>1, <2>6 DEF PreflightMoves, ReviewMoves
  <2>7. CASE TerminalRelease(c)
    BY <2>7 DEF TerminalRelease, ReleaseClaim, callVars, ClaimsHaveOneOwner, Owns, TypeOK,
                ReviewsFollowCalls
  <2>. QED
    BY <1>3, <2>1, <2>2, <2>3, <2>4, <2>5, <2>6, <2>7, StepKinds
<1>. QED
  BY <1>2, <1>3 DEF Next

(* A review thread exists only for a promoted call, whose task is kept.    *)
LEMMA FollowStep ==
  ASSUME TypeOK, ReviewsFollowCalls, [Next]_vars
  PROVE  ReviewsFollowCalls'
<1>. USE DEF ReviewsFollowCalls, Live, Waiting, TypeOK
<1>1. ASSUME UNCHANGED <<tasks, pc, review>>
      PROVE ReviewsFollowCalls'
  BY <1>1
<1>2. CASE Enter \/ Exit \/ ExitWakes \/ UNCHANGED vars
  BY <1>1, <1>2 DEF Enter, Exit, ExitWakes, callVars, vars
<1>3. ASSUME NEW c \in Calls, Step(c) PROVE ReviewsFollowCalls'
  <2>1. CASE Refuses(c) \/ GivesUp(c) \/ SubmitClaims(c) \/ Cancel(c) \/ CancelAgain(c)
    BY <2>1 DEF Refuses, GivesUp, SubmitClaims, Cancel, CancelAgain
  <2>2. CASE Promote(c)
    BY <2>2 DEF Promote, Resumes, Answer
  <2>3. CASE PreflightMoves(c)
    BY <1>1, <2>3 DEF PreflightMoves
  <2>4. CASE ReviewMoves(c)
    BY <2>4 DEF ReviewMoves
  <2>5. CASE TerminalRelease(c)
    BY <2>5 DEF TerminalRelease, callVars
  <2>. QED
    BY <1>3, <2>1, <2>2, <2>3, <2>4, <2>5, StepKinds
<1>. QED
  BY <1>2, <1>3 DEF Next

(* The guard of a promotion is what keeps the running claims bounded; every*)
(* other step leaves them or takes one away.                               *)
LEMMA BoundStep ==
  ASSUME TypeOK, RunningBounded, [Next]_vars
  PROVE  RunningBounded'
<1>. USE LifecycleAssumption DEF TypeOK
<1>1. ASSUME RunningClaims' \subseteq RunningClaims
      PROVE RunningBounded'
  <2>1. /\ IsFiniteSet(RunningClaims')
        /\ Cardinality(RunningClaims') <= Cardinality(RunningClaims)
    BY <1>1, FS_Subset DEF RunningBounded
  <2>2. Cardinality(RunningClaims) \in Nat /\ Cardinality(RunningClaims') \in Nat
    BY <2>1, FS_CardinalityType DEF RunningBounded
  <2>. QED
    BY <2>1, <2>2 DEF RunningBounded
<1>2. CASE Enter \/ Exit \/ ExitWakes \/ UNCHANGED vars
  BY <1>1, <1>2 DEF Enter, Exit, ExitWakes, callVars, vars, RunningClaims
<1>3. ASSUME NEW c \in Calls, Step(c) PROVE RunningBounded'
  <2>1. CASE Promote(c)
    <3>1. RunningClaims' = RunningClaims \cup {Identity[c]}
      BY <2>1 DEF Promote, RunningClaims
    <3>2. Cardinality(RunningClaims) \in Nat
      BY FS_CardinalityType DEF RunningBounded
    <3>3. /\ IsFiniteSet(RunningClaims')
          /\ Cardinality(RunningClaims') <= Cardinality(RunningClaims) + 1
      <4>1. IsFiniteSet(RunningClaims)
        BY DEF RunningBounded
      <4>2. /\ IsFiniteSet(RunningClaims')
            /\ \/ Cardinality(RunningClaims') = Cardinality(RunningClaims)
               \/ Cardinality(RunningClaims') = Cardinality(RunningClaims) + 1
        BY <3>1, <4>1, FS_AddElement, Zenon
      <4>. QED
        BY <3>2, <4>2
    <3>4. Cardinality(RunningClaims) < MaxConcurrentReviews
      BY <2>1 DEF Promote
    <3>5. Cardinality(RunningClaims') \in Nat
      BY <3>3, FS_CardinalityType
    <3>. QED
      BY <3>2, <3>3, <3>4, <3>5 DEF RunningBounded
  <2>2. CASE Refuses(c) \/ Cancel(c) \/ CancelAgain(c) \/ PreflightMoves(c) \/ ReviewMoves(c)
    BY <1>1, <2>2 DEF Refuses, Cancel, CancelAgain, PreflightMoves, ReviewMoves, RunningClaims
  <2>3. CASE SubmitClaims(c) \/ GivesUp(c) \/ TerminalRelease(c)
    BY <1>1, <2>3 DEF SubmitClaims, GivesUp, TerminalRelease, ReleaseClaim, RunningClaims
  <2>. QED
    BY <1>3, <2>1, <2>2, <2>3, StepKinds
<1>. QED
  BY <1>2, <1>3 DEF Next

(* Only a release or a finished task can empty the lifecycle, and both     *)
(* notify; only a call of an accepting lifecycle can fill it.              *)
LEMMA WindowStep ==
  ASSUME TypeOK, NoLostWakeup, (state = "STOPPED" => Idle), [Next]_vars
  PROVE  NoLostWakeup' /\ (state = "STOPPED" => Idle)'
<1>. USE LifecycleAssumption DEF NoLostWakeup, Idle, TypeOK, LifecycleState, ClaimPhase
<1>1. ASSUME UNCHANGED <<state, claims, tasks, waiter>>
      PROVE NoLostWakeup' /\ (state = "STOPPED" => Idle)'
  BY <1>1
<1>2. CASE Enter \/ Exit \/ ExitWakes \/ UNCHANGED vars
  BY <1>1, <1>2 DEF Enter, Exit, ExitWakes, callVars, vars
<1>3. ASSUME NEW c \in Calls, Step(c) PROVE NoLostWakeup' /\ (state = "STOPPED" => Idle)'
  <2>1. CASE Refuses(c) \/ Cancel(c) \/ CancelAgain(c) \/ PreflightMoves(c) \/ ReviewMoves(c)
    BY <1>1, <2>1 DEF Refuses, Cancel, CancelAgain, PreflightMoves, ReviewMoves
  <2>2. CASE SubmitClaims(c) \/ Promote(c)
    BY <2>2 DEF SubmitClaims, Promote
  <2>3. CASE GivesUp(c)
    BY <2>3 DEF GivesUp
  <2>4. CASE TerminalRelease(c)
    BY <2>4 DEF TerminalRelease, ReleaseClaim, NotifyAll
  <2>. QED
    BY <1>3, <2>1, <2>2, <2>3, <2>4, StepKinds
<1>. QED
  BY <1>2, <1>3 DEF Next

(* A call cancelled at most once returns after its preflight did.          *)
LEMMA PreflightStep ==
  ASSUME TypeOK, PreflightsFollowCalls, [Next]_vars
  PROVE  PreflightsFollowCalls'
<1>. USE LifecycleAssumption DEF PreflightsFollowCalls, Live, TypeOK
<1>1. ASSUME UNCHANGED <<pc, preflight>>
      PROVE PreflightsFollowCalls'
  BY <1>1
<1>2. CASE Enter \/ Exit \/ ExitWakes \/ UNCHANGED vars
  BY <1>1, <1>2 DEF Enter, Exit, ExitWakes, callVars, vars
<1>3. ASSUME NEW c \in Calls, Step(c) PROVE PreflightsFollowCalls'
  <2>1. CASE Refuses(c) \/ SubmitClaims(c) \/ GivesUp(c) \/ Cancel(c) \/ CancelAgain(c)
    BY <2>1 DEF Refuses, SubmitClaims, GivesUp, Cancel, CancelAgain
  <2>2. CASE Promote(c)
    BY <2>2 DEF Promote, Resumes, Answer
  <2>3. CASE PreflightMoves(c)
    BY <2>3 DEF PreflightMoves
  <2>4. CASE ReviewMoves(c) \/ TerminalRelease(c)
    BY <1>1, <2>4 DEF ReviewMoves, TerminalRelease, callVars
  <2>. QED
    BY <1>3, <2>1, <2>2, <2>3, <2>4, StepKinds
<1>. QED
  BY <1>2, <1>3 DEF Next

(* The inductive invariant holds in every state of every run.              *)
THEOREM Invariance == Spec => []IInv
<1>1. IInv /\ [Next]_vars => IInv'
  BY TypeStep, OwnersStep, FollowStep, BoundStep, WindowStep, PreflightStep DEF IInv
<1>. QED
  BY InitIInv, <1>1, PTL DEF Spec

-----------------------------------------------------------------------------
(* A live review has its task, its task has the claim of its revision, and *)
(* a claim has one owner: so live reviews are of different revisions, all  *)
(* of them counted by the claims a promotion counts.                       *)
LEMMA LiveReviewsOwn ==
  ASSUME IInv
  PROVE  /\ \A c \in LiveReviews : c \in tasks /\ Identity[c] \in RunningClaims
         /\ OneReviewPerRevision
BY LifecycleAssumption
   DEF IInv, TypeOK, ReviewsFollowCalls, ClaimsHaveOneOwner, Owns, LiveReviews,
       RunningClaims, OneReviewPerRevision

(* Distinct live reviews hold distinct RUNNING claims.                     *)
LEMMA LiveReviewsBounded ==
  ASSUME IInv
  PROVE  CapacityRespected
<1>. DEFINE f == [c \in LiveReviews |-> Identity[c]]
<1>1. f \in Injection(LiveReviews, RunningClaims)
  BY LiveReviewsOwn DEF Injection, IsInjective, OneReviewPerRevision
<1>2. /\ IsFiniteSet(LiveReviews)
      /\ Cardinality(LiveReviews) <= Cardinality(RunningClaims)
  BY <1>1, FS_Injection DEF IInv, RunningBounded
<1>3. Cardinality(LiveReviews) \in Nat /\ Cardinality(RunningClaims) \in Nat
  BY <1>2, FS_CardinalityType DEF IInv, RunningBounded
<1>. QED
  BY <1>2, <1>3, LifecycleAssumption DEF CapacityRespected, IInv, RunningBounded

(* The executor never has more reviews in hand than max_concurrent_reviews.*)
THEOREM Capacity == Spec => []CapacityRespected
BY Invariance, LiveReviewsBounded, PTL

(* No revision is ever reviewed by two threads, however often a call is    *)
(* cancelled.                                                              *)
THEOREM OneReview == Spec => []OneReviewPerRevision
BY Invariance, LiveReviewsOwn, PTL

(* Every claim has one owner, in the owner's phase.                        *)
THEOREM OneOwner == Spec => []ClaimsHaveOneOwner
<1>1. IInv => ClaimsHaveOneOwner
  BY DEF IInv
<1>. QED
  BY Invariance, <1>1, PTL

(* __aexit__ never sleeps through the event it waits for.                  *)
THEOREM WakeupsArrive == Spec => []NoLostWakeup
<1>1. IInv => NoLostWakeup
  BY DEF IInv
<1>. QED
  BY Invariance, <1>1, PTL

(* A stopped lifecycle left no review behind.                              *)
THEOREM Drained == Spec => []StoppedMeansDrained
<1>1. IInv => StoppedMeansDrained
  BY LiveReviewsOwn DEF IInv, StoppedMeansDrained, Idle
<1>. QED
  BY Invariance, <1>1, PTL

(* When no call is cancelled twice, one thread at most works on a revision,*)
(* preflights included, and a stopped lifecycle left none behind.          *)
THEOREM OneThread ==
  ASSUME ~RepeatedCancellation
  PROVE  Spec => [](OneThreadPerRevision /\ StoppedMeansQuiet)
<1>1. ASSUME IInv PROVE OneThreadPerRevision
  <2>1. \A c \in LivePreflights : c \in Calls /\ pc[c] \in {"shielded", "draining"}
    BY <1>1 DEF IInv, PreflightsFollowCalls, LivePreflights
  <2>2. \A c \in LiveReviews : c \in Calls /\ c \in tasks /\ pc[c] = "returned"
    BY <1>1, LiveReviewsOwn DEF IInv, ReviewsFollowCalls, LiveReviews
  <2>3. \A c \in LiveReviews \cup LivePreflights : c \in Calls /\ Owns(c)
    BY <2>1, <2>2 DEF Owns, Waiting
  <2>. QED
    BY <1>1, <2>1, <2>2, <2>3 DEF OneThreadPerRevision, IInv, ClaimsHaveOneOwner
<1>2. ASSUME IInv PROVE StoppedMeansQuiet
  BY <1>2, LiveReviewsOwn, LifecycleAssumption
     DEF IInv, StoppedMeansQuiet, Idle, PreflightsFollowCalls, LivePreflights,
         ClaimsHaveOneOwner, Waiting, TypeOK
<1>. QED
  BY Invariance, <1>1, <1>2, PTL

(* When no call is cancelled twice, a stopped lifecycle left no thread.    *)
THEOREM NoThreadIsLeft ==
  ASSUME ~RepeatedCancellation
  PROVE  Spec => []StoppedMeansQuiet
BY OneThread, PTL

(* After the window closed, claims and tasks only disappear: no step of a  *)
(* stopping or stopped lifecycle claims a revision or promotes a review.   *)
THEOREM AdmissionStaysClosed == Spec => ClosedAdmissionOnlyDrains
<1>1. TypeOK /\ [Next]_vars => [OnlyDrainsWhenClosed]_vars
  <2>. SUFFICES ASSUME TypeOK, [Next]_vars, state \in {"STOPPING", "STOPPED"}
                PROVE  /\ tasks' \subseteq tasks
                       /\ \A r \in Revisions : claims'[r] = claims[r] \/ claims'[r] = "free"
    BY DEF OnlyDrainsWhenClosed
  <2>. USE LifecycleAssumption DEF TypeOK
  <2>1. CASE Enter \/ Exit \/ ExitWakes \/ UNCHANGED vars
    BY <2>1 DEF Enter, Exit, ExitWakes, vars
  <2>2. ASSUME NEW c \in Calls, Step(c)
        PROVE  /\ tasks' \subseteq tasks
               /\ \A r \in Revisions : claims'[r] = claims[r] \/ claims'[r] = "free"
    <3>1. ~SubmitClaims(c) /\ ~Promote(c)
      BY DEF SubmitClaims, Promote
    <3>2. CASE Refuses(c) \/ Cancel(c) \/ CancelAgain(c) \/ PreflightMoves(c) \/ ReviewMoves(c)
      BY <3>2 DEF Refuses, Cancel, CancelAgain, PreflightMoves, ReviewMoves
    <3>3. CASE GivesUp(c) \/ TerminalRelease(c)
      BY <3>3 DEF GivesUp, TerminalRelease, ReleaseClaim
    <3>. QED
      BY <2>2, <3>1, <3>2, <3>3, StepKinds
  <2>. QED
    BY <2>1, <2>2 DEF Next
<1>. QED
  BY <1>1, TypeCorrect, PTL DEF Spec, ClosedAdmissionOnlyDrains

-----------------------------------------------------------------------------
(* Refinement.  A promotion is the abstract start of a review, the return  *)
(* of its thread the abstract finish; claims, preflights, wake-ups and     *)
(* terminal releases stutter.                                              *)

(* Fewer live reviews than the capacity: fewer revisions under review.     *)
LEMMA ReviewedIsBounded ==
  ASSUME IInv
  PROVE  /\ Reviewed \subseteq RunningClaims
         /\ Cardinality(Reviewed) \in Nat
         /\ Cardinality(Reviewed) <= Cardinality(RunningClaims)
         /\ Cardinality(RunningClaims) \in Nat
<1>1. Reviewed \subseteq RunningClaims
  BY LiveReviewsOwn DEF Reviewed
<1>2. IsFiniteSet(RunningClaims)
  BY DEF IInv, RunningBounded
<1>3. IsFiniteSet(Reviewed) /\ Cardinality(Reviewed) <= Cardinality(RunningClaims)
  BY <1>1, <1>2, FS_Subset
<1>. QED
  BY <1>1, <1>2, <1>3, FS_CardinalityType

(* Each step of the lifecycle is a step of ReviewAdmission or a stutter.   *)
LEMMA AdmissionStep ==
  ASSUME IInv, [Next]_vars
  PROVE  [Admission!ANext]_(Admission!avars)
<1>. USE DEF Admission!ANext, Admission!avars
<1>1. ASSUME UNCHANGED <<state, review>>
      PROVE  [Admission!ANext]_(Admission!avars)
  BY <1>1 DEF Reviewed, LiveReviews
<1>2. TypeOK
  BY DEF IInv
<1>3. Idle => Reviewed = {}
  BY LiveReviewsOwn DEF Idle, Reviewed
<1>4. CASE Enter
  BY <1>4 DEF Enter, Admission!Open, AdmissionPhase, Reviewed, LiveReviews
<1>5. CASE Exit
  BY <1>3, <1>5 DEF Exit, Admission!Close, AdmissionPhase, Reviewed, LiveReviews
<1>6. CASE ExitWakes
  <2>1. state = "STOPPING"
    BY <1>6 DEF ExitWakes, IInv, NoLostWakeup
  <2>. QED
    BY <1>3, <1>6, <2>1 DEF ExitWakes, Admission!Drained, AdmissionPhase, Reviewed, LiveReviews
<1>7. ASSUME NEW c \in Calls, Step(c) PROVE [Admission!ANext]_(Admission!avars)
  <2>. DEFINE r == Identity[c]
  <2>1. r \in Revisions
    BY LifecycleAssumption
  <2>2. CASE Promote(c)
    <3>1. r \notin Reviewed
      <4>1. claims[r] = "PREFLIGHT"
        BY <2>2 DEF Promote, Resumes, Waiting, IInv, ClaimsHaveOneOwner
      <4>. QED
        BY <4>1, ReviewedIsBounded DEF RunningClaims
    <3>2. Cardinality(Reviewed) < MaxConcurrentReviews
      BY <2>2, ReviewedIsBounded, LifecycleAssumption DEF Promote
    <3>3. Reviewed' = Reviewed \cup {r}
      <4>1. LiveReviews' = LiveReviews \cup {c}
        BY <1>2, <2>2 DEF Promote, LiveReviews, Live, TypeOK
      <4>. QED
        BY <4>1 DEF Reviewed
    <3>4. Admission!Cardinality(Reviewed) = Cardinality(Reviewed)
      BY DEF Admission!Cardinality, Cardinality
    <3>. QED
      BY <2>1, <2>2, <3>1, <3>2, <3>3, <3>4 DEF Promote, Admission!Start, AdmissionPhase
  <2>3. CASE ReviewMoves(c)
    <3>1. PICK t \in {"running", "returned"} : review' = [review EXCEPT ![c] = t]
      BY <2>3 DEF ReviewMoves
    <3>2. c \in LiveReviews
      BY <2>3 DEF ReviewMoves, LiveReviews
    <3>3. CASE t = "running"
      <4>1. LiveReviews' = LiveReviews
        BY <1>2, <3>1, <3>2, <3>3 DEF LiveReviews, Live, TypeOK
      <4>. QED
        BY <2>3, <4>1 DEF Reviewed, ReviewMoves
    <3>4. CASE t = "returned"
      <4>1. LiveReviews' = LiveReviews \ {c}
        BY <1>2, <3>1, <3>4 DEF LiveReviews, Live, TypeOK
      <4>2. Reviewed' = Reviewed \ {r}
        BY <3>2, <4>1, LiveReviewsOwn DEF Reviewed, OneReviewPerRevision
      <4>3. r \in Reviewed
        BY <3>2 DEF Reviewed
      <4>. QED
        BY <2>1, <2>3, <4>2, <4>3 DEF ReviewMoves, Admission!Finish
    <3>. QED
      BY <3>1, <3>3, <3>4
  <2>4. CASE \/ Refuses(c) \/ SubmitClaims(c) \/ GivesUp(c) \/ Cancel(c) \/ CancelAgain(c)
             \/ PreflightMoves(c) \/ TerminalRelease(c)
    BY <1>1, <2>4 DEF Refuses, SubmitClaims, GivesUp, Cancel, CancelAgain, PreflightMoves,
                      TerminalRelease
  <2>. QED
    BY <1>2, <1>7, <2>2, <2>3, <2>4, StepKinds
<1>8. CASE UNCHANGED vars
  BY <1>1, <1>8 DEF vars
<1>. QED
  BY <1>4, <1>5, <1>6, <1>7, <1>8 DEF Next

(* The lifecycle implements the safety part of ReviewAdmission.            *)
THEOREM ImplementsAdmissionSafety == Spec => Admission!ASafety
<1>1. Init => Admission!AInit
  BY DEF Init, Admission!AInit, AdmissionPhase, Reviewed, LiveReviews, Live
<1>. QED
  BY <1>1, Invariance, AdmissionStep, PTL DEF Spec, Admission!ASafety

-----------------------------------------------------------------------------
(* The second refinement: claims.                                          *)

HoldsNow == [c \in Calls |-> Holds(c)]

(* Who holds a claim is who owns one, and nobody does when all are free.   *)
LEMMA HoldingIsOwning ==
  ASSUME IInv
  PROVE  /\ \A c \in Calls : c \in Claiming!Holding <=> Owns(c)
         /\ Idle => Claiming!Holding = {}
<1>1. \A c \in tasks : pc[c] = "returned"
  BY DEF IInv, ReviewsFollowCalls
<1>2. \A c \in Calls : c \in Claiming!Holding <=> HoldsNow[c] \in {"PREFLIGHT", "RUNNING"}
  BY DEF Claiming!Holding, HoldsNow
<1>3. \A c \in Calls : HoldsNow[c] = Holds(c)
  BY DEF HoldsNow
<1>4. \A c \in Calls : Holds(c) \in {"PREFLIGHT", "RUNNING"} <=> Owns(c)
  BY <1>1 DEF Holds, Owns, Waiting
<1>5. Idle => \A c \in Calls : ~Owns(c)
  BY LifecycleAssumption DEF Idle, Owns, IInv, ClaimsHaveOneOwner
<1>6. Claiming!Holding \subseteq Calls
  BY DEF Claiming!Holding
<1>. QED
  BY <1>2, <1>3, <1>4, <1>5, <1>6

(* A step of one call changes what that call holds, and nothing else.      *)
LEMMA OthersHold ==
  ASSUME NEW c \in Calls, NEW phase, Holds(c)' = phase,
         \A d \in Calls \ {c} : pc'[d] = pc[d] /\ (d \in tasks' <=> d \in tasks)
  PROVE  HoldsNow' = [HoldsNow EXCEPT ![c] = phase]
<1>1. \A d \in Calls \ {c} : Holds(d)' = Holds(d)
  BY DEF Holds
<1>. QED
  BY <1>1 DEF HoldsNow

(* Each step of the lifecycle is a step of RevisionClaims or a stutter.    *)
LEMMA ClaimingStep ==
  ASSUME IInv, [Next]_vars
  PROVE  [Claiming!CNext]_(Claiming!cvars)
<1>. USE DEF Claiming!CNext, Claiming!cvars
<1>1. ASSUME UNCHANGED <<state, pc, tasks>>
      PROVE  [Claiming!CNext]_(Claiming!cvars)
  BY <1>1 DEF Holds
<1>2. TypeOK
  BY DEF IInv
<1>3. ASSUME UNCHANGED <<pc, tasks>>
      PROVE  HoldsNow' = HoldsNow
  BY <1>3 DEF Holds, HoldsNow
<1>4. CASE Enter
  BY <1>3, <1>4 DEF Enter, Claiming!Open, AdmissionState, callVars, HoldsNow
<1>5. CASE Exit
  BY <1>3, <1>5, HoldingIsOwning DEF Exit, Claiming!Close, AdmissionState, callVars, HoldsNow
<1>6. CASE ExitWakes
  <2>1. state = "STOPPING"
    BY <1>6 DEF ExitWakes, IInv, NoLostWakeup
  <2>. QED
    BY <1>3, <1>6, <2>1, HoldingIsOwning
       DEF ExitWakes, Claiming!Drained, AdmissionState, callVars, HoldsNow
<1>7. ASSUME NEW c \in Calls, Step(c) PROVE [Claiming!CNext]_(Claiming!cvars)
  <2>1. CASE Refuses(c)
    <3>1. Holds(c) = "new" /\ Holds(c)' = "done"
      BY <1>2, <2>1 DEF Refuses, Holds, Waiting, TypeOK, IInv, ReviewsFollowCalls
    <3>2. HoldsNow' = [HoldsNow EXCEPT ![c] = "done"]
      BY <1>2, <2>1, <3>1, OthersHold DEF Refuses, TypeOK
    <3>. QED
      BY <2>1, <3>1, <3>2 DEF Refuses, Claiming!Refuse, Claiming!Becomes, HoldsNow
  <2>2. CASE SubmitClaims(c)
    <3>1. Holds(c) = "new" /\ Holds(c)' = "PREFLIGHT"
      BY <1>2, <2>2 DEF SubmitClaims, Holds, Waiting, TypeOK
    <3>2. HoldsNow' = [HoldsNow EXCEPT ![c] = "PREFLIGHT"]
      BY <1>2, <2>2, <3>1, OthersHold DEF SubmitClaims, TypeOK
    <3>3. \A d \in Claiming!Holding : Identity[d] # Identity[c]
      <4>1. \A d \in Claiming!Holding : d \in Calls /\ Owns(d)
        BY HoldingIsOwning DEF Claiming!Holding
      <4>2. \A d \in Calls : Owns(d) => claims[Identity[d]] # "free"
        BY DEF IInv, ClaimsHaveOneOwner, Owns
      <4>. QED
        BY <2>2, <4>1, <4>2 DEF SubmitClaims
    <3>. QED
      BY <2>2, <3>1, <3>2, <3>3
         DEF SubmitClaims, Claiming!Claim, Claiming!Becomes, AdmissionState, HoldsNow
  <2>3. CASE GivesUp(c)
    <3>1. c \notin tasks
      BY <2>3 DEF GivesUp, IInv, ReviewsFollowCalls
    <3>2. c \in Claiming!Holding
      BY <2>3, HoldingIsOwning DEF GivesUp, Owns, Waiting
    <3>3. Holds(c)' = "done"
      BY <1>2, <2>3, <3>1 DEF GivesUp, Holds, Waiting, TypeOK
    <3>4. HoldsNow' = [HoldsNow EXCEPT ![c] = "done"]
      BY <1>2, <2>3, <3>3, OthersHold DEF GivesUp, TypeOK
    <3>. QED
      BY <2>3, <3>2, <3>4 DEF GivesUp, Claiming!Release, Claiming!Becomes, HoldsNow
  <2>4. CASE Promote(c)
    <3>1. Holds(c) = "PREFLIGHT" /\ Holds(c)' = "RUNNING"
      BY <1>2, <2>4 DEF Promote, Resumes, Answer, Holds, Waiting, TypeOK
    <3>2. HoldsNow' = [HoldsNow EXCEPT ![c] = "RUNNING"]
      BY <1>2, <2>4, <3>1, OthersHold DEF Promote, Answer, TypeOK
    <3>. QED
      BY <2>4, <3>1, <3>2
         DEF Promote, Claiming!Promote, Claiming!Becomes, AdmissionState, HoldsNow
  <2>5. CASE Cancel(c) \/ CancelAgain(c)
    <3>1. Holds(c) = "PREFLIGHT" /\ Holds(c)' = "PREFLIGHT"
      BY <1>2, <2>5 DEF Cancel, CancelAgain, Holds, Waiting, TypeOK
    <3>2. HoldsNow' = [HoldsNow EXCEPT ![c] = "PREFLIGHT"]
      BY <1>2, <2>5, <3>1, OthersHold DEF Cancel, CancelAgain, TypeOK
    <3>3. HoldsNow' = HoldsNow
      BY <3>1, <3>2 DEF HoldsNow
    <3>. QED
      BY <2>5, <3>3 DEF Cancel, CancelAgain, HoldsNow
  <2>6. CASE PreflightMoves(c) \/ ReviewMoves(c)
    BY <1>1, <2>6 DEF PreflightMoves, ReviewMoves
  <2>7. CASE TerminalRelease(c)
    <3>1. pc[c] = "returned" /\ c \in tasks
      BY <2>7 DEF TerminalRelease, IInv, ReviewsFollowCalls
    <3>2. c \in Claiming!Holding
      BY <3>1, HoldingIsOwning DEF Owns
    <3>3. Holds(c)' = "done"
      BY <2>7, <3>1 DEF TerminalRelease, callVars, Holds, Waiting
    <3>4. HoldsNow' = [HoldsNow EXCEPT ![c] = "done"]
      BY <2>7, <3>3, OthersHold DEF TerminalRelease, callVars
    <3>. QED
      BY <2>7, <3>2, <3>4 DEF TerminalRelease, Claiming!Release, Claiming!Becomes, HoldsNow
  <2>. QED
    BY <1>2, <1>7, <2>1, <2>2, <2>3, <2>4, <2>5, <2>6, <2>7, StepKinds
<1>8. CASE UNCHANGED vars
  BY <1>1, <1>8 DEF vars
<1>. QED
  BY <1>4, <1>5, <1>6, <1>7, <1>8 DEF Next

(* The lifecycle implements RevisionClaims, for any number of calls and    *)
(* cancellations.                                                          *)
THEOREM ClaimsAreImplemented == Spec => ImplementsClaims
<1>1. Init => Claiming!CInit
  BY DEF Init, Claiming!CInit, AdmissionState, Holds
<1>. QED
  BY <1>1, Invariance, ClaimingStep, PTL DEF Spec, ImplementsClaims, Claiming!CSpec
=============================================================================
