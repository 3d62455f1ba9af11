--------------------------- MODULE ReviewAdmission ---------------------------
(***************************************************************************)
(* What ReviewLifecycle promises the rest of the service, without saying   *)
(* how: which revisions a worker thread is reviewing, and the phase of the *)
(* one admission window.  No claims, preflights, tasks or wake-ups here;   *)
(* ReviewLifecycle is shown to implement this specification.               *)
(***************************************************************************)
EXTENDS Naturals, FiniteSets

CONSTANTS Revisions,             \* identities of accepted pull-request revisions
          MaxConcurrentReviews   \* reviews that may execute at the same time

VARIABLES phase,      \* the admission window: before, open, draining, over
          reviewing   \* the revisions under review by some worker thread

avars == <<phase, reviewing>>

AInit == phase = "before" /\ reviewing = {}

Open == phase = "before" /\ phase' = "open" /\ UNCHANGED reviewing

(* A review starts only while the window is open, only for a revision that *)
(* no thread is reviewing, and only below the capacity.                    *)
Start(r) ==
  /\ phase = "open"
  /\ r \notin reviewing
  /\ Cardinality(reviewing) < MaxConcurrentReviews
  /\ reviewing' = reviewing \cup {r}
  /\ UNCHANGED phase

Finish(r) ==
  /\ r \in reviewing
  /\ reviewing' = reviewing \ {r}
  /\ UNCHANGED phase

(* Closing ends the window at once when nothing is left to wait for; work  *)
(* that is not yet a review may still have to be waited for.               *)
Close ==
  /\ phase = "open"
  /\ \/ phase' = "draining"
     \/ reviewing = {} /\ phase' = "over"
  /\ UNCHANGED reviewing

Drained == phase = "draining" /\ reviewing = {} /\ phase' = "over" /\ UNCHANGED reviewing

ANext == \/ Open \/ Close \/ Drained
         \/ \E r \in Revisions : Start(r) \/ Finish(r)

(* Admitted work is finished, and a closed window is drained.              *)
AFairness == WF_avars(Drained) /\ \A r \in Revisions : WF_avars(Finish(r))

ASafety == AInit /\ [][ANext]_avars

ASpec == ASafety /\ AFairness
=============================================================================
