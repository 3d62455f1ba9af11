---------------------------- MODULE RevisionClaims ----------------------------
(***************************************************************************)
(* The claim on a revision, as the deliveries that ask for it see it: who  *)
(* may hold it, and when.  ReviewLifecycle, with its dictionary of claims, *)
(* its tasks, threads and cancellations, implements it, and so does the    *)
(* service of ReviewService, which can also be killed and started again:   *)
(* neither does anything that is forbidden here.                           *)
(***************************************************************************)
CONSTANTS Deliveries,   \* webhook deliveries, each a call of submit
          Revision      \* Revision[d]: the accepted revision d is about

VARIABLES admission,    \* "closed", "open" or "draining"
          holds         \* what each delivery has: "new" before its call, "done" after it

cvars == <<admission, holds>>

Holding == {d \in Deliveries : holds[d] \in {"PREFLIGHT", "RUNNING"}}
Becomes(d, phase) == holds' = [holds EXCEPT ![d] = phase]

CInit ==
  /\ admission = "closed"
  /\ holds = [d \in Deliveries |-> "new"]

Open ==
  /\ admission = "closed"
  /\ admission' = "open"
  /\ UNCHANGED holds

(* The drain waits for every claim, also for those of preflights.          *)
Close ==
  /\ admission = "open"
  /\ admission' = "draining" \/ (Holding = {} /\ admission' = "closed")
  /\ UNCHANGED holds

Drained ==
  /\ admission = "draining"
  /\ Holding = {}
  /\ admission' = "closed"
  /\ UNCHANGED holds

Refuse(d) ==
  /\ holds[d] = "new"
  /\ Becomes(d, "done")
  /\ UNCHANGED admission

(* A revision is claimed while the service admits and nobody else has it.  *)
Claim(d) ==
  /\ holds[d] = "new"
  /\ admission = "open"
  /\ \A e \in Holding : Revision[e] # Revision[d]
  /\ Becomes(d, "PREFLIGHT")
  /\ UNCHANGED admission

(* A preflight becomes a review only while the service still admits.       *)
Promote(d) ==
  /\ holds[d] = "PREFLIGHT"
  /\ admission = "open"
  /\ Becomes(d, "RUNNING")
  /\ UNCHANGED admission

Release(d) ==
  /\ d \in Holding
  /\ Becomes(d, "done")
  /\ UNCHANGED admission

(* The process dies, and its claims with it.                               *)
Kill ==
  /\ admission # "closed"
  /\ admission' = "closed"
  /\ holds' = [d \in Deliveries |-> IF d \in Holding THEN "done" ELSE holds[d]]

CNext ==
  \/ Open \/ Close \/ Drained \/ Kill
  \/ \E d \in Deliveries : Refuse(d) \/ Claim(d) \/ Promote(d) \/ Release(d)

CSpec == CInit /\ [][CNext]_cvars
=============================================================================
