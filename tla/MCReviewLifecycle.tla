-------------------------- MODULE MCReviewLifecycle --------------------------
(* Small instances of ReviewLifecycle: calls that share a revision race for *)
(* its claim, and revisions compete for the capacity.                       *)
EXTENDS ReviewLifecycle, TLC

CONSTANTS c1, c2, c3, c4, r1, r2

(* Two deliveries of one revision and two of another.                       *)
TwoAndTwo == (c1 :> r1) @@ (c2 :> r1) @@ (c3 :> r2) @@ (c4 :> r2)

(* Two deliveries of one revision and one of another.                       *)
TwoAndOne == (c1 :> r1) @@ (c2 :> r1) @@ (c3 :> r2)

(* Deliveries of one revision may be exchanged: the code treats them alike. *)
SameRevision == Permutations({c1, c2}) \cup Permutations({c3, c4})
=============================================================================
