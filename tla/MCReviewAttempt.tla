--------------------------- MODULE MCReviewAttempt ---------------------------
(* Two concurrent attempts, and a service that may be killed once.           *)
EXTENDS ReviewAttempt

CONSTANTS a1, a2
=============================================================================
