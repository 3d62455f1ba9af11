----------------------------- MODULE MCHostSetup -----------------------------
(* Two releases, a few faults and a few other changes of the host.           *)
EXTENDS HostSetup

CONSTANTS r1, r2
=============================================================================
