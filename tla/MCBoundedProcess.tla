-------------------------- MODULE MCBoundedProcess --------------------------
(* A command with two pipes around a small limit.                            *)
EXTENDS BoundedProcess
=============================================================================
