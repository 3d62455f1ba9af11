---------------------------- MODULE MCPublication ----------------------------
(* Three runs of one revision: the second can duplicate what the first left  *)
(* in flight, the third finds it.                                            *)
EXTENDS Publication, TLC

CONSTANTS b1, b2

BodySymmetry == Permutations({b1, b2})
=============================================================================
