---------------------------- MODULE MCCallSupport ----------------------------
(***************************************************************************)
(* Instances of CallSupport for TLC.                                       *)
(***************************************************************************)
EXTENDS CallSupportProperties, TLC

CONSTANTS c1, c2, c3, w1, w2

BothSymmetry == Permutations(Conns) \cup Permutations(Workers)
=============================================================================
