--------------------------- MODULE MCAsyncStrDict ---------------------------
(***************************************************************************)
(* Instances of AsyncStrDict for TLC.                                      *)
(***************************************************************************)
EXTENDS AsyncStrDictProperties, TLC

CONSTANTS p1, p2, p3, v1, v2

\* One goroutine writes every key, the others read.
OneWriter == [k \in Keys |-> {p1}]

\* Every goroutine writes every key.
AllWrite == [k \in Keys |-> Clients]

ClientSymmetry == Permutations(Clients)
ValueSymmetry == Permutations(Values)
=============================================================================
