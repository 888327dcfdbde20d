----------------------------- MODULE MCRangePath -----------------------------
(***************************************************************************)
(* Instance of RangePath for TLC: integers of two bits, machine integers   *)
(* of three.                                                               *)
(***************************************************************************)
EXTENDS RangePath, TLC

CONSTANTS x1, x2, m1

MCConst == {-1, 0, 1}
Symmetry == Permutations(Var)
==============================================================================
