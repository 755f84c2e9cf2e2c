------------------------ MODULE MCCanPoolRefinement -------------------------
(* A small instance of CanPoolRefinement for TLC. *)
EXTENDS CanPoolRefinement, TLC

CONSTANTS k1, k2, zero, a

TwoKeys     == {k1, k2}
KeySymmetry == Permutations(Keys)
=============================================================================
