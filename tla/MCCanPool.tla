------------------------------ MODULE MCCanPool ------------------------------
(* A small instance of CanPool for TLC, with histories and the loops. *)
EXTENDS CanPoolHistory, CanPoolLoops, TLC

CONSTANTS k1, k2, zero

TwoKeys     == {k1, k2}
OneBlock    == {zero}
KeySymmetry == Permutations(Keys)
=============================================================================
