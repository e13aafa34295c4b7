------------------------------ MODULE MCReview -------------------------------
(* Instances of Review for TLC. *)
EXTENDS Review, TLC

CONSTANTS t1, t2, t3

Symmetry == Permutations(Request)
==============================================================================
