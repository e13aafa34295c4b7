----------------------------- MODULE MCPublisher -----------------------------
(* Instances of Publisher for TLC. *)
EXTENDS Publisher, TLC

CONSTANTS a, b, x, y, u1, u2, u3, w1, w2

SameKey == [i \in Item |-> IF i \in {a, b} THEN "k1" ELSE "k2"]
OneItem == {{a}}
MixedBatches == {{a, b}, {a, y}, {x}, {}}
Symmetry == Permutations(Uuid) \cup Permutations(Worker)
==============================================================================
