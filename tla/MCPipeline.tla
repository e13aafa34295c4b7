------------------------------ MODULE MCPipeline -----------------------------
(* Instances of Pipeline for TLC. *)
EXTENDS Pipeline, TLC

CONSTANTS a, u1, u2, w1, r1, r2

OneKey == [i \in Item |-> "k1"]
OneItem == {{a}}
==============================================================================
