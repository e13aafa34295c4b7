------------------------------- MODULE MCAgent -------------------------------
(* Instances of Agent for TLC. *)
EXTENDS Agent

CONSTANTS u1, u2, r1, r2

==============================================================================
