----------------------------- MODULE MCDecision ------------------------------
(* Instances of Decision for TLC: both sides of every threshold. *)
EXTENDS Decision

Cents == {-1, 20000, 20001, 200000, 200001}
Dates == {Today - 91, Today - 90, Today, Today + 1}
==============================================================================
