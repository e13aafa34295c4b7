------------------------------- MODULE MCGauge -------------------------------
(* Instances of Gauge for TLC. *)
EXTENDS Gauge, TLC

CONSTANTS s1, s2, s3, s4

Symmetry == Permutations(Scrape)
==============================================================================
