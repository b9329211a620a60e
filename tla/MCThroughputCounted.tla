------------------------- MODULE MCThroughputCounted -------------------------
(* The instances of MCThroughput where every thread counts.                   *)
EXTENDS MCThroughput, ThroughputCounted
=============================================================================
