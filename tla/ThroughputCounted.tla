-------------------------- MODULE ThroughputCounted --------------------------
(***************************************************************************)
(* Throughput where every thread that The Grinder starts is counted: with  *)
(* at least 16 threads in the configuration.                               *)
(***************************************************************************)
EXTENDS Throughput

ASSUME EveryThreadCounts == NumberOfThreads = Cardinality(Threads)
=============================================================================
