--------------------------- MODULE MCMonitorQueue ---------------------------
(* Instances of MonitorQueue for TLC. *)
EXTENDS MonitorQueue, TLC

Symmetry == Permutations(Threads) \cup Permutations(Msgs)
=============================================================================
