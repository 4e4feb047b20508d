--------------------------- MODULE MCProcessQueue ---------------------------
(* Instances of ProcessQueue for TLC. *)
EXTENDS ProcessQueue, TLC

Symmetry == Permutations(Pids) \cup Permutations(Msgs)
=============================================================================
