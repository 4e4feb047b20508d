--------------------------- MODULE MCThreadQueue ----------------------------
(* Instances of ThreadQueue for TLC. *)
EXTENDS ThreadQueue, TLC

Symmetry == Permutations(Threads) \cup Permutations(Msgs)
=============================================================================
