-------------------------- MODULE MCRoslynProvider --------------------------
(* RoslynProvider for TLC: threads and slots are interchangeable. *)
EXTENDS RoslynProvider, TLC

Symmetry == Permutations(Threads) \cup Permutations(Bridges)
=============================================================================
