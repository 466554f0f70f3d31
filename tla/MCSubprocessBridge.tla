------------------------- MODULE MCSubprocessBridge -------------------------
(* SubprocessBridge for TLC: the threads are interchangeable. *)
EXTENDS SubprocessBridge, TLC

Symmetry == Permutations(Callers)
=============================================================================
