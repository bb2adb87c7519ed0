----------------------------- MODULE MCFinalizer -----------------------------
(* An instance of Finalizer for TLC.                                         *)
EXTENDS Finalizer, TLC
Symmetric == Permutations(Threads) \cup Permutations(IPs) \cup Permutations(Paths)
=============================================================================
