---------------------------- MODULE MCHeapTimer ----------------------------
(* Model-checking instance of HeapTimer: its identities are symmetric.      *)
EXTENDS HeapTimer, TLC

Symmetry == Permutations(Ids)
=============================================================================
