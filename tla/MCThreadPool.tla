---------------------------- MODULE MCThreadPool ----------------------------
(* Model-checking instance of ThreadPool: its identities are symmetric.     *)
EXTENDS ThreadPool, TLC

Symmetry == Permutations(Workers) \union Permutations(Producers) \union Permutations(Tasks)
=============================================================================
