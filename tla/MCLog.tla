------------------------------- MODULE MCLog -------------------------------
(* Model-checking instance of Log: its threads are symmetric.               *)
EXTENDS Log, TLC

Symmetry == Permutations(Writers)
=============================================================================
