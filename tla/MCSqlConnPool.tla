--------------------------- MODULE MCSqlConnPool ---------------------------
(* Model-checking instance of SqlConnPool: its identities are symmetric.    *)
EXTENDS SqlConnPool, TLC

Symmetry == Permutations(Workers) \union Permutations(Conns)
=============================================================================
