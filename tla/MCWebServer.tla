---------------------------- MODULE MCWebServer ----------------------------
(* Model-checking instance of WebServer, with the abstract specification it   *)
(* implements (ConnectionHolders): symmetry of its identities.                *)
EXTENDS ConnectionHolders, TLC

Symmetry == Permutations(Fds) \union Permutations(Workers)
=============================================================================
