---------------------------- MODULE MCPageScripts ----------------------------
(* Model-checking instance of PageScripts: the link outside the menu and one *)
(* of those in it.                                                           *)
EXTENDS PageScripts

MCLinks == {"/", "/picture"}
=============================================================================
