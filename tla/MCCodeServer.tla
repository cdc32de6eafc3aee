---------------------------- MODULE MCCodeServer ----------------------------
(***************************************************************************)
(* Model-checking instance of CodeServer.                                  *)
(***************************************************************************)
EXTENDS CodeServer
=============================================================================
