----------------------------- MODULE MCCodeProxy ----------------------------
(***************************************************************************)
(* Model-checking instances of CodeProxy.                                  *)
(***************************************************************************)
EXTENDS CodeProxy
=============================================================================
