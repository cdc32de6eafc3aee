------------------------------ MODULE MCStores ------------------------------
(***************************************************************************)
(* Model-checking instance of Stores.                                      *)
(***************************************************************************)
EXTENDS Stores
=============================================================================
