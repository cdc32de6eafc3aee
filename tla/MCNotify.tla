------------------------------ MODULE MCNotify ------------------------------
(***************************************************************************)
(* Model-checking instances of Notify.                                     *)
(***************************************************************************)
EXTENDS Notify, TLC
=============================================================================
