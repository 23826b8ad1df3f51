----------------------------- MODULE MCGeneradores ---------------------------
(***************************************************************************)
(* Instances of Generadores for TLC.                                       *)
(***************************************************************************)
EXTENDS Generadores
=============================================================================
