----------------------------- MODULE MCTelefonia ----------------------------
(***************************************************************************)
(* Instances of Telefonia for TLC.                                         *)
(***************************************************************************)
EXTENDS Telefonia
=============================================================================
