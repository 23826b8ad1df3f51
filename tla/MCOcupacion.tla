----------------------------- MODULE MCOcupacion ----------------------------
(***************************************************************************)
(* Instances of Ocupacion for TLC.                                         *)
(***************************************************************************)
EXTENDS Ocupacion
=============================================================================
