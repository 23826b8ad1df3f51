------------------------------- MODULE MCRed --------------------------------
(***************************************************************************)
(* Instances of Red for TLC: more and fewer links than telephones, and     *)
(* sites of different sizes.                                               *)
(***************************************************************************)
EXTENDS Red
=============================================================================
