---------------------------- MODULE MCObservador ----------------------------
(***************************************************************************)
(* Instances of Observador for TLC: four packets, two of which share a     *)
(* destination and can overtake each other.                                *)
(***************************************************************************)
EXTENDS Observador

MCPaquetes == 1 .. 4

MCDestino == [p \in MCPaquetes |-> IF p \in {1, 2} THEN "a" ELSE "b"]
=============================================================================
