-------------------------------- MODULE Viaje -------------------------------
(***************************************************************************)
(* What MacTx and MacRx, traced on the devices of the telephones, may tell *)
(* of the packets: the input the observer is written for (variable red of  *)
(* Observador).  A packet leaves a telephone or is emitted by a router,    *)
(* out of sight; what is on its way may reach a telephone, once; what a    *)
(* telephone has received it may send on.                                  *)
(***************************************************************************)
CONSTANT Paquete
VARIABLE lugar

Init == lugar = [p \in Paquete |-> "nuevo"]

Emite(p) == lugar[p] = "nuevo" /\ lugar' = [lugar EXCEPT ![p] = "ajeno"]

Sale(p) ==
  /\ lugar[p] \in {"nuevo", "recibido"}
  /\ lugar' = [lugar EXCEPT ![p] = "observado"]

Llega(p) ==
  /\ lugar[p] \in {"observado", "ajeno"}
  /\ lugar' = [lugar EXCEPT ![p] = "recibido"]

Next == \E p \in Paquete : Emite(p) \/ Sale(p) \/ Llega(p)

Spec == Init /\ [][Next]_lugar
=============================================================================
