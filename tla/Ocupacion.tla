------------------------------ MODULE Ocupacion -----------------------------
(***************************************************************************)
(* The occupation of the link between the routers: simular connects the    *)
(* observer's empiezaTransmitir and terminaTransmitir to the start and the *)
(* end of every transmission of Rdevices.Get(0), whose queue it cuts to    *)
(* MaxPackets packets.                                                     *)
(*                                                                         *)
(* The device is the library's: it transmits one packet at a time, takes   *)
(* the next one from its queue in the event that ends a transmission, and  *)
(* drops what arrives when the queue is full.                              *)
(***************************************************************************)
EXTENDS Naturals

CONSTANTS
  TiemposTx,          \* ticks a packet can take on the wire
  MaxPackets,         \* attribute of the device's DropTailQueue
  TFin                \* Simulator::Stop

ASSUME OcupacionAssumption ==
  /\ TiemposTx \subseteq Nat \ {0}
  /\ MaxPackets \in Nat
  /\ TFin \in Nat

VARIABLES
  ahora,
  tiempoInicial,
  acumulaTiempo,
  enviando,           \* device: a packet is on the wire
  fin,                \* device: when its transmission ends
  cola,               \* device: packets queued
  ocupado             \* history: ticks during which a packet was on the wire

vars == <<ahora, tiempoInicial, acumulaTiempo, enviando, fin, cola, ocupado>>

Init ==
  /\ ahora = 0
  /\ tiempoInicial = 0
  /\ acumulaTiempo = 0
  /\ enviando = FALSE
  /\ fin = 0
  /\ cola = 0
  /\ ocupado = 0

-----------------------------------------------------------------------------
(***************************************************************************)
(* empiezaTransmitir, on PhyTxBegin.                                       *)
(***************************************************************************)
empiezaTransmitir == tiempoInicial' = ahora

\* Fault: the time is taken from the end of the last transmission.
terminaDesdeElUltimoFin == acumulaTiempo' = ahora

(***************************************************************************)
(* terminaTransmitir, on PhyTxEnd.                                         *)
(***************************************************************************)
terminaTransmitir == acumulaTiempo' = acumulaTiempo + (ahora - tiempoInicial)

(***************************************************************************)
(* TransmitStart.                                                          *)
(***************************************************************************)
Transmite ==
  /\ empiezaTransmitir
  /\ enviando' = TRUE
  /\ \E d \in TiemposTx : fin' = ahora + d

-----------------------------------------------------------------------------
Avanza ==
  /\ ahora < TFin
  /\ enviando => ahora < fin
  /\ ahora' = ahora + 1
  /\ ocupado' = IF enviando THEN ocupado + 1 ELSE ocupado
  /\ UNCHANGED <<tiempoInicial, acumulaTiempo, enviando, fin, cola>>

(***************************************************************************)
(* A packet for the link, device idle.                                     *)
(***************************************************************************)
LlegaLibre ==
  /\ ahora < TFin
  /\ ~enviando
  /\ Transmite
  /\ UNCHANGED <<ahora, acumulaTiempo, cola, ocupado>>

\* Fault: the queue takes one packet too many.
EncolaUnoDeMas ==
  /\ ahora < TFin
  /\ enviando
  /\ cola <= MaxPackets
  /\ cola' = cola + 1
  /\ UNCHANGED <<ahora, tiempoInicial, acumulaTiempo, enviando, fin, ocupado>>

(***************************************************************************)
(* A packet for the link, device busy; with a full queue it is dropped and *)
(* nothing changes.                                                        *)
(***************************************************************************)
Encola ==
  /\ ahora < TFin
  /\ enviando
  /\ cola < MaxPackets
  /\ cola' = cola + 1
  /\ UNCHANGED <<ahora, tiempoInicial, acumulaTiempo, enviando, fin, ocupado>>

(***************************************************************************)
(* TransmitComplete: the end is traced, then the next packet starts.       *)
(***************************************************************************)
TransmitComplete ==
  /\ ahora < TFin
  /\ enviando /\ fin = ahora
  /\ terminaTransmitir
  /\ \/ /\ cola = 0
        /\ enviando' = FALSE
        /\ UNCHANGED <<tiempoInicial, fin, cola>>
     \/ /\ cola > 0
        /\ cola' = cola - 1
        /\ Transmite
  /\ UNCHANGED <<ahora, ocupado>>

(***************************************************************************)
(* GetOcupacion, as numerator and denominator: the inverse of an           *)
(* occupation.  Nobody calls it.                                           *)
(***************************************************************************)
GetOcupacion(inicio, final) == [num |-> final - inicio, den |-> acumulaTiempo]

Parado == ahora = TFin /\ UNCHANGED vars

Next == Avanza \/ LlegaLibre \/ Encola \/ TransmitComplete \/ Parado

Spec == Init /\ [][Next]_vars

-----------------------------------------------------------------------------
(***************************************************************************)
(* Properties.                                                             *)
(***************************************************************************)

TypeOK ==
  /\ ahora \in 0 .. TFin
  /\ tiempoInicial \in 0 .. TFin
  /\ acumulaTiempo \in 0 .. TFin
  /\ enviando \in BOOLEAN
  /\ fin \in Nat
  /\ cola \in 0 .. MaxPackets
  /\ ocupado \in 0 .. TFin

EnCurso == IF enviando THEN ahora - tiempoInicial ELSE 0

(***************************************************************************)
(* The accumulated time and that of the packet on the wire are exactly the *)
(* time the link was busy: back-to-back transmissions, whose end and start *)
(* fall in one event, are neither counted twice nor lost.                  *)
(***************************************************************************)
AcumulaExacto == GetOcupacion(0, ahora).den + EnCurso = ocupado
=============================================================================
