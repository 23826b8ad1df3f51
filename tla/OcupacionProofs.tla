--------------------------- MODULE OcupacionProofs --------------------------
(***************************************************************************)
(* Theorems about Ocupacion, for any transmission times, any length of the *)
(* device's queue and any length of the run.                               *)
(***************************************************************************)
EXTENDS Ocupacion, TLAPS

(***************************************************************************)
(* The inductive invariant: the link has not been busy for longer than the *)
(* run has lasted, a transmission began in the past and its end is not     *)
(* missed, and packets wait only while another is on the wire.             *)
(***************************************************************************)
EnOrden ==
  /\ ocupado <= ahora
  /\ tiempoInicial <= ahora
  /\ enviando => ahora <= fin
  /\ cola > 0 => enviando

OcupacionInv == TypeOK /\ EnOrden /\ AcumulaExacto

(***************************************************************************)
(* The link starts idle and nothing is accumulated.                        *)
(***************************************************************************)
LEMMA InitOcupacion == Init => OcupacionInv
<1> SUFFICES ASSUME Init
             PROVE  OcupacionInv
  OBVIOUS
<1>1. ~enviando /\ enviando \in BOOLEAN
  BY DEF Init
<1>2. TypeOK
  BY <1>1, OcupacionAssumption DEF Init, TypeOK
<1>3. EnOrden
  BY <1>1 DEF Init, EnOrden
<1>4. AcumulaExacto
  BY <1>1 DEF Init, AcumulaExacto, GetOcupacion, EnCurso
<1> QED
  BY <1>2, <1>3, <1>4 DEF OcupacionInv

(***************************************************************************)
(* What a new transmission writes, whichever of its two callers starts it. *)
(***************************************************************************)
LEMMA TransmiteEscribe ==
  ASSUME OcupacionInv, Transmite
  PROVE  tiempoInicial' = ahora /\ enviando' = TRUE /\ fin' \in Nat /\ ahora <= fin'
<1>1. PICK d \in TiemposTx : fin' = ahora + d
  BY DEF Transmite
<1>2. d \in Nat \ {0} /\ ahora \in Nat
  BY OcupacionAssumption DEF OcupacionInv, TypeOK
<1> QED
  BY <1>1, <1>2 DEF Transmite, empiezaTransmitir

(***************************************************************************)
(* The clock and the traces of the device keep the accumulated time exact. *)
(***************************************************************************)
LEMMA NextOcupacion == OcupacionInv /\ [Next]_vars => OcupacionInv'
<1> SUFFICES ASSUME OcupacionInv, [Next]_vars
             PROVE  OcupacionInv'
  OBVIOUS
<1> USE OcupacionAssumption
        DEF OcupacionInv, TypeOK, EnOrden, AcumulaExacto, GetOcupacion, EnCurso
<1>1. CASE Avanza
  BY <1>1 DEF Avanza
<1>2. CASE LlegaLibre
  <2>1. tiempoInicial' = ahora /\ enviando' = TRUE /\ fin' \in Nat /\ ahora <= fin'
    BY <1>2, TransmiteEscribe DEF LlegaLibre
  <2> QED
    BY <1>2, <2>1 DEF LlegaLibre
<1>3. CASE Encola
  BY <1>3 DEF Encola
<1>4. CASE TransmitComplete
  (*************************************************************************)
  (* The end is traced with the start of this transmission, before the     *)
  (* start of the next one overwrites it.                                  *)
  (*************************************************************************)
  <2>1. /\ enviando /\ acumulaTiempo' = acumulaTiempo + (ahora - tiempoInicial)
        /\ UNCHANGED <<ahora, ocupado>>
    BY <1>4 DEF TransmitComplete, terminaTransmitir
  <2>2. acumulaTiempo' = ocupado
    BY <2>1
  <2>3. CASE cola = 0 /\ enviando' = FALSE /\ UNCHANGED <<tiempoInicial, fin, cola>>
    <3>1. ~enviando' /\ enviando' \in BOOLEAN
      BY <2>3
    <3>2. AcumulaExacto'
      BY <2>1, <2>2, <2>3, <3>1
    <3>3. EnOrden'
      BY <2>1, <2>3, <3>1
    <3>4. TypeOK'
      BY <2>1, <2>2, <2>3, <3>1
    <3> QED
      BY <3>2, <3>3, <3>4
  <2>4. CASE cola > 0 /\ cola' = cola - 1 /\ Transmite
    <3>1. tiempoInicial' = ahora /\ enviando' = TRUE /\ fin' \in Nat /\ ahora <= fin'
      BY <2>4, TransmiteEscribe
    <3> QED
      BY <2>1, <2>2, <2>4, <3>1
  <2> QED
    BY <1>4, <2>3, <2>4 DEF TransmitComplete
<1>5. CASE UNCHANGED vars
  BY <1>5 DEF vars
<1> QED
  BY <1>1, <1>2, <1>3, <1>4, <1>5 DEF Next, Parado

(***************************************************************************)
(* The callbacks of the link add up exactly the time it was busy, however  *)
(* its transmissions follow each other.                                    *)
(***************************************************************************)
THEOREM OcupacionExacta == Spec => []AcumulaExacto
<1>1. OcupacionInv => AcumulaExacto
  BY DEF OcupacionInv
<1> QED
  BY InitOcupacion, NextOcupacion, <1>1, PTL DEF Spec

(***************************************************************************)
(* Its variables keep their types: the queue does not pass its limit and   *)
(* no time passes the end of the run.                                      *)
(***************************************************************************)
THEOREM TipoDeLaOcupacion == Spec => []TypeOK
<1>1. OcupacionInv => TypeOK
  BY DEF OcupacionInv
<1> QED
  BY InitOcupacion, NextOcupacion, <1>1, PTL DEF Spec
=============================================================================
