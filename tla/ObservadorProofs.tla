-------------------------- MODULE ObservadorProofs --------------------------
(***************************************************************************)
(* Theorems about Observador, for any number of packets and destinations,  *)
(* whatever the network does with them, and any length of the run.         *)
(***************************************************************************)
EXTENDS Observador, Induccion

(***************************************************************************)
(* The structure and the table of last delays stay finite.                 *)
(***************************************************************************)
LEMMA SubconjuntosFinitos ==
  /\ \A S \in SUBSET DeIP : IsFiniteSet(S) /\ Cardinality(S) \in Nat
  /\ \A D \in SUBSET Destinos : IsFiniteSet(D) /\ Cardinality(D) \in Nat
<1> DEFINE destino == [p \in Paquetes |-> Destino[p]]
<1>1. destino \in Surjection(Paquetes, Destinos)
  BY DEF Surjection, Destinos
<1>2. IsFiniteSet(Destinos)
  BY <1>1, FS_Surjection, ObservadorAssumption
<1>3. \A S \in SUBSET DeIP : IsFiniteSet(S)
  BY FS_Subset, ObservadorAssumption
<1>4. \A D \in SUBSET Destinos : IsFiniteSet(D)
  BY <1>2, FS_Subset
<1> QED
  BY <1>3, <1>4, FS_CardinalityType

(***************************************************************************)
(* Writing and erasing an entry of a map.                                  *)
(***************************************************************************)
LEMMA AsignaDominio ==
  ASSUME NEW map, NEW k, NEW v
  PROVE  DOMAIN Asigna(map, k, v) = DOMAIN map \cup {k}
  BY DEF Asigna

(***************************************************************************)
(* Storing under a key adds that key only.                                 *)
(***************************************************************************)
LEMMA AsignaTipo ==
  ASSUME NEW map, NEW k, NEW V, NEW v \in V, map \in [DOMAIN map -> V]
  PROVE  Asigna(map, k, v) \in [DOMAIN map \cup {k} -> V]
  BY DEF Asigna

(***************************************************************************)
(* erase takes one key away and leaves the rest as it was.                 *)
(***************************************************************************)
LEMMA BorraQuita ==
  ASSUME NEW map, NEW k, NEW V, map \in [DOMAIN map -> V]
  PROVE  /\ Borra(map, k) \in [DOMAIN map \ {k} -> V]
         /\ \A j \in DOMAIN map \ {k} : Borra(map, k)[j] = map[j]
  BY DEF Borra, Restrict

(***************************************************************************)
(* A sample is an integer number of milliseconds and counts as one.        *)
(***************************************************************************)
LEMMA EnMsTipo ==
  ASSUME NEW t \in Int
  PROVE  EnMs(t) \in Int
  BY ObservadorAssumption DEF EnMs

(***************************************************************************)
(* An update of an average counts one sample more.                         *)
(***************************************************************************)
LEMMA MuestraTipo ==
  ASSUME NEW media \in Medias, NEW t \in Int
  PROVE  /\ Muestra(media, t) \in Medias
         /\ Muestra(media, t).n = media.n + 1
  BY DEF Muestra, Medias

-----------------------------------------------------------------------------
(***************************************************************************)
(* The inductive invariant: the four invariants of the runs together, and  *)
(* the range of the history variables.  EnviadosCuadran needs to know what *)
(* the structure holds (a packet that leaves is not in it), the percentage *)
(* needs EnviadosCuadran (no more packets lost than sent), and             *)
(* MuestrasEmparejadas needs delays that are not zero (TypeOK), which stand*)
(* for "none yet" in the code.                                             *)
(***************************************************************************)
HistoriaOK == noIP \in Nat /\ vistos \in Nat

ObservadorInv ==
  /\ TypeOK
  /\ HistoriaOK
  /\ ArrayEsLoPendiente
  /\ EnviadosCuadran
  /\ MuestrasEmparejadas

(***************************************************************************)
(* An observer starts with nothing pending and no samples.                 *)
(***************************************************************************)
LEMMA InitObservador == Init => ObservadorInv
<1> SUFFICES ASSUME Init
             PROVE  ObservadorInv
  OBVIOUS
<1>1. Cardinality({}) = 0
  BY FS_EmptySet
<1>2. DOMAIN array = {} /\ DOMAIN arrayTiempoAnterior = {}
  BY DEF Init
<1>3. TypeOK
  BY <1>2, ObservadorAssumption DEF Init, TypeOK, Medias, Vacia
<1>4. HistoriaOK
  BY DEF Init, HistoriaOK
<1>5. ArrayEsLoPendiente
  BY <1>2, ObservadorAssumption DEF Init, ArrayEsLoPendiente
<1>6. EnviadosCuadran
  BY <1>1, <1>2 DEF Init, EnviadosCuadran
<1>7. MuestrasEmparejadas
  BY <1>1, <1>2 DEF Init, MuestrasEmparejadas, Vacia
<1> QED
  BY <1>3, <1>4, <1>5, <1>6, <1>7 DEF ObservadorInv

(***************************************************************************)
(* A packet enters the structure: it was not there, whether it is the      *)
(* telephone's own or one it forwards.                                     *)
(***************************************************************************)
LEMMA EnviadoObservador ==
  ASSUME ObservadorInv, NEW p \in Paquetes, PktEnviado(p)
  PROVE  ObservadorInv'
<1>1. /\ ahora < TFin /\ ahora \in 0 .. TFin /\ ahora' = ahora
      /\ red[p] \in {"nuevo", "recibido"}
      /\ red' = [red EXCEPT ![p] = "observado"]
      /\ salida' = [salida EXCEPT ![p] = ahora]
      /\ m_enviados' = m_enviados + 1
      /\ UNCHANGED <<arrayTiempoAnterior, m_recibidos, Jitter, Retardo,
                     resultado, base, vistos>>
  BY DEF PktEnviado, Sale, ObservadorInv, TypeOK
<1>2. red \in [Paquetes -> {"nuevo", "observado", "ajeno", "recibido"}]
      /\ salida \in [Paquetes -> 0 .. TFin]
  BY DEF ObservadorInv, TypeOK
<1>3. p \notin DOMAIN array
  BY <1>1 DEF ObservadorInv, ArrayEsLoPendiente
<1>4. CASE p \in DeIP
  <2>1. array' = Asigna(array, p, ahora) /\ noIP' = noIP
    BY <1>4 DEF PktEnviado, EsIP
  <2>2. DOMAIN array' = DOMAIN array \cup {p}
    BY <2>1, AsignaDominio
  <2>3. array' \in [DOMAIN array' -> 0 .. TFin]
    BY <1>1, <2>1, <2>2, AsignaTipo DEF ObservadorInv, TypeOK
  <2>4. TypeOK'
    BY <1>1, <1>2, <1>4, <2>2, <2>3 DEF ObservadorInv, TypeOK, resultado
  <2>5. HistoriaOK'
    BY <1>1, <2>1 DEF ObservadorInv, HistoriaOK
  <2>6. ArrayEsLoPendiente'
    <3>1. DOMAIN array' = {q \in DeIP : red'[q] = "observado"}
      BY <1>1, <1>2, <1>4, <2>2, ObservadorAssumption
         DEF ObservadorInv, ArrayEsLoPendiente
    <3>2. ASSUME NEW q \in DOMAIN array'
          PROVE  array'[q] = salida'[q]
      <4>1. q \in Paquetes
        BY <3>1, ObservadorAssumption
      <4>2. CASE q = p
        <5>1. array'[p] = ahora
          BY <2>1 DEF Asigna
        <5> QED
          BY <1>1, <1>2, <4>2, <5>1
      <4>3. CASE q # p
        <5>1. q \in DOMAIN array \ {p}
          BY <2>2, <4>3
        <5>2. array'[q] = array[q]
          BY <2>1, <5>1 DEF Asigna
        <5>3. array[q] = salida[q]
          BY <5>1 DEF ObservadorInv, ArrayEsLoPendiente
        <5> QED
          BY <1>1, <1>2, <4>1, <4>3, <5>2, <5>3
      <4> QED
        BY <4>2, <4>3
    <3> QED
      BY <3>1, <3>2 DEF ArrayEsLoPendiente
  <2>7. EnviadosCuadran'
    <3>1. /\ IsFiniteSet(DOMAIN array) /\ Cardinality(DOMAIN array) \in Nat
      BY SubconjuntosFinitos DEF ObservadorInv, TypeOK
    <3>2. Cardinality(DOMAIN array') = Cardinality(DOMAIN array) + 1
      BY <1>3, <2>2, <3>1, FS_AddElement
    <3> QED
      BY <1>1, <2>1, <3>1, <3>2
         DEF ObservadorInv, TypeOK, HistoriaOK, EnviadosCuadran
  <2>8. MuestrasEmparejadas'
    BY <1>1 DEF ObservadorInv, MuestrasEmparejadas
  <2> QED
    BY <2>4, <2>5, <2>6, <2>7, <2>8 DEF ObservadorInv
<1>5. CASE p \notin DeIP
  <2>1. array' = array /\ noIP' = noIP + 1
    BY <1>5 DEF PktEnviado, EsIP
  <2>2. TypeOK'
    BY <1>1, <1>2, <2>1 DEF ObservadorInv, TypeOK, resultado
  <2>3. HistoriaOK'
    BY <1>1, <2>1 DEF ObservadorInv, HistoriaOK
  <2>4. ArrayEsLoPendiente'
    BY <1>1, <1>2, <1>5, <2>1, ObservadorAssumption
       DEF ObservadorInv, ArrayEsLoPendiente
  <2>5. EnviadosCuadran'
    <3>1. Cardinality(DOMAIN array) \in Nat
      BY SubconjuntosFinitos DEF ObservadorInv, TypeOK
    <3> QED
      BY <1>1, <2>1, <3>1 DEF ObservadorInv, TypeOK, HistoriaOK, EnviadosCuadran
  <2>6. MuestrasEmparejadas'
    BY <1>1 DEF ObservadorInv, MuestrasEmparejadas
  <2> QED
    BY <2>2, <2>3, <2>4, <2>5, <2>6 DEF ObservadorInv
<1> QED
  BY <1>4, <1>5

(***************************************************************************)
(* A packet of the structure is measured: the delay is at least one tick,  *)
(* so its destination has one to compare with from then on.                *)
(***************************************************************************)
LEMMA RecibidoObservador ==
  ASSUME ObservadorInv, NEW p \in Paquetes, PktRecibido(p)
  PROVE  ObservadorInv'
<1> DEFINE d == Destino[p]
           retardo == RetardoDe(p)
<1>1. /\ ahora \in 0 .. TFin /\ ahora' = ahora
      /\ p \in DeIP /\ p \in DOMAIN array
      /\ salida[p] < ahora /\ salida' = salida
      /\ red' = [red EXCEPT ![p] = "recibido"]
      /\ m_recibidos' = m_recibidos + 1
      /\ array' = Borra(array, p)
      /\ arrayTiempoAnterior' = Asigna(arrayTiempoAnterior, d, retardo)
      /\ Retardo' = Muestra(Retardo, EnMs(retardo))
      /\ Jitter' = JitterCon(p)
      /\ UNCHANGED <<m_enviados, resultado, noIP, vistos>>
  BY DEF PktRecibido, Llega, EsIP, ObservadorInv, TypeOK
<1>2. red \in [Paquetes -> {"nuevo", "observado", "ajeno", "recibido"}]
      /\ salida \in [Paquetes -> 0 .. TFin]
  BY DEF ObservadorInv, TypeOK
<1>3. retardo \in 1 .. TFin
  BY <1>1, <1>2, ObservadorAssumption
     DEF RetardoDe, ObservadorInv, ArrayEsLoPendiente
<1> HIDE DEF d, retardo
<1>4. DOMAIN array' = DOMAIN array \ {p}
      /\ array' \in [DOMAIN array' -> 0 .. TFin]
      /\ \A q \in DOMAIN array' : array'[q] = array[q]
  <2>1. array \in [DOMAIN array -> 0 .. TFin]
    BY DEF ObservadorInv, TypeOK
  <2>2. /\ Borra(array, p) \in [DOMAIN array \ {p} -> 0 .. TFin]
        /\ \A q \in DOMAIN array \ {p} : Borra(array, p)[q] = array[q]
    BY <2>1, BorraQuita
  <2>3. array' = Borra(array, p)
    BY <1>1
  <2> QED
    BY <2>2, <2>3
<1>5. DOMAIN arrayTiempoAnterior' = DOMAIN arrayTiempoAnterior \cup {d}
  <2>1. arrayTiempoAnterior' = Asigna(arrayTiempoAnterior, d, retardo)
    BY <1>1
  <2> QED
    BY <2>1, AsignaDominio
<1>6. arrayTiempoAnterior' \in [DOMAIN arrayTiempoAnterior' -> 1 .. TFin]
  BY <1>1, <1>3, <1>5, AsignaTipo DEF ObservadorInv, TypeOK
<1>7. d \in Destinos
  BY DEF Destinos, d
<1>8. /\ Retardo' \in Medias /\ Retardo'.n = Retardo.n + 1
      /\ Jitter' \in Medias
      /\ Jitter'.n = IF d \in DOMAIN arrayTiempoAnterior
                     THEN Jitter.n + 1 ELSE Jitter.n
  <2>1. Retardo' \in Medias /\ Retardo'.n = Retardo.n + 1
    <3>1. EnMs(retardo) \in Int /\ Retardo \in Medias
      BY <1>3, EnMsTipo DEF ObservadorInv, TypeOK
    <3>2. Retardo' = Muestra(Retardo, EnMs(retardo))
      BY <1>1
    <3> QED
      BY <3>1, <3>2, MuestraTipo
  <2>2. ASSUME d \in DOMAIN arrayTiempoAnterior
        PROVE  Jitter' \in Medias /\ Jitter'.n = Jitter.n + 1
    <3>1. arrayTiempoAnterior[d] \in 1 .. TFin
      BY <2>2 DEF ObservadorInv, TypeOK
    <3>2. Jitter' = Muestra(Jitter, EnMs(retardo - arrayTiempoAnterior[d]))
      BY <1>1, <2>2, <3>1 DEF JitterCon, d, retardo
    <3>3. retardo - arrayTiempoAnterior[d] \in Int
      BY <1>3, <3>1
    <3>4. EnMs(retardo - arrayTiempoAnterior[d]) \in Int /\ Jitter \in Medias
      BY <3>3, EnMsTipo DEF ObservadorInv, TypeOK
    <3> QED
      BY <2>2, <3>2, <3>4, MuestraTipo
  <2>3. ASSUME d \notin DOMAIN arrayTiempoAnterior
        PROVE  Jitter' \in Medias /\ Jitter'.n = Jitter.n
    BY <1>1, <2>3 DEF JitterCon, ObservadorInv, TypeOK, d
  <2> QED
    BY <2>1, <2>2, <2>3
<1>9. TypeOK'
  BY <1>1, <1>2, <1>4, <1>5, <1>6, <1>7, <1>8
     DEF ObservadorInv, TypeOK, resultado
<1>10. HistoriaOK'
  BY <1>1 DEF ObservadorInv, HistoriaOK
<1>11. ArrayEsLoPendiente'
  <2>1. DOMAIN array' = {q \in DeIP : red'[q] = "observado"}
    BY <1>1, <1>2, <1>4, ObservadorAssumption DEF ObservadorInv, ArrayEsLoPendiente
  <2> QED
    BY <1>1, <1>4, <2>1 DEF ObservadorInv, ArrayEsLoPendiente
<1>12. EnviadosCuadran'
  <2>1. IsFiniteSet(DOMAIN array) /\ Cardinality(DOMAIN array) \in Nat
    BY SubconjuntosFinitos DEF ObservadorInv, TypeOK
  <2>2. Cardinality(DOMAIN array') = Cardinality(DOMAIN array) - 1
    BY <1>1, <1>4, <2>1, FS_RemoveElement
  <2> QED
    BY <1>1, <2>1, <2>2 DEF ObservadorInv, TypeOK, HistoriaOK, EnviadosCuadran
<1>13. MuestrasEmparejadas'
  <2>1. /\ IsFiniteSet(DOMAIN arrayTiempoAnterior)
        /\ Cardinality(DOMAIN arrayTiempoAnterior) \in Nat
    BY SubconjuntosFinitos DEF ObservadorInv, TypeOK
  <2>2. Cardinality(DOMAIN arrayTiempoAnterior') =
          IF d \in DOMAIN arrayTiempoAnterior
          THEN Cardinality(DOMAIN arrayTiempoAnterior)
          ELSE Cardinality(DOMAIN arrayTiempoAnterior) + 1
    BY <1>5, <2>1, FS_AddElement
  <2>3. Retardo.n \in Nat /\ Jitter.n \in Nat /\ vistos \in Nat
    BY DEF ObservadorInv, TypeOK, HistoriaOK, Medias
  <2> QED
    BY <1>1, <1>8, <2>1, <2>2, <2>3 DEF ObservadorInv, MuestrasEmparejadas
<1> QED
  BY <1>9, <1>10, <1>11, <1>12, <1>13 DEF ObservadorInv

(***************************************************************************)
(* No more packets are lost than were sent, so the integer quotient is     *)
(* zero or one.                                                            *)
(***************************************************************************)
LEMMA GetQoSObservador ==
  ASSUME ObservadorInv, GetQoS
  PROVE  ObservadorInv'
<1>1. /\ m_enviados \in Nat \ {0}
      /\ m_perdidos' = Cardinality(DOMAIN array)
      /\ m_porcentaje' = (m_perdidos' \div m_enviados) * 100
      /\ fase' = "medido"
      /\ UNCHANGED <<ahora, medidas, red, salida, historia>>
  BY DEF GetQoS, ObservadorInv, TypeOK
<1>2. Cardinality(DOMAIN array) \in Nat
  BY SubconjuntosFinitos DEF ObservadorInv, TypeOK
<1>3. m_perdidos' \in Nat /\ m_perdidos' <= m_enviados
  BY <1>1, <1>2 DEF ObservadorInv, TypeOK, HistoriaOK, EnviadosCuadran
<1>4. m_perdidos' \div m_enviados \in {0, 1}
  <2>1. ASSUME NEW a \in Nat, NEW b \in Nat \ {0}, a <= b
        PROVE  a \div b \in {0, 1}
    <3>1. CASE a = b
      BY <2>1, <3>1
    <3>2. CASE a < b
      BY <2>1, <3>2
    <3> QED
      BY <2>1, <3>1, <3>2
  <2> QED
    BY <1>1, <1>3, <2>1
<1>5. m_porcentaje' \in 0 .. 100
  BY <1>1, <1>4
<1>6. TypeOK'
  BY <1>1, <1>3, <1>5 DEF ObservadorInv, TypeOK, medidas
<1> QED
  BY <1>1, <1>6
     DEF ObservadorInv, HistoriaOK, ArrayEsLoPendiente, EnviadosCuadran,
         MuestrasEmparejadas, medidas, historia

(***************************************************************************)
(* Every callback and every move of a packet keep the invariant.           *)
(***************************************************************************)
LEMMA NextObservador == ObservadorInv /\ [Next]_vars => ObservadorInv'
<1> SUFFICES ASSUME ObservadorInv, [Next]_vars
             PROVE  ObservadorInv'
  OBVIOUS
<1> USE DEF ObservadorInv, HistoriaOK, ArrayEsLoPendiente, EnviadosCuadran,
            MuestrasEmparejadas
<1>1. CASE Avanza
  BY <1>1, ObservadorAssumption
     DEF Avanza, TypeOK, medidas, resultado, historia
<1>2. ASSUME NEW p \in Paquetes, Emite(p)
      PROVE  ObservadorInv'
  <2>1. /\ red[p] = "nuevo" /\ red' = [red EXCEPT ![p] = "ajeno"]
        /\ ahora < TFin /\ salida' = [salida EXCEPT ![p] = ahora]
        /\ UNCHANGED <<ahora, medidas, resultado, historia>>
    BY <1>2 DEF Emite
  <2>2. TypeOK'
    BY <2>1 DEF TypeOK, medidas, resultado
  <2>3. ArrayEsLoPendiente'
    <3>1. p \notin DOMAIN array /\ DOMAIN array \subseteq Paquetes
      BY <2>1, ObservadorAssumption
    <3>2. DOMAIN array = {q \in DeIP : red'[q] = "observado"}
      BY <2>1, ObservadorAssumption DEF TypeOK
    <3>3. \A q \in DOMAIN array : array[q] = salida'[q]
      BY <2>1, <3>1 DEF TypeOK
    <3> QED
      BY <2>1, <3>2, <3>3 DEF medidas
  <2> QED
    BY <2>1, <2>2, <2>3 DEF medidas, historia
<1>3. ASSUME NEW p \in Paquetes, PktEnviado(p)
      PROVE  ObservadorInv'
  BY <1>3, EnviadoObservador
<1>4. ASSUME NEW p \in Paquetes, PktRecibido(p)
      PROVE  ObservadorInv'
  BY <1>4, RecibidoObservador
<1>5. ASSUME NEW p \in Paquetes, PktRecibidoDesconocido(p)
      PROVE  ObservadorInv'
  <2>1. /\ p \notin DeIP \/ p \notin DOMAIN array
        /\ red' = [red EXCEPT ![p] = "recibido"]
        /\ UNCHANGED <<ahora, salida, medidas, resultado, historia>>
    BY <1>5 DEF PktRecibidoDesconocido, Llega, EsIP
  <2>2. TypeOK'
    BY <2>1 DEF TypeOK, medidas, resultado
  <2>3. DOMAIN array = {q \in DeIP : red'[q] = "observado"}
    BY <2>1, ObservadorAssumption DEF TypeOK
  <2> QED
    BY <2>1, <2>2, <2>3 DEF medidas, historia
<1>6. CASE Reset
  <2>1. /\ Jitter' = Vacia /\ Retardo' = Vacia
        /\ vistos' = Cardinality(DOMAIN arrayTiempoAnterior)
        /\ UNCHANGED <<ahora, array, arrayTiempoAnterior, m_enviados, m_recibidos,
                       resultado, red, salida, noIP>>
    BY <1>6 DEF Reset
  <2>2. Cardinality(DOMAIN arrayTiempoAnterior) \in Nat
    BY SubconjuntosFinitos DEF TypeOK
  <2>3. TypeOK'
    BY <2>1 DEF TypeOK, resultado, Vacia, Medias
  <2> QED
    BY <2>1, <2>2, <2>3 DEF Vacia
<1>7. CASE GetQoS
  BY <1>7, GetQoSObservador
<1>8. CASE GetQoSSinTrafico
  <2>1. Cardinality(DOMAIN array) \in Nat
    BY SubconjuntosFinitos DEF TypeOK
  <2>2. TypeOK'
    BY <1>8, <2>1 DEF GetQoSSinTrafico, TypeOK, medidas
  <2> QED
    BY <1>8, <2>2 DEF GetQoSSinTrafico, medidas, historia
<1>9. CASE UNCHANGED vars
  BY <1>9 DEF vars, TypeOK, medidas, resultado, historia
<1> QED
  BY <1>1, <1>2, <1>3, <1>4, <1>5, <1>6, <1>7, <1>8, <1>9 DEF Next, Acabado

(***************************************************************************)
(* The observer keeps the books whatever the network does: the structure is*)
(* exactly what the network holds, each packet is counted once, delays and *)
(* jitters are of the same packets.                                        *)
(***************************************************************************)
THEOREM Cuentas == Spec => []ObservadorInv
<1> QED
  BY InitObservador, NextObservador, PTL DEF Spec

(***************************************************************************)
(* The variables of the observer keep their types: no time it stores is    *)
(* beyond the end of the run, no key is a packet that is not IP.           *)
(***************************************************************************)
THEOREM TipoDelObservador == Spec => []TypeOK
<1>1. ObservadorInv => TypeOK
  BY DEF ObservadorInv
<1> QED
  BY Cuentas, <1>1, PTL

(***************************************************************************)
(* PktEnviado and PktRecibido keep array equal to the IP packets that left *)
(* a telephone and reached none, whatever is lost, overtaken or forwarded, *)
(* for any number of packets.                                              *)
(***************************************************************************)
THEOREM EstructuraEsLoPendiente == Spec => []ArrayEsLoPendiente
<1>1. ObservadorInv => ArrayEsLoPendiente
  BY DEF ObservadorInv
<1> QED
  BY Cuentas, <1>1, PTL

(***************************************************************************)
(* Every packet that m_enviados counts is in m_recibidos, in array or was  *)
(* not IP, and in one of them only.                                        *)
(***************************************************************************)
THEOREM CadaPaqueteUnaVez == Spec => []EnviadosCuadran
<1>1. ObservadorInv => EnviadosCuadran
  BY DEF ObservadorInv
<1> QED
  BY Cuentas, <1>1, PTL

(***************************************************************************)
(* The averages of delay and jitter are taken over the same packets but    *)
(* for the first of each destination, across any number of Resets.         *)
(***************************************************************************)
THEOREM MismasMuestras == Spec => []MuestrasEmparejadas
<1>1. ObservadorInv => MuestrasEmparejadas
  BY DEF ObservadorInv
<1> QED
  BY Cuentas, <1>1, PTL

-----------------------------------------------------------------------------
(***************************************************************************)
(* The jitter.  Dropping the fraction of a millisecond is wrong by less    *)
(* than one, on either side of zero.                                       *)
(***************************************************************************)
LEMMA EnMsCasiExacto ==
  ASSUME NEW t \in Int
  PROVE  /\ EnMs(t) * TicksPorMs - t <= TicksPorMs - 1
         /\ t - EnMs(t) * TicksPorMs <= TicksPorMs - 1
<1>1. TicksPorMs \in Nat \ {0}
  BY ObservadorAssumption
<1>2. ASSUME NEW a \in Nat
      PROVE  /\ a \div TicksPorMs \in Nat
             /\ (a \div TicksPorMs) * TicksPorMs <= a
             /\ a - (a \div TicksPorMs) * TicksPorMs <= TicksPorMs - 1
  BY <1>1
<1>3. CASE t >= 0
  BY <1>1, <1>2, <1>3 DEF EnMs
<1>4. CASE t < 0
  <2> DEFINE q == (-t) \div TicksPorMs
  <2>1. -t \in Nat /\ EnMs(t) = -q
    BY <1>4 DEF EnMs
  <2>2. q \in Nat /\ q * TicksPorMs <= -t /\ (-t) - q * TicksPorMs <= TicksPorMs - 1
    BY <1>2, <2>1
  <2> HIDE DEF q
  <2>3. EnMs(t) * TicksPorMs = -(q * TicksPorMs) /\ q * TicksPorMs \in Nat
    BY <1>1, <2>1, <2>2
  <2> QED
    BY <1>1, <2>1, <2>2, <2>3
<1> QED
  BY <1>3, <1>4

(***************************************************************************)
(* How much the delay of each destination has changed since the first one, *)
(* and by how much the samples differ from the sum of the changes.         *)
(***************************************************************************)
Cambios == [d \in DOMAIN arrayTiempoAnterior |-> arrayTiempoAnterior[d] - base[d]]

BaseOK ==
  /\ DOMAIN base = DOMAIN arrayTiempoAnterior
  /\ base \in [DOMAIN base -> Int]

JitterInv == ObservadorInv /\ BaseOK /\ JitterSeCancela

(***************************************************************************)
(* No samples of jitter at the start.                                      *)
(***************************************************************************)
LEMMA InitJitter == Init => JitterInv
<1> SUFFICES ASSUME Init
             PROVE  JitterInv
  OBVIOUS
<1>1. DOMAIN arrayTiempoAnterior = {} /\ DOMAIN base = {} /\ DOMAIN Cambios = {}
  BY DEF Init, Cambios
<1>2. SumFunction(Cambios) = 0
  BY <1>1, SumaVacia DEF SumFunction
<1>3. Jitter.total = 0 /\ Jitter.n = 0 /\ TicksPorMs \in Nat
  BY ObservadorAssumption DEF Init, Vacia
<1>4. JitterSeCancela
  BY <1>1, <1>2, <1>3 DEF JitterSeCancela, Cambios
<1>5. BaseOK
  BY <1>1 DEF Init, BaseOK
<1> QED
  BY <1>4, <1>5, InitObservador DEF JitterInv

(***************************************************************************)
(* A first delay changes nothing; a later one changes the sum as much as   *)
(* its sample, but for the fraction.                                       *)
(***************************************************************************)
LEMMA RecibidoJitter ==
  ASSUME JitterInv, NEW p \in Paquetes, PktRecibido(p)
  PROVE  BaseOK' /\ JitterSeCancela'
<1> DEFINE d == Destino[p]
           r == RetardoDe(p)
           D == DOMAIN arrayTiempoAnterior
<1>1. /\ arrayTiempoAnterior' = Asigna(arrayTiempoAnterior, d, r)
      /\ base' = IF d \in DOMAIN base THEN base ELSE Asigna(base, d, r)
      /\ Jitter' = JitterCon(p)
  BY DEF PktRecibido
<1>2. r \in Int
  <2>1. p \in DOMAIN array
    BY DEF PktRecibido
  <2>2. array[p] \in Int /\ ahora \in Int
    BY <2>1 DEF JitterInv, ObservadorInv, TypeOK
  <2> QED
    BY <2>2 DEF RetardoDe
<1>3. /\ D = DOMAIN base /\ base \in [D -> Int]
      /\ arrayTiempoAnterior \in [D -> 1 .. TFin]
      /\ Jitter.n \in Nat /\ Jitter.total \in Int /\ TicksPorMs \in Nat \ {0}
  BY ObservadorAssumption DEF JitterInv, ObservadorInv, TypeOK, BaseOK, Medias
<1>4. IsFiniteSet(D)
  BY SubconjuntosFinitos DEF JitterInv, ObservadorInv, TypeOK
<1>5. Cambios \in [D -> Int]
  BY <1>3 DEF Cambios
<1> DEFINE exceso == Jitter.total * TicksPorMs - SumFunction(Cambios)
           tope == (TicksPorMs - 1) * Jitter.n
<1>6. -tope <= exceso /\ exceso <= tope
  BY DEF JitterInv, JitterSeCancela, Cambios
<1> HIDE DEF d, r
<1>7. CASE d \notin D
  <2>1. /\ DOMAIN arrayTiempoAnterior' = D \cup {d} /\ DOMAIN base' = D \cup {d}
        /\ arrayTiempoAnterior'[d] = r /\ base'[d] = r
        /\ \A x \in D : arrayTiempoAnterior'[x] = arrayTiempoAnterior[x]
                       /\ base'[x] = base[x]
        /\ base' \in [D \cup {d} -> Int]
    BY <1>1, <1>2, <1>3, <1>7 DEF Asigna
  <2>2. Jitter' = Jitter
    BY <1>1, <1>7 DEF JitterCon, d
  <2>3. /\ Cambios' \in [D \cup {d} -> Int] /\ Cambios'[d] = 0
        /\ \A x \in D : Cambios'[x] = Cambios[x]
    BY <1>2, <1>3, <2>1 DEF Cambios
  <2>4. SumFunction(Cambios) \in Int
        /\ SumFunction(Cambios') = SumFunction(Cambios) + Cambios'[d]
    <3> HIDE DEF D
    <3> QED
      BY <1>4, <1>5, <1>7, <2>3, SumaUnoMas
  <2>5. SumFunction(Cambios') = SumFunction(Cambios)
    BY <2>3, <2>4
  <2>6. JitterSeCancela'
    BY <1>6, <2>1, <2>2, <2>5 DEF JitterSeCancela, Cambios
  <2> QED
    BY <2>1, <2>6 DEF BaseOK
<1>8. CASE d \in D
  <2> DEFINE delta == r - arrayTiempoAnterior[d]
  <2>1. /\ DOMAIN arrayTiempoAnterior' = D /\ base' = base
        /\ arrayTiempoAnterior'[d] = r
        /\ \A x \in D \ {d} : arrayTiempoAnterior'[x] = arrayTiempoAnterior[x]
    BY <1>1, <1>3, <1>8 DEF Asigna
  <2>2. arrayTiempoAnterior[d] \in 1 .. TFin /\ base[d] \in Int /\ delta \in Int
    BY <1>2, <1>3, <1>8
  <2>3. /\ Jitter'.n = Jitter.n + 1
        /\ Jitter'.total = Jitter.total + EnMs(delta)
    BY <1>1, <1>8, <2>2 DEF JitterCon, Muestra, d, r
  <2>4. /\ Cambios' \in [D -> Int]
        /\ Cambios'[d] = r - base[d] /\ Cambios[d] = arrayTiempoAnterior[d] - base[d]
        /\ \A x \in D \ {d} : Cambios'[x] = Cambios[x]
    BY <1>2, <1>3, <1>8, <2>1 DEF Cambios
  <2>5. SumFunction(Cambios) \in Int
        /\ SumFunction(Cambios') = SumFunction(Cambios) - Cambios[d] + Cambios'[d]
    <3> HIDE DEF D
    <3> QED
      BY <1>4, <1>5, <1>8, <2>4, SumaCambiaUno
  <2>6. SumFunction(Cambios') = SumFunction(Cambios) + delta
    BY <1>2, <2>2, <2>4, <2>5
  <2>7. /\ EnMs(delta) \in Int
        /\ EnMs(delta) * TicksPorMs - delta <= TicksPorMs - 1
        /\ delta - EnMs(delta) * TicksPorMs <= TicksPorMs - 1
    BY <2>2, EnMsTipo, EnMsCasiExacto
  <2> HIDE DEF delta
  <2>8. /\ Jitter'.total * TicksPorMs =
             Jitter.total * TicksPorMs + EnMs(delta) * TicksPorMs
        /\ (TicksPorMs - 1) * Jitter'.n = (TicksPorMs - 1) * Jitter.n + (TicksPorMs - 1)
    <3>1. \A a, b, c \in Int : (a + b) * c = a * c + b * c /\ c * (a + 1) = c * a + c
      OBVIOUS
    <3>2. TicksPorMs \in Int /\ TicksPorMs - 1 \in Int
      BY <1>3
    <3>3. (Jitter.total + EnMs(delta)) * TicksPorMs =
             Jitter.total * TicksPorMs + EnMs(delta) * TicksPorMs
      BY <1>3, <2>7, <3>1, <3>2
    <3>4. (TicksPorMs - 1) * (Jitter.n + 1) = (TicksPorMs - 1) * Jitter.n + (TicksPorMs - 1)
      BY <1>3, <3>1, <3>2
    <3> QED
      BY <2>3, <3>3, <3>4
  <2>9. /\ Jitter.total * TicksPorMs \in Int /\ EnMs(delta) * TicksPorMs \in Int
        /\ (TicksPorMs - 1) * Jitter.n \in Int
    BY <1>3, <2>7
  <2>10. /\ -((TicksPorMs - 1) * Jitter'.n)
               <= Jitter'.total * TicksPorMs - SumFunction(Cambios')
         /\ Jitter'.total * TicksPorMs - SumFunction(Cambios')
               <= (TicksPorMs - 1) * Jitter'.n
    <3>1. delta \in Int
      BY <2>2
    <3> QED
      BY <1>3, <1>6, <2>5, <2>6, <2>7, <2>8, <2>9, <3>1
  <2>11. JitterSeCancela'
    BY <1>3, <2>1, <2>10 DEF JitterSeCancela, Cambios
  <2> QED
    BY <1>3, <2>1, <2>11 DEF BaseOK
<1> QED
  BY <1>7, <1>8

(***************************************************************************)
(* Every step keeps the telescoping sum of the jitter.                     *)
(***************************************************************************)
LEMMA NextJitter == JitterInv /\ [Next]_vars => JitterInv'
<1> SUFFICES ASSUME JitterInv, [Next]_vars
             PROVE  BaseOK' /\ JitterSeCancela'
  BY NextObservador DEF JitterInv
<1>1. ASSUME NEW p \in Paquetes, PktRecibido(p)
      PROVE  BaseOK' /\ JitterSeCancela'
  BY <1>1, RecibidoJitter
<1>2. CASE Reset
  <2>1. /\ Jitter' = Vacia /\ base' = arrayTiempoAnterior
        /\ UNCHANGED arrayTiempoAnterior
    BY <1>2 DEF Reset
  <2>2. arrayTiempoAnterior \in [DOMAIN arrayTiempoAnterior -> 1 .. TFin]
        /\ IsFiniteSet(DOMAIN arrayTiempoAnterior)
    BY SubconjuntosFinitos DEF JitterInv, ObservadorInv, TypeOK
  <2>3. BaseOK'
    BY <2>1, <2>2 DEF BaseOK
  <2>4. DOMAIN Cambios' = DOMAIN arrayTiempoAnterior
        /\ \A d \in DOMAIN arrayTiempoAnterior : Cambios'[d] = 0
    BY <2>1, <2>2 DEF Cambios
  <2>5. SumFunction(Cambios') = 0
    BY <2>2, <2>4, SumaDeCeros DEF SumFunction
  <2>6. Jitter'.total = 0 /\ Jitter'.n = 0 /\ TicksPorMs \in Nat
    BY <2>1, ObservadorAssumption DEF Vacia
  <2>7. JitterSeCancela'
    BY <2>1, <2>5, <2>6 DEF JitterSeCancela, Cambios
  <2> QED
    BY <2>3, <2>7
<1>3. CASE UNCHANGED <<arrayTiempoAnterior, Jitter, base>>
  BY <1>3 DEF JitterInv, BaseOK, JitterSeCancela
<1>4. \/ Reset
      \/ \E p \in Paquetes : PktRecibido(p)
      \/ UNCHANGED <<arrayTiempoAnterior, Jitter, base>>
  BY DEF Next, Avanza, Emite, PktEnviado, PktRecibidoDesconocido, GetQoS,
         GetQoSSinTrafico, Acabado, vars, medidas, historia
<1> QED
  BY <1>1, <1>2, <1>3, <1>4

(***************************************************************************)
(* The reported jitter says nothing of how much the delay varied: its sum  *)
(* is the last delay minus the first one of each destination, give or take *)
(* a fraction of a millisecond for each sample.                            *)
(***************************************************************************)
THEOREM JitterNoMideVariacion == Spec => []JitterSeCancela
<1>1. JitterInv => JitterSeCancela
  BY DEF JitterInv
<1> QED
  BY InitJitter, NextJitter, <1>1, PTL DEF Spec
=============================================================================
