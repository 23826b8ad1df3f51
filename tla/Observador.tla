----------------------------- MODULE Observador -----------------------------
(***************************************************************************)
(* The observer of the traffic (Observador.cc, Observador.h): callbacks on *)
(* the telephones' devices note when a packet leaves one (MacTx) and       *)
(* measure it when it reaches one (MacRx); after the run simular asks for  *)
(* the quality of service.                                                 *)
(*                                                                         *)
(* The network is the environment: it carries, reorders and drops packets, *)
(* its nodes forward packets they receive, and its routers emit packets of *)
(* their own.  Times are ticks of the simulator's resolution.              *)
(***************************************************************************)
EXTENDS Integers, FiniteSets, Functions

CONSTANTS
  Paquetes,           \* packet uids
  DeIP,               \* the packets whose PPP protocol is 0x21
  DeRouter,           \* the packets that the routers emit
  Destino,            \* IPv4 destination of each packet
  TicksPorMs,         \* ticks in a millisecond
  TFin                \* Simulator::Stop

ASSUME ObservadorAssumption ==
  /\ IsFiniteSet(Paquetes)
  /\ DeIP \subseteq Paquetes
  /\ DeRouter \subseteq Paquetes
  /\ DOMAIN Destino = Paquetes
  /\ TicksPorMs \in Nat \ {0}
  /\ TFin \in Nat

VARIABLES
  ahora,
  array,              \* when the packets not yet received were sent
  arrayTiempoAnterior, \* delay of the last packet received, by destination
  m_enviados,
  m_recibidos,
  m_perdidos,
  m_porcentaje,
  Jitter,             \* number and sum of the samples of the average
  Retardo,            \* idem
  fase,               \* what became of GetQoS: pending, returned, trapped
  red,                \* network: where each packet is
  salida,             \* network: when each packet last left a device
  noIP,               \* history: packets sent that are not IP
  base,               \* history: first delay measured, by destination
  vistos              \* history: destinations already seen at the last Reset

medidas == <<array, arrayTiempoAnterior, m_enviados, m_recibidos, Jitter, Retardo>>

resultado == <<m_perdidos, m_porcentaje, fase>>

historia == <<noIP, base, vistos>>

vars == <<ahora, medidas, resultado, red, salida, historia>>

Destinos == {Destino[p] : p \in Paquetes}

Vacia == [n |-> 0, total |-> 0]

Init ==
  /\ ahora = 0
  /\ array = [p \in {} |-> 0]
  /\ arrayTiempoAnterior = [d \in {} |-> 0]
  /\ m_enviados = 0
  /\ m_recibidos = 0
  /\ m_perdidos = 0
  /\ m_porcentaje = 0
  /\ Jitter = Vacia
  /\ Retardo = Vacia
  /\ fase = "midiendo"
  /\ red = [p \in Paquetes |-> "nuevo"]
  /\ salida = [p \in Paquetes |-> 0]
  /\ noIP = 0
  /\ base = [d \in {} |-> 0]
  /\ vistos = 0

-----------------------------------------------------------------------------
\* Fault: insert instead of operator[], which keeps the old value.
AsignaSiFalta(map, k, v) ==
  [x \in DOMAIN map \cup {k} |-> IF x \in DOMAIN map THEN map[x] ELSE v]

(***************************************************************************)
(* map[k] = v                                                              *)
(***************************************************************************)
Asigna(map, k, v) ==
  [x \in DOMAIN map \cup {k} |-> IF x = k THEN v ELSE map[x]]

\* Fault: the entry stays.
BorraNada(map, k) == map

(***************************************************************************)
(* map.erase (k)                                                           *)
(***************************************************************************)
Borra(map, k) == Restrict(map, DOMAIN map \ {k})

(***************************************************************************)
(* Time::GetMilliSeconds: the division of C, which drops the fraction.     *)
(***************************************************************************)
EnMs(t) == IF t >= 0 THEN t \div TicksPorMs ELSE -((-t) \div TicksPorMs)

(***************************************************************************)
(* Average::Update, as far as the mean is concerned.                       *)
(***************************************************************************)
Muestra(media, x) == [n |-> media.n + 1, total |-> media.total + x]

-----------------------------------------------------------------------------
(***************************************************************************)
(* The network.                                                            *)
(***************************************************************************)

Avanza ==
  /\ ahora < TFin
  /\ ahora' = ahora + 1
  /\ UNCHANGED <<medidas, resultado, red, salida, historia>>

(***************************************************************************)
(* A router emits a packet of its own (an ICMP error): no MacTx is traced. *)
(***************************************************************************)
Emite(p) ==
  /\ ahora < TFin
  /\ p \in DeRouter /\ red[p] = "nuevo"
  /\ red' = [red EXCEPT ![p] = "ajeno"]
  /\ salida' = [salida EXCEPT ![p] = ahora]
  /\ UNCHANGED <<ahora, medidas, resultado, historia>>

(***************************************************************************)
(* A packet leaves a telephone: its own, or one it received and forwards.  *)
(***************************************************************************)
Sale(p) ==
  /\ ahora < TFin
  /\ \/ p \notin DeRouter /\ red[p] = "nuevo"
     \/ red[p] = "recibido"
  /\ red' = [red EXCEPT ![p] = "observado"]
  /\ salida' = [salida EXCEPT ![p] = ahora]

(***************************************************************************)
(* A packet reaches a telephone; every channel has a delay.  One that a    *)
(* full queue or the error model drops never gets here.                    *)
(***************************************************************************)
Llega(p) ==
  /\ ahora < TFin
  /\ red[p] \in {"observado", "ajeno"}
  /\ salida[p] < ahora
  /\ red' = [red EXCEPT ![p] = "recibido"]
  /\ UNCHANGED salida

-----------------------------------------------------------------------------
(***************************************************************************)
(* The callbacks.                                                          *)
(***************************************************************************)

\* Fault: the protocol is not looked at.
EsIPSiempre(p) == TRUE

(***************************************************************************)
(* The protocol field of the PPP header.                                   *)
(***************************************************************************)
EsIP(p) == p \in DeIP

(***************************************************************************)
(* PktEnviado: only IP packets enter the structure, all are counted.       *)
(***************************************************************************)
PktEnviado(p) ==
  /\ Sale(p)
  /\ array' = IF EsIP(p) THEN Asigna(array, p, ahora) ELSE array
  /\ m_enviados' = m_enviados + 1
  /\ noIP' = IF p \in DeIP THEN noIP ELSE noIP + 1
  /\ UNCHANGED <<ahora, arrayTiempoAnterior, m_recibidos, Jitter, Retardo,
                 resultado, base, vistos>>

\* Fault: the delay is taken the wrong way round.
RetardoAlReves(p) == array[p] - ahora

RetardoDe(p) == ahora - array[p]

\* Fault: a destination seen for the first time gives a sample as well.
JitterSinPrimera(p) ==
  LET anterior == IF Destino[p] \in DOMAIN arrayTiempoAnterior
                  THEN arrayTiempoAnterior[Destino[p]] ELSE 0
  IN  Muestra(Jitter, EnMs(RetardoDe(p) - anterior))

(***************************************************************************)
(* The jitter sample is the signed change of delay since the last packet   *)
(* for the same destination; a zero delay stands for "none yet".           *)
(***************************************************************************)
JitterCon(p) ==
  LET anterior == IF Destino[p] \in DOMAIN arrayTiempoAnterior
                  THEN arrayTiempoAnterior[Destino[p]] ELSE 0
  IN  IF anterior # 0
      THEN Muestra(Jitter, EnMs(RetardoDe(p) - anterior))
      ELSE Jitter

(***************************************************************************)
(* PktRecibido, packet in the structure.  Whose device it reached is not   *)
(* looked at.                                                              *)
(***************************************************************************)
PktRecibido(p) ==
  /\ Llega(p)
  /\ EsIP(p) /\ p \in DOMAIN array
  /\ Retardo' = Muestra(Retardo, EnMs(RetardoDe(p)))
  /\ Jitter' = JitterCon(p)
  /\ m_recibidos' = m_recibidos + 1
  /\ arrayTiempoAnterior' = Asigna(arrayTiempoAnterior, Destino[p], RetardoDe(p))
  /\ array' = Borra(array, p)
  /\ base' = IF Destino[p] \in DOMAIN base THEN base
             ELSE Asigna(base, Destino[p], RetardoDe(p))
  /\ UNCHANGED <<ahora, m_enviados, resultado, noIP, vistos>>

(***************************************************************************)
(* PktRecibido, a packet that is not IP or that no telephone sent.         *)
(***************************************************************************)
PktRecibidoDesconocido(p) ==
  /\ Llega(p)
  /\ ~EsIP(p) \/ p \notin DOMAIN array
  /\ UNCHANGED <<ahora, medidas, resultado, historia>>

(***************************************************************************)
(* Reset: the averages start again, nothing else does.                     *)
(***************************************************************************)
Reset ==
  /\ ahora < TFin
  /\ Jitter' = Vacia
  /\ Retardo' = Vacia
  /\ base' = arrayTiempoAnterior
  /\ vistos' = Cardinality(DOMAIN arrayTiempoAnterior)
  /\ UNCHANGED <<ahora, array, arrayTiempoAnterior, m_enviados, m_recibidos,
                 resultado, red, salida, noIP>>

(***************************************************************************)
(* GetQoS, after the run.  What is still in the structure is taken for     *)
(* lost, and the percentage is an integer division times a hundred.        *)
(***************************************************************************)
GetQoS ==
  /\ ahora = TFin /\ fase = "midiendo"
  /\ m_enviados # 0
  /\ m_perdidos' = Cardinality(DOMAIN array)
  /\ m_porcentaje' = (m_perdidos' \div m_enviados) * 100
  /\ fase' = "medido"
  /\ UNCHANGED <<ahora, medidas, red, salida, historia>>

(***************************************************************************)
(* Nothing was sent: the integer division by zero traps.                   *)
(***************************************************************************)
GetQoSSinTrafico ==
  /\ ahora = TFin /\ fase = "midiendo"
  /\ m_enviados = 0
  /\ m_perdidos' = Cardinality(DOMAIN array)
  /\ fase' = "abortado"
  /\ UNCHANGED <<ahora, medidas, m_porcentaje, red, salida, historia>>

Acabado == fase # "midiendo" /\ UNCHANGED vars

Next ==
  \/ Avanza
  \/ \E p \in Paquetes :
       \/ Emite(p)
       \/ PktEnviado(p)
       \/ PktRecibido(p)
       \/ PktRecibidoDesconocido(p)
  \/ Reset
  \/ GetQoS
  \/ GetQoSSinTrafico
  \/ Acabado

Spec == Init /\ [][Next]_vars

-----------------------------------------------------------------------------
(***************************************************************************)
(* Properties.                                                             *)
(***************************************************************************)

Medias == [n : Nat, total : Int]

TypeOK ==
  /\ ahora \in 0 .. TFin
  /\ DOMAIN array \subseteq DeIP
  /\ array \in [DOMAIN array -> 0 .. TFin]
  /\ DOMAIN arrayTiempoAnterior \subseteq Destinos
  /\ arrayTiempoAnterior \in [DOMAIN arrayTiempoAnterior -> 1 .. TFin]
  /\ m_enviados \in Nat
  /\ m_recibidos \in Nat
  /\ m_perdidos \in Nat
  /\ m_porcentaje \in 0 .. 100
  /\ Jitter \in Medias
  /\ Retardo \in Medias
  /\ fase \in {"midiendo", "medido", "abortado"}
  /\ red \in [Paquetes -> {"nuevo", "observado", "ajeno", "recibido"}]
  /\ salida \in [Paquetes -> 0 .. TFin]

(***************************************************************************)
(* The structure holds exactly the IP packets that left a telephone and    *)
(* have not reached one, on their way or lost, each with the time it last  *)
(* left: packets a router emits and packets that are forwarded, dropped or *)
(* overtaken do not disturb it.                                            *)
(***************************************************************************)
ArrayEsLoPendiente ==
  /\ DOMAIN array = {p \in DeIP : red[p] = "observado"}
  /\ \A p \in DOMAIN array : array[p] = salida[p]

(***************************************************************************)
(* Every packet counted as sent is accounted for once: received, in the    *)
(* structure or not IP.                                                    *)
(***************************************************************************)
EnviadosCuadran ==
  m_enviados = m_recibidos + Cardinality(DOMAIN array) + noIP

(***************************************************************************)
(* Every packet measured gives one delay, and one jitter unless it is the  *)
(* first for its destination: the two averages are taken over the same     *)
(* packets, also after a Reset, which forgets no destination.              *)
(***************************************************************************)
MuestrasEmparejadas ==
  Retardo.n - Jitter.n = Cardinality(DOMAIN arrayTiempoAnterior) - vistos

(***************************************************************************)
(* The jitter samples are signed, so they cancel: their sum is, but for    *)
(* the fraction each one drops, the last delay minus the first one of each *)
(* destination, however much the delay varied in between.                  *)
(***************************************************************************)
JitterSeCancela ==
  LET cambio == SumFunction([d \in DOMAIN arrayTiempoAnterior |->
                               arrayTiempoAnterior[d] - base[d]])
      exceso == Jitter.total * TicksPorMs - cambio
      tope == (TicksPorMs - 1) * Jitter.n
  IN  DOMAIN base = DOMAIN arrayTiempoAnterior
      /\ -tope <= exceso /\ exceso <= tope

-----------------------------------------------------------------------------
(***************************************************************************)
(* What the comments of the code promise and the code does not do.         *)
(***************************************************************************)

(***************************************************************************)
(* Observador.cc: m_porcentaje is the percentage of lost packets.          *)
(***************************************************************************)
PorcentajeEsDePerdidos ==
  fase = "medido" =>
    /\ m_porcentaje * m_enviados <= 100 * m_perdidos
    /\ 100 * m_perdidos < (m_porcentaje + 1) * m_enviados
=============================================================================
