----------------------------- MODULE Optimizador ----------------------------
(***************************************************************************)
(* main of simvoip.cc: the options are parsed, phase I predicts from two   *)
(* simulations which number of links and which speed to try next, phase II *)
(* goes down until the quality does not meet the target, and the solution  *)
(* is reported.  simular is called from both phases and its steps are      *)
(* here: it makes the telephones, shortens two queues, runs, measures, and *)
(* deletes (Vida).                                                         *)
(*                                                                         *)
(* A quality is a number of which only the comparison with the target      *)
(* matters.  The conversion of a number that does not fit the integer is   *)
(* undefined: the integer is any of those that builds of the code produce. *)
(***************************************************************************)
EXTENDS Vida, Integers, Sequences, FiniteSets

CONSTANTS
  Listas,             \* values of the option velocidades, in bits per second
  TasasCodec,         \* value of the option tasaCodec
  Objetivos,          \* values of the option qos
  Calidades,          \* what Observador::GetQoS may return
  Byte,               \* the values of a uint8_t
  MaxX,               \* the largest uint32_t
  Indefinidos         \* what a conversion with no defined result may give

ASSUME OptimizadorAssumption ==
  /\ \A l \in Listas : l \in Seq(Nat \ {0}) /\ Len(l) > 0
  /\ TasasCodec \in Seq(Nat) /\ Len(TasasCodec) > 0
  /\ Objetivos \subseteq Int
  /\ Calidades \subseteq Int
  /\ Byte \in Nat /\ Byte > 3
  /\ MaxX \in Nat
  /\ Indefinidos \subseteq 0 .. MaxX /\ Indefinidos # {}

(***************************************************************************)
(* No speed is so slow (below 1432 bits per second in the code) that the   *)
(* largest prediction would not fit in the three links of the first guess. *)
(***************************************************************************)
ASSUME VelocidadAssumption ==
  \A l \in Listas : \A i \in DOMAIN l : MaxX \div l[i] <= 3 * 1000000

\* simular makes its telephones one by one.
ASSUME AparatosAssumption == IsFiniteSet(Aparatos)

VARIABLES
  paso,               \* where main, or simular for it, has got to
  fase,               \* the phase that called simular
  lista,              \* sVelocidades
  listaTasas,         \* sTasaCodec
  velocidades,
  tasaCodec,
  qos_objetivo,
  resultado,
  anterior,
  x,
  QoS,                \* local of simular
  simuladas           \* history: number of links and speed of each simulation

opciones == <<lista, listaTasas, velocidades, tasaCodec, qos_objetivo>>

busqueda == <<resultado, anterior, x>>

simulacion == <<QoS, simuladas, vidaVars>>

vars == <<paso, fase, opciones, busqueda, simulacion>>

Punto(enlaces, velocidad, qos) ==
  [enlaces |-> enlaces, velocidad |-> velocidad, qos |-> qos]

Init ==
  /\ paso = "velocidades"
  /\ fase = 1
  /\ lista \in Listas
  /\ listaTasas = TasasCodec
  /\ velocidades = [v \in {} |-> 0]
  /\ tasaCodec = [i \in {0, 1} |-> 0]
  /\ qos_objetivo \in Objetivos
  /\ resultado = Punto(3, 0, 0)
  /\ anterior = Punto(0, 0, 0)
  /\ x = 0
  /\ QoS = 0
  /\ simuladas = {}
  /\ VidaInit

-----------------------------------------------------------------------------
(***************************************************************************)
(* Parsing.                                                                *)
(***************************************************************************)

Asigna(map, k, v) ==
  [j \in DOMAIN map \cup {k} |-> IF j = k THEN v ELSE map[j]]

\* operator[]: a key that is not there is added, with DataRate ().
Con(map, K) ==
  [j \in DOMAIN map \cup K |-> IF j \in DOMAIN map THEN map[j] ELSE 0]

\* Fault: an element is read for every one there is.
HayElemento(l) == Len(l) > 0

\* Whether find (";") finds one.
HaySeparador(l) == Len(l) > 1

(***************************************************************************)
(* One turn of the loop: the element before the next separator.  The last  *)
(* element has none and is left.  n, the key, is set to zero and never     *)
(* incremented.                                                            *)
(***************************************************************************)
LeeVelocidad ==
  /\ paso = "velocidades" /\ HaySeparador(lista)
  /\ velocidades' = Asigna(velocidades, 0, Head(lista))
  /\ lista' = Tail(lista)
  /\ UNCHANGED <<paso, fase, listaTasas, tasaCodec, qos_objetivo, busqueda, simulacion>>

FinVelocidades ==
  /\ paso = "velocidades" /\ ~HaySeparador(lista)
  /\ paso' = "tasas"
  /\ UNCHANGED <<fase, opciones, busqueda, simulacion>>

LeeTasa ==
  /\ paso = "tasas" /\ HaySeparador(listaTasas)
  /\ tasaCodec' = [tasaCodec EXCEPT ![0] = Head(listaTasas)]
  /\ listaTasas' = Tail(listaTasas)
  /\ UNCHANGED <<paso, fase, lista, velocidades, qos_objetivo, busqueda, simulacion>>

FinTasas ==
  /\ paso = "tasas" /\ ~HaySeparador(listaTasas)
  /\ paso' = "faseI"
  /\ UNCHANGED <<fase, opciones, busqueda, simulacion>>

-----------------------------------------------------------------------------
(***************************************************************************)
(* simular.                                                                *)
(***************************************************************************)

Va(a, b) ==
  /\ paso = a
  /\ paso' = b
  /\ UNCHANGED <<fase, opciones, busqueda>>

Aborta(a) == Va(a, "abortado") /\ UNCHANGED simulacion

(***************************************************************************)
(* The network and the telephones.  The map is a copy: a speed that is not *)
(* in it does not enter that of main.                                      *)
(***************************************************************************)
Construye ==
  /\ Va("simular", "colas")
  /\ simuladas' = simuladas \cup
       {<<resultado.enlaces, Con(velocidades, {resultado.velocidad})[resultado.velocidad]>>}
  /\ Nacen
  /\ UNCHANGED QoS

\* Fault: asking for a device that is not there goes on.
NuncaFalta(p) == FALSE

\* The first device of the links is asked for, and there may be none.
FaltaElPrimero(p) == p.enlaces = 0

CambiaColas ==
  /\ ~FaltaElPrimero(resultado)
  /\ Va("colas", "corre")
  /\ UNCHANGED simulacion

CambiaColasSinEnlaces ==
  /\ FaltaElPrimero(resultado)
  /\ Aborta("colas")

(***************************************************************************)
(* Run, and the quality measured.  Nothing assigns to resultado->qos.      *)
(***************************************************************************)
Mide ==
  /\ paso = "corre"
  /\ paso' = "borra"
  /\ QoS' \in Calidades
  /\ UNCHANGED <<fase, opciones, busqueda, simuladas, vidaVars>>

\* Observador::GetQoS divides by the number of packets sent.
MideSinTrafico == Aborta("corre")

BorraAparato(a) ==
  /\ paso = "borra" /\ destruidos[a] = 0
  /\ Borra(a)
  /\ UNCHANGED <<paso, fase, opciones, busqueda, QoS, simuladas>>

(***************************************************************************)
(* Simulator::Destroy: every node disposes of its applications, which have *)
(* been deleted, and drops them.  If the program survives that, simular    *)
(* returns.                                                                *)
(***************************************************************************)
Destruye ==
  /\ \A a \in Aparatos : destruidos[a] > 0
  /\ Va("borra", IF fase = 1 THEN "predice" ELSE "anota")
  /\ SueltaLosNodos
  /\ UNCHANGED <<QoS, simuladas>>

DestruyeYMuere ==
  /\ \A a \in Aparatos : destruidos[a] > 0
  /\ Aborta("borra")

-----------------------------------------------------------------------------
(***************************************************************************)
(* Phase I.                                                                *)
(***************************************************************************)

FaseI ==
  /\ paso = "faseI" /\ resultado.qos < qos_objetivo
  /\ paso' = "simular"
  /\ fase' = 1
  /\ UNCHANGED <<opciones, busqueda, simulacion>>

FinFaseI ==
  /\ resultado.qos >= qos_objetivo
  /\ Va("faseI", "faseII")
  /\ UNCHANGED simulacion

Abs(a) == IF a < 0 THEN -a ELSE a

\* The conversion to an integer leaves out the fraction.
Truncado(a, b) ==
  LET c == Abs(a) \div Abs(b) IN IF (a < 0) = (b < 0) THEN c ELSE -c

(***************************************************************************)
(* x = qos_objetivo / m with m = dq / dx and dx in bits.  With no change   *)
(* of quality m is a zero or not a number, and the quotient infinite or    *)
(* not a number: there is no integer for it.                               *)
(***************************************************************************)
ValoresDeX(dq, dx) ==
  IF dq = 0 THEN Indefinidos
  ELSE LET v == Truncado(qos_objetivo * dx, dq * 1000000)
       IN  IF v \in 0 .. MaxX THEN {v} ELSE Indefinidos

(***************************************************************************)
(* The prediction.  The two speeds are looked up with operator[].          *)
(***************************************************************************)
Predice ==
  /\ paso = "predice"
  /\ paso' = "reparte"
  /\ velocidades' = Con(velocidades, {resultado.velocidad, anterior.velocidad})
  /\ x' \in ValoresDeX(resultado.qos - anterior.qos,
                       resultado.enlaces * velocidades'[resultado.velocidad]
                       - anterior.enlaces * velocidades'[anterior.velocidad])
  /\ anterior' = resultado
  /\ resultado' = [resultado EXCEPT !.enlaces = 0, !.velocidad = 0]
  /\ UNCHANGED <<fase, lista, listaTasas, tasaCodec, qos_objetivo, simulacion>>

\* Fault: x is in bits and divided once.
FaltaEnBits(p, bps) == x \div bps > p.enlaces

(***************************************************************************)
(* The condition of the loop that spreads x over links and speeds.  x is   *)
(* in megabits; it is divided by bits, and by a million again.             *)
(***************************************************************************)
Falta(p, bps) == x \div bps > p.enlaces * 1000000

Reparte ==
  /\ paso = "reparte"
  /\ LET bps == velocidades[resultado.velocidad]
     IN  bps > 0 /\ Falta(resultado, bps)
  /\ resultado' =
       IF resultado.velocidad = Cardinality(DOMAIN velocidades) - 1
       THEN [resultado EXCEPT !.enlaces = (@ + 1) % Byte, !.velocidad = 0]
       ELSE [resultado EXCEPT !.velocidad = (@ + 1) % Byte]
  /\ UNCHANGED <<paso, fase, opciones, anterior, x, simulacion>>

FinReparte ==
  /\ paso = "reparte"
  /\ LET bps == velocidades[resultado.velocidad]
     IN  bps > 0 /\ ~Falta(resultado, bps)
  /\ Va("reparte", "faseI")
  /\ UNCHANGED simulacion

\* The map had no speed but the one operator[] made up: division by zero.
ReparteSinVelocidad ==
  /\ paso = "reparte"
  /\ velocidades[resultado.velocidad] = 0
  /\ Aborta("reparte")

-----------------------------------------------------------------------------
(***************************************************************************)
(* Phase II.                                                               *)
(***************************************************************************)

Baja(p) ==
  IF p.velocidad = 0
  THEN [p EXCEPT !.velocidad = (Cardinality(DOMAIN velocidades) - 1) % Byte,
                 !.enlaces = (@ - 1) % Byte]
  ELSE [p EXCEPT !.velocidad = @ - 1]

FaseII ==
  /\ paso = "faseII" /\ resultado.qos > qos_objetivo
  /\ paso' = "simular"
  /\ fase' = 2
  /\ resultado' = Baja(resultado)
  /\ UNCHANGED <<opciones, anterior, x, simulacion>>

Anota ==
  /\ paso = "anota"
  /\ paso' = "faseII"
  /\ anterior' = resultado
  /\ UNCHANGED <<fase, opciones, resultado, x, simulacion>>

\* The solution reported is anterior.
Informa ==
  /\ resultado.qos <= qos_objetivo
  /\ Va("faseII", "fin")
  /\ UNCHANGED simulacion

Acabado == paso \in {"fin", "abortado"} /\ UNCHANGED vars

Next ==
  \/ LeeVelocidad \/ FinVelocidades \/ LeeTasa \/ FinTasas
  \/ FaseI \/ FinFaseI \/ Predice \/ Reparte \/ FinReparte \/ ReparteSinVelocidad
  \/ FaseII \/ Anota \/ Informa
  \/ Construye \/ CambiaColas \/ CambiaColasSinEnlaces \/ Mide \/ MideSinTrafico
  \/ \E a \in Aparatos : BorraAparato(a)
  \/ Destruye \/ DestruyeYMuere
  \/ Acabado

Spec == Init /\ [][Next]_vars

(***************************************************************************)
(* main is one thread and waits for nobody.                                *)
(***************************************************************************)
FairSpec == Spec /\ WF_vars(Next)

-----------------------------------------------------------------------------
(***************************************************************************)
(* Properties.                                                             *)
(***************************************************************************)

Bytes == 0 .. Byte - 1

Velocidades == {0} \cup UNION {{l[i] : i \in DOMAIN l} : l \in Listas}

Puntos == [enlaces : Bytes, velocidad : Bytes, qos : Calidades \cup {0}]

TypeOK ==
  /\ paso \in {"velocidades", "tasas", "faseI", "simular", "colas", "corre",
               "borra", "predice", "reparte", "anota", "faseII", "fin", "abortado"}
  /\ fase \in {1, 2}
  /\ lista \in Seq(Velocidades) /\ Len(lista) > 0
  /\ listaTasas \in Seq(Nat) /\ Len(listaTasas) > 0
  /\ DOMAIN velocidades \subseteq Bytes
  /\ velocidades \in [DOMAIN velocidades -> Velocidades]
  /\ tasaCodec \in [{0, 1} -> Nat]
  /\ qos_objetivo \in Objetivos
  /\ resultado \in Puntos
  /\ anterior \in Puntos
  /\ x \in 0 .. MaxX
  /\ QoS \in Calidades \cup {0}
  /\ simuladas \subseteq Bytes \X Velocidades
  /\ m_count \in [Aparatos -> Nat]
  /\ destruidos \in [Aparatos -> Nat]

(***************************************************************************)
(* The number of links never goes above the three of the first guess, up   *)
(* in the prediction or down through zero to 255 in phase II: the counter  *)
(* of eight bits of the loops over the links cannot go round for ever, and *)
(* the /24 network of the links has addresses enough.                      *)
(***************************************************************************)
EnlacesAcotados ==
  resultado.enlaces <= 3 /\ \A s \in simuladas : s[1] <= 3

(***************************************************************************)
(* The program ends, unless phase I predicts other than zero for ever: the *)
(* loops of phase II, of the prediction and of eight bits all end, and a   *)
(* prediction of zero is fatal in the next simulation.                     *)
(***************************************************************************)
AcabaOPredice ==
  \/ <>(paso \in {"fin", "abortado"})
  \/ []<>(paso = "reparte" /\ x # 0)

(***************************************************************************)
(* How far main is from its end.  The rounds of phase II count the number  *)
(* of links and the index of the speed down, in base 256.  Phase I has one *)
(* more round while there are links to simulate, and one more than that    *)
(* while a prediction other than zero is being spread.                     *)
(***************************************************************************)
Altura(p) == p.enlaces * Byte + p.velocidad

Vueltas ==
  CASE paso \in {"fin", "abortado"} -> 0
    [] paso = "reparte" -> IF x = 0 THEN 1 ELSE 2
    [] paso \notin {"fin", "abortado", "reparte"} /\ qos_objetivo <= 0 ->
         Altura(resultado)
    [] paso \notin {"fin", "abortado", "reparte"} /\ qos_objetivo > 0 ->
         IF resultado.enlaces = 0 THEN 0 ELSE 1

Vivos == {a \in Aparatos : destruidos[a] = 0}

\* The steps left of a round, at most.
Tramo ==
  LET n == Cardinality(Aparatos)
  IN  CASE paso = "velocidades" -> n + 9 + Len(listaTasas) + Len(lista)
        [] paso = "tasas" -> n + 9 + Len(listaTasas)
        [] paso = "faseI" -> n + 9
        [] paso = "simular" -> n + 8
        [] paso = "colas" -> n + 7
        [] paso = "corre" -> n + 6
        [] paso = "borra" -> Cardinality(Vivos) + 5
        [] paso = "predice" -> 4
        [] paso = "reparte" -> 3 - resultado.enlaces
        [] paso = "anota" -> 2
        [] paso = "faseII" -> 1
        [] paso \in {"fin", "abortado"} -> 0

(***************************************************************************)
(* Every step of main brings its end nearer, but for a prediction that is  *)
(* not zero: a round takes from the rounds left, a step within a round     *)
(* from what is left of it.  Nothing else can keep the search going.       *)
(***************************************************************************)
CadaPasoAcerca ==
  [][\/ paso = "predice" /\ x' # 0
     \/ Vueltas' < Vueltas
     \/ Vueltas' = Vueltas /\ Tramo' < Tramo]_vars

(***************************************************************************)
(* A telephone is destroyed once although simular deletes it and its node  *)
(* drops it afterwards: the constructor's reference, which nobody takes,   *)
(* keeps the count from reaching zero.                                     *)
(***************************************************************************)
DestruidoUnaVez == \A a \in Aparatos : destruidos[a] <= 1

-----------------------------------------------------------------------------
(***************************************************************************)
(* What the comments of the code promise and the code does not do.         *)
(***************************************************************************)

(***************************************************************************)
(* simvoip.cc: the second phase follows once the quality goes above the    *)
(* target.  A simulation of phase I that measures it leads there, unless   *)
(* the program fails first.                                                *)
(***************************************************************************)
SuperadaPasa ==
  (paso = "borra" /\ fase = 1 /\ QoS > qos_objetivo)
    ~> paso \in {"faseII", "abortado"}
=============================================================================
