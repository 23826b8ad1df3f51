-------------------------- MODULE OptimizadorProofs -------------------------
(***************************************************************************)
(* Theorems about Optimizador, for any lists of speeds that satisfy its    *)
(* assumptions, any target, any qualities measured and any telephones.     *)
(***************************************************************************)
EXTENDS Optimizador, FiniteSetTheorems, SequenceTheorems, TLAPS

(***************************************************************************)
(* The inductive invariant, by parts.  As simular never returns a quality, *)
(* the target alone decides the phase: above zero main stays in phase I,   *)
(* below zero in phase II, at zero it reports at once.                     *)
(***************************************************************************)
Dentro == {"simular", "colas", "corre", "borra"}

Rumbo ==
  /\ resultado.qos = 0 /\ anterior.qos = 0
  /\ paso \in {"predice", "reparte"} \/ (paso \in Dentro /\ fase = 1) => qos_objetivo > 0
  /\ paso = "anota" \/ (paso \in Dentro /\ fase = 2) => qos_objetivo < 0
  /\ paso = "faseII" => qos_objetivo <= 0
  /\ paso = "fin" => qos_objetivo = 0

(***************************************************************************)
(* The key of the map is never incremented, so it holds one speed at most; *)
(* the index leaves zero only in phase II with an empty map.               *)
(***************************************************************************)
Mapa ==
  /\ DOMAIN velocidades \subseteq {0}
  /\ paso = "reparte" => DOMAIN velocidades = {0}
  /\ paso = "velocidades" \/ qos_objetivo > 0 \/ DOMAIN velocidades = {0} =>
       resultado.velocidad = 0 /\ anterior.velocidad = 0

(***************************************************************************)
(* In phase II the links run out in simular, which aborts, before they go  *)
(* round to 255.                                                           *)
(***************************************************************************)
Enlaces ==
  /\ EnlacesAcotados
  /\ qos_objetivo <= 0 /\ paso \notin {"simular", "colas", "abortado"} =>
       resultado.enlaces >= 1

UnicaVelocidad == IF 0 \in DOMAIN velocidades THEN velocidades[0] ELSE 0

(***************************************************************************)
(* What has been simulated had the one speed of the map, or none.          *)
(***************************************************************************)
Simulado ==
  /\ paso = "velocidades" => simuladas = {}
  /\ simuladas # {} => qos_objetivo # 0
  /\ \A s \in simuladas : s[2] = UnicaVelocidad

(***************************************************************************)
(* From the construction to Destroy every telephone has the constructor's  *)
(* reference besides that of its node.                                     *)
(***************************************************************************)
DosReferencias ==
  /\ DestruidoUnaVez
  /\ paso \in {"colas", "corre", "borra"} => \A a \in Aparatos : m_count[a] = 2

OptimizadorInv ==
  TypeOK /\ Rumbo /\ Mapa /\ Enlaces /\ Simulado /\ DosReferencias

-----------------------------------------------------------------------------
(***************************************************************************)
(* The speeds.                                                             *)
(***************************************************************************)
LEMMA VelocidadesNat ==
  \A v \in Velocidades : v \in Nat /\ (v > 0 => MaxX \div v <= 3 * 1000000)
<1> SUFFICES ASSUME NEW v \in Velocidades, v # 0
             PROVE  v \in Nat /\ MaxX \div v <= 3 * 1000000
  OBVIOUS
<1> DEFINE Valores(l) == {l[i] : i \in DOMAIN l}
<1>1. PICK l \in Listas : \E i \in DOMAIN l : v = l[i]
  <2>1. v \in UNION {Valores(l) : l \in Listas}
    <3> DEFINE U == UNION {Valores(l) : l \in Listas}
    <3>1. Velocidades = {0} \cup U
      BY DEF Velocidades
    <3> HIDE DEF U
    <3>2. v \in U
      BY <3>1
    <3> QED
      BY <3>2 DEF U
  <2>2. PICK c \in {Valores(l) : l \in Listas} : v \in c
    <3> HIDE DEF Valores
    <3> QED
      BY <2>1, Zenon
  <2>3. PICK l \in Listas : c = Valores(l)
    <3> HIDE DEF Valores
    <3> QED
      BY <2>2, Zenon
  <2> QED
    BY <2>2, <2>3
<1>2. l \in Seq(Nat \ {0})
  BY OptimizadorAssumption
<1> QED
  BY <1>1, <1>2, VelocidadAssumption, ElementOfSeq

(***************************************************************************)
(* A list of speeds is not empty and its elements are speeds.              *)
(***************************************************************************)
LEMMA ListaDeVelocidades ==
  ASSUME NEW l \in Listas
  PROVE  l \in Seq(Velocidades) /\ Len(l) > 0
<1>1. l \in Seq(Nat \ {0}) /\ Len(l) > 0
  BY OptimizadorAssumption
<1> DEFINE Valores(m) == {m[i] : i \in DOMAIN m}
<1>2. \A i \in 1 .. Len(l) : l[i] \in Velocidades
  <2>1. \A i \in 1 .. Len(l) : l[i] \in Valores(l)
    BY <1>1, LenProperties
  <2>2. Valores(l) \in {Valores(m) : m \in Listas}
    <3> HIDE DEF Valores
    <3> QED
      BY Zenon
  <2>3. Valores(l) \subseteq UNION {Valores(m) : m \in Listas}
    <3> HIDE DEF Valores
    <3> QED
      BY <2>2, Zenon
  <2> QED
    BY <2>1, <2>3 DEF Velocidades
<1> QED
  BY <1>1, <1>2, LenProperties

(***************************************************************************)
(* A map with at most the key zero: what it holds, how many keys it has.   *)
(***************************************************************************)
LEMMA MapaDeUno ==
  ASSUME NEW map, DOMAIN map \subseteq {0}
  PROVE  \/ DOMAIN map = {} /\ Cardinality(DOMAIN map) = 0
         \/ DOMAIN map = {0} /\ Cardinality(DOMAIN map) = 1
<1>1. DOMAIN map = {} \/ DOMAIN map = {0}
  OBVIOUS
<1> QED
  BY <1>1, FS_EmptySet, FS_Singleton

(***************************************************************************)
(* The loop that spreads the prediction cannot ask for a fourth link.      *)
(***************************************************************************)
LEMMA FaltaAcotada ==
  ASSUME NEW b \in Velocidades, b > 0, x \in 0 .. MaxX, NEW e \in Nat,
         x \div b > e * 1000000
  PROVE  e < 3
<1>1. b \in Nat /\ MaxX \div b <= 3 * 1000000 /\ MaxX \in Nat /\ x \in Nat /\ x <= MaxX
  BY VelocidadesNat, OptimizadorAssumption
<1>2. \A m, n \in Nat, c \in Nat \ {0} : m <= n => m \div c <= n \div c
  OBVIOUS
<1>3. x \div b <= MaxX \div b
  BY <1>1, <1>2
<1>4. x \div b \in Int /\ MaxX \div b \in Int
  BY <1>1
<1> QED
  BY <1>1, <1>3, <1>4

(***************************************************************************)
(* main starts with three links, no target met and no simulation.          *)
(***************************************************************************)
LEMMA InitOptimizador == Init => OptimizadorInv
<1> SUFFICES ASSUME Init
             PROVE  OptimizadorInv
  OBVIOUS
<1>1. /\ lista \in Seq(Velocidades) /\ Len(lista) > 0
      /\ listaTasas \in Seq(Nat) /\ Len(listaTasas) > 0
  BY ListaDeVelocidades, OptimizadorAssumption DEF Init
<1>2. /\ resultado = [enlaces |-> 3, velocidad |-> 0, qos |-> 0]
      /\ anterior = [enlaces |-> 0, velocidad |-> 0, qos |-> 0]
      /\ DOMAIN velocidades = {}
  BY DEF Init, Punto
<1>3. resultado \in Puntos /\ anterior \in Puntos
  BY <1>2, OptimizadorAssumption DEF Puntos, Bytes
<1>4. TypeOK
  BY <1>1, <1>2, <1>3, OptimizadorAssumption DEF Init, TypeOK, VidaInit, Velocidades
<1>5. Rumbo /\ Mapa /\ Enlaces
  BY <1>2 DEF Init, Rumbo, Mapa, Enlaces, EnlacesAcotados, Dentro
<1>6. Simulado /\ DosReferencias
  BY DEF Init, Simulado, DosReferencias, DestruidoUnaVez, VidaInit
<1> QED
  BY <1>4, <1>5, <1>6 DEF OptimizadorInv

-----------------------------------------------------------------------------
(***************************************************************************)
(* The parts of the invariant that a step leaves alone: a step that moves  *)
(* on and changes nothing else needs only where it comes from and goes to. *)
(***************************************************************************)
LEMMA PasoSolo ==
  ASSUME OptimizadorInv, UNCHANGED <<opciones, busqueda, simulacion>>,
         paso' \in {"velocidades", "tasas", "faseI", "simular", "colas", "corre",
                    "borra", "predice", "reparte", "anota", "faseII", "fin",
                    "abortado"},
         fase' \in {1, 2},
         Rumbo',
         paso' = "reparte" => paso = "reparte",
         paso' = "velocidades" => paso = "velocidades",
         paso' \in {"colas", "corre", "borra"} => paso \in {"colas", "corre", "borra"},
         qos_objetivo <= 0 /\ paso' \notin {"simular", "colas", "abortado"} =>
           paso \notin {"simular", "colas", "abortado"} \/ resultado.enlaces >= 1
  PROVE  OptimizadorInv'
<1> USE DEF OptimizadorInv, opciones, busqueda, simulacion, vidaVars
<1>1. TypeOK'
  BY DEF TypeOK
<1>2. Mapa'
  BY DEF Mapa
<1>3. Enlaces'
  <2>1. qos_objetivo \in Int
    BY OptimizadorAssumption DEF TypeOK
  <2>2. EnlacesAcotados'
    BY DEF Enlaces, EnlacesAcotados
  <2>3. resultado' = resultado /\ qos_objetivo' = qos_objetivo
    OBVIOUS
  <2>4. qos_objetivo <= 0 /\ paso' \notin {"simular", "colas", "abortado"} =>
          resultado.enlaces >= 1
    BY DEF Enlaces
  <2> QED
    BY <2>2, <2>3, <2>4 DEF Enlaces
<1>4. Simulado'
  BY DEF Simulado, UnicaVelocidad
<1>5. DosReferencias'
  BY DEF DosReferencias, DestruidoUnaVez
<1> QED
  BY <1>1, <1>2, <1>3, <1>4, <1>5

(***************************************************************************)
(* The steps of that kind.                                                 *)
(***************************************************************************)
LEMMA PasosSolos ==
  ASSUME OptimizadorInv,
         \/ FinVelocidades \/ FinTasas \/ FaseI \/ FinFaseI
         \/ CambiaColas \/ CambiaColasSinEnlaces \/ MideSinTrafico \/ DestruyeYMuere
         \/ FinReparte \/ ReparteSinVelocidad \/ Informa
  PROVE  OptimizadorInv'
<1>1. /\ qos_objetivo \in Int /\ fase \in {1, 2}
      /\ resultado.qos = 0 /\ anterior.qos = 0 /\ resultado.enlaces \in Nat
  <2>1. resultado \in Puntos /\ qos_objetivo \in Objetivos /\ fase \in {1, 2}
    BY DEF OptimizadorInv, TypeOK
  <2>2. resultado.enlaces \in Bytes
    BY <2>1 DEF Puntos
  <2>3. resultado.enlaces \in Nat
    BY <2>2, OptimizadorAssumption DEF Bytes
  <2> QED
    BY <2>1, <2>3, OptimizadorAssumption DEF OptimizadorInv, Rumbo
<1> USE <1>1 DEF Va, Aborta, OptimizadorInv, Rumbo, Dentro, opciones, busqueda
<1>2. CASE FinVelocidades
  BY <1>2, PasoSolo DEF FinVelocidades
<1>3. CASE FinTasas
  BY <1>3, PasoSolo DEF FinTasas
<1>4. CASE FaseI
  <2>1. paso' = "simular" /\ fase' = 1 /\ qos_objetivo > 0
        /\ UNCHANGED <<opciones, busqueda, simulacion>>
    BY <1>4 DEF FaseI
  <2>2. Rumbo'
    BY <2>1
  <2> QED
    BY <2>1, <2>2, PasoSolo
<1>5. CASE FinFaseI
  BY <1>5, PasoSolo DEF FinFaseI
<1>6. CASE CambiaColas
  BY <1>6, PasoSolo DEF CambiaColas, FaltaElPrimero
<1>7. CASE CambiaColasSinEnlaces
  BY <1>7, PasoSolo DEF CambiaColasSinEnlaces
<1>8. CASE MideSinTrafico
  BY <1>8, PasoSolo DEF MideSinTrafico
<1>9. CASE DestruyeYMuere
  <2>1. Va("borra", "abortado") /\ UNCHANGED simulacion
    BY <1>9 DEF DestruyeYMuere
  <2> QED
    BY <2>1, PasoSolo
<1>10. CASE FinReparte
  BY <1>10, PasoSolo DEF FinReparte
<1>11. CASE ReparteSinVelocidad
  BY <1>11, PasoSolo DEF ReparteSinVelocidad
<1>12. CASE Informa
  <2>1. paso = "faseII" /\ paso' = "fin" /\ fase' = fase /\ 0 <= qos_objetivo
        /\ UNCHANGED <<opciones, busqueda, simulacion>>
    BY <1>12 DEF Informa
  <2>2. qos_objetivo = 0
    BY <2>1
  <2>3. Rumbo'
    BY <2>1, <2>2
  <2> QED
    BY <2>1, <2>3, PasoSolo
<1> QED
  BY <1>2, <1>3, <1>4, <1>5, <1>6, <1>7, <1>8, <1>9, <1>10, <1>11, <1>12

(***************************************************************************)
(* The fields of the two points that main compares.                        *)
(***************************************************************************)
LEMMA CamposDePunto ==
  ASSUME NEW p \in Puntos
  PROVE  /\ p.enlaces \in 0 .. Byte - 1 /\ p.velocidad \in 0 .. Byte - 1
         /\ p.qos \in Calidades \cup {0}
         /\ \A e, v \in 0 .. Byte - 1 :
              [p EXCEPT !.enlaces = e, !.velocidad = v] \in Puntos
  BY DEF Puntos, Bytes

(***************************************************************************)
(* Parsing.                                                                *)
(***************************************************************************)
LEMMA LeeVelocidadOptimizador ==
  ASSUME OptimizadorInv, LeeVelocidad
  PROVE  OptimizadorInv'
<1>1. /\ paso = "velocidades" /\ Len(lista) > 1
      /\ velocidades' = Asigna(velocidades, 0, Head(lista))
      /\ lista' = Tail(lista)
      /\ UNCHANGED <<paso, fase, listaTasas, tasaCodec, qos_objetivo, resultado,
                     anterior, x, QoS, simuladas, m_count, destruidos>>
  BY DEF LeeVelocidad, HaySeparador, busqueda, simulacion, vidaVars
<1>2. lista \in Seq(Velocidades) /\ lista # <<>>
  BY <1>1, EmptySeq DEF OptimizadorInv, TypeOK
<1>3. /\ Head(lista) \in Velocidades
      /\ Tail(lista) \in Seq(Velocidades) /\ Len(Tail(lista)) > 0
  <2>1. /\ Head(lista) \in Velocidades /\ Tail(lista) \in Seq(Velocidades)
        /\ Len(Tail(lista)) = Len(lista) - 1 /\ Len(lista) \in Nat
    BY <1>2, HeadTailProperties, LenProperties
  <2> QED
    BY <1>1, <2>1
<1>4. DOMAIN velocidades' = {0} /\ velocidades' \in [{0} -> Velocidades]
  BY <1>1, <1>3 DEF Asigna, OptimizadorInv, Mapa
<1>5. TypeOK'
  <2>1. {0} \subseteq Bytes
    BY OptimizadorAssumption DEF Bytes
  <2> QED
    BY <1>1, <1>3, <1>4, <2>1 DEF OptimizadorInv, TypeOK
<1>6. Rumbo' /\ Enlaces' /\ DosReferencias'
  BY <1>1 DEF OptimizadorInv, Rumbo, Dentro, Enlaces, EnlacesAcotados,
              DosReferencias, DestruidoUnaVez
<1>7. Mapa'
  BY <1>1, <1>4 DEF OptimizadorInv, Mapa
<1>8. Simulado'
  BY <1>1 DEF OptimizadorInv, Simulado
<1> QED
  BY <1>5, <1>6, <1>7, <1>8 DEF OptimizadorInv

(***************************************************************************)
(* A rate of the codec is stored and touches nothing of the search.        *)
(***************************************************************************)
LEMMA LeeTasaOptimizador ==
  ASSUME OptimizadorInv, LeeTasa
  PROVE  OptimizadorInv'
<1>1. /\ Len(listaTasas) > 1
      /\ tasaCodec' = [tasaCodec EXCEPT ![0] = Head(listaTasas)]
      /\ listaTasas' = Tail(listaTasas)
      /\ UNCHANGED <<paso, fase, lista, velocidades, qos_objetivo, resultado,
                     anterior, x, QoS, simuladas, m_count, destruidos>>
  BY DEF LeeTasa, HaySeparador, busqueda, simulacion, vidaVars
<1>2. listaTasas \in Seq(Nat) /\ listaTasas # <<>>
  BY <1>1, EmptySeq DEF OptimizadorInv, TypeOK
<1>3. /\ Head(listaTasas) \in Nat
      /\ Tail(listaTasas) \in Seq(Nat) /\ Len(Tail(listaTasas)) > 0
  <2>1. /\ Head(listaTasas) \in Nat /\ Tail(listaTasas) \in Seq(Nat)
        /\ Len(Tail(listaTasas)) = Len(listaTasas) - 1 /\ Len(listaTasas) \in Nat
    BY <1>2, HeadTailProperties, LenProperties
  <2> QED
    BY <1>1, <2>1
<1>4. TypeOK'
  BY <1>1, <1>3 DEF OptimizadorInv, TypeOK
<1>5. Rumbo' /\ Enlaces' /\ DosReferencias' /\ Mapa' /\ Simulado'
  BY <1>1 DEF OptimizadorInv, Rumbo, Dentro, Enlaces, EnlacesAcotados,
              DosReferencias, DestruidoUnaVez, Mapa, Simulado, UnicaVelocidad
<1> QED
  BY <1>4, <1>5 DEF OptimizadorInv

-----------------------------------------------------------------------------
(***************************************************************************)
(* A simulation is recorded with the speed of the map whatever the index.  *)
(***************************************************************************)
LEMMA ConMapaDeUno ==
  ASSUME TypeOK, Mapa, NEW K, NEW v \in K
  PROVE  /\ Con(velocidades, K)[v] \in Velocidades
         /\ DOMAIN velocidades = {0} /\ v = 0 => Con(velocidades, K)[v] = UnicaVelocidad
         /\ DOMAIN velocidades = {} => Con(velocidades, K)[v] = UnicaVelocidad
<1>1. /\ velocidades \in [DOMAIN velocidades -> Velocidades]
      /\ 0 \in Velocidades
  BY DEF TypeOK, Velocidades
<1>2. Con(velocidades, K)[v] = IF v \in DOMAIN velocidades THEN velocidades[v] ELSE 0
  BY DEF Con
<1> QED
  BY <1>1, <1>2 DEF UnicaVelocidad

(***************************************************************************)
(* The simulation recorded has the speed of all the others.                *)
(***************************************************************************)
LEMMA ConstruyeOptimizador ==
  ASSUME OptimizadorInv, Construye
  PROVE  OptimizadorInv'
<1> DEFINE v == Con(velocidades, {resultado.velocidad})[resultado.velocidad]
<1>1. /\ paso = "simular" /\ paso' = "colas"
      /\ simuladas' = simuladas \cup {<<resultado.enlaces, v>>}
      /\ m_count' = [a \in Aparatos |-> 2] /\ destruidos' = [a \in Aparatos |-> 0]
      /\ UNCHANGED <<fase, lista, listaTasas, velocidades, tasaCodec, qos_objetivo,
                     resultado, anterior, x, QoS>>
  BY DEF Construye, Va, Nacen, CuentaInicial, opciones, busqueda
<1>2. TypeOK /\ Rumbo /\ Mapa /\ Enlaces /\ Simulado
  BY DEF OptimizadorInv
<1>3. resultado \in Puntos /\ fase \in {1, 2} /\ qos_objetivo \in Int
  BY <1>2, OptimizadorAssumption DEF TypeOK
<1>4. resultado.enlaces \in Bytes /\ resultado.velocidad \in Bytes
  BY <1>3 DEF Puntos
<1>5. v \in Velocidades /\ v = UnicaVelocidad
  <2>1. v \in Velocidades
    BY <1>2, ConMapaDeUno
  <2>2. CASE DOMAIN velocidades = {0}
    BY <1>2, <2>2, ConMapaDeUno DEF Mapa
  <2>3. CASE DOMAIN velocidades = {}
    BY <1>2, <2>3, ConMapaDeUno
  <2> QED
    BY <1>2, <2>1, <2>2, <2>3 DEF Mapa
<1> HIDE DEF v
<1>6. TypeOK'
  <2>1. simuladas' \subseteq Bytes \X Velocidades
    BY <1>1, <1>2, <1>4, <1>5 DEF TypeOK
  <2>2. m_count' \in [Aparatos -> Nat] /\ destruidos' \in [Aparatos -> Nat]
    BY <1>1
  <2> QED
    BY <1>1, <1>2, <2>1, <2>2 DEF TypeOK
<1>7. Rumbo' /\ Mapa'
  BY <1>1, <1>2 DEF Rumbo, Mapa, Dentro
<1>8. Enlaces'
  BY <1>1, <1>2 DEF Enlaces, EnlacesAcotados
<1>9. Simulado'
  <2>1. qos_objetivo # 0
    BY <1>1, <1>2, <1>3 DEF Rumbo, Dentro
  <2>2. UnicaVelocidad' = UnicaVelocidad
    BY <1>1 DEF UnicaVelocidad
  <2>3. \A s \in simuladas' : s[2] = UnicaVelocidad
    BY <1>1, <1>2, <1>5 DEF Simulado
  <2> QED
    BY <1>1, <2>1, <2>2, <2>3 DEF Simulado
<1>10. DosReferencias'
  BY <1>1 DEF DosReferencias, DestruidoUnaVez
<1> QED
  BY <1>6, <1>7, <1>8, <1>9, <1>10 DEF OptimizadorInv

(***************************************************************************)
(* The quality measured goes to a local variable of simular only.          *)
(***************************************************************************)
LEMMA MideOptimizador ==
  ASSUME OptimizadorInv, Mide
  PROVE  OptimizadorInv'
<1>1. /\ paso = "corre" /\ paso' = "borra" /\ QoS' \in Calidades
      /\ UNCHANGED <<fase, lista, listaTasas, velocidades, tasaCodec, qos_objetivo,
                     resultado, anterior, x, simuladas, m_count, destruidos>>
  BY DEF Mide, opciones, busqueda, vidaVars
<1>2. TypeOK'
  BY <1>1 DEF OptimizadorInv, TypeOK
<1>3. Rumbo' /\ Mapa' /\ Enlaces'
  BY <1>1 DEF OptimizadorInv, Rumbo, Dentro, Mapa, Enlaces, EnlacesAcotados
<1>4. Simulado' /\ DosReferencias'
  BY <1>1 DEF OptimizadorInv, Simulado, UnicaVelocidad, DosReferencias,
              DestruidoUnaVez
<1> QED
  BY <1>2, <1>3, <1>4 DEF OptimizadorInv

(***************************************************************************)
(* The end of a simulation: delete runs each destructor once, and the Ptr  *)
(* that the node drops is not the last reference.                          *)
(***************************************************************************)
LEMMA BorraOptimizador ==
  ASSUME OptimizadorInv, NEW a \in Aparatos, BorraAparato(a)
  PROVE  OptimizadorInv'
<1>1. /\ paso = "borra" /\ destruidos[a] = 0
      /\ destruidos' = [destruidos EXCEPT ![a] = @ + 1]
      /\ UNCHANGED <<paso, fase, lista, listaTasas, velocidades, tasaCodec,
                     qos_objetivo, resultado, anterior, x, QoS, simuladas, m_count>>
  BY DEF BorraAparato, Borra, opciones, busqueda
<1>2. destruidos \in [Aparatos -> Nat] /\ \A b \in Aparatos : destruidos[b] <= 1
  BY DEF OptimizadorInv, TypeOK, DosReferencias, DestruidoUnaVez
<1>3. destruidos' \in [Aparatos -> Nat] /\ \A b \in Aparatos : destruidos'[b] <= 1
  BY <1>1, <1>2
<1>4. TypeOK'
  BY <1>1, <1>3 DEF OptimizadorInv, TypeOK
<1>5. Rumbo' /\ Mapa' /\ Enlaces' /\ Simulado'
  BY <1>1 DEF OptimizadorInv, Rumbo, Dentro, Mapa, Enlaces, EnlacesAcotados,
              Simulado, UnicaVelocidad
<1>6. DosReferencias'
  BY <1>1, <1>3 DEF OptimizadorInv, DosReferencias, DestruidoUnaVez
<1> QED
  BY <1>4, <1>5, <1>6 DEF OptimizadorInv

(***************************************************************************)
(* The nodes drop their references; the constructor's remains.             *)
(***************************************************************************)
LEMMA DestruyeOptimizador ==
  ASSUME OptimizadorInv, Destruye
  PROVE  OptimizadorInv'
<1>1. /\ paso = "borra" /\ paso' = IF fase = 1 THEN "predice" ELSE "anota"
      /\ SueltaLosNodos
      /\ UNCHANGED <<fase, lista, listaTasas, velocidades, tasaCodec, qos_objetivo,
                     resultado, anterior, x, QoS, simuladas>>
  BY DEF Destruye, Va, opciones, busqueda
<1>2. /\ m_count \in [Aparatos -> Nat] /\ destruidos \in [Aparatos -> Nat]
      /\ fase \in {1, 2}
      /\ \A a \in Aparatos : m_count[a] = 2 /\ destruidos[a] <= 1
  BY <1>1 DEF OptimizadorInv, TypeOK, DosReferencias, DestruidoUnaVez
<1>3. /\ m_count' \in [Aparatos -> Nat] /\ destruidos' \in [Aparatos -> Nat]
      /\ \A a \in Aparatos : destruidos'[a] <= 1
  BY <1>1, <1>2 DEF SueltaLosNodos
<1>4. TypeOK'
  BY <1>1, <1>3 DEF OptimizadorInv, TypeOK
<1>5. Rumbo'
  BY <1>1, <1>2 DEF OptimizadorInv, Rumbo, Dentro
<1>6. Mapa' /\ Enlaces' /\ Simulado'
  BY <1>1 DEF OptimizadorInv, Mapa, Enlaces, EnlacesAcotados, Simulado,
              UnicaVelocidad
<1>7. DosReferencias'
  BY <1>1, <1>3 DEF DosReferencias, DestruidoUnaVez
<1> QED
  BY <1>4, <1>5, <1>6, <1>7 DEF OptimizadorInv

-----------------------------------------------------------------------------
(***************************************************************************)
(* Phase I: with no quality returned the slope is never known, the         *)
(* prediction is whatever the conversion gives, and it starts from no      *)
(* link.                                                                   *)
(***************************************************************************)
LEMMA PrediceOptimizador ==
  ASSUME OptimizadorInv, Predice
  PROVE  OptimizadorInv'
<1>1. TypeOK /\ Rumbo /\ Mapa /\ Enlaces /\ Simulado /\ DosReferencias
  BY DEF OptimizadorInv
<1>2. /\ paso = "predice" /\ paso' = "reparte"
      /\ anterior' = resultado
      /\ resultado' = [resultado EXCEPT !.enlaces = 0, !.velocidad = 0]
      /\ UNCHANGED <<fase, lista, listaTasas, tasaCodec, qos_objetivo, QoS,
                     simuladas, m_count, destruidos>>
  BY DEF Predice, simulacion, vidaVars
<1>3. /\ qos_objetivo \in Int /\ qos_objetivo > 0
      /\ resultado.velocidad = 0 /\ anterior.velocidad = 0
      /\ resultado.qos = 0 /\ anterior.qos = 0
      /\ resultado \in Puntos
  BY <1>1, <1>2, OptimizadorAssumption DEF TypeOK, Rumbo, Mapa
<1>4. /\ velocidades' = [j \in {0} |-> UnicaVelocidad]
      /\ UnicaVelocidad' = UnicaVelocidad
  <2>1. velocidades' = Con(velocidades, {0})
    BY <1>3 DEF Predice
  <2>2. DOMAIN velocidades \cup {0} = {0}
    BY <1>1 DEF Mapa
  <2>3. velocidades' = [j \in {0} |-> IF j \in DOMAIN velocidades THEN velocidades[j] ELSE 0]
    BY <2>1, <2>2 DEF Con
  <2> QED
    BY <2>3 DEF UnicaVelocidad
<1>5. UnicaVelocidad \in Velocidades
  BY <1>1 DEF TypeOK, UnicaVelocidad, Velocidades
<1>6. x' \in 0 .. MaxX
  <2>1. PICK dx : x' \in ValoresDeX(0, dx)
    <3>1. resultado.qos - anterior.qos = 0
      BY <1>3
    <3> DEFINE dx == resultado.enlaces * velocidades'[resultado.velocidad]
                     - anterior.enlaces * velocidades'[anterior.velocidad]
    <3>2. x' \in ValoresDeX(0, dx)
      BY <3>1 DEF Predice
    <3> HIDE DEF dx
    <3> QED
      BY <3>2
  <2>2. ValoresDeX(0, dx) = Indefinidos
    BY DEF ValoresDeX
  <2> QED
    BY <2>1, <2>2, OptimizadorAssumption
<1>7. /\ resultado' \in Puntos
      /\ resultado'.enlaces = 0 /\ resultado'.velocidad = 0 /\ resultado'.qos = 0
  <2>1. 0 \in 0 .. Byte - 1
    BY OptimizadorAssumption
  <2> QED
    BY <1>2, <1>3, <2>1 DEF Puntos, Bytes
<1>8. TypeOK'
  <2>1. DOMAIN velocidades' \subseteq Bytes /\ velocidades' \in [DOMAIN velocidades' -> Velocidades]
    BY <1>4, <1>5, OptimizadorAssumption DEF Bytes
  <2> QED
    BY <1>1, <1>2, <1>3, <1>6, <1>7, <2>1 DEF TypeOK
<1>9. Rumbo' /\ Mapa'
  BY <1>2, <1>3, <1>4, <1>7 DEF Rumbo, Mapa, Dentro
<1>10. Enlaces'
  BY <1>1, <1>2, <1>3, <1>7 DEF Enlaces, EnlacesAcotados
<1>11. Simulado' /\ DosReferencias'
  BY <1>1, <1>2, <1>4 DEF Simulado, DosReferencias, DestruidoUnaVez
<1> QED
  BY <1>8, <1>9, <1>10, <1>11 DEF OptimizadorInv

(***************************************************************************)
(* The loop that spreads the prediction adds a link, below the third.      *)
(***************************************************************************)
LEMMA ReparteSuma ==
  ASSUME OptimizadorInv, Reparte
  PROVE  /\ resultado.enlaces \in Nat /\ resultado.enlaces < 3
         /\ resultado' = [resultado EXCEPT !.enlaces = resultado.enlaces + 1,
                                          !.velocidad = 0]
<1>1. TypeOK /\ Mapa /\ paso = "reparte"
  BY DEF OptimizadorInv, Reparte
<1>2. /\ DOMAIN velocidades = {0} /\ resultado.velocidad = 0
      /\ resultado \in Puntos /\ x \in 0 .. MaxX
  BY <1>1 DEF TypeOK, Mapa
<1>3. resultado.enlaces \in Nat
  BY <1>2, OptimizadorAssumption DEF Puntos, Bytes
<1>4. resultado.enlaces < 3
  <2>1. velocidades[0] \in Velocidades
    BY <1>1, <1>2 DEF TypeOK
  <2>2. velocidades[0] > 0 /\ x \div velocidades[0] > resultado.enlaces * 1000000
    BY <1>2 DEF Reparte, Falta
  <2> QED
    BY <1>2, <1>3, <2>1, <2>2, FaltaAcotada
<1>5. Cardinality(DOMAIN velocidades) - 1 = 0
  <2>1. Cardinality({0}) = 1
    BY FS_Singleton
  <2> QED
    BY <1>2, <2>1
<1>6. (resultado.enlaces + 1) % Byte = resultado.enlaces + 1
  <2>1. \A m, n \in Nat : m < n => m % n = m
    OBVIOUS
  <2> DEFINE s == resultado.enlaces + 1
  <2>2. s \in Nat /\ s < Byte /\ Byte \in Nat
    BY <1>3, <1>4, OptimizadorAssumption
  <2> HIDE DEF s
  <2>3. s % Byte = s
    BY <2>1, <2>2
  <2> QED
    BY <2>3 DEF s
<1>7. resultado' = [resultado EXCEPT !.enlaces = resultado.enlaces + 1, !.velocidad = 0]
  BY <1>2, <1>5, <1>6 DEF Reparte
<1> QED
  BY <1>3, <1>4, <1>7

(***************************************************************************)
(* A turn of the loop that spreads the prediction.                         *)
(***************************************************************************)
LEMMA ReparteOptimizador ==
  ASSUME OptimizadorInv, Reparte
  PROVE  OptimizadorInv'
<1>1. TypeOK /\ Rumbo /\ Mapa /\ Enlaces /\ Simulado /\ DosReferencias
  BY DEF OptimizadorInv
<1>2. /\ paso = "reparte"
      /\ UNCHANGED <<paso, fase, lista, listaTasas, velocidades, tasaCodec,
                     qos_objetivo, anterior, x, QoS, simuladas, m_count, destruidos>>
  BY DEF Reparte, opciones, simulacion, vidaVars
<1>3. /\ DOMAIN velocidades = {0} /\ resultado.velocidad = 0
      /\ qos_objetivo \in Int /\ qos_objetivo > 0
      /\ resultado \in Puntos /\ resultado.qos = 0
      /\ x \in 0 .. MaxX
  BY <1>1, <1>2, OptimizadorAssumption DEF TypeOK, Rumbo, Mapa
<1>4. resultado.enlaces \in Nat
  BY ReparteSuma
<1>5. resultado.enlaces < 3
  BY ReparteSuma
<1>6. resultado' = [resultado EXCEPT !.enlaces = resultado.enlaces + 1, !.velocidad = 0]
  BY ReparteSuma
<1>7. /\ resultado' \in Puntos /\ resultado'.enlaces <= 3
      /\ resultado'.velocidad = 0 /\ resultado'.qos = 0
  <2>1. resultado.enlaces + 1 \in 0 .. Byte - 1 /\ 0 \in 0 .. Byte - 1
    BY <1>4, <1>5, OptimizadorAssumption
  <2> DEFINE s == resultado.enlaces + 1
  <2>2. resultado' = [resultado EXCEPT !.enlaces = s, !.velocidad = 0]
    BY <1>6
  <2>3. s \in 0 .. Byte - 1 /\ s <= 3
    BY <1>4, <1>5, <2>1
  <2> HIDE DEF s
  <2> QED
    BY <1>3, <2>1, <2>2, <2>3 DEF Puntos, Bytes
<1>8. TypeOK'
  BY <1>1, <1>2, <1>7 DEF TypeOK
<1>9. Rumbo' /\ Mapa'
  BY <1>1, <1>2, <1>3, <1>7 DEF Rumbo, Mapa, Dentro
<1>10. Enlaces'
  BY <1>1, <1>2, <1>3, <1>7 DEF Enlaces, EnlacesAcotados
<1>11. Simulado' /\ DosReferencias'
  BY <1>1, <1>2 DEF Simulado, UnicaVelocidad, DosReferencias, DestruidoUnaVez
<1> QED
  BY <1>8, <1>9, <1>10, <1>11 DEF OptimizadorInv

-----------------------------------------------------------------------------
(***************************************************************************)
(* Phase II: one link less each time, or one speed less where the index    *)
(* has gone round in an empty map.                                         *)
(***************************************************************************)
LEMMA BajaBaja ==
  ASSUME OptimizadorInv, resultado.enlaces >= 1
  PROVE  /\ Baja(resultado) \in Puntos
         /\ Baja(resultado).enlaces <= resultado.enlaces
         /\ Baja(resultado).qos = resultado.qos
         /\ DOMAIN velocidades = {0} => Baja(resultado).velocidad = 0
<1>1. TypeOK /\ Mapa
  BY DEF OptimizadorInv
<1>2. resultado \in Puntos
  BY <1>1 DEF TypeOK
<1>3. /\ resultado.enlaces \in 0 .. Byte - 1 /\ resultado.velocidad \in 0 .. Byte - 1
      /\ Byte \in Nat /\ Byte > 3
  BY <1>2, OptimizadorAssumption DEF Puntos, Bytes
<1> DEFINE n == (Cardinality(DOMAIN velocidades) - 1) % Byte
           e == (resultado.enlaces - 1) % Byte
<1>4. n \in 0 .. Byte - 1 /\ (DOMAIN velocidades = {0} => n = 0)
  <2>1. \/ Cardinality(DOMAIN velocidades) = 0 /\ DOMAIN velocidades = {}
        \/ Cardinality(DOMAIN velocidades) = 1
    BY <1>1, MapaDeUno DEF Mapa
  <2>2. (-1) % Byte \in 0 .. Byte - 1 /\ 0 % Byte = 0
    BY <1>3
  <2>3. CASE Cardinality(DOMAIN velocidades) = 1
    BY <2>2, <2>3, <1>3
  <2>4. CASE Cardinality(DOMAIN velocidades) = 0 /\ DOMAIN velocidades = {}
    BY <2>2, <2>4
  <2> QED
    BY <2>1, <2>3, <2>4
<1>5. e = resultado.enlaces - 1 /\ e \in 0 .. Byte - 1
  BY <1>3
<1> HIDE DEF n, e
<1>6. CASE resultado.velocidad = 0
  <2>1. Baja(resultado) = [resultado EXCEPT !.velocidad = n, !.enlaces = e]
    BY <1>6 DEF Baja, n, e
  <2>2. /\ Baja(resultado) \in Puntos
        /\ Baja(resultado).enlaces = e /\ Baja(resultado).velocidad = n
        /\ Baja(resultado).qos = resultado.qos
    BY <1>2, <1>4, <1>5, <2>1 DEF Puntos, Bytes
  <2> QED
    BY <1>3, <1>4, <1>5, <2>2
<1>7. CASE resultado.velocidad # 0
  <2>1. Baja(resultado) = [resultado EXCEPT !.velocidad = resultado.velocidad - 1]
    BY <1>7 DEF Baja
  <2>2. resultado.velocidad - 1 \in 0 .. Byte - 1
    BY <1>3, <1>7
  <2>3. /\ Baja(resultado) \in Puntos
        /\ Baja(resultado).enlaces = resultado.enlaces
        /\ Baja(resultado).qos = resultado.qos
    BY <1>2, <2>1, <2>2 DEF Puntos, Bytes
  <2>4. DOMAIN velocidades # {0}
    BY <1>1, <1>7 DEF Mapa
  <2> QED
    BY <1>3, <2>3, <2>4
<1> QED
  BY <1>6, <1>7

(***************************************************************************)
(* A turn of phase II.                                                     *)
(***************************************************************************)
LEMMA FaseIIOptimizador ==
  ASSUME OptimizadorInv, FaseII
  PROVE  OptimizadorInv'
<1>1. TypeOK /\ Rumbo /\ Mapa /\ Enlaces /\ Simulado /\ DosReferencias
  BY DEF OptimizadorInv
<1>2. /\ paso = "faseII" /\ paso' = "simular" /\ fase' = 2
      /\ resultado.qos > qos_objetivo
      /\ resultado' = Baja(resultado)
      /\ UNCHANGED <<lista, listaTasas, velocidades, tasaCodec, qos_objetivo,
                     anterior, x, QoS, simuladas, m_count, destruidos>>
  BY DEF FaseII, opciones, simulacion, vidaVars
<1>3. /\ qos_objetivo \in Int /\ qos_objetivo < 0
      /\ resultado \in Puntos /\ resultado.qos = 0
  BY <1>1, <1>2, OptimizadorAssumption DEF TypeOK, Rumbo
<1>4. resultado.enlaces \in Nat /\ resultado.enlaces >= 1 /\ resultado.enlaces <= 3
  <2>1. resultado.enlaces \in Nat
    BY <1>3, OptimizadorAssumption DEF Puntos, Bytes
  <2>2. qos_objetivo <= 0
    BY <1>3
  <2>3. resultado.enlaces >= 1 /\ resultado.enlaces <= 3
    BY <1>1, <1>2, <2>2 DEF Enlaces, EnlacesAcotados
  <2> QED
    BY <2>1, <2>3
<1>5. /\ resultado' \in Puntos /\ resultado'.enlaces <= resultado.enlaces
      /\ resultado'.qos = 0 /\ (DOMAIN velocidades = {0} => resultado'.velocidad = 0)
  BY <1>2, <1>3, <1>4, BajaBaja
<1>6. TypeOK'
  BY <1>1, <1>2, <1>5 DEF TypeOK
<1>7. Rumbo'
  BY <1>1, <1>2, <1>3, <1>5 DEF Rumbo, Dentro
<1>8. Mapa'
  BY <1>1, <1>2, <1>3, <1>5 DEF Mapa
<1>9. Enlaces'
  <2>1. resultado'.enlaces \in Nat
    BY <1>5, OptimizadorAssumption DEF Puntos, Bytes
  <2>2. resultado'.enlaces <= 3
    BY <1>4, <1>5, <2>1
  <2> QED
    BY <1>1, <1>2, <2>2 DEF Enlaces, EnlacesAcotados
<1>10. Simulado' /\ DosReferencias'
  BY <1>1, <1>2 DEF Simulado, UnicaVelocidad, DosReferencias, DestruidoUnaVez
<1> QED
  BY <1>6, <1>7, <1>8, <1>9, <1>10 DEF OptimizadorInv

(***************************************************************************)
(* The point just simulated becomes the one before.                        *)
(***************************************************************************)
LEMMA AnotaOptimizador ==
  ASSUME OptimizadorInv, Anota
  PROVE  OptimizadorInv'
<1>1. TypeOK /\ Rumbo /\ Mapa /\ Enlaces /\ Simulado /\ DosReferencias
  BY DEF OptimizadorInv
<1>2. /\ paso = "anota" /\ paso' = "faseII" /\ anterior' = resultado
      /\ UNCHANGED <<fase, lista, listaTasas, velocidades, tasaCodec, qos_objetivo,
                     resultado, x, QoS, simuladas, m_count, destruidos>>
  BY DEF Anota, opciones, simulacion, vidaVars
<1>3. TypeOK'
  BY <1>1, <1>2 DEF TypeOK
<1>4. Rumbo'
  <2>1. qos_objetivo \in Int /\ qos_objetivo < 0
    BY <1>1, <1>2, OptimizadorAssumption DEF TypeOK, Rumbo
  <2> QED
    BY <1>1, <1>2, <2>1 DEF Rumbo, Dentro
<1>5. Mapa' /\ Enlaces'
  BY <1>1, <1>2 DEF Mapa, Enlaces, EnlacesAcotados
<1>6. Simulado' /\ DosReferencias'
  BY <1>1, <1>2 DEF Simulado, UnicaVelocidad, DosReferencias, DestruidoUnaVez
<1> QED
  BY <1>3, <1>4, <1>5, <1>6 DEF OptimizadorInv

(***************************************************************************)
(* Every step of main keeps the invariant.                                 *)
(***************************************************************************)
LEMMA NextOptimizador ==
  OptimizadorInv /\ [Next]_vars => OptimizadorInv'
<1> SUFFICES ASSUME OptimizadorInv, [Next]_vars
             PROVE  OptimizadorInv'
  OBVIOUS
<1>1. CASE LeeVelocidad
  BY <1>1, LeeVelocidadOptimizador
<1>2. CASE LeeTasa
  BY <1>2, LeeTasaOptimizador
<1>3. CASE \/ FinVelocidades \/ FinTasas \/ FaseI \/ FinFaseI
           \/ CambiaColas \/ CambiaColasSinEnlaces \/ MideSinTrafico \/ DestruyeYMuere
           \/ FinReparte \/ ReparteSinVelocidad \/ Informa
  BY <1>3, PasosSolos
<1>4. CASE Predice
  BY <1>4, PrediceOptimizador
<1>5. CASE Reparte
  BY <1>5, ReparteOptimizador
<1>6. CASE FaseII
  BY <1>6, FaseIIOptimizador
<1>7. CASE Anota
  BY <1>7, AnotaOptimizador
<1>8. CASE Construye
  BY <1>8, ConstruyeOptimizador
<1>9. CASE Mide
  BY <1>9, MideOptimizador
<1>10. CASE \E a \in Aparatos : BorraAparato(a)
  BY <1>10, BorraOptimizador
<1>11. CASE Destruye
  BY <1>11, DestruyeOptimizador
<1>12. CASE UNCHANGED vars
  BY <1>12 DEF vars, opciones, busqueda, simulacion, vidaVars, OptimizadorInv, TypeOK,
     Rumbo, Dentro, Mapa, Enlaces, EnlacesAcotados, Simulado, UnicaVelocidad,
     DosReferencias, DestruidoUnaVez
<1>13. CASE Acabado
  BY <1>12, <1>13 DEF Acabado
<1> QED
  BY <1>1, <1>2, <1>3, <1>4, <1>5, <1>6, <1>7, <1>8, <1>9, <1>10, <1>11, <1>12, <1>13
     DEF Next

(***************************************************************************)
(* The invariant of the search and of the telephones' counts holds in      *)
(* every state of main.                                                    *)
(***************************************************************************)
THEOREM Busqueda == Spec => []OptimizadorInv
<1>1. Init => OptimizadorInv
  BY InitOptimizador
<1>2. OptimizadorInv /\ [Next]_vars => OptimizadorInv'
  BY NextOptimizador
<1> QED
  BY <1>1, <1>2, PTL DEF Spec

(***************************************************************************)
(* The variables of main keep their types; the bytes do not go round.      *)
(***************************************************************************)
THEOREM TipoDelOptimizador == Spec => []TypeOK
<1>1. OptimizadorInv => TypeOK
  BY DEF OptimizadorInv
<1> QED
  BY <1>1, Busqueda, PTL

(***************************************************************************)
(* Whatever is predicted or subtracted, never more than three links are    *)
(* asked for: the loops of eight bits over the links end.                  *)
(***************************************************************************)
THEOREM NuncaMasDeTresEnlaces == Spec => []EnlacesAcotados
<1>1. OptimizadorInv => EnlacesAcotados
  BY DEF OptimizadorInv, Enlaces
<1> QED
  BY <1>1, Busqueda, PTL

(***************************************************************************)
(* How much is lost of the speeds that main should keep (simvoip.cc:88):   *)
(* all simulations of the program are at one speed.                        *)
(***************************************************************************)
UnaSolaVelocidad == \A s, r \in simuladas : s[2] = r[2]

(***************************************************************************)
(* For every list of speeds, all simulations of one run of main use the    *)
(* same one, as the key of the map is never incremented.                   *)
(***************************************************************************)
THEOREM UnaVelocidadParaTodo == Spec => []UnaSolaVelocidad
<1>1. OptimizadorInv => UnaSolaVelocidad
  BY DEF OptimizadorInv, Simulado, UnaSolaVelocidad
<1> QED
  BY <1>1, Busqueda, PTL

(***************************************************************************)
(* How far main is from reporting the simulation before (simvoip.cc:178):  *)
(* what it reports was never simulated.                                    *)
(***************************************************************************)
InformaSoloSinBuscar ==
  paso = "fin" => simuladas = {} /\ qos_objetivo = 0

(***************************************************************************)
(* main reaches its report only with a target of exactly zero, and then    *)
(* without having simulated anything.                                      *)
(***************************************************************************)
THEOREM SoloInformaSinSimular == Spec => []InformaSoloSinBuscar
<1>1. OptimizadorInv => InformaSoloSinBuscar
  BY DEF OptimizadorInv, Rumbo, Simulado, InformaSoloSinBuscar
<1> QED
  BY <1>1, Busqueda, PTL

(***************************************************************************)
(* However many telephones there are and whatever order they are deleted   *)
(* in, none is destroyed a second time by the Ptr that its node drops.     *)
(***************************************************************************)
THEOREM NadieMuereDosVeces == Spec => []DestruidoUnaVez
<1>1. OptimizadorInv => DestruidoUnaVez
  BY DEF OptimizadorInv, DosReferencias
<1> QED
  BY <1>1, Busqueda, PTL

-----------------------------------------------------------------------------
(***************************************************************************)
(* The rounds of phase I.  A prediction of zero adds no link, and without  *)
(* links a simulation does not get as far as running.                      *)
(***************************************************************************)
Rondas ==
  qos_objetivo > 0 =>
    /\ paso = "reparte" /\ x = 0 => resultado.enlaces = 0
    /\ paso \in {"corre", "borra", "predice"} => resultado.enlaces >= 1

(***************************************************************************)
(* The numbers that the rounds and their steps are counted with.           *)
(***************************************************************************)
LEMMA NumerosDelOptimizador ==
  ASSUME OptimizadorInv
  PROVE  /\ resultado.enlaces \in Nat /\ resultado.enlaces <= 3
         /\ anterior.enlaces \in Nat
         /\ resultado.velocidad \in Nat /\ resultado.velocidad < Byte
         /\ Byte \in Nat /\ qos_objetivo \in Int /\ x \in Nat
         /\ Len(lista) \in Nat /\ Len(listaTasas) \in Nat
<1>1. /\ resultado \in Puntos /\ anterior \in Puntos
      /\ qos_objetivo \in Int /\ x \in 0 .. MaxX
      /\ lista \in Seq(Velocidades) /\ listaTasas \in Seq(Nat)
      /\ Byte \in Nat /\ resultado.enlaces <= 3
  BY OptimizadorAssumption DEF OptimizadorInv, TypeOK, Enlaces, EnlacesAcotados
<1>2. /\ resultado.enlaces \in Nat /\ anterior.enlaces \in Nat
      /\ resultado.velocidad \in Nat /\ resultado.velocidad < Byte
  BY <1>1 DEF Puntos, Bytes
<1>3. Len(lista) \in Nat /\ Len(listaTasas) \in Nat
  BY <1>1, LenProperties
<1> QED
  BY <1>1, <1>2, <1>3, OptimizadorAssumption

(***************************************************************************)
(* There are finitely many telephones to delete, none more than were made. *)
(***************************************************************************)
LEMMA VivosFinitos ==
  /\ IsFiniteSet(Vivos)
  /\ Cardinality(Vivos) \in Nat /\ Cardinality(Aparatos) \in Nat
  /\ Cardinality(Vivos) <= Cardinality(Aparatos)
<1>1. Vivos \subseteq Aparatos
  BY DEF Vivos
<1> QED
  BY <1>1, AparatosAssumption, FS_Subset, FS_CardinalityType

(***************************************************************************)
(* A step that leaves the number of links alone.                           *)
(***************************************************************************)
LEMMA RondasSolo ==
  ASSUME OptimizadorInv, Rondas,
         UNCHANGED <<qos_objetivo, resultado>>,
         paso' # "reparte",
         paso' \in {"corre", "borra", "predice"} =>
           paso \in {"corre", "borra", "predice"} \/ resultado.enlaces # 0
  PROVE  Rondas'
  BY NumerosDelOptimizador DEF Rondas

(***************************************************************************)
(* The prediction starts from no link.                                     *)
(***************************************************************************)
LEMMA PrediceSinEnlaces ==
  ASSUME OptimizadorInv, Predice
  PROVE  /\ paso = "predice" /\ paso' = "reparte"
         /\ qos_objetivo' = qos_objetivo /\ qos_objetivo > 0
         /\ resultado'.enlaces = 0
<1>1. /\ paso = "predice" /\ paso' = "reparte" /\ qos_objetivo' = qos_objetivo
      /\ resultado' = [resultado EXCEPT !.enlaces = 0, !.velocidad = 0]
  BY DEF Predice
<1>2. qos_objetivo > 0 /\ resultado \in Puntos
  BY <1>1 DEF OptimizadorInv, TypeOK, Rumbo
<1> QED
  BY <1>1, <1>2 DEF Puntos

(***************************************************************************)
(* Every step of main keeps the rounds in order.                           *)
(***************************************************************************)
LEMMA RondasSigue ==
  ASSUME OptimizadorInv, Rondas, [Next]_vars
  PROVE  Rondas'
<1>1. CASE LeeVelocidad \/ LeeTasa \/ FinVelocidades \/ FinTasas \/ FaseI
  BY <1>1, RondasSolo DEF LeeVelocidad, LeeTasa, FinVelocidades, FinTasas, FaseI,
     opciones, busqueda
<1>2. CASE \/ FinFaseI \/ CambiaColas \/ CambiaColasSinEnlaces \/ MideSinTrafico
           \/ DestruyeYMuere \/ ReparteSinVelocidad \/ Informa \/ Construye
           \/ FinReparte \/ Destruye
  <2>1. UNCHANGED <<qos_objetivo, resultado>> /\ paso' # "reparte"
    BY <1>2 DEF FinFaseI, CambiaColas, CambiaColasSinEnlaces, MideSinTrafico,
       DestruyeYMuere, ReparteSinVelocidad, Informa, Construye, FinReparte, Destruye,
       Aborta, Va, opciones, busqueda
  <2>2. paso' \in {"corre", "borra", "predice"} =>
          paso \in {"corre", "borra", "predice"} \/ resultado.enlaces # 0
    BY <1>2 DEF FinFaseI, CambiaColas, CambiaColasSinEnlaces, MideSinTrafico,
       DestruyeYMuere, ReparteSinVelocidad, Informa, Construye, FinReparte, Destruye,
       Aborta, Va, FaltaElPrimero
  <2> QED
    BY <2>1, <2>2, RondasSolo
<1>3. CASE Mide \/ \E a \in Aparatos : BorraAparato(a)
  BY <1>3, RondasSolo DEF Mide, BorraAparato, opciones, busqueda
<1>4. CASE Predice
  BY <1>4, PrediceSinEnlaces DEF Rondas
<1>5. CASE Reparte
  <2>1. /\ paso = "reparte" /\ UNCHANGED <<paso, qos_objetivo, anterior, x>>
        /\ qos_objetivo > 0
    BY <1>5 DEF Reparte, opciones, OptimizadorInv, Rumbo
  <2>2. x # 0
    <3>1. /\ velocidades[0] \in Velocidades
          /\ velocidades[0] > 0 /\ x \div velocidades[0] > resultado.enlaces * 1000000
      BY <1>5, <2>1 DEF Reparte, Falta, OptimizadorInv, TypeOK, Mapa
    <3>2. velocidades[0] \in Nat
      BY <3>1, VelocidadesNat
    <3>3. \A n \in Nat : n > 0 => 0 \div n = 0
      OBVIOUS
    <3>4. resultado.enlaces * 1000000 >= 0
      BY NumerosDelOptimizador
    <3> QED
      BY <3>1, <3>2, <3>3, <3>4, NumerosDelOptimizador
  <2> QED
    BY <2>1, <2>2 DEF Rondas
<1>6. CASE FaseII \/ Anota
  <2>1. qos_objetivo \in Int /\ qos_objetivo' = qos_objetivo /\ qos_objetivo <= 0
    BY <1>6, NumerosDelOptimizador DEF FaseII, Anota, opciones, OptimizadorInv, Rumbo
  <2> QED
    BY <2>1 DEF Rondas
<1>7. CASE UNCHANGED vars
  BY <1>7 DEF vars, opciones, busqueda, Rondas
<1>8. CASE Acabado
  BY <1>7, <1>8 DEF Acabado
<1> QED
  BY <1>1, <1>2, <1>3, <1>4, <1>5, <1>6, <1>7, <1>8 DEF Next

-----------------------------------------------------------------------------
(***************************************************************************)
(* The steps that bring main nearer to its end, by kinds.                  *)
(***************************************************************************)
Acerca ==
  \/ paso = "predice" /\ x' # 0
  \/ Vueltas' < Vueltas
  \/ Vueltas' = Vueltas /\ Tramo' < Tramo

EnRonda == {"velocidades", "tasas", "faseI", "simular", "colas", "corre", "borra",
            "predice", "anota", "faseII"}

(***************************************************************************)
(* Neither count is below zero, and something is left before the end.      *)
(***************************************************************************)
LEMMA QuedaAlgo ==
  ASSUME OptimizadorInv, paso \in EnRonda \/ paso = "reparte"
  PROVE  Vueltas \in Nat /\ Tramo \in Nat /\ (Vueltas > 0 \/ Tramo > 0)
<1>1. CASE paso = "reparte"
  <2>1. Vueltas = IF x = 0 THEN 1 ELSE 2
    BY <1>1 DEF Vueltas
  <2>2. Tramo = 3 - resultado.enlaces
    BY <1>1 DEF Tramo
  <2> QED
    BY <2>1, <2>2, NumerosDelOptimizador
<1>2. CASE paso \in EnRonda
  <2>1. Vueltas \in Nat
    <3>1. CASE qos_objetivo <= 0
      <4>0. qos_objetivo \in Int
        BY NumerosDelOptimizador
      <4>1. Vueltas = Altura(resultado)
        BY <1>2, <3>1, <4>0 DEF Vueltas, EnRonda
      <4>2. Altura(resultado) \in Nat
        BY NumerosDelOptimizador DEF Altura
      <4> QED
        BY <4>1, <4>2
    <3>2. CASE qos_objetivo > 0
      BY <1>2, <3>2, NumerosDelOptimizador DEF Vueltas, EnRonda
    <3> QED
      BY <3>1, <3>2, NumerosDelOptimizador
  <2>2. Tramo \in Nat /\ Tramo > 0
    <3>1. /\ Len(lista) \in Nat /\ Len(listaTasas) \in Nat
          /\ Cardinality(Vivos) \in Nat /\ Cardinality(Aparatos) \in Nat
      BY NumerosDelOptimizador, VivosFinitos
    <3> DEFINE n == Cardinality(Aparatos)
    <3>2. /\ paso = "velocidades" => Tramo = n + 9 + Len(listaTasas) + Len(lista)
          /\ paso = "tasas" => Tramo = n + 9 + Len(listaTasas)
      BY DEF Tramo
    <3>3. /\ paso = "faseI" => Tramo = n + 9
          /\ paso = "simular" => Tramo = n + 8
          /\ paso = "colas" => Tramo = n + 7
          /\ paso = "corre" => Tramo = n + 6
          /\ paso = "borra" => Tramo = Cardinality(Vivos) + 5
      BY DEF Tramo
    <3>4. /\ paso = "predice" => Tramo = 4
          /\ paso = "anota" => Tramo = 2
          /\ paso = "faseII" => Tramo = 1
      BY DEF Tramo
    <3> HIDE DEF n
    <3>5. n \in Nat
      BY <3>1 DEF n
    <3> QED
      BY <1>2, <3>1, <3>2, <3>3, <3>4, <3>5 DEF EnRonda
  <2> QED
    BY <2>1, <2>2
<1> QED
  BY <1>1, <1>2

(***************************************************************************)
(* A step to the end.                                                      *)
(***************************************************************************)
LEMMA AcercaElFin ==
  ASSUME OptimizadorInv, paso \in EnRonda \/ paso = "reparte",
         paso' \in {"fin", "abortado"}
  PROVE  Acerca
<1>1. Vueltas' = 0 /\ Tramo' = 0
  BY DEF Vueltas, Tramo
<1> QED
  BY <1>1, QuedaAlgo DEF Acerca

(***************************************************************************)
(* A step within a round.                                                  *)
(***************************************************************************)
LEMMA MismaRonda ==
  ASSUME OptimizadorInv, paso \in EnRonda, paso' \in EnRonda,
         UNCHANGED <<qos_objetivo, resultado>>,
         Tramo' < Tramo
  PROVE  Acerca
<1>1. Vueltas' = Vueltas
  <2>1. qos_objetivo \in Int
    BY NumerosDelOptimizador
  <2> QED
    BY <2>1 DEF Vueltas, EnRonda
<1> QED
  BY <1>1 DEF Acerca

(***************************************************************************)
(* The steps of a round, parsing and simular among them.                   *)
(***************************************************************************)
LEMMA AcercaDentro ==
  ASSUME OptimizadorInv,
         \/ LeeVelocidad \/ FinVelocidades \/ LeeTasa \/ FinTasas
         \/ FaseI \/ FinFaseI \/ Construye \/ CambiaColas \/ Mide \/ Destruye \/ Anota
  PROVE  Acerca
<1>1. /\ Len(lista) \in Nat /\ Len(listaTasas) \in Nat
      /\ Cardinality(Vivos) \in Nat /\ Cardinality(Aparatos) \in Nat
      /\ Cardinality(Vivos) <= Cardinality(Aparatos)
  BY NumerosDelOptimizador, VivosFinitos
<1> USE DEF EnRonda, opciones, busqueda, simulacion, Va
<1>2. CASE LeeVelocidad
  <2>1. /\ paso = "velocidades" /\ paso' = "velocidades"
        /\ UNCHANGED <<qos_objetivo, resultado, anterior, listaTasas>>
        /\ lista' = Tail(lista)
    BY <1>2 DEF LeeVelocidad
  <2>2. Len(lista') = Len(lista) - 1
    <3>1. lista \in Seq(Velocidades) /\ Len(lista) > 0
      BY DEF OptimizadorInv, TypeOK
    <3> QED
      BY <2>1, <3>1, EmptySeq, HeadTailProperties
  <2>3. Tramo = Cardinality(Aparatos) + 9 + Len(listaTasas) + Len(lista)
    BY <2>1 DEF Tramo
  <2>4. Tramo' = Cardinality(Aparatos) + 9 + Len(listaTasas) + Len(lista')
    BY <2>1 DEF Tramo
  <2>5. Tramo' < Tramo
    BY <1>1, <2>2, <2>3, <2>4
  <2> QED
    BY <2>1, <2>5, MismaRonda
<1>3. CASE LeeTasa
  <2>1. /\ paso = "tasas" /\ paso' = "tasas"
        /\ UNCHANGED <<qos_objetivo, resultado, anterior>>
        /\ listaTasas' = Tail(listaTasas)
    BY <1>3 DEF LeeTasa
  <2>2. Len(listaTasas') = Len(listaTasas) - 1
    <3>1. listaTasas \in Seq(Nat) /\ Len(listaTasas) > 0
      BY DEF OptimizadorInv, TypeOK
    <3> QED
      BY <2>1, <3>1, EmptySeq, HeadTailProperties
  <2>3. Tramo = Cardinality(Aparatos) + 9 + Len(listaTasas)
    BY <2>1 DEF Tramo
  <2>4. Tramo' = Cardinality(Aparatos) + 9 + Len(listaTasas')
    BY <2>1 DEF Tramo
  <2>5. Tramo' < Tramo
    BY <1>1, <2>2, <2>3, <2>4
  <2> QED
    BY <2>1, <2>5, MismaRonda
<1>4. CASE FinVelocidades \/ FinTasas
  <2>1. /\ UNCHANGED <<qos_objetivo, resultado, anterior, lista, listaTasas>>
        /\ \/ paso = "velocidades" /\ paso' = "tasas"
           \/ paso = "tasas" /\ paso' = "faseI"
    BY <1>4 DEF FinVelocidades, FinTasas
  <2>2. Len(lista) > 0 /\ Len(listaTasas) > 0
    BY DEF OptimizadorInv, TypeOK
  <2>3. Tramo' < Tramo
    BY <1>1, <2>1, <2>2 DEF Tramo
  <2> QED
    BY <2>1, <2>3, MismaRonda
<1>5. CASE FaseI \/ FinFaseI
  <2>1. /\ UNCHANGED <<qos_objetivo, resultado, anterior>>
        /\ paso = "faseI" /\ paso' \in {"simular", "faseII"}
    BY <1>5 DEF FaseI, FinFaseI
  <2>2. Tramo' < Tramo
    BY <1>1, <2>1 DEF Tramo
  <2> QED
    BY <2>1, <2>2, MismaRonda
<1>6. CASE Construye \/ CambiaColas
  <2>1. /\ UNCHANGED <<qos_objetivo, resultado, anterior>>
        /\ \/ paso = "simular" /\ paso' = "colas"
           \/ paso = "colas" /\ paso' = "corre"
    BY <1>6 DEF Construye, CambiaColas
  <2>2. Tramo' < Tramo
    BY <1>1, <2>1 DEF Tramo
  <2> QED
    BY <2>1, <2>2, MismaRonda
<1>7. CASE Mide
  <2>1. /\ UNCHANGED <<qos_objetivo, resultado, anterior, destruidos>>
        /\ paso = "corre" /\ paso' = "borra"
    BY <1>7 DEF Mide, vidaVars
  <2>2. Cardinality(Vivos') = Cardinality(Vivos)
    BY <2>1 DEF Vivos
  <2>3. Tramo' < Tramo
    BY <1>1, <2>1, <2>2 DEF Tramo
  <2> QED
    BY <2>1, <2>3, MismaRonda
<1>8. CASE Destruye
  <2>1. /\ UNCHANGED <<qos_objetivo, resultado, anterior>>
        /\ paso = "borra" /\ paso' \in {"predice", "anota"}
    BY <1>8 DEF Destruye
  <2>2. Tramo' < Tramo
    BY <1>1, <2>1 DEF Tramo
  <2> QED
    BY <2>1, <2>2, MismaRonda
<1>9. CASE Anota
  <2>1. /\ UNCHANGED <<qos_objetivo, resultado>> /\ qos_objetivo < 0
        /\ paso = "anota" /\ paso' = "faseII"
    BY <1>9 DEF Anota, OptimizadorInv, Rumbo
  <2>2. Tramo' < Tramo
    BY <2>1 DEF Tramo
  <2> QED
    BY <2>1, <2>2, MismaRonda
<1> QED
  BY <1>2, <1>3, <1>4, <1>5, <1>6, <1>7, <1>8, <1>9

(***************************************************************************)
(* Deleting a telephone leaves one less to delete.                         *)
(***************************************************************************)
LEMMA AcercaBorrando ==
  ASSUME OptimizadorInv, NEW a \in Aparatos, BorraAparato(a)
  PROVE  Acerca
<1>1. /\ paso = "borra" /\ paso' = "borra" /\ destruidos[a] = 0
      /\ destruidos' = [destruidos EXCEPT ![a] = @ + 1]
      /\ UNCHANGED <<qos_objetivo, resultado, anterior>>
  BY DEF BorraAparato, Borra, opciones, busqueda
<1>2. destruidos \in [Aparatos -> Nat]
  BY DEF OptimizadorInv, TypeOK
<1>3. a \in Vivos /\ Vivos' = Vivos \ {a}
  BY <1>1, <1>2 DEF Vivos
<1>4. Cardinality(Vivos') = Cardinality(Vivos) - 1
  BY <1>3, VivosFinitos, FS_RemoveElement
<1>5. Tramo' < Tramo
  BY <1>1, <1>4, VivosFinitos DEF Tramo
<1> QED
  BY <1>1, <1>5, MismaRonda DEF EnRonda

(***************************************************************************)
(* The steps of the prediction.                                            *)
(***************************************************************************)
LEMMA AcercaPrediciendo ==
  ASSUME OptimizadorInv, Rondas, Predice \/ Reparte \/ FinReparte
  PROVE  Acerca
<1>1. CASE Predice
  <2>1. /\ paso = "predice" /\ paso' = "reparte" /\ qos_objetivo > 0
        /\ resultado'.enlaces = 0
    BY <1>1, PrediceSinEnlaces
  <2>2. Vueltas = 1
    BY <2>1, NumerosDelOptimizador DEF Vueltas, Rondas
  <2>3. x' = 0 => Vueltas' = 1
    BY <2>1 DEF Vueltas
  <2>4. Tramo = 4 /\ Tramo' = 3
    BY <2>1 DEF Tramo
  <2> QED
    BY <2>1, <2>2, <2>3, <2>4 DEF Acerca
<1>2. CASE Reparte
  <2>1. /\ paso = "reparte" /\ paso' = "reparte" /\ x' = x
        /\ resultado'.enlaces = resultado.enlaces + 1
    <3>1. /\ resultado \in Puntos /\ resultado.enlaces \in Nat
          /\ resultado' = [resultado EXCEPT !.enlaces = resultado.enlaces + 1,
                                           !.velocidad = 0]
      BY <1>2, ReparteSuma DEF OptimizadorInv, TypeOK
    <3> DEFINE s == resultado.enlaces + 1
    <3>2. resultado' = [resultado EXCEPT !.enlaces = s, !.velocidad = 0]
      BY <3>1
    <3> HIDE DEF s
    <3>3. resultado'.enlaces = s
      BY <3>1, <3>2 DEF Puntos
    <3> QED
      BY <1>2, <3>3 DEF Reparte, opciones, s
  <2>2. Vueltas' = Vueltas
    BY <2>1 DEF Vueltas
  <2>3. Tramo' < Tramo
    BY <2>1, NumerosDelOptimizador DEF Tramo
  <2> QED
    BY <2>2, <2>3 DEF Acerca
<1>3. CASE FinReparte
  <2>1. /\ paso = "reparte" /\ paso' = "faseI"
        /\ UNCHANGED <<qos_objetivo, resultado>>
        /\ qos_objetivo > 0
    BY <1>3 DEF FinReparte, Va, opciones, busqueda, OptimizadorInv, Rumbo
  <2>2. x = 0 => resultado.enlaces = 0
    BY <2>1 DEF Rondas
  <2>3. Vueltas = IF x = 0 THEN 1 ELSE 2
    BY <2>1 DEF Vueltas
  <2>4. Vueltas' = IF resultado.enlaces = 0 THEN 0 ELSE 1
    BY <2>1, NumerosDelOptimizador DEF Vueltas
  <2>5. Vueltas' < Vueltas
    BY <2>2, <2>3, <2>4, NumerosDelOptimizador
  <2> QED
    BY <2>5 DEF Acerca
<1> QED
  BY <1>1, <1>2, <1>3

(***************************************************************************)
(* Phase II goes one speed down, or one link down and 255 speeds up.       *)
(***************************************************************************)
LEMMA AcercaBajando ==
  ASSUME OptimizadorInv, FaseII
  PROVE  Acerca
<1>1. /\ paso = "faseII" /\ paso' = "simular" /\ qos_objetivo' = qos_objetivo
      /\ resultado' = Baja(resultado)
      /\ resultado \in Puntos /\ TypeOK /\ Mapa /\ Enlaces
      /\ qos_objetivo <= 0
  BY DEF FaseII, opciones, OptimizadorInv, TypeOK, Rumbo
<1> DEFINE e == resultado.enlaces
           v == resultado.velocidad
           n == (Cardinality(DOMAIN velocidades) - 1) % Byte
<1>2. e \in Nat /\ e >= 1 /\ e < Byte /\ v \in Nat /\ v < Byte /\ Byte \in Nat /\ Byte > 3
  BY <1>1, NumerosDelOptimizador, OptimizadorAssumption DEF Enlaces
<1>3. n \in 0 .. Byte - 1
  <2>1. Cardinality(DOMAIN velocidades) \in {0, 1}
    BY <1>1, MapaDeUno DEF Mapa
  <2> DEFINE c == Cardinality(DOMAIN velocidades) - 1
  <2>2. c \in Int
    BY <2>1
  <2> HIDE DEF c
  <2>3. c % Byte \in 0 .. Byte - 1
    BY <1>2, <2>2
  <2> QED
    BY <2>3 DEF c
<1>4. (e - 1) % Byte = e - 1
  <2> DEFINE s == e - 1
  <2>1. s \in Nat /\ s < Byte
    BY <1>2
  <2>2. \A m, k \in Nat : m < k => m % k = m
    OBVIOUS
  <2> HIDE DEF s
  <2>3. s % Byte = s
    BY <1>2, <2>1, <2>2
  <2> QED
    BY <2>3 DEF s
<1>5. \/ v = 0 /\ resultado'.enlaces = e - 1 /\ resultado'.velocidad = n
      \/ v > 0 /\ resultado'.enlaces = e /\ resultado'.velocidad = v - 1
  <2>1. CASE v = 0
    <3>1. resultado' = [resultado EXCEPT !.velocidad = n, !.enlaces = (e - 1) % Byte]
      BY <1>1, <2>1 DEF Baja
    <3> HIDE DEF n
    <3> QED
      BY <1>1, <1>4, <2>1, <3>1 DEF Puntos
  <2>2. CASE v # 0
    <3>1. resultado' = [resultado EXCEPT !.velocidad = v - 1]
      BY <1>1, <2>2 DEF Baja
    <3> QED
      BY <1>1, <1>2, <2>2, <3>1 DEF Puntos
  <2> QED
    BY <2>1, <2>2
<1>6. /\ Vueltas = e * Byte + v
      /\ Vueltas' = resultado'.enlaces * Byte + resultado'.velocidad
  <2>1. qos_objetivo \in Int
    BY NumerosDelOptimizador
  <2>2. Vueltas = Altura(resultado)
    BY <1>1, <2>1 DEF Vueltas
  <2>3. Vueltas' = Altura(resultado')
    BY <1>1, <2>1 DEF Vueltas
  <2> QED
    BY <2>2, <2>3, Zenon DEF Altura
<1>7. (e - 1) * Byte = e * Byte - Byte /\ e * Byte \in Nat
  <2> HIDE DEF e
  <2> QED
    BY <1>2
<1>8. Vueltas' < Vueltas
  <2> DEFINE m == e * Byte
  <2>1. m \in Nat /\ Vueltas = m + v /\ (e - 1) * Byte = m - Byte
    BY <1>6, <1>7
  <2> HIDE DEF m, n, e, v
  <2>2. Vueltas' = m - Byte + n \/ Vueltas' = m + (v - 1)
    <3>1. CASE v = 0 /\ resultado'.enlaces = e - 1 /\ resultado'.velocidad = n
      BY <1>6, <2>1, <3>1
    <3>2. CASE resultado'.enlaces = e /\ resultado'.velocidad = v - 1
      BY <1>6, <2>1, <3>2 DEF m
    <3> QED
      BY <1>5, <3>1, <3>2
  <2> QED
    BY <1>2, <1>3, <2>1, <2>2
<1> QED
  BY <1>8 DEF Acerca

(***************************************************************************)
(* What alone can keep the search going: whatever the lists of speeds, the *)
(* target and the qualities measured, every step of main brings its end    *)
(* nearer but for a prediction that an undefined conversion makes other    *)
(* than zero.  Phase II and the loops of eight bits always end.            *)
(***************************************************************************)
THEOREM SoloPredecirAleja == Spec => CadaPasoAcerca
<1>1. Init => OptimizadorInv /\ Rondas
  BY InitOptimizador DEF Init, Rondas, Punto
<1>2. (OptimizadorInv /\ Rondas) /\ [Next]_vars => (OptimizadorInv /\ Rondas)'
  BY NextOptimizador, RondasSigue
<1>3. (OptimizadorInv /\ Rondas) /\ [Next]_vars => [Acerca]_vars
  <2> SUFFICES ASSUME OptimizadorInv, Rondas, Next, vars' # vars
               PROVE  Acerca
    OBVIOUS
  <2>1. CASE \/ LeeVelocidad \/ FinVelocidades \/ LeeTasa \/ FinTasas
             \/ FaseI \/ FinFaseI \/ Construye \/ CambiaColas \/ Mide \/ Destruye
             \/ Anota
    BY <2>1, AcercaDentro
  <2>2. CASE \E a \in Aparatos : BorraAparato(a)
    BY <2>2, AcercaBorrando
  <2>3. CASE Predice \/ Reparte \/ FinReparte
    BY <2>3, AcercaPrediciendo
  <2>4. CASE FaseII
    BY <2>4, AcercaBajando
  <2>5. CASE \/ CambiaColasSinEnlaces \/ MideSinTrafico \/ DestruyeYMuere
             \/ ReparteSinVelocidad \/ Informa
    BY <2>5, AcercaElFin DEF CambiaColasSinEnlaces, MideSinTrafico, DestruyeYMuere,
       ReparteSinVelocidad, Informa, Aborta, Va, EnRonda
  <2>6. CASE Acabado
    BY <2>6 DEF Acabado
  <2> QED
    BY <2>1, <2>2, <2>3, <2>4, <2>5, <2>6 DEF Next
<1> QED
  BY <1>1, <1>2, <1>3, PTL DEF Spec, CadaPasoAcerca, Acerca
=============================================================================
