------------------------------ MODULE RedProofs -----------------------------
(***************************************************************************)
(* Theorems about Red and Topologia, for any number of telephones in each  *)
(* site, of links between the routers, of calls of cambiaEnlace and of     *)
(* hops.                                                                   *)
(***************************************************************************)
EXTENDS Red, Induccion, SequenceTheorems

-----------------------------------------------------------------------------
(***************************************************************************)
(* The network: any numbers of telephones and links but zero.              *)
(***************************************************************************)
Argumentos == telef \in [Sedes -> Nat \ {0}] /\ enlaces \in Nat \ {0}

(***************************************************************************)
(* A function on an initial segment, and two of them one after the other.  *)
(***************************************************************************)
EsLista(f, n) == n \in Nat /\ f = [i \in 1 .. n |-> f[i]]

Junto(f, g) == f \o g

(***************************************************************************)
(* Two lists one after the other.                                          *)
(***************************************************************************)
LEMMA Concatena ==
  ASSUME NEW f, NEW m, EsLista(f, m), NEW g, NEW n, EsLista(g, n)
  PROVE  /\ EsLista(Junto(f, g), m + n)
         /\ \A i \in 1 .. m : Junto(f, g)[i] = f[i]
         /\ \A i \in 1 .. n : Junto(f, g)[m + i] = g[i]
<1> DEFINE S == {f[i] : i \in 1 .. m} \cup {g[i] : i \in 1 .. n}
           F == Junto(f, g)
<1>1. f \in [1 .. m -> S] /\ g \in [1 .. n -> S]
  BY Zenon DEF EsLista
<1> HIDE DEF S
<1>2. m \in Nat /\ n \in Nat
  BY DEF EsLista
<1>3. f \in Seq(S) /\ g \in Seq(S)
  BY <1>1, <1>2, SeqDef
<1>4. Len(f) = m /\ Len(g) = n
  BY <1>1, <1>2, <1>3, LenProperties
<1>5. /\ F \in Seq(S) /\ Len(F) = m + n
      /\ \A i \in 1 .. m + n : F[i] = IF i <= m THEN f[i] ELSE g[i - m]
  BY <1>3, <1>4, ConcatProperties DEF Junto
<1> HIDE DEF F
<1>6. F \in [1 .. m + n -> S]
  BY <1>5, LenProperties
<1>7. F = [i \in 1 .. m + n |-> F[i]]
  BY <1>6
<1>8. ASSUME NEW i \in 1 .. m
      PROVE  F[i] = f[i]
  BY <1>2, <1>5
<1>9. ASSUME NEW i \in 1 .. n
      PROVE  F[m + i] = g[i]
  <2>1. m + i \in 1 .. m + n /\ ~(m + i <= m) /\ (m + i) - m = i
    BY <1>2
  <2> QED
    BY <1>5, <2>1
<1>10. m + n \in Nat
  BY <1>2
<1>11. EsLista(F, m + n)
  BY <1>7, <1>10 DEF EsLista
<1> QED
  BY <1>8, <1>9, <1>11 DEF F

(***************************************************************************)
(* The last of a set of positions is the greatest one.                     *)
(***************************************************************************)
LEMMA UltimoEs ==
  ASSUME NEW S, S \subseteq Int, NEW k \in S, \A l \in S : l <= k
  PROVE  Ultimo(S) = k
<1>1. Ultimo(S) \in S /\ \A l \in S : l <= Ultimo(S)
  <2>1. \E j \in S : \A l \in S : l <= j
    OBVIOUS
  <2> QED
    BY <2>1 DEF Ultimo
<1>2. Ultimo(S) <= k /\ k <= Ultimo(S)
  BY <1>1
<1>3. Ultimo(S) \in Int /\ k \in Int
  BY <1>1
<1> QED
  BY <1>2, <1>3

(***************************************************************************)
(* The last position of an interval is its end.                            *)
(***************************************************************************)
LEMMA UltimoDeTramo ==
  ASSUME NEW a \in Int, NEW b \in Int, a <= b
  PROVE  Ultimo(a .. b) = b
<1>1. a .. b \subseteq Int /\ b \in a .. b /\ \A l \in a .. b : l <= b
  OBVIOUS
<1> QED
  BY <1>1, UltimoEs

-----------------------------------------------------------------------------
(***************************************************************************)
(* Telephones and routers.                                                 *)
(***************************************************************************)
LEMMA QuienEsQuien ==
  ASSUME Argumentos
  PROVE  /\ \A s \in Sedes : /\ Router(s) \in Nodos /\ EsRouter(Router(s))
                             /\ Router(s).sede = s /\ Router(s).c = telef[s]
         /\ \A n \in Nodos : /\ n.sede \in Sedes /\ n.c \in 0 .. telef[n.sede]
                             /\ n = Nodo(n.sede, n.c)
                             /\ EsRouter(n) <=> n.c = telef[n.sede]
         /\ \A n : n \in Telefonos(1) \cup Telefonos(2) <=> n \in Nodos /\ ~EsRouter(n)
         /\ \A s \in Sedes : \A c \in 0 .. telef[s] - 1 :
              Nodo(s, c) \in Nodos /\ ~EsRouter(Nodo(s, c))
<1> USE DEF Argumentos, Sedes
<1>1. \A s \in Sedes : Router(s) \in Terminales(s) /\ EsRouter(Router(s))
                       /\ Router(s).sede = s /\ Router(s).c = telef[s]
  BY DEF Router, Terminales, Nodo, EsRouter
<1>2. \A s \in Sedes : \A n \in Terminales(s) :
        /\ n.sede = s /\ n.c \in 0 .. telef[s] /\ n = Nodo(n.sede, n.c)
        /\ EsRouter(n) <=> n.c = telef[s]
  BY DEF Router, Terminales, Nodo, EsRouter
<1>3. \A s \in Sedes : \A n : n \in Telefonos(s) <=> n \in Terminales(s) /\ ~EsRouter(n)
  BY <1>1, <1>2 DEF Telefonos, EsRouter
<1>4. \A s \in Sedes : \A c \in 0 .. telef[s] - 1 :
        Nodo(s, c) \in Terminales(s) /\ ~EsRouter(Nodo(s, c))
  BY DEF Terminales, EsRouter, Router, Nodo
<1> QED
  BY <1>1, <1>2, <1>3, <1>4 DEF Nodos

(***************************************************************************)
(* A telephone has the route of its interface and the default route.       *)
(***************************************************************************)
LEMMA TablaDeTelefono ==
  ASSUME Argumentos, NEW t \in Nodos, ~EsRouter(t)
  PROVE  Tabla(t) = [k \in 1 .. 2 |->
           IF k = 1 THEN Ruta(t.sede, DireccionDe(t), 1)
           ELSE Ruta(PorDefecto, Direccion(t.sede, t.c + 1), 1)]
<1> DEFINE a == Ruta(t.sede, DireccionDe(t), 1)
           b == Ruta(PorDefecto, Direccion(t.sede, t.c + 1), 1)
<1>1. Conectadas(t) = <<a>> /\ RutaTerminal(t) = <<b>>
  BY DEF Conectadas, RutaTerminal
<1>2. RutasRouters(t) = <<>>
  BY QuienEsQuien DEF RutasRouters, Sedes
<1> HIDE DEF a, b
<1>3. (<<a>> \o <<b>>) \o <<>> = <<a, b>>
  <2>1. <<a>> \in Seq({a, b}) /\ <<b>> \in Seq({a, b}) /\ <<a, b>> \in Seq({a, b})
    OBVIOUS
  <2>2. <<a>> \o <<b>> = <<a, b>>
    <3>1. Len(<<a>>) = 1 /\ Len(<<b>>) = 1 /\ <<a>>[1] = a /\ <<b>>[1] = b
      OBVIOUS
    <3> DEFINE F == <<a>> \o <<b>>
    <3>2. F \in Seq({a, b}) /\ Len(F) = 2 /\ F[1] = a /\ F[2] = b
      BY <2>1, <3>1, ConcatProperties
    <3> HIDE DEF F
    <3>3. DOMAIN F = 1 .. 2 /\ F \in [1 .. 2 -> {a, b}]
      BY <3>2, LenProperties
    <3>4. F = <<a, b>>
      BY <3>2, <3>3
    <3> QED
      BY <3>4 DEF F
  <2> QED
    BY <2>1, <2>2, ConcatEmptySeq
<1>4. <<a, b>> = [k \in 1 .. 2 |-> IF k = 1 THEN a ELSE b]
  OBVIOUS
<1>5. Tabla(t) = [k \in 1 .. 2 |-> IF k = 1 THEN a ELSE b]
  BY <1>1, <1>2, <1>3, <1>4 DEF Tabla
<1> QED
  BY <1>5 DEF a, b

(***************************************************************************)
(* A telephone sends to its own site by its only route to it, and anywhere *)
(* else by its default route.                                              *)
(***************************************************************************)
LEMMA ElegidaDeTelefono ==
  ASSUME Argumentos, NEW t \in Nodos, ~EsRouter(t), NEW r \in {1, 2, 3}
  PROVE  /\ Elegida(t, r).i = 1
         /\ r # t.sede => Elegida(t, r).puerta = Direccion(t.sede, t.c + 1)
<1>1. /\ DOMAIN Tabla(t) = {1, 2}
      /\ Tabla(t)[1].red = t.sede /\ Tabla(t)[1].i = 1
      /\ Tabla(t)[2].red = 0 /\ Tabla(t)[2].i = 1
      /\ Tabla(t)[2].puerta = Direccion(t.sede, t.c + 1)
  BY TablaDeTelefono DEF Ruta, PorDefecto
<1>2. t.sede \in {1, 2}
  BY QuienEsQuien DEF Sedes
<1>3. CASE r = t.sede
  <2>1. Hacia(Tabla(t), r) = {1}
    BY <1>1, <1>2, <1>3 DEF Hacia
  <2>2. Elegida(t, r) = Tabla(t)[1]
    BY <2>1, UltimoEs DEF Elegida
  <2> QED
    BY <1>1, <1>3, <2>2
<1>4. CASE r # t.sede
  <2>1. Hacia(Tabla(t), r) = {} /\ Hacia(Tabla(t), PorDefecto) = {2}
    BY <1>1, <1>2, <1>4 DEF Hacia, PorDefecto
  <2>2. Elegida(t, r) = Tabla(t)[2]
    BY <2>1, UltimoEs DEF Elegida
  <2> QED
    BY <1>1, <1>4, <2>2
<1> QED
  BY <1>3, <1>4

(***************************************************************************)
(* A router's table: a route for each interface, the default route of its  *)
(* site, which goes out of interface 1, and, in that of router 1, two      *)
(* default routes for each link, out of interfaces 1 to enlaces.           *)
(***************************************************************************)
LEMMA TablaDeRouter ==
  ASSUME Argumentos, NEW s \in Sedes, NEW N, N = telef[s] + enlaces,
         NEW M, M = IF s = 1 THEN enlaces + enlaces ELSE 0
  PROVE  /\ DOMAIN Tabla(Router(s)) = 1 .. N + 1 + M
         /\ \A k \in 1 .. N : /\ Tabla(Router(s))[k].red = IF k <= telef[s] THEN s ELSE 3
                              /\ Tabla(Router(s))[k].i = k
         /\ Tabla(Router(s))[N + 1].red = 0 /\ Tabla(Router(s))[N + 1].i = 1
         /\ \A k \in 1 .. M :
              /\ Tabla(Router(s))[N + 1 + k].red = 0
              /\ Tabla(Router(s))[N + 1 + k].i = IF k <= enlaces THEN k ELSE k - enlaces
<1> DEFINE R == Router(s)
           A == Conectadas(R)
           B == RutaTerminal(R)
           C == RutasRouters(R)
<1>1. /\ telef[s] \in Nat \ {0} /\ enlaces \in Nat \ {0} /\ N \in Nat /\ M \in Nat
      /\ EsRouter(R) /\ R.sede = s /\ s \in {1, 2}
  BY QuienEsQuien DEF Argumentos, Sedes
<1>2. /\ EsLista(A, N)
      /\ \A k \in 1 .. N : A[k].red = (IF k <= telef[s] THEN s ELSE 3) /\ A[k].i = k
  <2>1. DOMAIN A = 1 .. N /\ A = [k \in 1 .. N |-> A[k]]
    BY <1>1 DEF Conectadas, Interfaces
  <2>2. \A k \in 1 .. N : A[k].red = (IF k <= telef[s] THEN s ELSE 3) /\ A[k].i = k
    BY <1>1 DEF Conectadas, Interfaces, Ruta
  <2> HIDE DEF A
  <2> QED
    BY <1>1, <2>1, <2>2 DEF EsLista
<1>3. EsLista(B, 1) /\ B[1].red = 0 /\ B[1].i = 1
  <2> DEFINE b == Ruta(PorDefecto, Direccion(R.sede, R.c + 1), 1)
  <2>1. B = <<b>> /\ b.red = 0 /\ b.i = 1
    BY DEF RutaTerminal, Ruta, PorDefecto
  <2> HIDE DEF B, b
  <2> QED
    BY <2>1 DEF EsLista
<1>4. /\ EsLista(C, M)
      /\ \A k \in 1 .. M : /\ C[k].red = 0
                           /\ C[k].i = IF k <= enlaces THEN k ELSE k - enlaces
  <2>1. CASE s = 1
    <3>1. C = Junto(RutasRouter1, RutasRouter2) /\ M = enlaces + enlaces
      BY <2>1 DEF RutasRouters, Junto
    <3>2. EsLista(RutasRouter1, enlaces) /\ EsLista(RutasRouter2, enlaces)
      BY <1>1 DEF EsLista, RutasRouter1, RutasRouter2
    <3>3. \A k \in 1 .. enlaces : /\ RutasRouter1[k].red = 0 /\ RutasRouter1[k].i = k
                                  /\ RutasRouter2[k].red = 0 /\ RutasRouter2[k].i = k
      BY DEF RutasRouter1, RutasRouter2, Ruta, PorDefecto
    <3> HIDE DEF C
    <3>4. /\ EsLista(C, M)
          /\ \A k \in 1 .. enlaces : /\ C[k] = RutasRouter1[k]
                                     /\ C[enlaces + k] = RutasRouter2[k]
      BY <3>1, <3>2, Concatena
    <3>5. ASSUME NEW k \in 1 .. M
          PROVE  C[k].red = 0 /\ C[k].i = IF k <= enlaces THEN k ELSE k - enlaces
      <4>1. CASE k \in 1 .. enlaces
        BY <1>1, <3>3, <3>4, <4>1
      <4>2. CASE k \notin 1 .. enlaces
        <5>1. k - enlaces \in 1 .. enlaces /\ enlaces + (k - enlaces) = k /\ ~(k <= enlaces)
          BY <1>1, <3>1, <4>2
        <5> QED
          BY <3>3, <3>4, <5>1
      <4> QED
        BY <4>1, <4>2
    <3> QED
      BY <3>4, <3>5
  <2>2. CASE s = 2
    <3>1. R # Router(1)
      BY <2>2 DEF Router, Nodo
    <3>2. C = <<>>
      BY <3>1 DEF RutasRouters
    <3>3. M = 0
      BY <2>2
    <3> HIDE DEF C
    <3> QED
      BY <3>2, <3>3 DEF EsLista
  <2> QED
    BY <1>1, <2>1, <2>2
<1> DEFINE AB == Junto(A, B)
           T == Tabla(Router(s))
<1>5. T = Junto(AB, C)
  BY DEF Tabla, Junto
<1> HIDE DEF A, B, C, T
<1>6. /\ EsLista(AB, N + 1) /\ AB[N + 1] = B[1]
      /\ \A k \in 1 .. N : AB[k] = A[k]
  <2>1. 1 \in 1 .. 1
    OBVIOUS
  <2>2. EsLista(A, N) /\ EsLista(B, 1)
    BY <1>2, <1>3
  <2>3. /\ EsLista(AB, N + 1)
        /\ \A k \in 1 .. N : AB[k] = A[k]
        /\ \A k \in 1 .. 1 : AB[N + k] = B[k]
    BY <2>2, Concatena
  <2> QED
    BY <2>1, <2>3
<1> HIDE DEF AB
<1>7. /\ EsLista(T, N + 1 + M)
      /\ \A k \in 1 .. N + 1 : T[k] = AB[k]
      /\ \A k \in 1 .. M : T[N + 1 + k] = C[k]
  BY <1>4, <1>5, <1>6, Concatena
<1>8. /\ DOMAIN T = 1 .. N + 1 + M
      /\ \A k \in 1 .. N : T[k] = A[k]
      /\ T[N + 1] = B[1]
  <2>1. DOMAIN T = 1 .. N + 1 + M
    BY <1>7 DEF EsLista
  <2>2. N + 1 \in 1 .. N + 1 /\ \A k \in 1 .. N : k \in 1 .. N + 1
    BY <1>1
  <2> QED
    BY <1>6, <1>7, <2>1, <2>2
<1> QED
  BY <1>2, <1>3, <1>4, <1>7, <1>8 DEF T

(***************************************************************************)
(* The interface by which a router sends: the last link for its own site   *)
(* and for the network of the routers; for the other site, the last of the *)
(* default routes it was given.                                            *)
(***************************************************************************)
LEMMA ElegidaDeRouter ==
  ASSUME Argumentos, NEW s \in Sedes
  PROVE  /\ Elegida(Router(s), s).i = telef[s]
         /\ Elegida(Router(s), 3).i = telef[s] + enlaces
         /\ s = 1 => Elegida(Router(s), 2).i = enlaces
         /\ s = 2 => Elegida(Router(s), 1).i = 1
<1> DEFINE n == telef[s]
           N == n + enlaces
           M == IF s = 1 THEN enlaces + enlaces ELSE 0
           T == Tabla(Router(s))
<1>1. n \in Nat \ {0} /\ enlaces \in Nat \ {0} /\ N \in Nat /\ M \in Nat /\ n <= N
      /\ N = n + enlaces /\ s \in {1, 2}
  BY DEF Argumentos, Sedes
<1>2. /\ s = 1 => M = enlaces + enlaces
      /\ s = 2 => M = 0
  OBVIOUS
<1>3. /\ DOMAIN T = 1 .. N + 1 + M
      /\ \A k \in 1 .. N : T[k].red = (IF k <= n THEN s ELSE 3) /\ T[k].i = k
      /\ T[N + 1].red = 0 /\ T[N + 1].i = 1
      /\ \A k \in 1 .. M : /\ T[N + 1 + k].red = 0
                           /\ T[N + 1 + k].i = IF k <= enlaces THEN k ELSE k - enlaces
  BY TablaDeRouter
<1>4. \A r : Elegida(Router(s), r) =
               T[Ultimo(IF Hacia(T, r) # {} THEN Hacia(T, r) ELSE Hacia(T, PorDefecto))]
  BY DEF Elegida
<1> HIDE DEF M, N, T
<1>5. \A k \in N + 1 .. N + 1 + M : T[k].red = 0
  <2> SUFFICES ASSUME NEW k \in N + 1 .. N + 1 + M, k # N + 1
               PROVE  T[k].red = 0
    BY <1>3
  <2>1. k - (N + 1) \in 1 .. M /\ N + 1 + (k - (N + 1)) = k
    BY <1>1
  <2> QED
    BY <1>3, <2>1
<1>6. \A r, k : k \in Hacia(T, r) <=> k \in 1 .. N + 1 + M /\ T[k].red = r
  BY <1>3 DEF Hacia
<1>7. ASSUME NEW k \in 1 .. N + 1 + M
      PROVE  /\ k \in 1 .. n => T[k].red = s
             /\ k \in n + 1 .. N => T[k].red = 3
             /\ k \in N + 1 .. N + 1 + M => T[k].red = 0
             /\ k \in 1 .. n \/ k \in n + 1 .. N \/ k \in N + 1 .. N + 1 + M
  <2>1. k \in 1 .. n => k \in 1 .. N /\ k <= n
    BY <1>1
  <2>2. k \in n + 1 .. N => k \in 1 .. N /\ ~(k <= n)
    BY <1>1
  <2>3. k \in 1 .. n \/ k \in n + 1 .. N \/ k \in N + 1 .. N + 1 + M
    BY <1>1
  <2> QED
    BY <1>3, <1>5, <2>1, <2>2, <2>3
<1>8. /\ 1 .. n \subseteq 1 .. N + 1 + M /\ n + 1 .. N \subseteq 1 .. N + 1 + M
      /\ N + 1 .. N + 1 + M \subseteq 1 .. N + 1 + M
  BY <1>1
<1>9. /\ Hacia(T, s) = 1 .. n /\ Hacia(T, 3) = n + 1 .. N
       /\ Hacia(T, 0) = N + 1 .. N + 1 + M /\ Hacia(T, 3 - s) = {}
  <2> DEFINE U == 1 .. n
             V1 == n + 1 .. N
             W == N + 1 .. N + 1 + M
             D == 1 .. N + 1 + M
  <2>1. \A k \in D : /\ k \in U => T[k].red = s
                     /\ k \in V1 => T[k].red = 3
                     /\ k \in W => T[k].red = 0
                     /\ k \in U \/ k \in V1 \/ k \in W
    BY <1>7
  <2>2. U \subseteq D /\ V1 \subseteq D /\ W \subseteq D
    BY <1>8
  <2>3. \A r, k : k \in Hacia(T, r) <=> k \in D /\ T[k].red = r
    BY <1>6
  <2>4. s # 3 /\ s # 0 /\ 3 - s # s /\ 3 - s # 3 /\ 3 - s # 0
    BY <1>1
  <2> HIDE DEF U, V1, W, D
  <2>5. Hacia(T, s) = U /\ Hacia(T, 3) = V1 /\ Hacia(T, 0) = W
    <3>1. \A k : k \in Hacia(T, s) <=> k \in U
      BY <2>1, <2>2, <2>3, <2>4
    <3>2. \A k : k \in Hacia(T, 3) <=> k \in V1
      BY <2>1, <2>2, <2>3, <2>4
    <3>3. \A k : k \in Hacia(T, 0) <=> k \in W
      BY <2>1, <2>2, <2>3, <2>4
    <3> QED
      BY <3>1, <3>2, <3>3, SetExtensionality
  <2>6. Hacia(T, 3 - s) = {}
    BY <2>1, <2>3, <2>4
  <2> QED
    BY <2>5, <2>6 DEF U, V1, W
<1>10. Elegida(Router(s), s).i = n
  <2>1. Ultimo(1 .. n) = n
    BY <1>1, UltimoDeTramo
  <2>2. 1 .. n # {} /\ n \in 1 .. N
    BY <1>1
  <2>3. Elegida(Router(s), s) = T[n]
    BY <1>4, <1>9, <2>1, <2>2
  <2> QED
    BY <1>3, <2>2, <2>3
<1>11. Elegida(Router(s), 3).i = N
  <2>1. Ultimo(n + 1 .. N) = N
    BY <1>1, UltimoDeTramo
  <2>2. n + 1 .. N # {} /\ N \in 1 .. N
    BY <1>1
  <2>3. Elegida(Router(s), 3) = T[N]
    BY <1>4, <1>9, <2>1, <2>2
  <2> QED
    BY <1>3, <2>2, <2>3
<1>12. Elegida(Router(s), 3 - s).i = IF s = 1 THEN enlaces ELSE 1
  <2>1. Ultimo(N + 1 .. N + 1 + M) = N + 1 + M
    BY <1>1, UltimoDeTramo
  <2>2. Elegida(Router(s), 3 - s) = T[N + 1 + M]
    BY <1>4, <1>9, <2>1 DEF PorDefecto
  <2>3. CASE s = 1
    <3>1. M \in 1 .. M /\ M - enlaces = enlaces /\ ~(M <= enlaces)
      BY <1>1, <1>2, <2>3
    <3>2. T[N + 1 + M].i = enlaces
      BY <1>3, <3>1
    <3> QED
      BY <2>2, <2>3, <3>2
  <2>4. CASE s = 2
    <3>1. N + 1 + M = N + 1
      BY <1>1, <1>2, <2>4
    <3> QED
      BY <1>3, <2>2, <2>4, <3>1
  <2> QED
    BY <1>1, <2>3, <2>4
<1> QED
  BY <1>1, <1>10, <1>11, <1>12 DEF N

(***************************************************************************)
(* Where a packet for a site goes from each node.                          *)
(***************************************************************************)
Siguiente(nodo, r) == Enfrente(nodo, Elegida(nodo, r).i)

(***************************************************************************)
(* Where a packet goes next is a node, and from a telephone its router.    *)
(***************************************************************************)
LEMMA Salto ==
  ASSUME Argumentos, NEW n \in Nodos, NEW r \in Sedes
  PROVE  /\ Siguiente(n, r) \in Nodos
         /\ ~EsRouter(n) => Siguiente(n, r) = Router(n.sede)
         /\ EsRouter(n) /\ r = n.sede => ~EsRouter(Siguiente(n, r)) /\ Siguiente(n, r).sede = r
         /\ n = Router(1) /\ r = 2 =>
              Siguiente(n, r) = IF enlaces <= telef[1] THEN Rebote(1) ELSE Router(2)
         /\ n = Router(2) /\ r = 1 => Siguiente(n, r) = Rebote(2)
         /\ EsRouter(n) /\ Siguiente(n, r) # Router(2) => ~EsRouter(Siguiente(n, r))
<1>1. /\ n.sede \in {1, 2} /\ r \in {1, 2}
      /\ telef[1] \in Nat \ {0} /\ telef[2] \in Nat \ {0} /\ enlaces \in Nat \ {0}
  BY QuienEsQuien DEF Sedes, Argumentos
<1>2. \A s \in Sedes : /\ Router(s) \in Nodos /\ EsRouter(Router(s)) /\ Router(s).sede = s
                       /\ \A c \in 0 .. telef[s] - 1 :
                            Nodo(s, c) \in Nodos /\ ~EsRouter(Nodo(s, c))
  BY QuienEsQuien
<1>3. EsRouter(n) => n = Router(n.sede)
  BY DEF EsRouter
<1>4. CASE ~EsRouter(n)
  <2>1. Siguiente(n, r) = Router(n.sede)
    BY <1>4 DEF Siguiente, Enfrente
  <2>2. n # Router(1) /\ n # Router(2)
    BY <1>2, <1>4 DEF Sedes
  <2> QED
    BY <1>1, <1>2, <1>4, <2>1, <2>2 DEF Sedes
<1>5. CASE EsRouter(n) /\ r = n.sede
  <2>1. Elegida(n, r).i = telef[r]
    BY <1>3, <1>5, ElegidaDeRouter
  <2>2. Siguiente(n, r) = Nodo(r, telef[r] - 1)
    BY <1>1, <1>5, <2>1 DEF Siguiente, Enfrente
  <2>3. telef[r] - 1 \in 0 .. telef[r] - 1
    BY <1>1
  <2>4. Siguiente(n, r) \in Nodos /\ ~EsRouter(Siguiente(n, r)) /\ Siguiente(n, r).sede = r
    BY <1>2, <2>2, <2>3 DEF Nodo
  <2>5. Router(1).sede = 1 /\ Router(2).sede = 2
    BY <1>2 DEF Sedes
  <2> QED
    BY <1>5, <2>4, <2>5
<1>6. CASE n = Router(1) /\ r = 2
  <2>1. Elegida(n, r).i = enlaces /\ EsRouter(n) /\ n.sede = 1
    BY <1>2, <1>6, ElegidaDeRouter DEF Sedes
  <2>2. Siguiente(n, r) = IF enlaces <= telef[1] THEN Rebote(1) ELSE Router(2)
    BY <2>1 DEF Siguiente, Enfrente, Otra, Rebote
  <2>3. enlaces <= telef[1] => enlaces - 1 \in 0 .. telef[1] - 1
    BY <1>1
  <2>4. enlaces <= telef[1] => Rebote(1) \in Nodos /\ ~EsRouter(Rebote(1))
    BY <1>2, <2>3 DEF Rebote, Sedes
  <2>5. Router(1) # Router(2)
    BY DEF Router, Nodo
  <2> QED
    BY <1>2, <1>6, <2>1, <2>2, <2>4, <2>5 DEF Sedes
<1>7. CASE n = Router(2) /\ r = 1
  <2>1. Elegida(n, r).i = 1 /\ EsRouter(n) /\ n.sede = 2
    BY <1>2, <1>7, ElegidaDeRouter DEF Sedes
  <2>2. 1 <= telef[2] /\ 0 \in 0 .. telef[2] - 1
    BY <1>1
  <2>3. Siguiente(n, r) = Rebote(2)
    BY <2>1, <2>2 DEF Siguiente, Enfrente, Rebote
  <2>4. Rebote(2) \in Nodos /\ ~EsRouter(Rebote(2))
    BY <1>2, <2>2 DEF Rebote, Sedes
  <2>5. Router(1) # Router(2)
    BY DEF Router, Nodo
  <2> QED
    BY <1>2, <1>7, <2>1, <2>3, <2>4, <2>5 DEF Sedes
<1> QED
  BY <1>1, <1>3, <1>4, <1>5, <1>6, <1>7

(***************************************************************************)
(* The address by which a telephone is registered is the router's own.     *)
(***************************************************************************)
LEMMA DeQuienEs ==
  ASSUME Argumentos, NEW s \in Sedes, NEW h \in 1 .. telef[s], NEW n
  PROVE  /\ h \in DOMAIN EnRed(s) /\ EnRed(s)[h] = Interfaz(Router(s), h)
         /\ Propia(n, Direccion(s, h)) <=> n = Router(s)
<1>1. telef[s] \in Nat \ {0} /\ s # 3
  BY DEF Argumentos, Sedes
<1> DEFINE A == DevicesRouter(s)
           B == DevicesTelefonos(s)
<1>2. EsLista(A, telef[s]) /\ EsLista(B, telef[s]) /\ A[h] = Interfaz(Router(s), h)
  BY <1>1 DEF DevicesRouter, DevicesTelefonos, EsLista
<1>3. EnRed(s) = Junto(A, B)
  BY <1>1 DEF EnRed, Devices, Junto
<1> HIDE DEF A, B
<1>4. EsLista(EnRed(s), telef[s] + telef[s]) /\ EnRed(s)[h] = A[h]
  BY <1>2, <1>3, Concatena
<1>5. h \in DOMAIN EnRed(s)
  <2>1. DOMAIN EnRed(s) = 1 .. telef[s] + telef[s]
    BY <1>4 DEF EsLista
  <2> QED
    BY <1>1, <2>1
<1> QED
  BY <1>2, <1>4, <1>5 DEF Propia, Direccion, Interfaz

(***************************************************************************)
(* A telephone has an address in its site's network.                       *)
(***************************************************************************)
LEMMA SuDireccion ==
  ASSUME Argumentos, NEW t \in Nodos, ~EsRouter(t)
  PROVE  /\ DireccionDe(t).red = t.sede
         /\ DireccionDe(t).host \in DOMAIN EnRed(t.sede)
         /\ DireccionDe(t) = Direccion(DireccionDe(t).red, DireccionDe(t).host)
<1> DEFINE s == t.sede
           A == DevicesRouter(s)
           B == DevicesTelefonos(s)
           h == telef[s] + (t.c + 1)
<1>1. /\ s \in Sedes /\ s # 3 /\ telef[s] \in Nat \ {0}
      /\ t.c + 1 \in 1 .. telef[s] /\ t = Nodo(s, t.c)
  <2>1. /\ t.sede \in Sedes /\ t.c \in 0 .. telef[t.sede] /\ t = Nodo(t.sede, t.c)
        /\ t.c # telef[t.sede]
    BY QuienEsQuien
  <2> QED
    BY <2>1 DEF Argumentos, Sedes
<1>2. EsLista(A, telef[s]) /\ EsLista(B, telef[s]) /\ B[t.c + 1].nodo = t
  <2>1. t.c \in Int
    BY QuienEsQuien, <1>1 DEF Argumentos
  <2>2. EsLista(A, telef[s])
    BY <1>1 DEF DevicesRouter, EsLista
  <2>3. EsLista(B, telef[s])
    BY <1>1 DEF DevicesTelefonos, EsLista
  <2>4. B[t.c + 1] = Interfaz(Nodo(s, t.c), 1)
    <3> DEFINE j == t.c + 1
    <3>1. B[j] = Interfaz(Nodo(s, j - 1), 1)
      <4>1. j \in 1 .. telef[s]
        BY <1>1
      <4> HIDE DEF j
      <4> QED
        BY <4>1 DEF DevicesTelefonos
    <3>2. j - 1 = t.c
      BY <2>1
    <3> HIDE DEF j, B
    <3>3. B[j] = Interfaz(Nodo(s, t.c), 1)
      BY <3>1, <3>2
    <3> QED
      BY <3>3 DEF j
  <2> HIDE DEF A, B
  <2> QED
    BY <1>1, <2>2, <2>3, <2>4 DEF Interfaz
<1>3. EnRed(s) = Junto(A, B)
  BY <1>1 DEF EnRed, Devices, Junto
<1> HIDE DEF A, B
<1>4. EsLista(EnRed(s), telef[s] + telef[s]) /\ EnRed(s)[h] = B[t.c + 1]
  BY <1>1, <1>2, <1>3, Concatena
<1>5. h \in DOMAIN EnRed(s) /\ EnRed(s)[h].nodo = t
  <2>1. DOMAIN EnRed(s) = 1 .. telef[s] + telef[s]
    BY <1>4 DEF EsLista
  <2>2. h \in 1 .. telef[s] + telef[s]
    BY <1>1
  <2> QED
    BY <1>2, <1>4, <2>1, <2>2
<1> HIDE DEF h
<1>6. (CHOOSE k \in DOMAIN EnRed(s) : EnRed(s)[k].nodo = t) \in DOMAIN EnRed(s)
  BY <1>5
<1> QED
  BY <1>6 DEF DireccionDe, Direccion

(***************************************************************************)
(* A node that answers where voice may be does so from an address of its   *)
(* site.                                                                   *)
(***************************************************************************)
LEMMA SalienteDeSede ==
  ASSUME Argumentos, NEW n \in Nodos, NEW r \in Sedes,
         ~EsRouter(n) \/ n = Router(r) \/ n = Router(2)
  PROVE  /\ Saliente(n, r).red \in Sedes
         /\ Saliente(n, r).host \in DOMAIN EnRed(Saliente(n, r).red)
         /\ Saliente(n, r) = Direccion(Saliente(n, r).red, Saliente(n, r).host)
<1>1. CASE ~EsRouter(n)
  <2>1. Elegida(n, r).i = 1
    BY <1>1, ElegidaDeTelefono DEF Sedes
  <2>2. Conectadas(n) = <<Ruta(n.sede, DireccionDe(n), 1)>>
    BY <1>1 DEF Conectadas
  <2>3. Saliente(n, r) = DireccionDe(n)
    BY <2>1, <2>2 DEF Saliente, Ruta
  <2>4. n.sede \in Sedes
    BY QuienEsQuien
  <2> QED
    BY <1>1, <2>3, <2>4, SuDireccion
<1>2. ASSUME NEW s \in Sedes, n = Router(s), NEW i \in 1 .. telef[s], Elegida(n, r).i = i
      PROVE  Saliente(n, r) = Direccion(s, i)
  <2>1. /\ EsRouter(n) /\ n.sede = s /\ i \in Interfaces(n) /\ i <= telef[s]
    BY <1>2, QuienEsQuien DEF Argumentos, Interfaces
  <2>2. Conectadas(n)[i] = Ruta(s, Direccion(s, i), i)
    BY <2>1 DEF Conectadas
  <2> QED
    BY <1>2, <2>2 DEF Saliente, Ruta
<1>3. ASSUME n = Router(r) \/ n = Router(2)
      PROVE  \E s \in Sedes : n = Router(s) /\ Elegida(n, r).i \in 1 .. telef[s]
  <2>1. telef[1] \in Nat \ {0} /\ telef[2] \in Nat \ {0} /\ r \in {1, 2}
    BY DEF Argumentos, Sedes
  <2>2. CASE n = Router(r)
    <3>1. Elegida(n, r).i = telef[r]
      BY <2>2, ElegidaDeRouter
    <3> QED
      BY <2>1, <2>2, <3>1 DEF Sedes
  <2>3. CASE n = Router(2) /\ r = 1
    <3>1. Elegida(n, r).i = 1
      BY <2>3, ElegidaDeRouter DEF Sedes
    <3> QED
      BY <2>1, <2>3, <3>1 DEF Sedes
  <2> QED
    BY <1>3, <2>1, <2>2, <2>3
<1>4. CASE n = Router(r) \/ n = Router(2)
  <2>1. PICK s \in Sedes : n = Router(s) /\ Elegida(n, r).i \in 1 .. telef[s]
    BY <1>3, <1>4
  <2>2. Saliente(n, r) = Direccion(s, Elegida(n, r).i)
    BY <1>2, <2>1
  <2>3. Elegida(n, r).i \in DOMAIN EnRed(s)
    BY <2>1, DeQuienEs
  <2> QED
    BY <2>1, <2>2, <2>3 DEF Direccion
<1> QED
  BY <1>1, <1>4

-----------------------------------------------------------------------------
(***************************************************************************)
(* The metrics of cambiaEnlace: n, and then 0, 1, up to n - 2.             *)
(***************************************************************************)
LEMMA SerieCerrada ==
  ASSUME NEW n \in Nat \ {0}
  PROVE  \A j \in 1 .. n : Serie(n)[j] = IF j = 1 THEN n ELSE j - 2
<1> DEFINE Paso(f, j) == IF j = 1 THEN n
                         ELSE IF f[j - 1] + 1 >= n THEN 0 ELSE f[j - 1] + 1
           Cumple(f) == f = [j \in 1 .. n |-> Paso(f, j)]
           g == [j \in 1 .. n |-> IF j = 1 THEN n ELSE j - 2]
<1>1. Serie(n) = CHOOSE f : Cumple(f)
  BY DEF Serie
<1>2. Cumple(g)
  <2>1. ASSUME NEW j \in 1 .. n
        PROVE  g[j] = Paso(g, j)
    <3>1. CASE j = 1
      BY <3>1
    <3>2. CASE j = 2
      <4>1. g[j] = 0 /\ g[j - 1] = n
        BY <3>2
      <4> QED
        BY <3>2, <4>1
    <3>3. CASE j # 1 /\ j # 2
      <4>1. j - 1 \in 1 .. n /\ j - 1 # 1 /\ j \in Int /\ j - 2 < n
        BY <3>3
      <4>2. g[j] = j - 2 /\ g[j - 1] = j - 1 - 2
        BY <3>3, <4>1
      <4> HIDE DEF g
      <4>3. g[j - 1] + 1 = j - 2 /\ ~(j - 2 >= n)
        BY <4>1, <4>2
      <4> QED
        BY <3>3, <4>2, <4>3
    <3> QED
      BY <3>1, <3>2, <3>3
  <2> QED
    BY <2>1
<1>3. Cumple(Serie(n))
  <2> HIDE DEF Cumple, g
  <2> QED
    BY <1>1, <1>2, Zenon
<1> DEFINE f == Serie(n)
           B == {j \in 1 .. n : f[j] # IF j = 1 THEN n ELSE j - 2}
<1>4. \A j \in 1 .. n : f[j] = Paso(f, j)
  <2> HIDE DEF f
  <2>1. f = [j \in 1 .. n |-> Paso(f, j)]
    BY <1>3 DEF f
  <2> HIDE DEF Paso
  <2> QED
    BY <2>1
<1> HIDE DEF f
<1>5. B = {}
  <2> SUFFICES ASSUME B # {}
               PROVE  FALSE
    OBVIOUS
  <2>1. PICK j \in B : \A k \in B : j <= k
    <3>1. B \subseteq Nat
      OBVIOUS
    <3> HIDE DEF B
    <3> QED
      BY <3>1, NaturalMinimo
  <2>2. j \in 1 .. n /\ j # 1
    BY <1>4, <2>1
  <2>3. j - 1 \in 1 .. n /\ j - 1 \notin B
    <3>1. j - 1 \in 1 .. n /\ ~(j <= j - 1)
      BY <2>2
    <3> HIDE DEF B
    <3> QED
      BY <2>1, <3>1
  <2>4. f[j - 1] = IF j - 1 = 1 THEN n ELSE j - 1 - 2
    BY <2>3
  <2>5. f[j] = IF f[j - 1] + 1 >= n THEN 0 ELSE f[j - 1] + 1
    BY <1>4, <2>2
  <2>6. f[j] = j - 2
    BY <2>2, <2>4, <2>5
  <2> QED
    BY <2>1, <2>2, <2>6
<1> QED
  BY <1>5 DEF f

(***************************************************************************)
(* They are all different, and none of them above n.                       *)
(***************************************************************************)
LEMMA SerieDistinta ==
  ASSUME NEW n \in Nat \ {0}
  PROVE  /\ \A j \in 1 .. n : Serie(n)[j] \in 0 .. n
         /\ \A i, j \in 1 .. n : Serie(n)[i] = Serie(n)[j] => i = j
<1> DEFINE f == Serie(n)
<1>1. \A j \in 1 .. n : f[j] = IF j = 1 THEN n ELSE j - 2
  BY SerieCerrada
<1> HIDE DEF f
<1>2. \A j \in 1 .. n : f[j] \in 0 .. n
  BY <1>1
<1>3. \A i, j \in 1 .. n : f[i] = f[j] => i = j
  BY <1>1
<1> QED
  BY <1>2, <1>3 DEF f

-----------------------------------------------------------------------------
(***************************************************************************)
(* Facts of the network as it is built, in any state.                      *)
(***************************************************************************)
LEMMA LaPasarelaEstaEnFrente == Argumentos => PasarelaEnFrente
<1> SUFFICES ASSUME Argumentos, NEW t \in Telefonos(1) \cup Telefonos(2)
             PROVE  LET puerta == Elegida(t, 3).puerta
                        extremo == EnRed(puerta.red)[puerta.host]
                    IN  /\ puerta.host \in DOMAIN EnRed(puerta.red)
                        /\ extremo = Interfaz(Router(t.sede), t.c + 1)
                        /\ Enfrente(extremo.nodo, extremo.i) = t
  BY DEF PasarelaEnFrente
<1>1. /\ t \in Nodos /\ ~EsRouter(t)
      /\ t.sede \in Sedes /\ t = Nodo(t.sede, t.c)
      /\ t.c \in 0 .. telef[t.sede] /\ t.c # telef[t.sede]
      /\ EsRouter(Router(t.sede)) /\ Router(t.sede).sede = t.sede
  BY QuienEsQuien
<1>2. t.c + 1 \in 1 .. telef[t.sede] /\ t.c + 1 <= telef[t.sede] /\ t.c + 1 - 1 = t.c
      /\ t.sede # 3
  BY <1>1 DEF Argumentos, Sedes
<1>3. Elegida(t, 3).puerta = Direccion(t.sede, t.c + 1)
  BY <1>1, <1>2, ElegidaDeTelefono
<1> DEFINE puerta == Elegida(t, 3).puerta
           extremo == EnRed(puerta.red)[puerta.host]
<1>4. puerta.red = t.sede /\ puerta.host = t.c + 1
  BY <1>3 DEF Direccion
<1> HIDE DEF puerta
<1>5. /\ puerta.host \in DOMAIN EnRed(puerta.red)
      /\ extremo = Interfaz(Router(t.sede), t.c + 1)
  BY <1>1, <1>2, <1>4, DeQuienEs
<1> HIDE DEF extremo
<1>6. Enfrente(Router(t.sede), t.c + 1) = t
  BY <1>1, <1>2 DEF Enfrente
<1>7. extremo.nodo = Router(t.sede) /\ extremo.i = t.c + 1
  BY <1>5 DEF Interfaz
<1> QED
  BY <1>5, <1>6, <1>7 DEF puerta, extremo

(***************************************************************************)
(* Every node has a static route for every network.                        *)
(***************************************************************************)
LEMMA LasGlobalesNoSeUsan == Argumentos => SiempreEstatica
<1> SUFFICES ASSUME Argumentos, NEW n \in Nodos, NEW r \in {1, 2, 3}
             PROVE  HayRuta(n, r)
  BY DEF SiempreEstatica
<1>1. CASE ~EsRouter(n)
  <2>1. DOMAIN Tabla(n) = {1, 2} /\ Tabla(n)[2].red = PorDefecto
    BY <1>1, TablaDeTelefono DEF Ruta
  <2>2. 2 \in Hacia(Tabla(n), PorDefecto)
    BY <2>1 DEF Hacia
  <2> QED
    BY <2>2 DEF HayRuta
<1>2. CASE EsRouter(n)
  <2> DEFINE s == n.sede
             N == telef[s] + enlaces
             M == IF s = 1 THEN enlaces + enlaces ELSE 0
  <2>1. n = Router(s) /\ s \in Sedes /\ N \in Nat /\ M \in Nat
    BY <1>2, QuienEsQuien DEF EsRouter, Argumentos
  <2>2. DOMAIN Tabla(Router(s)) = 1 .. N + 1 + M /\ Tabla(Router(s))[N + 1].red = 0
    BY <2>1, TablaDeRouter
  <2> HIDE DEF N, M
  <2>3. N + 1 \in 1 .. N + 1 + M
    BY <2>1
  <2>4. N + 1 \in Hacia(Tabla(n), PorDefecto)
    BY <2>1, <2>2, <2>3 DEF Hacia, PorDefecto
  <2> QED
    BY <2>4 DEF HayRuta
<1> QED
  BY <1>1, <1>2

-----------------------------------------------------------------------------
(***************************************************************************)
(* The inductive invariant.  The metrics are those of cambiaEnlace on the  *)
(* interfaces it counts and 1 on the rest.                                 *)
(***************************************************************************)
Metricas ==
  \A s \in Sedes : \A i \in 1 .. telef[s] + enlaces :
    metricas[s][i] = IF i <= enlaces /\ cambios > 0 THEN Serie(enlaces)[i] ELSE 1

(***************************************************************************)
(* Where voice may be.  Within a site it goes from the telephone to the    *)
(* router and ends; for the other site it goes to and fro between the      *)
(* router and the telephone it bounces off, or crosses to router 2.        *)
(***************************************************************************)
PorDonde ==
  /\ paquete.destino.host \in 1 .. telef[paquete.destino.red]
  /\ oyentes # {} => paquete.origen.red # paquete.destino.red
  /\ EnEnlace =>
       /\ paquete.nodo.sede = paquete.origen.red
       /\ paquete.origen.red = paquete.destino.red => ~EsRouter(paquete.nodo)
  /\ EnNodo =>
       \/ paquete.nodo = Router(paquete.origen.red)
       \/ /\ paquete.origen.red # paquete.destino.red
          /\ \/ paquete.nodo = Rebote(paquete.origen.red)
             \/ paquete.nodo = Router(2) /\ paquete.destino.red = 2

Recorrido ==
  /\ paquete = Nada => oyentes = {}
  /\ paquete # Nada => paquete.origen.red \in Sedes /\ paquete.destino.red \in Sedes
  /\ \A t \in oyentes : t = Rebote(t.sede)
  /\ paquete # Nada /\ paquete.clase = "voz" => PorDonde

(***************************************************************************)
(* What the traces have told of the packet, given where it is.             *)
(***************************************************************************)
Rastro ==
  /\ paquete = Nada => \A c \in Clases : viaje[c] = "nuevo"
  /\ paquete # Nada /\ paquete.clase = "voz" => viaje["icmp"] = "nuevo"
  /\ EnEnlace => viaje[paquete.clase] \in {"observado", "ajeno"}
  /\ EnNodo => viaje[paquete.clase] \in
       (IF EsRouter(paquete.nodo) THEN {"observado", "ajeno"} ELSE {"recibido"})

RedInv == TypeOK /\ Metricas /\ Recorrido /\ Rastro

Estados == {"enlace", "nodo", "perdido", "fin"}

Paquetes ==
  [estado : Estados, clase : Clases, nodo : Nodos, origen : Direcciones,
   destino : Direcciones, ttl : 1 .. TTL]

-----------------------------------------------------------------------------
(***************************************************************************)
(* What does not change with the arguments of simular.                     *)
(***************************************************************************)
LEMMA MismaRed ==
  ASSUME UNCHANGED argumentos
  PROVE  /\ Nodos' = Nodos /\ Direcciones' = Direcciones
         /\ (Telefonos(1) \cup Telefonos(2))' = Telefonos(1) \cup Telefonos(2)
<1>1. telef' = telef /\ enlaces' = enlaces
  BY DEF argumentos
<1>2. Nodos' = Nodos
  BY <1>1 DEF Nodos, Terminales
<1>3. Direcciones' = Direcciones
  BY <1>1 DEF Direcciones, EnRed, Devices, DevicesRouter, DevicesTelefonos, Rdevices,
              Router, InterfazEnlace
<1>4. (Telefonos(1) \cup Telefonos(2))' = Telefonos(1) \cup Telefonos(2)
  BY <1>1 DEF Telefonos, Terminales, Router
<1> QED
  BY <1>2, <1>3, <1>4

(***************************************************************************)
(* The sizes of the network are what its lemmas ask for.                   *)
(***************************************************************************)
LEMMA ArgumentosDelTipo == TypeOK => Argumentos
  BY RedAssumption DEF TypeOK, Argumentos

(***************************************************************************)
(* A router has an interface for each telephone and each link.             *)
(***************************************************************************)
LEMMA InterfacesDelRouter ==
  ASSUME Argumentos, NEW s \in Sedes
  PROVE  Interfaces(Router(s)) = 1 .. telef[s] + enlaces
  BY QuienEsQuien DEF Interfaces

(***************************************************************************)
(* The address of an interface is among the addresses.                     *)
(***************************************************************************)
LEMMA EstaEntreLasDirecciones ==
  ASSUME NEW r \in {1, 2, 3}, NEW h \in DOMAIN EnRed(r)
  PROVE  Direccion(r, h) \in Direcciones
<1> DEFINE De(q) == {Direccion(q, k) : k \in DOMAIN EnRed(q)}
<1>1. Direcciones = UNION {De(q) : q \in {1, 2, 3}}
  BY DEF Direcciones
<1>2. Direccion(r, h) \in De(r)
  OBVIOUS
<1> HIDE DEF De
<1> QED
  BY <1>1, <1>2

(***************************************************************************)
(* An address is that of its network and its host.                         *)
(***************************************************************************)
LEMMA FormaDeDireccion ==
  ASSUME NEW d \in Direcciones
  PROVE  d = Direccion(d.red, d.host)
<1> DEFINE De(q) == {Direccion(q, k) : k \in DOMAIN EnRed(q)}
<1>1. PICK q \in {1, 2, 3} : d \in De(q)
  <2>1. d \in UNION {De(q) : q \in {1, 2, 3}}
    BY DEF Direcciones
  <2> HIDE DEF De
  <2> QED
    BY <2>1
<1> QED
  BY <1>1 DEF Direccion

(***************************************************************************)
(* The fields of a packet, and of one that has moved.                      *)
(***************************************************************************)
LEMMA CamposDelPaquete ==
  ASSUME NEW p \in Paquetes
  PROVE  /\ p.estado \in Estados /\ p.clase \in Clases /\ p.nodo \in Nodos
         /\ p.origen \in Direcciones /\ p.destino \in Direcciones
         /\ p.ttl \in 1 .. TTL
         /\ p # Nada
  BY DEF Paquetes, Estados, Nada

Llegado(p, n) == [p EXCEPT !.nodo = n, !.estado = "nodo"]

Reenviado(p, m) == [p EXCEPT !.estado = "enlace", !.ttl = m]

Acabado(p, e) == [p EXCEPT !.estado = e]

(***************************************************************************)
(* The record of a packet that has got to a node.                          *)
(***************************************************************************)
LEMMA PaqueteQueLlega ==
  ASSUME NEW p \in Paquetes, NEW n \in Nodos
  PROVE  /\ Llegado(p, n) \in Paquetes
         /\ Llegado(p, n).estado = "nodo" /\ Llegado(p, n).nodo = n
         /\ Llegado(p, n).clase = p.clase /\ Llegado(p, n).origen = p.origen
         /\ Llegado(p, n).destino = p.destino
  BY DEF Paquetes, Estados, Llegado

(***************************************************************************)
(* The record of a packet that is forwarded.                               *)
(***************************************************************************)
LEMMA PaqueteQueSigue ==
  ASSUME NEW p \in Paquetes, NEW m \in 1 .. TTL
  PROVE  /\ Reenviado(p, m) \in Paquetes
         /\ Reenviado(p, m).estado = "enlace" /\ Reenviado(p, m).nodo = p.nodo
         /\ Reenviado(p, m).clase = p.clase /\ Reenviado(p, m).origen = p.origen
         /\ Reenviado(p, m).destino = p.destino
  BY DEF Paquetes, Estados, Reenviado

(***************************************************************************)
(* The record of a packet that goes no further.                            *)
(***************************************************************************)
LEMMA PaqueteQueAcaba ==
  ASSUME NEW p \in Paquetes, NEW e \in {"perdido", "fin"}
  PROVE  /\ Acabado(p, e) \in Paquetes
         /\ Acabado(p, e).estado = e /\ Acabado(p, e).nodo = p.nodo
         /\ Acabado(p, e).clase = p.clase /\ Acabado(p, e).origen = p.origen
         /\ Acabado(p, e).destino = p.destino
  BY DEF Paquetes, Estados, Acabado

(***************************************************************************)
(* The parts of the invariant that a step of the packet leaves alone.      *)
(***************************************************************************)
Lugares == {"nuevo", "ajeno", "observado", "recibido"}

(***************************************************************************)
(* What a step that moves the packet has to show.                          *)
(***************************************************************************)
LEMMA PasoDelPaquete ==
  ASSUME RedInv, UNCHANGED <<argumentos, metricas, cambios>>,
         paquete' \in Paquetes, viaje' \in [Clases -> Lugares],
         oyentes' \subseteq Telefonos(1) \cup Telefonos(2)
  PROVE  TypeOK' /\ Metricas'
<1>1. /\ UNCHANGED <<telef, enlaces, metricas, cambios>>
      /\ UNCHANGED argumentos
  BY DEF argumentos
<1>2. /\ Nodos' = Nodos /\ Direcciones' = Direcciones
      /\ (Telefonos(1) \cup Telefonos(2))' = Telefonos(1) \cup Telefonos(2)
  BY <1>1, MismaRed
<1>3. TypeOK /\ Metricas
  BY DEF RedInv
<1>4. \A s \in Sedes : metricas'[s] \in [Interfaces(Router(s)) -> 0 .. MaxEnlaces]'
  BY <1>1, <1>3 DEF TypeOK, Interfaces, EsRouter, Router
<1>5. (paquete # Nada =>
         paquete \in [estado : {"enlace", "nodo", "perdido", "fin"}, clase : Clases,
                      nodo : Nodos, origen : Direcciones, destino : Direcciones,
                      ttl : 1 .. TTL])'
  BY <1>2 DEF Paquetes, Estados
<1>6. TypeOK'
  BY <1>1, <1>2, <1>3, <1>4, <1>5 DEF TypeOK, Lugares
<1>7. Metricas'
  BY <1>1, <1>3 DEF Metricas
<1> QED
  BY <1>6, <1>7

(***************************************************************************)
(* What the invariant says of a packet.                                    *)
(***************************************************************************)
LEMMA HechosDelPaquete ==
  ASSUME RedInv
  PROVE  /\ Argumentos
         /\ viaje \in [Clases -> Lugares]
         /\ oyentes \subseteq Telefonos(1) \cup Telefonos(2)
         /\ EnEnlace \/ EnNodo => paquete # Nada
         /\ paquete # Nada =>
              /\ paquete \in Paquetes
              /\ paquete.origen.red \in Sedes /\ paquete.destino.red \in Sedes
<1>1. TypeOK /\ Recorrido
  BY DEF RedInv
<1>2. Argumentos
  BY <1>1, ArgumentosDelTipo
<1>3. paquete # Nada => paquete \in Paquetes
  BY <1>1 DEF TypeOK, Paquetes, Estados
<1>4. EnEnlace \/ EnNodo => paquete # Nada
  BY DEF EnEnlace, EnNodo, Nada
<1> QED
  BY <1>1, <1>2, <1>3, <1>4 DEF TypeOK, Recorrido, Lugares

(***************************************************************************)
(* The network starts with metric one everywhere and no packet.            *)
(***************************************************************************)
LEMMA InitRed == Init => RedInv
<1> SUFFICES ASSUME Init
             PROVE  RedInv
  OBVIOUS
<1>1. Argumentos
  BY RedAssumption DEF Init, Argumentos
<1>2. \A s \in Sedes : Interfaces(Router(s)) = 1 .. telef[s] + enlaces
  BY <1>1, InterfacesDelRouter
<1>3. \A s \in Sedes : /\ metricas[s] = [i \in Interfaces(Router(s)) |-> 1]
                       /\ \A i \in Interfaces(Router(s)) : metricas[s][i] = 1
  BY DEF Init
<1>4. TypeOK
  BY <1>3, RedAssumption DEF Init, TypeOK
<1>5. Metricas
  <2>1. ~(cambios > 0)
    BY DEF Init
  <2> QED
    BY <1>2, <1>3, <2>1 DEF Metricas
<1>6. Recorrido
  BY DEF Init, Recorrido, Nada
<1>7. Rastro
  BY DEF Init, Rastro, Nada, EnEnlace, EnNodo
<1> QED
  BY <1>4, <1>5, <1>6, <1>7 DEF RedInv

(***************************************************************************)
(* The rotation sets metrics of the telephones' devices and moves nothing. *)
(***************************************************************************)
LEMMA CambiaEnlaceRed ==
  ASSUME RedInv, CambiaEnlace
  PROVE  RedInv'
<1>1. /\ cambios < MaxCambios /\ cambios' = cambios + 1
      /\ UNCHANGED <<telef, enlaces, paquete, viaje, oyentes>> /\ UNCHANGED argumentos
      /\ metricas' = [s \in Sedes |-> [i \in Interfaces(Router(s)) |->
           IF i <= enlaces THEN Serie(enlaces)[i] ELSE metricas[s][i]]]
  BY DEF CambiaEnlace, argumentos, historia
<1>2. TypeOK /\ Metricas /\ Recorrido /\ Rastro /\ Argumentos
  BY HechosDelPaquete DEF RedInv
<1>3. /\ cambios \in Nat /\ cambios' \in 0 .. MaxCambios /\ cambios' > 0
      /\ enlaces \in Nat \ {0} /\ enlaces <= MaxEnlaces /\ MaxEnlaces \in Nat
  BY <1>1, <1>2, RedAssumption DEF TypeOK
<1>4. \A s \in Sedes : Interfaces(Router(s)) = 1 .. telef[s] + enlaces
  BY <1>2, InterfacesDelRouter
<1> DEFINE M(s, i) == IF i <= enlaces THEN Serie(enlaces)[i] ELSE metricas[s][i]
<1>5. \A s \in Sedes : /\ metricas'[s] = [i \in Interfaces(Router(s)) |-> M(s, i)]
                       /\ \A i \in Interfaces(Router(s)) : metricas'[s][i] = M(s, i)
  BY <1>1
<1>6. ASSUME NEW s \in Sedes, NEW i \in Interfaces(Router(s))
      PROVE  /\ M(s, i) \in 0 .. MaxEnlaces
             /\ M(s, i) = IF i <= enlaces THEN Serie(enlaces)[i] ELSE 1
  <2>1. i \in 1 .. telef[s] + enlaces
    BY <1>4, <1>6
  <2>2. CASE i <= enlaces
    <3>1. i \in 1 .. enlaces
      BY <1>2, <1>3, <2>1, <2>2 DEF Argumentos
    <3>2. Serie(enlaces)[i] \in 0 .. enlaces
      BY <1>3, <3>1, SerieDistinta
    <3> QED
      BY <1>3, <2>2, <3>2
  <2>3. CASE ~(i <= enlaces)
    <3>1. metricas[s][i] = 1
      BY <1>2, <2>1, <2>3 DEF Metricas
    <3> QED
      BY <1>3, <2>3, <3>1
  <2> QED
    BY <2>2, <2>3
<1> HIDE DEF M
<1>7. \A s \in Sedes : Interfaces(Router(s))' = Interfaces(Router(s))
  BY <1>1 DEF Interfaces, EsRouter, Router
<1>8. \A s \in Sedes : metricas'[s] \in [Interfaces(Router(s)) -> 0 .. MaxEnlaces]'
  BY <1>5, <1>6, <1>7
<1>9. TypeOK'
  <2>1. Nodos' = Nodos /\ Direcciones' = Direcciones
        /\ (Telefonos(1) \cup Telefonos(2))' = Telefonos(1) \cup Telefonos(2)
    BY <1>1, MismaRed
  <2>2. (paquete # Nada =>
           paquete \in [estado : {"enlace", "nodo", "perdido", "fin"}, clase : Clases,
                        nodo : Nodos, origen : Direcciones, destino : Direcciones,
                        ttl : 1 .. TTL])'
    BY <1>1, <1>2, <2>1 DEF TypeOK
  <2> QED
    BY <1>1, <1>2, <1>3, <1>8, <2>1, <2>2 DEF TypeOK
<1>10. Metricas'
  <2>1. ASSUME NEW s \in Sedes, NEW i \in 1 .. telef[s] + enlaces
        PROVE  metricas'[s][i] = IF i <= enlaces THEN Serie(enlaces)[i] ELSE 1
    <3>1. i \in Interfaces(Router(s))
      BY <1>4
    <3> QED
      BY <1>5, <1>6, <3>1
  <2>2. enlaces' = enlaces /\ telef' = telef /\ (cambios > 0)' = TRUE
    BY <1>1, <1>3
  <2> QED
    BY <2>1, <2>2 DEF Metricas
<1>11. Recorrido' /\ Rastro'
  BY <1>1, <1>2 DEF Recorrido, PorDonde, Rastro, EnEnlace, EnNodo, EsRouter, Router,
                    Rebote
<1> QED
  BY <1>9, <1>10, <1>11 DEF RedInv

-----------------------------------------------------------------------------
(***************************************************************************)
(* The steps of the packet.                                                *)
(***************************************************************************)
LEMMA EnviaRed ==
  ASSUME RedInv, NEW t \in Telefonos(1) \cup Telefonos(2),
         NEW u \in Telefonos(1) \cup Telefonos(2), Envia(t, u)
  PROVE  RedInv'
<1> DEFINE p == [estado |-> "enlace", clase |-> "voz", nodo |-> t,
                 origen |-> DireccionDe(t), destino |-> Registrada(u), ttl |-> TTL]
<1>1. Argumentos /\ viaje \in [Clases -> Lugares] /\ Recorrido /\ Rastro
  BY HechosDelPaquete DEF RedInv
<1>2. /\ t \in Nodos /\ ~EsRouter(t) /\ t.sede \in Sedes
      /\ u.sede \in Sedes /\ u.c + 1 \in 1 .. telef[u.sede]
  <2>1. /\ u \in Nodos /\ ~EsRouter(u) /\ u.sede \in Sedes /\ u.c \in 0 .. telef[u.sede]
        /\ u.c # telef[u.sede]
    BY <1>1, QuienEsQuien
  <2>2. u.c + 1 \in 1 .. telef[u.sede]
    BY <1>1, <2>1 DEF Argumentos
  <2> QED
    BY <1>1, <2>1, <2>2, QuienEsQuien
<1>3. /\ paquete = Nada /\ paquete' = p
      /\ viaje' = [viaje EXCEPT !["voz"] = "observado"]
      /\ UNCHANGED <<argumentos, metricas, cambios, oyentes>>
      /\ telef' = telef /\ enlaces' = enlaces
  BY <1>2 DEF Envia, Sale, MacTx, TrazaTx, argumentos
<1>4. /\ DireccionDe(t) \in Direcciones /\ DireccionDe(t).red = t.sede
      /\ Registrada(u) \in Direcciones /\ Registrada(u).red = u.sede
      /\ Registrada(u).host = u.c + 1
  <2>1. /\ DireccionDe(t).red = t.sede /\ DireccionDe(t).host \in DOMAIN EnRed(t.sede)
        /\ DireccionDe(t) = Direccion(DireccionDe(t).red, DireccionDe(t).host)
    BY <1>1, <1>2, SuDireccion
  <2>2. u.c + 1 \in DOMAIN EnRed(u.sede)
    BY <1>1, <1>2, DeQuienEs
  <2>3. t.sede \in {1, 2, 3} /\ u.sede \in {1, 2, 3}
    BY <1>2 DEF Sedes
  <2>4. Direccion(t.sede, DireccionDe(t).host) \in Direcciones
    BY <2>1, <2>3, EstaEntreLasDirecciones
  <2>5. Direccion(u.sede, u.c + 1) \in Direcciones
    BY <2>2, <2>3, EstaEntreLasDirecciones
  <2> QED
    BY <2>1, <2>4, <2>5 DEF Registrada, Direccion
<1>5. /\ p \in Paquetes /\ p.estado = "enlace" /\ p.clase = "voz" /\ p.nodo = t
      /\ p.origen.red = t.sede /\ p.destino.red = u.sede /\ p.destino.host = u.c + 1
      /\ p # Nada
  BY <1>2, <1>4, RedAssumption DEF Paquetes, Estados, Clases, Nada
<1> HIDE DEF p
<1>6. oyentes = {} /\ \A c \in Clases : viaje[c] = "nuevo"
  BY <1>1, <1>3 DEF Recorrido, Rastro
<1>7. TypeOK' /\ Metricas'
  BY <1>1, <1>3, <1>5, <1>6, PasoDelPaquete DEF Lugares
<1>8. Recorrido'
  BY <1>2, <1>3, <1>5, <1>6 DEF Recorrido, PorDonde, EnEnlace, EnNodo, EsRouter, Router,
                                Rebote
<1>9. Rastro'
  BY <1>1, <1>3, <1>5, <1>6 DEF Rastro, EnEnlace, EnNodo, Clases
<1> QED
  BY <1>7, <1>8, <1>9 DEF RedInv

(***************************************************************************)
(* A packet at the other end of a link: local delivery or not.             *)
(***************************************************************************)
LEMMA LlegaRed ==
  ASSUME RedInv, Llega
  PROVE  RedInv'
<1> DEFINE p == paquete
           n == Siguiente(p.nodo, p.destino.red)
<1>1. /\ EnEnlace
      /\ paquete' = Llegado(p, n)
      /\ viaje' = IF ~EsRouter(n) THEN [viaje EXCEPT ![p.clase] = "recibido"] ELSE viaje
      /\ oyentes' = IF EsRouter(n) \/ p.clase # "voz" THEN oyentes ELSE oyentes \cup {n}
      /\ UNCHANGED <<argumentos, metricas, cambios>>
      /\ telef' = telef /\ enlaces' = enlaces
  BY DEF Llega, Llegado, Siguiente, TrazaRx, argumentos
<1>2. /\ Argumentos /\ viaje \in [Clases -> Lugares] /\ Recorrido /\ Rastro
      /\ p # Nada /\ p \in Paquetes /\ p.clase \in Clases /\ p.nodo \in Nodos
      /\ p.ttl \in 1 .. TTL
      /\ p.origen.red \in Sedes /\ p.destino.red \in Sedes
      /\ oyentes \subseteq Telefonos(1) \cup Telefonos(2)
  BY <1>1, HechosDelPaquete, CamposDelPaquete DEF RedInv
<1>3. /\ n \in Nodos
      /\ ~EsRouter(p.nodo) => n = Router(p.nodo.sede)
      /\ p.nodo = Router(1) /\ p.destino.red = 2 =>
           n = IF enlaces <= telef[1] THEN Rebote(1) ELSE Router(2)
      /\ p.nodo = Router(2) /\ p.destino.red = 1 => n = Rebote(2)
  BY <1>2, Salto
<1> HIDE DEF n
<1>4. /\ paquete' \in Paquetes /\ paquete'.estado = "nodo" /\ paquete'.nodo = n
      /\ paquete'.clase = p.clase /\ paquete'.origen = p.origen
      /\ paquete'.destino = p.destino
      /\ paquete' # Nada
  <2>1. Llegado(paquete, n) \in Paquetes
    BY <1>2, <1>3, PaqueteQueLlega
  <2> QED
    BY <1>1, <1>2, <1>3, <2>1, PaqueteQueLlega, CamposDelPaquete
<1>5. n \in Telefonos(1) \cup Telefonos(2) <=> ~EsRouter(n)
  BY <1>2, <1>3, QuienEsQuien
<1>6. viaje' \in [Clases -> Lugares] /\ oyentes' \subseteq Telefonos(1) \cup Telefonos(2)
  BY <1>1, <1>2, <1>5 DEF Lugares
<1>7. TypeOK' /\ Metricas'
  BY <1>1, <1>4, <1>6, PasoDelPaquete
<1>8. ASSUME p.clase = "voz"
      PROVE  /\ p.destino.host \in 1 .. telef[p.destino.red]
             /\ p.origen.red = p.destino.red => oyentes = {} /\ n = Router(p.origen.red)
             /\ p.origen.red # p.destino.red =>
                  \/ n = Router(p.origen.red)
                  \/ n = Rebote(p.origen.red)
                  \/ n = Router(2) /\ p.destino.red = 2
             /\ ~EsRouter(n) => p.origen.red # p.destino.red /\ n = Rebote(n.sede)
  <2>1. /\ p.destino.host \in 1 .. telef[p.destino.red]
        /\ oyentes # {} => p.origen.red # p.destino.red
        /\ p.nodo.sede = p.origen.red
        /\ p.origen.red = p.destino.red => ~EsRouter(p.nodo)
    BY <1>1, <1>2, <1>8 DEF Recorrido, PorDonde
  <2>2. EsRouter(Router(p.origen.red)) /\ EsRouter(Router(2))
    BY <1>2, QuienEsQuien DEF Sedes
  <2>3. \A s \in Sedes : Rebote(s).sede = s
    BY DEF Rebote, Nodo, Sedes
  <2>4. CASE ~EsRouter(p.nodo)
    BY <1>3, <2>1, <2>2, <2>4
  <2>5. CASE EsRouter(p.nodo)
    <3>1. p.origen.red # p.destino.red /\ p.nodo = Router(p.origen.red)
      BY <2>1, <2>5 DEF EsRouter
    <3>2. \/ n = Rebote(p.origen.red)
          \/ n = Router(2) /\ p.destino.red = 2
      BY <1>2, <1>3, <3>1 DEF Sedes
    <3> QED
      BY <1>2, <2>1, <2>2, <2>3, <3>1, <3>2
  <2> QED
    BY <2>4, <2>5
<1>9. Recorrido'
  <2>1. PorDonde' \/ p.clase # "voz"
    <3> SUFFICES ASSUME p.clase = "voz"
                 PROVE  PorDonde'
      OBVIOUS
    <3>1. oyentes' # {} => p.origen.red # p.destino.red
      BY <1>1, <1>8
    <3>2. EnNodo' /\ ~EnEnlace'
      BY <1>4 DEF EnNodo, EnEnlace
    <3>3. \/ n = Router(p.origen.red)
          \/ /\ p.origen.red # p.destino.red
             /\ \/ n = Rebote(p.origen.red)
                \/ n = Router(2) /\ p.destino.red = 2
      BY <1>8
    <3> QED
      BY <1>1, <1>4, <1>8, <3>1, <3>2, <3>3 DEF PorDonde, Router, Rebote
  <2>2. \A t \in oyentes' : t = Rebote(t.sede)
    BY <1>1, <1>2, <1>8 DEF Recorrido
  <2> QED
    BY <1>1, <1>2, <1>4, <2>1, <2>2 DEF Recorrido, Rebote
<1>10. Rastro'
  <2>1. EnNodo' /\ ~EnEnlace'
    BY <1>4 DEF EnNodo, EnEnlace
  <2>2. viaje'[p.clase] \in IF EsRouter(n) THEN {"observado", "ajeno"} ELSE {"recibido"}
    BY <1>1, <1>2 DEF Rastro
  <2>3. EsRouter(paquete.nodo)' <=> EsRouter(n)
    BY <1>1, <1>4 DEF EsRouter, Router
  <2>4. p.clase = "voz" => viaje'["icmp"] = "nuevo"
    BY <1>1, <1>2 DEF Rastro, Clases
  <2> QED
    BY <1>4, <2>1, <2>2, <2>3, <2>4 DEF Rastro
<1> QED
  BY <1>7, <1>9, <1>10 DEF RedInv

(***************************************************************************)
(* The two ends of a packet: lost on a link, or an error that arrives.     *)
(***************************************************************************)
LEMMA AcabaRed ==
  ASSUME RedInv, Pierde \/ AcabaError
  PROVE  RedInv'
<1>1. PICK e \in {"perdido", "fin"} :
        /\ EnEnlace \/ EnNodo
        /\ paquete' = Acabado(paquete, e)
        /\ UNCHANGED <<argumentos, metricas, cambios, viaje, oyentes>>
        /\ telef' = telef /\ enlaces' = enlaces
  BY DEF Pierde, AcabaError, Acabado, argumentos, historia
<1>2. /\ viaje \in [Clases -> Lugares] /\ Recorrido /\ Rastro
      /\ paquete # Nada /\ paquete \in Paquetes
      /\ oyentes \subseteq Telefonos(1) \cup Telefonos(2)
  BY <1>1, HechosDelPaquete DEF RedInv
<1>3. /\ paquete' \in Paquetes /\ paquete'.estado = e /\ paquete' # Nada
      /\ paquete'.clase = paquete.clase /\ paquete'.origen = paquete.origen
      /\ paquete'.destino = paquete.destino
  BY <1>1, <1>2, PaqueteQueAcaba, CamposDelPaquete
<1>4. TypeOK' /\ Metricas'
  BY <1>1, <1>2, <1>3, PasoDelPaquete
<1>5. ~EnEnlace' /\ ~EnNodo'
  BY <1>3 DEF EnEnlace, EnNodo
<1>6. Recorrido'
  BY <1>1, <1>2, <1>3, <1>5 DEF Recorrido, PorDonde, Rebote
<1>7. Rastro'
  BY <1>1, <1>2, <1>3, <1>5 DEF Rastro
<1> QED
  BY <1>4, <1>6, <1>7 DEF RedInv

(***************************************************************************)
(* What MacTx tells of a packet that is at a node, or of a new error.      *)
(***************************************************************************)
LEMMA MacTxRastro ==
  ASSUME viaje \in [Clases -> Lugares], NEW n, NEW c \in Clases, MacTx(n, c)
  PROVE  /\ viaje' \in [Clases -> Lugares]
         /\ viaje'[c] \in {"observado", "ajeno", "recibido"}
         /\ viaje[c] # "recibido" \/ ~EsRouter(n) => viaje'[c] \in {"observado", "ajeno"}
         /\ \A d \in Clases : d # c => viaje'[d] = viaje[d]
<1>1. viaje[c] \in Lugares
  OBVIOUS
<1> DEFINE v == IF ~EsRouter(n) THEN "observado"
                ELSE IF viaje[c] = "nuevo" THEN "ajeno" ELSE viaje[c]
<1>2. viaje' = [viaje EXCEPT ![c] = v]
  BY DEF MacTx, TrazaTx
<1>3. /\ v \in Lugares /\ v \in {"observado", "ajeno", "recibido"}
      /\ viaje[c] # "recibido" \/ ~EsRouter(n) => v \in {"observado", "ajeno"}
  BY <1>1 DEF Lugares
<1> HIDE DEF v
<1> QED
  BY <1>2, <1>3

(***************************************************************************)
(* A packet forwarded along the route the table chooses.                   *)
(***************************************************************************)
LEMMA ReenviaRed ==
  ASSUME RedInv, Reenvia
  PROVE  RedInv'
<1> DEFINE p == paquete
<1>1. /\ EnNodo /\ ~Propia(p.nodo, p.destino) /\ p.ttl > 1
      /\ paquete' = Reenviado(p, p.ttl - 1)
      /\ MacTx(p.nodo, p.clase)
      /\ UNCHANGED <<argumentos, metricas, cambios, oyentes>>
      /\ telef' = telef /\ enlaces' = enlaces
  BY DEF Reenvia, Entregado, Reenviado, argumentos
<1>2. /\ Argumentos /\ viaje \in [Clases -> Lugares] /\ Recorrido /\ Rastro
      /\ p # Nada /\ p \in Paquetes /\ p.clase \in Clases /\ p.nodo \in Nodos
      /\ p.ttl \in 1 .. TTL /\ p.destino \in Direcciones
      /\ p.origen.red \in Sedes /\ p.destino.red \in Sedes
      /\ oyentes \subseteq Telefonos(1) \cup Telefonos(2)
  BY <1>1, HechosDelPaquete, CamposDelPaquete DEF RedInv
<1>3. p.ttl - 1 \in 1 .. TTL
  BY <1>1, <1>2, RedAssumption
<1>4. /\ paquete' \in Paquetes /\ paquete'.estado = "enlace" /\ paquete'.nodo = p.nodo
      /\ paquete'.clase = p.clase /\ paquete'.origen = p.origen
      /\ paquete'.destino = p.destino
      /\ paquete' # Nada
  <2>1. Reenviado(paquete, paquete.ttl - 1) \in Paquetes
    BY <1>2, <1>3, PaqueteQueSigue
  <2> QED
    BY <1>1, <1>2, <1>3, <2>1, PaqueteQueSigue, CamposDelPaquete
<1>5. /\ viaje' \in [Clases -> Lugares]
      /\ viaje'[p.clase] \in {"observado", "ajeno"}
      /\ \A d \in Clases : d # p.clase => viaje'[d] = viaje[d]
  <2>1. viaje[p.clase] # "recibido" \/ ~EsRouter(p.nodo)
    BY <1>1, <1>2 DEF Rastro
  <2> QED
    BY <1>1, <1>2, <2>1, MacTxRastro
<1>6. TypeOK' /\ Metricas'
  BY <1>1, <1>2, <1>4, <1>5, PasoDelPaquete
<1>7. EnEnlace' /\ ~EnNodo'
  BY <1>4 DEF EnEnlace, EnNodo
<1>8. ASSUME p.clase = "voz"
      PROVE  /\ p.destino.host \in 1 .. telef[p.destino.red]
             /\ oyentes # {} => p.origen.red # p.destino.red
             /\ p.nodo.sede = p.origen.red
             /\ p.origen.red = p.destino.red => ~EsRouter(p.nodo)
  <2>1. /\ p.destino.host \in 1 .. telef[p.destino.red]
        /\ oyentes # {} => p.origen.red # p.destino.red
        /\ \/ p.nodo = Router(p.origen.red)
           \/ /\ p.origen.red # p.destino.red
              /\ \/ p.nodo = Rebote(p.origen.red)
                 \/ p.nodo = Router(2) /\ p.destino.red = 2
    BY <1>1, <1>2, <1>8 DEF Recorrido, PorDonde
  <2>2. p.nodo # Router(p.destino.red)
    <3>1. p.destino = Direccion(p.destino.red, p.destino.host)
      BY <1>2, FormaDeDireccion
    <3>2. Propia(p.nodo, Direccion(p.destino.red, p.destino.host))
            <=> p.nodo = Router(p.destino.red)
      BY <1>2, <2>1, DeQuienEs
    <3> QED
      BY <1>1, <3>1, <3>2
  <2>3. \A s \in Sedes : Rebote(s).sede = s /\ Router(s).sede = s
    BY DEF Rebote, Router, Nodo, Sedes
  <2> QED
    BY <1>2, <2>1, <2>2, <2>3
<1>9. Recorrido'
  <2>1. PorDonde' \/ p.clase # "voz"
    BY <1>1, <1>4, <1>7, <1>8 DEF PorDonde, EsRouter, Router
  <2> QED
    BY <1>1, <1>2, <1>4, <2>1 DEF Recorrido, Rebote
<1>10. Rastro'
  <2>1. p.clase = "voz" => viaje'["icmp"] = "nuevo"
    BY <1>2, <1>5 DEF Rastro, Clases
  <2> QED
    BY <1>4, <1>5, <1>7, <2>1 DEF Rastro
<1> QED
  BY <1>6, <1>9, <1>10 DEF RedInv

(***************************************************************************)
(* The ICMP error that answers a voice packet which ends.                  *)
(***************************************************************************)
LEMMA DevuelveErrorRed ==
  ASSUME RedInv, DevuelveError
  PROVE  RedInv'
<1> DEFINE p == [estado |-> "enlace", clase |-> "icmp", nodo |-> paquete.nodo,
                 origen |-> Saliente(paquete.nodo, paquete.origen.red),
                 destino |-> paquete.origen, ttl |-> TTL]
<1>1. /\ EnNodo /\ paquete.clase = "voz" /\ paquete' = p
      /\ MacTx(paquete.nodo, "icmp")
      /\ UNCHANGED <<argumentos, metricas, cambios, oyentes>>
      /\ telef' = telef /\ enlaces' = enlaces
  BY DEF DevuelveError, Sale, argumentos
<1>2. /\ Argumentos /\ viaje \in [Clases -> Lugares] /\ Recorrido /\ Rastro
      /\ paquete # Nada /\ paquete \in Paquetes /\ paquete.nodo \in Nodos
      /\ paquete.origen \in Direcciones /\ paquete.origen.red \in Sedes
      /\ oyentes \subseteq Telefonos(1) \cup Telefonos(2)
  BY <1>1, HechosDelPaquete, CamposDelPaquete DEF RedInv
<1>3. /\ p \in Paquetes /\ p.estado = "enlace" /\ p.clase = "icmp" /\ p # Nada
      /\ p.origen.red \in Sedes /\ p.destino.red \in Sedes
  <2> DEFINE o == Saliente(paquete.nodo, paquete.origen.red)
  <2>1. \/ paquete.nodo = Router(paquete.origen.red)
        \/ ~EsRouter(paquete.nodo)
        \/ paquete.nodo = Router(2)
    <3>1. \/ paquete.nodo = Router(paquete.origen.red)
          \/ paquete.nodo = Rebote(paquete.origen.red)
          \/ paquete.nodo = Router(2)
      BY <1>1, <1>2 DEF Recorrido, PorDonde
    <3>2. Rebote(paquete.origen.red).sede = paquete.origen.red
      BY <1>2 DEF Rebote, Nodo, Sedes
    <3> QED
      BY <3>1, <3>2 DEF EsRouter
  <2>2. /\ o.red \in Sedes /\ o.host \in DOMAIN EnRed(o.red)
        /\ o = Direccion(o.red, o.host)
    BY <1>2, <2>1, SalienteDeSede
  <2> HIDE DEF o
  <2>3. o \in Direcciones
    BY <2>2, EstaEntreLasDirecciones DEF Sedes
  <2> QED
    BY <1>2, <2>2, <2>3, RedAssumption DEF o, Paquetes, Estados, Clases, Nada
<1> HIDE DEF p
<1>4. viaje["icmp"] = "nuevo"
  BY <1>1, <1>2 DEF Rastro
<1>5. viaje' \in [Clases -> Lugares] /\ viaje'["icmp"] \in {"observado", "ajeno"}
  BY <1>1, <1>2, <1>4, MacTxRastro DEF Clases
<1>6. TypeOK' /\ Metricas'
  BY <1>1, <1>2, <1>3, <1>5, PasoDelPaquete
<1>7. Recorrido'
  BY <1>1, <1>2, <1>3 DEF Recorrido, Rebote
<1>8. Rastro'
  BY <1>1, <1>3, <1>5 DEF Rastro, EnEnlace, EnNodo
<1> QED
  BY <1>6, <1>7, <1>8 DEF RedInv

(***************************************************************************)
(* Every step keeps the invariant.                                         *)
(***************************************************************************)
LEMMA NextRed == RedInv /\ [Next]_vars => RedInv'
<1> SUFFICES ASSUME RedInv, [Next]_vars
             PROVE  RedInv'
  OBVIOUS
<1>1. CASE CambiaEnlace
  BY <1>1, CambiaEnlaceRed
<1>2. CASE \E t, u \in Telefonos(1) \cup Telefonos(2) : Envia(t, u)
  BY <1>2, EnviaRed
<1>3. CASE Llega
  BY <1>3, LlegaRed
<1>4. CASE Pierde \/ AcabaError
  BY <1>4, AcabaRed
<1>5. CASE Reenvia
  BY <1>5, ReenviaRed
<1>6. CASE DevuelveError
  BY <1>6, DevuelveErrorRed
<1>7. CASE UNCHANGED vars
  <2>1. /\ UNCHANGED <<telef, enlaces, metricas, cambios, paquete, viaje, oyentes>>
        /\ UNCHANGED argumentos
    BY <1>7 DEF vars, argumentos, historia
  <2>2. TypeOK /\ Metricas /\ Recorrido /\ Rastro
    BY DEF RedInv
  <2>3. /\ Nodos' = Nodos /\ Direcciones' = Direcciones
        /\ (Telefonos(1) \cup Telefonos(2))' = Telefonos(1) \cup Telefonos(2)
    BY <2>1, MismaRed
  <2>4. \A s \in Sedes : metricas'[s] \in [Interfaces(Router(s)) -> 0 .. MaxEnlaces]'
    BY <2>1, <2>2 DEF TypeOK, Interfaces, EsRouter, Router
  <2>5. TypeOK'
    BY <2>1, <2>2, <2>3, <2>4 DEF TypeOK
  <2>6. Metricas'
    BY <2>1, <2>2 DEF Metricas
  <2>7. Recorrido' /\ Rastro'
    BY <2>1, <2>2 DEF Recorrido, PorDonde, Rastro, EnEnlace, EnNodo, EsRouter, Router,
                      Rebote
  <2> QED
    BY <2>5, <2>6, <2>7 DEF RedInv
<1> QED
  BY <1>1, <1>2, <1>3, <1>4, <1>5, <1>6, <1>7 DEF Next, Viaja, Final

(***************************************************************************)
(* The invariant of the network holds in every state.                      *)
(***************************************************************************)
THEOREM RedSegura == Spec => []RedInv
<1>1. Init => RedInv
  BY InitRed
<1>2. RedInv /\ [Next]_vars => RedInv'
  BY NextRed
<1> QED
  BY <1>1, <1>2, PTL DEF Spec

(***************************************************************************)
(* The variables keep their types: a packet is always at a node, and its   *)
(* addresses are of the network, wherever the routes take it.              *)
(***************************************************************************)
THEOREM TipoDeLaRed == Spec => []TypeOK
<1>1. RedInv => TypeOK
  BY DEF RedInv
<1> QED
  BY <1>1, RedSegura, PTL

(***************************************************************************)
(* The default route of each telephone leads to the other end of its link, *)
(* for any numbers of telephones and links.                                *)
(***************************************************************************)
THEOREM PasarelasCorrectas == Spec => []PasarelaEnFrente
<1>1. RedInv => PasarelaEnFrente
  BY ArgumentosDelTipo, LaPasarelaEstaEnFrente DEF RedInv
<1> QED
  BY <1>1, RedSegura, PTL

(***************************************************************************)
(* The global routes, all that cambiaEnlace acts on, are never consulted.  *)
(***************************************************************************)
THEOREM RotarNoEncamina == Spec => []SiempreEstatica
<1>1. RedInv => SiempreEstatica
  BY ArgumentosDelTipo, LasGlobalesNoSeUsan DEF RedInv
<1> QED
  BY <1>1, RedSegura, PTL

(***************************************************************************)
(* How far cambiaEnlace is from setting the metrics of the "enlaces de R1" *)
(* and "enlaces de R2" (simvoip.cc:537-539): those it gives interfaces 1   *)
(* to enlaces are all different and the same on both routers, but the      *)
(* interfaces are the telephones', and while the links are no more than    *)
(* the telephones of a site no metric of a link ever changes.              *)
(***************************************************************************)
SoloTelefonosRotan ==
  /\ cambios > 0 => \A i, j \in 1 .. enlaces :
       /\ metricas[1][i] = metricas[2][i]
       /\ metricas[1][i] = metricas[1][j] => i = j
  /\ \A s \in Sedes : enlaces <= telef[s] =>
       \A k \in 1 .. enlaces : metricas[s][InterfazEnlace(s, k)] = 1

(***************************************************************************)
(* cambiaEnlace gives its interfaces metrics all different, the same on    *)
(* both routers, and leaves the links alone while they are no more than    *)
(* the telephones.                                                         *)
(***************************************************************************)
THEOREM RotanLosTelefonos == Spec => []SoloTelefonosRotan
<1>1. RedInv => SoloTelefonosRotan
  <2> SUFFICES ASSUME RedInv
               PROVE  SoloTelefonosRotan
    OBVIOUS
  <2>1. Argumentos /\ Metricas
    BY ArgumentosDelTipo DEF RedInv
  <2>2. /\ telef[1] \in Nat \ {0} /\ telef[2] \in Nat \ {0} /\ enlaces \in Nat \ {0}
        /\ \A s \in Sedes : telef[s] \in Nat \ {0}
    BY <2>1 DEF Argumentos, Sedes
  <2>3. ASSUME cambios > 0, NEW i \in 1 .. enlaces, NEW j \in 1 .. enlaces
        PROVE  /\ metricas[1][i] = metricas[2][i]
               /\ metricas[1][i] = metricas[1][j] => i = j
    <3>1. /\ i \in 1 .. telef[1] + enlaces /\ j \in 1 .. telef[1] + enlaces
          /\ i \in 1 .. telef[2] + enlaces /\ i <= enlaces /\ j <= enlaces
      BY <2>2
    <3>2. /\ metricas[1][i] = Serie(enlaces)[i] /\ metricas[2][i] = Serie(enlaces)[i]
          /\ metricas[1][j] = Serie(enlaces)[j]
      BY <2>1, <2>3, <3>1 DEF Metricas, Sedes
    <3>3. Serie(enlaces)[i] = Serie(enlaces)[j] => i = j
      BY <2>2, SerieDistinta
    <3> QED
      BY <3>2, <3>3
  <2>4. ASSUME NEW s \in Sedes, enlaces <= telef[s], NEW k \in 1 .. enlaces
        PROVE  metricas[s][InterfazEnlace(s, k)] = 1
    <3>1. /\ InterfazEnlace(s, k) \in 1 .. telef[s] + enlaces
          /\ ~(InterfazEnlace(s, k) <= enlaces)
      BY <2>2, <2>4 DEF InterfazEnlace
    <3> QED
      BY <2>1, <3>1 DEF Metricas
  <2> QED
    BY <2>3, <2>4 DEF SoloTelefonosRotan
<1> QED
  BY <1>1, RedSegura, PTL

(***************************************************************************)
(* Voice within a site reaches no telephone; voice for the other site, no  *)
(* telephone but the one it bounces off.                                   *)
(***************************************************************************)
THEOREM NadieMasOye == Spec => []SoloOyeElRebote
<1>1. RedInv => SoloOyeElRebote
  <2> SUFFICES ASSUME RedInv, NEW t \in oyentes
               PROVE  /\ t = Rebote(t.sede)
                      /\ paquete.clase = "voz" => paquete.origen.red # paquete.destino.red
    BY DEF SoloOyeElRebote
  <2> QED
    BY DEF RedInv, Recorrido, PorDonde
<1> QED
  BY <1>1, RedSegura, PTL

-----------------------------------------------------------------------------
(***************************************************************************)
(* How far the routes are from leading "hacia la otra sede" (simvoip.cc    *)
(* 353 and 365, Sede2Cruza): packets pass from one site to the other only  *)
(* from site 1 to site 2, and only if there are more links than telephones *)
(* in site 1.                                                              *)
(***************************************************************************)
CruceSoloDeIda ==
  [][paquete # Nada /\ paquete'.nodo.sede # paquete.nodo.sede =>
       paquete.nodo = Router(1) /\ enlaces > telef[1]]_vars

(***************************************************************************)
(* A step that takes the packet to the other site.                         *)
(***************************************************************************)
LEMMA PasoQueCruza ==
  ASSUME RedInv, [Next]_vars, paquete # Nada, paquete'.nodo.sede # paquete.nodo.sede
  PROVE  paquete.nodo = Router(1) /\ enlaces > telef[1]
<1>1. /\ Argumentos /\ paquete \in Paquetes /\ paquete.nodo \in Nodos
      /\ paquete.destino.red \in Sedes /\ paquete.ttl \in 1 .. TTL
  BY HechosDelPaquete, CamposDelPaquete
<1>2. CASE Llega
  <2> DEFINE n == Siguiente(paquete.nodo, paquete.destino.red)
  <2>1. paquete' = Llegado(paquete, n)
    BY <1>2 DEF Llega, Llegado, Siguiente
  <2>2. /\ ~EsRouter(paquete.nodo) => n = Router(paquete.nodo.sede)
        /\ EsRouter(paquete.nodo) /\ paquete.destino.red = paquete.nodo.sede =>
             n.sede = paquete.nodo.sede
        /\ paquete.nodo = Router(1) /\ paquete.destino.red = 2 =>
             n = IF enlaces <= telef[1] THEN Rebote(1) ELSE Router(2)
        /\ paquete.nodo = Router(2) /\ paquete.destino.red = 1 => n = Rebote(2)
        /\ n \in Nodos
    BY <1>1, Salto
  <2> HIDE DEF n
  <2>3. paquete'.nodo = n
    BY <1>1, <2>1, <2>2, PaqueteQueLlega
  <2>4. /\ \A s \in Sedes : Rebote(s).sede = s /\ Router(s).sede = s
        /\ paquete.nodo.sede \in Sedes
    BY <1>1, QuienEsQuien DEF Rebote, Router, Nodo, Sedes
  <2>5. EsRouter(paquete.nodo) /\ paquete.destino.red # paquete.nodo.sede
    BY <2>2, <2>3, <2>4
  <2>6. paquete.nodo = Router(paquete.nodo.sede)
    BY <2>5 DEF EsRouter
  <2>7. paquete.nodo = Router(1) /\ ~(enlaces <= telef[1])
    BY <1>1, <2>2, <2>3, <2>4, <2>5, <2>6 DEF Sedes
  <2> QED
    BY <1>1, <2>7 DEF Argumentos, Sedes
<1>3. CASE Pierde \/ AcabaError
  <2>1. PICK e \in {"perdido", "fin"} : paquete' = Acabado(paquete, e)
    BY <1>3 DEF Pierde, AcabaError, Acabado
  <2> QED
    BY <1>1, <2>1, PaqueteQueAcaba
<1>4. CASE Reenvia
  <2>1. paquete' = Reenviado(paquete, paquete.ttl - 1) /\ paquete.ttl - 1 \in 1 .. TTL
    BY <1>1, <1>4, RedAssumption DEF Reenvia, Reenviado
  <2> QED
    BY <1>1, <2>1, PaqueteQueSigue
<1>5. CASE DevuelveError
  <2>1. paquete'.nodo = paquete.nodo
    BY <1>5 DEF DevuelveError, Sale
  <2> QED
    BY <2>1
<1>6. CASE UNCHANGED paquete
  BY <1>6
<1> QED
  BY <1>2, <1>3, <1>4, <1>5, <1>6 DEF Next, Viaja, CambiaEnlace, Envia, Final, vars

(***************************************************************************)
(* Packets cross from site 1 to site 2 only, and only over links in excess *)
(* of the telephones of site 1.                                            *)
(***************************************************************************)
THEOREM NoHayVuelta == Spec => CruceSoloDeIda
<1>1. RedInv /\ [Next]_vars =>
        [paquete # Nada /\ paquete'.nodo.sede # paquete.nodo.sede =>
           paquete.nodo = Router(1) /\ enlaces > telef[1]]_vars
  BY PasoQueCruza
<1> QED
  BY <1>1, RedSegura, PTL DEF Spec, CruceSoloDeIda

-----------------------------------------------------------------------------
(***************************************************************************)
(* The refinement: each step that the traces see is a step of Viaje.       *)
(***************************************************************************)
LEMMA MacTxEsViaje ==
  ASSUME viaje \in [Clases -> Lugares], NEW n, NEW c \in Clases, MacTx(n, c),
         IF EsRouter(n) THEN viaje[c] # "recibido" ELSE viaje[c] \in {"nuevo", "recibido"}
  PROVE  V!Next \/ UNCHANGED viaje
<1>1. CASE ~EsRouter(n)
  <2>1. V!Sale(c)
    BY <1>1 DEF V!Sale, MacTx, TrazaTx
  <2> QED
    BY <2>1 DEF V!Next
<1>2. CASE EsRouter(n) /\ viaje[c] = "nuevo"
  <2>1. V!Emite(c)
    BY <1>2 DEF V!Emite, MacTx, TrazaTx
  <2> QED
    BY <2>1 DEF V!Next
<1>3. CASE EsRouter(n) /\ viaje[c] # "nuevo"
  BY <1>3 DEF MacTx, TrazaTx
<1> QED
  BY <1>1, <1>2, <1>3

(***************************************************************************)
(* Each step of the network is a step of its traces, or none.              *)
(***************************************************************************)
LEMMA PasoDeViaje ==
  ASSUME RedInv, [Next]_vars
  PROVE  [V!Next]_viaje
<1>1. /\ viaje \in [Clases -> Lugares] /\ Rastro
      /\ paquete # Nada => paquete.clase \in Clases
      /\ EnEnlace \/ EnNodo => paquete # Nada
  BY HechosDelPaquete, CamposDelPaquete DEF RedInv
<1>2. ASSUME NEW t \in Telefonos(1) \cup Telefonos(2),
             NEW u \in Telefonos(1) \cup Telefonos(2), Envia(t, u)
      PROVE  V!Next \/ UNCHANGED viaje
  <2>1. ~EsRouter(t)
    BY HechosDelPaquete, QuienEsQuien
  <2>2. paquete = Nada /\ MacTx(t, "voz")
    BY <1>2 DEF Envia, Sale
  <2>3. viaje["voz"] = "nuevo" /\ "voz" \in Clases
    BY <1>1, <2>2 DEF Rastro, Clases
  <2> QED
    BY <1>1, <2>1, <2>2, <2>3, MacTxEsViaje
<1>3. ASSUME Llega
      PROVE  V!Next \/ UNCHANGED viaje
  <2>1. /\ EnEnlace /\ paquete.clase \in Clases
        /\ viaje[paquete.clase] \in {"observado", "ajeno"}
    BY <1>1, <1>3 DEF Llega, Rastro
  <2>2. \/ viaje' = [viaje EXCEPT ![paquete.clase] = "recibido"]
        \/ viaje' = viaje
    BY <1>3 DEF Llega
  <2>3. CASE viaje' = [viaje EXCEPT ![paquete.clase] = "recibido"]
    <3>1. V!Llega(paquete.clase)
      BY <2>1, <2>3 DEF V!Llega
    <3> QED
      BY <2>1, <3>1 DEF V!Next
  <2> QED
    BY <2>2, <2>3
<1>4. ASSUME Reenvia
      PROVE  V!Next \/ UNCHANGED viaje
  <2>1. EnNodo /\ MacTx(paquete.nodo, paquete.clase)
    BY <1>4 DEF Reenvia
  <2>2. IF EsRouter(paquete.nodo) THEN viaje[paquete.clase] # "recibido"
        ELSE viaje[paquete.clase] \in {"nuevo", "recibido"}
    BY <1>1, <2>1 DEF Rastro
  <2> QED
    BY <1>1, <2>1, <2>2, MacTxEsViaje
<1>5. ASSUME DevuelveError
      PROVE  V!Next \/ UNCHANGED viaje
  <2>1. EnNodo /\ MacTx(paquete.nodo, "icmp") /\ paquete.clase = "voz"
    BY <1>5 DEF DevuelveError, Sale
  <2>2. viaje["icmp"] = "nuevo" /\ "icmp" \in Clases
    BY <1>1, <2>1 DEF Rastro, Clases
  <2> QED
    BY <1>1, <2>1, <2>2, MacTxEsViaje
<1>6. CASE CambiaEnlace \/ Pierde \/ AcabaError \/ UNCHANGED vars
  BY <1>6 DEF CambiaEnlace, Pierde, AcabaError, vars, historia
<1> QED
  BY <1>2, <1>3, <1>4, <1>5, <1>6 DEF Next, Viaja, Final

(***************************************************************************)
(* The traces of the network are among those the observer is written for.  *)
(***************************************************************************)
THEOREM RedCumpleViaje == Spec => CumpleViaje
<1>1. Init => V!Init
  BY DEF Init, V!Init
<1>2. RedInv /\ [Next]_vars => [V!Next]_viaje
  BY PasoDeViaje
<1> QED
  BY <1>1, <1>2, RedSegura, PTL DEF Spec, CumpleViaje, V!Spec

=============================================================================
