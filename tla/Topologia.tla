------------------------------ MODULE Topologia -----------------------------
(***************************************************************************)
(* The network that simular builds (simvoip.cc 228-374): devices,          *)
(* interfaces, addresses and static routes of the telephones and of the    *)
(* two routers.  They are built once and never change, so they are         *)
(* operators of the arguments of simular.                                  *)
(*                                                                         *)
(* The choice of a route is the library's: of the static routes that match *)
(* the destination the one with the longest prefix, and of those that tie  *)
(* (all have metric 0) the last one added.                                 *)
(***************************************************************************)
EXTENDS Integers, Sequences

VARIABLES
  telef,              \* telef1 and telef2
  enlaces             \* resultado->enlaces

-----------------------------------------------------------------------------
(***************************************************************************)
(* Nodes.  terminales1 and terminales2 hold the telephones of a site and,  *)
(* added last, its router.                                                 *)
(***************************************************************************)
Sedes == {1, 2}

Otra(s) == 3 - s

Nodo(s, c) == [sede |-> s, c |-> c]

Terminales(s) == {Nodo(s, c) : c \in 0 .. telef[s]}

Router(s) == Nodo(s, telef[s])

Telefonos(s) == Terminales(s) \ {Router(s)}

Nodos == Terminales(1) \cup Terminales(2)

EsRouter(nodo) == nodo = Router(nodo.sede)

(***************************************************************************)
(* Interfaces are numbered in the order in which devices get an address:   *)
(* those of the site come before those of the links between the routers.   *)
(***************************************************************************)
InterfazEnlace(s, k) == telef[s] + k

Interfaz(nodo, i) == [nodo |-> nodo, i |-> i]

Interfaces(nodo) == IF EsRouter(nodo) THEN 1 .. telef[nodo.sede] + enlaces ELSE {1}

(***************************************************************************)
(* The node at the other end of a link.                                    *)
(***************************************************************************)
Enfrente(nodo, i) ==
  IF ~EsRouter(nodo) THEN Router(nodo.sede)
  ELSE IF i <= telef[nodo.sede] THEN Nodo(nodo.sede, i - 1)
  ELSE Router(Otra(nodo.sede))

-----------------------------------------------------------------------------
(***************************************************************************)
(* Addresses: the networks are 10.1, 10.2 and 10.3; Assign numbers the     *)
(* devices of a container from 1.                                          *)
(***************************************************************************)
DevicesRouter(s) == [j \in 1 .. telef[s] |-> Interfaz(Router(s), j)]

DevicesTelefonos(s) == [j \in 1 .. telef[s] |-> Interfaz(Nodo(s, j - 1), 1)]

(***************************************************************************)
(* R1Devices and R2Devices: the router's devices, then the telephones'.    *)
(***************************************************************************)
Devices(s) == DevicesRouter(s) \o DevicesTelefonos(s)

(***************************************************************************)
(* Rdevices: both ends of a link, then both of the next one.               *)
(***************************************************************************)
Rdevices ==
  [j \in 1 .. 2 * enlaces |->
     LET s == IF j % 2 = 1 THEN 1 ELSE 2
     IN  Interfaz(Router(s), InterfazEnlace(s, (j + 1) \div 2))]

\* The devices of network r, in the order of their addresses.
EnRed(r) == IF r = 3 THEN Rdevices ELSE Devices(r)

Direccion(r, host) == [red |-> r, host |-> host]

\* Whether d is an address of the node, on whatever interface.
Propia(nodo, d) == d.host \in DOMAIN EnRed(d.red) /\ EnRed(d.red)[d.host].nodo = nodo

\* What telephone t sends from: the address of its only device.
DireccionDe(t) ==
  Direccion(t.sede, CHOOSE h \in DOMAIN EnRed(t.sede) : EnRed(t.sede)[h].nodo = t)

(***************************************************************************)
(* telefonosSede.GetAddress(i), the address a telephone is registered by.  *)
(***************************************************************************)
Registrada(t) == Direccion(t.sede, t.c + 1)

-----------------------------------------------------------------------------
(***************************************************************************)
(* Static routes.                                                          *)
(***************************************************************************)
PorDefecto == 0

Ruta(r, puerta, i) == [red |-> r, puerta |-> puerta, i |-> i]

(***************************************************************************)
(* The routes of a node to the networks it is on, one for each interface.  *)
(***************************************************************************)
Conectadas(nodo) ==
  IF ~EsRouter(nodo) THEN <<Ruta(nodo.sede, DireccionDe(nodo), 1)>>
  ELSE [i \in Interfaces(nodo) |->
          IF i <= telef[nodo.sede]
          THEN Ruta(nodo.sede, Direccion(nodo.sede, i), i)
          ELSE Ruta(3, Direccion(3, 2 * (i - telef[nodo.sede] - 1) + nodo.sede), i)]

\* Fault: the loop leaves the last node of the container out.
SinRutaDelRouter(nodo) ==
  IF EsRouter(nodo) THEN <<>>
  ELSE <<Ruta(PorDefecto, Direccion(nodo.sede, nodo.c + 1), 1)>>

\* Fault: the addresses of the site are counted from zero.
RutaDesdeCero(nodo) == <<Ruta(PorDefecto, Direccion(nodo.sede, nodo.c), 1)>>

(***************************************************************************)
(* The default route every node of terminales1 and terminales2 gets, the   *)
(* router at their end included.                                           *)
(***************************************************************************)
RutaTerminal(nodo) == <<Ruta(PorDefecto, Direccion(nodo.sede, nodo.c + 1), 1)>>

(***************************************************************************)
(* The default routes meant for router 1, and those meant for router 2.    *)
(***************************************************************************)
RutasRouter1 ==
  [c \in 1 .. enlaces |-> Ruta(PorDefecto, Direccion(3, c), c)]

RutasRouter2 ==
  [c \in 1 .. enlaces |-> Ruta(PorDefecto, Direccion(3, c + enlaces), c)]

(***************************************************************************)
(* Both blocks are written to the table of R.Get(0).                       *)
(***************************************************************************)
RutasRouters(nodo) ==
  IF nodo = Router(1) THEN RutasRouter1 \o RutasRouter2 ELSE <<>>

Tabla(nodo) == Conectadas(nodo) \o RutaTerminal(nodo) \o RutasRouters(nodo)

\* Positions in table t of the routes to network r.
Hacia(t, r) == {k \in DOMAIN t : t[k].red = r}

HayRuta(nodo, r) ==
  LET t == Tabla(nodo) IN Hacia(t, r) \cup Hacia(t, PorDefecto) # {}

Ultimo(S) == CHOOSE k \in S : \A l \in S : l <= k

Primero(S) == CHOOSE k \in S : \A l \in S : k <= l

\* Fault: of the routes that tie the first one added is taken.
PrimeraElegida(nodo, r) ==
  LET t == Tabla(nodo)
      directas == Hacia(t, r)
  IN  t[Primero(IF directas # {} THEN directas ELSE Hacia(t, PorDefecto))]

(***************************************************************************)
(* Ipv4StaticRouting's choice for a destination in network r.              *)
(***************************************************************************)
Elegida(nodo, r) ==
  LET t == Tabla(nodo)
      directas == Hacia(t, r)
  IN  t[Ultimo(IF directas # {} THEN directas ELSE Hacia(t, PorDefecto))]

\* What a node sends from, when it answers: the address of the route's interface.
Saliente(nodo, r) == Conectadas(nodo)[Elegida(nodo, r).i].puerta
=============================================================================
