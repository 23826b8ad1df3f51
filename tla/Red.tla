--------------------------------- MODULE Red --------------------------------
(***************************************************************************)
(* The network at work: what the routes of Topologia make of the packets   *)
(* the telephones send, and of the link rotation (cambiaEnlace).           *)
(*                                                                         *)
(* One packet is followed hop by hop, then the ICMP error it may cause.    *)
(* Forwarding is the library's: a node accepts a packet for any of its     *)
(* addresses, no telephone listens on the port the generators send to, a   *)
(* packet whose hops are spent is dropped, and both send an error back.    *)
(* The observer's MacTx and MacRx are traced on the telephones' devices.   *)
(***************************************************************************)
EXTENDS Topologia, FiniteSets

CONSTANTS
  MaxTelef,           \* bound: telephones of a site
  MaxEnlaces,         \* bound: links between the routers
  MaxCambios,         \* bound: calls of cambiaEnlace
  TTL                 \* hops a packet may make

ASSUME RedAssumption ==
  /\ MaxTelef \in Nat \ {0}
  /\ MaxEnlaces \in Nat \ {0}
  /\ MaxCambios \in Nat \ {0}
  /\ TTL \in Nat \ {0}

VARIABLES
  metricas,           \* metric of each interface of each router
  cambios,            \* calls of cambiaEnlace so far
  paquete,            \* the packet followed
  viaje,              \* history: what the traces tell of each of the two packets
  oyentes             \* history: telephones that have received a voice packet

argumentos == <<telef, enlaces>>

historia == <<viaje, oyentes>>

vars == <<argumentos, metricas, cambios, paquete, historia>>

Nada == [estado |-> "nada"]

Clases == {"voz", "icmp"}

(***************************************************************************)
(* simular is called with some numbers of telephones and of links (with no *)
(* links it aborts before the run); Assign gives every interface metric 1. *)
(***************************************************************************)
Init ==
  /\ telef \in [Sedes -> 1 .. MaxTelef]
  /\ enlaces \in 1 .. MaxEnlaces
  /\ metricas = [s \in Sedes |-> [i \in Interfaces(Router(s)) |-> 1]]
  /\ cambios = 0
  /\ paquete = Nada
  /\ viaje = [c \in Clases |-> "nuevo"]
  /\ oyentes = {}

-----------------------------------------------------------------------------
\* Fault: the metric does not go back to zero.
SerieSinVuelta(n) == [j \in 1 .. n |-> n + j - 1]

(***************************************************************************)
(* The metrics a call of cambiaEnlace gives to interfaces 1 to n: it       *)
(* starts from n, counts up, and from n - 1 goes back to zero.             *)
(***************************************************************************)
Serie(n) ==
  LET metrica[j \in 1 .. n] ==
        IF j = 1 THEN n
        ELSE IF metrica[j - 1] + 1 >= n THEN 0 ELSE metrica[j - 1] + 1
  IN  metrica

(***************************************************************************)
(* cambiaEnlace: simular calls it once and it schedules itself again.  The *)
(* interfaces it counts are the same on both routers.                      *)
(***************************************************************************)
CambiaEnlace ==
  /\ cambios < MaxCambios
  /\ metricas' = [s \in Sedes |-> [i \in Interfaces(Router(s)) |->
       IF i <= enlaces THEN Serie(enlaces)[i] ELSE metricas[s][i]]]
  /\ cambios' = cambios + 1
  /\ UNCHANGED <<argumentos, paquete, historia>>

-----------------------------------------------------------------------------
\* Fault: MacRx is traced on the router's side of the links.
RxDelRouter(nodo) == EsRouter(nodo)

(***************************************************************************)
(* The devices on which MacRx and MacTx are traced: R1DevicesTelefonos and *)
(* R2DevicesTelefonos.                                                     *)
(***************************************************************************)
TrazaRx(nodo) == ~EsRouter(nodo)

TrazaTx(nodo) == ~EsRouter(nodo)

EnEnlace == paquete.estado = "enlace"

EnNodo == paquete.estado = "nodo"

Entregado == Propia(paquete.nodo, paquete.destino)

\* MacTx, if the device of the node is traced.
MacTx(nodo, clase) ==
  viaje' = [viaje EXCEPT ![clase] =
              IF TrazaTx(nodo) THEN "observado" ELSE IF @ = "nuevo" THEN "ajeno" ELSE @]

\* A new packet of a node goes out.
Sale(nodo, clase, origen, destino) ==
  /\ paquete' = [estado |-> "enlace", clase |-> clase, nodo |-> nodo,
                 origen |-> origen, destino |-> destino, ttl |-> TTL]
  /\ MacTx(nodo, clase)
  /\ UNCHANGED <<argumentos, metricas, cambios, oyentes>>

(***************************************************************************)
(* The generator of telephone t sends to the number of telephone u.        *)
(***************************************************************************)
Envia(t, u) ==
  /\ cambios > 0 /\ paquete = Nada
  /\ Sale(t, "voz", DireccionDe(t), Registrada(u))

(***************************************************************************)
(* The packet reaches the other end of the link.                           *)
(***************************************************************************)
Llega ==
  /\ EnEnlace
  /\ LET n == Enfrente(paquete.nodo, Elegida(paquete.nodo, paquete.destino.red).i)
     IN  /\ paquete' = [paquete EXCEPT !.nodo = n, !.estado = "nodo"]
         /\ viaje' = IF TrazaRx(n) THEN [viaje EXCEPT ![paquete.clase] = "recibido"]
                     ELSE viaje
         /\ oyentes' = IF EsRouter(n) \/ paquete.clase # "voz" THEN oyentes
                       ELSE oyentes \cup {n}
  /\ UNCHANGED <<argumentos, metricas, cambios>>

(***************************************************************************)
(* A full queue or the error model drops the packet.                       *)
(***************************************************************************)
Pierde ==
  /\ EnEnlace
  /\ paquete' = [paquete EXCEPT !.estado = "perdido"]
  /\ UNCHANGED <<argumentos, metricas, cambios, historia>>

(***************************************************************************)
(* The node forwards the packet, to where it came from if need be.         *)
(***************************************************************************)
Reenvia ==
  /\ EnNodo /\ ~Entregado
  /\ paquete.ttl > 1
  /\ paquete' = [paquete EXCEPT !.estado = "enlace", !.ttl = @ - 1]
  /\ MacTx(paquete.nodo, paquete.clase)
  /\ UNCHANGED <<argumentos, metricas, cambios, oyentes>>

(***************************************************************************)
(* Voice ends at a node that owns its address, where nobody listens, or    *)
(* that finds its hops spent: the node sends an error to its origin, from  *)
(* the interface of the route to it.                                       *)
(***************************************************************************)
DevuelveError ==
  /\ EnNodo /\ paquete.clase = "voz"
  /\ Entregado \/ paquete.ttl = 1
  /\ Sale(paquete.nodo, "icmp", Saliente(paquete.nodo, paquete.origen.red),
          paquete.origen)

(***************************************************************************)
(* An error ends in the same places and causes no other.                   *)
(***************************************************************************)
AcabaError ==
  /\ EnNodo /\ paquete.clase = "icmp"
  /\ Entregado \/ paquete.ttl = 1
  /\ paquete' = [paquete EXCEPT !.estado = "fin"]
  /\ UNCHANGED <<argumentos, metricas, cambios, historia>>

Viaja == Llega \/ Pierde \/ Reenvia \/ DevuelveError \/ AcabaError

Final ==
  /\ cambios = MaxCambios /\ paquete.estado \in {"perdido", "fin"}
  /\ UNCHANGED vars

Next ==
  \/ CambiaEnlace
  \/ \E t, u \in Telefonos(1) \cup Telefonos(2) : Envia(t, u)
  \/ Viaja
  \/ Final

Spec == Init /\ [][Next]_vars

-----------------------------------------------------------------------------
(***************************************************************************)
(* Properties.                                                             *)
(***************************************************************************)

Direcciones == UNION {{Direccion(r, h) : h \in DOMAIN EnRed(r)} : r \in {1, 2, 3}}

TypeOK ==
  /\ telef \in [Sedes -> 1 .. MaxTelef]
  /\ enlaces \in 1 .. MaxEnlaces
  /\ \A s \in Sedes : metricas[s] \in [Interfaces(Router(s)) -> 0 .. MaxEnlaces]
  /\ cambios \in 0 .. MaxCambios
  /\ paquete # Nada =>
       paquete \in [estado : {"enlace", "nodo", "perdido", "fin"}, clase : Clases,
                    nodo : Nodos, origen : Direcciones, destino : Direcciones,
                    ttl : 1 .. TTL]
  /\ viaje \in [Clases -> {"nuevo", "ajeno", "observado", "recibido"}]
  /\ oyentes \subseteq Telefonos(1) \cup Telefonos(2)

(***************************************************************************)
(* The gateway of a telephone's default route is the address of the router *)
(* at the other end of its own link, although addresses are given by one   *)
(* loop and routes are written by another that counts for itself.          *)
(***************************************************************************)
PasarelaEnFrente ==
  \A t \in Telefonos(1) \cup Telefonos(2) :
    LET puerta == Elegida(t, 3).puerta
        extremo == EnRed(puerta.red)[puerta.host]
    IN  /\ puerta.host \in DOMAIN EnRed(puerta.red)
        /\ extremo = Interfaz(Router(t.sede), t.c + 1)
        /\ Enfrente(extremo.nodo, extremo.i) = t

(***************************************************************************)
(* Every node has a static route to every network, so the global routes,   *)
(* which follow the metrics that cambiaEnlace sets, are never consulted:   *)
(* no rotation can move a packet to another link.                          *)
(***************************************************************************)
SiempreEstatica == \A nodo \in Nodos, r \in {1, 2, 3} : HayRuta(nodo, r)

(***************************************************************************)
(* The telephone that voice bounces off: the last default route of router  *)
(* 1 goes out of interface enlaces, the only one of router 2 out of        *)
(* interface 1.  Voice within a site reaches no telephone at all, and voice*)
(* for the other site no other telephone.                                  *)
(***************************************************************************)
Rebote(s) == IF s = 1 THEN Nodo(1, enlaces - 1) ELSE Nodo(2, 0)

SoloOyeElRebote ==
  \A t \in oyentes :
    /\ t = Rebote(t.sede)
    /\ paquete.clase = "voz" => paquete.origen.red # paquete.destino.red

(***************************************************************************)
(* What the traces show of a packet is what the observer is written for.   *)
(***************************************************************************)
V == INSTANCE Viaje WITH Paquete <- Clases, lugar <- viaje

CumpleViaje == V!Spec

-----------------------------------------------------------------------------
(***************************************************************************)
(* What the comments of the code promise and the code does not do.         *)
(***************************************************************************)

(***************************************************************************)
(* voip.h of Llama: the switchboard returns "un Address del destino", for  *)
(* which the generator is set up, and simvoip.cc speaks of "un sumidero de *)
(* paquetes en cada telefono".  A packet that ends at the owner of the     *)
(* address then ends at the telephone that registered it.                  *)
(***************************************************************************)
LlegaAlRegistrado ==
  EnNodo /\ paquete.clase = "voz" /\ Entregado =>
    \E u \in Telefonos(1) \cup Telefonos(2) :
      Registrada(u) = paquete.destino /\ paquete.nodo = u

(***************************************************************************)
(* simvoip.cc: the default routes of the second loop are each a "Ruta hacia*)
(* la otra sede pasando por el router", and the log of the loop says that  *)
(* they are those of router 2.  What router 2 sends on for site 1 then gets*)
(* to router 1.                                                            *)
(***************************************************************************)
Sede2Cruza ==
  [][EnEnlace /\ paquete.nodo = Router(2) /\ paquete.destino.red = 1
     /\ paquete'.estado = "nodo" => paquete'.nodo = Router(1)]_vars
=============================================================================
