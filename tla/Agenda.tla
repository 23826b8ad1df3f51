------------------------------- MODULE Agenda -------------------------------
(***************************************************************************)
(* The event list of the ns-3 simulator as the program uses it.  The       *)
(* simulator's implementation is a library; its interface is               *)
(* ns3/simulator.h.  A handler runs to completion, the handler that runs   *)
(* next is the pending event with the least (time, uid), and events of the *)
(* same instant run in the order in which they were scheduled.             *)
(*                                                                         *)
(* A cancelled event is removed from the list: the library only sets a     *)
(* cancel bit and skips the event when its time comes, which no handler of *)
(* the program can tell apart from its absence.                            *)
(***************************************************************************)
EXTENDS Naturals

CONSTANT N            \* number of telephones, tel1 + tel2

ASSUME NAssumption == N \in Nat \ {0}

VARIABLES
  ahora,              \* Simulator::Now ()
  agenda,             \* the pending events
  proximoUid          \* uid of the next event to be scheduled

Telefonos == 0 .. N - 1

(***************************************************************************)
(* The functions the program schedules.                                    *)
(***************************************************************************)
Funciones == {"StartApplication", "Llama", "Cuelga", "Descuelga", "colgar"}

(***************************************************************************)
(* Every event carries the telephone it is about.  "de" and "dur" are the  *)
(* arguments of Descuelga (who calls and for how long).                    *)
(***************************************************************************)
Eventos == [ts : Nat, uid : Nat, fn : Funciones, tel : Telefonos,
            de : Telefonos, dur : Nat]

EventoCon(ts, u, f, tel, de, dur) ==
  [ts |-> ts, uid |-> u, fn |-> f, tel |-> tel, de |-> de, dur |-> dur]

Evento(ts, u, f, tel) == EventoCon(ts, u, f, tel, tel, 0)

(***************************************************************************)
(* e is dispatched before f: least time first, FIFO at the same instant.   *)
(***************************************************************************)
Antes(e, f) == e.ts < f.ts \/ (e.ts = f.ts /\ e.uid < f.uid)

(***************************************************************************)
(* e is the next event of the pending events A.                            *)
(***************************************************************************)
Primero(e, A) == e \in A /\ \A f \in A \ {e} : Antes(e, f)

(***************************************************************************)
(* The pending events of A that run function f for telephone n.            *)
(***************************************************************************)
Pendientes(A, f, n) == {e \in A : e.fn = f /\ e.tel = n}

(***************************************************************************)
(* Simulator::Cancel (id): nothing happens when the event already ran.     *)
(***************************************************************************)
Cancelado(A, id) == {e \in A : e.uid # id}
=============================================================================
