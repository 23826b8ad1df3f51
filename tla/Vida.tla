-------------------------------- MODULE Vida --------------------------------
(***************************************************************************)
(* The life of the telephones of one call of simular: ns-3's reference     *)
(* count (ns3/simple-ref-count.h), the smart pointer each node keeps to    *)
(* its application (ns3/ptr.h), and the explicit delete of simular.        *)
(*                                                                         *)
(* Memory that has been freed is read as it was left: whether using it     *)
(* ends the program is for who uses it to choose.                          *)
(***************************************************************************)
EXTENDS Naturals

CONSTANT Aparatos     \* the telephones simular makes

VARIABLES
  m_count,            \* references, 0 while there is no object
  destruidos          \* history: times the destructor has run on it

vidaVars == <<m_count, destruidos>>

VidaInit ==
  /\ m_count = [a \in Aparatos |-> 0]
  /\ destruidos = [a \in Aparatos |-> 0]

\* Fault: the constructor's reference is given to the node.
CuentaDelNodo == 1

(***************************************************************************)
(* The count after new and AddApplication: the constructor sets it to one  *)
(* and nobody takes that reference over; the Ptr the node keeps is made    *)
(* from the raw pointer and adds its own.                                  *)
(***************************************************************************)
CuentaInicial == 1 + 1

Nacen ==
  /\ m_count' = [a \in Aparatos |-> CuentaInicial]
  /\ destruidos' = [a \in Aparatos |-> 0]

(***************************************************************************)
(* delete: the destructor runs whatever the count.                         *)
(***************************************************************************)
Borra(a) ==
  /\ destruidos' = [destruidos EXCEPT ![a] = @ + 1]
  /\ UNCHANGED m_count

(***************************************************************************)
(* The node drops its Ptrs: Unref, and the destructor at zero.             *)
(***************************************************************************)
SueltaLosNodos ==
  /\ m_count' = [a \in Aparatos |-> m_count[a] - 1]
  /\ destruidos' = [a \in Aparatos |->
       IF m_count[a] = 1 THEN destruidos[a] + 1 ELSE destruidos[a]]
=============================================================================
