------------------------------- MODULE Central ------------------------------
(***************************************************************************)
(* The switchboard (Central.cc, Central.h): it numbers the telephones,     *)
(* picks the number a telephone calls, remembers the calls it granted and  *)
(* forgets a call when the hang-up it scheduled for it comes due.          *)
(*                                                                         *)
(* The operators give the new value of the switchboard's state; the        *)
(* handlers of Telefonia, which run inside one simulator event together    *)
(* with the switchboard's code, are built from them.                       *)
(***************************************************************************)
EXTENDS Agenda, FiniteSets

VARIABLES
  registrados,        \* telefonos.size () = objetos_voip.size ()
  llamadas,           \* std::map from caller to callee
  maxLlamadas         \* m_max of the observer's average of simultaneous calls

centralVars == <<registrados, llamadas, maxLlamadas>>

CentralInit ==
  /\ registrados = 0
  /\ llamadas = [n \in {} |-> n]
  /\ maxLlamadas = 0

GetNumLlamadas(m) == Cardinality(DOMAIN m)

(***************************************************************************)
(* registrar: the telephone gets the next index.                           *)
(***************************************************************************)
Registrar == registrados' = registrados + 1

(***************************************************************************)
(* The only condition llamar tests: the number picked is no caller's.      *)
(***************************************************************************)
Libre(llamado) == llamado \notin DOMAIN llamadas

(***************************************************************************)
(* std::map::insert keeps the entry a key already has.                     *)
(***************************************************************************)
Insertada(llamante, llamado) ==
  IF llamante \in DOMAIN llamadas
  THEN llamadas
  ELSE [n \in DOMAIN llamadas \cup {llamante} |->
          IF n = llamante THEN llamado ELSE llamadas[n]]

(***************************************************************************)
(* Average::Update of the number of simultaneous calls, its maximum.       *)
(***************************************************************************)
ActualizarNumLlamadas(m) ==
  IF GetNumLlamadas(m) > maxLlamadas THEN GetNumLlamadas(m) ELSE maxLlamadas

(***************************************************************************)
(* llamar when the number is free: the call is registered, then counted.   *)
(* The hang-up it schedules is ColgarProgramado.                           *)
(***************************************************************************)
Llamar(llamante, llamado) ==
  /\ llamadas' = Insertada(llamante, llamado)
  /\ maxLlamadas' = ActualizarNumLlamadas(llamadas')

ColgarProgramado(t, u, llamante, duracion) ==
  Evento(t + duracion, u, "colgar", llamante)

(***************************************************************************)
(* std::map::erase of the caller.                                          *)
(***************************************************************************)
Borrada(llamante) == [n \in DOMAIN llamadas \ {llamante} |-> llamadas[n]]
=============================================================================
