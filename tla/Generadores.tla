----------------------------- MODULE Generadores ----------------------------
(***************************************************************************)
(* The telephones with their generators of traffic.  An on/off application *)
(* is ns-3's: once installed it is initialised, in an event of that        *)
(* instant, and that schedules its start as long after it as SetStartTime  *)
(* said (ns3/application.h: a time relative to the current one), and its   *)
(* stop if a stop time has been set by then.                               *)
(*                                                                         *)
(* Every handler of Telefonia is composed with what it makes of them.      *)
(***************************************************************************)
EXTENDS Telefonia

VARIABLE generadores

genVars == <<vars, generadores>>

(***************************************************************************)
(* Install, and Start with the present as relative time, in the handler of *)
(* event e.  The initialisation is scheduled just before the handler's own *)
(* Cuelga, so the events of this instant with a lower uid run before it.   *)
(***************************************************************************)
Generador(e) ==
  [tel |-> e.tel, instante |-> e.ts, inicializa |-> proximoUid' - 1,
   desde |-> e.ts + e.ts, parado |-> FALSE]

Instala(e) == generadores' = generadores \cup {Generador(e)}

(***************************************************************************)
(* The container holds the last generator installed.                       *)
(***************************************************************************)
EnContenedor(n) ==
  {g \in generadores : g.tel = n /\ \A h \in generadores :
                                      h.tel = n => h.inicializa <= g.inicializa}

(***************************************************************************)
(* Stop, from hang-up e.  A generator still to be initialised gets a stop  *)
(* time, the same as its start time: it stops at the instant it starts.  A *)
(* stop time of zero is none.  One that has been initialised has scheduled *)
(* no stop and schedules none any more.                                    *)
(***************************************************************************)
ParaATiempo(e, g) == g.instante = e.ts /\ e.uid < g.inicializa /\ e.ts > 0

Para(e) ==
  generadores' =
    {IF g \in EnContenedor(e.tel) /\ ParaATiempo(e, g)
     THEN [g EXCEPT !.parado = TRUE] ELSE g : g \in generadores}

GenInit == Init /\ generadores = {}

ConGenerador(e) == (LlamaLibre(e) \/ Descuelga(e)) /\ Instala(e)

CuelgaYPara(e) == Cuelga(e) /\ Para(e)

SinGenerador(e) ==
  /\ StartApplication(e) \/ LlamaOcupado(e) \/ Colgar(e)
  /\ UNCHANGED generadores

GenNext ==
  \/ \E e \in agenda : ConGenerador(e) \/ CuelgaYPara(e) \/ SinGenerador(e)
  \/ (Construye \/ Run \/ Stop \/ Parado) /\ UNCHANGED generadores

GenSpec == GenInit /\ [][GenNext]_genVars

-----------------------------------------------------------------------------
(***************************************************************************)
(* What the comments of the code promise and the code does not do.         *)
(***************************************************************************)

(***************************************************************************)
(* voip.h: Cuelga stops the generator.  A telephone that is not in a call  *)
(* then has no application running; those whose overlapping calls replaced *)
(* a generator before it was told to stop are left out.                    *)
(***************************************************************************)
CallaAlColgar ==
  \A n \in Telefonos :
    Pendientes(agenda, "Cuelga", n) = {} /\ huerfanas[n] = 0 =>
      \A g \in generadores : g.tel = n => ahora <= g.desde \/ g.parado
=============================================================================
