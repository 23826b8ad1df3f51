------------------------------ MODULE Telefonia -----------------------------
(***************************************************************************)
(* The telephones (voip.cc, voip.h), the switchboard they call (Central)   *)
(* and the simulator that runs their handlers (Agenda).                    *)
(*                                                                         *)
(* One action per handler: the dispatch of event e by Simulator::Run and   *)
(* everything the handler does, the switchboard's code included.  The      *)
(* random draws are choices: the number called, the time between calls     *)
(* (Esperas) and the duration of a call (Duraciones).  Times are in ticks  *)
(* of the simulator's resolution, in which a short draw rounds to zero.    *)
(***************************************************************************)
EXTENDS Central

CONSTANTS
  Esperas,            \* values of tiempo_entre_llamadas
  Duraciones,         \* values of duracion_de_llamada
  TInicio,            \* SetStartTime of every telephone
  TStop               \* Simulator::Stop

ASSUME TiemposAssumption ==
  /\ Esperas \subseteq Nat /\ Esperas # {}
  /\ Duraciones \subseteq Nat /\ Duraciones # {}
  /\ TInicio \in Nat
  /\ TStop \in Nat

VARIABLES
  fase,               \* before Simulator::Run, inside it, after it returned
  m_ocupado,
  m_duracion,
  m_proximallamada,   \* uid of an event that may have expired; 0 is EventId ()
  m_llamadaactual,    \* idem
  m_cuelga,           \* idem
  m_AppOnOff,         \* whether the helper pointer is not NULL
  m_appc,             \* peer of the generator in the container, if any
  porParar,           \* whether that generator is still to be told to stop
  huerfanas           \* generators replaced in m_appc before they were told

agendaVars == <<ahora, agenda, proximoUid>>

idsVars == <<m_proximallamada, m_llamadaactual, m_cuelga>>

traficoVars == <<m_AppOnOff, m_appc, porParar, huerfanas>>

vars == <<agendaVars, centralVars, fase, m_ocupado, m_duracion, idsVars,
          traficoVars>>

(***************************************************************************)
(* m_appc names no telephone while the container is empty; it keeps its    *)
(* generator after a hang-up.  porParar and huerfanas are the history of   *)
(* the calls of Stop and no handler reads them.  What Start and Stop make  *)
(* of a generator is in Generadores: being told to stop does not end it.   *)
(***************************************************************************)
Nadie == N

Init ==
  /\ ahora = 0
  /\ agenda = {}
  /\ proximoUid = 1
  /\ CentralInit
  /\ fase = "registro"
  /\ m_ocupado = [n \in Telefonos |-> FALSE]
  /\ m_duracion = [n \in Telefonos |-> 0]
  /\ m_proximallamada = [n \in Telefonos |-> 0]
  /\ m_llamadaactual = [n \in Telefonos |-> 0]
  /\ m_cuelga = [n \in Telefonos |-> 0]
  /\ m_AppOnOff = [n \in Telefonos |-> FALSE]
  /\ m_appc = [n \in Telefonos |-> Nadie]
  /\ porParar = [n \in Telefonos |-> FALSE]
  /\ huerfanas = [n \in Telefonos |-> 0]

-----------------------------------------------------------------------------
(***************************************************************************)
(* Before the run: simular builds the telephones.                          *)
(***************************************************************************)

\* Fault: the loop that builds the telephones runs once too often.
FaltanUnoDeMas == registrados <= N

(***************************************************************************)
(* The loops over telef1 and telef2 have telephones left to build.         *)
(***************************************************************************)
FaltanTelefonos == registrados < N

(***************************************************************************)
(* The constructor registers the telephone; SetStartTime makes its         *)
(* StartApplication due at TInicio.                                        *)
(***************************************************************************)
Construye ==
  /\ fase = "registro"
  /\ FaltanTelefonos
  /\ Registrar
  /\ agenda' = agenda \cup
       {Evento(TInicio, proximoUid, "StartApplication", registrados)}
  /\ proximoUid' = proximoUid + 1
  /\ UNCHANGED <<ahora, llamadas, maxLlamadas, fase, m_ocupado, m_duracion,
                 idsVars, traficoVars>>

(***************************************************************************)
(* Simulator::Run, once every telephone exists.                            *)
(***************************************************************************)
Run ==
  /\ fase = "registro"
  /\ registrados = N
  /\ fase' = "corriendo"
  /\ UNCHANGED <<agendaVars, centralVars, m_ocupado, m_duracion, idsVars,
                 traficoVars>>

(***************************************************************************)
(* Simulator::Stop was scheduled before the run, so its event precedes     *)
(* every other event of instant TStop: only earlier events are dispatched. *)
(* StopApplication, due at that instant too, is not reached.               *)
(***************************************************************************)
Despacha(e) ==
  /\ fase = "corriendo"
  /\ Primero(e, agenda)
  /\ e.ts < TStop
  /\ ahora' = e.ts
  /\ UNCHANGED <<registrados, fase>>

\* Fault: the stop event does not end the run.
StopSinEfecto ==
  /\ fase = "corriendo"
  /\ \A e \in agenda : e.ts >= TStop
  /\ ahora' = TStop
  /\ UNCHANGED <<fase, agenda, proximoUid, centralVars, m_ocupado, m_duracion,
                 idsVars, traficoVars>>

Stop ==
  /\ fase = "corriendo"
  /\ \A e \in agenda : e.ts >= TStop
  /\ fase' = "parado"
  /\ ahora' = TStop
  /\ UNCHANGED <<agenda, proximoUid, centralVars, m_ocupado, m_duracion,
                 idsVars, traficoVars>>

-----------------------------------------------------------------------------
(***************************************************************************)
(* The handlers.                                                           *)
(***************************************************************************)

\* Fault: the next call is planned with ScheduleNow.
ProgramaAhora(e) ==
  /\ agenda' = (agenda \ {e}) \cup {Evento(e.ts, proximoUid, "Llama", e.tel)}
  /\ m_proximallamada' = [m_proximallamada EXCEPT ![e.tel] = proximoUid]
  /\ proximoUid' = proximoUid + 1

\* Fault: the id of the planned call is not kept.
ProgramaSinGuardarId(e) ==
  \E espera \in Esperas :
    /\ agenda' = (agenda \ {e}) \cup
         {Evento(e.ts + espera, proximoUid, "Llama", e.tel)}
    /\ UNCHANGED m_proximallamada
    /\ proximoUid' = proximoUid + 1

(***************************************************************************)
(* ProgramaLlamada, from the handler of event e: one Llama more, whose id  *)
(* replaces the one m_proximallamada held.                                 *)
(***************************************************************************)
ProgramaLlamada(e) ==
  \E espera \in Esperas :
    /\ agenda' = (agenda \ {e}) \cup
         {Evento(e.ts + espera, proximoUid, "Llama", e.tel)}
    /\ m_proximallamada' = [m_proximallamada EXCEPT ![e.tel] = proximoUid]
    /\ proximoUid' = proximoUid + 1

StartApplication(e) ==
  /\ e.fn = "StartApplication"
  /\ Despacha(e)
  /\ ProgramaLlamada(e)
  /\ UNCHANGED <<llamadas, maxLlamadas, m_ocupado, m_duracion,
                 m_llamadaactual, m_cuelga, traficoVars>>

(***************************************************************************)
(* A new helper and a new generator towards "destino" replace the ones     *)
(* telephone n had; one that was not told to stop can no longer be told.   *)
(***************************************************************************)
Transmite(n, destino) ==
  /\ m_AppOnOff' = [m_AppOnOff EXCEPT ![n] = TRUE]
  /\ m_appc' = [m_appc EXCEPT ![n] = destino]
  /\ porParar' = [porParar EXCEPT ![n] = TRUE]
  /\ huerfanas' = [huerfanas EXCEPT ![n] = IF porParar[n] THEN @ + 1 ELSE @]

(***************************************************************************)
(* Llama until the switchboard answers: the telephone marks itself busy,   *)
(* forgets which event was pending and draws the duration.                 *)
(***************************************************************************)
Marca(n, duracion) ==
  /\ m_ocupado' = [m_ocupado EXCEPT ![n] = TRUE]
  /\ m_llamadaactual' = [m_llamadaactual EXCEPT ![n] = m_proximallamada[n]]
  /\ m_duracion' = [m_duracion EXCEPT ![n] = duracion]

(***************************************************************************)
(* Llama, number busy: try again later.  m_ocupado stays set.              *)
(***************************************************************************)
LlamaOcupado(e) ==
  /\ e.fn = "Llama"
  /\ Despacha(e)
  /\ \E duracion \in Duraciones : Marca(e.tel, duracion)
  /\ \E llamado \in Telefonos : ~Libre(llamado)
  /\ ProgramaLlamada(e)
  /\ UNCHANGED <<llamadas, maxLlamadas, m_cuelga, traficoVars>>

\* Fault: the caller's hang-up is scheduled before the switchboard's.
CuelgaAntesQueColgar(e, llamado, duracion) ==
  {Evento(e.ts + duracion, proximoUid, "Cuelga", e.tel),
   EventoCon(e.ts, proximoUid + 1, "Descuelga", llamado, e.tel, duracion),
   ColgarProgramado(e.ts, proximoUid + 2, e.tel, duracion)}

\* Fault: the switchboard's hang-up names the callee.
ColgarAlLlamado(e, llamado, duracion) ==
  {ColgarProgramado(e.ts, proximoUid, llamado, duracion),
   EventoCon(e.ts, proximoUid + 1, "Descuelga", llamado, e.tel, duracion),
   Evento(e.ts + duracion, proximoUid + 2, "Cuelga", e.tel)}

\* Fault: the caller hangs up a tick after the switchboard.
CuelgaMasTarde(e, llamado, duracion) ==
  {ColgarProgramado(e.ts, proximoUid, e.tel, duracion),
   EventoCon(e.ts, proximoUid + 1, "Descuelga", llamado, e.tel, duracion),
   Evento(e.ts + duracion + 1, proximoUid + 2, "Cuelga", e.tel)}

(***************************************************************************)
(* The three events of a granted call, in the order they are scheduled:    *)
(* the switchboard's hang-up, the ringing of the callee at this very       *)
(* instant, and the caller's own hang-up.                                  *)
(***************************************************************************)
LlamadaProgramada(e, llamado, duracion) ==
  {ColgarProgramado(e.ts, proximoUid, e.tel, duracion),
   EventoCon(e.ts, proximoUid + 1, "Descuelga", llamado, e.tel, duracion),
   Evento(e.ts + duracion, proximoUid + 2, "Cuelga", e.tel)}

(***************************************************************************)
(* Llama, number free.  Nothing excludes the caller's own number.          *)
(***************************************************************************)
LlamaLibre(e) ==
  /\ e.fn = "Llama"
  /\ Despacha(e)
  /\ \E duracion \in Duraciones, llamado \in Telefonos :
       /\ Libre(llamado)
       /\ Marca(e.tel, duracion)
       /\ Llamar(e.tel, llamado)
       /\ agenda' = (agenda \ {e}) \cup LlamadaProgramada(e, llamado, duracion)
       /\ Transmite(e.tel, llamado)
  /\ m_cuelga' = [m_cuelga EXCEPT ![e.tel] = proximoUid + 2]
  /\ proximoUid' = proximoUid + 3
  /\ UNCHANGED m_proximallamada

\* Fault: the callee cancels its attempt and plans no hang-up.
DescuelgaSinCuelga(e) ==
  /\ e.fn = "Descuelga"
  /\ Despacha(e)
  /\ agenda' = Cancelado(agenda \ {e}, m_proximallamada[e.tel])
  /\ Transmite(e.tel, e.de)
  /\ UNCHANGED <<proximoUid, llamadas, maxLlamadas, m_ocupado, m_duracion,
                 idsVars>>

(***************************************************************************)
(* The callee answers: it gives up the call it had planned, transmits back *)
(* and plans its hang-up after its own m_duracion, not after the duration  *)
(* it was told.  It does not mark itself busy.                             *)
(***************************************************************************)
Descuelga(e) ==
  /\ e.fn = "Descuelga"
  /\ Despacha(e)
  /\ agenda' = Cancelado(agenda \ {e}, m_proximallamada[e.tel]) \cup
       {Evento(e.ts + m_duracion[e.tel], proximoUid, "Cuelga", e.tel)}
  /\ m_llamadaactual' = [m_llamadaactual EXCEPT ![e.tel] = proximoUid]
  /\ proximoUid' = proximoUid + 1
  /\ Transmite(e.tel, e.de)
  /\ UNCHANGED <<llamadas, maxLlamadas, m_ocupado, m_duracion,
                 m_proximallamada, m_cuelga>>

\* Fault: the helper pointer is not reset after the delete.
BorraSinAnular(n) == UNCHANGED m_AppOnOff

(***************************************************************************)
(* The helper is deleted and its pointer reset.                            *)
(***************************************************************************)
BorraHelper(n) == m_AppOnOff' = [m_AppOnOff EXCEPT ![n] = FALSE]

(***************************************************************************)
(* The telephone hangs up: it tells the generator in the container to      *)
(* stop, plans its next call and deletes the helper.                       *)
(***************************************************************************)
Cuelga(e) ==
  /\ e.fn = "Cuelga"
  /\ Despacha(e)
  /\ porParar' = [porParar EXCEPT ![e.tel] = FALSE]
  /\ m_ocupado' = [m_ocupado EXCEPT ![e.tel] = FALSE]
  /\ ProgramaLlamada(e)
  /\ BorraHelper(e.tel)
  /\ UNCHANGED <<llamadas, maxLlamadas, m_duracion, m_llamadaactual, m_cuelga,
                 m_appc, huerfanas>>

(***************************************************************************)
(* The switchboard forgets the caller's call.                              *)
(***************************************************************************)
Colgar(e) ==
  /\ e.fn = "colgar"
  /\ Despacha(e)
  /\ agenda' = agenda \ {e}
  /\ llamadas' = Borrada(e.tel)
  /\ UNCHANGED <<proximoUid, maxLlamadas, m_ocupado, m_duracion, idsVars,
                 traficoVars>>

(***************************************************************************)
(* simular goes on to read the observer; no handler runs any more.         *)
(***************************************************************************)
Parado == fase = "parado" /\ UNCHANGED vars

Maneja(e) ==
  \/ StartApplication(e)
  \/ LlamaOcupado(e)
  \/ LlamaLibre(e)
  \/ Descuelga(e)
  \/ Cuelga(e)
  \/ Colgar(e)

Next ==
  \/ Construye
  \/ Run
  \/ \E e \in agenda : Maneja(e)
  \/ Stop
  \/ Parado

Spec == Init /\ [][Next]_vars

(***************************************************************************)
(* Simulator::Run dispatches events until it stops, so the program never   *)
(* rests while a step is possible.                                         *)
(***************************************************************************)
FairSpec == Spec /\ WF_vars(Next)

-----------------------------------------------------------------------------
(***************************************************************************)
(* Properties.                                                             *)
(***************************************************************************)

TypeOK ==
  /\ ahora \in Nat
  /\ agenda \in SUBSET Eventos
  /\ proximoUid \in Nat
  /\ registrados \in 0 .. N
  /\ DOMAIN llamadas \subseteq Telefonos
  /\ llamadas \in [DOMAIN llamadas -> Telefonos]
  /\ maxLlamadas \in Nat
  /\ fase \in {"registro", "corriendo", "parado"}
  /\ m_ocupado \in [Telefonos -> BOOLEAN]
  /\ m_duracion \in [Telefonos -> Nat]
  /\ m_proximallamada \in [Telefonos -> Nat]
  /\ m_llamadaactual \in [Telefonos -> Nat]
  /\ m_cuelga \in [Telefonos -> Nat]
  /\ m_AppOnOff \in [Telefonos -> BOOLEAN]
  /\ m_appc \in [Telefonos -> Telefonos \cup {Nadie}]
  /\ porParar \in [Telefonos -> BOOLEAN]
  /\ huerfanas \in [Telefonos -> Nat]

(***************************************************************************)
(* The chains of activity of telephone n.                                  *)
(***************************************************************************)
Hilos(n) == Pendientes(agenda, "Llama", n) \cup Pendientes(agenda, "Cuelga", n)

(***************************************************************************)
(* A call the switchboard holds as in progress has its hang-up planned, so *)
(* a number is never busy for good (Central::llamar, Central::colgar).     *)
(***************************************************************************)
LlamadaConColgar ==
  \A n \in DOMAIN llamadas : Pendientes(agenda, "colgar", n) # {}

(***************************************************************************)
(* The switchboard and the caller end a call at the same instant, the      *)
(* switchboard first, whatever other calls the two take part in.           *)
(***************************************************************************)
CuelganALaVez ==
  \A c \in agenda : c.fn = "colgar" =>
    \E e \in Pendientes(agenda, "Cuelga", c.tel) :
      e.ts = c.ts /\ c.uid < e.uid

(***************************************************************************)
(* No telephone goes dead: once registered it always has its start, a call *)
(* attempt or a hang-up pending, although Descuelga cancels attempts.      *)
(***************************************************************************)
SiempreActivo ==
  \A n \in Telefonos : n < registrados =>
    Hilos(n) \cup Pendientes(agenda, "StartApplication", n) # {}

(***************************************************************************)
(* A telephone with no hang-up pending has deleted its helper and called   *)
(* Stop on the generator in its container, so its next call leaks neither. *)
(***************************************************************************)
OciosoSinHelper ==
  \A n \in Telefonos : Pendientes(agenda, "Cuelga", n) = {} =>
    ~m_AppOnOff[n] /\ ~porParar[n]

(***************************************************************************)
(* While a telephone has one chain its fields agree with it and with the   *)
(* switchboard: the pending attempt is the one m_proximallamada can        *)
(* cancel and no call is held for it; a pending hang-up is known to it,    *)
(* and a call the switchboard holds is the one it transmits.  (A second    *)
(* chain, which overlapping calls create, breaks each of these.)           *)
(***************************************************************************)
CoherenteConUnHilo ==
  \A n \in Telefonos : Cardinality(Hilos(n)) = 1 =>
    /\ huerfanas[n] = 0
    /\ \A e \in Pendientes(agenda, "Llama", n) :
         m_proximallamada[n] = e.uid /\ n \notin DOMAIN llamadas
    /\ \A e \in Pendientes(agenda, "Cuelga", n) :
         /\ e.uid \in {m_cuelga[n], m_llamadaactual[n]}
         /\ m_AppOnOff[n]
         /\ n \in DOMAIN llamadas =>
              e.uid = m_cuelga[n] /\ m_appc[n] = llamadas[n] /\ m_ocupado[n]

(***************************************************************************)
(* Between the switchboard's end of a call and the caller's nobody dials:  *)
(* the two are different events of one instant, and a number freed by the  *)
(* first would be called while its telephone is still transmitting.        *)
(***************************************************************************)
SinMarcadoEntreColgadas ==
  [][\A n \in Telefonos :
       n \in DOMAIN llamadas /\ n \notin DOMAIN llamadas' =>
         \A e \in agenda' : Primero(e, agenda') => e.fn # "Llama"]_vars

(***************************************************************************)
(* The telephones keep the promise of Terminales: a chain is never lost    *)
(* and a step adds at most one, to one telephone.                          *)
(***************************************************************************)
T == INSTANCE Terminales WITH
       Terminal <- Telefonos,
       hilos <- [n \in Telefonos |-> Cardinality(Hilos(n))]

CumpleTerminales == T!Spec

(***************************************************************************)
(* What is left of the present instant.  An attempt is worth the five      *)
(* events it may become without the clock moving, when the call lasts zero *)
(* ticks: itself, the switchboard's end, the ringing of the callee, whose  *)
(* own hang-up may follow at once, and the caller's hang-up.               *)
(***************************************************************************)
DeAhora(f) == {e \in agenda : e.fn = f /\ e.ts = ahora}

Carga ==
  5 * Cardinality(DeAhora("Llama")) + 2 * Cardinality(DeAhora("Descuelga"))
  + Cardinality(DeAhora("colgar")) + Cardinality(DeAhora("Cuelga"))
  + Cardinality(DeAhora("StartApplication"))

\* An attempt has been planned for this very instant.
SinEspera ==
  0 \in Esperas /\ \E e \in agenda' \ agenda : e.fn = "Llama" /\ e.ts = ahora'

(***************************************************************************)
(* The run cannot stay in one instant: telephones that call each other,    *)
(* themselves or a busy number use up what is left of it, and the clock    *)
(* only goes forward.  Only a time between calls of zero ticks adds to an  *)
(* instant, the one draw that may.                                         *)
(***************************************************************************)
CadaEventoAcerca ==
  [][fase = "corriendo" =>
       \/ fase' = "parado"
       \/ ahora < ahora' /\ ahora' < TStop
       \/ ahora' = ahora /\ (Carga' < Carga \/ SinEspera)]_vars

(***************************************************************************)
(* The run ends: instants do not repeat for ever.                          *)
(***************************************************************************)
Termina == <>(fase = "parado")

-----------------------------------------------------------------------------
(***************************************************************************)
(* What the comments of the code promise and the code does not do.         *)
(***************************************************************************)

(***************************************************************************)
(* Central.h: when a telephone calls, whom it is talking to is stored and  *)
(* both are set as busy.  A telephone in a call is then not called, so it  *)
(* gets no second chain, and every call the switchboard grants (its callee *)
(* is made to answer) is one of those it holds and counts for the observer.*)
(***************************************************************************)
LlamadaAlmacenada ==
  [][\A d \in agenda' \ agenda : d.fn = "Descuelga" =>
       d.de \in DOMAIN llamadas' /\ llamadas'[d.de] = d.tel]_vars

(***************************************************************************)
(* voip.h: Descuelga plans Cuelga after the duration it is given.          *)
(***************************************************************************)
CuelgaEnDuracion ==
  [][\A e \in agenda \ agenda' : e.fn = "Descuelga" =>
       \E c \in Pendientes(agenda', "Cuelga", e.tel) : c.ts = e.ts + e.dur]_vars
=============================================================================
