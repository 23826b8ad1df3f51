-------------------------- MODULE TelefoniaProofs ---------------------------
(***************************************************************************)
(* Theorems about Telefonia, for any number of telephones, any times       *)
(* between calls, any durations (zero included) and any end of the run.    *)
(***************************************************************************)
EXTENDS Telefonia, FiniteSetTheorems, TLAPS

(***************************************************************************)
(* An event put on the list has the fields it was given.                   *)
(***************************************************************************)
LEMMA EventoBienFormado ==
  ASSUME NEW ts \in Nat, NEW u \in Nat, NEW f \in Funciones,
         NEW tel \in Telefonos, NEW de \in Telefonos, NEW dur \in Nat
  PROVE  /\ EventoCon(ts, u, f, tel, de, dur) \in Eventos
         /\ Evento(ts, u, f, tel) \in Eventos
  BY SMT DEF Eventos, EventoCon, Evento

(***************************************************************************)
(* The fields of an event of the list.                                     *)
(***************************************************************************)
LEMMA CamposDeEvento ==
  ASSUME NEW e \in Eventos
  PROVE  /\ e.ts \in Nat /\ e.uid \in Nat /\ e.fn \in Funciones
         /\ e.tel \in Telefonos /\ e.de \in Telefonos /\ e.dur \in Nat
  BY SMT DEF Eventos

(***************************************************************************)
(* The three events of a granted call are events.                          *)
(***************************************************************************)
LEMMA LlamadaProgramadaTipo ==
  ASSUME proximoUid \in Nat, NEW e \in Eventos, NEW llamado \in Telefonos,
         NEW duracion \in Nat
  PROVE  LlamadaProgramada(e, llamado, duracion) \subseteq Eventos
<1>1. /\ e.ts \in Nat /\ e.tel \in Telefonos /\ e.ts + duracion \in Nat
      /\ proximoUid + 1 \in Nat /\ proximoUid + 2 \in Nat
      /\ {"colgar", "Descuelga", "Cuelga"} \subseteq Funciones
  BY CamposDeEvento DEF Funciones
<1>2. ColgarProgramado(e.ts, proximoUid, e.tel, duracion) \in Eventos
  BY <1>1, EventoBienFormado DEF ColgarProgramado
<1>3. EventoCon(e.ts, proximoUid + 1, "Descuelga", llamado, e.tel, duracion)
        \in Eventos
  BY <1>1, EventoBienFormado
<1>4. Evento(e.ts + duracion, proximoUid + 2, "Cuelga", e.tel) \in Eventos
  BY <1>1, EventoBienFormado
<1> QED
  BY <1>2, <1>3, <1>4 DEF LlamadaProgramada

(***************************************************************************)
(* The number of calls of any registry of calls between telephones.        *)
(***************************************************************************)
LEMMA NumLlamadasEsNat ==
  ASSUME NEW m, DOMAIN m \subseteq Telefonos
  PROVE  IsFiniteSet(DOMAIN m) /\ GetNumLlamadas(m) \in Nat
<1>1. IsFiniteSet(Telefonos)
  BY FS_Interval, NAssumption DEF Telefonos
<1>2. IsFiniteSet(DOMAIN m)
  BY <1>1, FS_Subset
<1> QED
  BY <1>2, FS_CardinalityType DEF GetNumLlamadas

(***************************************************************************)
(* Planning a call keeps the types of what it writes.                      *)
(***************************************************************************)
LEMMA ProgramaLlamadaTipo ==
  ASSUME TypeOK, NEW e \in agenda, ProgramaLlamada(e)
  PROVE  /\ agenda' \in SUBSET Eventos
         /\ proximoUid' \in Nat
         /\ m_proximallamada' \in [Telefonos -> Nat]
<1>1. e \in Eventos
  BY DEF TypeOK
<1>2. PICK espera \in Esperas :
        /\ agenda' = (agenda \ {e}) \cup
             {Evento(e.ts + espera, proximoUid, "Llama", e.tel)}
        /\ m_proximallamada' = [m_proximallamada EXCEPT ![e.tel] = proximoUid]
        /\ proximoUid' = proximoUid + 1
  BY DEF ProgramaLlamada
<1>3. espera \in Nat /\ e.ts + espera \in Nat
  BY <1>1, CamposDeEvento, TiemposAssumption
<1>4. Evento(e.ts + espera, proximoUid, "Llama", e.tel) \in Eventos
  BY <1>1, <1>3, CamposDeEvento, EventoBienFormado DEF TypeOK, Funciones
<1> QED
  BY <1>1, <1>2, <1>4, CamposDeEvento DEF TypeOK

(***************************************************************************)
(* Starting to transmit keeps the types of what it writes.                 *)
(***************************************************************************)
LEMMA TransmiteTipo ==
  ASSUME TypeOK, NEW n \in Telefonos, NEW d \in Telefonos, Transmite(n, d)
  PROVE  /\ m_AppOnOff' \in [Telefonos -> BOOLEAN]
         /\ m_appc' \in [Telefonos -> Telefonos \cup {Nadie}]
         /\ porParar' \in [Telefonos -> BOOLEAN]
         /\ huerfanas' \in [Telefonos -> Nat]
<1>1. m_AppOnOff' \in [Telefonos -> BOOLEAN]
  BY DEF TypeOK, Transmite
<1>2. m_appc' \in [Telefonos -> Telefonos \cup {Nadie}]
  BY DEF TypeOK, Transmite
<1>3. huerfanas' \in [Telefonos -> Nat]
  BY DEF TypeOK, Transmite
<1>4. porParar' \in [Telefonos -> BOOLEAN]
  BY DEF TypeOK, Transmite
<1> QED
  BY <1>1, <1>2, <1>3, <1>4

-----------------------------------------------------------------------------
(***************************************************************************)
(* Type correctness.                                                       *)
(***************************************************************************)

(***************************************************************************)
(* The types hold at the start.                                            *)
(***************************************************************************)
LEMMA InitTipo == Init => TypeOK
  BY NAssumption, TiemposAssumption
     DEF Init, TypeOK, CentralInit, Telefonos, Nadie

(***************************************************************************)
(* Every step of the run keeps the types.                                  *)
(***************************************************************************)
LEMMA NextTipo == TypeOK /\ [Next]_vars => TypeOK'
<1> SUFFICES ASSUME TypeOK, [Next]_vars
             PROVE  TypeOK'
  OBVIOUS
<1>1. CASE Construye
  <2>1. registrados \in Telefonos /\ registrados' \in 0 .. N
    BY <1>1, NAssumption DEF Construye, FaltanTelefonos, Registrar, TypeOK, Telefonos
  <2>2. Evento(TInicio, proximoUid, "StartApplication", registrados) \in Eventos
    BY <2>1, TiemposAssumption, EventoBienFormado DEF TypeOK, Funciones
  <2>3. agenda' \in SUBSET Eventos /\ proximoUid' \in Nat
    BY <1>1, <2>2 DEF Construye, TypeOK
  <2> QED
    BY <1>1, <2>1, <2>3 DEF Construye, TypeOK, idsVars, traficoVars
<1>2. CASE Run
  BY <1>2 DEF Run, TypeOK, agendaVars, centralVars, idsVars, traficoVars
<1>3. CASE Stop
  BY <1>3, TiemposAssumption
     DEF Stop, TypeOK, centralVars, idsVars, traficoVars
<1>4. CASE Parado \/ UNCHANGED vars
  BY <1>4
     DEF Parado, TypeOK, vars, agendaVars, centralVars, idsVars, traficoVars
<1>5. ASSUME NEW e \in agenda, Maneja(e)
      PROVE  TypeOK'
  <2>0. /\ e \in Eventos
        /\ e.ts \in Nat /\ e.tel \in Telefonos /\ e.de \in Telefonos
    BY CamposDeEvento DEF TypeOK
  <2> DEFINE DespachaTipo == /\ ahora' \in Nat
                             /\ registrados' \in 0 .. N
                             /\ fase' \in {"registro", "corriendo", "parado"}
  <2>1. Despacha(e) => DespachaTipo
    BY <2>0 DEF Despacha, TypeOK
  <2> HIDE DEF DespachaTipo
  <2>2. CASE StartApplication(e)
    <3>1. ProgramaLlamada(e) /\ DespachaTipo
      BY <2>1, <2>2 DEF StartApplication
    <3> QED
      BY <2>2, <3>1, ProgramaLlamadaTipo
         DEF StartApplication, TypeOK, traficoVars, DespachaTipo
  <2>3. CASE LlamaOcupado(e)
    <3>1. ProgramaLlamada(e) /\ DespachaTipo
      BY <2>1, <2>3 DEF LlamaOcupado
    <3>2. PICK duracion \in Duraciones : Marca(e.tel, duracion)
      BY <2>3 DEF LlamaOcupado
    <3>3. /\ m_ocupado' \in [Telefonos -> BOOLEAN]
          /\ m_llamadaactual' \in [Telefonos -> Nat]
          /\ m_duracion' \in [Telefonos -> Nat]
      BY <2>0, <3>2, TiemposAssumption DEF Marca, TypeOK
    <3> QED
      BY <2>3, <3>1, <3>3, ProgramaLlamadaTipo
         DEF LlamaOcupado, TypeOK, traficoVars, DespachaTipo
  <2>4. CASE LlamaLibre(e)
    <3>1. PICK duracion \in Duraciones, llamado \in Telefonos :
            /\ Marca(e.tel, duracion)
            /\ Llamar(e.tel, llamado)
            /\ agenda' = (agenda \ {e}) \cup
                           LlamadaProgramada(e, llamado, duracion)
            /\ Transmite(e.tel, llamado)
      BY <2>4 DEF LlamaLibre
    <3>2. duracion \in Nat
      BY TiemposAssumption
    <3>3. agenda' \in SUBSET Eventos
      <4>1. LlamadaProgramada(e, llamado, duracion) \subseteq Eventos
        BY <2>0, <3>2, LlamadaProgramadaTipo DEF TypeOK
      <4> QED
        BY <3>1, <4>1 DEF TypeOK
    <3>4. /\ m_ocupado' \in [Telefonos -> BOOLEAN]
          /\ m_llamadaactual' \in [Telefonos -> Nat]
          /\ m_duracion' \in [Telefonos -> Nat]
      BY <2>0, <3>1, <3>2 DEF Marca, TypeOK
    <3>5. /\ DOMAIN llamadas' \subseteq Telefonos
          /\ llamadas' \in [DOMAIN llamadas' -> Telefonos]
      BY <2>0, <3>1 DEF Llamar, Insertada, TypeOK
    <3>6. maxLlamadas' \in Nat
      BY <3>1, <3>5, NumLlamadasEsNat
         DEF Llamar, ActualizarNumLlamadas, GetNumLlamadas, TypeOK
    <3>7. /\ m_cuelga' \in [Telefonos -> Nat]
          /\ proximoUid' \in Nat
          /\ m_proximallamada' \in [Telefonos -> Nat]
      BY <2>0, <2>4 DEF LlamaLibre, TypeOK
    <3>8. DespachaTipo
      BY <2>1, <2>4 DEF LlamaLibre
    <3> QED
      BY <2>0, <3>1, <3>3, <3>4, <3>5, <3>6, <3>7, <3>8, TransmiteTipo
         DEF TypeOK, DespachaTipo
  <2>5. CASE Descuelga(e)
    <3>1. DespachaTipo /\ Transmite(e.tel, e.de)
      BY <2>1, <2>5 DEF Descuelga
    <3>2. agenda' \in SUBSET Eventos
      <4>1. e.ts + m_duracion[e.tel] \in Nat
        BY <2>0 DEF TypeOK
      <4>2. Evento(e.ts + m_duracion[e.tel], proximoUid, "Cuelga", e.tel)
              \in Eventos
        BY <2>0, <4>1, EventoBienFormado DEF TypeOK, Funciones
      <4> QED
        BY <2>5, <4>2 DEF Descuelga, Cancelado, TypeOK
    <3>3. m_llamadaactual' \in [Telefonos -> Nat] /\ proximoUid' \in Nat
      BY <2>0, <2>5 DEF Descuelga, TypeOK
    <3> QED
      BY <2>0, <2>5, <3>1, <3>2, <3>3, TransmiteTipo
         DEF Descuelga, TypeOK, DespachaTipo
  <2>6. CASE Cuelga(e)
    <3>1. ProgramaLlamada(e) /\ DespachaTipo
      BY <2>1, <2>6 DEF Cuelga
    <3>2. /\ porParar' \in [Telefonos -> BOOLEAN]
          /\ m_ocupado' \in [Telefonos -> BOOLEAN]
          /\ m_AppOnOff' \in [Telefonos -> BOOLEAN]
      BY <2>0, <2>6 DEF Cuelga, BorraHelper, TypeOK
    <3> QED
      BY <2>6, <3>1, <3>2, ProgramaLlamadaTipo DEF Cuelga, TypeOK, DespachaTipo
  <2>7. CASE Colgar(e)
    <3>1. DespachaTipo
      BY <2>1, <2>7 DEF Colgar
    <3>2. /\ DOMAIN llamadas' \subseteq Telefonos
          /\ llamadas' \in [DOMAIN llamadas' -> Telefonos]
      BY <2>7 DEF Colgar, Borrada, TypeOK
    <3> QED
      BY <2>7, <3>1, <3>2
         DEF Colgar, TypeOK, idsVars, traficoVars, DespachaTipo
  <2> QED
    BY <1>5, <2>2, <2>3, <2>4, <2>5, <2>6, <2>7 DEF Maneja
<1> QED
  BY <1>1, <1>2, <1>3, <1>4, <1>5 DEF Next

(***************************************************************************)
(* The state of the telephones, the switchboard and the event list keeps   *)
(* its types through every run.                                            *)
(***************************************************************************)
THEOREM TypeCorrect == Spec => []TypeOK
  BY InitTipo, NextTipo, PTL DEF Spec

-----------------------------------------------------------------------------
(***************************************************************************)
(* Safety.  None of the properties below is inductive by itself: Descuelga *)
(* cancels whatever event has the uid that m_proximallamada holds, which   *)
(* may have run long ago.  IdsOK says that this uid is never that of an    *)
(* event of another kind or another telephone.                             *)
(***************************************************************************)

IdsOK ==
  /\ \A e \in agenda : e.uid < proximoUid
  /\ \A n \in Telefonos : m_proximallamada[n] < proximoUid
  /\ \A n \in Telefonos : \A e \in agenda :
       e.uid = m_proximallamada[n] => e.fn = "Llama" /\ e.tel = n

SafetyInv ==
  /\ TypeOK
  /\ IdsOK
  /\ LlamadaConColgar
  /\ CuelganALaVez
  /\ SiempreActivo
  /\ OciosoSinHelper

(***************************************************************************)
(* A handler takes only its own event and the attempts of its telephone    *)
(* off the list.                                                           *)
(***************************************************************************)
LEMMA Quedan ==
  ASSUME TypeOK, IdsOK, NEW e \in agenda, Maneja(e),
         NEW f \in agenda \ {e}, f.fn # "Llama" \/ f.tel # e.tel
  PROVE  f \in agenda'
<1>0. e \in Eventos /\ e.tel \in Telefonos
  BY CamposDeEvento DEF TypeOK
<1>1. CASE StartApplication(e)
  BY <1>1 DEF StartApplication, ProgramaLlamada
<1>2. CASE LlamaOcupado(e)
  BY <1>2 DEF LlamaOcupado, ProgramaLlamada
<1>3. CASE LlamaLibre(e)
  BY <1>3 DEF LlamaLibre
<1>4. CASE Descuelga(e)
  <2>1. f.uid # m_proximallamada[e.tel]
    BY <1>0 DEF IdsOK
  <2> QED
    BY <1>4, <2>1 DEF Descuelga, Cancelado
<1>5. CASE Cuelga(e)
  BY <1>5 DEF Cuelga, ProgramaLlamada
<1>6. CASE Colgar(e)
  BY <1>6 DEF Colgar
<1> QED
  BY <1>1, <1>2, <1>3, <1>4, <1>5, <1>6 DEF Maneja

(***************************************************************************)
(* The events a handler leaves pending: old ones, or new ones with new     *)
(* uids and the fields the handler gave them.                              *)
(***************************************************************************)
LEMMA CamposNuevos ==
  ASSUME NEW ts, NEW u, NEW f, NEW tel, NEW de, NEW dur
  PROVE  LET a == EventoCon(ts, u, f, tel, de, dur)
             b == Evento(ts, u, f, tel)
         IN  /\ a.ts = ts /\ a.uid = u /\ a.fn = f /\ a.tel = tel
             /\ b.ts = ts /\ b.uid = u /\ b.fn = f /\ b.tel = tel
  BY DEF EventoCon, Evento

(***************************************************************************)
(* The invariant holds before the run.                                     *)
(***************************************************************************)
LEMMA InitSafety == Init => SafetyInv
<1> SUFFICES ASSUME Init PROVE SafetyInv
  OBVIOUS
<1>1. TypeOK
  BY InitTipo
<1>2. IdsOK
  BY DEF Init, IdsOK
<1>3. LlamadaConColgar /\ CuelganALaVez
  BY DEF Init, CentralInit, LlamadaConColgar, CuelganALaVez
<1>4. SiempreActivo
  BY DEF Init, CentralInit, SiempreActivo, Telefonos
<1>5. OciosoSinHelper
  BY DEF Init, OciosoSinHelper
<1> QED
  BY <1>1, <1>2, <1>3, <1>4, <1>5 DEF SafetyInv

(***************************************************************************)
(* Planning a call: what ProgramaLlamada adds.                             *)
(***************************************************************************)
LEMMA ProgramaLlamadaIds ==
  ASSUME TypeOK, IdsOK, NEW e \in agenda, ProgramaLlamada(e)
  PROVE  /\ IdsOK'
         /\ \E g \in agenda' : g.fn = "Llama" /\ g.tel = e.tel
         /\ \A g \in agenda' : g \in agenda \ {e} \/ g.fn = "Llama"
<1>0. e \in Eventos /\ e.tel \in Telefonos
  BY CamposDeEvento DEF TypeOK
<1>1. PICK espera \in Esperas :
        /\ agenda' = (agenda \ {e}) \cup
             {Evento(e.ts + espera, proximoUid, "Llama", e.tel)}
        /\ m_proximallamada' = [m_proximallamada EXCEPT ![e.tel] = proximoUid]
        /\ proximoUid' = proximoUid + 1
  BY DEF ProgramaLlamada
<1> DEFINE x == Evento(e.ts + espera, proximoUid, "Llama", e.tel)
<1>2. x.uid = proximoUid /\ x.fn = "Llama" /\ x.tel = e.tel
  BY CamposNuevos
<1>3. agenda' = (agenda \ {e}) \cup {x}
  BY <1>1
<1> HIDE DEF x
<1>4. proximoUid \in Nat /\ \A f \in agenda : f.uid \in Nat /\ f.uid < proximoUid
  BY CamposDeEvento DEF TypeOK, IdsOK
<1>5. \A f \in agenda' : f.uid < proximoUid'
  BY <1>1, <1>2, <1>3, <1>4
<1>6. ASSUME NEW n \in Telefonos
      PROVE  /\ m_proximallamada'[n] < proximoUid'
             /\ \A f \in agenda' : f.uid = m_proximallamada'[n] =>
                                    f.fn = "Llama" /\ f.tel = n
  <2>1. CASE n = e.tel
    <3>1. m_proximallamada'[n] = proximoUid
      BY <1>0, <1>1, <2>1 DEF TypeOK
    <3> QED
      BY <1>1, <1>2, <1>3, <1>4, <2>1, <3>1
  <2>2. CASE n # e.tel
    <3>1. m_proximallamada'[n] = m_proximallamada[n]
      BY <1>0, <1>1, <2>2 DEF TypeOK
    <3>2. m_proximallamada[n] \in Nat /\ m_proximallamada[n] < proximoUid
      BY DEF TypeOK, IdsOK
    <3> QED
      BY <1>1, <1>2, <1>3, <1>4, <3>1, <3>2 DEF IdsOK
  <2> QED
    BY <2>1, <2>2
<1>7. IdsOK'
  BY <1>5, <1>6 DEF IdsOK, Telefonos
<1> QED
  BY <1>2, <1>3, <1>7

(***************************************************************************)
(* A granted call: the three events it adds and the ids they get.          *)
(***************************************************************************)
LEMMA LlamaLibreIds ==
  ASSUME TypeOK, IdsOK, NEW e \in agenda, LlamaLibre(e)
  PROVE  /\ IdsOK'
         /\ DOMAIN llamadas' = DOMAIN llamadas \cup {e.tel}
         /\ \E c \in agenda', x \in agenda' :
              /\ c.fn = "colgar" /\ c.tel = e.tel
              /\ x.fn = "Cuelga" /\ x.tel = e.tel
              /\ c.ts = x.ts /\ c.uid < x.uid
              /\ \A g \in agenda' :
                   g \in agenda \ {e} \/ g.fn = "Descuelga" \/ g = c \/ g = x
<1>0. e \in Eventos /\ e.tel \in Telefonos
  BY CamposDeEvento DEF TypeOK
<1>1. PICK duracion \in Duraciones, llamado \in Telefonos :
        /\ Llamar(e.tel, llamado)
        /\ agenda' = (agenda \ {e}) \cup LlamadaProgramada(e, llamado, duracion)
  BY DEF LlamaLibre
<1> DEFINE c == ColgarProgramado(e.ts, proximoUid, e.tel, duracion)
           d == EventoCon(e.ts, proximoUid + 1, "Descuelga", llamado, e.tel,
                          duracion)
           x == Evento(e.ts + duracion, proximoUid + 2, "Cuelga", e.tel)
<1>2. /\ c.uid = proximoUid /\ c.fn = "colgar" /\ c.tel = e.tel
      /\ d.uid = proximoUid + 1 /\ d.fn = "Descuelga"
      /\ x.uid = proximoUid + 2 /\ x.fn = "Cuelga" /\ x.tel = e.tel
      /\ c.ts = e.ts + duracion /\ x.ts = e.ts + duracion
  BY DEF ColgarProgramado, Evento, EventoCon
<1>3. agenda' = (agenda \ {e}) \cup {c, d, x}
  BY <1>1 DEF LlamadaProgramada
<1> HIDE DEF c, d, x
<1>4. /\ proximoUid \in Nat /\ proximoUid' = proximoUid + 3
      /\ m_proximallamada' = m_proximallamada
      /\ \A f \in agenda : f.uid \in Nat /\ f.uid < proximoUid
      /\ \A n \in Telefonos : /\ m_proximallamada[n] \in Nat
                              /\ m_proximallamada[n] < proximoUid
  BY CamposDeEvento DEF LlamaLibre, TypeOK, IdsOK
<1>5. \A f \in agenda' : f.uid < proximoUid'
  BY <1>2, <1>3, <1>4
<1>6. ASSUME NEW n \in Telefonos
      PROVE  /\ m_proximallamada'[n] < proximoUid'
             /\ \A f \in agenda' : f.uid = m_proximallamada'[n] =>
                                    f.fn = "Llama" /\ f.tel = n
  BY <1>2, <1>3, <1>4 DEF IdsOK
<1>7. IdsOK'
  BY <1>5, <1>6 DEF IdsOK, Telefonos
<1>8. DOMAIN llamadas' = DOMAIN llamadas \cup {e.tel}
  BY <1>1 DEF Llamar, Insertada
<1>9. c.ts = x.ts /\ c.uid < x.uid
  BY <1>2, <1>4
<1> QED
  BY <1>2, <1>3, <1>7, <1>8, <1>9

(***************************************************************************)
(* An answered call: the hang-up of the callee and the ids.                *)
(***************************************************************************)
LEMMA DescuelgaIds ==
  ASSUME TypeOK, IdsOK, NEW e \in agenda, Descuelga(e)
  PROVE  /\ IdsOK'
         /\ \E x \in agenda' :
              /\ x.fn = "Cuelga" /\ x.tel = e.tel
              /\ \A g \in agenda' : g \in agenda \ {e} \/ g = x
<1> DEFINE x == Evento(e.ts + m_duracion[e.tel], proximoUid, "Cuelga", e.tel)
<1>1. x.uid = proximoUid /\ x.fn = "Cuelga" /\ x.tel = e.tel
  BY CamposNuevos
<1>2. /\ x \in agenda'
      /\ \A g \in agenda' : g \in agenda \ {e} \/ g = x
  BY DEF Descuelga, Cancelado
<1> HIDE DEF x
<1>3. /\ proximoUid \in Nat /\ proximoUid' = proximoUid + 1
      /\ m_proximallamada' = m_proximallamada
      /\ \A f \in agenda : f.uid \in Nat /\ f.uid < proximoUid
      /\ \A n \in Telefonos : /\ m_proximallamada[n] \in Nat
                              /\ m_proximallamada[n] < proximoUid
  BY CamposDeEvento DEF Descuelga, TypeOK, IdsOK
<1>4. \A f \in agenda' : f.uid < proximoUid'
  BY <1>1, <1>2, <1>3
<1>5. ASSUME NEW n \in Telefonos
      PROVE  /\ m_proximallamada'[n] < proximoUid'
             /\ \A f \in agenda' : f.uid = m_proximallamada'[n] =>
                                    f.fn = "Llama" /\ f.tel = n
  BY <1>1, <1>2, <1>3 DEF IdsOK
<1>6. IdsOK'
  BY <1>4, <1>5 DEF IdsOK, Telefonos
<1> QED
  BY <1>1, <1>2, <1>6

(***************************************************************************)
(* Each handler keeps each part of the invariant.                          *)
(***************************************************************************)
LEMMA ManejaSafety ==
  ASSUME SafetyInv, NEW e \in agenda, Maneja(e)
  PROVE  IdsOK' /\ LlamadaConColgar' /\ CuelganALaVez' /\ SiempreActivo'
                /\ OciosoSinHelper'
<1> USE DEF SafetyInv
<1>0. /\ e \in Eventos /\ e.tel \in Telefonos
      /\ registrados' = registrados
      /\ \A f \in agenda : /\ f.ts \in Nat /\ f.uid \in Nat
                           /\ f # e => Antes(e, f)
  BY CamposDeEvento
     DEF TypeOK, Maneja, StartApplication, LlamaOcupado, LlamaLibre, Descuelga,
         Cuelga, Colgar, Despacha, Primero
<1>1. \A f \in agenda \ {e} : f.fn # "Llama" \/ f.tel # e.tel => f \in agenda'
  BY Quedan
<1>2. CASE StartApplication(e) \/ LlamaOcupado(e) \/ Cuelga(e)
  <2>1. /\ ProgramaLlamada(e) /\ llamadas' = llamadas
        /\ e.fn # "colgar" /\ e.fn \in {"StartApplication", "Llama", "Cuelga"}
    BY <1>2 DEF StartApplication, LlamaOcupado, Cuelga
  <2>2. /\ IdsOK'
        /\ \E g \in agenda' : g.fn = "Llama" /\ g.tel = e.tel
        /\ \A g \in agenda' : g \in agenda \ {e} \/ g.fn = "Llama"
    BY <2>1, ProgramaLlamadaIds
  <2>3. LlamadaConColgar'
    BY <1>1, <2>1 DEF LlamadaConColgar, Pendientes
  <2>4. CuelganALaVez'
    <3> SUFFICES ASSUME NEW c \in agenda', c.fn = "colgar"
                 PROVE  \E x \in agenda' : /\ x.fn = "Cuelga" /\ x.tel = c.tel
                                          /\ x.ts = c.ts /\ c.uid < x.uid
      BY DEF CuelganALaVez, Pendientes
    <3>1. c \in agenda \ {e}
      BY <2>2
    <3>2. PICK x \in agenda : /\ x.fn = "Cuelga" /\ x.tel = c.tel
                              /\ x.ts = c.ts /\ c.uid < x.uid
      BY <3>1 DEF CuelganALaVez, Pendientes
    <3>3. x # e
      BY <1>0, <3>1, <3>2 DEF Antes
    <3> QED
      BY <1>1, <3>2, <3>3
  <2>5. SiempreActivo'
    BY <1>0, <1>1, <2>2 DEF SiempreActivo, Hilos, Pendientes
  <2>6. OciosoSinHelper'
    <3> SUFFICES ASSUME NEW n \in Telefonos,
                        \A x \in agenda' : ~(x.fn = "Cuelga" /\ x.tel = n)
                 PROVE  ~m_AppOnOff'[n] /\ ~porParar'[n]
      BY DEF OciosoSinHelper, Pendientes, Telefonos
    <3>1. CASE Cuelga(e) /\ e.tel = n
      BY <3>1 DEF Cuelga, BorraHelper, TypeOK
    <3>2. CASE ~(Cuelga(e) /\ e.tel = n)
      <4>1. \A x \in agenda : ~(x.fn = "Cuelga" /\ x.tel = n)
        BY <1>1, <1>2, <3>2 DEF StartApplication, LlamaOcupado, Cuelga
      <4>2. ~m_AppOnOff[n] /\ ~porParar[n]
        BY <4>1 DEF OciosoSinHelper, Pendientes
      <4>3. m_AppOnOff'[n] = m_AppOnOff[n] /\ porParar'[n] = porParar[n]
        BY <1>0, <1>2, <3>2
           DEF StartApplication, LlamaOcupado, Cuelga, BorraHelper, traficoVars,
               TypeOK
      <4> QED
        BY <4>2, <4>3
    <3> QED
      BY <3>1, <3>2
  <2> QED
    BY <2>2, <2>3, <2>4, <2>5, <2>6
<1>3. CASE LlamaLibre(e)
  <2>1. /\ IdsOK' /\ e.fn = "Llama"
        /\ DOMAIN llamadas' = DOMAIN llamadas \cup {e.tel}
    BY <1>3, LlamaLibreIds DEF LlamaLibre
  <2>2. PICK c \in agenda', x \in agenda' :
          /\ c.fn = "colgar" /\ c.tel = e.tel
          /\ x.fn = "Cuelga" /\ x.tel = e.tel
          /\ c.ts = x.ts /\ c.uid < x.uid
          /\ \A g \in agenda' :
               g \in agenda \ {e} \/ g.fn = "Descuelga" \/ g = c \/ g = x
    BY <1>3, LlamaLibreIds
  <2>3. LlamadaConColgar'
    BY <1>1, <2>1, <2>2 DEF LlamadaConColgar, Pendientes
  <2>4. CuelganALaVez'
    BY <1>1, <2>1, <2>2 DEF CuelganALaVez, Pendientes
  <2>5. SiempreActivo'
    BY <1>0, <1>1, <2>2 DEF SiempreActivo, Hilos, Pendientes
  <2>6. OciosoSinHelper'
    <3> SUFFICES ASSUME NEW n \in Telefonos, n # e.tel,
                        \A y \in agenda' : ~(y.fn = "Cuelga" /\ y.tel = n)
                 PROVE  ~m_AppOnOff'[n] /\ ~porParar'[n]
      BY <2>2 DEF OciosoSinHelper, Pendientes, Telefonos
    <3>1. ~m_AppOnOff[n] /\ ~porParar[n]
      BY <1>1, <2>1 DEF OciosoSinHelper, Pendientes
    <3>2. m_AppOnOff'[n] = m_AppOnOff[n] /\ porParar'[n] = porParar[n]
      BY <1>0, <1>3 DEF LlamaLibre, Transmite, TypeOK
    <3> QED
      BY <3>1, <3>2
  <2> QED
    BY <2>1, <2>3, <2>4, <2>5, <2>6
<1>4. CASE Descuelga(e)
  <2>1. /\ IdsOK' /\ e.fn = "Descuelga" /\ llamadas' = llamadas
    BY <1>4, DescuelgaIds DEF Descuelga
  <2>2. PICK x \in agenda' :
          /\ x.fn = "Cuelga" /\ x.tel = e.tel
          /\ \A g \in agenda' : g \in agenda \ {e} \/ g = x
    BY <1>4, DescuelgaIds
  <2>3. LlamadaConColgar'
    BY <1>1, <2>1 DEF LlamadaConColgar, Pendientes
  <2>4. CuelganALaVez'
    BY <1>1, <2>1, <2>2 DEF CuelganALaVez, Pendientes
  <2>5. SiempreActivo'
    BY <1>0, <1>1, <2>2 DEF SiempreActivo, Hilos, Pendientes
  <2>6. OciosoSinHelper'
    <3> SUFFICES ASSUME NEW n \in Telefonos, n # e.tel,
                        \A y \in agenda' : ~(y.fn = "Cuelga" /\ y.tel = n)
                 PROVE  ~m_AppOnOff'[n] /\ ~porParar'[n]
      BY <2>2 DEF OciosoSinHelper, Pendientes, Telefonos
    <3>1. ~m_AppOnOff[n] /\ ~porParar[n]
      BY <1>1, <2>1 DEF OciosoSinHelper, Pendientes
    <3>2. m_AppOnOff'[n] = m_AppOnOff[n] /\ porParar'[n] = porParar[n]
      BY <1>0, <1>4 DEF Descuelga, Transmite, TypeOK
    <3> QED
      BY <3>1, <3>2
  <2> QED
    BY <2>1, <2>3, <2>4, <2>5, <2>6
<1>5. CASE Colgar(e)
  <2>1. /\ e.fn = "colgar" /\ agenda' = agenda \ {e}
        /\ DOMAIN llamadas' = DOMAIN llamadas \ {e.tel}
        /\ proximoUid' = proximoUid /\ m_proximallamada' = m_proximallamada
        /\ m_AppOnOff' = m_AppOnOff /\ porParar' = porParar
    BY <1>5 DEF Colgar, Borrada, idsVars, traficoVars
  <2>2. IdsOK'
    BY <2>1 DEF IdsOK, Telefonos
  <2>3. LlamadaConColgar'
    BY <2>1 DEF LlamadaConColgar, Pendientes
  <2>4. CuelganALaVez'
    BY <2>1 DEF CuelganALaVez, Pendientes
  <2>5. SiempreActivo'
    BY <1>0, <2>1 DEF SiempreActivo, Hilos, Pendientes, Telefonos
  <2>6. OciosoSinHelper'
    BY <2>1 DEF OciosoSinHelper, Pendientes, Telefonos
  <2> QED
    BY <2>2, <2>3, <2>4, <2>5, <2>6
<1> QED
  BY <1>2, <1>3, <1>4, <1>5 DEF Maneja

(***************************************************************************)
(* Every step of the run keeps the invariant.                              *)
(***************************************************************************)
LEMMA NextSafety == SafetyInv /\ [Next]_vars => SafetyInv'
<1> SUFFICES ASSUME SafetyInv, [Next]_vars
             PROVE  SafetyInv'
  OBVIOUS
<1> USE DEF SafetyInv
<1>0. TypeOK'
  BY NextTipo
<1>1. CASE Construye
  <2> DEFINE x == Evento(TInicio, proximoUid, "StartApplication", registrados)
  <2>1. /\ x.uid = proximoUid /\ x.fn = "StartApplication"
        /\ x.tel = registrados
    BY DEF Evento, EventoCon
  <2>2. /\ agenda' = agenda \cup {x} /\ proximoUid' = proximoUid + 1
        /\ registrados' = registrados + 1
        /\ UNCHANGED <<llamadas, m_proximallamada, m_AppOnOff, porParar>>
    BY <1>1 DEF Construye, Registrar, idsVars, traficoVars
  <2> HIDE DEF x
  <2>3. /\ proximoUid \in Nat /\ registrados \in Nat
        /\ \A f \in agenda : f.uid \in Nat /\ f.uid < proximoUid
        /\ \A n \in Telefonos : /\ m_proximallamada[n] \in Nat
                                /\ m_proximallamada[n] < proximoUid
    BY CamposDeEvento DEF TypeOK, IdsOK
  <2>4. IdsOK'
    BY <2>1, <2>2, <2>3 DEF IdsOK, Telefonos
  <2>5. LlamadaConColgar'
    BY <2>2 DEF LlamadaConColgar, Pendientes
  <2>6. CuelganALaVez'
    BY <2>1, <2>2 DEF CuelganALaVez, Pendientes
  <2>7. SiempreActivo'
    BY <2>1, <2>2, <2>3, NAssumption
       DEF SiempreActivo, Hilos, Pendientes, Telefonos
  <2>8. OciosoSinHelper'
    BY <2>1, <2>2 DEF OciosoSinHelper, Pendientes, Telefonos
  <2> QED
    BY <1>0, <2>4, <2>5, <2>6, <2>7, <2>8
<1>2. CASE Run \/ Stop \/ Parado \/ UNCHANGED vars
  <2>1. UNCHANGED <<agenda, proximoUid, registrados, llamadas,
                    m_proximallamada, m_AppOnOff, porParar>>
    BY <1>2 DEF Run, Stop, Parado, vars, agendaVars, centralVars, idsVars,
                traficoVars
  <2> QED
    BY <1>0, <2>1
       DEF IdsOK, LlamadaConColgar, CuelganALaVez, SiempreActivo,
           OciosoSinHelper, Hilos, Pendientes, Telefonos
<1>3. ASSUME NEW e \in agenda, Maneja(e)
      PROVE  SafetyInv'
  BY <1>0, <1>3, ManejaSafety
<1> QED
  BY <1>1, <1>2, <1>3 DEF Next

(***************************************************************************)
(* The invariant of telephones, switchboard and event list holds in every  *)
(* state of the run.                                                       *)
(***************************************************************************)
THEOREM Safety == Spec => []SafetyInv
  BY InitSafety, NextSafety, PTL DEF Spec

(***************************************************************************)
(* A call the switchboard holds always has its hang-up planned, whatever   *)
(* attempts the telephones cancel: no number stays busy for good.          *)
(***************************************************************************)
THEOREM NingunNumeroAtascado == Spec => []LlamadaConColgar
  BY Safety, PTL DEF SafetyInv

(***************************************************************************)
(* The switchboard and the caller end a call at the same instant, in this  *)
(* order, although they schedule the two ends independently.               *)
(***************************************************************************)
THEOREM FinSimultaneo == Spec => []CuelganALaVez
  BY Safety, PTL DEF SafetyInv

(***************************************************************************)
(* A registered telephone always has something pending: Descuelga gives up *)
(* an attempt only to plan a hang-up, and a stale id cancels nothing else. *)
(***************************************************************************)
THEOREM NingunTelefonoMuerto == Spec => []SiempreActivo
  BY Safety, PTL DEF SafetyInv

(***************************************************************************)
(* A telephone with no hang-up pending has deleted its helper and called   *)
(* Stop on the generator in its container, whatever calls overlapped.      *)
(***************************************************************************)
THEOREM HelperLiberado == Spec => []OciosoSinHelper
  BY Safety, PTL DEF SafetyInv

-----------------------------------------------------------------------------
(***************************************************************************)
(* Nobody dials between the two ends of a call.  CuelganALaVez does not    *)
(* exclude an event between the two; that only the ringing of the callee   *)
(* can have a uid between theirs does.                                     *)
(***************************************************************************)

FinConsecutivo ==
  \A c \in agenda : c.fn = "colgar" =>
    /\ \E x \in agenda : /\ x.fn = "Cuelga" /\ x.tel = c.tel
                        /\ x.ts = c.ts /\ x.uid = c.uid + 2
    /\ \A g \in agenda : g.uid = c.uid + 1 => g.fn = "Descuelga"

(***************************************************************************)
(* What a handler schedules gets a uid no event had.                       *)
(***************************************************************************)
LEMMA UidsNuevos ==
  ASSUME TypeOK, NEW e \in agenda, Maneja(e)
  PROVE  \A g \in agenda' : g \in agenda \/ g.uid >= proximoUid
<1>0. proximoUid \in Nat
  BY DEF TypeOK
<1>1. CASE StartApplication(e) \/ LlamaOcupado(e) \/ Cuelga(e)
  BY <1>0, <1>1
     DEF StartApplication, LlamaOcupado, Cuelga, ProgramaLlamada, Evento,
         EventoCon
<1>2. CASE LlamaLibre(e)
  BY <1>0, <1>2
     DEF LlamaLibre, LlamadaProgramada, ColgarProgramado, Evento, EventoCon
<1>3. CASE Descuelga(e)
  BY <1>0, <1>3 DEF Descuelga, Cancelado, Evento, EventoCon
<1>4. CASE Colgar(e)
  BY <1>4 DEF Colgar
<1> QED
  BY <1>1, <1>2, <1>3, <1>4 DEF Maneja

(***************************************************************************)
(* The events of a granted call have consecutive uids.                     *)
(***************************************************************************)
LEMMA LlamadaConsecutiva ==
  ASSUME TypeOK, IdsOK, NEW e \in agenda, LlamaLibre(e),
         NEW c \in agenda', c \notin agenda, c.fn = "colgar"
  PROVE  /\ \E x \in agenda' : /\ x.fn = "Cuelga" /\ x.tel = c.tel
                              /\ x.ts = c.ts /\ x.uid = c.uid + 2
         /\ \A g \in agenda' : g.uid = c.uid + 1 => g.fn = "Descuelga"
<1>1. PICK duracion \in Duraciones, llamado \in Telefonos :
        agenda' = (agenda \ {e}) \cup LlamadaProgramada(e, llamado, duracion)
  BY DEF LlamaLibre
<1> DEFINE k == ColgarProgramado(e.ts, proximoUid, e.tel, duracion)
           d == EventoCon(e.ts, proximoUid + 1, "Descuelga", llamado, e.tel,
                          duracion)
           x == Evento(e.ts + duracion, proximoUid + 2, "Cuelga", e.tel)
<1>2. /\ k.uid = proximoUid /\ k.fn = "colgar" /\ k.tel = e.tel
      /\ d.uid = proximoUid + 1 /\ d.fn = "Descuelga"
      /\ x.uid = proximoUid + 2 /\ x.fn = "Cuelga" /\ x.tel = e.tel
      /\ k.ts = e.ts + duracion /\ x.ts = e.ts + duracion
  BY DEF ColgarProgramado, Evento, EventoCon
<1>3. agenda' = (agenda \ {e}) \cup {k, d, x}
  BY <1>1 DEF LlamadaProgramada
<1> HIDE DEF k, d, x
<1>4. /\ proximoUid \in Nat
      /\ \A f \in agenda : f.uid \in Nat /\ f.uid < proximoUid
  BY CamposDeEvento DEF TypeOK, IdsOK
<1>5. c = k
  BY <1>2, <1>3
<1> QED
  BY <1>2, <1>3, <1>4, <1>5

(***************************************************************************)
(* Every step keeps the uids of the two ends of a call two apart.          *)
(***************************************************************************)
LEMMA NextConsecutivo ==
  SafetyInv /\ FinConsecutivo /\ [Next]_vars => FinConsecutivo'
<1> SUFFICES ASSUME SafetyInv, FinConsecutivo, [Next]_vars,
                    NEW c \in agenda', c.fn = "colgar"
             PROVE  /\ \E x \in agenda' : /\ x.fn = "Cuelga" /\ x.tel = c.tel
                                         /\ x.ts = c.ts /\ x.uid = c.uid + 2
                    /\ \A g \in agenda' : g.uid = c.uid + 1 =>
                                           g.fn = "Descuelga"
  BY DEF FinConsecutivo
<1>0. /\ TypeOK /\ IdsOK /\ proximoUid \in Nat
      /\ \A f \in agenda : /\ f.ts \in Nat /\ f.uid \in Nat
                           /\ f.uid < proximoUid
  BY CamposDeEvento DEF SafetyInv, TypeOK, IdsOK
<1>1. CASE UNCHANGED agenda
  BY <1>1 DEF FinConsecutivo
<1>2. CASE Construye
  <2> DEFINE y == Evento(TInicio, proximoUid, "StartApplication", registrados)
  <2>1. y.uid = proximoUid /\ y.fn = "StartApplication"
    BY DEF Evento, EventoCon
  <2>2. agenda' = agenda \cup {y}
    BY <1>2 DEF Construye
  <2> HIDE DEF y
  <2>3. c \in agenda
    BY <2>1, <2>2
  <2>4. PICK x \in agenda : /\ x.fn = "Cuelga" /\ x.tel = c.tel
                            /\ x.ts = c.ts /\ x.uid = c.uid + 2
    BY <2>3 DEF FinConsecutivo
  <2>5. c.uid + 1 < proximoUid
    BY <1>0, <2>3, <2>4
  <2> QED
    BY <1>0, <2>1, <2>2, <2>3, <2>4, <2>5 DEF FinConsecutivo
<1>3. ASSUME NEW e \in agenda, Maneja(e)
      PROVE  /\ \E x \in agenda' : /\ x.fn = "Cuelga" /\ x.tel = c.tel
                                  /\ x.ts = c.ts /\ x.uid = c.uid + 2
             /\ \A g \in agenda' : g.uid = c.uid + 1 => g.fn = "Descuelga"
  <2>1. CASE c \in agenda
    <3>1. PICK x \in agenda : /\ x.fn = "Cuelga" /\ x.tel = c.tel
                              /\ x.ts = c.ts /\ x.uid = c.uid + 2
      BY <2>1 DEF FinConsecutivo
    <3>2. \A f \in agenda \ {e} : Antes(e, f)
      BY <1>3
         DEF Maneja, StartApplication, LlamaOcupado, LlamaLibre, Descuelga,
             Cuelga, Colgar, Despacha, Primero
    <3>3. x # e
      BY <1>0, <2>1, <3>1, <3>2 DEF Antes
    <3>4. x \in agenda'
      BY <1>0, <1>3, <3>1, <3>3, Quedan
    <3>5. c.uid + 1 < proximoUid
      BY <1>0, <2>1, <3>1
    <3>6. \A g \in agenda' : g \in agenda \/ g.uid >= proximoUid
      BY <1>0, <1>3, UidsNuevos
    <3>7. \A g \in agenda' : g.uid = c.uid + 1 => g.fn = "Descuelga"
      BY <1>0, <2>1, <3>5, <3>6 DEF FinConsecutivo
    <3> QED
      BY <3>1, <3>4, <3>7
  <2>2. CASE c \notin agenda
    <3>1. LlamaLibre(e)
      <4>1. CASE StartApplication(e) \/ LlamaOcupado(e) \/ Cuelga(e)
        BY <1>0, <2>2, <4>1, ProgramaLlamadaIds
           DEF StartApplication, LlamaOcupado, Cuelga
      <4>2. CASE Descuelga(e)
        BY <1>0, <2>2, <4>2, DescuelgaIds
      <4>3. CASE Colgar(e)
        BY <2>2, <4>3 DEF Colgar
      <4> QED
        BY <1>3, <4>1, <4>2, <4>3 DEF Maneja
    <3> QED
      BY <1>0, <2>2, <3>1, LlamadaConsecutiva
  <2> QED
    BY <2>1, <2>2
<1> QED
  BY <1>1, <1>2, <1>3
     DEF Next, Run, Stop, Parado, vars, agendaVars

(***************************************************************************)
(* The step in which the switchboard forgets a call is followed by no      *)
(* attempt at the next event.                                              *)
(***************************************************************************)
LEMMA SinMarcadoPaso ==
  ASSUME SafetyInv, FinConsecutivo, [Next]_vars, NEW n \in Telefonos,
         n \in DOMAIN llamadas, n \notin DOMAIN llamadas',
         NEW g \in agenda', Primero(g, agenda')
  PROVE  g.fn # "Llama"
<1>1. \A f \in agenda : f.ts \in Nat /\ f.uid \in Nat
  BY CamposDeEvento DEF SafetyInv, TypeOK
<1>2. PICK e \in agenda : Colgar(e)
  <2>1. CASE UNCHANGED llamadas
    BY <2>1
  <2>2. ASSUME NEW e \in agenda, LlamaLibre(e)
        PROVE  FALSE
    <3>1. DOMAIN llamadas' = DOMAIN llamadas \cup {e.tel}
      BY <2>2, LlamaLibreIds DEF SafetyInv
    <3> QED
      BY <3>1
  <2>3. PICK e \in agenda : Maneja(e)
    BY <2>1 DEF Next, Construye, Run, Stop, Parado, vars, centralVars
  <2>4. ~(StartApplication(e) \/ LlamaOcupado(e) \/ Descuelga(e) \/ Cuelga(e))
    BY <2>1 DEF StartApplication, LlamaOcupado, Descuelga, Cuelga
  <2> QED
    BY <2>2, <2>3, <2>4 DEF Maneja
<1>3. /\ e.fn = "colgar" /\ agenda' = agenda \ {e}
      /\ \A f \in agenda \ {e} : Antes(e, f)
  BY <1>2 DEF Colgar, Despacha, Primero
<1>4. PICK x \in agenda : /\ x.fn = "Cuelga" /\ x.ts = e.ts
                          /\ x.uid = e.uid + 2
  BY <1>3 DEF FinConsecutivo
<1>5. x \in agenda'
  BY <1>3, <1>4
<1>6. CASE g = x
  BY <1>4, <1>6
<1>7. CASE g # x
  <2>1. Antes(g, x) /\ Antes(e, g)
    BY <1>3, <1>5, <1>7 DEF Primero
  <2>2. g.uid = e.uid + 1
    BY <1>1, <1>3, <1>4, <2>1 DEF Antes
  <2> QED
    BY <1>3, <2>2 DEF FinConsecutivo
<1> QED
  BY <1>6, <1>7

(***************************************************************************)
(* After the switchboard's end of a call the next event is no attempt, so  *)
(* a freed number is not called while its telephone still transmits.       *)
(***************************************************************************)
THEOREM NadieMarcaEntreColgadas == Spec => SinMarcadoEntreColgadas
<1>1. Init => FinConsecutivo
  BY DEF Init, FinConsecutivo
<1>2. Spec => []FinConsecutivo
  BY <1>1, InitSafety, NextSafety, NextConsecutivo, PTL DEF Spec
<1>3. SafetyInv /\ FinConsecutivo /\ [Next]_vars =>
        [\A n \in Telefonos :
           n \in DOMAIN llamadas /\ n \notin DOMAIN llamadas' =>
             \A e \in agenda' : Primero(e, agenda') => e.fn # "Llama"]_vars
  BY SinMarcadoPaso
<1> QED
  BY <1>2, <1>3, Safety, PTL DEF Spec, SinMarcadoEntreColgadas
=============================================================================
