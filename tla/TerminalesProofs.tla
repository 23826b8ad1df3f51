-------------------------- MODULE TerminalesProofs --------------------------
(***************************************************************************)
(* Theorems about the chains of activity of the telephones of Telefonia:   *)
(* they keep the promise of Terminales, and a telephone that was never     *)
(* called while busy has fields that agree with what it has pending.       *)
(*                                                                         *)
(* What is left of an instant is counted too: the run moves on from it.    *)
(*                                                                         *)
(* These are statements about how many events of a telephone are on the    *)
(* list, so they need what TelefoniaProofs did not: that the list is       *)
(* finite, that a uid names one event of it (Cancel removes one event at   *)
(* most), and that no telephone is called before every one has started.    *)
(***************************************************************************)
EXTENDS TelefoniaProofs

(***************************************************************************)
(* A uid names one event of a finite list.                                 *)
(***************************************************************************)
ListaOK ==
  /\ IsFiniteSet(agenda)
  /\ \A e, f \in agenda : e.uid = f.uid => e = f

(***************************************************************************)
(* The starts come first: they are due at TInicio, when nothing else is    *)
(* earlier, and were scheduled before everything else; a telephone whose   *)
(* start is pending has nothing else to do.                                *)
(***************************************************************************)
Arranques ==
  /\ fase = "registro" => \A e \in agenda : e.fn = "StartApplication"
  /\ fase # "registro" => registrados = N
  /\ \A e \in agenda : e.ts >= TInicio
  /\ \A s \in agenda : s.fn = "StartApplication" =>
       /\ s.ts = TInicio /\ s.tel < registrados
       /\ Hilos(s.tel) = {}
       /\ \A f \in agenda : IF f.fn = "StartApplication"
                            THEN f.tel = s.tel => f = s
                            ELSE s.uid < f.uid

(***************************************************************************)
(* A telephone that has not started left no generator behind.              *)
(***************************************************************************)
SinHilos == \A n \in Telefonos : Hilos(n) = {} => huerfanas[n] = 0

-----------------------------------------------------------------------------
(***************************************************************************)
(* What each handler does to the list.                                     *)
(***************************************************************************)

(***************************************************************************)
(* Planning a call replaces the event by an attempt of the same telephone, *)
(* and m_proximallamada names it.                                          *)
(***************************************************************************)
LEMMA Reprograma ==
  ASSUME TypeOK, NEW e \in agenda, ProgramaLlamada(e)
  PROVE  \E x : /\ x.fn = "Llama" /\ x.tel = e.tel
                /\ x.uid = proximoUid /\ x.ts >= e.ts
                /\ x.ts = e.ts => 0 \in Esperas
                /\ agenda' = (agenda \ {e}) \cup {x}
                /\ m_proximallamada' =
                     [m_proximallamada EXCEPT ![e.tel] = x.uid]
                /\ proximoUid' = proximoUid + 1
<1>1. e.ts \in Nat
  BY CamposDeEvento DEF TypeOK
<1>2. PICK espera \in Esperas :
        /\ agenda' = (agenda \ {e}) \cup
             {Evento(e.ts + espera, proximoUid, "Llama", e.tel)}
        /\ m_proximallamada' = [m_proximallamada EXCEPT ![e.tel] = proximoUid]
        /\ proximoUid' = proximoUid + 1
  BY DEF ProgramaLlamada
<1> DEFINE x == Evento(e.ts + espera, proximoUid, "Llama", e.tel)
<1>3. x.fn = "Llama" /\ x.tel = e.tel /\ x.uid = proximoUid
      /\ x.ts = e.ts + espera
  BY CamposNuevos
<1>4. e.ts + espera >= e.ts /\ (e.ts + espera = e.ts => 0 \in Esperas)
  BY <1>1, TiemposAssumption
<1>5. agenda' = (agenda \ {e}) \cup {x}
  BY <1>2
<1> HIDE DEF x
<1> QED
  BY <1>2, <1>3, <1>4, <1>5

(***************************************************************************)
(* A granted call replaces the attempt by its three events, of which only  *)
(* the caller's hang-up is a chain, the one m_cuelga names.                *)
(***************************************************************************)
LEMMA Concede ==
  ASSUME TypeOK, NEW e \in agenda, LlamaLibre(e)
  PROVE  \E c, d, x :
           /\ c.fn = "colgar" /\ c.uid = proximoUid /\ c.ts >= e.ts
           /\ d.fn = "Descuelga" /\ d.uid = proximoUid + 1 /\ d.ts >= e.ts
           /\ x.fn = "Cuelga" /\ x.uid = proximoUid + 2 /\ x.ts >= e.ts
           /\ x.tel = e.tel
           /\ agenda' = (agenda \ {e}) \cup {c, d, x}
           /\ m_cuelga' = [m_cuelga EXCEPT ![e.tel] = x.uid]
           /\ proximoUid' = proximoUid + 3
<1>1. e.ts \in Nat
  BY CamposDeEvento DEF TypeOK
<1>2. PICK duracion \in Duraciones, llamado \in Telefonos :
        agenda' = (agenda \ {e}) \cup LlamadaProgramada(e, llamado, duracion)
  BY DEF LlamaLibre
<1> DEFINE c == ColgarProgramado(e.ts, proximoUid, e.tel, duracion)
           d == EventoCon(e.ts, proximoUid + 1, "Descuelga", llamado, e.tel,
                          duracion)
           x == Evento(e.ts + duracion, proximoUid + 2, "Cuelga", e.tel)
<1>3. /\ c.fn = "colgar" /\ c.uid = proximoUid /\ c.ts = e.ts + duracion
      /\ d.fn = "Descuelga" /\ d.uid = proximoUid + 1 /\ d.ts = e.ts
      /\ x.fn = "Cuelga" /\ x.uid = proximoUid + 2 /\ x.ts = e.ts + duracion
      /\ x.tel = e.tel
  BY DEF ColgarProgramado, Evento, EventoCon
<1>4. e.ts + duracion >= e.ts /\ e.ts >= e.ts
  BY <1>1, TiemposAssumption
<1>5. agenda' = (agenda \ {e}) \cup {c, d, x}
  BY <1>2 DEF LlamadaProgramada
<1>6. /\ m_cuelga' = [m_cuelga EXCEPT ![e.tel] = proximoUid + 2]
      /\ proximoUid' = proximoUid + 3
  BY DEF LlamaLibre
<1> HIDE DEF c, d, x
<1> QED
  BY <1>3, <1>4, <1>5, <1>6

(***************************************************************************)
(* An answered call replaces the ringing and the attempt m_proximallamada  *)
(* names, if it is pending, by a hang-up that m_llamadaactual names.       *)
(***************************************************************************)
LEMMA Contesta ==
  ASSUME TypeOK, NEW e \in agenda, Descuelga(e)
  PROVE  \E x : /\ x.fn = "Cuelga" /\ x.tel = e.tel
                /\ x.uid = proximoUid /\ x.ts >= e.ts
                /\ agenda' = {f \in agenda \ {e} :
                                f.uid # m_proximallamada[e.tel]} \cup {x}
                /\ m_llamadaactual' =
                     [m_llamadaactual EXCEPT ![e.tel] = x.uid]
                /\ proximoUid' = proximoUid + 1
<1>1. e.ts \in Nat /\ m_duracion[e.tel] \in Nat
  BY CamposDeEvento DEF TypeOK
<1> DEFINE x == Evento(e.ts + m_duracion[e.tel], proximoUid, "Cuelga", e.tel)
<1>2. x.fn = "Cuelga" /\ x.tel = e.tel /\ x.uid = proximoUid
      /\ x.ts = e.ts + m_duracion[e.tel]
  BY CamposNuevos
<1>3. e.ts + m_duracion[e.tel] >= e.ts
  BY <1>1
<1>4. /\ agenda' = {f \in agenda \ {e} : f.uid # m_proximallamada[e.tel]}
                     \cup {x}
      /\ m_llamadaactual' = [m_llamadaactual EXCEPT ![e.tel] = proximoUid]
      /\ proximoUid' = proximoUid + 1
  BY DEF Descuelga, Cancelado
<1> HIDE DEF x
<1> QED
  BY <1>2, <1>3, <1>4

(***************************************************************************)
(* What any handler adds is due no earlier than now, has a fresh uid, is   *)
(* no start, and is a chain only of the telephone of the handler.          *)
(***************************************************************************)
Nuevo(g, e) ==
  /\ g.uid >= proximoUid
  /\ g.ts >= e.ts
  /\ g.fn # "StartApplication"
  /\ g.fn \in {"Llama", "Cuelga"} => g.tel = e.tel

(***************************************************************************)
(* A handler leaves what was on the list, but for its own event, and what  *)
(* it schedules.                                                           *)
(***************************************************************************)
LEMMA SoloNuevos ==
  ASSUME TypeOK, NEW e \in agenda, Maneja(e)
  PROVE  \A g \in agenda' : g \in agenda \ {e} \/ Nuevo(g, e)
<1>0. proximoUid \in Nat
  BY DEF TypeOK
<1>1. CASE StartApplication(e) \/ LlamaOcupado(e) \/ Cuelga(e)
  <2>1. ProgramaLlamada(e)
    BY <1>1 DEF StartApplication, LlamaOcupado, Cuelga
  <2> QED
    BY <1>0, <2>1, Reprograma DEF Nuevo
<1>2. CASE LlamaLibre(e)
  BY <1>0, <1>2, Concede DEF Nuevo
<1>3. CASE Descuelga(e)
  BY <1>0, <1>3, Contesta DEF Nuevo
<1>4. CASE Colgar(e)
  BY <1>4 DEF Colgar
<1> QED
  BY <1>1, <1>2, <1>3, <1>4 DEF Maneja

-----------------------------------------------------------------------------
(***************************************************************************)
(* The list stays finite and a uid keeps naming one event.                 *)
(***************************************************************************)

(***************************************************************************)
(* Part of a list and three events with fresh uids make a list.            *)
(***************************************************************************)
LEMMA ListaCrece ==
  ASSUME TypeOK, IdsOK, ListaOK, NEW Q \in SUBSET agenda, NEW c, NEW d, NEW x,
         c.uid = proximoUid,
         d = c \/ d.uid = proximoUid + 1,
         x = c \/ x.uid = proximoUid + 2,
         agenda' = Q \cup {c, d, x}
  PROVE  ListaOK'
<1>1. proximoUid \in Nat /\ \A f \in agenda : f.uid \in Nat /\ f.uid < proximoUid
  BY CamposDeEvento DEF TypeOK, IdsOK
<1>2. IsFiniteSet(agenda')
  <2>1. IsFiniteSet(Q)
    BY FS_Subset DEF ListaOK
  <2>2. IsFiniteSet(Q \cup {c})
    BY <2>1, FS_AddElement
  <2>3. IsFiniteSet((Q \cup {c}) \cup {d})
    BY <2>2, FS_AddElement
  <2>4. IsFiniteSet(((Q \cup {c}) \cup {d}) \cup {x})
    BY <2>3, FS_AddElement
  <2>5. ((Q \cup {c}) \cup {d}) \cup {x} = agenda'
    OBVIOUS
  <2> QED
    BY <2>4, <2>5
<1>3. \A e, f \in agenda' : e.uid = f.uid => e = f
  BY <1>1 DEF ListaOK
<1> QED
  BY <1>2, <1>3 DEF ListaOK

(***************************************************************************)
(* Handlers keep the list finite and its uids unique.                      *)
(***************************************************************************)
LEMMA ManejaLista ==
  ASSUME TypeOK, IdsOK, ListaOK, NEW e \in agenda, Maneja(e)
  PROVE  ListaOK'
<1>1. CASE StartApplication(e) \/ LlamaOcupado(e) \/ Cuelga(e)
  <2>1. ProgramaLlamada(e)
    BY <1>1 DEF StartApplication, LlamaOcupado, Cuelga
  <2>2. PICK x : x.uid = proximoUid /\ agenda' = (agenda \ {e}) \cup {x, x, x}
    BY <2>1, Reprograma
  <2> QED
    BY <2>2, ListaCrece
<1>2. CASE LlamaLibre(e)
  <2>1. PICK c, d, x : /\ c.uid = proximoUid /\ d.uid = proximoUid + 1
                       /\ x.uid = proximoUid + 2
                       /\ agenda' = (agenda \ {e}) \cup {c, d, x}
    BY <1>2, Concede
  <2> QED
    BY <2>1, ListaCrece
<1>3. CASE Descuelga(e)
  <2>1. PICK x : /\ x.uid = proximoUid
                 /\ agenda' = {f \in agenda \ {e} :
                                 f.uid # m_proximallamada[e.tel]} \cup {x, x, x}
    BY <1>3, Contesta
  <2> QED
    BY <2>1, ListaCrece
<1>4. CASE Colgar(e)
  <2>1. agenda' = agenda \ {e}
    BY <1>4 DEF Colgar
  <2> QED
    BY <2>1, FS_Subset DEF ListaOK
<1> QED
  BY <1>1, <1>2, <1>3, <1>4 DEF Maneja

-----------------------------------------------------------------------------
(***************************************************************************)
(* The starts come first.                                                  *)
(***************************************************************************)

(***************************************************************************)
(* An event that is dispatched precedes every other one.                   *)
(***************************************************************************)
LEMMA EsElPrimero ==
  ASSUME TypeOK, NEW e \in agenda, Maneja(e)
  PROVE  /\ fase = "corriendo" /\ fase' = fase /\ registrados' = registrados
         /\ \A f \in agenda \ {e} : Antes(e, f)
  BY DEF Maneja, StartApplication, LlamaOcupado, LlamaLibre, Descuelga, Cuelga,
         Colgar, Despacha, Primero

(***************************************************************************)
(* No other handler runs while a start is pending.                         *)
(***************************************************************************)
LEMMA NadaAntesDeArrancar ==
  ASSUME TypeOK, Arranques, NEW e \in agenda, Maneja(e),
         e.fn # "StartApplication"
  PROVE  \A s \in agenda : s.fn # "StartApplication"
<1> SUFFICES ASSUME NEW s \in agenda, s.fn = "StartApplication"
             PROVE  FALSE
  OBVIOUS
<1>1. \A f \in agenda : f.ts \in Nat /\ f.uid \in Nat
  BY CamposDeEvento DEF TypeOK
<1>2. s.ts = TInicio /\ TInicio <= e.ts /\ s.uid < e.uid
  BY DEF Arranques
<1>3. Antes(e, s)
  BY EsElPrimero
<1> QED
  BY <1>1, <1>2, <1>3, TiemposAssumption DEF Antes

(***************************************************************************)
(* Handlers keep the starts apart from the rest; no handler runs before    *)
(* them.                                                                   *)
(***************************************************************************)
LEMMA ManejaArranques ==
  ASSUME TypeOK, IdsOK, Arranques, NEW e \in agenda, Maneja(e)
  PROVE  Arranques'
<1>1. /\ fase' = "corriendo" /\ registrados' = registrados
      /\ registrados = N
  BY EsElPrimero DEF Arranques
<1>2. \A g \in agenda' : g \in agenda \ {e} \/ Nuevo(g, e)
  BY SoloNuevos
<1>3. /\ proximoUid \in Nat /\ TInicio \in Nat
      /\ \A f \in agenda : /\ f.uid \in Nat /\ f.uid < proximoUid
                           /\ f.ts \in Nat /\ TInicio <= f.ts
  BY CamposDeEvento, TiemposAssumption DEF TypeOK, IdsOK, Arranques
<1>6. \A g \in agenda' : g.ts \in Nat /\ g.uid \in Nat
  <2>1. TypeOK'
    BY NextTipo DEF Next
  <2> QED
    BY <2>1, CamposDeEvento DEF TypeOK
<1>4. \A g \in agenda' : g.ts >= TInicio
  BY <1>2, <1>3, <1>6 DEF Nuevo
<1>5. ASSUME NEW s \in agenda', s.fn = "StartApplication"
      PROVE  /\ s.ts = TInicio /\ s.tel < registrados
             /\ Hilos(s.tel)' = {}
             /\ \A f \in agenda' : IF f.fn = "StartApplication"
                                   THEN f.tel = s.tel => f = s
                                   ELSE s.uid < f.uid
  <2>1. s \in agenda /\ s # e
    BY <1>2, <1>5 DEF Nuevo
  <2>2. e.fn = "StartApplication"
    BY <1>5, <2>1, NadaAntesDeArrancar
  <2>3. s.ts = TInicio /\ s.tel < registrados /\ s.tel # e.tel
    BY <1>5, <2>1, <2>2 DEF Arranques
  <2>4. \A f \in agenda : ~(f.fn \in {"Llama", "Cuelga"} /\ f.tel = s.tel)
    BY <1>5, <2>1 DEF Arranques, Hilos, Pendientes
  <2>5. \A f \in agenda' : ~(f.fn \in {"Llama", "Cuelga"} /\ f.tel = s.tel)
    BY <1>2, <2>3, <2>4 DEF Nuevo
  <2>6. ASSUME NEW f \in agenda'
        PROVE  IF f.fn = "StartApplication" THEN f.tel = s.tel => f = s
                                            ELSE s.uid < f.uid
    <3>1. CASE f \in agenda
      BY <1>5, <2>1, <3>1 DEF Arranques
    <3>2. CASE f \notin agenda
      BY <1>2, <1>3, <1>6, <2>1, <3>2 DEF Nuevo
    <3> QED
      BY <3>1, <3>2
  <2> QED
    BY <2>3, <2>5, <2>6 DEF Hilos, Pendientes
<1> QED
  BY <1>1, <1>4, <1>5 DEF Arranques

-----------------------------------------------------------------------------
(***************************************************************************)
(* The chains of a telephone across a handler.                             *)
(***************************************************************************)

(***************************************************************************)
(* The chains of a telephone can be counted.                               *)
(***************************************************************************)
LEMMA HilosFinitos ==
  ASSUME ListaOK, NEW n
  PROVE  IsFiniteSet(Hilos(n)) /\ Cardinality(Hilos(n)) \in Nat
<1>1. Hilos(n) \in SUBSET agenda
  BY DEF Hilos, Pendientes
<1>2. IsFiniteSet(Hilos(n))
  BY <1>1, FS_Subset DEF ListaOK
<1> QED
  BY <1>2, FS_CardinalityType

(***************************************************************************)
(* Exchanging an element for a new one keeps the size of a set; a new one  *)
(* alone makes it one more.                                                *)
(***************************************************************************)
LEMMA CuentaReemplaza ==
  ASSUME NEW S, IsFiniteSet(S), NEW x, x \notin S
  PROVE  /\ Cardinality(S) \in Nat
         /\ Cardinality(S \cup {x}) = Cardinality(S) + 1
         /\ \A a \in S : Cardinality((S \ {a}) \cup {x}) = Cardinality(S)
<1>1. Cardinality(S) \in Nat
  BY FS_CardinalityType
<1>2. Cardinality(S \cup {x}) = Cardinality(S) + 1
  BY FS_AddElement
<1>3. ASSUME NEW a \in S
      PROVE  Cardinality((S \ {a}) \cup {x}) = Cardinality(S)
  <2>1. IsFiniteSet(S \ {a}) /\ Cardinality(S \ {a}) = Cardinality(S) - 1
    BY FS_RemoveElement
  <2>2. Cardinality((S \ {a}) \cup {x}) = Cardinality(S \ {a}) + 1
    BY <2>1, FS_AddElement
  <2> QED
    BY <1>1, <2>1, <2>2
<1> QED
  BY <1>1, <1>2, <1>3

(***************************************************************************)
(* A handler leaves the chains of the other telephones alone.              *)
(***************************************************************************)
LEMMA HilosDeLosDemas ==
  ASSUME TypeOK, IdsOK, NEW e \in agenda, Maneja(e), NEW n, n # e.tel
  PROVE  Hilos(n)' = Hilos(n)
<1>1. \A g \in agenda' : g \in agenda \ {e} \/ Nuevo(g, e)
  BY SoloNuevos
<1>2. \A f \in agenda \ {e} : f.tel # e.tel => f \in agenda'
  BY Quedan
<1>3. \A g \in agenda' : g.fn \in {"Llama", "Cuelga"} /\ g.tel = n
                            => g \in agenda
  BY <1>1 DEF Nuevo
<1>4. \A g \in agenda : g.fn \in {"Llama", "Cuelga"} /\ g.tel = n
                            => g \in agenda'
  BY <1>2
<1>5. Hilos(n)' = {g \in agenda' : g.fn \in {"Llama", "Cuelga"} /\ g.tel = n}
  BY DEF Hilos, Pendientes
<1>6. Hilos(n) = {g \in agenda : g.fn \in {"Llama", "Cuelga"} /\ g.tel = n}
  BY DEF Hilos, Pendientes
<1> QED
  BY <1>3, <1>4, <1>5, <1>6

(***************************************************************************)
(* The start makes the first chain: an attempt that can be cancelled.      *)
(***************************************************************************)
LEMMA HilosAlArrancar ==
  ASSUME TypeOK, IdsOK, Arranques, NEW e \in agenda, StartApplication(e)
  PROVE  /\ Hilos(e.tel) = {}
         /\ \E x : /\ Hilos(e.tel)' = {x} /\ x.fn = "Llama"
                   /\ m_proximallamada'[e.tel] = x.uid
<1>0. e.tel \in Telefonos /\ e.fn = "StartApplication"
  BY CamposDeEvento DEF TypeOK, StartApplication
<1>1. Hilos(e.tel) = {}
  BY <1>0 DEF Arranques
<1>2. PICK x : /\ x.fn = "Llama" /\ x.tel = e.tel
               /\ agenda' = (agenda \ {e}) \cup {x}
               /\ m_proximallamada' =
                    [m_proximallamada EXCEPT ![e.tel] = x.uid]
  BY Reprograma DEF StartApplication
<1>3. Hilos(e.tel)' = {x}
  BY <1>1, <1>2 DEF Hilos, Pendientes
<1> QED
  BY <1>0, <1>1, <1>2, <1>3 DEF TypeOK

(***************************************************************************)
(* A refused attempt and a hang-up become an attempt that can be           *)
(* cancelled; a granted attempt becomes the hang-up m_cuelga names.        *)
(***************************************************************************)
LEMMA HilosAlSeguir ==
  ASSUME TypeOK, IdsOK, NEW e \in agenda,
         LlamaOcupado(e) \/ Cuelga(e) \/ LlamaLibre(e)
  PROVE  /\ e \in Hilos(e.tel)
         /\ \E x : /\ x \notin Hilos(e.tel)
                   /\ Hilos(e.tel)' = (Hilos(e.tel) \ {e}) \cup {x}
                   /\ IF LlamaLibre(e)
                      THEN x.fn = "Cuelga" /\ m_cuelga'[e.tel] = x.uid
                      ELSE /\ x.fn = "Llama"
                           /\ m_proximallamada'[e.tel] = x.uid
<1>0. /\ e.tel \in Telefonos /\ proximoUid \in Nat
      /\ \A f \in agenda : f.uid \in Nat /\ f.uid < proximoUid
  BY CamposDeEvento DEF TypeOK, IdsOK
<1>1. e \in Hilos(e.tel)
  BY DEF LlamaOcupado, Cuelga, LlamaLibre, Hilos, Pendientes
<1>2. ASSUME LlamaOcupado(e) \/ Cuelga(e), ~LlamaLibre(e)
      PROVE  \E x : /\ x \notin Hilos(e.tel)
                    /\ Hilos(e.tel)' = (Hilos(e.tel) \ {e}) \cup {x}
                    /\ x.fn = "Llama" /\ m_proximallamada'[e.tel] = x.uid
  <2>1. PICK x : /\ x.fn = "Llama" /\ x.tel = e.tel /\ x.uid = proximoUid
                 /\ agenda' = (agenda \ {e}) \cup {x}
                 /\ m_proximallamada' =
                      [m_proximallamada EXCEPT ![e.tel] = x.uid]
    BY <1>2, Reprograma DEF LlamaOcupado, Cuelga
  <2>2. x \notin Hilos(e.tel)
    BY <1>0, <2>1 DEF Hilos, Pendientes
  <2>3. Hilos(e.tel)' = (Hilos(e.tel) \ {e}) \cup {x}
    BY <2>1 DEF Hilos, Pendientes
  <2> QED
    BY <1>0, <2>1, <2>2, <2>3 DEF TypeOK
<1>3. ASSUME LlamaLibre(e)
      PROVE  \E x : /\ x \notin Hilos(e.tel)
                    /\ Hilos(e.tel)' = (Hilos(e.tel) \ {e}) \cup {x}
                    /\ x.fn = "Cuelga" /\ m_cuelga'[e.tel] = x.uid
  <2>1. PICK c, d, x :
          /\ c.fn = "colgar" /\ d.fn = "Descuelga"
          /\ x.fn = "Cuelga" /\ x.tel = e.tel /\ x.uid = proximoUid + 2
          /\ agenda' = (agenda \ {e}) \cup {c, d, x}
          /\ m_cuelga' = [m_cuelga EXCEPT ![e.tel] = x.uid]
    BY <1>3, Concede
  <2>2. x \notin Hilos(e.tel)
    BY <1>0, <2>1 DEF Hilos, Pendientes
  <2>3. Hilos(e.tel)' = (Hilos(e.tel) \ {e}) \cup {x}
    BY <2>1 DEF Hilos, Pendientes
  <2> QED
    BY <1>0, <2>1, <2>2, <2>3 DEF TypeOK
<1> QED
  BY <1>1, <1>2, <1>3

(***************************************************************************)
(* A telephone that is called has a chain.  If it is the attempt it can    *)
(* cancel, the hang-up m_llamadaactual names takes its place; if there is  *)
(* no such attempt, the hang-up is one chain more.                         *)
(***************************************************************************)
LEMMA HilosAlDescolgar ==
  ASSUME TypeOK, IdsOK, ListaOK, Arranques, SiempreActivo, NEW e \in agenda,
         Descuelga(e)
  PROVE  /\ Hilos(e.tel) # {}
         /\ \E x : /\ x \notin Hilos(e.tel) /\ x.fn = "Cuelga"
                   /\ m_llamadaactual'[e.tel] = x.uid
                   /\ \/ Hilos(e.tel)' = Hilos(e.tel) \cup {x}
                      \/ \E a \in Hilos(e.tel) :
                           /\ a.fn = "Llama" /\ a.uid = m_proximallamada[e.tel]
                           /\ Hilos(e.tel)' = (Hilos(e.tel) \ {a}) \cup {x}
<1>0. /\ e.tel \in Telefonos /\ proximoUid \in Nat /\ e.fn = "Descuelga"
      /\ Maneja(e)
      /\ \A f \in agenda : f.uid \in Nat /\ f.uid < proximoUid
  BY CamposDeEvento DEF TypeOK, IdsOK, Descuelga, Maneja
<1>1. Hilos(e.tel) # {}
  <2>1. \A s \in agenda : s.fn # "StartApplication"
    BY <1>0, NadaAntesDeArrancar
  <2>2. registrados = N /\ e.tel < registrados
    BY <1>0, EsElPrimero, NAssumption DEF Arranques, Telefonos
  <2> QED
    BY <1>0, <2>1, <2>2 DEF SiempreActivo, Pendientes
<1>2. PICK x : /\ x.fn = "Cuelga" /\ x.tel = e.tel /\ x.uid = proximoUid
               /\ agenda' = {f \in agenda \ {e} :
                               f.uid # m_proximallamada[e.tel]} \cup {x}
               /\ m_llamadaactual' =
                    [m_llamadaactual EXCEPT ![e.tel] = x.uid]
  BY Contesta
<1>3. x \notin Hilos(e.tel) /\ m_llamadaactual'[e.tel] = x.uid
  BY <1>0, <1>2 DEF Hilos, Pendientes, TypeOK
<1>4. CASE \A f \in agenda : f.uid # m_proximallamada[e.tel]
  <2>1. Hilos(e.tel)' = Hilos(e.tel) \cup {x}
    BY <1>0, <1>2, <1>4 DEF Hilos, Pendientes
  <2> QED
    BY <1>1, <1>2, <1>3, <2>1
<1>5. ASSUME NEW a \in agenda, a.uid = m_proximallamada[e.tel]
      PROVE  /\ a \in Hilos(e.tel) /\ a.fn = "Llama"
             /\ Hilos(e.tel)' = (Hilos(e.tel) \ {a}) \cup {x}
  <2>1. a.fn = "Llama" /\ a.tel = e.tel
    BY <1>0, <1>5 DEF IdsOK
  <2>2. \A f \in agenda : f.uid # m_proximallamada[e.tel] <=> f # a
    BY <1>5 DEF ListaOK
  <2>3. Hilos(e.tel)' = (Hilos(e.tel) \ {a}) \cup {x}
    BY <1>0, <1>2, <2>2 DEF Hilos, Pendientes
  <2> QED
    BY <2>1, <2>3 DEF Hilos, Pendientes
<1> QED
  BY <1>1, <1>2, <1>3, <1>4, <1>5

(***************************************************************************)
(* The switchboard's hang-up is no chain.                                  *)
(***************************************************************************)
LEMMA HilosAlColgar ==
  ASSUME NEW e \in agenda, Colgar(e), NEW n
  PROVE  Hilos(n)' = Hilos(n)
  BY DEF Colgar, Hilos, Pendientes

-----------------------------------------------------------------------------
(***************************************************************************)
(* A telephone with one chain.                                             *)
(***************************************************************************)

(***************************************************************************)
(* The fields of telephone n agree with its only chain x.                  *)
(***************************************************************************)
Concuerda(n, x) ==
  /\ huerfanas[n] = 0
  /\ x.fn = "Llama" => m_proximallamada[n] = x.uid /\ n \notin DOMAIN llamadas
  /\ x.fn = "Cuelga" =>
       /\ x.uid \in {m_cuelga[n], m_llamadaactual[n]}
       /\ m_AppOnOff[n]
       /\ n \in DOMAIN llamadas =>
            x.uid = m_cuelga[n] /\ m_appc[n] = llamadas[n] /\ m_ocupado[n]

UnHilo == \A n \in Telefonos : \A x : Hilos(n) = {x} => Concuerda(n, x)

(***************************************************************************)
(* One chain means that the set of chains has one element.                 *)
(***************************************************************************)
LEMMA UnHiloEsCoherente ==
  ASSUME ListaOK, UnHilo
  PROVE  CoherenteConUnHilo
<1> SUFFICES ASSUME NEW n \in Telefonos, Cardinality(Hilos(n)) = 1
             PROVE  /\ huerfanas[n] = 0
                    /\ \A e \in Pendientes(agenda, "Llama", n) :
                         m_proximallamada[n] = e.uid /\ n \notin DOMAIN llamadas
                    /\ \A e \in Pendientes(agenda, "Cuelga", n) :
                         /\ e.uid \in {m_cuelga[n], m_llamadaactual[n]}
                         /\ m_AppOnOff[n]
                         /\ n \in DOMAIN llamadas =>
                              /\ e.uid = m_cuelga[n]
                              /\ m_appc[n] = llamadas[n]
                              /\ m_ocupado[n]
  BY DEF CoherenteConUnHilo
<1>1. PICK x : Hilos(n) = {x}
  BY HilosFinitos, FS_Singleton
<1>2. Concuerda(n, x)
  BY <1>1 DEF UnHilo
<1>3. \A e \in Pendientes(agenda, "Llama", n) : e = x /\ e.fn = "Llama"
  BY <1>1 DEF Hilos, Pendientes
<1>4. \A e \in Pendientes(agenda, "Cuelga", n) : e = x /\ e.fn = "Cuelga"
  BY <1>1 DEF Hilos, Pendientes
<1> QED
  BY <1>2, <1>3, <1>4 DEF Concuerda

(***************************************************************************)
(* The only chain of a telephone being an attempt, the switchboard holds   *)
(* no call of it and its generator has been told to stop: either would     *)
(* have a hang-up pending otherwise.                                       *)
(***************************************************************************)
LEMMA SinColgadaPendiente ==
  ASSUME SafetyInv, NEW n \in Telefonos, NEW x, Hilos(n) = {x},
         x.fn = "Llama"
  PROVE  n \notin DOMAIN llamadas /\ ~porParar[n]
<1>1. Pendientes(agenda, "Cuelga", n) = {}
  BY DEF Hilos, Pendientes
<1>2. Pendientes(agenda, "colgar", n) = {}
  BY <1>1 DEF SafetyInv, CuelganALaVez, Pendientes
<1> QED
  BY <1>1, <1>2 DEF SafetyInv, LlamadaConColgar, OciosoSinHelper

(***************************************************************************)
(* A telephone whose one chain is an attempt is in no call, after a step.  *)
(***************************************************************************)
LEMMA SinColgadaPendienteDespues ==
  ASSUME SafetyInv', NEW n \in Telefonos, NEW x, Hilos(n)' = {x},
         x.fn = "Llama"
  PROVE  n \notin DOMAIN llamadas'
<1>1. \A e \in agenda' : ~(e.fn = "Cuelga" /\ e.tel = n)
  BY DEF Hilos, Pendientes
<1>2. \A e \in agenda' : ~(e.fn = "colgar" /\ e.tel = n)
  BY <1>1 DEF SafetyInv, CuelganALaVez, Pendientes
<1> QED
  BY <1>2 DEF SafetyInv, LlamadaConColgar, Pendientes

(***************************************************************************)
(* A handler changes no field of another telephone.                        *)
(***************************************************************************)
LEMMA CamposDeLosDemas ==
  ASSUME TypeOK, NEW e \in agenda, Maneja(e), NEW n \in Telefonos, n # e.tel
  PROVE  /\ huerfanas'[n] = huerfanas[n]
         /\ m_proximallamada'[n] = m_proximallamada[n]
         /\ m_cuelga'[n] = m_cuelga[n]
         /\ m_llamadaactual'[n] = m_llamadaactual[n]
         /\ m_AppOnOff'[n] = m_AppOnOff[n]
         /\ m_appc'[n] = m_appc[n]
         /\ porParar'[n] = porParar[n]
         /\ m_ocupado'[n] = m_ocupado[n]
         /\ n \in DOMAIN llamadas' <=> n \in DOMAIN llamadas
         /\ n \in DOMAIN llamadas' => llamadas'[n] = llamadas[n]
<1>0. e.tel \in Telefonos
  BY CamposDeEvento DEF TypeOK
<1>1. CASE StartApplication(e)
  BY <1>0, <1>1 DEF StartApplication, ProgramaLlamada, traficoVars, TypeOK
<1>2. CASE LlamaOcupado(e)
  BY <1>0, <1>2
     DEF LlamaOcupado, ProgramaLlamada, Marca, traficoVars, TypeOK
<1>3. CASE LlamaLibre(e)
  <2>1. PICK duracion \in Duraciones, llamado \in Telefonos :
          /\ Marca(e.tel, duracion)
          /\ Llamar(e.tel, llamado)
          /\ Transmite(e.tel, llamado)
    BY <1>3 DEF LlamaLibre
  <2>2. /\ m_ocupado'[n] = m_ocupado[n]
        /\ m_llamadaactual'[n] = m_llamadaactual[n]
    BY <1>0, <2>1 DEF Marca, TypeOK
  <2>3. /\ n \in DOMAIN llamadas' <=> n \in DOMAIN llamadas
        /\ n \in DOMAIN llamadas' => llamadas'[n] = llamadas[n]
    BY <1>0, <2>1 DEF Llamar, Insertada
  <2>4. /\ huerfanas'[n] = huerfanas[n]
        /\ m_AppOnOff'[n] = m_AppOnOff[n]
        /\ m_appc'[n] = m_appc[n]
        /\ porParar'[n] = porParar[n]
    BY <1>0, <2>1 DEF Transmite, TypeOK
  <2>5. /\ m_proximallamada'[n] = m_proximallamada[n]
        /\ m_cuelga'[n] = m_cuelga[n]
    BY <1>0, <1>3 DEF LlamaLibre, TypeOK
  <2> QED
    BY <2>2, <2>3, <2>4, <2>5
<1>4. CASE Descuelga(e)
  BY <1>0, <1>4 DEF Descuelga, Transmite, TypeOK
<1>5. CASE Cuelga(e)
  BY <1>0, <1>5 DEF Cuelga, ProgramaLlamada, BorraHelper, TypeOK
<1>6. CASE Colgar(e)
  BY <1>0, <1>6 DEF Colgar, Borrada, idsVars, traficoVars
<1> QED
  BY <1>1, <1>2, <1>3, <1>4, <1>5, <1>6 DEF Maneja

(***************************************************************************)
(* Exchanging an element of a set for a new one leaves a single element    *)
(* only if the set had a single one.                                       *)
(***************************************************************************)
LEMMA UnoPorUno ==
  ASSUME NEW S, NEW a \in S, NEW x, x \notin S, NEW y,
         (S \ {a}) \cup {x} = {y}
  PROVE  S = {a} /\ y = x
  OBVIOUS

(***************************************************************************)
(* The inductive invariant.                                                *)
(***************************************************************************)
TerminalesInv ==
  /\ SafetyInv
  /\ ListaOK
  /\ Arranques
  /\ SinHilos
  /\ UnHilo

(***************************************************************************)
(* The handlers of telephone n keep its fields in agreement with its only  *)
(* chain.                                                                  *)
(***************************************************************************)
LEMMA ManejaUnHilo ==
  ASSUME TerminalesInv, SafetyInv', NEW e \in agenda, Maneja(e)
  PROVE  UnHilo'
<1> USE DEF TerminalesInv
<1>0. /\ TypeOK /\ IdsOK /\ SiempreActivo /\ e.tel \in Telefonos
      /\ e.de \in Telefonos
  BY CamposDeEvento DEF SafetyInv, TypeOK
<1> SUFFICES ASSUME NEW n \in Telefonos, NEW y, Hilos(n)' = {y}
             PROVE  Concuerda(n, y)'
  BY DEF UnHilo, Telefonos
<1>1. CASE n # e.tel
  <2>1. Concuerda(n, y)
    BY <1>0, <1>1, HilosDeLosDemas DEF UnHilo
  <2> QED
    BY <1>0, <1>1, <2>1, CamposDeLosDemas DEF Concuerda
<1>2. CASE StartApplication(e) /\ n = e.tel
  <2>1. Hilos(n) = {} /\ y.fn = "Llama" /\ m_proximallamada'[n] = y.uid
    BY <1>0, <1>2, HilosAlArrancar
  <2>2. n \notin DOMAIN llamadas'
    BY <2>1, SinColgadaPendienteDespues
  <2>3. huerfanas'[n] = 0
    BY <1>2, <2>1 DEF SinHilos, StartApplication, traficoVars
  <2> QED
    BY <2>1, <2>2, <2>3 DEF Concuerda
<1>3. CASE (LlamaOcupado(e) \/ Cuelga(e)) /\ n = e.tel
  <2>0. ~LlamaLibre(e)
    <3>1. proximoUid' = proximoUid + 1 /\ proximoUid \in Nat
      BY <1>0, <1>3 DEF LlamaOcupado, Cuelga, ProgramaLlamada, TypeOK
    <3> QED
      BY <3>1 DEF LlamaLibre
  <2>1. PICK x : /\ x \notin Hilos(n)
                 /\ Hilos(n)' = (Hilos(n) \ {e}) \cup {x}
                 /\ x.fn = "Llama" /\ m_proximallamada'[n] = x.uid
    BY <1>0, <1>3, <2>0, HilosAlSeguir
  <2>2. e \in Hilos(n)
    BY <1>0, <1>3, HilosAlSeguir
  <2>3. Hilos(n) = {e} /\ y = x
    BY <2>1, <2>2, UnoPorUno
  <2>4. n \notin DOMAIN llamadas'
    BY <2>1, <2>3, SinColgadaPendienteDespues
  <2>5. huerfanas'[n] = 0
    BY <1>3, <2>3 DEF UnHilo, Concuerda, LlamaOcupado, Cuelga, traficoVars
  <2> QED
    BY <2>1, <2>3, <2>4, <2>5 DEF Concuerda
<1>4. CASE LlamaLibre(e) /\ n = e.tel
  <2>1. PICK x : /\ x \notin Hilos(n)
                 /\ Hilos(n)' = (Hilos(n) \ {e}) \cup {x}
                 /\ x.fn = "Cuelga" /\ m_cuelga'[n] = x.uid
    BY <1>0, <1>4, HilosAlSeguir
  <2>2. e \in Hilos(n) /\ e.fn = "Llama"
    BY <1>0, <1>4, HilosAlSeguir DEF LlamaLibre
  <2>3. Hilos(n) = {e} /\ y = x
    BY <2>1, <2>2, UnoPorUno
  <2>4. n \notin DOMAIN llamadas /\ ~porParar[n]
    BY <2>2, <2>3, SinColgadaPendiente
  <2>5. huerfanas[n] = 0
    BY <2>3 DEF UnHilo, Concuerda
  <2>6. PICK duracion \in Duraciones, llamado \in Telefonos :
          /\ Marca(n, duracion)
          /\ Llamar(n, llamado)
          /\ Transmite(n, llamado)
    BY <1>4 DEF LlamaLibre
  <2>7. /\ m_AppOnOff'[n] /\ m_appc'[n] = llamado
        /\ huerfanas'[n] = 0
    BY <1>0, <2>4, <2>5, <2>6 DEF Transmite, TypeOK
  <2>8. llamadas'[n] = llamado
    BY <2>4, <2>6 DEF Llamar, Insertada
  <2>9. m_ocupado'[n]
    BY <1>0, <2>6 DEF Marca, TypeOK
  <2> QED
    BY <2>1, <2>3, <2>7, <2>8, <2>9 DEF Concuerda
<1>5. CASE Descuelga(e) /\ n = e.tel
  <2>1. Hilos(n) # {}
    BY <1>0, <1>5, HilosAlDescolgar
  <2>2. PICK x : /\ x \notin Hilos(n) /\ x.fn = "Cuelga"
                 /\ m_llamadaactual'[n] = x.uid
                 /\ \/ Hilos(n)' = Hilos(n) \cup {x}
                    \/ \E a \in Hilos(n) :
                         /\ a.fn = "Llama" /\ a.uid = m_proximallamada[n]
                         /\ Hilos(n)' = (Hilos(n) \ {a}) \cup {x}
    BY <1>0, <1>5, HilosAlDescolgar
  <2>3. Hilos(n)' # Hilos(n) \cup {x}
    BY <2>1, <2>2
  <2>4. PICK a \in Hilos(n) : /\ a.fn = "Llama"
                              /\ Hilos(n)' = (Hilos(n) \ {a}) \cup {x}
    BY <2>2, <2>3
  <2>5. Hilos(n) = {a} /\ y = x
    BY <2>2, <2>4, UnoPorUno
  <2>6. n \notin DOMAIN llamadas /\ ~porParar[n]
    BY <2>4, <2>5, SinColgadaPendiente
  <2>7. huerfanas[n] = 0
    BY <2>5 DEF UnHilo, Concuerda
  <2>8. m_AppOnOff'[n] /\ huerfanas'[n] = 0 /\ llamadas' = llamadas
    BY <1>0, <1>5, <2>6, <2>7 DEF Descuelga, Transmite, TypeOK
  <2> QED
    BY <2>2, <2>5, <2>6, <2>8 DEF Concuerda
<1>6. CASE Colgar(e) /\ n = e.tel
  <2>1. Concuerda(n, y)
    BY <1>6, HilosAlColgar DEF UnHilo
  <2>2. n \notin DOMAIN llamadas'
    BY <1>6 DEF Colgar, Borrada
  <2> QED
    BY <1>6, <2>1, <2>2 DEF Concuerda, Colgar, idsVars, traficoVars
<1> QED
  BY <1>1, <1>2, <1>3, <1>4, <1>5, <1>6 DEF Maneja

(***************************************************************************)
(* A handler leaves no telephone without chains that had any.              *)
(***************************************************************************)
LEMMA ManejaSinHilos ==
  ASSUME TerminalesInv, NEW e \in agenda, Maneja(e)
  PROVE  SinHilos'
<1> USE DEF TerminalesInv
<1>0. TypeOK /\ IdsOK /\ SiempreActivo
  BY DEF SafetyInv
<1> SUFFICES ASSUME NEW n \in Telefonos, Hilos(n)' = {}
             PROVE  huerfanas'[n] = 0
  BY DEF SinHilos, Telefonos
<1>1. CASE n # e.tel
  BY <1>0, <1>1, HilosDeLosDemas, CamposDeLosDemas DEF SinHilos
<1>2. CASE Colgar(e)
  BY <1>2, HilosAlColgar DEF SinHilos, Colgar, traficoVars
<1>3. CASE StartApplication(e) /\ n = e.tel
  BY <1>0, <1>3, HilosAlArrancar
<1>4. CASE (LlamaOcupado(e) \/ Cuelga(e) \/ LlamaLibre(e)) /\ n = e.tel
  BY <1>0, <1>4, HilosAlSeguir
<1>5. CASE Descuelga(e) /\ n = e.tel
  BY <1>0, <1>5, HilosAlDescolgar
<1> QED
  BY <1>1, <1>2, <1>3, <1>4, <1>5 DEF Maneja

(***************************************************************************)
(* The invariant holds before the run.                                     *)
(***************************************************************************)
LEMMA InitTerminales == Init => TerminalesInv
<1> SUFFICES ASSUME Init PROVE TerminalesInv
  OBVIOUS
<1>1. SafetyInv
  BY InitSafety
<1>2. agenda = {} /\ fase = "registro"
      /\ huerfanas = [n \in Telefonos |-> 0]
  BY DEF Init
<1>3. \A n : Hilos(n) = {}
  BY <1>2 DEF Hilos, Pendientes
<1>4. ListaOK
  BY <1>2, FS_EmptySet DEF ListaOK
<1>5. Arranques
  BY <1>2 DEF Arranques
<1>6. SinHilos /\ UnHilo
  BY <1>2, <1>3 DEF SinHilos, UnHilo
<1> QED
  BY <1>1, <1>4, <1>5, <1>6 DEF TerminalesInv

(***************************************************************************)
(* Building a telephone plans a start and touches no chain.                *)
(***************************************************************************)
LEMMA ConstruyeTerminales ==
  ASSUME TerminalesInv, SafetyInv', Construye
  PROVE  /\ TerminalesInv'
         /\ \A n : Hilos(n)' = Hilos(n)
<1> USE DEF TerminalesInv
<1> DEFINE x == Evento(TInicio, proximoUid, "StartApplication", registrados)
<1>1. /\ x.ts = TInicio /\ x.uid = proximoUid /\ x.fn = "StartApplication"
      /\ x.tel = registrados
  BY CamposNuevos
<1>2. /\ agenda' = agenda \cup {x} /\ fase = "registro" /\ fase' = fase
      /\ registrados' = registrados + 1
      /\ UNCHANGED <<llamadas, huerfanas, m_proximallamada, m_cuelga,
                     m_llamadaactual, m_AppOnOff, m_appc, m_ocupado>>
  BY DEF Construye, Registrar, idsVars, traficoVars
<1> HIDE DEF x
<1>3. /\ TypeOK /\ IdsOK /\ proximoUid \in Nat /\ registrados \in Nat
      /\ TInicio \in Nat
      /\ \A f \in agenda : /\ f.uid \in Nat /\ f.uid < proximoUid
                           /\ f.fn = "StartApplication"
                           /\ f.tel \in Nat /\ f.tel < registrados
                           /\ f.ts = TInicio
  <2>1. /\ TypeOK /\ IdsOK /\ proximoUid \in Nat /\ registrados \in Nat
        /\ TInicio \in Nat
    BY TiemposAssumption, NAssumption DEF SafetyInv, TypeOK
  <2>2. \A f \in agenda : f.uid \in Nat /\ f.uid < proximoUid /\ f.tel \in Nat
    BY <2>1, CamposDeEvento, NAssumption DEF TypeOK, IdsOK, Telefonos
  <2>3. \A f \in agenda : /\ f.fn = "StartApplication"
                          /\ f.tel < registrados /\ f.ts = TInicio
    BY <1>2 DEF Arranques
  <2> QED
    BY <2>1, <2>2, <2>3
<1>4. \A n : Hilos(n)' = Hilos(n)
  BY <1>1, <1>2 DEF Hilos, Pendientes
<1>5. \A f \in agenda' : ~(f.fn \in {"Llama", "Cuelga"})
  BY <1>1, <1>2, <1>3
<1>6. ListaOK'
  BY <1>1, <1>2, <1>3, ListaCrece
<1>7. Arranques'
  <2>1. \A s \in agenda' : s.fn = "StartApplication" /\ s.ts = TInicio
                           /\ s.tel < registrados'
    BY <1>1, <1>2, <1>3
  <2>2. \A s, f \in agenda' : f.tel = s.tel => f = s
    BY <1>1, <1>2, <1>3 DEF Arranques
  <2>3. \A n : Hilos(n)' = {}
    BY <1>5 DEF Hilos, Pendientes
  <2> QED
    BY <1>2, <1>3, <2>1, <2>2, <2>3 DEF Arranques
<1>8. SinHilos'
  BY <1>2, <1>4 DEF SinHilos, Telefonos
<1>9. UnHilo'
  BY <1>2, <1>4 DEF UnHilo, Concuerda, Telefonos
<1> QED
  BY <1>4, <1>6, <1>7, <1>8, <1>9

(***************************************************************************)
(* Every step of the run keeps the invariant.                              *)
(***************************************************************************)
LEMMA NextTerminales == TerminalesInv /\ [Next]_vars => TerminalesInv'
<1> SUFFICES ASSUME TerminalesInv, [Next]_vars
             PROVE  TerminalesInv'
  OBVIOUS
<1>0. SafetyInv' /\ TypeOK /\ IdsOK
  BY NextSafety DEF TerminalesInv, SafetyInv
<1>1. CASE Construye
  BY <1>0, <1>1, ConstruyeTerminales
<1>2. CASE Run \/ Stop \/ Parado \/ UNCHANGED vars
  <2>1. UNCHANGED <<agenda, registrados, llamadas, huerfanas,
                    m_proximallamada, m_cuelga, m_llamadaactual, m_AppOnOff,
                    m_appc, m_ocupado>>
    BY <1>2 DEF Run, Stop, Parado, vars, agendaVars, centralVars, idsVars,
                traficoVars
  <2>2. \A n : Hilos(n)' = Hilos(n)
    BY <2>1 DEF Hilos, Pendientes
  <2>3. ListaOK'
    BY <2>1 DEF TerminalesInv, ListaOK
  <2>4. /\ fase' = "registro" => fase = "registro"
        /\ fase' # "registro" => registrados = N
    BY <1>2 DEF TerminalesInv, Arranques, Run, Stop, Parado, vars
  <2>5. Arranques'
    BY <2>1, <2>2, <2>4 DEF TerminalesInv, Arranques
  <2>6. SinHilos' /\ UnHilo'
    BY <2>1, <2>2 DEF TerminalesInv, SinHilos, UnHilo, Concuerda, Telefonos
  <2> QED
    BY <1>0, <2>3, <2>5, <2>6 DEF TerminalesInv
<1>3. ASSUME NEW e \in agenda, Maneja(e)
      PROVE  TerminalesInv'
  <2>1. ListaOK'
    BY <1>0, <1>3, ManejaLista DEF TerminalesInv
  <2>2. Arranques'
    BY <1>0, <1>3, ManejaArranques DEF TerminalesInv
  <2> QED
    BY <1>0, <1>3, <2>1, <2>2, ManejaUnHilo, ManejaSinHilos DEF TerminalesInv
<1> QED
  BY <1>1, <1>2, <1>3 DEF Next

(***************************************************************************)
(* The invariant of the chains of activity holds in every state of the     *)
(* run.                                                                    *)
(***************************************************************************)
THEOREM Terminados == Spec => []TerminalesInv
  BY InitTerminales, NextTerminales, PTL DEF Spec

(***************************************************************************)
(* While a telephone has one chain, the attempt it has pending is the one  *)
(* it can cancel and no call is held for it; the hang-up it has pending is *)
(* one it knows, and a call the switchboard holds is the one it transmits; *)
(* and it has left no generator running.  Only a call that reaches it when *)
(* it has no attempt to give up breaks this.                               *)
(***************************************************************************)
THEOREM UnHiloCoherente == Spec => []CoherenteConUnHilo
<1>1. TerminalesInv => CoherenteConUnHilo
  BY UnHiloEsCoherente DEF TerminalesInv
<1> QED
  BY <1>1, Terminados, PTL

-----------------------------------------------------------------------------
(***************************************************************************)
(* Telefonia implements Terminales.                                        *)
(***************************************************************************)

(***************************************************************************)
(* The number of chains of each telephone, as Terminales sees it.          *)
(***************************************************************************)
Cuenta == [n \in Telefonos |-> Cardinality(Hilos(n))]

(***************************************************************************)
(* What each handler does to the number of chains of its telephone.        *)
(***************************************************************************)
LEMMA ManejaCuenta ==
  ASSUME TerminalesInv, NEW e \in agenda, Maneja(e)
  PROVE  LET t == Cardinality(Hilos(e.tel))
             u == Cardinality(Hilos(e.tel)')
         IN  \/ u = t
             \/ t = 0 /\ u = 1
             \/ t > 0 /\ u = t + 1
<1> USE DEF TerminalesInv
<1>0. TypeOK /\ IdsOK /\ SiempreActivo
  BY DEF SafetyInv
<1>1. IsFiniteSet(Hilos(e.tel)) /\ Cardinality(Hilos(e.tel)) \in Nat
  BY HilosFinitos
<1>2. CASE StartApplication(e)
  <2>1. PICK x : Hilos(e.tel) = {} /\ Hilos(e.tel)' = {x}
    BY <1>0, <1>2, HilosAlArrancar
  <2>2. Cardinality(Hilos(e.tel)) = 0 /\ Cardinality(Hilos(e.tel)') = 1
    BY <2>1, FS_EmptySet, FS_Singleton
  <2> QED
    BY <2>2
<1>3. CASE LlamaOcupado(e) \/ Cuelga(e) \/ LlamaLibre(e)
  <2>1. PICK x : /\ x \notin Hilos(e.tel)
                 /\ Hilos(e.tel)' = (Hilos(e.tel) \ {e}) \cup {x}
    BY <1>0, <1>3, HilosAlSeguir
  <2>2. e \in Hilos(e.tel)
    BY <1>0, <1>3, HilosAlSeguir
  <2>3. Cardinality(Hilos(e.tel)') = Cardinality(Hilos(e.tel))
    <3>1. \A a \in Hilos(e.tel) :
            Cardinality((Hilos(e.tel) \ {a}) \cup {x})
              = Cardinality(Hilos(e.tel))
      BY <1>1, <2>1, CuentaReemplaza
    <3> QED
      BY <2>1, <2>2, <3>1
  <2> QED
    BY <2>3
<1>4. CASE Descuelga(e)
  <2>1. Hilos(e.tel) # {}
    BY <1>0, <1>4, HilosAlDescolgar
  <2>2. Cardinality(Hilos(e.tel)) > 0
    BY <1>1, <2>1, FS_EmptySet
  <2>3. PICK x : /\ x \notin Hilos(e.tel)
                 /\ \/ Hilos(e.tel)' = Hilos(e.tel) \cup {x}
                    \/ \E a \in Hilos(e.tel) :
                         Hilos(e.tel)' = (Hilos(e.tel) \ {a}) \cup {x}
    BY <1>0, <1>4, HilosAlDescolgar
  <2>4. CASE Hilos(e.tel)' = Hilos(e.tel) \cup {x}
    <3>1. Cardinality(Hilos(e.tel)') = Cardinality(Hilos(e.tel)) + 1
      BY <1>1, <2>3, <2>4, CuentaReemplaza
    <3> QED
      BY <2>2, <3>1
  <2>5. ASSUME NEW a \in Hilos(e.tel),
               Hilos(e.tel)' = (Hilos(e.tel) \ {a}) \cup {x}
        PROVE  Cardinality(Hilos(e.tel)') = Cardinality(Hilos(e.tel))
    <3>1. \A b \in Hilos(e.tel) :
            Cardinality((Hilos(e.tel) \ {b}) \cup {x})
              = Cardinality(Hilos(e.tel))
      BY <1>1, <2>3, CuentaReemplaza
    <3> QED
      BY <2>5, <3>1
  <2> QED
    BY <2>3, <2>4, <2>5
<1>5. CASE Colgar(e)
  BY <1>5, HilosAlColgar
<1> QED
  BY <1>2, <1>3, <1>4, <1>5 DEF Maneja

(***************************************************************************)
(* A step of Telefonia starts a telephone, adds a chain to one that has    *)
(* some, or changes no number of chains.                                   *)
(***************************************************************************)
LEMMA PasoDeTerminales ==
  ASSUME TerminalesInv, [Next]_vars
  PROVE  T!Next \/ Cuenta' = Cuenta
<1>0. SafetyInv' /\ TypeOK /\ IdsOK
  BY NextSafety DEF TerminalesInv, SafetyInv
<1>1. ASSUME NEW e \in agenda, Maneja(e)
      PROVE  T!Next \/ Cuenta' = Cuenta
  <2>0. e.tel \in Telefonos
    BY <1>0, CamposDeEvento DEF TypeOK
  <2> DEFINE t == Cardinality(Hilos(e.tel))
             u == Cardinality(Hilos(e.tel)')
  <2>1. u = t \/ (t = 0 /\ u = 1) \/ (t > 0 /\ u = t + 1)
    BY <1>1, ManejaCuenta
  <2>2. \A n \in Telefonos : n # e.tel => Hilos(n)' = Hilos(n)
    BY <1>0, <1>1, HilosDeLosDemas
  <2>3. /\ Cuenta[e.tel] = t
        /\ Cuenta = [n \in Telefonos |-> Cardinality(Hilos(n))]
        /\ Cuenta' = [n \in Telefonos |-> Cardinality(Hilos(n)')]
    BY <2>0 DEF Cuenta, Telefonos
  <2>4. Cuenta' = [Cuenta EXCEPT ![e.tel] = u]
    BY <2>0, <2>2, <2>3
  <2> HIDE DEF t, u
  <2>5. CASE u = t
    BY <2>0, <2>2, <2>3, <2>4, <2>5
  <2>6. CASE t = 0 /\ u = 1
    <3>1. T!Arranca(e.tel)
      BY <2>3, <2>4, <2>6 DEF T!Arranca, Cuenta
    <3> QED
      BY <2>0, <3>1 DEF T!Next
  <2>7. CASE t > 0 /\ u = t + 1
    <3>1. T!Bifurca(e.tel)
      BY <2>3, <2>4, <2>7 DEF T!Bifurca, Cuenta
    <3> QED
      BY <2>0, <3>1 DEF T!Next
  <2> QED
    BY <2>1, <2>5, <2>6, <2>7
<1>2. CASE Construye
  <2>1. \A n : Hilos(n)' = Hilos(n)
    BY <1>0, <1>2, ConstruyeTerminales
  <2> QED
    BY <2>1 DEF Cuenta, Telefonos
<1>3. CASE Run \/ Stop \/ Parado \/ UNCHANGED vars
  <2>1. UNCHANGED agenda
    BY <1>3 DEF Run, Stop, Parado, vars, agendaVars
  <2>2. \A n : Hilos(n)' = Hilos(n)
    BY <2>1 DEF Hilos, Pendientes
  <2> QED
    BY <2>2 DEF Cuenta, Telefonos
<1> QED
  BY <1>1, <1>2, <1>3 DEF Next

(***************************************************************************)
(* The telephones keep the promise of Terminales: no chain is ever lost,   *)
(* although an attempt is cancelled without looking whether it is still    *)
(* pending, and one step adds one chain at most.                           *)
(***************************************************************************)
THEOREM TelefoniaCumpleTerminales == Spec => CumpleTerminales
<1>1. Init => T!Init
  <2> SUFFICES ASSUME Init PROVE T!Init
    OBVIOUS
  <2>1. \A n : Hilos(n) = {}
    BY DEF Init, Hilos, Pendientes
  <2> QED
    BY <2>1, FS_EmptySet DEF T!Init
<1>2. TerminalesInv /\ [Next]_vars => [T!Next]_Cuenta
  BY PasoDeTerminales
<1> QED
  BY <1>1, <1>2, Terminados, PTL DEF Spec, CumpleTerminales, T!Spec, Cuenta

-----------------------------------------------------------------------------
(***************************************************************************)
(* The run cannot stay in one instant.                                     *)
(***************************************************************************)

(***************************************************************************)
(* Part of a finite set without one of its elements is smaller than it;    *)
(* with one element more, it is larger by one at most.                     *)
(***************************************************************************)
LEMMA CuentaDeParte ==
  ASSUME NEW S, IsFiniteSet(S), NEW P
  PROVE  /\ P \subseteq S => Cardinality(P) <= Cardinality(S)
         /\ \A a \in S : P \subseteq S \ {a} =>
              Cardinality(P) <= Cardinality(S) - 1
         /\ \A x : P \subseteq S \cup {x} =>
              Cardinality(P) <= Cardinality(S) + 1
<1>0. Cardinality(S) \in Nat
  BY FS_CardinalityType
<1>1. P \subseteq S => Cardinality(P) <= Cardinality(S)
  BY FS_Subset
<1>2. ASSUME NEW a \in S, P \subseteq S \ {a}
      PROVE  Cardinality(P) <= Cardinality(S) - 1
  <2>1. IsFiniteSet(S \ {a}) /\ Cardinality(S \ {a}) = Cardinality(S) - 1
    BY FS_RemoveElement
  <2>2. Cardinality(P) <= Cardinality(S \ {a})
    BY <1>2, <2>1, FS_Subset
  <2> QED
    BY <2>1, <2>2
<1>3. ASSUME NEW x, P \subseteq S \cup {x}
      PROVE  Cardinality(P) <= Cardinality(S) + 1
  <2>1. /\ IsFiniteSet(S \cup {x})
        /\ Cardinality(S \cup {x}) = Cardinality(S)
           \/ Cardinality(S \cup {x}) = Cardinality(S) + 1
    BY FS_AddElement
  <2>2. IsFiniteSet(P) /\ Cardinality(P) <= Cardinality(S \cup {x})
    BY <1>3, <2>1, FS_Subset
  <2>3. Cardinality(P) \in Nat
    BY <2>2, FS_CardinalityType
  <2> QED
    BY <1>0, <2>1, <2>2, <2>3
<1> QED
  BY <1>1, <1>2, <1>3

(***************************************************************************)
(* Nothing on the list is overdue, and the clock stands still until the    *)
(* run begins.                                                             *)
(***************************************************************************)
NadaPasado ==
  /\ \A e \in agenda : e.ts >= ahora
  /\ fase = "registro" => ahora = 0

(***************************************************************************)
(* The event that is dispatched sets the clock and is none but the first.  *)
(***************************************************************************)
LEMMA ElReloj ==
  ASSUME NEW e \in agenda, Maneja(e)
  PROVE  /\ ahora' = e.ts /\ e.ts < TStop
         /\ fase = "corriendo" /\ fase' = "corriendo"
         /\ \A f \in agenda \ {e} : Antes(e, f)
  BY DEF Maneja, StartApplication, LlamaOcupado, LlamaLibre, Descuelga, Cuelga,
         Colgar, Despacha, Primero

(***************************************************************************)
(* No step leaves an event overdue: a handler runs the earliest one and    *)
(* schedules nothing before its own instant.                               *)
(***************************************************************************)
LEMMA NextNadaPasado ==
  ASSUME TypeOK, TypeOK', NadaPasado, [Next]_vars
  PROVE  NadaPasado'
<1>0. /\ ahora \in Nat /\ TStop \in Nat /\ TInicio \in Nat
      /\ \A f \in agenda : f.ts \in Nat /\ f.uid \in Nat
      /\ \A f \in agenda' : f.ts \in Nat
  BY CamposDeEvento, TiemposAssumption DEF TypeOK
<1>1. ASSUME NEW e \in agenda, Maneja(e)
      PROVE  NadaPasado'
  <2>1. /\ ahora' = e.ts /\ fase' = "corriendo"
        /\ \A f \in agenda \ {e} : e.ts <= f.ts
    BY <1>0, <1>1, ElReloj DEF Antes
  <2>2. \A g \in agenda' : g \in agenda \ {e} \/ g.ts >= e.ts
    BY <1>1, SoloNuevos DEF Nuevo
  <2> QED
    BY <1>0, <2>1, <2>2 DEF NadaPasado
<1>2. CASE Construye
  <2> DEFINE x == Evento(TInicio, proximoUid, "StartApplication", registrados)
  <2>1. x.ts = TInicio
    BY CamposNuevos
  <2>2. agenda' = agenda \cup {x} /\ ahora = 0 /\ ahora' = 0
    BY <1>2 DEF Construye, NadaPasado
  <2> HIDE DEF x
  <2> QED
    BY <1>0, <2>1, <2>2 DEF NadaPasado
<1>3. CASE Stop
  BY <1>0, <1>3 DEF Stop, NadaPasado
<1>4. CASE Run \/ Parado \/ UNCHANGED vars
  <2>1. UNCHANGED <<agenda, ahora>> /\ (fase' = "registro" => fase = "registro")
    BY <1>4 DEF Run, Parado, vars, agendaVars
  <2> QED
    BY <2>1 DEF NadaPasado
<1> QED
  BY <1>1, <1>2, <1>3, <1>4 DEF Next

(***************************************************************************)
(* What is due now can be counted.                                         *)
(***************************************************************************)
LEMMA DeAhoraFinito ==
  ASSUME ListaOK, NEW f
  PROVE  IsFiniteSet(DeAhora(f)) /\ Cardinality(DeAhora(f)) \in Nat
<1>1. DeAhora(f) \in SUBSET agenda
  BY DEF DeAhora
<1>2. IsFiniteSet(DeAhora(f))
  BY <1>1, FS_Subset DEF ListaOK
<1> QED
  BY <1>2, FS_CardinalityType

(***************************************************************************)
(* A handler that does not move the clock uses up part of what the instant *)
(* has left, unless it plans an attempt that does not wait.                *)
(***************************************************************************)
LEMMA ManejaCarga ==
  ASSUME TerminalesInv, NEW e \in agenda, Maneja(e), ahora' = ahora
  PROVE  Carga' < Carga \/ SinEspera
<1>0. /\ TypeOK /\ IdsOK /\ ListaOK /\ ListaOK' /\ e.ts = ahora
      /\ ahora \in Nat /\ proximoUid \in Nat
      /\ \A f \in agenda : f.uid \in Nat /\ f.uid < proximoUid
  <2>1. TypeOK /\ IdsOK /\ ListaOK
    BY DEF TerminalesInv, SafetyInv
  <2>2. ListaOK'
    BY <2>1, ManejaLista
  <2>3. e.ts = ahora
    BY ElReloj
  <2> QED
    BY <2>1, <2>2, <2>3, CamposDeEvento DEF TypeOK, IdsOK
<1> DEFINE n(f) == Cardinality(DeAhora(f))
           m(f) == Cardinality(DeAhora(f)')
<1>1. \A f : /\ IsFiniteSet(DeAhora(f)) /\ n(f) \in Nat
             /\ m(f) \in Nat
  <2>1. \A f : IsFiniteSet(DeAhora(f)) /\ n(f) \in Nat
    BY <1>0, DeAhoraFinito
  <2>2. \A f : m(f) \in Nat
    <3> SUFFICES ASSUME NEW f PROVE m(f) \in Nat
      OBVIOUS
    <3>1. DeAhora(f)' \in SUBSET (agenda')
      BY DEF DeAhora
    <3>2. IsFiniteSet(agenda')
      BY <1>0 DEF ListaOK
    <3>3. IsFiniteSet(DeAhora(f)')
      BY <3>1, <3>2, FS_Subset
    <3> QED
      BY <3>3, FS_CardinalityType
  <2> QED
    BY <2>1, <2>2
<1>2. \A f : /\ DeAhora(f)' \subseteq DeAhora(f) => m(f) <= n(f)
             /\ \A a \in DeAhora(f) :
                  DeAhora(f)' \subseteq DeAhora(f) \ {a} => m(f) <= n(f) - 1
             /\ \A x : DeAhora(f)' \subseteq DeAhora(f) \cup {x} =>
                  m(f) <= n(f) + 1
  BY <1>1, CuentaDeParte
<1>3. /\ Carga = 5 * n("Llama") + 2 * n("Descuelga") + n("colgar")
                 + n("Cuelga") + n("StartApplication")
      /\ Carga' = 5 * m("Llama") + 2 * m("Descuelga") + m("colgar")
                  + m("Cuelga") + m("StartApplication")
  BY DEF Carga
<1>4. e \in DeAhora(e.fn)
  BY <1>0 DEF DeAhora
<1> HIDE DEF n, m
<1>5. CASE StartApplication(e) \/ LlamaOcupado(e) \/ Cuelga(e)
  <2>1. ProgramaLlamada(e) /\ e.fn \in {"StartApplication", "Llama", "Cuelga"}
    BY <1>5 DEF StartApplication, LlamaOcupado, Cuelga
  <2>2. PICK x : /\ x.fn = "Llama" /\ x.uid = proximoUid
                 /\ x.ts = e.ts => 0 \in Esperas
                 /\ agenda' = (agenda \ {e}) \cup {x}
    BY <1>0, <2>1, Reprograma
  <2>3. CASE x.ts = ahora
    <3>1. x \in agenda' \ agenda
      BY <1>0, <2>2
    <3> QED
      BY <1>0, <2>2, <2>3, <3>1 DEF SinEspera
  <2>4. CASE x.ts # ahora
    <3>1. \A f : DeAhora(f)' \subseteq DeAhora(f) \ {e}
      BY <2>2, <2>4 DEF DeAhora
    <3>2. \A f : m(f) <= n(f)
      BY <1>2, <3>1
    <3>3. m(e.fn) <= n(e.fn) - 1
      BY <1>2, <1>4, <3>1
    <3> QED
      BY <1>1, <1>3, <2>1, <3>2, <3>3
  <2> QED
    BY <2>3, <2>4
<1>6. CASE LlamaLibre(e)
  <2>1. PICK c, d, x : /\ c.fn = "colgar" /\ d.fn = "Descuelga"
                       /\ x.fn = "Cuelga"
                       /\ agenda' = (agenda \ {e}) \cup {c, d, x}
    BY <1>0, <1>6, Concede
  <2>2. e.fn = "Llama"
    BY <1>6 DEF LlamaLibre
  <2>3. /\ DeAhora("Llama")' \subseteq DeAhora("Llama") \ {e}
        /\ DeAhora("StartApplication")' \subseteq DeAhora("StartApplication")
        /\ DeAhora("colgar")' \subseteq DeAhora("colgar") \cup {c}
        /\ DeAhora("Descuelga")' \subseteq DeAhora("Descuelga") \cup {d}
        /\ DeAhora("Cuelga")' \subseteq DeAhora("Cuelga") \cup {x}
    BY <2>1 DEF DeAhora
  <2>4. /\ m("Llama") <= n("Llama") - 1
        /\ m("StartApplication") <= n("StartApplication")
        /\ m("colgar") <= n("colgar") + 1
        /\ m("Descuelga") <= n("Descuelga") + 1
        /\ m("Cuelga") <= n("Cuelga") + 1
    BY <1>2, <1>4, <2>2, <2>3
  <2> QED
    BY <1>1, <1>3, <2>4
<1>7. CASE Descuelga(e)
  <2>1. PICK x : /\ x.fn = "Cuelga"
                 /\ agenda' \subseteq (agenda \ {e}) \cup {x}
    BY <1>0, <1>7, Contesta
  <2>2. e.fn = "Descuelga"
    BY <1>7 DEF Descuelga
  <2>3. /\ DeAhora("Llama")' \subseteq DeAhora("Llama")
        /\ DeAhora("StartApplication")' \subseteq DeAhora("StartApplication")
        /\ DeAhora("colgar")' \subseteq DeAhora("colgar")
        /\ DeAhora("Descuelga")' \subseteq DeAhora("Descuelga") \ {e}
        /\ DeAhora("Cuelga")' \subseteq DeAhora("Cuelga") \cup {x}
    BY <2>1 DEF DeAhora
  <2>4. /\ m("Llama") <= n("Llama")
        /\ m("StartApplication") <= n("StartApplication")
        /\ m("colgar") <= n("colgar")
        /\ m("Descuelga") <= n("Descuelga") - 1
        /\ m("Cuelga") <= n("Cuelga") + 1
    BY <1>2, <1>4, <2>2, <2>3
  <2> QED
    BY <1>1, <1>3, <2>4
<1>8. CASE Colgar(e)
  <2>1. agenda' = agenda \ {e} /\ e.fn = "colgar"
    BY <1>8 DEF Colgar
  <2>2. \A f : DeAhora(f)' \subseteq DeAhora(f) \ {e}
    BY <2>1 DEF DeAhora
  <2>3. (\A f : m(f) <= n(f)) /\ m("colgar") <= n("colgar") - 1
    BY <1>2, <1>4, <2>1, <2>2
  <2> QED
    BY <1>1, <1>3, <2>3
<1> QED
  BY <1>5, <1>6, <1>7, <1>8 DEF Maneja

(***************************************************************************)
(* A step of the run stops it, moves the clock on within the run, or uses  *)
(* up part of the present instant.                                         *)
(***************************************************************************)
LEMMA PasoAcerca ==
  ASSUME TerminalesInv, NadaPasado, Next, fase = "corriendo"
  PROVE  \/ fase' = "parado"
         \/ ahora < ahora' /\ ahora' < TStop
         \/ ahora' = ahora /\ (Carga' < Carga \/ SinEspera)
<1>1. CASE Stop
  BY <1>1 DEF Stop
<1>2. ASSUME NEW e \in agenda, Maneja(e)
      PROVE  \/ ahora < ahora' /\ ahora' < TStop
             \/ ahora' = ahora /\ (Carga' < Carga \/ SinEspera)
  <2>1. ahora' = e.ts /\ e.ts < TStop /\ e.ts >= ahora
    BY <1>2, ElReloj DEF NadaPasado
  <2>2. e.ts \in Nat /\ ahora \in Nat
    BY CamposDeEvento DEF TerminalesInv, SafetyInv, TypeOK
  <2>3. CASE e.ts = ahora
    <3>1. ahora' = ahora
      BY <2>1, <2>3
    <3>2. Carga' < Carga \/ SinEspera
      BY <1>2, <3>1, ManejaCarga
    <3> QED
      BY <3>1, <3>2
  <2>4. CASE e.ts # ahora
    BY <2>1, <2>2, <2>4
  <2> QED
    BY <2>3, <2>4
<1>3. ~Construye /\ ~Run /\ ~Parado
  BY DEF Construye, Run, Parado
<1> QED
  BY <1>1, <1>2, <1>3 DEF Next

(***************************************************************************)
(* The run cannot stay in one instant: while the clock stands still what   *)
(* is left of the instant decreases, except when the time between calls    *)
(* rounds to zero ticks, and the clock only goes forward, up to the stop.  *)
(* Whatever calls whom, a draw of zero is the one way never to end.        *)
(***************************************************************************)
THEOREM ElInstanteSeAgota == Spec => CadaEventoAcerca
<1>1. Init => NadaPasado
  BY DEF Init, NadaPasado
<1>2. TerminalesInv /\ NadaPasado /\ [Next]_vars => NadaPasado'
  <2> SUFFICES ASSUME TerminalesInv, NadaPasado, [Next]_vars
               PROVE  NadaPasado'
    OBVIOUS
  <2>1. TypeOK /\ TypeOK'
    BY NextSafety DEF TerminalesInv, SafetyInv
  <2> QED
    BY <2>1, NextNadaPasado
<1>3. TerminalesInv /\ NadaPasado /\ [Next]_vars =>
        [fase = "corriendo" =>
           \/ fase' = "parado"
           \/ ahora < ahora' /\ ahora' < TStop
           \/ ahora' = ahora /\ (Carga' < Carga \/ SinEspera)]_vars
  BY PasoAcerca
<1> QED
  BY <1>1, <1>2, <1>3, Terminados, PTL DEF Spec, CadaEventoAcerca
=============================================================================
