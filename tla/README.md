# Verification of simvoip

simvoip (`src/`) simulates the telephony of a company with two sites. Every
telephone calls numbers drawn by a switchboard, talks for a random time through
an on/off traffic generator, hangs up and plans its next call. An observer
measures loss, delay and jitter, and `main` looks for the cheapest set of links
between the sites that reaches a target quality. The program runs on ns-3, of
which the repository holds the headers (`src/ns3/`) only: the simulator is an
environment here, modelled from its interface and from how the program uses it.

Names in the modules are those of the code, Spanish included.

## Inventory

| Component | Code | State | Operations |
|---|---|---|---|
| Event list | ns-3 (`ns3/simulator.h`) | clock, pending events, next uid | Schedule, ScheduleNow, Cancel, Run, Stop |
| Switchboard | `Central.cc/.h` | `telefonos`, `objetos_voip`, `llamadas` | `registrar`, `llamar`, `colgar`, `GetNumLlamadas` |
| Telephone | `voip.cc/.h` | `m_ocupado`, `m_duracion`, three event ids, `m_AppOnOff`, `m_appc` | `StartApplication`, `ProgramaLlamada`, `Llama`, `Descuelga`, `Cuelga`, `CancelaLlamada`, `StopApplication` |
| Observer | `Observador.cc/.h` | `array`, `arrayTiempoAnterior`, counters, three averages, `acumulaTiempo`, `tiempoInicial` | `PktEnviado`, `PktRecibido`, `GetQoS`, `Reset`, `ActualizarNumLlamadas`, `empiezaTransmitir`, `terminaTransmitir`, `GetOcupacion` |
| Optimiser | `simvoip.cc` `main` | `resultado`, `anterior`, `x`, the maps of speeds and rates | parsing, phase I (prediction), phase II (descent), report |
| Topology | `simvoip.cc` 228-374 | nodes, devices, addresses, static routes | built once per simulation |
| Simulation run | `simvoip.cc` 383-522 | telephones, traces, queue limits | construct, Run, read the results, delete, Destroy |
| Link rotation | `simvoip.cc` `cambiaEnlace` | interface metrics | every 100 ms |
| Reference counts | `ns3/simple-ref-count.h`, `ns3/ptr.h` | `m_count` | Ref, Unref, destructor |
| Generator, devices, error model, forwarding | ns-3 | | library |

How they interact. Everything happens inside events that the simulator runs one
at a time, to completion: there is one thread. A telephone's `Llama` calls the
switchboard synchronously; the switchboard counts the call in the observer,
schedules its own `colgar`, and returns the callee's object, on which the caller
schedules `Descuelga` at the present instant. Caller, callee and switchboard then
each schedule the end of the call on their own. The observer is called back by
the devices of the telephones (MacTx, MacRx) and of one router (PhyTxBegin,
PhyTxEnd), and read after the run.

What is hard. The concurrency is that of events: three objects hold a copy of
each call and end it by separate events; calls overlap because the switchboard
tests callers only; ids of events that have run are kept and cancelled; events of
one instant run in the order of their Schedule calls. In the observer: packets
lost, overtaken and forwarded, integer divisions, averages without samples. In
`main`: loops whose exit depends on a field nobody writes, eight-bit counters and
a division by a slope that can be zero. In the network: addresses are given by one
loop, routes written by others and metrics changed by a third, each counting
interfaces for itself. The telephones are deleted by `simular` and dropped again
by the library. `PROJECT.json` lists these with their
lines under `hazards`.

What makes each component correct:

- switchboard: a call held is a call whose end is planned; the count reported
  counts the calls in progress; a telephone takes part in one call;
- telephone: it never goes dead; its fields agree with the event list and the
  switchboard; once it has hung up it has told its generator to stop and leaks no
  helper, and the generator is silent;
- observer: the structure is what the network still holds; each packet is counted
  once; averages over the right packets; the busy time is the time busy;
- optimiser: every speed given is kept, the search ends, its eight-bit fields stay
  in range, the answer is a simulation that met the target;
- topology: gateways are where routes say, every packet has a route, routers pass
  voice on to the other site, voice reaches the telephone that registered the
  number; link rotation: the links take turns;
- run: a telephone is destroyed once.

Several of these the code does not keep: voice reaches routers and never the
registered telephone, site 2 never reaches site 1, the metrics of the rotation are
not those of the links, speeds are lost, the search never learns the quality it
measures and may not end, a telephone in a call may be called, and generators
outlive the hang-up. Runs below show the ones that take several steps to go wrong; a
list after them has the rest.

## Modules

`Agenda` is the event list: records of time, uid, function, telephone and the
arguments of `Descuelga`. `Primero` is the event that runs next, least time and
then least uid. A cancelled event is removed, where the library marks it and
skips it. uids are taken from one counter; only their order and identity matter.

`Central` EXTENDS `Agenda`: the registry of calls is a function from caller to
callee, `Insertada` keeps an existing entry as `std::map::insert` does,
`ActualizarNumLlamadas` keeps the maximum of the observer's average.

`Telefonia` EXTENDS `Central`: one action per handler, each with everything the
handler does, the switchboard's code included.

| Action | Code |
|---|---|
| `Construye` | the loops of `simular` and the constructor, with `registrar` |
| `Run`, `Stop` | `Simulator::Run`; the stop event, which precedes the others of its instant |
| `StartApplication` | `voip::StartApplication` |
| `LlamaOcupado`, `LlamaLibre` | `voip::Llama` with `Central::llamar`, by its answer |
| `Descuelga`, `Cuelga` | `voip::Descuelga` with `CancelaLlamada`, `voip::Cuelga` |
| `Colgar` | `Central::colgar` |

The helper pointer is whether it is NULL, and the container `m_appc` is the peer of
the last generator installed, which `Cuelga` leaves in it. Two history variables go
with it: `porParar`, whether `Stop` has yet to be called on the generator in the
container, and `huerfanas`, how many generators a later call replaced before `Stop` was
called on them. What a call of `Stop` achieves is in `Generadores`. Codec rates, packet sizes and on/off times are left out: no handler
tests them. `Terminales` is the abstract specification of the telephones, the
number of chains of activity each has; `Telefonia!T` is the refinement mapping.

`Observador` holds the per-packet callbacks and `GetQoS`; the network is its
environment (`Sale`, `Llega`, `Emite`), with a clock. A packet is in one place;
one that is dropped never arrives; it may be forwarded once received, so that it leaves a telephone again
under the same uid, and routers emit packets no callback saw. `Red` shows that this
is what the topology produces. Averages are the
number and the sum of their samples. `noIP`, `base` and `vistos` are history
variables that no action reads. `Reset` is included although the program does not
call it. The float value of the quality is not computed.

`Ocupacion` holds the callbacks of the link with the device that makes them: one
packet on the wire, a queue cut to `MaxPackets`, the end of one transmission and
the start of the next in a single event.

`Generadores` EXTENDS `Telefonia` with the library's side of a generator: an
installed application is initialised by an event of the same instant and starts as
long after that as `Start` was told. A `Stop` sets a stop time, which only the
initialisation reads: it is of use when the hang-up belongs to the instant of the
installation and has a lower uid than the initialisation (`ParaATiempo`), and of none
in every other case. Each of its actions is a
handler of `Telefonia` together with what it makes of the generators.

`Topologia` is the network `simular` builds, as operators of the number of
telephones of each site and of the number of links: the order of the devices gives
interfaces and addresses (`Devices`, `Rdevices`, `EnRed`), the three loops of
routes give `RutaTerminal` and `RutasRouters`, which with the routes of the
interfaces themselves make the `Tabla` of a node; `Elegida` is the library's
choice, longest prefix and then last added. `Registrada` is the address that
`GetAddress(i)` gives the telephones.

`Red` EXTENDS `Topologia` with `cambiaEnlace` (`CambiaEnlace`, `Serie`) and one
packet followed hop by hop: a generator sends it (`Envia`), it reaches the other
end of a link (`Llega`), is dropped (`Pierde`), forwarded (`Reenvia`) or ends; a
voice packet that ends, at an address with no listener or for want of hops, makes
the node send one ICMP error, which is followed the same way. The rules of
forwarding are ns-3's and marked external. `viaje` and `oyentes` are history
variables: what MacTx and MacRx show of each packet, and the telephones reached.
`Viaje` is the abstract specification of those traces, which is the environment
`Observador` assumes (its actions `Emite`, `Sale` and `Llega` on the variable
`red`); `Red!V` is the refinement mapping.

`Vida` is the life of the telephones: `m_count` and the destructor runs, through
`new`, `AddApplication`, `delete` and the release by the nodes. `Optimizador`
EXTENDS it with `main`, a step per statement group that changes state, and
`simular` reduced to its order: build, shorten two queues, run, measure, delete,
destroy.

| Action | Code |
|---|---|
| `LeeVelocidad`, `FinVelocidades`, `LeeTasa`, `FinTasas` | the two parsing loops |
| `FaseI`, `FinFaseI` | the condition of phase I |
| `Predice` | the slope, the quotient and its conversion, `anterior = resultado`, zero links |
| `Reparte`, `FinReparte`, `ReparteSinVelocidad` | the loop that spreads the prediction, division by a zero rate included |
| `FaseII`, `Anota`, `Informa` | phase II and the solution |
| `Construye`, `CambiaColas`, `CambiaColasSinEnlaces` | `simular` up to the queues; with no links `Rdevices.Get(0)` does not exist |
| `Mide`, `MideSinTrafico` | the run and `GetQoS`, which may divide by zero |
| `BorraAparato`, `Destruye`, `DestruyeYMuere` | the deletes in any order, `Simulator::Destroy`, which uses deleted objects and may end the program |

A slope of zero makes the predicted number infinite or not a number, and its
conversion to `uint32_t` is undefined. The constant `Indefinidos` is what such a
conversion may give, any set of integers of the width as far as the theorems are
concerned; the runs give it zero, the sign bit alone and all the bits, which are what
builds produce. With the code as it is the difference of qualities is always zero; the
other branch of `ValoresDeX` is the value of the expression for a program that returns
the quality.

Two measures say what is left. `Carga` of `Telefonia` weighs the events due at
the present instant by those they may become before the clock moves; `CadaEventoAcerca`
says that each event of the run ends it, moves the clock on or lowers the weight,
unless it plans an attempt that does not wait. `Vueltas` and `Tramo` of `Optimizador` are
the rounds left to `main` and the steps left of the present one; `CadaPasoAcerca` says that
every step lowers the pair, but for a prediction other than zero. They are what makes
`Termina` and `AcabaOPredice` true once the steps are known to be taken.

The modules named `...Proofs` hold the theorems about the module they are named
after, `Induccion` the lemmas on induction they share.

`MCTelefonia`, `MCObservador`, `MCOcupacion`, `MCRed`, `MCOptimizador` and
`MCGeneradores` are the instances for TLC.
Definitions marked "Fault" are plausible bugs of one definition each, used to
test that the properties can fail; no specification uses them.

## Runs

| Run | Checks | Bounds |
|---|---|---|
| `telefonia` | `TypeOK`, `LlamadaConColgar`, `CuelganALaVez`, `SiempreActivo`, `OciosoSinHelper`, `CoherenteConUnHilo`, `SinMarcadoEntreColgadas`, `CumpleTerminales`, `CadaEventoAcerca`, `Termina` | 2 telephones, durations {0,1,2}, 5 ticks |
| `observador` | `TypeOK`, `ArrayEsLoPendiente`, `EnviadosCuadran`, `MuestrasEmparejadas`, `JitterSeCancela` | 4 packets, one from a router, one not IP; 4 ticks of half a millisecond |
| `ocupacion` | `TypeOK`, `AcumulaExacto` | packets of 1 to 3 ticks, queue of 5, 12 ticks |
| `red` | `TypeOK`, `PasarelaEnFrente`, `SiempreEstatica`, `SoloOyeElRebote`, `CumpleViaje` | sites of 1 to 3 telephones, 1 to 3 links, 2 rotations, 5 hops |
| `optimizador` | `TypeOK`, `EnlacesAcotados`, `DestruidoUnaVez`, `CadaPasoAcerca`, `AcabaOPredice` | lists of 1 to 3 speeds, targets -1, 0, 1, qualities 0, 1, 2 telephones, fields of 8 bits |

Why the bounds are enough. Telephones start at tick 1. With two of them, a call
to oneself and to the other, a call to a telephone that is already talking, and a
refused call all happen; five ticks, with times between calls of one, let a
telephone that has two chains hang up twice and attempt again. A duration of zero
puts all the events of a call in one instant, which is where their order matters.
Two callers share a callee when one of them calls itself. What a third telephone
could add to the safety properties is settled by the theorems, which hold for every
number of them. Of the four packets two overtake each other, one comes from a router and
is then forwarded, and one is not IP; four ticks let a packet be received,
forwarded and received again, and the fraction of a millisecond be dropped. Time is
bounded by the stop of the run itself (`TStop`, `TFin`), so no counter of those
modules needs another bound.

`red` covers every shape that matters of the two sites: fewer, as many and more
links than telephones, and sites of different sizes. Three links are the most the
optimiser ever asks for (`EnlacesAcotados`). `MaxCambios` bounds the calls of
`cambiaEnlace`: the second call already repeats the metrics of the first. A voice
packet and its error bounce twice with `TTL` five, and what they visit repeats from
there; the code has 64.

`optimizador` has lists of one speed (which leaves the map empty), of two and of
three, with a slow speed among them; `VelocidadAssumption` asks that no speed be
below 1432 bits per second, which is what keeps the largest prediction within three
links (`MaxX` is half of the code's, TLC's largest integer, and the assumption
scales with it; so do the results of the undefined conversion). It leaves out the case
in which the loop of the prediction, with a slower speed, would count its eight bits
round for ever. Two values of the quality are enough to be above and below a
target. All widths are those of the code.

What the runs show beyond that nothing breaks. Voice bounces between a router and
one telephone until its hops end: within a site it reaches nobody, and of the voice
for the other site only the one telephone it bounces off hears anything. The rotation
acts on routes that no node consults. Whatever an undefined conversion gives, no more
than three links are asked for, and only a prediction other than zero keeps `main`
from its end.

The other runs check, one by one, what a comment of the code says and the code
does not do; `findings` in `PROJECT.json` quotes the lines.

- `llamada_almacenada`: a telephone that is called while it is in a call gets a second
  chain of calls; a call it then makes is granted, but `insert` does not store it and the
  maximum of simultaneous calls misses it;
- `cuelga_en_duracion`: the callee hangs up after its own last duration;
- `calla_al_colgar`: a telephone that hung up has a generator running, because
  `Start` was given an absolute time and `Stop` comes too late;
- `porcentaje`: the percentage of losses is 0 when some packets are lost;
- `llega_al_registrado`: voice ends at a router, which owns the address under
  which the telephone was registered;
- `sede2_cruza`: what router 2 sends on for site 1 comes back to a telephone of site 2,
  because its table is written to router 1;
- `superada_pasa`: a simulation of phase I that exceeds the target is not followed by
  phase II, because `simular` does not return the quality it measures; with an undefined
  conversion that gives other than zero `main` goes on for ever.

Some disagreements need no search, and no run looks for them:

- `simvoip.cc:84` and 88 have each speed of the list kept in the map; the key is never
  incremented and the last element has no separator after it, so one speed at most is
  kept (`UnaVelocidadParaTodo`);
- `simvoip.cc:177-178` and 212 have the program report the simulation before the one that
  failed; it reports only when nothing was simulated (`SoloInformaSinSimular`);
- `simvoip.cc:537` and 539 speak of the links of the routers; the interfaces counted
  are the telephones' (`RotanLosTelefonos`);
- `simvoip.cc:353` is a route to the other site; while site 1 has as many telephones as
  there are links it leads back to one of them (`NoHayVuelta`);
- `voip.h:102` has `m_ocupado` tell whether a telephone is busy; a refused attempt leaves
  it set. No handler reads it.

Fairness. There are two liveness properties that hold. For `Termina`, `FairSpec` of
`Telefonia` asks for weak fairness of the whole next-state relation: `Simulator::Run` is a loop that
dispatches the next event until the stop event, so it does not rest while there
is one. No single action is assumed fair. The run draws times between calls of at
least one tick: the code's draws are exponential, and with the resolution of one
microsecond a draw of zero is possible, but an endless row of them is not a
behaviour of the program. For `AcabaOPredice`, `FairSpec` of `Optimizador` asks for the
same of `main`, which is one thread that waits for nobody: it ends, or it predicts
other than zero again and again. `SuperadaPasa` is checked under the same fairness, so
its counterexample is not a program that rests but the endless row of predictions.

## Proofs

`TelefoniaProofs` proves its theorems for every number of telephones, every set of
times and durations (zero included), every start and every stop, from
`NAssumption` (there is a telephone) and `TiemposAssumption` (times are naturals).

- `TypeCorrect`: `Spec => []TypeOK`, one case per action, with a lemma for each
  operator several handlers share.
- `Safety`: `Spec => []SafetyInv`. None of the four properties is inductive by
  itself, because `Descuelga` cancels whatever event has the uid that
  `m_proximallamada` holds, possibly of an event long gone. `IdsOK` says that
  uids on the list are below the next one and that the one held by a telephone
  can only be that of an attempt of that telephone; then `Quedan` gives what a
  handler leaves on the list, and each property follows handler by handler. The
  order of dispatch is used once, for `CuelganALaVez`: the caller's hang-up
  cannot run before the switchboard's, which has a smaller uid.
- `NingunNumeroAtascado`, `FinSimultaneo`, `NingunTelefonoMuerto` and
  `HelperLiberado` are its corollaries for the properties the runs check. The last one
  says that `Stop` has been called, not that the generator is silent, which
  `calla_al_colgar` refutes.
- `NadieMarcaEntreColgadas`: `Spec => SinMarcadoEntreColgadas`. `CuelganALaVez` is
  too weak for it: another event of the instant might have a uid between those
  of the two ends. `FinConsecutivo` says that the caller's end has the uid of the
  switchboard's plus two, and that the one between can only be a `Descuelga`; it
  is inductive because what a handler schedules gets new uids (`UidsNuevos`).

`TerminalesProofs` EXTENDS it, under the same assumptions, with what needs the number
of events a telephone has on the list.

- `Terminados`: `Spec => []TerminalesInv`. Counting needs three facts `SafetyInv` lacks:
  the list is finite and a uid names one event of it (`ListaOK`), so that
  `Simulator::Cancel` removes one attempt at most; the starts precede every other
  event and a telephone whose start is pending has nothing else (`Arranques`), so
  that nobody is called before it has started; and a telephone with no chain has
  left no generator it has not told to stop (`SinHilos`). `UnHilo` is the property below
  told of the set of chains instead of its cardinality.
- `UnHiloCoherente`: `Spec => []CoherenteConUnHilo`.
- `TelefoniaCumpleTerminales`: `Spec => CumpleTerminales`, the refinement of
  `Terminales`. `ManejaCuenta` says what each handler does to the number of chains of
  its own telephone, `HilosDeLosDemas` that it does nothing to the others.
- `ElInstanteSeAgota`: `Spec => CadaEventoAcerca`. `NadaPasado` says that nothing on the
  list is overdue, so the clock only goes forward; `ManejaCarga` compares the weight of
  the instant before and after each handler. A call of zero ticks is what the weights
  are for: its attempt becomes three events of the same instant and a fourth when
  the callee answers.

`Induccion` holds no definition of the program. The installed provers cannot use the
library's induction theorems, which take an operator as a parameter; but a property
of finite sets or of naturals is also a set, and `SubconjuntoMinimo` and
`NaturalMinimo` give the least element of the set of counterexamples. From them come
the facts about `SumFunction` of the community modules that the jitter needs: its
value does not depend on the order of the sum (`SumaElemento`), and what it becomes
when one value changes or is added (`SumaCambiaUno`, `SumaUnoMas`).

`ObservadorProofs`, from `ObservadorAssumption` (finitely many packets, at least a tick
a millisecond):

- `Cuentas`: `Spec => []ObservadorInv`. The four invariants of the run are inductive
  together only: that a packet is counted once needs to know that one which leaves is
  not in the structure, the percentage needs that no more are lost than sent, and the
  pairing of samples that a stored delay is never the zero that means "none yet".
- `TipoDelObservador`, `EstructuraEsLoPendiente`, `CadaPaqueteUnaVez`, `MismasMuestras`:
  its parts.
- `JitterNoMideVariacion`: `Spec => []JitterSeCancela`, with the sum over the
  destinations of last delay minus first.

`OcupacionProofs`, from `OcupacionAssumption`: `OcupacionExacta` and
`TipoDeLaOcupacion`. `EnOrden` adds that a transmission began in the past, that its end
is not missed and that packets wait only while one is on the wire.

`RedProofs`, for every number of telephones in each site, of links, of rotations and of
hops, from `RedAssumption`. The first half is about `Topologia` alone: what the tables
contain (`TablaDeTelefono`, `TablaDeRouter` and the lemmas before them), which of the
routes that match is last (`UltimoEs`), and from them `Salto`, where a packet for each
site goes next from each node.

- `RedSegura`: `Spec => []RedInv`. `Metricas` is what `cambiaEnlace` has set, `Recorrido`
  the nodes voice can be at (its router, the one telephone it bounces off, or router
  2), `Rastro` what MacTx and MacRx have shown of a packet given where it is.
- `TipoDeLaRed`, `PasarelasCorrectas`, `RotarNoEncamina`, `NadieMasOye`: the
  invariants of the run.
- `RotanLosTelefonos` and `NoHayVuelta`: how far rotation and routes are from what their
  comments say, for every size. The metrics of the rotation never touch a link while the links are no more than
  the telephones; packets cross from site 1 only, and only over links in excess of
  its telephones.
- `RedCumpleViaje`: `Spec => CumpleViaje`. The network keeps the promise that
  `Observador` is written on, so `Cuentas` applies to it.

`OptimizadorProofs`, for every list of speeds, target, quality and number of telephones,
from `OptimizadorAssumption`, `VelocidadAssumption` (discussed under Runs) and
`AparatosAssumption` (finitely many telephones):

- `Busqueda`: `Spec => []OptimizadorInv`. As `simular` returns no quality, the target
  alone says which phase `main` is in (`Rumbo`); the key of the map is always 0, so the
  index of the speed leaves 0 only in phase II with an empty map (`Mapa`); the links
  reach 0 in phase II only inside `simular`, which aborts there, so they never go round
  to 255 (`Enlaces`); every telephone has two references while `simular` uses it
  (`DosReferencias`).
- `TipoDelOptimizador`, `NuncaMasDeTresEnlaces`, `NadieMuereDosVeces`: its consequences.
- `UnaVelocidadParaTodo` and `SoloInformaSinSimular`: how far the parsing and the report
  are from what their comments say.
  Whatever speeds are given every simulation is at the same one, and a solution is
  reported only when nothing was simulated.
- `SoloPredecirAleja`: `Spec => CadaPasoAcerca`, for any measurements and any
  `Indefinidos`, with one more invariant, `Rondas`: a prediction of zero adds no link, and
  without links a simulation does not get as far as running.

Every invariant and every action property of the passing runs is stated by a theorem.
Only model-checked: the two liveness properties that hold, `Termina` and `AcabaOPredice`,
because the prover does neither liveness under fairness nor ENABLED, which weak
fairness is defined with. The theorems have all but the fairness: `Vueltas`, `Tramo`
and, within an instant, `Carga` are naturals that the steps lower, the last one
while no time between calls is zero, which is what `telefonia` runs with. Also left
to TLC are the seven runs that look for a counterexample, and `Generadores`, which only
one of them uses.

## Plan

1. Done: the modules above, and theorems for every invariant, action property and
   refinement of the passing runs.
2. Next: lemmas on `Generadores`, for what does hold of a generator that outlives its
   call.

## Not modelled

- `StopApplication`: due at the instant of `Simulator::Stop` with a later uid, it
  is never dispatched, and its body is empty.
- The start of an application goes through an initialisation event of its node at
  time 0; `Construye` puts the start itself on the list.
- Rates of the codec, packet sizes and on/off times: they only parameterise the
  traffic of the library's generator.
- The headers of ns-3 other than those named above. They are the interface of a
  library whose implementation is not in the repository; what of it the program
  relies on is modelled as environment where it is used. `ns3/` is nearly all of the
  lines under `src/`, so the lines mapped are few of them, though they are nearly
  all of the program's own.
- The global routes that `cambiaEnlace` recomputes: no node consults them
  (`SiempreEstatica`).
- In debug builds the log of `main` looks speeds up with `operator[]` before each
  simulation, which may insert the rate 0 that the prediction inserts later.
- Telephones above 65535 a site, which `simular` truncates to `uint16_t`, and the
  exhaustion of a site's addresses.
- `getOcupado`, `setDestino`, `setTamPaquete`, `GetMediaLlamadas`, the copy operator
  of `voip`: no caller.
- The insides of ns-3, pcap files, plots, logging and command-line parsing.
