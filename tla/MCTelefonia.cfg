\* Two telephones; a call of zero ticks has all its events in one instant.
CONSTANTS
  N = 2
  Esperas = {1}
  Duraciones = {0, 1, 2}
  TInicio = 1
  TStop = 5
SPECIFICATION FairSpec
INVARIANTS
  TypeOK
  LlamadaConColgar
  CuelganALaVez
  SiempreActivo
  OciosoSinHelper
  CoherenteConUnHilo
PROPERTIES
  SinMarcadoEntreColgadas
  CumpleTerminales
  CadaEventoAcerca
  Termina
