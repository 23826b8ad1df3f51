\* Four packets, one from a router, one not IP; ticks of half a millisecond.
CONSTANTS
  Paquetes <- MCPaquetes
  DeIP = {1, 2, 3}
  DeRouter = {3}
  Destino <- MCDestino
  TicksPorMs = 2
  TFin = 4
SPECIFICATION Spec
INVARIANTS
  TypeOK
  ArrayEsLoPendiente
  EnviadosCuadran
  MuestrasEmparejadas
  JitterSeCancela
