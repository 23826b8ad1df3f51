\* Observador.cc: the percentage of lost packets.
CONSTANTS
  Paquetes <- MCPaquetes
  DeIP = {1, 2, 3}
  DeRouter = {3}
  Destino <- MCDestino
  TicksPorMs = 2
  TFin = 3
SPECIFICATION Spec
INVARIANTS
  PorcentajeEsDePerdidos
