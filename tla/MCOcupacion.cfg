\* Twelve ticks, packets of one to three ticks, the queue of the program.
CONSTANTS
  TiemposTx = {1, 2, 3}
  MaxPackets = 5
  TFin = 12
SPECIFICATION Spec
INVARIANTS
  TypeOK
  AcumulaExacto
