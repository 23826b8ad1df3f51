\* Up to three telephones in a site and three links, the most the optimiser
\* asks for; five hops are enough for a packet to bounce twice.
CONSTANTS
  MaxTelef = 3
  MaxEnlaces = 3
  MaxCambios = 2
  TTL = 5
SPECIFICATION Spec
INVARIANTS
  TypeOK
  PasarelaEnFrente
  SiempreEstatica
  SoloOyeElRebote
PROPERTIES
  CumpleViaje
