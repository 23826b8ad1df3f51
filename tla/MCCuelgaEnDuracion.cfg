\* voip.h: Descuelga plans Cuelga after the duration.
CONSTANTS
  N = 2
  Esperas = {1}
  Duraciones = {1, 2}
  TInicio = 1
  TStop = 4
SPECIFICATION Spec
PROPERTIES
  CuelgaEnDuracion
