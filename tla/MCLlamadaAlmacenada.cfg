\* Central.h: whom a telephone is talking to is stored.
CONSTANTS
  N = 2
  Esperas = {1}
  Duraciones = {1, 2, 3}
  TInicio = 1
  TStop = 6
SPECIFICATION Spec
PROPERTIES
  LlamadaAlmacenada
