\* A generator starts when its call is over, and is never stopped.
CONSTANTS
  N = 2
  Esperas = {1, 2}
  Duraciones = {1, 2}
  TInicio = 1
  TStop = 6
SPECIFICATION GenSpec
INVARIANT
  CallaAlColgar
