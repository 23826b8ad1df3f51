\* Voice for a number does not reach its telephone.
CONSTANTS
  MaxTelef = 2
  MaxEnlaces = 1
  MaxCambios = 1
  TTL = 4
SPECIFICATION Spec
INVARIANT
  LlegaAlRegistrado
