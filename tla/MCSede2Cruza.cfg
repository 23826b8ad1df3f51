\* What router 2 sends on for the other site comes back to a telephone.
CONSTANTS
  MaxTelef = 2
  MaxEnlaces = 1
  MaxCambios = 1
  TTL = 4
SPECIFICATION Spec
PROPERTY
  Sede2Cruza
