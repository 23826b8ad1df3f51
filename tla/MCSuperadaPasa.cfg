\* A quality above the target does not end phase I.
CONSTANTS
  Listas <- MCListas
  TasasCodec <- MCTasas
  Objetivos = {1}
  Calidades = {0, 2}
  Byte = 256
  MaxX = 2147483647
  Indefinidos = {0, 1073741824, 2147483647}
  Aparatos = {a}
SPECIFICATION FairSpec
PROPERTY
  SuperadaPasa
