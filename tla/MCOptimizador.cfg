\* MaxX is the largest integer of TLC, half of that of the code; what an
\* undefined conversion gives is zero, the sign bit alone or all the bits.
CONSTANTS
  Listas <- MCListas
  TasasCodec <- MCTasas
  Objetivos <- MCObjetivos
  Calidades = {0, 1}
  Byte = 256
  MaxX = 2147483647
  Indefinidos = {0, 1073741824, 2147483647}
  Aparatos = {a, b}
SPECIFICATION FairSpec
INVARIANTS
  TypeOK
  EnlacesAcotados
  DestruidoUnaVez
PROPERTIES
  CadaPasoAcerca
  AcabaOPredice
