SPECIFICATION Spec
CONSTANTS
  TAMANO_MEMORIA = 8
  Configuraciones <- SoloBuddy
  MaxMensajes = 5
  MaxUsos = 0
CHECK_DEADLOCK FALSE
INVARIANT SinVictimaNula
