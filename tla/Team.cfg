SPECIFICATION Spec
CONSTANTS
  Nulo = Nulo
  Nombres = {"A", "O", "P", "Q", "R"}
  Escenarios <- Equipos
CHECK_DEADLOCK FALSE
INVARIANTS TypeOK ColaConItems UnoSinDesalojo CupoRespetado EsperaConRespuesta
PROPERTIES CapturaFiel
