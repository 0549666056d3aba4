SPECIFICATION FairSpec
CONSTANTS
  Nulo = Nulo
  Nombres = {"A", "O", "P", "Q", "R"}
  Escenarios <- EquiposSanos
CHECK_DEADLOCK FALSE
PROPERTY TeamTermina
