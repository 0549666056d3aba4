SPECIFICATION Spec
CONSTANTS
  Escenarios <- DosPosiciones
  Largo <- Largos
  Basura = Basura
  Nada = Nada
CHECK_DEADLOCK FALSE
INVARIANT LocalizedFiel
