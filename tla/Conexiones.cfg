SPECIFICATION FairSpec
CONSTANTS
  Escenarios <- TodosLosEscenarios
  Largo <- Largos
  Basura = Basura
  Nada = Nada
CHECK_DEADLOCK FALSE
INVARIANTS SuscripcionReal MensajeFiel
PROPERTY TodosAtendidos
