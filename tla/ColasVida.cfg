SPECIFICATION FairSpec
CONSTANTS
  Mensaje = {m1, m2}
  Hilo = {h1, h2}
  Proceso = {team, gamecard}
  Cola <- Colas
  Nada = Nada
  Capacidad = 1
ACTION_CONSTRAINTS EnOrden DosEnUnaCola
CHECK_DEADLOCK FALSE
INVARIANT EntregaDeSuCola
PROPERTIES TodoMensajeLlega TodoPublicadorTermina
