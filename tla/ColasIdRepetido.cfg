SPECIFICATION Spec
CONSTANTS
  Mensaje = {m1, m2}
  Hilo = {h1}
  Proceso = {team}
  Cola <- UnaCola
  Nada = Nada
  Capacidad = 2
CHECK_DEADLOCK FALSE
INVARIANT IdsUnicos
