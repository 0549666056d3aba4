SPECIFICATION Spec
CONSTANTS
  Mensaje = {m1, m2}
  Hilo = {h1, h2}
  Proceso = {team, gamecard}
  Cola <- UnaCola
  Nada = Nada
  Capacidad = 1
SYMMETRY Simetria
CHECK_DEADLOCK FALSE
INVARIANTS TypeOK ConfirmacionFiel UnaEntradaPorSuscripcion CacheadoEstaListado
PROPERTY SinReentrega
