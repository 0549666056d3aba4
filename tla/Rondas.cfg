SPECIFICATION Spec
CONSTANT Equipos <- TodasLasRondas
CHECK_DEADLOCK FALSE
INVARIANT RondaResuelta
PROPERTY TratoJusto
