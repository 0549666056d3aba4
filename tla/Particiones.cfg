SPECIFICATION Spec
CONSTANTS
  TAMANO_MEMORIA = 8
  Configuraciones <- Todas
  MaxMensajes = 5
  MaxUsos = 2
CHECK_DEADLOCK FALSE
INVARIANTS
  TypeOK Particionada SinLibresContiguas CacheCoherente CabeElMensaje SobranteCortado
  BuddiesAlineados DinamicaSinVictimaNula NuncaAbandona
PROPERTIES ImplementaCache VictimaMasAntigua DesalojoNecesario
