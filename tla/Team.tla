-------------------------------- MODULE Team --------------------------------
(***************************************************************************)
(* The Team (team/src/team.c): one thread per trainer, the planner with    *)
(* its ready queue (FIFO, RR, SJF-SD, SJF-CD), the replanner, the deadlock *)
(* detector, and one thread for each message APPEARED, LOCALIZED or CAUGHT *)
(* that arrives.  They share the trainers, the queue and the located       *)
(* pokemons with hardly a mutex, and wake each other through semaphores.   *)
(*                                                                         *)
(* A configuration file and the messages that will come make a scenario;   *)
(* positions are on a line.  The estimate of a trainer stays the one of    *)
(* the configuration, the same for all, until it captures without Broker;  *)
(* from then on it is any number.                                          *)
(***************************************************************************)
EXTENDS Deadlocks

\* Only what reading a LOCALIZED does to its positions is used here.
Cable == INSTANCE Mensajes WITH Largo <- <<>>, Basura <- 0

CONSTANTS
  Escenarios,  \* configurations, each with the messages that arrive
  Nombres,     \* the names of the pokemons
  Nulo         \* NULL

\* An element of the list of a trainer.
t_pokemon == [nombre : Nombres, cantidad : Nat \ {0}]

ASSUME EscenariosValidos ==
  \A c \in Escenarios :
    /\ c.algoritmo \in {"FIFO", "RR", "SJF-SD", "SJF-CD"}
    /\ c.quantum \in Nat \ {0}
    /\ c.objetivo \in Seq(Seq(t_pokemon)) /\ c.pokemones \in Seq(Seq(t_pokemon))
    /\ c.posicion \in Seq(Int)
    /\ Len(c.objetivo) = Len(c.pokemones) /\ Len(c.objetivo) = Len(c.posicion)
    /\ c.mensajes \in Seq([tipo : {"APPEARED", "LOCALIZED"}, nombre : Nombres,
                           posiciones : Seq(Int)])
    /\ \A m \in DOMAIN c.mensajes :         \* a LOCALIZED may bring none
         c.mensajes[m].tipo = "APPEARED" => c.mensajes[m].posiciones # <<>>
    /\ c.hilos \in Nat \ {0}                \* messages attended at the same time
    /\ c.respuestaTemprana \in BOOLEAN      \* a CAUGHT may come before its id is kept
    /\ c.respuestas \subseteq BOOLEAN       \* what CAUGHT may say
    /\ c.sinBroker \in Nat                  \* bound: CATCH that find no Broker or lose the ACK

VARIABLES
  config,        \* the scenario
  ent,           \* the trainers: the fields of t_entrenador and the place of its thread
  cola_ready, cambio_cola_ready, ubicados, recibidos, proceso_ejecutando, intentos,
  sem,           \* the global semaphores
  hilos,         \* the thread of each message APPEARED or LOCALIZED
  catches,       \* the CATCH sent: who, what, and how far its answer is
  servicio,      \* locals of the planner, the replanner and the detector
  pendiente,     \* the exchange a detection has chosen, by thread
  tratados,      \* history: the trainers that have taken part in an exchange
  fallas,        \* history: CATCH without Broker or without ACK so far
  vivo           \* "si", "segfault" or "fin"

vars == <<config, ent, cola_ready, cambio_cola_ready, ubicados, recibidos, proceso_ejecutando,
          intentos, sem, hilos, catches, servicio, pendiente, tratados, fallas, vivo>>

Entrenador == DOMAIN config.objetivo
Detector == 0
HiloMensaje == DOMAIN config.mensajes
algoritmo == config.algoritmo

Distancia(a, b) == IF a < b THEN b - a ELSE a - b

-----------------------------------------------------------------------------
(* Questions about the team *)

objetivo_global == sumarizar_global(config.objetivo)
capturados_global == sumarizar_global([e \in Entrenador |-> ent[e].pokemones])

PuedeCapturar(e) == puede_capturar_pokemones(ent[e].pokemones, config.objetivo[e])
CumplioObjetivo(e) == cumplio_objetivo(sumarizar_pokemones(ent[e].pokemones), config.objetivo[e])

Planificable(e) == ent[e].estado \in {"NEW", "BLOCKED"} /\ ~ent[e].ocupado /\ PuedeCapturar(e)

\* The first of the nearest; 0 for NULL.
get_entrenador_planificable_mas_cercano(pos) ==
  LET libres == {e \in Entrenador : Planificable(e)}
      Lejos(e) == Distancia(ent[e].posicion, pos)
  IN  IF libres = {} THEN 0
      ELSE Min({e \in libres : \A f \in libres : Lejos(e) <= Lejos(f)})

\* Names are compared as pointers: they are equal when they came in one message.
alguien_yendo(p) ==
  \E e \in Entrenador : /\ ent[e].destino # Nulo
                        /\ ent[e].destino.origen = p.origen
                        /\ ent[e].destino.posicion = p.posicion

get_cantidad_entrenadores_yendo(p) ==
  Cardinality({e \in Entrenador : ent[e].destino # Nulo /\ ent[e].destino.origen = p.origen})

pokemon_necesario(p) ==
  /\ ~alguien_yendo(p)
  /\ get_cantidad_by_nombre_pokemon(p.nombre, capturados_global) + get_cantidad_entrenadores_yendo(p)
       < get_cantidad_by_nombre_pokemon(p.nombre, objetivo_global)

\* An index of ubicados; 0 for NULL.
get_pokemon_necesario_mas_cercano(pos) ==
  LET utiles == {i \in DOMAIN ubicados : ubicados[i].planificable /\ pokemon_necesario(ubicados[i])}
      Lejos(i) == Distancia(ubicados[i].posicion, pos)
  IN  IF utiles = {} THEN 0
      ELSE Min({i \in utiles : \A j \in utiles : Lejos(i) <= Lejos(j)})

get_pokemon_team(n, m, pos) == [nombre |-> n, origen |-> m, posicion |-> pos]

\* An element of ubicados.
ubicar(p, planificable) ==
  [nombre |-> p.nombre, origen |-> p.origen, posicion |-> p.posicion, planificable |-> planificable]

esta_en_deadlock(e) ==
  ent[e].estado = "BLOCKED" /\ ~ent[e].ocupado /\ ~CumplioObjetivo(e) /\ ~PuedeCapturar(e)

entrenadores_en_deadlock ==
  Elegidos([e \in Entrenador |-> copia_DL(e, ent[e].pokemones, config.objetivo[e])],
           {e \in Entrenador : esta_en_deadlock(e)})

SinTrato == [con |-> 0, queme_sirve |-> Nulo, quele_sirve |-> Nulo]

\* The process is killed by a NULL or wild pointer.
Segfault ==
  /\ vivo' = "segfault"
  /\ UNCHANGED <<config, ent, cola_ready, cambio_cola_ready, ubicados, recibidos, proceso_ejecutando,
                 intentos, sem, hilos, catches, servicio, pendiente, tratados, fallas>>

mensajesVars == <<ubicados, recibidos, hilos>>
capturaVars  == <<catches, fallas>>
deadlockVars == <<intentos, pendiente, tratados>>
colaVars     == <<cola_ready, cambio_cola_ready>>

Init ==
  /\ config \in Escenarios
  /\ ent = [e \in Entrenador |->
              [estado |-> "NEW", ocupado |-> FALSE, destino |-> Nulo, posicion |-> config.posicion[e],
               pokemones |-> sumarizar_pokemones(config.pokemones[e]), semaforo |-> 0,
               pc |-> "vuelta", movimientos |-> 0, trato |-> SinTrato, estimado |-> FALSE]]
  /\ cola_ready = <<>> /\ cambio_cola_ready = FALSE
  /\ ubicados = <<>> /\ recibidos = {} /\ proceso_ejecutando = 0 /\ intentos = 0
  /\ sem = [con_items |-> 0, en_exec |-> 1, detectar |-> 0, replanificar |-> 0,
            sjfcd |-> 0, exits |-> 0]
  /\ hilos = [m \in HiloMensaje |-> [paso |-> "nuevo", elegido |-> 0, lista |-> <<>>, i |-> 1, hasta |-> 0]]
  /\ catches = <<>>
  /\ servicio = [planifica |-> FALSE, replanifica |-> FALSE, elegido |-> 0, avisos |-> 0]
  /\ pendiente = [t \in Entrenador \cup {Detector} |-> SinIntercambio]
  /\ tratados = {} /\ fallas = 0 /\ vivo = "si"

-----------------------------------------------------------------------------
(* The thread of a trainer: entrenador and ejecutar_algoritmo *)

EnDestino(e) == ent[e].posicion = ent[e].destino.posicion

CumplirObjetivo(e) ==
  /\ ent[e].pc = "vuelta" /\ CumplioObjetivo(e)
  /\ ent' = [ent EXCEPT ![e].pokemones = sumarizar_pokemones(@), ![e].estado = "EXIT", ![e].pc = "fin"]
  /\ sem' = [sem EXCEPT !.detectar = @ + 1, !.exits = @ + 1]
  /\ UNCHANGED <<config, colaVars, mensajesVars, proceso_ejecutando, capturaVars, servicio, deadlockVars, vivo>>

VolverAEsperar(e) ==
  /\ ent[e].pc = "vuelta" /\ ~CumplioObjetivo(e)
  /\ ent' = [ent EXCEPT ![e].pokemones = sumarizar_pokemones(@), ![e].pc = "esperar"]
  /\ UNCHANGED <<config, sem, colaVars, mensajesVars, proceso_ejecutando, capturaVars, servicio, deadlockVars, vivo>>

\* Whoever posted the semaphore, the trainer sets off if it has somewhere to go.
Despertar(e) ==
  /\ ent[e].pc = "esperar" /\ ent[e].semaforo > 0
  /\ proceso_ejecutando' = e
  /\ ent' = [ent EXCEPT
       ![e].semaforo = @ - 1,
       ![e].pc = IF ent[e].destino = Nulo THEN "vuelta" ELSE "mover",
       ![e].movimientos =
         IF algoritmo = "RR" /\ ent[e].destino # Nulo
         THEN Min({config.quantum, Distancia(ent[e].posicion, ent[e].destino.posicion)}) ELSE 0]
  /\ UNCHANGED <<config, sem, colaVars, mensajesVars, capturaVars, servicio, deadlockVars, vivo>>

\* The position one step nearer.
Avanzar(e) ==
  IF ent[e].destino.posicion < ent[e].posicion THEN ent[e].posicion - 1 ELSE ent[e].posicion + 1

HayCambio == cambio_cola_ready /\ cola_ready # <<>>

ejecuta(e) ==
  /\ ent[e].pc = "mover" /\ ent[e].destino # Nulo /\ ~EnDestino(e)
  /\ algoritmo = "RR" => ent[e].movimientos > 0
  /\ algoritmo = "SJF-CD" => ~HayCambio
  /\ ent' = [ent EXCEPT ![e].posicion = Avanzar(e),
                        ![e].movimientos = IF algoritmo = "RR" THEN @ - 1 ELSE @]
  /\ UNCHANGED <<config, sem, colaVars, mensajesVars, proceso_ejecutando, capturaVars, servicio, deadlockVars, vivo>>

\* ejecutar_rr, the quantum is over.
TerminarQuantum(e) ==
  /\ algoritmo = "RR" /\ ent[e].pc = "mover" /\ ent[e].destino # Nulo
  /\ ent[e].movimientos = 0 /\ ~EnDestino(e)
  /\ ent' = [ent EXCEPT ![e].estado = "READY", ![e].pc = "vuelta"]
  /\ cola_ready' = Append(cola_ready, e) /\ cambio_cola_ready' = TRUE
  /\ sem' = [sem EXCEPT !.con_items = @ + 1, !.en_exec = @ + 1]
  /\ UNCHANGED <<config, mensajesVars, proceso_ejecutando, capturaVars, servicio, deadlockVars, vivo>>

\* ejecutar_sjfcd, somebody has entered the queue.
PedirReplanificacion(e) ==
  /\ algoritmo = "SJF-CD" /\ ent[e].pc = "mover" /\ ent[e].destino # Nulo
  /\ ~EnDestino(e) /\ HayCambio
  /\ ent' = [ent EXCEPT ![e].pc = "decision"]
  /\ sem' = [sem EXCEPT !.sjfcd = @ + 1]
  /\ UNCHANGED <<config, colaVars, mensajesVars, proceso_ejecutando, capturaVars, servicio, deadlockVars, vivo>>

SeguirODejar(e) ==
  /\ ent[e].pc = "decision" /\ ent[e].semaforo > 0
  /\ ent[e].estado = "READY" \/ ent[e].destino # Nulo
  /\ ent' = [ent EXCEPT
       ![e].semaforo = @ - 1,
       ![e].pc = IF ent[e].estado = "READY" THEN "vuelta" ELSE "mover",
       ![e].posicion = IF ent[e].estado = "EXEC" THEN Avanzar(e) ELSE @]
  /\ UNCHANGED <<config, sem, colaVars, mensajesVars, proceso_ejecutando, capturaVars, servicio, deadlockVars, vivo>>

\* capturar_pokemon, its first line; the next two are SalirDeExec.
Llegar(e) ==
  /\ ent[e].pc = "mover" /\ ent[e].destino # Nulo /\ EnDestino(e)
  /\ ent' = [ent EXCEPT ![e].estado = "BLOCKED", ![e].pc = "llego"]
  /\ UNCHANGED <<config, sem, colaVars, mensajesVars, proceso_ejecutando, capturaVars, servicio, deadlockVars, vivo>>

SalirDeExec(e) ==
  /\ ent[e].pc = "llego"
  /\ ent' = [ent EXCEPT ![e].ocupado = TRUE,
                        ![e].pc = IF PuedeCapturar(e) THEN "capturar" ELSE "intercambiar"]
  /\ sem' = [sem EXCEPT !.en_exec = @ + 1]
  /\ UNCHANGED <<config, colaVars, mensajesVars, proceso_ejecutando, capturaVars, servicio, deadlockVars, vivo>>

\* The destination has been set to NULL by another thread.
SinDestino(e) ==
  /\ \/ ent[e].pc \in {"mover", "capturar"} /\ ent[e].destino = Nulo
     \/ /\ ent[e].pc = "decision" /\ ent[e].semaforo > 0
        /\ ent[e].estado # "READY" /\ ent[e].destino = Nulo
     \/ ent[e].pc = "entregar" /\ ent[ent[e].trato.con].destino = Nulo
  /\ Segfault

-----------------------------------------------------------------------------
(* capturar and generar_y_enviar_catch *)

\* No Broker: the pokemon counts as captured.
CapturarSinBroker(e) ==
  /\ ent[e].pc = "capturar" /\ ent[e].destino # Nulo /\ fallas < config.sinBroker
  /\ fallas' = fallas + 1
  /\ ent' = [ent EXCEPT ![e].pokemones = Append(@, get_pokemon(ent[e].destino.nombre)),
                        ![e].destino = Nulo, ![e].ocupado = FALSE, ![e].estimado = TRUE, ![e].pc = "evaluar"]
  /\ UNCHANGED <<config, sem, colaVars, mensajesVars, proceso_ejecutando, catches, servicio, deadlockVars, vivo>>

\* The Broker has the CATCH and has answered with its id.
EnviarCatch(e) ==
  /\ ent[e].pc = "capturar" /\ ent[e].destino # Nulo
  /\ catches' = Append(catches, [entrenador |-> e, nombre |-> ent[e].destino.nombre, guardado |-> FALSE, estado |-> "enviado"])
  /\ ent' = [ent EXCEPT ![e].pc = "registrar"]
  /\ UNCHANGED <<config, sem, colaVars, mensajesVars, proceso_ejecutando, fallas, servicio, deadlockVars, vivo>>

\* list_add(mensajes_catch_esperando_respuesta, respuesta)
RegistrarCatch(e) ==
  /\ ent[e].pc = "registrar"
  /\ LET c == Max({i \in DOMAIN catches : catches[i].entrenador = e})
     IN  catches' = [catches EXCEPT ![c].guardado = TRUE]
  /\ ent' = [ent EXCEPT ![e].pc = "caught"]
  /\ UNCHANGED <<config, sem, colaVars, mensajesVars, proceso_ejecutando, fallas, servicio, deadlockVars, vivo>>

\* The connection breaks before the ACK: the function returns true all the same.
PerderAck(e) ==
  /\ ent[e].pc = "registrar" /\ fallas < config.sinBroker
  /\ fallas' = fallas + 1
  /\ ent' = [ent EXCEPT ![e].pc = "caught"]
  /\ UNCHANGED <<config, sem, colaVars, mensajesVars, proceso_ejecutando, catches, servicio, deadlockVars, vivo>>

\* Game-Card answers and hilo_suscriptor_caught looks the id up: an answer to
\* an id that has not been kept is for somebody else.
Responder(c, atrapado) ==
  /\ catches[c].estado = "enviado" /\ atrapado \in config.respuestas
  /\ config.respuestaTemprana \/ ent[catches[c].entrenador].pc # "registrar"
  /\ catches' = [catches EXCEPT ![c].estado =
                   IF ~catches[c].guardado THEN "descartado"
                   ELSE IF atrapado THEN "atrapado" ELSE "escapado"]
  /\ UNCHANGED <<config, ent, sem, colaVars, mensajesVars, proceso_ejecutando, fallas, servicio, deadlockVars, vivo>>

\* Mutant: the trainer is only woken up when it has caught.
AvisarSoloAtrapado(c) ==
  LET e == catches[c].entrenador
      atrapado == catches[c].estado = "atrapado"
  IN  /\ catches[c].estado \in {"atrapado", "escapado"}
      /\ atrapado => ent[e].destino # Nulo
      /\ ent' = [ent EXCEPT
           ![e].pokemones = IF atrapado THEN Append(@, get_pokemon(ent[e].destino.nombre)) ELSE @,
           ![e].destino = Nulo, ![e].ocupado = FALSE, ![e].semaforo = IF atrapado THEN @ + 1 ELSE @]
      /\ catches' = [catches EXCEPT ![c].estado = IF atrapado THEN "acreditado" ELSE "fin"]
      /\ UNCHANGED <<config, sem, colaVars, mensajesVars, proceso_ejecutando, fallas, servicio, deadlockVars, vivo>>

recibidor_mensajes_caught(c) ==
  LET e == catches[c].entrenador
  IN  /\ catches[c].estado \in {"atrapado", "escapado"}
      /\ catches[c].estado = "atrapado" => ent[e].destino # Nulo
      /\ ent' = [ent EXCEPT
           ![e].pokemones = IF catches[c].estado = "atrapado"
                            THEN Append(@, get_pokemon(ent[e].destino.nombre)) ELSE @,
           ![e].destino = Nulo, ![e].ocupado = FALSE, ![e].semaforo = @ + 1]
      /\ catches' = [catches EXCEPT ![c].estado = IF @ = "atrapado" THEN "acreditado" ELSE "fin"]
      /\ UNCHANGED <<config, sem, colaVars, mensajesVars, proceso_ejecutando, fallas, servicio, deadlockVars, vivo>>

\* A NULL pokemon in the list of the trainer.
CaughtSinDestino(c) ==
  /\ catches[c].estado = "atrapado" /\ ent[catches[c].entrenador].destino = Nulo
  /\ Segfault

\* Mutant: it does not wait.
SeguirSinCaught(e) ==
  /\ ent[e].pc = "caught"
  /\ ent' = [ent EXCEPT ![e].semaforo = @ - 1, ![e].pc = "evaluar"]
  /\ UNCHANGED <<config, sem, colaVars, mensajesVars, proceso_ejecutando, capturaVars, servicio, deadlockVars, vivo>>

EsperarCaught(e) ==
  /\ ent[e].pc = "caught" /\ ent[e].semaforo > 0
  /\ ent' = [ent EXCEPT ![e].semaforo = @ - 1, ![e].pc = "evaluar"]
  /\ UNCHANGED <<config, sem, colaVars, mensajesVars, proceso_ejecutando, capturaVars, servicio, deadlockVars, vivo>>

\* Mutant: a trainer that is full does not ask for the detection.
EvaluarSinDetectar(e) ==
  /\ ent[e].pc = "evaluar"
  /\ ent' = [ent EXCEPT ![e].pokemones = sumarizar_pokemones(@), ![e].pc = "vuelta"]
  /\ sem' = [sem EXCEPT !.replanificar = IF ~CumplioObjetivo(e) /\ PuedeCapturar(e) THEN @ + 1 ELSE @]
  /\ UNCHANGED <<config, colaVars, mensajesVars, proceso_ejecutando, capturaVars, servicio, deadlockVars, vivo>>

\* What is left to do after a capture: nothing, capture again, or exchange.
Evaluar(e) ==
  /\ ent[e].pc = "evaluar"
  /\ ent' = [ent EXCEPT ![e].pokemones = sumarizar_pokemones(@), ![e].pc = "vuelta"]
  /\ sem' = [sem EXCEPT !.replanificar = IF ~CumplioObjetivo(e) /\ PuedeCapturar(e) THEN @ + 1 ELSE @,
                        !.detectar = IF ~CumplioObjetivo(e) /\ ~PuedeCapturar(e) THEN @ + 1 ELSE @]
  /\ UNCHANGED <<config, colaVars, mensajesVars, proceso_ejecutando, capturaVars, servicio, deadlockVars, vivo>>

-----------------------------------------------------------------------------
(* hilo_planificador *)

TomarItem ==
  /\ ~servicio.planifica /\ sem.con_items > 0
  /\ sem' = [sem EXCEPT !.con_items = @ - 1]
  /\ servicio' = [servicio EXCEPT !.planifica = TRUE]
  /\ UNCHANGED <<config, ent, colaVars, mensajesVars, proceso_ejecutando, capturaVars, deadlockVars, vivo>>

\* Mutant: s_cola_ready_con_items is not waited for.
SacarSinItem(i) ==
  /\ sem.en_exec > 0
  /\ i \in DOMAIN cola_ready
  /\ sem' = [sem EXCEPT !.en_exec = @ - 1]
  /\ cola_ready' = RemoveAt(cola_ready, i)
  /\ UNCHANGED <<config, cambio_cola_ready, mensajesVars, proceso_ejecutando, capturaVars, servicio, deadlockVars, vivo>>

\* Mutant: s_procesos_en_exec is not waited for.
SacarSinPermiso(i) ==
  /\ servicio.planifica
  /\ i \in DOMAIN cola_ready
  /\ cola_ready' = RemoveAt(cola_ready, i)
  /\ servicio' = [servicio EXCEPT !.planifica = FALSE]
  /\ UNCHANGED <<config, sem, cambio_cola_ready, mensajesVars, proceso_ejecutando, capturaVars, deadlockVars, vivo>>

\* The planner has waited for both semaphores and takes trainer i of the queue.
Sacar(i) ==
  /\ servicio.planifica /\ sem.en_exec > 0
  /\ i \in DOMAIN cola_ready
  /\ sem' = [sem EXCEPT !.en_exec = @ - 1]
  /\ cola_ready' = RemoveAt(cola_ready, i)
  /\ servicio' = [servicio EXCEPT !.planifica = FALSE]
  /\ UNCHANGED <<config, cambio_cola_ready, mensajesVars, proceso_ejecutando, capturaVars, deadlockVars, vivo>>

planificar_fifo ==
  /\ algoritmo = "FIFO" /\ Sacar(1)
  /\ LET e == cola_ready[1]
     IN  ent' = [ent EXCEPT ![e].estado = "EXEC", ![e].ocupado = TRUE, ![e].semaforo = @ + 1]

planificar_rr ==
  /\ algoritmo = "RR" /\ Sacar(1)
  /\ ent' = [ent EXCEPT ![cola_ready[1]].semaforo = @ + 1]

\* get_index_entrenador_estimacion_mas_corta: of those that still have the
\* estimate of the configuration, the first; of the others, any.
ColaEstimable ==
  \A e \in ToSet(cola_ready) : ent[e].estimado => ent[e].destino # Nulo

EstimacionMasCorta(i) ==
  /\ ColaEstimable
  /\ ent[cola_ready[i]].estimado \/ \A j \in 1..(i - 1) : ent[cola_ready[j]].estimado

\* planificar_sjfcd is the same function.
planificar_sjfsd(i) ==
  /\ algoritmo \in {"SJF-SD", "SJF-CD"} /\ EstimacionMasCorta(i) /\ Sacar(i)
  /\ ent' = [ent EXCEPT ![cola_ready[i]].semaforo = @ + 1]

\* A trainer of the queue is estimated by the distance to a destination it
\* does not have.
EstimarSinDestino ==
  /\ algoritmo \in {"SJF-SD", "SJF-CD"} /\ ~ColaEstimable
  /\ (servicio.planifica /\ sem.en_exec > 0) \/ sem.sjfcd > 0
  /\ Segfault

(* hilo_replanificar_sjfcd: nobody is taken out of the queue or put into it *)

SeguirEjecutando ==
  /\ sem.sjfcd > 0 /\ cola_ready # <<>> /\ ColaEstimable
  /\ sem' = [sem EXCEPT !.sjfcd = @ - 1]
  /\ cambio_cola_ready' = FALSE
  /\ ent' = [ent EXCEPT ![proceso_ejecutando].estado = "EXEC", ![proceso_ejecutando].semaforo = @ + 1]
  /\ UNCHANGED <<config, cola_ready, mensajesVars, proceso_ejecutando, capturaVars, servicio, deadlockVars, vivo>>

Desalojar(i) ==
  /\ sem.sjfcd > 0 /\ i \in DOMAIN cola_ready /\ EstimacionMasCorta(i)
  /\ ent[cola_ready[i]].estimado \/ ent[proceso_ejecutando].estimado
  /\ sem' = [sem EXCEPT !.sjfcd = @ - 1]
  /\ cambio_cola_ready' = FALSE
  /\ LET desalojado == [ent EXCEPT ![proceso_ejecutando].estado = "READY",
                                   ![proceso_ejecutando].semaforo = @ + 1]
     IN  ent' = [desalojado EXCEPT ![cola_ready[i]].estado = "EXEC", ![cola_ready[i]].semaforo = @ + 1]
  /\ UNCHANGED <<config, cola_ready, mensajesVars, proceso_ejecutando, capturaVars, servicio, deadlockVars, vivo>>

\* The queue has been emptied since the trainer asked.
CompararSinCola ==
  /\ sem.sjfcd > 0 /\ cola_ready = <<>>
  /\ Segfault

(* hilo_replanificar *)

Replanificable(e) ==
  PuedeCapturar(e) /\ ent[e].estado = "BLOCKED" /\ ~ent[e].ocupado /\ ent[e].destino = Nulo

\* The last one of the list.
hilo_replanificar ==
  /\ sem.replanificar > 0 /\ ~servicio.replanifica
  /\ \E e \in Entrenador : Replanificable(e)
  /\ sem' = [sem EXCEPT !.replanificar = @ - 1]
  /\ servicio' = [servicio EXCEPT !.replanifica = TRUE,
                                  !.elegido = Max({e \in Entrenador : Replanificable(e)})]
  /\ UNCHANGED <<config, ent, colaVars, mensajesVars, proceso_ejecutando, capturaVars, deadlockVars, vivo>>

\* With nobody to choose it goes on with the trainer malloc returned, which
\* nobody filled in: nothing happens, or a wild pointer is followed.
ReplanificarSinInicializar ==
  /\ sem.replanificar > 0 /\ ~servicio.replanifica
  /\ ~\E e \in Entrenador : Replanificable(e)
  /\ \/ /\ sem' = [sem EXCEPT !.replanificar = @ - 1]
        /\ UNCHANGED <<config, ent, colaVars, mensajesVars, proceso_ejecutando, capturaVars, servicio,
                       deadlockVars, vivo>>
     \/ Segfault

\* Trainer e, whose destination is p, enters the queue.
Encolar(e, cambios) ==
  /\ ent' = cambios
  /\ cola_ready' = Append(cola_ready, e) /\ cambio_cola_ready' = TRUE
  /\ sem' = [sem EXCEPT !.con_items = @ + 1]

SinPlanificar(i) == [ubicados EXCEPT ![i].planificable = FALSE]

\* replanificar_entrenador: the destination is looked for unless somebody
\* has given the trainer one since it was chosen.
replanificar_entrenador ==
  LET e == servicio.elegido
      i == get_pokemon_necesario_mas_cercano(ent[e].posicion)
      p == ubicados[i]
  IN  /\ servicio.replanifica
      /\ servicio' = [servicio EXCEPT !.replanifica = FALSE, !.elegido = 0]
      /\ IF ent[e].destino # Nulo
         THEN /\ Encolar(e, [ent EXCEPT ![e].estado = "READY"])
              /\ UNCHANGED ubicados
         ELSE IF i = 0
         THEN UNCHANGED <<ent, sem, colaVars, ubicados>>
         ELSE /\ Encolar(e, [ent EXCEPT ![e].estado = "READY",
                               ![e].destino = get_pokemon_team(p.nombre, p.origen, p.posicion)])
              /\ ubicados' = SinPlanificar(i)
      /\ UNCHANGED <<config, recibidos, hilos, proceso_ejecutando, capturaVars, deadlockVars, vivo>>

-----------------------------------------------------------------------------
(* The threads of the messages *)

Mensaje(m) == config.mensajes[m]
Atendiendo == {m \in HiloMensaje : hilos[m].paso \notin {"nuevo", "fin"}}

AtenderMensaje(m, tipo) ==
  /\ Mensaje(m).tipo = tipo /\ hilos[m].paso = "nuevo"
  /\ Cardinality(Atendiendo) < config.hilos

\* recibidor_mensajes_appeared, up to the choice of the trainer.
ElegirAppeared(m) ==
  LET n == Mensaje(m).nombre
  IN  /\ AtenderMensaje(m, "APPEARED")
      /\ IF appeared_valido(n, capturados_global, objetivo_global)
         THEN /\ recibidos' = recibidos \cup {n}
              /\ hilos' = [hilos EXCEPT
                   ![m].paso = "asignar",
                   ![m].elegido = get_entrenador_planificable_mas_cercano(Mensaje(m).posiciones[1])]
         ELSE /\ hilos' = [hilos EXCEPT ![m].paso = "fin"]
              /\ UNCHANGED recibidos
      /\ UNCHANGED <<config, ent, sem, colaVars, ubicados, proceso_ejecutando, capturaVars, servicio,
                     deadlockVars, vivo>>

\* Mutant: a trainer that was BLOCKED stays so.
AsignarSinDespertar(m) ==
  LET e == hilos[m].elegido
      p == get_pokemon_team(Mensaje(m).nombre, m, Mensaje(m).posiciones[1])
  IN  /\ Mensaje(m).tipo = "APPEARED" /\ hilos[m].paso = "asignar"
      /\ hilos' = [hilos EXCEPT ![m].paso = "fin"]
      /\ IF e # 0
         THEN /\ Encolar(e, [ent EXCEPT ![e].destino = p, ![e].ocupado = TRUE])
              /\ UNCHANGED ubicados
         ELSE /\ ubicados' = Append(ubicados, ubicar(p, TRUE))
              /\ UNCHANGED <<ent, sem, colaVars>>
      /\ UNCHANGED <<config, recibidos, proceso_ejecutando, capturaVars, servicio, deadlockVars, vivo>>

\* The trainer chosen is sent, whatever has happened to it; with none, the
\* pokemon is kept for later.
AsignarAppeared(m) ==
  LET e == hilos[m].elegido
      p == get_pokemon_team(Mensaje(m).nombre, m, Mensaje(m).posiciones[1])
  IN  /\ Mensaje(m).tipo = "APPEARED" /\ hilos[m].paso = "asignar"
      /\ hilos' = [hilos EXCEPT ![m].paso = "fin"]
      /\ IF e # 0
         THEN /\ Encolar(e, [ent EXCEPT ![e].estado = "READY", ![e].destino = p, ![e].ocupado = TRUE])
              /\ UNCHANGED ubicados
         ELSE /\ ubicados' = Append(ubicados, ubicar(p, TRUE))
              /\ UNCHANGED <<ent, sem, colaVars>>
      /\ UNCHANGED <<config, recibidos, proceso_ejecutando, capturaVars, servicio, deadlockVars, vivo>>

\* recibidor_mensajes_localized, up to its loop.
ValidarLocalized(m) ==
  LET n == Mensaje(m).nombre
  IN  /\ AtenderMensaje(m, "LOCALIZED")
      /\ IF localized_valido(n, recibidos, objetivo_global)
         THEN /\ recibidos' = recibidos \cup {n}
              /\ hilos' = [hilos EXCEPT
                   ![m].paso = "elegir", ![m].lista = Cable!RepetirUltima(Mensaje(m).posiciones),
                   ![m].hasta = Min({Len(Mensaje(m).posiciones),
                                     get_cantidad_by_nombre_pokemon(n, objetivo_global)})]
         ELSE /\ hilos' = [hilos EXCEPT ![m].paso = "fin"]
              /\ UNCHANGED recibidos
      /\ UNCHANGED <<config, ent, sem, colaVars, ubicados, proceso_ejecutando, capturaVars, servicio,
                     deadlockVars, vivo>>

\* The loop: i advances, and the list loses an element each time a trainer is found.
ElegirLocalized(m) ==
  LET h == hilos[m]
  IN  /\ h.paso = "elegir" /\ (h.i <= h.hasta => h.i <= Len(h.lista))
      /\ hilos' = [hilos EXCEPT
           ![m].paso = IF h.i > h.hasta THEN "fin" ELSE "asignar",
           ![m].elegido = IF h.i > h.hasta THEN 0
                          ELSE get_entrenador_planificable_mas_cercano(h.lista[h.i])]
      /\ UNCHANGED <<config, ent, sem, colaVars, ubicados, recibidos, proceso_ejecutando, capturaVars,
                     servicio, deadlockVars, vivo>>

\* list_get past the end of what is left.
PosicionNula(m) ==
  /\ hilos[m].paso = "elegir" /\ hilos[m].i <= hilos[m].hasta /\ hilos[m].i > Len(hilos[m].lista)
  /\ Segfault

\* ubicar_pokemones_localized: the flag planificable is left as malloc gave it.
Ubicados(m, lista, planificable) ==
  [k \in DOMAIN lista |-> ubicar(get_pokemon_team(Mensaje(m).nombre, m, lista[k]), planificable)]

AsignarLocalized(m) ==
  LET h == hilos[m]
      e == h.elegido
      p == get_pokemon_team(Mensaje(m).nombre, m, h.lista[h.i])
  IN  /\ Mensaje(m).tipo = "LOCALIZED" /\ h.paso = "asignar"
      /\ hilos' = [hilos EXCEPT ![m].paso = "elegir", ![m].i = @ + 1,
                                ![m].lista = IF e # 0 THEN Tail(@) ELSE @]
      /\ IF e # 0
         THEN /\ Encolar(e, [ent EXCEPT ![e].estado = "READY", ![e].destino = p])
              /\ UNCHANGED ubicados
         ELSE /\ \E b \in BOOLEAN : ubicados' = ubicados \o Ubicados(m, h.lista, b)
              /\ UNCHANGED <<ent, sem, colaVars>>
      /\ UNCHANGED <<config, recibidos, proceso_ejecutando, capturaVars, servicio, deadlockVars, vivo>>

-----------------------------------------------------------------------------
(* Exchange *)

\* get_entrenador_intercambio; 0 for NULL.
get_entrenador_intercambio(e) ==
  LET sirven == {f \in Entrenador \ {e} :
                   /\ ent[f].posicion = ent[e].posicion
                   /\ pokemon_que_sirve_intercambio(config.objetivo[e], ent[f].pokemones,
                                                    config.objetivo[f]) # <<>>}
  IN  IF sirven = {} THEN 0 ELSE Min(sirven)

\* What e gives to f.
Ofrecido(e, f) == pokemon_ofrecido(ent[e].pokemones, config.objetivo[e], config.objetivo[f])

\* intercambio, up to the five cycles.  With nothing to give, the other
\* trainer is left busy and this one BLOCKED and busy.
ProponerIntercambio(e) ==
  LET f == get_entrenador_intercambio(e)
  IN  /\ ent[e].pc = "intercambiar" /\ f # 0
      /\ ent' = [ent EXCEPT
           ![e].pc = IF Ofrecido(e, f) = <<>> \/ ent[e].destino = Nulo THEN "detectar" ELSE "ciclos",
           ![e].trato = IF Ofrecido(e, f) = <<>> \/ ent[e].destino = Nulo THEN SinTrato
                        ELSE [con |-> f, queme_sirve |-> ent[e].destino.nombre,
                              quele_sirve |-> Ofrecido(e, f)[1].nombre],
           ![f].ocupado = TRUE,
           ![f].destino = IF Ofrecido(e, f) = <<>> THEN Nulo
                          ELSE get_pokemon_team(Ofrecido(e, f)[1].nombre, 0, ent[e].posicion)]
      /\ tratados' = tratados \cup {e, f}
      /\ UNCHANGED <<config, sem, colaVars, mensajesVars, proceso_ejecutando, capturaVars, servicio,
                     intentos, pendiente, vivo>>

IntercambioNulo(e) ==
  /\ ent[e].pc = "intercambiar" /\ get_entrenador_intercambio(e) = 0
  /\ Segfault

(* intercambio, after the five cycles: no mutex is held and every other     *)
(* thread may come in between.  To summarise a list is one step.            *)

intercambioVars == <<config, sem, colaVars, mensajesVars, proceso_ejecutando, capturaVars, servicio,
                     deadlockVars, vivo>>

Otro(e) == ent[e].trato.con
queme_sirve(e) == ent[e].trato.queme_sirve
quele_sirve(e) == ent[e].trato.quele_sirve

\* What trainer e is handed is chosen by its name alone: the list of the other
\* is not looked at again.
RecibirPokemon(e) ==
  /\ ent[e].pc = "ciclos"
  /\ ent' = [ent EXCEPT ![e].pc = "recibido",
                        ![e].pokemones = Append(@, Entregado(queme_sirve(e), ent[Otro(e)].pokemones))]
  /\ UNCHANGED intercambioVars

QuitarAlOtro(e) ==
  /\ ent[e].pc = "recibido"
  /\ ent' = [ent EXCEPT ![e].pc = "entregar", ![e].destino = Nulo,
                        ![Otro(e)].pokemones = remove_pokemon_by_nombre(queme_sirve(e), @)]
  /\ UNCHANGED intercambioVars

\* The other trainer adds whatever its destination has come to be.
EntregarPokemon(e) ==
  LET p == ent[Otro(e)].destino
  IN  /\ ent[e].pc = "entregar" /\ p # Nulo
      /\ ent' = [ent EXCEPT ![e].pc = "entregado",
           ![Otro(e)].pokemones =
             Append(@, IF p.nombre = quele_sirve(e) THEN Entregado(p.nombre, ent[e].pokemones)
                       ELSE get_pokemon(p.nombre))]
      /\ UNCHANGED intercambioVars

QuitarLoEntregado(e) ==
  /\ ent[e].pc = "entregado"
  /\ ent' = [ent EXCEPT ![e].pc = "liberar",
                        ![e].pokemones = remove_pokemon_by_nombre(quele_sirve(e), @),
                        ![Otro(e)].destino = Nulo]
  /\ UNCHANGED intercambioVars

Libre(e) == ent[e].estado = "BLOCKED" /\ ~ent[e].ocupado

\* esta_en_deadlock of each is asked first: of the other one only if this one is.
LiberarEntrenador(e) ==
  LET Sumarizada(f, mirada) ==
        IF mirada /\ Libre(f) THEN sumarizar_pokemones(ent[f].pokemones) ELSE ent[f].pokemones
  IN  /\ ent[e].pc = "liberar"
      /\ ent' = [ent EXCEPT
           ![e].pc = "liberarOtro", ![e].estado = "BLOCKED", ![e].ocupado = FALSE,
           ![e].pokemones = Sumarizada(e, TRUE),
           ![Otro(e)].pokemones = Sumarizada(Otro(e), esta_en_deadlock(e))]
      /\ UNCHANGED intercambioVars

\* Both semaphores are posted.
LiberarAlOtro(e) ==
  /\ ent[e].pc = "liberarOtro"
  /\ ent' = [ent EXCEPT
       ![e].pc = "detectar", ![e].trato = SinTrato, ![e].semaforo = @ + 1,
       ![Otro(e)].estado = "BLOCKED", ![Otro(e)].ocupado = FALSE, ![Otro(e)].semaforo = @ + 1]
  /\ UNCHANGED intercambioVars

Intercambiar(e) ==
  \/ RecibirPokemon(e)
  \/ QuitarAlOtro(e)
  \/ EntregarPokemon(e)
  \/ QuitarLoEntregado(e)
  \/ LiberarEntrenador(e)
  \/ LiberarAlOtro(e)

-----------------------------------------------------------------------------
(* detectar_deadlocks, by hilo_detectar_deadlock or by the trainer that has  *)
(* just exchanged                                                            *)

AvisarDetector ==
  /\ sem.detectar > 0 /\ servicio.avisos < Len(config.objetivo)
  /\ sem' = [sem EXCEPT !.detectar = @ - 1]
  /\ servicio' = [servicio EXCEPT !.avisos = @ + 1]
  /\ UNCHANGED <<config, ent, colaVars, mensajesVars, proceso_ejecutando, capturaVars, deadlockVars, vivo>>

LeTocaDetectar(t) ==
  IF t = Detector THEN servicio.avisos = Len(config.objetivo) /\ pendiente[t] = SinIntercambio
                  ELSE ent[t].pc = "detectar"

\* The lists of the trainers looked at are summarised; the trainer that ran
\* the detection goes back to its loop, or on to resolver_deadlock.
Sumarizadas(t, pc) ==
  [e \in Entrenador |->
     LET s == IF ent[e].estado = "BLOCKED" /\ ~ent[e].ocupado
              THEN [ent[e] EXCEPT !.pokemones = sumarizar_pokemones(@)] ELSE ent[e]
     IN  IF e = t THEN [s EXCEPT !.pc = pc] ELSE s]

Terminada(t) == IF t = Detector THEN [servicio EXCEPT !.avisos = 0] ELSE servicio

\* At most one trainer in deadlock.
DetectarNada(t) ==
  /\ LeTocaDetectar(t) /\ Len(entrenadores_en_deadlock) <= 1
  /\ ent' = Sumarizadas(t, "vuelta")
  /\ servicio' = Terminada(t)
  /\ UNCHANGED <<config, sem, colaVars, mensajesVars, proceso_ejecutando, capturaVars, deadlockVars, vivo>>

Detectar(t) ==
  /\ LeTocaDetectar(t) /\ Len(entrenadores_en_deadlock) > 1
  /\ \E basura \in BOOLEAN :
       LET dl == entrenadores_en_deadlock
           b  == buscar_deadlocks(dl, Len(config.objetivo), intentos, basura)
           x  == elegir_intercambio(dl, b.encontrados)
       IN  IF b.nulo \/ x = SinIntercambio THEN Segfault
           ELSE /\ pendiente' = [pendiente EXCEPT ![t] =
                     [e1 |-> dl[x.e1].id, e2 |-> dl[x.e2].id,
                      nombre |-> pokemon_que_sirve(dl[x.e1].objetivo, dl[x.e2].pokemones)[1].nombre]]
                /\ intentos' = b.intentos
                /\ ent' = Sumarizadas(t, "resolver")
                /\ UNCHANGED <<config, sem, colaVars, mensajesVars, proceso_ejecutando, capturaVars,
                               servicio, tratados, vivo>>

\* resolver_deadlock, from the look at the states of the two trainers on.
OcupadoOListo(e) == (ent[e].estado = "BLOCKED" /\ ent[e].ocupado) \/ ent[e].estado = "READY"

resolver_deadlock(t) ==
  LET x == pendiente[t]
      vuelta == IF t = Detector THEN ent ELSE [ent EXCEPT ![t].pc = "vuelta"]
  IN  /\ x # SinIntercambio
      /\ pendiente' = [pendiente EXCEPT ![t] = SinIntercambio]
      /\ servicio' = Terminada(t)
      /\ IF OcupadoOListo(x.e1) \/ OcupadoOListo(x.e2)
         THEN ent' = vuelta /\ UNCHANGED <<sem, colaVars>>
         ELSE Encolar(x.e1, [vuelta EXCEPT
                ![x.e1].estado = "READY",
                ![x.e1].destino = get_pokemon_team(x.nombre, 0, ent[x.e2].posicion)])
      /\ UNCHANGED <<config, mensajesVars, proceso_ejecutando, capturaVars, intentos, tratados, vivo>>

\* hilo_exit: every trainer has posted s_entrenador_exit, and main returns.
hilo_exit ==
  /\ sem.exits = Len(config.objetivo)
  /\ vivo' = "fin"
  /\ UNCHANGED <<config, ent, sem, colaVars, mensajesVars, proceso_ejecutando, capturaVars, servicio,
                 deadlockVars>>

-----------------------------------------------------------------------------

HiloEntrenador(e) ==
  \/ CumplirObjetivo(e)
  \/ VolverAEsperar(e)
  \/ Despertar(e)
  \/ ejecuta(e)
  \/ TerminarQuantum(e)
  \/ PedirReplanificacion(e)
  \/ SeguirODejar(e)
  \/ Llegar(e)
  \/ SalirDeExec(e)
  \/ SinDestino(e)
  \/ EnviarCatch(e)
  \/ RegistrarCatch(e)
  \/ EsperarCaught(e)
  \/ Evaluar(e)
  \/ ProponerIntercambio(e)
  \/ IntercambioNulo(e)
  \/ Intercambiar(e)

HiloPlanificador ==
  \/ TomarItem
  \/ planificar_fifo
  \/ planificar_rr
  \/ \E i \in DOMAIN cola_ready : planificar_sjfsd(i)
  \/ EstimarSinDestino

HiloReplanificarSjfcd ==
  \/ SeguirEjecutando
  \/ \E i \in DOMAIN cola_ready : Desalojar(i)
  \/ CompararSinCola

HiloReplanificar ==
  \/ hilo_replanificar
  \/ ReplanificarSinInicializar
  \/ replanificar_entrenador

HiloDeMensaje(m) ==
  \/ ElegirAppeared(m)
  \/ AsignarAppeared(m)
  \/ ValidarLocalized(m)
  \/ ElegirLocalized(m)
  \/ PosicionNula(m)
  \/ AsignarLocalized(m)

HiloCaught(c) ==
  \/ \E atrapado \in BOOLEAN : Responder(c, atrapado)
  \/ recibidor_mensajes_caught(c)
  \/ CaughtSinDestino(c)

Falla ==
  \E e \in Entrenador : CapturarSinBroker(e) \/ PerderAck(e)

Hilos ==
  /\ vivo = "si"
  /\ \/ \E e \in Entrenador : HiloEntrenador(e)
     \/ HiloPlanificador
     \/ HiloReplanificarSjfcd
     \/ HiloReplanificar
     \/ \E m \in HiloMensaje : HiloDeMensaje(m)
     \/ \E c \in DOMAIN catches : HiloCaught(c)
     \/ AvisarDetector
     \/ \E t \in Entrenador \cup {Detector} : DetectarNada(t) \/ resolver_deadlock(t)
     \/ hilo_exit

Next ==
  \/ Hilos
  \/ vivo = "si" /\ \E t \in Entrenador \cup {Detector} : Detectar(t)
  \/ vivo = "si" /\ Falla

Spec == Init /\ [][Next]_vars

\* Some thread that can go on does.
Detectando == vivo = "si" /\ \E t \in Entrenador \cup {Detector} : LeTocaDetectar(t)
FairSpec == Spec /\ WF_vars(Hilos) /\ []<>~Detectando
-----------------------------------------------------------------------------
(* Properties *)

Listas ==
  \A e \in Entrenador : \A i \in DOMAIN ent[e].pokemones : ent[e].pokemones[i].cantidad \in Nat \ {0}

\* No counter goes below zero, no thread is out of place, and no element of a
\* list counts nothing.
TypeOK ==
  /\ config \in Escenarios /\ Listas
  /\ \A e \in Entrenador :
       /\ ent[e].estado \in {"NEW", "READY", "EXEC", "BLOCKED", "EXIT"}
       /\ ent[e].pc \in {"vuelta", "esperar", "mover", "decision", "llego", "capturar", "registrar",
                         "caught", "evaluar", "intercambiar", "ciclos", "recibido", "entregar", "entregado",
                         "liberar", "liberarOtro", "detectar", "resolver", "fin"}
       /\ ent[e].semaforo \in Nat /\ ent[e].movimientos \in 0..config.quantum
  /\ cola_ready \in Seq(Entrenador)
  /\ sem \in [con_items : Nat, en_exec : Nat, detectar : Nat, replanificar : Nat, sjfcd : Nat,
              exits : Nat]
  /\ proceso_ejecutando \in {0} \cup Entrenador
  /\ \A m \in HiloMensaje : hilos[m].paso \in {"nuevo", "elegir", "asignar", "fin"}
  /\ \A c \in DOMAIN catches :
       catches[c].estado \in {"enviado", "descartado", "atrapado", "escapado", "acreditado", "fin"}
  /\ servicio.avisos \in 0..Len(config.objetivo)
  /\ vivo \in {"si", "segfault", "fin"}

\* The planner never takes a trainer out of an empty queue, though the queue
\* and s_cola_ready_con_items are written by five kinds of thread: each post
\* has a trainer behind it.
ColaConItems ==
  Len(cola_ready) >= sem.con_items + (IF servicio.planifica THEN 1 ELSE 0)

\* s_procesos_en_exec: "inicializado en 1, o sea que solo puede haber uno a
\* la vez" (team.c:1162).  At most one trainer moves, whatever it is woken
\* up for.
Ejecutando == {e \in Entrenador : ent[e].pc \in {"mover", "llego"}}
UnoALaVez == Cardinality(Ejecutando) <= 1

\* It is so while nobody is preempted, though an exchange wakes up two
\* trainers without the planner.
UnoSinDesalojo == algoritmo # "SJF-CD" => UnoALaVez

MensajesDeAUno == config.hilos = 1

\* No trainer catches more than it wants, though messages and the replanner
\* send it off and room is only looked at on arrival.  After an exchange it may:
\* what is handed over may not be there any more, and is made up.
CupoRespetado ==
  (MensajesDeAUno /\ algoritmo # "SJF-CD") =>
    \A e \in Entrenador \ tratados :
      get_cantidad_pokemon(ent[e].pokemones) <= get_cantidad_pokemon(config.objetivo[e])

\* A trainer waits for a CAUGHT in vain only if the answer came before its id
\* was kept, or the id never came.
EsperaConRespuesta ==
  \A e \in Entrenador :
    ent[e].pc = "caught" =>
      \/ ent[e].semaforo > 0
      \/ \E c \in DOMAIN catches :
           /\ catches[c].entrenador = e
           /\ \/ catches[c].estado \in {"enviado", "atrapado", "escapado"}
              \/ catches[c].estado = "descartado" \/ ~catches[c].guardado

\* While nobody sends the trainer anywhere else, what is credited is the
\* pokemon of the CATCH, though it is read from the destination the trainer
\* has when the answer comes.  A trainer that a message and the replanner had both
\* chosen may be sent off again while it waits: it is READY, and is credited where
\* it was sent.  So may one that an exchange has set free.
CapturaFiel ==
  [][\A c \in DOMAIN catches :
       (/\ algoritmo # "SJF-CD" /\ catches[c].entrenador \notin tratados
        /\ ent[catches[c].entrenador].estado = "BLOCKED"
        /\ catches[c].estado = "atrapado" /\ catches'[c].estado = "acreditado") =>
         Last(ent'[catches[c].entrenador].pokemones).nombre = catches[c].nombre]_vars

\* Every trainer gets what it wants and the process ends, in whatever order the threads of
\* messages, trainers and planner take their steps: no post and no trainer is lost.  That
\* is so of teams whose CATCHes all succeed and which want no more than appears.
TeamTermina == <>(vivo = "fin")

=============================================================================
