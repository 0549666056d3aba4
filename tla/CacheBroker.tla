----------------------------- MODULE CacheBroker -----------------------------
(***************************************************************************)
(* What the memory of the Broker promises, whatever the partition scheme:  *)
(* the cached messages form one queue.  A message being stored (entrante)  *)
(* may push messages out at the head before it enters at the tail.  What   *)
(* goes out is chosen first and goes out later: if the head is sent in     *)
(* between, and so moves to the end, any message may go out instead.       *)
(***************************************************************************)
EXTENDS Naturals, SequencesExt

CONSTANTS
  Mensaje,    \* the messages
  SinMensaje  \* no message

VARIABLES
  reordena_al_enviar,  \* TRUE under LRU: sending a message renews it
  cache,               \* the cached messages, the next victim first
  entrante,            \* the message being stored, or SinMensaje
  eleccion             \* the choice of what goes out: "ninguna", "empezada" or,
                       \* once the head has been sent meanwhile, "renovada"

vars == <<reordena_al_enviar, cache, entrante, eleccion>>

Init ==
  /\ reordena_al_enviar \in BOOLEAN
  /\ cache = <<>> /\ entrante = SinMensaje /\ eleccion = "ninguna"

Publicar(m) ==
  /\ entrante = SinMensaje /\ m \notin ToSet(cache)
  /\ entrante' = m
  /\ UNCHANGED <<cache, eleccion>>

Elegir ==
  /\ entrante # SinMensaje /\ cache # <<>> /\ eleccion = "ninguna"
  /\ eleccion' = "empezada"
  /\ UNCHANGED <<cache, entrante>>

Desalojar ==
  /\ \/ eleccion = "empezada" /\ cache' = Tail(cache)
     \/ eleccion = "renovada" /\ \E i \in DOMAIN cache : cache' = RemoveAt(cache, i)
  /\ eleccion' = "ninguna"
  /\ UNCHANGED entrante

Guardar ==
  /\ entrante # SinMensaje /\ eleccion = "ninguna"
  /\ cache' = Append(cache, entrante)
  /\ entrante' = SinMensaje
  /\ UNCHANGED eleccion

Usar(m) ==
  /\ reordena_al_enviar
  /\ \E i \in DOMAIN cache :
       /\ cache[i] = m
       /\ cache' = Append(RemoveAt(cache, i), m)
       /\ eleccion' = IF i = 1 /\ eleccion # "ninguna" THEN "renovada" ELSE eleccion
  /\ UNCHANGED entrante

Next ==
  /\ \/ Elegir
     \/ Desalojar
     \/ Guardar
     \/ \E m \in Mensaje : Publicar(m) \/ Usar(m)
  /\ UNCHANGED reordena_al_enviar

Spec == Init /\ [][Next]_vars
=============================================================================
