----------------------------- MODULE BrokerColas -----------------------------
(***************************************************************************)
(* The queues of the Broker (Broker/src/Broker.c): a detached thread for   *)
(* each message that arrives (manejoMensaje) and one for each connection   *)
(* of a subscriber (manejoSuscripcionNew and its five copies), which share *)
(* the lists of messages and subscribers, two counting semaphores for each *)
(* queue, and the semaphore `writer' with the counter `reader', whose      *)
(* increments no mutex protects.                                           *)
(*                                                                         *)
(* A section under a mutex is one action; each access to `reader' and to   *)
(* id_mensaje_global outside of one is an action too.  The memory is the   *)
(* FIFO queue of CacheBroker, whose implementation is Particiones; a       *)
(* client acknowledges what it gets, or disconnects at any moment.         *)
(***************************************************************************)
EXTENDS Integers, Sequences, FiniteSets

CONSTANTS
  Mensaje,     \* the messages, each published by a thread of its own
  Hilo,        \* the connections of subscribers, each served by a thread
  Proceso,     \* the processes that subscribe
  Cola,        \* the queues in use, a subset of Colas
  Nada,        \* no message, no subscriber
  Capacidad    \* messages that fit in the memory

Colas == {"NEW", "APPEARED", "GET", "LOCALIZED", "CATCH", "CAUGHT"}

ASSUME ConstantesValidas ==
  /\ Cola \subseteq Colas
  /\ Capacidad \in Nat \ {0}
  /\ Nada \notin Mensaje
  /\ IsFiniteSet(Mensaje)   \* one run of the Broker publishes finitely many

VARIABLES
  (* globals of the Broker *)
  sistema,            \* "corriendo" or "segfault"
  id_mensaje_global,
  reader,
  writer,             \* value of the semaphore
  primer,             \* primerNew, primerApp, ...: values of the semaphores
  nuevoMensaje,       \* nuevoMensajeNew, nuevoMensajeApp, ...: values of the semaphores
  list_suscriptores,
  list_mensajes,
  recibieron,         \* suscriptoresQueRecibieron of each message, by the id of the process
  cache,              \* the messages in tabla_particiones, the next victim first
  (* locals of the thread of a message *)
  pasoMensaje, cola, id_mensaje,
  (* locals of the thread of a subscriber *)
  paso, suscriptor,
  leido,              \* the value of reader about to be written back
  mensajesAEnviar, mensaje,
  (* the connections *)
  viva,               \* the client has not disconnected
  canal,              \* what is on its way: "nada", "mensaje" or "ack"
  (* history *)
  entregado,          \* <<h, m>>: the client of h has got m over that connection
  yaConfirmados       \* the messages its process had acknowledged when h subscribed

globales == <<sistema, id_mensaje_global, reader, writer, primer, nuevoMensaje,
              list_suscriptores, list_mensajes, recibieron, cache>>
delMensaje == <<pasoMensaje, cola, id_mensaje>>
delHilo == <<paso, suscriptor, leido, mensajesAEnviar, mensaje>>
conexion == <<viva, canal>>
historia == <<entregado, yaConfirmados>>
vars == <<globales, delMensaje, delHilo, conexion, historia>>

Suscriptor == [id : Proceso, op_code : Cola]

Init ==
  /\ sistema = "corriendo"
  /\ id_mensaje_global = 0
  /\ reader = 0 /\ writer = 1
  /\ primer = [c \in Cola |-> 0] /\ nuevoMensaje = [c \in Cola |-> 0]
  /\ list_suscriptores = <<>> /\ list_mensajes = {}
  /\ recibieron = [m \in Mensaje |-> {}]
  /\ cache = <<>>
  /\ pasoMensaje = [m \in Mensaje |-> "libre"]
  /\ cola \in [Mensaje -> Cola]
  /\ id_mensaje = [m \in Mensaje |-> 0]
  /\ paso = [h \in Hilo |-> "libre"]
  /\ suscriptor = [h \in Hilo |-> Nada]
  /\ leido = [h \in Hilo |-> 0]
  /\ mensajesAEnviar = [h \in Hilo |-> {}]
  /\ mensaje = [h \in Hilo |-> Nada]
  /\ viva = [h \in Hilo |-> FALSE]
  /\ canal = [h \in Hilo |-> "nada"]
  /\ entregado = {}
  /\ yaConfirmados = [h \in Hilo |-> {}]

EnMensaje(m, s) == sistema = "corriendo" /\ pasoMensaje[m] = s
SigueMensaje(m, s) == pasoMensaje' = [pasoMensaje EXCEPT ![m] = s]
En(h, s) == sistema = "corriendo" /\ paso[h] = s
Sigue(h, s) == paso' = [paso EXCEPT ![h] = s]

-----------------------------------------------------------------------------
(* The thread of a message *)

\* The increment is under mutex_id_mensaje ...
get_id(m) ==
  /\ EnMensaje(m, "libre")
  /\ id_mensaje_global' = id_mensaje_global + 1
  /\ SigueMensaje(m, "id")
  /\ UNCHANGED <<sistema, reader, writer, primer, nuevoMensaje, list_suscriptores, list_mensajes,
                 recibieron, cache, cola, id_mensaje, delHilo, conexion, historia>>

\* ... but the value returned is read after the unlock.
LeerId(m) ==
  /\ EnMensaje(m, "id")
  /\ id_mensaje' = [id_mensaje EXCEPT ![m] = id_mensaje_global]
  /\ SigueMensaje(m, "listar")
  /\ UNCHANGED <<globales, cola, delHilo, conexion, historia>>

\* Mutant: no token when the subscriber is the only one of the list.
AvisosSinElUltimo(c) ==
  Cardinality({i \in 1..(Len(list_suscriptores) - 1) : list_suscriptores[i].op_code = c})

\* One token for each subscriber of the queue, the last of the list left out,
\* and one more.
Avisos(c) ==
  1 + Cardinality({i \in 1..(Len(list_suscriptores) - 1) : list_suscriptores[i].op_code = c})

\* Mutant: the message is not added to list_mensajes.
RecibirSinListar(m, c) ==
  /\ EnMensaje(m, "listar") /\ cola[m] = c
  /\ nuevoMensaje' = [nuevoMensaje EXCEPT ![c] = @ + Avisos(c)]
  /\ SigueMensaje(m, "writer")
  /\ UNCHANGED <<sistema, id_mensaje_global, reader, writer, primer, list_suscriptores,
                 list_mensajes, recibieron, cache, cola, id_mensaje, delHilo, conexion, historia>>

\* The end of recibirMensajeNew and its copies, under mutex_list_mensaje.
RecibirMensaje(m, c) ==
  /\ EnMensaje(m, "listar") /\ cola[m] = c
  /\ list_mensajes' = list_mensajes \cup {m}
  /\ nuevoMensaje' = [nuevoMensaje EXCEPT ![c] = @ + Avisos(c)]
  /\ SigueMensaje(m, "writer")
  /\ UNCHANGED <<sistema, id_mensaje_global, reader, writer, primer, list_suscriptores, recibieron,
                 cache, cola, id_mensaje, delHilo, conexion, historia>>

recibirMensajeNew(m) == RecibirMensaje(m, "NEW")
recibirMensajeAppeared(m) == RecibirMensaje(m, "APPEARED")
recibirMensajeGet(m) == RecibirMensaje(m, "GET")
recibirMensajeLocalized(m) == RecibirMensaje(m, "LOCALIZED")
recibirMensajeCatch(m) == RecibirMensaje(m, "CATCH")
recibirMensajeCaught(m) == RecibirMensaje(m, "CAUGHT")

\* Mutant: sem_trywait, whose result nobody looks at.
TomarWriterSinEsperar(m) ==
  /\ EnMensaje(m, "writer")
  /\ writer' = writer - 1
  /\ SigueMensaje(m, "guardar")
  /\ UNCHANGED <<sistema, id_mensaje_global, reader, primer, nuevoMensaje, list_suscriptores,
                 list_mensajes, recibieron, cache, cola, id_mensaje, delHilo, conexion, historia>>

TomarWriter(m) ==
  /\ EnMensaje(m, "writer") /\ writer > 0
  /\ writer' = writer - 1
  /\ SigueMensaje(m, "guardar")
  /\ UNCHANGED <<sistema, id_mensaje_global, reader, primer, nuevoMensaje, list_suscriptores,
                 list_mensajes, recibieron, cache, cola, id_mensaje, delHilo, conexion, historia>>

\* Under mutex_guardar_en_memoria; the oldest message leaves a full memory.
guardarMensajeEnCache(m) ==
  /\ EnMensaje(m, "guardar")
  /\ cache' = Append(IF Len(cache) = Capacidad THEN Tail(cache) ELSE cache, m)
  /\ writer' = writer + 1
  /\ SigueMensaje(m, "avisar")
  /\ UNCHANGED <<sistema, id_mensaje_global, reader, primer, nuevoMensaje, list_suscriptores,
                 list_mensajes, recibieron, cola, id_mensaje, delHilo, conexion, historia>>

\* The end of manejoMensaje: the tokens, under mutex_list_mensaje, and the
\* acknowledgement to the publisher.
AvisarPrimer(m) ==
  /\ EnMensaje(m, "avisar")
  /\ primer' = [primer EXCEPT ![cola[m]] = @ + Avisos(cola[m])]
  /\ SigueMensaje(m, "fin")
  /\ UNCHANGED <<sistema, id_mensaje_global, reader, writer, nuevoMensaje, list_suscriptores,
                 list_mensajes, recibieron, cache, cola, id_mensaje, delHilo, conexion, historia>>

manejoMensaje(m) ==
  \/ get_id(m)
  \/ LeerId(m)
  \/ recibirMensajeNew(m)
  \/ recibirMensajeAppeared(m)
  \/ recibirMensajeGet(m)
  \/ recibirMensajeLocalized(m)
  \/ recibirMensajeCatch(m)
  \/ recibirMensajeCaught(m)
  \/ TomarWriter(m)
  \/ guardarMensajeEnCache(m)
  \/ AvisarPrimer(m)

-----------------------------------------------------------------------------
(* The thread of a subscriber *)

procesoSuscriptoACola(s) == \E i \in DOMAIN list_suscriptores : list_suscriptores[i] = s

\* Mutant: a process that comes back is listed again.
SuscribirSinMirar(h, s) ==
  /\ En(h, "libre")
  /\ \A k \in Hilo : viva[k] => suscriptor[k] # s
  /\ suscriptor' = [suscriptor EXCEPT ![h] = s]
  /\ list_suscriptores' = Append(list_suscriptores, s)
  /\ viva' = [viva EXCEPT ![h] = TRUE]
  /\ yaConfirmados' = [yaConfirmados EXCEPT ![h] = {m \in Mensaje : s.id \in recibieron[m]}]
  /\ Sigue(h, "primer")
  /\ UNCHANGED <<sistema, id_mensaje_global, reader, writer, primer, nuevoMensaje, list_mensajes,
                 recibieron, cache, delMensaje, leido, mensajesAEnviar, mensaje, canal, entregado>>

\* main and the head of manejoSuscripcionNew, under mutex_list_suscriptores: a
\* process that comes back keeps its place in the list.  A process connects
\* again to a queue only after its last connection is gone.
Suscribir(h, s) ==
  /\ En(h, "libre")
  /\ \A k \in Hilo : viva[k] => suscriptor[k] # s
  /\ suscriptor' = [suscriptor EXCEPT ![h] = s]
  /\ list_suscriptores' = IF procesoSuscriptoACola(s) THEN list_suscriptores
                                                      ELSE Append(list_suscriptores, s)
  /\ viva' = [viva EXCEPT ![h] = TRUE]
  /\ yaConfirmados' = [yaConfirmados EXCEPT ![h] = {m \in Mensaje : s.id \in recibieron[m]}]
  /\ Sigue(h, "primer")
  /\ UNCHANGED <<sistema, id_mensaje_global, reader, writer, primer, nuevoMensaje, list_mensajes,
                 recibieron, cache, delMensaje, leido, mensajesAEnviar, mensaje, canal, entregado>>

EsperarPrimer(h, c) ==
  /\ En(h, "primer") /\ primer[c] > 0
  /\ primer' = [primer EXCEPT ![c] = @ - 1]
  /\ Sigue(h, "nuevo")
  /\ UNCHANGED <<sistema, id_mensaje_global, reader, writer, nuevoMensaje, list_suscriptores,
                 list_mensajes, recibieron, cache, delMensaje, suscriptor, leido, mensajesAEnviar,
                 mensaje, conexion, historia>>

EsperarNuevo(h, c) ==
  /\ En(h, "nuevo") /\ nuevoMensaje[c] > 0
  /\ nuevoMensaje' = [nuevoMensaje EXCEPT ![c] = @ - 1]
  /\ Sigue(h, "sumar")
  /\ UNCHANGED <<sistema, id_mensaje_global, reader, writer, primer, list_suscriptores,
                 list_mensajes, recibieron, cache, delMensaje, suscriptor, leido, mensajesAEnviar,
                 mensaje, conexion, historia>>

\* reader++ and reader--: a load and a store.
LeerReader(h) ==
  /\ En(h, "sumar") \/ En(h, "restar")
  /\ leido' = [leido EXCEPT ![h] = reader]
  /\ Sigue(h, IF paso[h] = "sumar" THEN "sumado" ELSE "restado")
  /\ UNCHANGED <<globales, delMensaje, suscriptor, mensajesAEnviar, mensaje, conexion, historia>>

EscribirReader(h) ==
  /\ En(h, "sumado") \/ En(h, "restado")
  /\ reader' = leido[h] + (IF paso[h] = "sumado" THEN 1 ELSE -1)
  /\ Sigue(h, IF paso[h] = "sumado" THEN "primero" ELSE "ultimo")
  /\ UNCHANGED <<sistema, id_mensaje_global, writer, primer, nuevoMensaje, list_suscriptores,
                 list_mensajes, recibieron, cache, delMensaje, suscriptor, leido, mensajesAEnviar,
                 mensaje, conexion, historia>>

\* if (reader == 1) sem_wait (&writer)
EsPrimero(h) ==
  /\ En(h, "primero")
  /\ Sigue(h, IF reader = 1 THEN "writer" ELSE "buscar")
  /\ UNCHANGED <<globales, delMensaje, suscriptor, leido, mensajesAEnviar, mensaje, conexion,
                 historia>>

EsperarWriter(h) ==
  /\ En(h, "writer") /\ writer > 0
  /\ writer' = writer - 1
  /\ Sigue(h, "buscar")
  /\ UNCHANGED <<sistema, id_mensaje_global, reader, primer, nuevoMensaje, list_suscriptores,
                 list_mensajes, recibieron, cache, delMensaje, suscriptor, leido, mensajesAEnviar,
                 mensaje, conexion, historia>>

\* Mutant: the test is made on the value before the decrement.
EsUltimoAntesDeRestar(h) ==
  /\ En(h, "ultimo")
  /\ writer' = IF reader = 1 THEN writer + 1 ELSE writer
  /\ Sigue(h, "enviar")
  /\ UNCHANGED <<sistema, id_mensaje_global, reader, primer, nuevoMensaje, list_suscriptores,
                 list_mensajes, recibieron, cache, delMensaje, suscriptor, leido, mensajesAEnviar,
                 mensaje, conexion, historia>>

\* if (reader == 0) sem_post (&writer)
EsUltimo(h) ==
  /\ En(h, "ultimo")
  /\ writer' = IF reader = 0 THEN writer + 1 ELSE writer
  /\ Sigue(h, "enviar")
  /\ UNCHANGED <<sistema, id_mensaje_global, reader, primer, nuevoMensaje, list_suscriptores,
                 list_mensajes, recibieron, cache, delMensaje, suscriptor, leido, mensajesAEnviar,
                 mensaje, conexion, historia>>

\* Mutant: the queue of the message is not compared.
CacheadosDeTodas(c) == {cache[i] : i \in DOMAIN cache}

Cacheados(c) == {cache[i] : i \in {j \in DOMAIN cache : cola[cache[j]] = c}}

\* Mutant: nobody has received anything.
NadieRecibio(p, m) == FALSE

recibioMensaje(p, m) == p \in recibieron[m]

\* obtenerMensaje returns NULL when several messages have the id.
EsUnico(m) == \A k \in list_mensajes : id_mensaje[k] = id_mensaje[m] => k = m

\* Under mutex_guardar_en_memoria.
getMensajesAEnviar(h, c) ==
  /\ En(h, "buscar") /\ \A m \in Cacheados(c) : EsUnico(m)
  /\ mensajesAEnviar' =
       [mensajesAEnviar EXCEPT ![h] = {m \in Cacheados(c) : ~recibioMensaje(suscriptor[h].id, m)}]
  /\ Sigue(h, "restar")
  /\ UNCHANGED <<globales, delMensaje, suscriptor, leido, mensaje, conexion, historia>>

\* recibioMensaje reads the list of a NULL message.
DesreferenciarMensajeNulo(h, c) ==
  /\ En(h, "buscar") /\ \E m \in Cacheados(c) : ~EsUnico(m)
  /\ sistema' = "segfault"
  /\ UNCHANGED <<id_mensaje_global, reader, writer, primer, nuevoMensaje, list_suscriptores,
                 list_mensajes, recibieron, cache, delMensaje, delHilo, conexion, historia>>

\* Mutant: the process counts as having received what is sent to it.
EnviarYAnotar(h) ==
  /\ En(h, "enviar")
  /\ \E m \in mensajesAEnviar[h] :
       /\ mensaje' = [mensaje EXCEPT ![h] = m]
       /\ mensajesAEnviar' = [mensajesAEnviar EXCEPT ![h] = @ \ {m}]
       /\ recibieron' = [recibieron EXCEPT ![m] = @ \cup {suscriptor[h].id}]
  /\ canal' = [canal EXCEPT ![h] = "mensaje"]
  /\ Sigue(h, "ack")
  /\ UNCHANGED <<sistema, id_mensaje_global, reader, writer, primer, nuevoMensaje,
                 list_suscriptores, list_mensajes, cache, delMensaje, suscriptor, leido, viva,
                 historia>>

\* The messages found are sent in the order of their partitions, which is any.
enviarMensaje(h) ==
  /\ En(h, "enviar")
  /\ \E m \in mensajesAEnviar[h] :
       /\ mensaje' = [mensaje EXCEPT ![h] = m]
       /\ mensajesAEnviar' = [mensajesAEnviar EXCEPT ![h] = @ \ {m}]
  /\ canal' = [canal EXCEPT ![h] = "mensaje"]
  /\ Sigue(h, "ack")
  /\ UNCHANGED <<globales, delMensaje, suscriptor, leido, viva, historia>>

TodosEnviados(h) ==
  /\ En(h, "enviar") /\ mensajesAEnviar[h] = {}
  /\ Sigue(h, "primer")
  /\ UNCHANGED <<globales, delMensaje, suscriptor, leido, mensajesAEnviar, mensaje, conexion,
                 historia>>

\* An ACK that has arrived is read even when the client is gone since.
RecibirACK(h) ==
  /\ En(h, "ack") /\ canal[h] = "ack"
  /\ recibieron' = [recibieron EXCEPT ![mensaje[h]] = @ \cup {suscriptor[h].id}]
  /\ canal' = [canal EXCEPT ![h] = "nada"]
  /\ Sigue(h, "enviar")
  /\ UNCHANGED <<sistema, id_mensaje_global, reader, writer, primer, nuevoMensaje,
                 list_suscriptores, list_mensajes, cache, delMensaje, suscriptor, leido,
                 mensajesAEnviar, mensaje, viva, historia>>

\* Only here does the thread notice that the client has gone.
NotarDesconexion(h) ==
  /\ En(h, "ack") /\ canal[h] = "mensaje" /\ ~viva[h]
  /\ Sigue(h, "fin")
  /\ UNCHANGED <<globales, delMensaje, suscriptor, leido, mensajesAEnviar, mensaje, conexion,
                 historia>>

ManejoSuscripcion(h, c) ==
  /\ suscriptor[h] # Nada /\ suscriptor[h].op_code = c
  /\ \/ EsperarPrimer(h, c)
     \/ EsperarNuevo(h, c)
     \/ LeerReader(h)
     \/ EscribirReader(h)
     \/ EsPrimero(h)
     \/ EsperarWriter(h)
     \/ getMensajesAEnviar(h, c)
     \/ DesreferenciarMensajeNulo(h, c)
     \/ EsUltimo(h)
     \/ enviarMensaje(h)
     \/ TodosEnviados(h)
     \/ RecibirACK(h)
     \/ NotarDesconexion(h)

manejoSuscripcionNew(h) == ManejoSuscripcion(h, "NEW")
manejoSuscripcionAppeared(h) == ManejoSuscripcion(h, "APPEARED")
manejoSuscripcionGet(h) == ManejoSuscripcion(h, "GET")
manejoSuscripcionLocalized(h) == ManejoSuscripcion(h, "LOCALIZED")
manejoSuscripcionCatch(h) == ManejoSuscripcion(h, "CATCH")
manejoSuscripcionCaught(h) == ManejoSuscripcion(h, "CAUGHT")

HiloSuscriptor(h) ==
  \/ manejoSuscripcionNew(h)
  \/ manejoSuscripcionAppeared(h)
  \/ manejoSuscripcionGet(h)
  \/ manejoSuscripcionLocalized(h)
  \/ manejoSuscripcionCatch(h)
  \/ manejoSuscripcionCaught(h)

-----------------------------------------------------------------------------
(* The clients: hilo_suscriptor of the Game-Card, the suscriptors of the Team *)

ClienteRecibe(h) ==
  /\ viva[h] /\ canal[h] = "mensaje"
  /\ entregado' = entregado \cup {<<h, mensaje[h]>>}
  /\ canal' = [canal EXCEPT ![h] = "ack"]
  /\ UNCHANGED <<globales, delMensaje, delHilo, viva, yaConfirmados>>

\* The process of the client ends, or its connection does.
Desconectar(h) ==
  /\ viva[h]
  /\ viva' = [viva EXCEPT ![h] = FALSE]
  /\ UNCHANGED <<globales, delMensaje, delHilo, canal, historia>>

Next ==
  \/ \E m \in Mensaje : manejoMensaje(m)
  \/ \E h \in Hilo, s \in Suscriptor : Suscribir(h, s)
  \/ \E h \in Hilo : HiloSuscriptor(h) \/ ClienteRecibe(h) \/ Desconectar(h)

Spec == Init /\ [][Next]_vars

\* Every thread runs, every message is published and every client answers;
\* nobody has to subscribe, and who gets a semaphore is left open.
FairSpec ==
  /\ Spec
  /\ \A m \in Mensaje : WF_vars(manejoMensaje(m))
  /\ \A h \in Hilo : WF_vars(HiloSuscriptor(h)) /\ WF_vars(ClienteRecibe(h))

-----------------------------------------------------------------------------
(* Properties *)

\* Every variable holds a value of the kind its declaration in the code says.
TypeOK ==
  /\ sistema \in {"corriendo", "segfault"}
  /\ id_mensaje_global \in 0..Cardinality(Mensaje)
  /\ reader \in Int /\ writer \in Nat
  /\ primer \in [Cola -> Nat] /\ nuevoMensaje \in [Cola -> Nat]
  /\ list_suscriptores \in Seq(Suscriptor) /\ list_mensajes \subseteq Mensaje
  /\ recibieron \in [Mensaje -> SUBSET Proceso]
  /\ cache \in Seq(Mensaje)
  /\ pasoMensaje \in [Mensaje -> {"libre", "id", "listar", "writer", "guardar", "avisar", "fin"}]
  /\ cola \in [Mensaje -> Cola]
  /\ id_mensaje \in [Mensaje -> Nat]
  /\ paso \in [Hilo -> {"libre", "primer", "nuevo", "sumar", "sumado", "primero", "writer", "buscar",
                        "restar", "restado", "ultimo", "enviar", "ack", "fin"}]
  /\ suscriptor \in [Hilo -> Suscriptor \cup {Nada}]
  /\ leido \in [Hilo -> Int]
  /\ mensajesAEnviar \in [Hilo -> SUBSET Mensaje]
  /\ mensaje \in [Hilo -> Mensaje \cup {Nada}]
  /\ viva \in [Hilo -> BOOLEAN]
  /\ canal \in [Hilo -> {"nada", "mensaje", "ack"}]
  /\ entregado \subseteq Hilo \X Mensaje
  /\ yaConfirmados \in [Hilo -> SUBSET Mensaje]

\* A message that a process had acknowledged when it connected is never sent
\* over that connection, and nothing is delivered twice over one connection.
\* (An ACK that the thread of the old connection has yet to read comes too late
\* for the search of the new one: then the message is delivered again.)
SinReentrega ==
  [][\A h \in Hilo : ClienteRecibe(h) =>
       mensaje[h] \notin yaConfirmados[h] /\ <<h, mensaje[h]>> \notin entregado]_vars

\* suscriptoresQueRecibieron ("estos serian los que devolvieron el ACK"): a
\* process in it did get the message.
ConfirmacionFiel ==
  \A m \in Mensaje : \A p \in recibieron[m] :
    \E h \in Hilo : <<h, m>> \in entregado /\ suscriptor[h].id = p

\* What a connection delivers is of the queue it subscribed to.
EntregaDeSuCola ==
  \A e \in entregado : suscriptor[e[1]].op_code = cola[e[2]]

\* A process stands in list_suscriptores once for each queue, however often it
\* connects: another entry would be another token for every message.
UnaEntradaPorSuscripcion ==
  \A i, j \in DOMAIN list_suscriptores : list_suscriptores[i] = list_suscriptores[j] => i = j

\* A message in the memory is in list_mensajes: the search of a subscriber
\* never comes between the two.
CacheadoEstaListado == \A i \in DOMAIN cache : cache[i] \in list_mensajes

Llegada(h, m) == suscriptor[h] # Nada /\ suscriptor[h].op_code = cola[m]

\* A message in the memory gets to the subscriber of its queue, subscribed
\* before or after it was published, unless the connection is lost, the
\* message is evicted or the process dies.
TodoMensajeLlega ==
  \A h \in Hilo, m \in Mensaje :
    (pasoMensaje[m] = "fin" /\ Llegada(h, m)) ~>
      \/ Llegada(h, m) /\ recibioMensaje(suscriptor[h].id, m)
      \/ \A i \in DOMAIN cache : cache[i] # m
      \/ ~viva[h] \/ sistema = "segfault" \/ \E k \in Hilo \ {h} : suscriptor[k] # Nada

\* Two threads of any queues are between an access to `reader' and the test that
\* follows it: one may lose the count of the other, or test what the other wrote.
DosSobreReader ==
  \E h, k \in Hilo :
    h # k /\ {paso[h], paso[k]} \subseteq {"sumado", "primero", "restado", "ultimo"}

\* Every publisher gets its acknowledgement while the threads of the subscribers take
\* turns on `reader': then `writer' is given back after every search, whichever thread
\* took it, and nobody waits for it for ever.  Once two of them meet there (Broker.c:246,
\* :255) nothing is promised: both may wait for `writer', or leave it taken.
TodoPublicadorTermina ==
  \A m \in Mensaje : <>(pasoMensaje[m] = "fin" \/ sistema = "segfault" \/ DosSobreReader)

\* The message of obtenerMensaje ("Mas de un mensaje con el mismo id") takes
\* two messages with one id for an error.
IdsUnicos == \A m \in list_mensajes : EsUnico(m)
=============================================================================
