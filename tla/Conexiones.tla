------------------------------ MODULE Conexiones ------------------------------
(***************************************************************************)
(* The connections of the system: the main loop of the Broker, which       *)
(* serves one handshake at a time and hands each connection to a thread    *)
(* through a structure on its own stack (Broker.c), and its clients: the   *)
(* subscriber threads of a Team and a Game-Card, which reconnect for ever, *)
(* the subscriber mode of the Game-Boy, which tries once and stays for a   *)
(* time, and whoever publishes one message and leaves.                     *)
(*                                                                         *)
(* Processes die and come back, the Broker too; what was sent before is    *)
(* still read.  A send is whole: what a packet holds arrives together.     *)
(* Which message a thread of the Broker sends and when, its id and the     *)
(* memory are the matter of BrokerColas; here any message of its queue     *)
(* that the process has not acknowledged may go next, and ids are 0.       *)
(***************************************************************************)
EXTENDS Mensajes, FiniteSets

CONSTANTS
  Escenarios,   \* the clients, each with its profile, how many times the Broker may
                \* crash (caidas) and a client die (muertes), and the connections
                \* that each client can need (conexiones)
  Nada          \* no connection

\* The queue of each message.
suscripcion == [NEW_POKEMON |-> "SUSCRIPCION_NEW", APPEARED_POKEMON |-> "SUSCRIPCION_APPEARED",
                GET_POKEMON |-> "SUSCRIPCION_GET", LOCALIZED_POKEMON |-> "SUSCRIPCION_LOCALIZED",
                CATCH_POKEMON |-> "SUSCRIPCION_CATCH", CAUGHT_POKEMON |-> "SUSCRIPCION_CAUGHT"]

\* The Game-Boy has no case for a LOCALIZED, whose payload it leaves in the stream: what it
\* would read after that is not modelled, and no Game-Boy here subscribes to that queue.
Cola == {suscripcion[o] : o \in DOMAIN suscripcion}
Perfil ==
       [tipo : {"suscriptor"}, id_proceso : Nat, operacion : Cola]
  \cup [tipo : {"gameboy"}, id_proceso : Nat, operacion : Cola \ {"SUSCRIPCION_LOCALIZED"}]
  \cup [tipo : {"publicador"}, id_proceso : Nat, mensaje : Mensaje, id_mensaje : Nat]

ASSUME EscenariosValidos ==
  /\ Largo \in [DOMAIN Largo -> Nat]
  /\ \A x \in Escenarios :
       /\ x.caidas \in Nat /\ x.muertes \in Nat /\ x.conexiones \in Nat \ {0}
       /\ x.clientes \in [DOMAIN x.clientes -> Perfil]

VARIABLES
  escenario,
  (* the Broker *)
  vivo, caidas,
  writer,                    \* "sano", "perdido" by a race of its readers, "repuesto" by another
  aceptar,                   \* connections that wait for accept
  principal,                 \* locals of main
  mutex_list_suscriptores, estructura_suscriptor,
  mutex_estructura_mensajes, estructura_mensaje,
  hilo,                      \* the thread that main creates for each connection
  list_suscriptores, list_mensajes,
  recibieron,                \* <<entry of list_mensajes, id of process>>
  (* the clients *)
  cliente, muertes,
  (* the connections: who has closed it, what is on its way *)
  conexion,
  recibido                   \* history: <<client, message it has read>>

brokerVars == <<vivo, caidas, writer, aceptar, principal, mutex_list_suscriptores,
                estructura_suscriptor, mutex_estructura_mensajes, estructura_mensaje, hilo,
                list_suscriptores, list_mensajes, recibieron>>
clienteVars == <<cliente, muertes, recibido>>
vars == <<escenario, brokerVars, clienteVars, conexion>>

perfil == escenario.clientes
Cliente == DOMAIN perfil
Conexion == Cliente \X (1..escenario.conexiones)
\* The same over every scenario.
ClientePosible == UNION {DOMAIN x.clientes : x \in Escenarios}
ConexionPosible == UNION {(DOMAIN x.clientes) \X (1..x.conexiones) : x \in Escenarios}

Suscriptores == {c \in Cliente : perfil[c].tipo = "suscriptor"}
GameBoys == {c \in Cliente : perfil[c].tipo = "gameboy"}
Publicadores == {c \in Cliente : perfil[c].tipo = "publicador"}

SinUsar == [cliente |-> FALSE, broker |-> FALSE, aBroker |-> <<>>, aCliente |-> <<>>, rst |-> FALSE]
Abierta == [SinUsar EXCEPT !.cliente = TRUE, !.broker = TRUE]
EnAccept == [paso |-> "accept", con |-> Nada, id_proceso |-> 0, operacion |-> "ACK", id_mensaje |-> 0]
SinHilo == [paso |-> "no", con |-> Nada, id_proceso |-> 0, operacion |-> "ACK", id_mensaje |-> 0,
            mensaje |-> Nada]
SinLlenar == [con |-> Nada, id_proceso |-> 0, operacion |-> "ACK", id_mensaje |-> 0]

Init ==
  /\ escenario \in Escenarios
  /\ vivo = TRUE /\ caidas = 0 /\ muertes = 0 /\ writer = "sano"
  /\ aceptar = <<>> /\ principal = EnAccept
  /\ mutex_list_suscriptores = FALSE /\ estructura_suscriptor = SinLlenar
  /\ mutex_estructura_mensajes = FALSE /\ estructura_mensaje = SinLlenar
  /\ hilo = [k \in Conexion |-> SinHilo]
  /\ list_suscriptores = {} /\ list_mensajes = {} /\ recibieron = {}
  /\ cliente = [c \in Cliente |-> [paso |-> "conectar", intento |-> 0, corriendo |-> TRUE]]
  /\ conexion = [k \in Conexion |-> SinUsar]
  /\ recibido = {}

-----------------------------------------------------------------------------
(* Sockets *)

HayEncabezado(s) == Len(s) >= ENCABEZADO
Operacion(s) == LeerEntero(s, 0)
Identificador(s) == LeerEntero(s, 2 * INT32)
Resto(s, n) == SubSeq(s, n + 1, Len(s))

\* The first send to a client that has gone is answered with a reset.
AlCliente(x, bytes) ==
  IF x.cliente THEN [x EXCEPT !.aCliente = @ \o bytes] ELSE [x EXCEPT !.rst = TRUE]

AlBroker(x, bytes) == IF x.broker THEN [x EXCEPT !.aBroker = @ \o bytes] ELSE x

LeerDelCliente(x, n) == [x EXCEPT !.aBroker = Resto(@, n)]
LeerDelBroker(x, n) == [x EXCEPT !.aCliente = Resto(@, n)]

\* close, on each side.
CierraCliente(x) ==
  IF x.broker THEN [x EXCEPT !.cliente = FALSE, !.aCliente = <<>>] ELSE SinUsar
CierraBroker(x) ==
  IF x.cliente THEN [x EXCEPT !.broker = FALSE, !.aBroker = <<>>] ELSE SinUsar

-----------------------------------------------------------------------------
(* The main loop of the Broker *)

EnMain(s) == vivo /\ principal.paso = s
Entrante == conexion[principal.con].aBroker

\* recv returns 0: the client has closed and nothing is left to read.
Colgado(k) == ~conexion[k].cliente /\ ~HayEncabezado(conexion[k].aBroker)

recibir_cliente ==
  /\ EnMain("accept") /\ aceptar # <<>>
  /\ principal' = [principal EXCEPT !.paso = "handshake", !.con = Head(aceptar)]
  /\ aceptar' = Tail(aceptar)
  /\ UNCHANGED <<escenario, vivo, caidas, writer, mutex_list_suscriptores, estructura_suscriptor,
                 mutex_estructura_mensajes, estructura_mensaje, hilo, list_suscriptores,
                 list_mensajes, recibieron, clienteVars, conexion>>

\* A process that does not identify itself is left without an answer.
RecibirHandshake ==
  /\ EnMain("handshake") /\ HayEncabezado(Entrante)
  /\ IF Operacion(Entrante) = "HANDSHAKE"
     THEN /\ principal' = [principal EXCEPT !.paso = "operacion",
                                            !.id_proceso = Identificador(Entrante)]
          /\ conexion' = [conexion EXCEPT
               ![principal.con] = AlCliente(LeerDelCliente(@, ENCABEZADO), enviar_ACK(0))]
     ELSE /\ principal' = EnAccept
          /\ conexion' = [conexion EXCEPT ![principal.con] = LeerDelCliente(@, INT32)]
  /\ UNCHANGED <<escenario, vivo, caidas, writer, aceptar, mutex_list_suscriptores,
                 estructura_suscriptor, mutex_estructura_mensajes, estructura_mensaje, hilo,
                 list_suscriptores, list_mensajes, recibieron, clienteVars>>

RecibirOperacion ==
  /\ EnMain("operacion") /\ HayEncabezado(Entrante)
  /\ principal' = [principal EXCEPT !.paso = "crear", !.operacion = Operacion(Entrante),
                                    !.id_mensaje = Identificador(Entrante)]
  /\ conexion' = [conexion EXCEPT ![principal.con] = LeerDelCliente(@, ENCABEZADO)]
  /\ UNCHANGED <<escenario, vivo, caidas, writer, aceptar, mutex_list_suscriptores,
                 estructura_suscriptor, mutex_estructura_mensajes, estructura_mensaje, hilo,
                 list_suscriptores, list_mensajes, recibieron, clienteVars>>

\* Both failures of recv go back to accept; the socket is not closed.
FalloAlRecibir ==
  /\ EnMain("handshake") \/ EnMain("operacion")
  /\ Colgado(principal.con)
  /\ principal' = EnAccept
  /\ UNCHANGED <<escenario, vivo, caidas, writer, aceptar, mutex_list_suscriptores,
                 estructura_suscriptor, mutex_estructura_mensajes, estructura_mensaje, hilo,
                 list_suscriptores, list_mensajes, recibieron, clienteVars, conexion>>

Estructura == [con |-> principal.con, id_proceso |-> principal.id_proceso,
               operacion |-> principal.operacion, id_mensaje |-> principal.id_mensaje]

EsSuscripcion(op) == \E o \in DOMAIN suscripcion : suscripcion[o] = op

\* Mutant: main fills the structure without the mutex.
CrearHiloSinMutex ==
  /\ EnMain("crear") /\ EsSuscripcion(principal.operacion)
  /\ mutex_list_suscriptores' = TRUE
  /\ estructura_suscriptor' = Estructura
  /\ hilo' = [hilo EXCEPT ![principal.con].paso = "suscribir"]
  /\ principal' = EnAccept
  /\ UNCHANGED <<escenario, vivo, caidas, writer, aceptar, mutex_estructura_mensajes,
                 estructura_mensaje, list_suscriptores, list_mensajes, recibieron, clienteVars,
                 conexion>>

\* The mutex that main takes is left to the thread.
CrearHiloSuscripcion ==
  /\ EnMain("crear") /\ EsSuscripcion(principal.operacion)
  /\ ~mutex_list_suscriptores
  /\ mutex_list_suscriptores' = TRUE
  /\ estructura_suscriptor' = Estructura
  /\ hilo' = [hilo EXCEPT ![principal.con].paso = "suscribir"]
  /\ principal' = EnAccept
  /\ UNCHANGED <<escenario, vivo, caidas, writer, aceptar, mutex_estructura_mensajes,
                 estructura_mensaje, list_suscriptores, list_mensajes, recibieron, clienteVars,
                 conexion>>

CrearHiloMensaje ==
  /\ EnMain("crear") /\ principal.operacion \in DOMAIN suscripcion
  /\ ~mutex_estructura_mensajes
  /\ mutex_estructura_mensajes' = TRUE
  /\ estructura_mensaje' = Estructura
  /\ hilo' = [hilo EXCEPT ![principal.con].paso = "mensaje"]
  /\ principal' = EnAccept
  /\ UNCHANGED <<escenario, vivo, caidas, writer, aceptar, mutex_list_suscriptores,
                 estructura_suscriptor, list_suscriptores, list_mensajes, recibieron, clienteVars,
                 conexion>>

main ==
  \/ recibir_cliente
  \/ RecibirHandshake
  \/ RecibirOperacion
  \/ FalloAlRecibir
  \/ CrearHiloSuscripcion
  \/ CrearHiloMensaje

-----------------------------------------------------------------------------
(* The threads of the Broker *)

EnHilo(k, s) == vivo /\ hilo[k].paso = s

Copiar(e, s) == [paso |-> s, con |-> e.con, id_proceso |-> e.id_proceso, operacion |-> e.operacion,
                 id_mensaje |-> e.id_mensaje, mensaje |-> Nada]

\* The head of manejoSuscripcionNew and its five copies.
manejoSuscripcion(k) ==
  /\ EnHilo(k, "suscribir")
  /\ hilo' = [hilo EXCEPT ![k] = Copiar(estructura_suscriptor, "ack")]
  /\ list_suscriptores' = list_suscriptores \cup
       {[id |-> estructura_suscriptor.id_proceso, op_code |-> estructura_suscriptor.operacion]}
  /\ mutex_list_suscriptores' = FALSE
  /\ UNCHANGED <<escenario, vivo, caidas, writer, aceptar, principal, estructura_suscriptor,
                 mutex_estructura_mensajes, estructura_mensaje, list_mensajes, recibieron,
                 clienteVars, conexion>>

ConfirmarSuscripcion(k) ==
  /\ EnHilo(k, "ack")
  /\ conexion' = [conexion EXCEPT ![hilo[k].con] = AlCliente(@, enviar_ACK(0))]
  /\ hilo' = [hilo EXCEPT ![k].paso = "atender"]
  /\ UNCHANGED <<escenario, vivo, caidas, writer, aceptar, principal, mutex_list_suscriptores,
                 estructura_suscriptor, mutex_estructura_mensajes, estructura_mensaje,
                 list_suscriptores, list_mensajes, recibieron, clienteVars>>

PorEnviar(k) == {m \in list_mensajes : /\ suscripcion[m.operacion] = hilo[k].operacion
                                       /\ <<m, hilo[k].id_proceso>> \notin recibieron}

\* enviarMensaje: the id that goes is the correlative one when there is one.
EnviarASuscriptor(k) ==
  /\ EnHilo(k, "atender")
  /\ \E m \in PorEnviar(k) :
       /\ conexion' = [conexion EXCEPT
            ![hilo[k].con] = AlCliente(@, EnviarMensaje(m.mensaje, m.id_mensaje_correlativo))]
       /\ hilo' = [hilo EXCEPT ![k].paso = "espera", ![k].mensaje = m]
  /\ UNCHANGED <<escenario, vivo, caidas, writer, aceptar, principal, mutex_list_suscriptores,
                 estructura_suscriptor, mutex_estructura_mensajes, estructura_mensaje,
                 list_suscriptores, list_mensajes, recibieron, clienteVars>>

\* Of a code that is not ACK nothing else is read.
RecibirACK(k) ==
  LET s == conexion[hilo[k].con].aBroker
      esACK == Operacion(s) = "ACK"
  IN  /\ EnHilo(k, "espera") /\ HayEncabezado(s)
      /\ recibieron' = recibieron \cup
           (IF esACK THEN {<<hilo[k].mensaje, hilo[k].id_proceso>>} ELSE {})
      /\ conexion' = [conexion EXCEPT
           ![hilo[k].con] = LeerDelCliente(@, IF esACK THEN ENCABEZADO ELSE INT32)]
      /\ hilo' = [hilo EXCEPT ![k].paso = "atender", ![k].mensaje = Nada]
      /\ UNCHANGED <<escenario, vivo, caidas, writer, aceptar, principal, mutex_list_suscriptores,
                     estructura_suscriptor, mutex_estructura_mensajes, estructura_mensaje,
                     list_suscriptores, list_mensajes, clienteVars>>

SeDesconecto(k) ==
  /\ EnHilo(k, "espera") /\ Colgado(hilo[k].con)
  /\ conexion' = [conexion EXCEPT ![hilo[k].con] = CierraBroker(@)]
  /\ hilo' = [hilo EXCEPT ![k] = [SinHilo EXCEPT !.paso = "fin"]]
  /\ UNCHANGED <<escenario, vivo, caidas, writer, aceptar, principal, mutex_list_suscriptores,
                 estructura_suscriptor, mutex_estructura_mensajes, estructura_mensaje,
                 list_suscriptores, list_mensajes, recibieron, clienteVars>>

manejoMensaje(k) ==
  /\ EnHilo(k, "mensaje")
  /\ hilo' = [hilo EXCEPT ![k] = Copiar(estructura_mensaje, "recibir")]
  /\ mutex_estructura_mensajes' = FALSE
  /\ UNCHANGED <<escenario, vivo, caidas, writer, aceptar, principal, mutex_list_suscriptores,
                 estructura_suscriptor, estructura_mensaje, list_suscriptores, list_mensajes,
                 recibieron, clienteVars, conexion>>

\* recibirMensajeNew and its five copies.
RecibirMensaje(k) ==
  /\ EnHilo(k, "recibir")
  /\ LET h == hilo[k]
         leido == deserializar(h.operacion, conexion[h.con].aBroker)
     IN  /\ list_mensajes' = list_mensajes \cup
              {[con |-> h.con, operacion |-> h.operacion, mensaje |-> leido.mensaje,
                id_mensaje_correlativo |-> h.id_mensaje, process_id |-> h.id_proceso]}
         /\ conexion' = [conexion EXCEPT ![h.con] = LeerDelCliente(@, leido.leidos)]
  /\ hilo' = [hilo EXCEPT ![k].paso = "responder"]
  /\ UNCHANGED <<escenario, vivo, caidas, writer, aceptar, principal, mutex_list_suscriptores,
                 estructura_suscriptor, mutex_estructura_mensajes, estructura_mensaje,
                 list_suscriptores, recibieron, clienteVars>>

\* Of the searches for a subscriber only what they may do to `writer' is here.  Two
\* threads of any queues that meet on `reader' take it and leave it for ever, or wait for
\* each other; a later meeting may post it again (BrokerColas has their steps).  Nothing
\* is searched for before a message has been stored.
Buscando == {k \in Conexion : EnHilo(k, "atender")}
PerderWriter ==
  /\ writer # "perdido"
  /\ \E j, k \in Buscando : j # k
  /\ \E m \in list_mensajes : hilo[m.con].paso = "fin"
  /\ writer' = "perdido"
  /\ UNCHANGED <<escenario, vivo, caidas, aceptar, principal, mutex_list_suscriptores,
                 estructura_suscriptor, mutex_estructura_mensajes, estructura_mensaje, hilo,
                 list_suscriptores, list_mensajes, recibieron, clienteVars, conexion>>

ReponerWriter ==
  /\ writer = "perdido" /\ Buscando # {}
  /\ writer' = "repuesto"
  /\ UNCHANGED <<escenario, vivo, caidas, aceptar, principal, mutex_list_suscriptores,
                 estructura_suscriptor, mutex_estructura_mensajes, estructura_mensaje, hilo,
                 list_suscriptores, list_mensajes, recibieron, clienteVars, conexion>>

\* The rest of manejoMensaje, from sem_wait(&writer), which may never return, to the end;
\* the post of `writer' and the tokens go with it.
ResponderACK(k) ==
  /\ EnHilo(k, "responder") /\ writer # "perdido"
  /\ conexion' = [conexion EXCEPT ![hilo[k].con] = CierraBroker(AlCliente(@, enviar_ACK(0)))]
  /\ hilo' = [hilo EXCEPT ![k] = [SinHilo EXCEPT !.paso = "fin"]]
  /\ UNCHANGED <<escenario, vivo, caidas, writer, aceptar, principal, mutex_list_suscriptores,
                 estructura_suscriptor, mutex_estructura_mensajes, estructura_mensaje,
                 list_suscriptores, list_mensajes, recibieron, clienteVars>>

\* What a thread does whatever the tokens of its queue.
HiloSigue(k) ==
  \/ manejoSuscripcion(k)
  \/ ConfirmarSuscripcion(k)
  \/ RecibirACK(k)
  \/ SeDesconecto(k)
  \/ manejoMensaje(k)
  \/ RecibirMensaje(k)
  \/ ResponderACK(k)

-----------------------------------------------------------------------------
(* Crashes of the Broker *)

Muere ==
  /\ vivo' = FALSE /\ writer' = "sano"
  /\ aceptar' = <<>> /\ principal' = EnAccept
  /\ mutex_list_suscriptores' = FALSE /\ estructura_suscriptor' = SinLlenar
  /\ mutex_estructura_mensajes' = FALSE /\ estructura_mensaje' = SinLlenar
  /\ hilo' = [k \in Conexion |-> SinHilo]
  /\ list_suscriptores' = {} /\ list_mensajes' = {} /\ recibieron' = {}
  /\ conexion' = [k \in Conexion |-> CierraBroker(conexion[k])]
  /\ UNCHANGED <<escenario, clienteVars>>

Caida ==
  /\ vivo /\ caidas < escenario.caidas
  /\ caidas' = caidas + 1
  /\ Muere

\* No process ignores SIGPIPE: the second send to a client that has gone kills the
\* Broker.
SigPipe(k) ==
  /\ EnHilo(k, "atender") /\ PorEnviar(k) # {}
  /\ conexion[hilo[k].con].rst
  /\ UNCHANGED caidas
  /\ Muere

Reiniciar ==
  /\ ~vivo
  /\ vivo' = TRUE
  /\ UNCHANGED <<escenario, caidas, writer, aceptar, principal, mutex_list_suscriptores,
                 estructura_suscriptor, mutex_estructura_mensajes, estructura_mensaje, hilo,
                 list_suscriptores, list_mensajes, recibieron, clienteVars, conexion>>

-----------------------------------------------------------------------------
(* The clients *)

EnCliente(c, s) == cliente[c].paso = s
Mia(c) == <<c, cliente[c].intento>>
Saliente(c) == conexion[Mia(c)].aCliente

\* crear_conexion, which succeeds as soon as the Broker listens.
crear_conexion(c) ==
  /\ EnCliente(c, "conectar") /\ vivo
  /\ cliente[c].intento < escenario.conexiones
  /\ LET k == <<c, cliente[c].intento + 1>>
     IN  /\ conexion' = [conexion EXCEPT ![k] = Abierta]
         /\ aceptar' = Append(aceptar, k)
  /\ cliente' = [cliente EXCEPT ![c].paso = "handshake", ![c].intento = @ + 1]
  /\ UNCHANGED <<escenario, vivo, caidas, writer, principal, mutex_list_suscriptores,
                 estructura_suscriptor, mutex_estructura_mensajes, estructura_mensaje, hilo,
                 list_suscriptores, list_mensajes, recibieron, muertes, recibido>>

\* Without a Broker a subscriber tries again after a time; the others give up.
SinBroker(c) ==
  /\ EnCliente(c, "conectar") /\ ~vivo /\ c \notin Suscriptores
  /\ cliente' = [cliente EXCEPT ![c].paso = "fin"]
  /\ UNCHANGED <<escenario, brokerVars, conexion, muertes, recibido>>

EnviarHandshake(c) ==
  /\ EnCliente(c, "handshake")
  /\ conexion' = [conexion EXCEPT ![Mia(c)] = AlBroker(@, enviar_handshake(perfil[c].id_proceso))]
  /\ cliente' = [cliente EXCEPT ![c].paso = "ack_handshake"]
  /\ UNCHANGED <<escenario, brokerVars, muertes, recibido>>

Pedido(c) == IF c \in Publicadores THEN EnviarMensaje(perfil[c].mensaje, perfil[c].id_mensaje)
                                   ELSE enviar_suscripcion(perfil[c].operacion)

\* The ACK of the handshake is answered with the message or the subscription.
EnviarPedido(c) ==
  /\ EnCliente(c, "ack_handshake") /\ HayEncabezado(Saliente(c)) /\ Operacion(Saliente(c)) = "ACK"
  /\ conexion' = [conexion EXCEPT
       ![Mia(c)] = AlBroker(LeerDelBroker(@, ENCABEZADO), Pedido(c))]
  /\ cliente' = [cliente EXCEPT ![c].paso = "ack_pedido"]
  /\ UNCHANGED <<escenario, brokerVars, muertes, recibido>>

\* The second ACK: who published leaves, who subscribed listens.
RecibirRespuesta(c) ==
  /\ EnCliente(c, "ack_pedido") /\ HayEncabezado(Saliente(c)) /\ Operacion(Saliente(c)) = "ACK"
  /\ IF c \in Publicadores
     THEN /\ conexion' = [conexion EXCEPT ![Mia(c)] = CierraCliente(@)]
          /\ cliente' = [cliente EXCEPT ![c].paso = "fin"]
     ELSE /\ conexion' = [conexion EXCEPT ![Mia(c)] = LeerDelBroker(@, ENCABEZADO)]
          /\ cliente' = [cliente EXCEPT ![c].paso = "escuchar"]
  /\ UNCHANGED <<escenario, brokerVars, muertes, recibido>>

\* Mutant: a subscriber whose connection falls while it listens does not connect again.
DarPorPerdida(c) ==
  /\ \/ EnCliente(c, "ack_handshake") /\ c \notin Suscriptores
     \/ EnCliente(c, "ack_pedido")
     \/ EnCliente(c, "escuchar") /\ c \in Suscriptores
  /\ ~conexion[Mia(c)].broker /\ ~HayEncabezado(Saliente(c))
  /\ conexion' = [conexion EXCEPT ![Mia(c)] = CierraCliente(@)]
  /\ cliente' = [cliente EXCEPT
       ![c].paso = IF c \in Suscriptores /\ @ # "escuchar" THEN "conectar" ELSE "fin"]
  /\ UNCHANGED <<escenario, brokerVars, muertes, recibido>>

\* recv fails: a subscriber closes and connects again, the others leave.  A
\* Game-Boy that listens goes round its loop until the time is over.
SeCayoLaConexion(c) ==
  /\ \/ EnCliente(c, "ack_handshake") /\ c \notin Suscriptores
     \/ EnCliente(c, "ack_pedido")
     \/ EnCliente(c, "escuchar") /\ c \in Suscriptores
  /\ ~conexion[Mia(c)].broker /\ ~HayEncabezado(Saliente(c))
  /\ conexion' = [conexion EXCEPT ![Mia(c)] = CierraCliente(@)]
  /\ cliente' = [cliente EXCEPT ![c].paso = IF c \in Suscriptores THEN "conectar" ELSE "fin"]
  /\ UNCHANGED <<escenario, brokerVars, muertes, recibido>>

\* The Game-Boy acknowledges a LOCALIZED without reading its payload.
Leido(c, op, s) ==
  IF c \in GameBoys /\ op = "LOCALIZED_POKEMON" THEN [mensaje |-> Nada, leidos |-> 0]
                                                ELSE deserializar(op, s)

\* A message: read, acknowledged, and left to a thread of the client.
Escuchar(c) ==
  LET s == Saliente(c)
      leido == Leido(c, Operacion(s), Resto(s, ENCABEZADO))
  IN  /\ EnCliente(c, "escuchar") /\ HayEncabezado(s)
      /\ c \in GameBoys => cliente[c].corriendo
      /\ conexion' = [conexion EXCEPT
           ![Mia(c)] = AlBroker(LeerDelBroker(@, ENCABEZADO + leido.leidos), enviar_ACK(0))]
      /\ recibido' = recibido \cup {<<c, leido.mensaje, Identificador(s)>>}
      /\ UNCHANGED <<escenario, brokerVars, cliente, muertes>>

\* The thread of the Game-Boy that sleeps for the time of its argument.
cronometrar(c) ==
  /\ c \in GameBoys /\ EnCliente(c, "escuchar") /\ cliente[c].corriendo
  /\ cliente' = [cliente EXCEPT ![c].corriendo = FALSE]
  /\ UNCHANGED <<escenario, brokerVars, muertes, recibido, conexion>>

finalizar(c) ==
  /\ c \in GameBoys /\ EnCliente(c, "escuchar") /\ ~cliente[c].corriendo
  /\ conexion' = [conexion EXCEPT ![Mia(c)] = CierraCliente(@)]
  /\ cliente' = [cliente EXCEPT ![c].paso = "fin"]
  /\ UNCHANGED <<escenario, brokerVars, muertes, recibido>>

\* The threads of one process; each Game-Boy, whose identifier is 1, is its own.
DelProceso(c) ==
  {d \in Cliente : d = c \/ (perfil[d].id_proceso = perfil[c].id_proceso /\ perfil[c].id_proceso # 1)}

\* A process dies with its connections.  One that subscribes is started again.
MuereProceso(c) ==
  /\ conexion' = [k \in Conexion |->
       IF \E d \in DelProceso(c) : cliente[d].paso \notin {"conectar", "fin"} /\ k = Mia(d)
       THEN CierraCliente(conexion[k]) ELSE conexion[k]]
  /\ cliente' = [d \in Cliente |->
       IF d \in DelProceso(c)
       THEN [cliente[d] EXCEPT !.paso = IF d \in Suscriptores THEN "conectar" ELSE "fin"]
       ELSE cliente[d]]

\* A subscriber has no branch for the recv that fails while it waits for the ACK of its
\* handshake: it keeps the socket and sends another handshake, until SIGPIPE kills it.
HandshakePerdido(c) ==
  /\ EnCliente(c, "ack_handshake") /\ c \in Suscriptores
  /\ ~conexion[Mia(c)].broker /\ ~HayEncabezado(Saliente(c))
  /\ MuereProceso(c)
  /\ UNCHANGED <<escenario, brokerVars, muertes, recibido>>

ClienteSigue(c) ==
  \/ HandshakePerdido(c)
  \/ crear_conexion(c)
  \/ SinBroker(c)
  \/ EnviarHandshake(c)
  \/ EnviarPedido(c)
  \/ RecibirRespuesta(c)
  \/ SeCayoLaConexion(c)
  \/ Escuchar(c)
  \/ cronometrar(c)
  \/ finalizar(c)

\* The process dies without a failed send of its own.
Muerte(c) ==
  /\ muertes < escenario.muertes
  /\ cliente[c].paso \notin {"conectar", "fin"}
  /\ muertes' = muertes + 1
  /\ MuereProceso(c)
  /\ UNCHANGED <<escenario, brokerVars, recibido>>

-----------------------------------------------------------------------------
Next ==
  \/ main
  \/ \E k \in Conexion : HiloSigue(k) \/ EnviarASuscriptor(k) \/ SigPipe(k)
  \/ PerderWriter
  \/ ReponerWriter
  \/ Caida
  \/ Reiniciar
  \/ \E c \in Cliente : ClienteSigue(c) \/ Muerte(c)

Spec == Init /\ [][Next]_vars

\* Threads are scheduled and the Broker is started again; nothing is assumed of the
\* order in which a queue is served, of `writer' once it is lost, nor of crashes.
Fairness ==
  /\ WF_vars(main)
  /\ \A k \in ConexionPosible : WF_vars(k \in Conexion /\ HiloSigue(k))
  /\ \A c \in ClientePosible : WF_vars(c \in Cliente /\ ClienteSigue(c))
  /\ WF_vars(Reiniciar)

FairSpec == Spec /\ Fairness

-----------------------------------------------------------------------------
(* Properties *)

\* Whoever listens on a connection that the Broker holds is in list_suscriptores,
\* and one thread serves it, its own: the structure that main fills for the next
\* connection never reaches the thread of the last (Broker.c:56, :217).
SuscripcionReal ==
  /\ \A c \in Cliente :
       EnCliente(c, "escuchar") /\ conexion[Mia(c)].broker =>
         /\ [id |-> perfil[c].id_proceso, op_code |-> perfil[c].operacion] \in list_suscriptores
         /\ \E k \in Conexion : hilo[k].con = Mia(c) /\ hilo[k].paso \in {"atender", "espera"}
  /\ \A j, k \in Conexion : j # k /\ hilo[j].con = hilo[k].con => hilo[k].con = Nada

\* The Broker lists a message as it was published, with its correlative id; a
\* subscriber reads a message of its queue as it was published, with that id; and a
\* message that counts as received by a process was read by one of its threads
\* (sockets.c:116, Broker.c:862, Broker.c:267).
MensajeFiel ==
  /\ \A m \in list_mensajes :
       LET p == perfil[m.con[1]]
       IN  /\ m.mensaje = p.mensaje /\ m.operacion = p.mensaje.op
           /\ m.id_mensaje_correlativo = p.id_mensaje /\ m.process_id = p.id_proceso
  /\ \A r \in recibido :
       \E p \in Publicadores : /\ r[2] = perfil[p].mensaje /\ r[3] = perfil[p].id_mensaje
                               /\ suscripcion[r[2].op] = perfil[r[1]].operacion
  /\ \A r \in recibieron :
       \E l \in recibido : l[2] = r[1].mensaje /\ perfil[l[1]].id_proceso = r[2]

\* A message LOCALIZED holds every position it was sent with, as the comment of
\* getSizeMensajeLocalized lays it out (Broker.c:1280).
LocalizedFiel ==
  \A m \in list_mensajes :
    m.operacion = "LOCALIZED_POKEMON" =>
      m.mensaje.listaPosiciones = perfil[m.con[1]].mensaje.listaPosiciones

\* Its message is listed and has no ACK: the thread waits for `writer'.
EsperaWriter(c) ==
  /\ c \in Publicadores /\ EnCliente(c, "ack_pedido") /\ writer # "sano"
  /\ \E k \in Conexion : hilo[k].con = Mia(c) /\ EnHilo(k, "responder")

\* Whatever dies, if it stops dying in the end every subscriber listens on a
\* connection that the Broker serves, and everyone else has finished, but for the
\* publishers whose message is listed and waits for a `writer' that its readers have
\* lost: no failure leaves the loop of main, a thread or a client waiting for
\* ever, and a publisher is left without its ACK by that race alone (Broker.c:27, :251,
\* :698, :848, team.c:1368, Game-Card.c:252, Game-Boy.c:165).
TodosAtendidos ==
  <>[](\A c \in Cliente : IF c \in Suscriptores
                          THEN EnCliente(c, "escuchar") /\ conexion[Mia(c)].broker
                          ELSE EnCliente(c, "fin") \/ EsperaWriter(c))
=============================================================================
