-------------------------- MODULE BrokerColasProofs --------------------------
(***************************************************************************)
(* BrokerColas for every set of messages, connections and processes and    *)
(* every capacity: its inductive invariant, and the proofs that it implies *)
(* the safety properties of the queues.                                    *)
(***************************************************************************)
EXTENDS BrokerColas, FiniteSetTheorems, SequenceTheorems, TLAPS

-----------------------------------------------------------------------------
(* The inductive invariant *)

Publicados == {m \in Mensaje : pasoMensaje[m] # "libre"}

\* Each message has added one to id_mensaje_global.
Contados == id_mensaje_global = Cardinality(Publicados)

\* A message is listed before it gets anywhere near the memory.
Listados ==
  \A m \in Mensaje :
    pasoMensaje[m] \in {"writer", "guardar", "avisar", "fin"} => m \in list_mensajes

\* Before its connection comes a thread has nothing.
SinConexion(h) ==
  /\ ~viva[h] /\ canal[h] = "nada" /\ mensajesAEnviar[h] = {} /\ yaConfirmados[h] = {}
  /\ \A m \in Mensaje : <<h, m>> \notin entregado

\* m is for the subscriber of h, who had not acknowledged it when it connected.
EsPara(h, m) == cola[m] = suscriptor[h].op_code /\ m \notin yaConfirmados[h]

\* What waits to be sent has not been delivered over this connection.
PorEnviar(h) ==
  \A m \in mensajesAEnviar[h] : EsPara(h, m) /\ <<h, m>> \notin entregado

\* What is on its way has left the list to send; it counts as delivered from
\* the moment the client has it, and the thread sends nothing else meanwhile.
EnCamino(h) ==
  /\ paso[h] = "ack" => canal[h] # "nada"
  /\ canal[h] # "nada" =>
       /\ paso[h] \in {"ack", "fin"}
       /\ mensaje[h] \in Mensaje /\ EsPara(h, mensaje[h])
       /\ mensaje[h] \notin mensajesAEnviar[h]
       /\ <<h, mensaje[h]>> \in entregado <=> canal[h] = "ack"

\* What has been delivered is confirmed, unless its ACK is on its way.
Entregado(h) ==
  \A m \in Mensaje :
    <<h, m>> \in entregado =>
      /\ cola[m] = suscriptor[h].op_code
      /\ suscriptor[h].id \in recibieron[m] \/ (canal[h] = "ack" /\ mensaje[h] = m)

\* A confirmation is never taken back.
Confirmado(h) == \A m \in yaConfirmados[h] : suscriptor[h].id \in recibieron[m]

Conexion(h) ==
  /\ paso[h] = "libre" => SinConexion(h)
  /\ paso[h] # "libre" =>
       /\ suscriptor[h] \in Suscriptor
       /\ PorEnviar(h) /\ EnCamino(h) /\ Entregado(h) /\ Confirmado(h)

Conexiones == \A h \in Hilo : Conexion(h)

IInv ==
  /\ TypeOK
  /\ Contados
  /\ Listados
  /\ CacheadoEstaListado
  /\ UnaEntradaPorSuscripcion
  /\ ConfirmacionFiel
  /\ Conexiones

-----------------------------------------------------------------------------
(* Lemmas about the operators *)

\* The number of tokens posted for a message is a natural number.
LEMMA AvisosNat ==
  ASSUME TypeOK, NEW c \in Cola
  PROVE  Avisos(c) \in Nat
<1> DEFINE T == {i \in 1..(Len(list_suscriptores) - 1) : list_suscriptores[i].op_code = c}
<1>1. Len(list_suscriptores) - 1 \in Int
  BY DEF TypeOK
<1>2. IsFiniteSet(1..(Len(list_suscriptores) - 1))
  BY <1>1, FS_Interval
<1>3. IsFiniteSet(T) /\ Cardinality(T) \in Nat
  BY <1>2, FS_Subset, FS_CardinalityType
<1> QED
  BY <1>3 DEF Avisos

\* The queue of a message in the memory is one of those in use.
LEMMA CacheadosMensajes ==
  ASSUME TypeOK, NEW c
  PROVE  Cacheados(c) \subseteq {m \in Mensaje : cola[m] = c}
<1>1. \A i \in DOMAIN cache : cache[i] \in Mensaje
  BY DEF TypeOK
<1> QED
  BY <1>1 DEF Cacheados

-----------------------------------------------------------------------------
(* What a step leaves alone *)

\* The thread of a message touches nothing of the connections.
LEMMA MensajeAjeno ==
  ASSUME NEW m \in Mensaje, manejoMensaje(m)
  PROVE  UNCHANGED <<sistema, reader, list_suscriptores, recibieron, cola, delHilo, conexion, historia>>
BY DEF manejoMensaje, get_id, LeerId, recibirMensajeNew, recibirMensajeAppeared, recibirMensajeGet,
     recibirMensajeLocalized, recibirMensajeCatch, recibirMensajeCaught, RecibirMensaje, TomarWriter,
     guardarMensajeEnCache, AvisarPrimer, globales

\* The thread of a subscriber, in whose queue it works.
LEMMA HiloEnSuCola ==
  ASSUME NEW h \in Hilo, HiloSuscriptor(h)
  PROVE  suscriptor[h] # Nada /\ ManejoSuscripcion(h, suscriptor[h].op_code)
BY DEF HiloSuscriptor, manejoSuscripcionNew, manejoSuscripcionAppeared, manejoSuscripcionGet,
     manejoSuscripcionLocalized, manejoSuscripcionCatch, manejoSuscripcionCaught, ManejoSuscripcion

\* The thread of a subscriber works only after its connection has come, and
\* touches nothing of the messages, the lists and the memory.
LEMMA HiloAjeno ==
  ASSUME NEW h \in Hilo, HiloSuscriptor(h)
  PROVE  /\ paso[h] # "libre"
         /\ UNCHANGED <<id_mensaje_global, list_suscriptores, list_mensajes, cache, delMensaje,
                        suscriptor, viva, historia>>
<1> DEFINE c == suscriptor[h].op_code
<1>1. ManejoSuscripcion(h, c)
  BY HiloEnSuCola
<1> HIDE DEF c
<1> QED
  BY <1>1 DEF ManejoSuscripcion, EsperarPrimer, EsperarNuevo, LeerReader, EscribirReader, EsPrimero,
       EsperarWriter, getMensajesAEnviar, DesreferenciarMensajeNulo, EsUltimo, enviarMensaje,
       TodosEnviados, RecibirACK, NotarDesconexion, En, globales, delHilo, conexion
-----------------------------------------------------------------------------
(* Type correctness *)

LEMMA MensajeTypeOK ==
  ASSUME IInv, NEW m \in Mensaje, manejoMensaje(m)
  PROVE  TypeOK' /\ Contados'
<1> USE DEF SigueMensaje, EnMensaje, globales, delMensaje, delHilo, conexion, historia
<1>0. TypeOK /\ Contados /\ cola[m] \in Cola /\ Avisos(cola[m]) \in Nat
  BY AvisosNat DEF IInv, TypeOK
<1>1. IsFiniteSet(Publicados) /\ Cardinality(Publicados) \in Nat
  BY ConstantesValidas, FS_Subset, FS_CardinalityType DEF Publicados
<1>2. CASE get_id(m)
  <2>1. Publicados' = Publicados \cup {m} /\ m \notin Publicados
    BY <1>0, <1>2 DEF get_id, Publicados, TypeOK
  <2>2. Cardinality(Publicados') = Cardinality(Publicados) + 1
    BY <1>1, <2>1, FS_AddElement
  <2>3. Cardinality(Publicados') <= Cardinality(Mensaje) /\ Cardinality(Mensaje) \in Nat
    BY ConstantesValidas, FS_Subset, FS_CardinalityType DEF Publicados
  <2>4. id_mensaje_global' \in 0..Cardinality(Mensaje)
    BY <1>0, <1>1, <1>2, <2>2, <2>3 DEF get_id, Contados
  <2> QED
    BY <1>0, <1>2, <2>2, <2>4 DEF get_id, TypeOK, Contados
<1>3. ASSUME id_mensaje_global' = id_mensaje_global, pasoMensaje[m] # "libre", pasoMensaje'[m] # "libre",
             \A k \in Mensaje \ {m} : pasoMensaje'[k] = pasoMensaje[k]
      PROVE  Contados'
  <2>1. Publicados' = Publicados
    BY <1>3 DEF Publicados
  <2> QED
    BY <1>0, <1>3, <2>1 DEF Contados
<1>4. CASE LeerId(m)
  <2>1. id_mensaje_global \in Nat
    BY <1>0, <1>1 DEF Contados
  <2> QED
    BY <1>0, <1>3, <1>4, <2>1 DEF LeerId, TypeOK
<1>5. CASE RecibirMensaje(m, cola[m])
  BY <1>0, <1>3, <1>5 DEF RecibirMensaje, TypeOK
<1>6. CASE TomarWriter(m)
  BY <1>0, <1>3, <1>6 DEF TomarWriter, TypeOK
<1>7. CASE guardarMensajeEnCache(m)
  <2>1. cache' \in Seq(Mensaje)
    <3>1. cache \in Seq(Mensaje)
      BY <1>0 DEF TypeOK
    <3>2. CASE Len(cache) = Capacidad
      <4>1. cache # <<>>
        BY <3>1, <3>2, ConstantesValidas
      <4> QED
        BY <1>7, <3>1, <3>2, <4>1 DEF guardarMensajeEnCache
    <3> QED
      BY <1>7, <3>1, <3>2 DEF guardarMensajeEnCache
  <2> QED
    BY <1>0, <1>3, <1>7, <2>1 DEF guardarMensajeEnCache, TypeOK
<1>8. CASE AvisarPrimer(m)
  BY <1>0, <1>3, <1>8 DEF AvisarPrimer, TypeOK
<1> QED
  BY <1>2, <1>4, <1>5, <1>6, <1>7, <1>8 DEF manejoMensaje, recibirMensajeNew, recibirMensajeAppeared,
     recibirMensajeGet, recibirMensajeLocalized, recibirMensajeCatch, recibirMensajeCaught, RecibirMensaje

LEMMA HiloTypeOK ==
  ASSUME IInv, NEW h \in Hilo, HiloSuscriptor(h)
  PROVE  TypeOK'
<1> DEFINE c == suscriptor[h].op_code
<1>0. /\ TypeOK /\ paso[h] # "libre" /\ suscriptor[h] \in Suscriptor
      /\ c \in Cola /\ suscriptor[h].id \in Proceso
  BY HiloAjeno DEF IInv, Conexiones, Conexion, Suscriptor
<1>1. ManejoSuscripcion(h, c)
  BY HiloEnSuCola
<1> HIDE DEF c
<1> USE <1>0 DEF TypeOK, Sigue, En, globales, delMensaje, delHilo, conexion, historia
<1>2. CASE EsperarPrimer(h, c)
  BY <1>2 DEF EsperarPrimer
<1>3. CASE EsperarNuevo(h, c)
  BY <1>3 DEF EsperarNuevo
<1>4. CASE LeerReader(h)
  BY <1>4 DEF LeerReader
<1>5. CASE EscribirReader(h)
  BY <1>5 DEF EscribirReader
<1>6. CASE EsPrimero(h)
  BY <1>6 DEF EsPrimero
<1>7. CASE EsperarWriter(h)
  BY <1>7 DEF EsperarWriter
<1>8. CASE getMensajesAEnviar(h, c)
  <2>1. Cacheados(c) \subseteq Mensaje
    BY CacheadosMensajes
  <2> QED
    BY <1>8, <2>1 DEF getMensajesAEnviar
<1>9. CASE DesreferenciarMensajeNulo(h, c)
  BY <1>9 DEF DesreferenciarMensajeNulo
<1>10. CASE EsUltimo(h)
  BY <1>10 DEF EsUltimo
<1>11. CASE enviarMensaje(h)
  BY <1>11 DEF enviarMensaje
<1>12. CASE TodosEnviados(h)
  BY <1>12 DEF TodosEnviados
<1>13. CASE RecibirACK(h)
  <2>1. mensaje[h] \in Mensaje
    BY <1>13 DEF RecibirACK, IInv, Conexiones, Conexion, EnCamino
  <2> QED
    BY <1>13, <2>1 DEF RecibirACK
<1>14. CASE NotarDesconexion(h)
  BY <1>14 DEF NotarDesconexion
<1> QED
  BY <1>1, <1>2, <1>3, <1>4, <1>5, <1>6, <1>7, <1>8, <1>9, <1>10, <1>11, <1>12, <1>13, <1>14
     DEF ManejoSuscripcion

LEMMA ClienteTypeOK ==
  ASSUME IInv, NEW h \in Hilo,
         ClienteRecibe(h) \/ Desconectar(h) \/ \E s \in Suscriptor : Suscribir(h, s)
  PROVE  TypeOK'
<1> USE DEF IInv, TypeOK, Sigue, En, globales, delMensaje, delHilo, conexion, historia
<1>1. CASE ClienteRecibe(h)
  <2>1. mensaje[h] \in Mensaje
    BY <1>1 DEF ClienteRecibe, Conexiones, Conexion, EnCamino, SinConexion
  <2> QED
    BY <1>1, <2>1 DEF ClienteRecibe
<1>2. CASE Desconectar(h)
  BY <1>2 DEF Desconectar
<1>3. ASSUME NEW s \in Suscriptor, Suscribir(h, s) PROVE TypeOK'
  BY <1>3 DEF Suscribir
<1> QED
  BY <1>1, <1>2, <1>3
-----------------------------------------------------------------------------
(* The lists *)

LEMMA MensajeListado ==
  ASSUME IInv, NEW m \in Mensaje, manejoMensaje(m)
  PROVE  Listados' /\ CacheadoEstaListado'
<1> USE DEF SigueMensaje, EnMensaje, globales, delMensaje
<1>0. TypeOK /\ Listados /\ CacheadoEstaListado /\ cache \in Seq(Mensaje) /\ list_mensajes \subseteq Mensaje
  BY DEF IInv, TypeOK
<1>1. CASE get_id(m)
  BY <1>0, <1>1 DEF get_id, TypeOK, Listados, CacheadoEstaListado
<1>2. CASE LeerId(m)
  BY <1>0, <1>2 DEF LeerId, TypeOK, Listados, CacheadoEstaListado
<1>3. CASE RecibirMensaje(m, cola[m])
  BY <1>0, <1>3 DEF RecibirMensaje, TypeOK, Listados, CacheadoEstaListado
<1>4. CASE TomarWriter(m)
  BY <1>0, <1>4 DEF TomarWriter, TypeOK, Listados, CacheadoEstaListado
<1>5. CASE guardarMensajeEnCache(m)
  <2>1. Listados' /\ list_mensajes' = list_mensajes /\ m \in list_mensajes
    BY <1>0, <1>5 DEF guardarMensajeEnCache, TypeOK, Listados
  <2>2. ASSUME NEW s \in Seq(Mensaje), \A i \in DOMAIN s : s[i] \in list_mensajes, cache' = Append(s, m)
        PROVE  CacheadoEstaListado'
    BY <2>1, <2>2 DEF CacheadoEstaListado
  <2>3. CASE Len(cache) = Capacidad
    <3>1. cache # <<>>
      BY <1>0, <2>3, ConstantesValidas
    <3>2. /\ Tail(cache) \in Seq(Mensaje)
          /\ \A i \in DOMAIN Tail(cache) : Tail(cache)[i] \in list_mensajes
      BY <1>0, <3>1 DEF CacheadoEstaListado
    <3> QED
      BY <1>5, <2>1, <2>2, <2>3, <3>2 DEF guardarMensajeEnCache
  <2>4. CASE Len(cache) # Capacidad
    BY <1>0, <1>5, <2>1, <2>2, <2>4 DEF guardarMensajeEnCache, CacheadoEstaListado
  <2> QED
    BY <2>1, <2>3, <2>4
<1>6. CASE AvisarPrimer(m)
  BY <1>0, <1>6 DEF AvisarPrimer, TypeOK, Listados, CacheadoEstaListado
<1> QED
  BY <1>1, <1>2, <1>3, <1>4, <1>5, <1>6 DEF manejoMensaje, recibirMensajeNew, recibirMensajeAppeared,
     recibirMensajeGet, recibirMensajeLocalized, recibirMensajeCatch, recibirMensajeCaught, RecibirMensaje

LEMMA SuscribirUnaEntrada ==
  ASSUME IInv, NEW h \in Hilo, NEW s \in Suscriptor, Suscribir(h, s)
  PROVE  UnaEntradaPorSuscripcion'
<1>1. list_suscriptores \in Seq(Suscriptor) /\ UnaEntradaPorSuscripcion
  BY DEF IInv, TypeOK
<1>2. CASE procesoSuscriptoACola(s)
  BY <1>1, <1>2 DEF Suscribir, UnaEntradaPorSuscripcion
<1>3. CASE ~procesoSuscriptoACola(s)
  <2>1. list_suscriptores' = Append(list_suscriptores, s)
    BY <1>3 DEF Suscribir
  <2>2. \A i \in DOMAIN list_suscriptores : list_suscriptores[i] # s
    BY <1>3 DEF procesoSuscriptoACola
  <2> QED
    BY <1>1, <2>1, <2>2 DEF UnaEntradaPorSuscripcion
<1> QED
  BY <1>2, <1>3

-----------------------------------------------------------------------------
(* The connections *)

\* Only an ACK confirms, and only to the process that has got the message.
LEMMA HiloConfirma ==
  ASSUME NEW h \in Hilo, HiloSuscriptor(h)
  PROVE  recibieron' = recibieron \/ RecibirACK(h)
<1> DEFINE c == suscriptor[h].op_code
<1>1. ManejoSuscripcion(h, c)
  BY HiloEnSuCola
<1> HIDE DEF c
<1> QED
  BY <1>1 DEF ManejoSuscripcion, EsperarPrimer, EsperarNuevo, LeerReader, EscribirReader, EsPrimero,
       EsperarWriter, getMensajesAEnviar, DesreferenciarMensajeNulo, EsUltimo, enviarMensaje,
       TodosEnviados, NotarDesconexion, globales

LEMMA HiloConfirmacionFiel ==
  ASSUME IInv, NEW h \in Hilo, HiloSuscriptor(h)
  PROVE  ConfirmacionFiel'
<1>1. ConfirmacionFiel /\ suscriptor' = suscriptor /\ entregado' = entregado
  BY HiloAjeno DEF IInv, historia
<1>2. CASE recibieron' = recibieron
  BY <1>1, <1>2 DEF ConfirmacionFiel
<1>3. CASE RecibirACK(h)
  <2>1. <<h, mensaje[h]>> \in entregado
    BY <1>3 DEF RecibirACK, En, IInv, Conexiones, Conexion, EnCamino
  <2>2. \A m \in Mensaje : recibieron'[m] = IF m = mensaje[h] THEN recibieron[m] \cup {suscriptor[h].id}
                                                             ELSE recibieron[m]
    BY <1>3 DEF RecibirACK, IInv, TypeOK
  <2>3. ASSUME NEW m \in Mensaje, NEW p \in recibieron'[m]
        PROVE  \E k \in Hilo : <<k, m>> \in entregado /\ suscriptor[k].id = p
    <3>1. p \in recibieron[m] \/ (m = mensaje[h] /\ p = suscriptor[h].id)
      BY <2>2, <2>3
    <3> QED
      BY <1>1, <2>1, <2>3, <3>1 DEF ConfirmacionFiel
  <2> QED
    BY <1>1, <2>3 DEF ConfirmacionFiel
<1> QED
  BY <1>2, <1>3, HiloConfirma

LEMMA HiloConexion ==
  ASSUME IInv, NEW h \in Hilo, HiloSuscriptor(h)
  PROVE  Conexion(h)'
<1> DEFINE c == suscriptor[h].op_code
<1>0. /\ TypeOK /\ paso[h] # "libre" /\ suscriptor[h] \in Suscriptor
      /\ PorEnviar(h) /\ EnCamino(h) /\ Entregado(h) /\ Confirmado(h)
  <2>1. TypeOK /\ paso[h] # "libre" /\ Conexion(h)
    BY HiloAjeno DEF IInv, Conexiones
  <2> QED
    BY <2>1 DEF Conexion
<1>1. ManejoSuscripcion(h, c)
  BY HiloEnSuCola
<1>2. /\ cola' = cola /\ suscriptor' = suscriptor /\ entregado' = entregado /\ yaConfirmados' = yaConfirmados
  BY HiloAjeno DEF delMensaje, historia
<1> USE <1>0, <1>2 DEF TypeOK, Sigue, En, globales, delMensaje, delHilo, conexion, historia
<1>3. ASSUME recibieron' = recibieron, mensajesAEnviar' = mensajesAEnviar, canal'[h] = canal[h],
             mensaje'[h] = mensaje[h], canal[h] = "nada" \/ paso'[h] = "fin", paso'[h] \notin {"ack", "libre"}
      PROVE  Conexion(h)'
  <2>2. PorEnviar(h)'
    BY <1>3 DEF PorEnviar, EsPara
  <2>3. EnCamino(h)'
    BY <1>3 DEF EnCamino, EsPara
  <2>4. Entregado(h)'
    BY <1>3 DEF Entregado
  <2>5. Confirmado(h)'
    BY <1>3 DEF Confirmado
  <2> QED
    BY <1>3, <2>2, <2>3, <2>4, <2>5 DEF Conexion
<1>4. paso[h] \notin {"ack", "fin"} => canal[h] = "nada"
  BY DEF EnCamino
<1>5. ASSUME EsperarPrimer(h, c) \/ EsperarNuevo(h, c) \/ LeerReader(h) \/ EscribirReader(h) \/ EsPrimero(h)
             \/ EsperarWriter(h) \/ EsUltimo(h) \/ TodosEnviados(h) \/ NotarDesconexion(h)
      PROVE  Conexion(h)'
  <2> HIDE DEF c
  <2> QED
    BY <1>3, <1>4, <1>5 DEF EsperarPrimer, EsperarNuevo, LeerReader, EscribirReader, EsPrimero, EsperarWriter,
       EsUltimo, TodosEnviados, NotarDesconexion
<1>6. CASE getMensajesAEnviar(h, c)
  <2>1. canal[h] = "nada"
    BY <1>4, <1>6 DEF getMensajesAEnviar
  <2>2. /\ UNCHANGED <<recibieron, canal, mensaje>> /\ paso'[h] = "restar"
        /\ mensajesAEnviar'[h] = {m \in Cacheados(c) : ~recibioMensaje(suscriptor[h].id, m)}
    BY <1>6 DEF getMensajesAEnviar
  <2>3. \A m \in mensajesAEnviar'[h] : m \in Mensaje /\ cola[m] = c /\ suscriptor[h].id \notin recibieron[m]
    BY <2>2, CacheadosMensajes DEF recibioMensaje
  <2>4. PorEnviar(h)'
    BY <2>1, <2>2, <2>3 DEF PorEnviar, EsPara, Entregado, Confirmado
  <2> QED
    BY <2>1, <2>2, <2>4 DEF Conexion, EnCamino, Entregado, Confirmado
<1>7. CASE DesreferenciarMensajeNulo(h, c)
  BY <1>7 DEF DesreferenciarMensajeNulo, Conexion, PorEnviar, EnCamino, EsPara, Entregado, Confirmado
<1>8. CASE enviarMensaje(h)
  <2>1. PICK m \in mensajesAEnviar[h] :
          /\ mensaje' = [mensaje EXCEPT ![h] = m]
          /\ mensajesAEnviar' = [mensajesAEnviar EXCEPT ![h] = @ \ {m}]
    BY <1>8 DEF enviarMensaje
  <2>2. /\ recibieron' = recibieron /\ paso'[h] = "ack" /\ canal'[h] = "mensaje" /\ canal[h] = "nada"
        /\ mensaje'[h] = m /\ mensajesAEnviar'[h] = mensajesAEnviar[h] \ {m} /\ m \in Mensaje
    BY <1>4, <1>8, <2>1 DEF enviarMensaje
  <2> QED
    BY <2>2 DEF Conexion, PorEnviar, EnCamino, EsPara, Entregado, Confirmado
<1>9. CASE RecibirACK(h)
  <2>1. /\ canal[h] = "ack" /\ paso'[h] = "enviar" /\ canal'[h] = "nada"
        /\ mensaje' = mensaje /\ mensajesAEnviar' = mensajesAEnviar
        /\ mensaje[h] \in Mensaje /\ <<h, mensaje[h]>> \in entregado
    BY <1>9 DEF RecibirACK, EnCamino
  <2>2. \A m \in Mensaje : recibieron'[m] = IF m = mensaje[h] THEN recibieron[m] \cup {suscriptor[h].id} ELSE recibieron[m]
    BY <1>9, <2>1 DEF RecibirACK
  <2> QED
    BY <2>1, <2>2 DEF Conexion, PorEnviar, EnCamino, EsPara, Entregado, Confirmado
<1> HIDE DEF c
<1> QED
  BY <1>1, <1>5, <1>6, <1>7, <1>8, <1>9 DEF ManejoSuscripcion

\* A connection whose own state stays is as it was: confirmations only grow.
LEMMA ConexionAjena ==
  ASSUME TypeOK, NEW k \in Hilo, Conexion(k), cola' = cola,
         paso'[k] = paso[k], suscriptor'[k] = suscriptor[k], mensajesAEnviar'[k] = mensajesAEnviar[k],
         mensaje'[k] = mensaje[k], viva'[k] = viva[k], canal'[k] = canal[k],
         yaConfirmados'[k] = yaConfirmados[k],
         \A m \in Mensaje : <<k, m>> \in entregado' <=> <<k, m>> \in entregado,
         \A m \in Mensaje : recibieron[m] \subseteq recibieron'[m]
  PROVE  Conexion(k)'
<1>1. mensajesAEnviar[k] \subseteq Mensaje /\ yaConfirmados[k] \subseteq Mensaje
  BY DEF TypeOK
<1>2. CASE paso[k] = "libre"
  <2>1. SinConexion(k)
    BY <1>2 DEF Conexion
  <2>2. SinConexion(k)'
    BY <2>1 DEF SinConexion
  <2> QED
    BY <1>2, <2>2 DEF Conexion
<1>3. CASE paso[k] # "libre"
  <2>1. suscriptor[k] \in Suscriptor /\ PorEnviar(k) /\ EnCamino(k) /\ Entregado(k) /\ Confirmado(k)
    BY <1>3 DEF Conexion
  <2>2. PorEnviar(k)'
    BY <1>1, <2>1 DEF PorEnviar, EsPara
  <2>3. EnCamino(k)'
    BY <2>1 DEF EnCamino, EsPara
  <2>4. Entregado(k)'
    BY <2>1 DEF Entregado
  <2>5. Confirmado(k)'
    BY <1>1, <2>1 DEF Confirmado
  <2> QED
    BY <1>3, <2>1, <2>2, <2>3, <2>4, <2>5 DEF Conexion
<1> QED
  BY <1>2, <1>3

LEMMA HiloConexiones ==
  ASSUME IInv, NEW h \in Hilo, HiloSuscriptor(h)
  PROVE  Conexiones'
<1> SUFFICES ASSUME NEW k \in Hilo, k # h PROVE Conexion(k)'
  BY HiloConexion DEF Conexiones
<1> DEFINE c == suscriptor[h].op_code
<1>0. TypeOK /\ Conexion(k)
  BY DEF IInv, Conexiones
<1>1. ManejoSuscripcion(h, c)
  BY HiloEnSuCola
<1>2. UNCHANGED <<cola, suscriptor, viva, entregado, yaConfirmados>>
  BY HiloAjeno DEF delMensaje, historia
<1>3. paso'[k] = paso[k] /\ mensajesAEnviar'[k] = mensajesAEnviar[k] /\ mensaje'[k] = mensaje[k] /\ canal'[k] = canal[k]
  <2> HIDE DEF c
  <2>1. CASE enviarMensaje(h)
    BY <1>0, <2>1 DEF TypeOK, Sigue, enviarMensaje
  <2>2. CASE getMensajesAEnviar(h, c)
    BY <1>0, <2>2 DEF TypeOK, Sigue, conexion, getMensajesAEnviar
  <2>3. CASE RecibirACK(h)
    BY <1>0, <2>3 DEF TypeOK, Sigue, RecibirACK
  <2>4. CASE ~enviarMensaje(h) /\ ~getMensajesAEnviar(h, c) /\ ~RecibirACK(h)
    <3>1. UNCHANGED <<mensajesAEnviar, mensaje, canal>> /\ (paso' = paso \/ \E e : Sigue(h, e))
      BY <1>1, <2>4 DEF ManejoSuscripcion, EsperarPrimer, EsperarNuevo, LeerReader, EscribirReader, EsPrimero,
         EsperarWriter, DesreferenciarMensajeNulo, EsUltimo, TodosEnviados, NotarDesconexion, delHilo, conexion
    <3> QED
      BY <1>0, <3>1 DEF TypeOK, Sigue
  <2> QED
    BY <2>1, <2>2, <2>3, <2>4
<1>4. \A m \in Mensaje : recibieron[m] \subseteq recibieron'[m]
  <2>1. CASE recibieron' = recibieron
    BY <2>1
  <2>2. CASE RecibirACK(h)
    BY <1>0, <2>2 DEF TypeOK, RecibirACK
  <2> QED
    BY <2>1, <2>2, HiloConfirma
<1> QED
  BY <1>0, <1>2, <1>3, <1>4, ConexionAjena

\* The client gets what the thread has sent, or its connection ends.
LEMMA ClienteConexiones ==
  ASSUME IInv, NEW h \in Hilo, ClienteRecibe(h) \/ Desconectar(h)
  PROVE  Conexiones' /\ ConfirmacionFiel'
<1>0. TypeOK /\ ConfirmacionFiel /\ Conexion(h)
  BY DEF IInv, Conexiones
<1>1. /\ UNCHANGED <<cola, recibieron, paso, suscriptor, mensajesAEnviar, mensaje, yaConfirmados>>
      /\ entregado \subseteq entregado'
  BY DEF ClienteRecibe, Desconectar, globales, delMensaje, delHilo, historia
<1>2. ConfirmacionFiel'
  BY <1>0, <1>1 DEF ConfirmacionFiel
<1>3. ASSUME NEW k \in Hilo, k # h PROVE Conexion(k)'
  <2>1. /\ viva'[k] = viva[k] /\ canal'[k] = canal[k]
        /\ \A m \in Mensaje : <<k, m>> \in entregado' <=> <<k, m>> \in entregado
    BY <1>0, <1>3 DEF TypeOK, ClienteRecibe, Desconectar, historia, conexion
  <2>2. Conexion(k)
    BY DEF IInv, Conexiones
  <2> QED
    BY <1>0, <1>1, <2>1, <2>2, ConexionAjena
<1>4. paso[h] # "libre"
  BY <1>0 DEF ClienteRecibe, Desconectar, Conexion, SinConexion
<1>5. suscriptor[h] \in Suscriptor /\ PorEnviar(h) /\ EnCamino(h) /\ Entregado(h) /\ Confirmado(h)
  BY <1>0, <1>4 DEF Conexion
<1>6. Confirmado(h)'
  BY <1>1, <1>5 DEF Confirmado
<1>7. CASE ClienteRecibe(h)
  <2>1. /\ canal[h] = "mensaje" /\ canal'[h] = "ack" /\ mensaje[h] \in Mensaje /\ EsPara(h, mensaje[h])
        /\ mensaje[h] \notin mensajesAEnviar[h] /\ paso[h] \in {"ack", "fin"}
        /\ entregado' = entregado \cup {<<h, mensaje[h]>>}
    BY <1>0, <1>5, <1>7 DEF ClienteRecibe, EnCamino, TypeOK
  <2>2. PorEnviar(h)'
    BY <1>1, <1>5, <2>1 DEF PorEnviar, EsPara
  <2>3. EnCamino(h)'
    BY <1>1, <1>5, <2>1 DEF EnCamino, EsPara
  <2>4. Entregado(h)'
    BY <1>1, <1>5, <2>1 DEF Entregado, EsPara
  <2> QED
    BY <1>1, <1>2, <1>3, <1>4, <1>5, <1>6, <2>2, <2>3, <2>4 DEF Conexiones, Conexion
<1>8. CASE Desconectar(h)
  <2>1. canal' = canal /\ entregado' = entregado
    BY <1>8 DEF Desconectar, historia
  <2>2. PorEnviar(h)' /\ EnCamino(h)' /\ Entregado(h)'
    BY <1>1, <1>5, <2>1 DEF PorEnviar, EnCamino, Entregado, EsPara
  <2> QED
    BY <1>1, <1>2, <1>3, <1>4, <1>5, <1>6, <2>2 DEF Conexiones, Conexion
<1> QED
  BY <1>7, <1>8

LEMMA SuscribirConexiones ==
  ASSUME IInv, NEW h \in Hilo, NEW s \in Suscriptor, Suscribir(h, s)
  PROVE  Conexiones' /\ ConfirmacionFiel'
<1>0. TypeOK /\ ConfirmacionFiel /\ Conexion(h) /\ paso[h] = "libre" /\ SinConexion(h)
  BY DEF IInv, Conexiones, Conexion, Suscribir, En
<1>1. /\ UNCHANGED <<cola, recibieron, mensajesAEnviar, mensaje, canal, entregado>>
      /\ paso'[h] = "primer" /\ suscriptor'[h] = s
      /\ yaConfirmados'[h] = {m \in Mensaje : s.id \in recibieron[m]}
  BY <1>0 DEF Suscribir, Sigue, delMensaje, TypeOK
<1>2. ASSUME NEW k \in Hilo, k # h
      PROVE  /\ paso'[k] = paso[k] /\ suscriptor'[k] = suscriptor[k] /\ viva'[k] = viva[k]
             /\ yaConfirmados'[k] = yaConfirmados[k]
  BY <1>0, <1>2 DEF Suscribir, Sigue, TypeOK
<1>3. ASSUME NEW k \in Hilo, k # h PROVE Conexion(k)'
  <2>1. Conexion(k)
    BY DEF IInv, Conexiones
  <2> QED
    BY <1>0, <1>1, <1>2, <1>3, <2>1, ConexionAjena
<1>4. Conexion(h)'
  BY <1>0, <1>1 DEF SinConexion, Conexion, PorEnviar, EnCamino, Entregado, Confirmado
<1>5. ConfirmacionFiel'
  <2>1. ASSUME NEW m \in Mensaje, NEW p \in recibieron[m]
        PROVE  \E k \in Hilo : <<k, m>> \in entregado /\ suscriptor'[k].id = p
    <3>1. PICK k \in Hilo : <<k, m>> \in entregado /\ suscriptor[k].id = p
      BY <1>0 DEF ConfirmacionFiel
    <3>2. k # h
      BY <1>0, <3>1 DEF SinConexion
    <3> QED
      BY <1>2, <3>1, <3>2
  <2> QED
    BY <1>1, <2>1 DEF ConfirmacionFiel
<1> QED
  BY <1>3, <1>4, <1>5 DEF Conexiones

-----------------------------------------------------------------------------
(* The invariant and the theorems *)

LEMMA InicialIInv == Init => IInv
<1> SUFFICES ASSUME Init PROVE IInv
  OBVIOUS
<1>1. Publicados = {}
  BY DEF Init, Publicados
<1>2. Contados /\ Cardinality(Mensaje) \in Nat
  BY <1>1, FS_EmptySet, FS_CardinalityType, ConstantesValidas DEF Init, Contados
<1>3. TypeOK
  BY <1>2 DEF Init, TypeOK
<1>4. Listados /\ CacheadoEstaListado /\ UnaEntradaPorSuscripcion /\ ConfirmacionFiel
  BY DEF Init, Listados, CacheadoEstaListado, UnaEntradaPorSuscripcion, ConfirmacionFiel
<1>5. Conexiones
  BY DEF Init, Conexiones, Conexion, SinConexion
<1> QED
  BY <1>2, <1>3, <1>4, <1>5 DEF IInv

LEMMA PasoIInv == IInv /\ [Next]_vars => IInv'
<1> SUFFICES ASSUME IInv, [Next]_vars PROVE IInv'
  OBVIOUS
<1>1. ASSUME NEW m \in Mensaje, manejoMensaje(m) PROVE IInv'
  <2>1. UNCHANGED <<list_suscriptores, recibieron, cola, paso, suscriptor, mensajesAEnviar, mensaje, viva, canal,
                    entregado, yaConfirmados>>
    BY <1>1, MensajeAjeno DEF delHilo, conexion, historia
  <2>2. Conexiones'
    <3>1. \A k \in Hilo : Conexion(k)
      BY DEF IInv, Conexiones
    <3> QED
      BY <2>1, <3>1, ConexionAjena DEF IInv, Conexiones
  <2>3. UnaEntradaPorSuscripcion' /\ ConfirmacionFiel'
    BY <2>1 DEF IInv, UnaEntradaPorSuscripcion, ConfirmacionFiel
  <2> QED
    BY <1>1, <2>2, <2>3, MensajeTypeOK, MensajeListado DEF IInv
<1>2. ASSUME UNCHANGED <<id_mensaje_global, pasoMensaje, list_mensajes, cache>>
      PROVE  Contados' /\ Listados' /\ CacheadoEstaListado'
  BY <1>2 DEF IInv, Contados, Publicados, Listados, CacheadoEstaListado
<1>3. ASSUME NEW h \in Hilo, NEW s \in Suscriptor, Suscribir(h, s) PROVE IInv'
  <2>1. UNCHANGED <<id_mensaje_global, pasoMensaje, list_mensajes, cache>>
    BY <1>3 DEF Suscribir, delMensaje
  <2> QED
    BY <1>2, <1>3, <2>1, ClienteTypeOK, SuscribirConexiones, SuscribirUnaEntrada DEF IInv
<1>4. ASSUME NEW h \in Hilo, HiloSuscriptor(h) PROVE IInv'
  <2>1. UNCHANGED <<id_mensaje_global, pasoMensaje, list_suscriptores, list_mensajes, cache>>
    BY <1>4, HiloAjeno DEF delMensaje
  <2>2. UnaEntradaPorSuscripcion'
    BY <2>1 DEF IInv, UnaEntradaPorSuscripcion
  <2> QED
    BY <1>2, <1>4, <2>1, <2>2, HiloTypeOK, HiloConexiones, HiloConfirmacionFiel DEF IInv
<1>5. ASSUME NEW h \in Hilo, ClienteRecibe(h) \/ Desconectar(h) PROVE IInv'
  <2>1. UNCHANGED <<id_mensaje_global, pasoMensaje, list_suscriptores, list_mensajes, cache>>
    BY <1>5 DEF ClienteRecibe, Desconectar, globales, delMensaje
  <2>2. UnaEntradaPorSuscripcion'
    BY <2>1 DEF IInv, UnaEntradaPorSuscripcion
  <2> QED
    BY <1>2, <1>5, <2>1, <2>2, ClienteTypeOK, ClienteConexiones DEF IInv
<1>6. CASE UNCHANGED vars
  <2>1. UNCHANGED <<id_mensaje_global, pasoMensaje, list_suscriptores, list_mensajes, cache, cola, paso, recibieron,
                    suscriptor, mensajesAEnviar, mensaje, viva, canal, entregado, yaConfirmados>>
    BY <1>6 DEF vars, globales, delMensaje, delHilo, conexion, historia
  <2>2. TypeOK'
    BY <1>6 DEF vars, globales, delMensaje, delHilo, conexion, historia, IInv, TypeOK
  <2>3. Conexiones'
    BY <2>1, ConexionAjena DEF IInv, Conexiones
  <2>4. UnaEntradaPorSuscripcion' /\ ConfirmacionFiel'
    BY <2>1 DEF IInv, UnaEntradaPorSuscripcion, ConfirmacionFiel
  <2> QED
    BY <1>2, <2>1, <2>2, <2>3, <2>4 DEF IInv
<1> QED
  BY <1>1, <1>3, <1>4, <1>5, <1>6 DEF Next

LEMMA Inductivo == Spec => []IInv
BY InicialIInv, PasoIInv, PTL DEF Spec

\* Every variable keeps its type, the semaphores never go below zero, and
\* id_mensaje_global counts the messages.
THEOREM TiposCorrectos == Spec => []TypeOK
BY Inductivo, PTL DEF IInv

\* suscriptoresQueRecibieron only names processes that did get the message,
\* however connections come, go and are taken up again.
THEOREM ConfirmacionesFieles == Spec => []ConfirmacionFiel
BY Inductivo, PTL DEF IInv

\* A process is once in list_suscriptores for each of its queues.
THEOREM SinSuscripcionesRepetidas == Spec => []UnaEntradaPorSuscripcion
BY Inductivo, PTL DEF IInv

\* The search of a subscriber never finds a message that is not in
\* list_mensajes yet.
THEOREM CacheadosListados == Spec => []CacheadoEstaListado
BY Inductivo, PTL DEF IInv

\* What a connection delivers is of its queue.
THEOREM EntregasDeSuCola == Spec => []EntregaDeSuCola
<1>1. IInv => EntregaDeSuCola
  <2> SUFFICES ASSUME IInv, NEW e \in entregado PROVE suscriptor[e[1]].op_code = cola[e[2]]
    BY DEF EntregaDeSuCola
  <2>1. e[1] \in Hilo /\ e[2] \in Mensaje /\ e = <<e[1], e[2]>>
    BY DEF IInv, TypeOK
  <2>2. Conexion(e[1])
    BY <2>1 DEF IInv, Conexiones
  <2> QED
    BY <2>1, <2>2 DEF Conexion, SinConexion, Entregado
<1> QED
  BY <1>1, Inductivo, PTL

\* No connection delivers a message twice, nor one that its process had
\* acknowledged before it connected.
THEOREM NadaSeReentrega == Spec => SinReentrega
<1>1. IInv => (\A h \in Hilo : ClienteRecibe(h) =>
                 mensaje[h] \notin yaConfirmados[h] /\ <<h, mensaje[h]>> \notin entregado)
  BY DEF IInv, Conexiones, Conexion, SinConexion, EnCamino, EsPara, ClienteRecibe
<1> QED
  BY <1>1, Inductivo, PTL DEF SinReentrega
=============================================================================
