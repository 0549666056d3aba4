------------------------------- MODULE Mensajes -------------------------------
(***************************************************************************)
(* The messages on the wire: the headers and payloads that                 *)
(* Sockets/sockets.c and Sockets/mensajes.c write and read, with the sizes *)
(* of UniversoPokemon/universo.c.                                          *)
(*                                                                         *)
(* The wire is a sequence of bytes.  A byte is <<v, k, n>>, the k-th of    *)
(* the n bytes of the value v: four of them make a number, size_Nombre of  *)
(* them a name.  What is read astride two values is Basura, so a size that *)
(* disagrees with what is written, or a field read out of its place, shows *)
(* in what arrives.                                                        *)
(***************************************************************************)
EXTENDS Integers, Sequences

CONSTANTS
  Largo,      \* the length of each name, which is a function on the names
  Basura      \* bytes that are not a value

INT32 == 4                          \* sizeof(int32_t)
POSICION == 8                       \* sizeof(t_posicion)
ENCABEZADO == 3 * INT32             \* codigo_operacion, size, id_Mensaje

op_code == {"SUSCRIPCION_NEW", "SUSCRIPCION_APPEARED", "SUSCRIPCION_GET", "SUSCRIPCION_LOCALIZED",
            "SUSCRIPCION_CATCH", "SUSCRIPCION_CAUGHT", "NEW_POKEMON", "APPEARED_POKEMON",
            "GET_POKEMON", "LOCALIZED_POKEMON", "CATCH_POKEMON", "CAUGHT_POKEMON", "ACK",
            "HANDSHAKE"}

\* What each kind of message holds; LOCALIZED, any number of positions.
Posiciones == Int \X Int
Mensaje ==
       [op : {"NEW_POKEMON"}, pokemon : DOMAIN Largo, posicion : Posiciones, cant : Int]
  \cup [op : {"APPEARED_POKEMON", "CATCH_POKEMON"}, pokemon : DOMAIN Largo, posicion : Posiciones]
  \cup [op : {"GET_POKEMON"}, pokemon : DOMAIN Largo]
  \cup [op : {"LOCALIZED_POKEMON"}, pokemon : DOMAIN Largo, listaPosiciones : Seq(Posiciones)]
  \cup [op : {"CAUGHT_POKEMON"}, fueAtrapado : {0, 1}]

-----------------------------------------------------------------------------
(* memcpy to the stream, send, recv *)

Bytes(v, n) == [k \in 1..n |-> <<v, k, n>>]
Entero(v) == Bytes(v, INT32)
size_Nombre(p) == Largo[p] + 1      \* with the '\0'
Pokemon(p) == Entero(size_Nombre(p)) \o Bytes(p, size_Nombre(p))
Posicion(q) == Entero(q[1]) \o Entero(q[2])
\* The positions one after the other.
Seguidas(l) ==
  [k \in 1..(POSICION * Len(l)) |->
     Posicion(l[1 + ((k - 1) \div POSICION)])[1 + ((k - 1) % POSICION)]]

\* send of `bytes' bytes of a stream, whatever was written to it.
Enviar(stream, bytes) ==
  [i \in 1..bytes |-> IF i <= Len(stream) THEN stream[i] ELSE <<Basura, 0, 0>>]

Entera(s, d, n) == \A k \in 1..n : s[d + k][2] = k /\ s[d + k][3] = n

\* recv of n bytes, the first d of the stream having been read.
Leer(s, d, n) ==
  IF n \in 1..(Len(s) - d) /\ Entera(s, d, n) THEN s[d + 1][1] ELSE Basura

LeerEntero(s, d) == Leer(s, d, INT32)
LeerPokemon(s) == Leer(s, INT32, LeerEntero(s, 0))
LeerPosicion(s, d) == <<LeerEntero(s, d), LeerEntero(s, d + INT32)>>
Leidos(s) == INT32 + LeerEntero(s, 0)    \* the bytes of a t_pokemon

-----------------------------------------------------------------------------
(* universo.c *)

tamanio_pokemon(p) == size_Nombre(p) + INT32
tamanio_new(m) == size_Nombre(m.pokemon) + INT32 + POSICION + INT32
tamanio_localized(m) == tamanio_pokemon(m.pokemon) + INT32 + POSICION * Len(m.listaPosiciones)
tamanio_get(m) == tamanio_pokemon(m.pokemon)
tamanio_appeared(m) == tamanio_pokemon(m.pokemon) + POSICION
tamanio_catch(m) == tamanio_pokemon(m.pokemon) + POSICION
tamanio_caught(m) == INT32

-----------------------------------------------------------------------------
(* serializar_paquete_*: the header and the payload of a message *)

Encabezado(op, size, id) == Entero(op) \o Entero(size) \o Entero(id)

\* Mutant: the position goes before the name.
SerializarCruzado(m) ==
  Entero(size_Nombre(m.pokemon)) \o Posicion(m.posicion) \o Bytes(m.pokemon, size_Nombre(m.pokemon))

serializar_paquete_new(m) == Pokemon(m.pokemon) \o Posicion(m.posicion) \o Entero(m.cant)
serializar_paquete_appeared(m) == Pokemon(m.pokemon) \o Posicion(m.posicion)
serializar_paquete_catch(m) == Pokemon(m.pokemon) \o Posicion(m.posicion)
serializar_paquete_get(m) == Pokemon(m.pokemon)
serializar_paquete_caught(m) == Entero(m.fueAtrapado)
serializar_paquete_localized(m) ==
  Pokemon(m.pokemon) \o Entero(Len(m.listaPosiciones)) \o Seguidas(m.listaPosiciones)

Paquete(op, size, id, payload) == Enviar(Encabezado(op, size, id) \o payload, ENCABEZADO + size)

-----------------------------------------------------------------------------
(* mensajes.c: enviar_*_pokemon *)

enviar_new_pokemon(m, id) == Paquete(m.op, tamanio_new(m), id, serializar_paquete_new(m))
enviar_appeared_pokemon(m, id) == Paquete(m.op, tamanio_appeared(m), id, serializar_paquete_appeared(m))
enviar_catch_pokemon(m, id) == Paquete(m.op, tamanio_catch(m), id, serializar_paquete_catch(m))
enviar_get_pokemon(m, id) == Paquete(m.op, tamanio_get(m), id, serializar_paquete_get(m))
enviar_localized_pokemon(m, id) == Paquete(m.op, tamanio_localized(m), id, serializar_paquete_localized(m))

\* The field is left as it was when the text is none of the four.
fueAtrapado(texto) ==
  IF texto \in {"OK", "1"} THEN 1 ELSE IF texto \in {"FAIL", "0"} THEN 0 ELSE Basura

enviar_caught_pokemon(id, texto) ==
  LET m == [fueAtrapado |-> fueAtrapado(texto)]
  IN  Paquete("CAUGHT_POKEMON", tamanio_caught(m), id, serializar_paquete_caught(m))

\* string_itoa of a flag.
itoa(b) == IF b = 1 THEN "1" ELSE "0"

\* A message of each kind, with the `enviar' of its kind.
EnviarMensaje(m, id) ==
  CASE m.op = "NEW_POKEMON"       -> enviar_new_pokemon(m, id)
    [] m.op = "APPEARED_POKEMON"  -> enviar_appeared_pokemon(m, id)
    [] m.op = "CATCH_POKEMON"     -> enviar_catch_pokemon(m, id)
    [] m.op = "GET_POKEMON"       -> enviar_get_pokemon(m, id)
    [] m.op = "LOCALIZED_POKEMON" -> enviar_localized_pokemon(m, id)
    [] m.op = "CAUGHT_POKEMON"    -> enviar_caught_pokemon(id, itoa(m.fueAtrapado))

\* sizeof (NULL) is the size of the three packets that carry no payload.
enviar_handshake(id_proceso) == Encabezado("HANDSHAKE", 8, id_proceso)
enviar_suscripcion(op) == Encabezado(op, 8, 0)
enviar_ACK(id) == Encabezado("ACK", 8, id)

-----------------------------------------------------------------------------
(* deserializar_paquete_*: [mensaje, leidos] *)

Lectura(m, n) == [mensaje |-> m, leidos |-> n]

deserializar_paquete_new(s) ==
  LET d == Leidos(s)
  IN  Lectura([op |-> "NEW_POKEMON", pokemon |-> LeerPokemon(s), posicion |-> LeerPosicion(s, d),
               cant |-> LeerEntero(s, d + POSICION)], d + POSICION + INT32)

deserializar_paquete_appeared(s) ==
  LET d == Leidos(s)
  IN  Lectura([op |-> "APPEARED_POKEMON", pokemon |-> LeerPokemon(s),
               posicion |-> LeerPosicion(s, d)], d + POSICION)

deserializar_paquete_catch(s) ==
  LET d == Leidos(s)
  IN  Lectura([op |-> "CATCH_POKEMON", pokemon |-> LeerPokemon(s),
               posicion |-> LeerPosicion(s, d)], d + POSICION)

deserializar_paquete_get(s) ==
  Lectura([op |-> "GET_POKEMON", pokemon |-> LeerPokemon(s)], Leidos(s))

deserializar_paquete_caught(s) ==
  Lectura([op |-> "CAUGHT_POKEMON", fueAtrapado |-> LeerEntero(s, 0)], INT32)

\* One t_posicion is allocated before the loop and added to the list at each
\* turn: every element points to the last position read.
RepetirUltima(l) == [i \in DOMAIN l |-> l[Len(l)]]

deserializar_paquete_localized(s) ==
  LET d == Leidos(s)
      cantARecibir == LeerEntero(s, d)
      leidas == [i \in 1..cantARecibir |-> LeerPosicion(s, d + INT32 + POSICION * (i - 1))]
  IN  Lectura([op |-> "LOCALIZED_POKEMON", pokemon |-> LeerPokemon(s),
               listaPosiciones |-> RepetirUltima(leidas)],
              d + INT32 + POSICION * cantARecibir)

\* The switch on the code of the header that precedes the payload s.
deserializar(op, s) ==
  CASE op = "NEW_POKEMON"       -> deserializar_paquete_new(s)
    [] op = "APPEARED_POKEMON"  -> deserializar_paquete_appeared(s)
    [] op = "CATCH_POKEMON"     -> deserializar_paquete_catch(s)
    [] op = "GET_POKEMON"       -> deserializar_paquete_get(s)
    [] op = "LOCALIZED_POKEMON" -> deserializar_paquete_localized(s)
    [] op = "CAUGHT_POKEMON"    -> deserializar_paquete_caught(s)
=============================================================================
