----------------------------- MODULE MCConexiones -----------------------------
(***************************************************************************)
(* Scenarios of Conexiones.                                                *)
(***************************************************************************)
EXTENDS Conexiones, TLC

Largos == "Mew" :> 3 @@ "Pikachu" :> 7

Suscripto(id, op) == [tipo |-> "suscriptor", id_proceso |-> id, operacion |-> op]
GameBoy(op) == [tipo |-> "gameboy", id_proceso |-> 1, operacion |-> op]
Publica(id, m, correlativo) ==
  [tipo |-> "publicador", id_proceso |-> id, mensaje |-> m, id_mensaje |-> correlativo]

New == [op |-> "NEW_POKEMON", pokemon |-> "Mew", posicion |-> <<1, 2>>, cant |-> 3]
Appeared == [op |-> "APPEARED_POKEMON", pokemon |-> "Pikachu", posicion |-> <<1, 2>>]
Get == [op |-> "GET_POKEMON", pokemon |-> "Mew"]
Catch == [op |-> "CATCH_POKEMON", pokemon |-> "Mew", posicion |-> <<2, 1>>]
Caught == [op |-> "CAUGHT_POKEMON", fueAtrapado |-> 1]
Localized(l) == [op |-> "LOCALIZED_POKEMON", pokemon |-> "Pikachu", listaPosiciones |-> l]

\* No client needs more than k connections: a fall of the Broker or of its process
\* costs it one.
Con(clientes, c, m, k) == [clientes |-> clientes, caidas |-> c, muertes |-> m, conexiones |-> k]

DosColas == <<Suscripto(3, "SUSCRIPCION_APPEARED"), Suscripto(3, "SUSCRIPCION_CAUGHT")>>
\* Two queues of one Team and two publishers: `writer' may be lost between the messages.
DosMensajes == DosColas \o <<Publica(1, Appeared, 0), Publica(2, Caught, 7)>>
\* A Game-Card and a Game-Boy, subscribed to one queue.
DosSuscriptos == <<Suscripto(2, "SUSCRIPCION_NEW"), GameBoy("SUSCRIPCION_NEW")>>
DelGameBoy == <<GameBoy("SUSCRIPCION_NEW"), Publica(1, New, 0)>>
\* A request of a Team and an answer of a Game-Card.
Captura == <<Suscripto(2, "SUSCRIPCION_CATCH"), Publica(3, Catch, 0), Publica(2, Caught, 7)>>
Consulta == <<Suscripto(3, "SUSCRIPCION_LOCALIZED"), Publica(2, Localized(<<<<4, 5>>>>), 7),
              Publica(3, Get, 0)>>
Respuesta == <<Suscripto(3, "SUSCRIPCION_CAUGHT"), Publica(2, Caught, 7)>>

TodosLosEscenarios ==
  {Con(DosColas, 1, 0, 3), Con(DosMensajes, 0, 0, 1), Con(DosSuscriptos, 1, 1, 4),
   Con(Append(DosSuscriptos, Publica(1, New, 0)), 0, 0, 1), Con(DelGameBoy, 0, 1, 3),
   Con(Captura, 0, 0, 1), Con(Consulta, 0, 0, 1), Con(Respuesta, 1, 1, 4)}

\* A LOCALIZED with two positions.
DosPosiciones == {Con(<<Suscripto(3, "SUSCRIPCION_LOCALIZED"),
                        Publica(2, Localized(<<<<4, 5>>, <<1, 5>>>>), 7)>>, 0, 0, 1)}
=============================================================================
