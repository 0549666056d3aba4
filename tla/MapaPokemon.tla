----------------------------- MODULE MapaPokemon -----------------------------
(***************************************************************************)
(* What the Game-Card promises: a map of how many pokemon of each species  *)
(* there are at each position, on which every request takes effect at one  *)
(* instant.  TallGrass implements it with files, blocks and threads.       *)
(***************************************************************************)
EXTENDS Naturals

CONSTANTS
  Pedido,    \* the requests
  Pokemon,   \* the species
  Posicion,  \* the positions of the map
  Cantidad,  \* how many pokemon a NEW_POKEMON may bring: naturals, none of them 0
  Nulo       \* a request not yet received, a result not yet there

VARIABLES
  pedido,     \* each request, or Nulo until it arrives
  contenido,  \* contenido[p][x]: how many p there are at x
  resultado   \* the result of each request, Nulo until it takes effect

vars == <<pedido, contenido, resultado>>

Operacion == {"NEW", "CATCH", "GET"}
Mensaje == [op : Operacion, pokemon : Pokemon, pos : Posicion, cant : Cantidad]
Archivo == [Posicion -> Nat]
Vacio == [x \in Posicion |-> 0]
Responde(tipo, a) == [tipo |-> tipo, archivo |-> a]

Init ==
  /\ pedido = [h \in Pedido |-> Nulo]
  /\ contenido = [p \in Pokemon |-> Vacio]
  /\ resultado = [h \in Pedido |-> Nulo]

Recibir(h, m) ==
  /\ pedido[h] = Nulo
  /\ pedido' = [pedido EXCEPT ![h] = m]
  /\ UNCHANGED <<contenido, resultado>>

Pendiente(h, op) ==
  pedido[h] # Nulo /\ pedido[h].op = op /\ resultado[h] = Nulo

New(h) ==
  /\ Pendiente(h, "NEW")
  /\ contenido' = [contenido EXCEPT ![pedido[h].pokemon][pedido[h].pos] = @ + pedido[h].cant]
  /\ resultado' = [resultado EXCEPT ![h] = Responde("APPEARED", Vacio)]
  /\ UNCHANGED pedido

CatchOk(h) ==
  /\ Pendiente(h, "CATCH")
  /\ contenido[pedido[h].pokemon][pedido[h].pos] > 0
  /\ contenido' = [contenido EXCEPT ![pedido[h].pokemon][pedido[h].pos] = @ - 1]
  /\ resultado' = [resultado EXCEPT ![h] = Responde("OK", Vacio)]
  /\ UNCHANGED pedido

CatchFail(h) ==
  /\ Pendiente(h, "CATCH")
  /\ contenido[pedido[h].pokemon][pedido[h].pos] = 0
  /\ resultado' = [resultado EXCEPT ![h] = Responde("FAIL", Vacio)]
  /\ UNCHANGED <<pedido, contenido>>

Get(h) ==
  /\ Pendiente(h, "GET")
  /\ resultado' = [resultado EXCEPT ![h] = Responde("LOCALIZED", contenido[pedido[h].pokemon])]
  /\ UNCHANGED <<pedido, contenido>>

Next ==
  \E h \in Pedido :
    \/ \E m \in Mensaje : Recibir(h, m)
    \/ New(h)
    \/ CatchOk(h)
    \/ CatchFail(h)
    \/ Get(h)

Spec == Init /\ [][Next]_vars
=============================================================================
