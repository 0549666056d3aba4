------------------------------ MODULE Pokemones ------------------------------
(***************************************************************************)
(* The lists of pokemons of the Team (team/src/pokemon_utils.c, utils.c):  *)
(* what a trainer has and what it wants, as sequences of elements with a   *)
(* name and a count, and the questions the Team asks of them.              *)
(***************************************************************************)
EXTENDS Integers, SequencesExt

get_pokemon(n) == [nombre |-> n, cantidad |-> 1]

Posiciones(n, l) == {i \in DOMAIN l : l[i].nombre = n}

\* The first element of a name counts what it says; every later one adds 1,
\* whatever its count.
CantidadSumarizada(l, n) ==
  l[Min(Posiciones(n, l))].cantidad + Cardinality(Posiciones(n, l)) - 1

\* The elements of l at the places I, in order.
Elegidos(l, I) ==
  LET hasta[k \in 0..Len(l)] == IF k = 0 THEN <<>>
                                ELSE IF k \in I THEN Append(hasta[k-1], l[k]) ELSE hasta[k-1]
  IN  hasta[Len(l)]

\* One element for each name, in the order they first appear.
sumarizar_pokemones(l) ==
  Elegidos([i \in DOMAIN l |-> [nombre   |-> l[i].nombre,
                                cantidad |-> CantidadSumarizada(l, l[i].nombre)]],
           {i \in DOMAIN l : \A j \in 1..(i - 1) : l[j].nombre # l[i].nombre})

get_cantidad_by_nombre_pokemon(n, l) ==
  IF Posiciones(n, l) = {} THEN 0 ELSE l[Min(Posiciones(n, l))].cantidad

get_cantidad_pokemon(l) ==
  LET hasta[k \in 0..Len(l)] == IF k = 0 THEN 0 ELSE hasta[k-1] + l[k].cantidad
  IN  hasta[Len(l)]

\* Only the first element of the name loses one.
remove_pokemon_by_nombre(n, l) ==
  IF Posiciones(n, l) = {} THEN l
  ELSE LET i == Min(Posiciones(n, l))
       IN  IF l[i].cantidad > 1 THEN [l EXCEPT ![i].cantidad = @ - 1] ELSE RemoveAt(l, i)

\* Mutant: one too many.
CapturarDeMas(pokemones, objetivo) ==
  get_cantidad_pokemon(pokemones) <= get_cantidad_pokemon(objetivo)

puede_capturar_pokemones(pokemones, objetivo) ==
  get_cantidad_pokemon(pokemones) < get_cantidad_pokemon(objetivo)

\* The list of the trainer has been summarised first.  More than what is
\* wanted does not do either.
cumplio_objetivo(pokemones, objetivo) ==
  \A i \in DOMAIN objetivo :
    get_cantidad_by_nombre_pokemon(objetivo[i].nombre, pokemones) = objetivo[i].cantidad

\* Whole elements: one that has more, or less, than what the other list asks.
pokemones_de_mas(pokemones, objetivo) ==
  Elegidos(pokemones, {i \in DOMAIN pokemones :
    pokemones[i].cantidad > get_cantidad_by_nombre_pokemon(pokemones[i].nombre, objetivo)})

objetivos_pendientes(pokemones, objetivo) ==
  Elegidos(objetivo, {i \in DOMAIN objetivo :
    objetivo[i].cantidad > get_cantidad_by_nombre_pokemon(objetivo[i].nombre, pokemones)})

\* The first name of objetivo that pokemones has, as a sequence of 0 or 1.
pokemon_que_sirve(objetivo, pokemones) ==
  LET utiles == {i \in DOMAIN objetivo : Posiciones(objetivo[i].nombre, pokemones) # {}}
  IN  IF utiles = {} THEN <<>>
      ELSE <<pokemones[Min(Posiciones(objetivo[Min(utiles)].nombre, pokemones))]>>

\* What trainer 2 has to spare and trainer 1 wants, whether or not trainer 1
\* already has it.
pokemon_que_sirve_intercambio(objetivo1, pokemones2, objetivo2) ==
  pokemon_que_sirve(objetivo1, pokemones_de_mas(pokemones2, objetivo2))

\* intercambio: what trainer 1 gives to trainer 2, something that it wants or
\* else the first thing trainer 1 has to spare.
pokemon_ofrecido(pokemones1, objetivo1, objetivo2) ==
  LET sirve == pokemon_que_sirve_intercambio(objetivo2, pokemones1, objetivo1)
  IN  IF sirve # <<>> THEN sirve ELSE pokemones_de_mas(pokemones1, objetivo1)

\* The element of a list that is added to another one.  It is the same element:
\* when the first list then loses one both show it, so that with a count of 3
\* the two are left with 2.
Entregado(n, de) ==
  LET c == get_cantidad_by_nombre_pokemon(n, de)
  IN  [nombre |-> n, cantidad |-> IF c > 1 THEN c - 1 ELSE 1]

\* Mutant: what is given away is not taken from the list.
DarSinQuitar(de, a, n) ==
  <<de, Append(a, get_pokemon(n))>>

\* One pokemon n changes hands.
Dar(de, a, n) ==
  <<remove_pokemon_by_nombre(n, de), Append(a, Entregado(n, de))>>

\* intercambio: trainer 1 takes queme_sirve from trainer 2 and gives
\* quele_sirve; trainer 2 adds whatever its destination has come to be.
Intercambiadas(pokemones1, pokemones2, queme_sirve, quele_sirve, destino2) ==
  LET ida    == Dar(pokemones2, pokemones1, queme_sirve)
      vuelta == Dar(ida[2], ida[1], quele_sirve)
  IN  <<vuelta[1], IF destino2 = quele_sirve THEN vuelta[2]
                   ELSE Append(ida[1], get_pokemon(destino2))>>

\* The lists of all the trainers one after another, summarised again:
\* get_objetivo_global and get_pokemones_capturados_sumarizados_global.
sumarizar_global(listas) == sumarizar_pokemones(FlattenSeq(listas))

esta_en_objetivos_globales(n, global) == Posiciones(n, global) # {}

\* What has been captured and what is wanted, not what somebody is going for.
puedo_capturar(n, capturados, global) ==
  get_cantidad_by_nombre_pokemon(n, capturados) < get_cantidad_by_nombre_pokemon(n, global)

appeared_valido(n, capturados, global) ==
  esta_en_objetivos_globales(n, global) /\ puedo_capturar(n, capturados, global)

localized_valido(n, recibidos, global) ==
  esta_en_objetivos_globales(n, global) /\ n \notin recibidos
=============================================================================
