------------------------------- MODULE Rondas -------------------------------
(***************************************************************************)
(* The resolution of a deadlock from beginning to end with nobody in the   *)
(* way (detectar_deadlocks, resolver_deadlock and intercambio of team.c):  *)
(* the detection chooses two trainers, the first goes to the second and    *)
(* exchanges with it, and detects again.  Team has the same steps with the *)
(* other threads between them; here there are more trainers.               *)
(***************************************************************************)
EXTENDS Deadlocks

CONSTANT Equipos   \* pairs of lists, [pokemones, objetivo], by trainer

ASSUME EquiposValidos == \A q \in Equipos : Len(q.pokemones) = Len(q.objetivo)

VARIABLES
  equipo,     \* the one of the configuration
  pokemones,  \* what each trainer has now
  intentos,   \* the global that goes on from one detection to the next
  segfault

vars == <<equipo, pokemones, intentos, segfault>>

Entrenador == DOMAIN equipo.objetivo
objetivo(e) == equipo.objetivo[e]

Cumplio(e) == cumplio_objetivo(sumarizar_pokemones(pokemones[e]), objetivo(e))

\* Everybody is waiting; whoever has what it wants has left.
entrenadores_DL ==
  Elegidos([e \in Entrenador |-> copia_DL(e, pokemones[e], objetivo(e))],
           {e \in Entrenador :
              ~Cumplio(e) /\ ~puede_capturar_pokemones(pokemones[e], objetivo(e))})

Init ==
  /\ equipo \in Equipos
  /\ pokemones = equipo.pokemones
  /\ intentos = 0 /\ segfault = FALSE

\* Trainer x takes n from trainer y, whom it has gone to see.
Intercambiar(x, y, n) ==
  LET ofrecido == pokemon_ofrecido(pokemones[x], objetivo(x), objetivo(y))
      r == Intercambiadas(pokemones[x], pokemones[y], n, ofrecido[1].nombre, ofrecido[1].nombre)
  IN  /\ ofrecido # <<>>
      /\ pokemones' = [e \in Entrenador |->
           sumarizar_pokemones(IF e = x THEN r[1] ELSE IF e = y THEN r[2] ELSE pokemones[e])]

Resolver ==
  /\ ~segfault /\ Len(entrenadores_DL) > 1
  /\ \E basura \in BOOLEAN :
       LET dl == entrenadores_DL
           b  == buscar_deadlocks(dl, Len(equipo.objetivo), intentos, basura)
           x  == elegir_intercambio(dl, b.encontrados)
       IN  IF b.nulo \/ x = SinIntercambio
           THEN segfault' = TRUE /\ UNCHANGED <<equipo, pokemones, intentos>>
           ELSE /\ Intercambiar(dl[x.e1].id, dl[x.e2].id,
                     pokemon_que_sirve(dl[x.e1].objetivo, dl[x.e2].pokemones)[1].nombre)
                /\ intentos' = b.intentos
                /\ UNCHANGED <<equipo, segfault>>

Next == Resolver

Spec == Init /\ [][Next]_vars
-----------------------------------------------------------------------------
(* Properties *)

CantidadDe(n, listas) ==
  FoldSet(LAMBDA e, suma : suma + FoldSet(LAMBDA i, s : s + listas[e][i].cantidad, 0,
                                          Posiciones(n, listas[e])), 0, DOMAIN listas)

Especies == {objetivo(e)[1].nombre : e \in Entrenador}

\* How many pokemons are still missing.
Faltan(listas) ==
  LET Falta(e, o) == Max({0, o.cantidad - get_cantidad_by_nombre_pokemon(o.nombre, listas[e])})
  IN  FoldSet(LAMBDA e, suma : suma +
        FoldSet(LAMBDA o, s : s + Falta(e, o), 0, ToSet(objetivo(e))), 0, Entrenador)

\* However the trainers of a round are numbered, the walk that only follows
\* the first 1 of a row, over a matrix that has become narrower than the team
\* and with the attempts of the walks before, finds it: nobody is left waiting
\* and no NULL is dereferenced.
RondaResuelta ==
  ~segfault /\ (Len(entrenadores_DL) <= 1 => \A e \in Entrenador : Cumplio(e))

\* An exchange takes the round nearer to its end, and changes no species'
\* number, though the two lists share the element handed over.
TratoJusto ==
  [][~segfault' => /\ Faltan(pokemones') < Faltan(pokemones)
                   /\ \A n \in Especies : CantidadDe(n, pokemones') = CantidadDe(n, pokemones)]_vars
=============================================================================
