------------------------------ MODULE Deadlocks ------------------------------
(***************************************************************************)
(* The search for a circular wait (detectar_deadlocks, team.c) and the     *)
(* choice of the exchange that breaks it (resolver_deadlock), as operators *)
(* on a snapshot: dl is entrenadores_DL, the trainers in deadlock as       *)
(* records [id, pokemones: what it has to spare, objetivo: what it still   *)
(* wants].  Rows are numbered from 1.                                      *)
(***************************************************************************)
EXTENDS Pokemones

\* The copy of a trainer that entrenadores_en_deadlock makes.
copia_DL(id, pokemones, objetivo) ==
  LET l == sumarizar_pokemones(pokemones)
  IN  [id |-> id, pokemones |-> pokemones_de_mas(l, objetivo),
       objetivo |-> objetivos_pendientes(l, objetivo)]

estan_unidos(actual, siguiente) ==
  pokemon_que_sirve(actual.objetivo, siguiente.pokemones) # <<>>

\* matriz is Len(dl) wide but is walked n columns, one per trainer.  A column
\* too many is read from the next row; after the last row, from whatever is
\* in the stack (basura).
Celda(dl, fila, columna, basura) ==
  LET f == Len(dl)
      k == (fila - 1) * f + columna - 1
      i == (k \div f) + 1
      j == (k % f) + 1
  IN  IF i > f THEN basura ELSE i # j /\ estan_unidos(dl[i], dl[j])

Unos(dl, n, fila, basura) ==
  {j \in 1..n : j # fila /\ Celda(dl, fila, j, basura)}

\* Mutant: a row leads to its last 1.
UltimoUno(unos) == Max(unos)

PrimerUno(unos) == Min(unos)

\* recorrer_fila_DL goes on to the first 1 of the row and to no other; 0 when
\* the row has none.
Siguiente(dl, n, fila, basura) ==
  IF fila = 0 \/ Unos(dl, n, fila, basura) = {} THEN 0 ELSE PrimerUno(Unos(dl, n, fila, basura))

\* The rows from inicial on, until it is back in inicial, a row leads nowhere
\* or there have been as many attempts as trainers in deadlock.
recorrer_fila_DL(dl, n, inicial, intentos, basura) ==
  LET fila[k \in 0..Len(dl)] ==
        IF k = 0 THEN inicial ELSE Siguiente(dl, n, fila[k-1], basura)
      termina == {k \in 1..Len(dl) : fila[k] \in {0, inicial} \/ intentos + k >= Len(dl)}
      ultima  == Min(termina)
  IN  [i \in 1..(IF fila[ultima] = 0 THEN ultima ELSE ultima + 1) |-> fila[i-1]]

\* list_sort and list_eliminar_int_repetidos.
Ordenados(procesos, n) == Elegidos([i \in 1..n |-> i], procesos)

\* A walk from every row: the cycles found, in order and once each.  intentos
\* and procesos_involucrados go on from one walk to the next: only a cycle
\* resets them.  nulo: logging a cycle dereferenced a NULL trainer.
buscar_deadlocks(dl, n, intentos, basura) ==
  LET hasta[i \in 0..Len(dl)] ==
        IF i = 0 THEN [intentos |-> intentos, procesos |-> {}, encontrados |-> <<>>, nulo |-> FALSE]
        ELSE LET antes    == hasta[i-1]
                 filas    == recorrer_fila_DL(dl, n, i, antes.intentos, basura)
                 ciclo    == Len(filas) > 1 /\ Last(filas) = i
                 procesos == antes.procesos \cup ToSet(Front(filas))
                 nuevo    == ciclo /\ Ordenados(procesos \cup {i}, n) \notin ToSet(antes.encontrados)
             IN  [intentos    |-> IF ciclo THEN 0 ELSE antes.intentos + Len(filas) - 1,
                  procesos    |-> IF ciclo THEN {} ELSE procesos,
                  encontrados |-> IF nuevo THEN Append(antes.encontrados, Ordenados(procesos \cup {i}, n))
                                           ELSE antes.encontrados,
                  nulo        |-> antes.nulo \/ (nuevo /\ ~(procesos \subseteq DOMAIN dl))]
  IN  hasta[Len(dl)]

SinIntercambio == [e1 |-> 0, e2 |-> 0]

\* resolver_deadlocks: the first cycle, its lowest row and the last row of it
\* that the lowest one waits for.  The loop runs to the number of trainers in
\* deadlock, not to the length of the cycle: past it list_get gives NULL and
\* the process dies, as it does without a cycle and when nobody is joined.
elegir_intercambio(dl, encontrados) ==
  LET ciclo  == encontrados[1]
      unidos == {k \in 2..Len(dl) : estan_unidos(dl[ciclo[1]], dl[ciclo[k]])}
  IN  IF encontrados = <<>> \/ Len(ciclo) < Len(dl) \/ unidos = {}
      THEN SinIntercambio
      ELSE [e1 |-> ciclo[1], e2 |-> ciclo[Max(unidos)]]
=============================================================================
