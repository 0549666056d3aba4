------------------------------ MODULE MCRondas ------------------------------
(***************************************************************************)
(* Rounds: trainer e has k pokemons of species e and wants k of that of    *)
(* the next one, for every way to number the trainers.                     *)
(***************************************************************************)
EXTENDS Rondas

De(n, k) == <<[nombre |-> n, cantidad |-> k]>>

\* One cycle through all of 1..n.
Vueltas(n) ==
  {s \in [1..n -> 1..n] :
     LET visita[k \in 0..n] == IF k = 0 THEN 1 ELSE s[visita[k-1]]
     IN  {visita[k] : k \in 1..n} = 1..n}

Ronda(s, k) == [pokemones |-> [e \in DOMAIN s |-> De(e, k)],
                objetivo  |-> [e \in DOMAIN s |-> De(s[e], k)]]

TodasLasRondas ==
  UNION {{Ronda(s, 1) : s \in Vueltas(n)} : n \in 2..5} \cup
  UNION {{Ronda(s, 2) : s \in Vueltas(n)} : n \in 2..4}
=============================================================================
