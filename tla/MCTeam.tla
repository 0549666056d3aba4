------------------------------- MODULE MCTeam -------------------------------
(***************************************************************************)
(* Teams small enough for TLC: two or three trainers, three messages.      *)
(***************************************************************************)
EXTENDS Team

Lista(l) == sumarizar_pokemones([i \in DOMAIN l |-> get_pokemon(l[i])])
Aparece(n, p) == [tipo |-> "APPEARED", nombre |-> n, posiciones |-> <<p>>]
Localiza(n, l) == [tipo |-> "LOCALIZED", nombre |-> n, posiciones |-> l]

\* Two trainers that want one each; the nearest catches what the other wants.
Cruzados == [
  algoritmo |-> "FIFO", quantum |-> 1,
  objetivo |-> <<Lista(<<"P">>), Lista(<<"O">>)>>, pokemones |-> << <<>>, <<>> >>,
  posicion |-> <<0, 2>>, mensajes |-> <<Aparece("O", 0), Aparece("P", 2)>>,
  hilos |-> 1, respuestaTemprana |-> FALSE, sinBroker |-> 0, respuestas |-> {TRUE}]

\* Each catches what it wants, on the way of the other.
Lejanos == [Cruzados EXCEPT !.posicion = <<0, 4>>,
                            !.mensajes = <<Aparece("P", 1), Aparece("O", 2)>>]

\* One trainer catches twice.
Repetidor == [Cruzados EXCEPT
  !.objetivo = <<Lista(<<"P", "P">>), Lista(<<"O">>)>>,
  !.mensajes = <<Aparece("P", 1), Aparece("O", 2), Aparece("P", 2)>>]

\* The same, with a LOCALIZED of two positions (the second arrives twice).
Localizado == [Repetidor EXCEPT !.mensajes =
                                <<Localiza("P", <<1, 2>>), Aparece("O", 2), Localiza("O", <<0>>)>>]

\* Each starts with what the other wants: two exchanges, one after the other.
DosTratos == [Cruzados EXCEPT
  !.objetivo = <<Lista(<<"P", "Q", "A">>), Lista(<<"O", "R", "A">>)>>,
  !.pokemones = <<Lista(<<"O", "R">>), Lista(<<"P", "Q">>)>>,
  !.posicion = <<0, 1>>, !.mensajes = <<Aparece("A", 0), Aparece("A", 1)>>]

\* A circular wait of three.
Ronda == [Cruzados EXCEPT
  !.objetivo = <<Lista(<<"P">>), Lista(<<"O">>), Lista(<<"Q">>)>>,
  !.pokemones = << <<>>, <<>>, <<>> >>, !.posicion = <<0, 1, 2>>,
  !.mensajes = <<Aparece("Q", 0), Aparece("P", 1), Aparece("O", 2)>>]

\* A CATCH that finds no Broker gives its trainer an estimate of its own.
SinBroker == [Repetidor EXCEPT
  !.posicion = <<0, 1>>, !.sinBroker = 1,
  !.mensajes = <<Aparece("P", 0), Aparece("P", 1), Aparece("O", 1)>>]

\* A message comes twice and two are attended at the same time.
Duplicado == [Cruzados EXCEPT !.mensajes = Append(@, Aparece("O", 0)), !.hilos = 2]

\* A LOCALIZED that finds every trainer busy.
Ubicacion == [Cruzados EXCEPT
  !.objetivo = <<Lista(<<"P", "O">>), Lista(<<"Q">>)>>,
  !.mensajes = <<Aparece("O", 0), Aparece("Q", 2), Localiza("P", <<1>>)>>]

\* A LOCALIZED without positions: another one for that pokemon is discarded.
SinPosiciones == [Cruzados EXCEPT
  !.mensajes = <<Localiza("P", <<>>), Localiza("P", <<2>>), Aparece("O", 0)>>]

\* One trainer; what it goes for always escapes, or never does.
Solitario == [SinBroker EXCEPT
  !.objetivo = <<Lista(<<"P", "P">>)>>, !.pokemones = << <<>> >>, !.posicion = <<0>>,
  !.mensajes = <<Aparece("P", 1), Aparece("P", 2), Aparece("P", 2)>>, !.respuestas = {FALSE}]

\* Two want what the third has to spare: the cycle found is shorter than the
\* deadlock.
RondaCorta == [Ronda EXCEPT
  !.objetivo = <<Lista(<<"P">>), Lista(<<"P">>), Lista(<<"O", "O">>)>>,
  !.pokemones = << <<>>, <<>>, Lista(<<"P">>) >>,
  !.mensajes = <<Aparece("O", 0), Aparece("O", 1), Aparece("P", 2)>>]

\* An exchange may hand over what the other trainer does not have: both want P
\* and one more, and all the P there are start with the first.
Despojado == [Cruzados EXCEPT
  !.objetivo = <<Lista(<<"P", "Q">>), Lista(<<"P", "O">>)>>,
  !.pokemones = <<Lista(<<"P", "P">>), <<>> >>, !.posicion = <<2, 2>>,
  !.mensajes = <<Aparece("Q", 2), Aparece("O", 0), Aparece("Q", 1)>>]

Con(escenario, algoritmos) == {[escenario EXCEPT !.algoritmo = a] : a \in algoritmos}

Equipos ==
  UNION {Con([Cruzados EXCEPT !.respuestas = BOOLEAN], {"FIFO", "RR", "SJF-SD"}),
         Con([Cruzados EXCEPT !.respuestaTemprana = TRUE], {"RR"}),
         Con(Repetidor, {"FIFO"}),
         Con(Localizado, {"RR"}),
         Con(Ubicacion, {"FIFO"}),
         Con(SinPosiciones, {"FIFO"}),
         Con(DosTratos, {"RR"}),
         Con(Ronda, {"FIFO"}),
         Con(RondaCorta, {"FIFO"}),
         Con(Despojado, {"FIFO"}),
         Con(Duplicado, {"FIFO"}),
         Con(SinBroker, {"SJF-SD"}),
         Con(Solitario, {"SJF-CD"}),
         Con([Solitario EXCEPT !.respuestas = {TRUE}], {"SJF-CD"})}

\* Teams in which nothing goes wrong.
EquiposSanos ==
  UNION {Con(Cruzados, {"FIFO", "RR", "SJF-SD"}),
         Con(Lejanos, {"FIFO", "RR", "SJF-SD"}),
         Con(Ronda, {"FIFO", "RR"})}

=============================================================================
