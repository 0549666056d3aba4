--------------------------- MODULE MCBrokerColas ---------------------------
(* Instances of BrokerColas for TLC. *)
EXTENDS BrokerColas, TLC

UnaCola == {"NEW"}

Simetria == Permutations(Mensaje) \cup Permutations(Hilo) \cup Permutations(Proceso)

Primero(S) == CHOOSE x \in S : TRUE

\* Where a property of behaviours excludes SYMMETRY: messages, connections and processes
\* are interchangeable, so that a first one of each may as well be the first to move.
EnOrden ==
  /\ (\E x \in Mensaje : pasoMensaje'[x] # "libre") =>
       pasoMensaje'[Primero(Mensaje)] # "libre"
  /\ (\E x \in Hilo : paso'[x] # "libre") =>
       /\ paso'[Primero(Hilo)] # "libre"
       /\ suscriptor'[Primero(Hilo)].id = Primero(Proceso)

EnOtraCola(M) == \E m \in M : pasoMensaje'[m] # "libre" /\ cola'[m] \notin UnaCola

\* Only the first message and the only connection may be on any queue. Two connections are
\* looked at on one queue, with every message on it, and while none is lost: a thread
\* notices that its client is gone only between two searches. The second connection comes
\* before the last message.
DosEnUnaCola ==
  /\ ~EnOtraCola(Mensaje \ {Primero(Mensaje)})
  /\ (\A h \in Hilo : paso'[h] # "libre") =>
       /\ \A h \in Hilo : viva'[h] /\ suscriptor'[h].op_code \in UnaCola
       /\ ~EnOtraCola(Mensaje)
       /\ (\E h \in Hilo : paso[h] = "libre") => \E m \in Mensaje : pasoMensaje[m] = "libre"
=============================================================================
