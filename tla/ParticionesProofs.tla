-------------------------- MODULE ParticionesProofs --------------------------
(***************************************************************************)
(* Particiones for every size of the memory, every configuration file and  *)
(* every number of messages: its inductive invariant, the proofs that it   *)
(* implies the safety properties of the memory, and the refinement: every  *)
(* step of the memory is, for its messages in the order of their ids, a    *)
(* step of the queue of CacheBroker or none.                               *)
(***************************************************************************)
EXTENDS ParticionesLemas

\* TypeOK says what the fields of tarea are.
USE DEF Tareas

-----------------------------------------------------------------------------
(* The inductive invariant *)

\* A store has begun and its message is not in the memory yet.
EnCurso == tarea.paso # "ocioso"

\* The occupied partitions, those that the compaction has set apart included.
Guardadas == Llenas(tabla) \cup Llenas(tarea.apartadas)

PasoCoherente ==
  /\ tarea.paso = "ocioso" => tarea = Ocioso
  /\ tarea.paso \in {"compactar", "reponer", "unir"} => ALGORITMO_MEMORIA = "PARTICIONES"
  /\ tarea.paso = "partir" =>
       ALGORITMO_MEMORIA = "BS" /\ Candidatas(tabla, tarea.tamanio) # {}
  /\ tarea.paso = "elegir" =>
       /\ Candidatas(tabla, tarea.tamanio) = {}
       /\ tarea.victima \in Ocupadas(tabla) /\ tarea.victima <= tarea.hasta

Sana(t) == Marcada(t) /\ Distintas(t) /\ IdsHasta(t, id_particion)

Apartado ==
  /\ Sana(tarea.apartadas)
  /\ \A p \in Llenas(tabla), q \in Llenas(tarea.apartadas) : p.msg # q.msg
  /\ tarea.paso # "reponer" => LlegaAlFinal(tabla) /\ tarea.apartadas = <<>>
  /\ tarea.paso = "reponer" => Cabe(tarea.apartadas, posicion)

\* The compaction begins and ends with some free partition, and puts the
\* occupied ones first.
Libres ==
  ALGORITMO_MEMORIA = "PARTICIONES" =>
    /\ tarea.paso \notin {"reponer", "unir"} => SinVecinasLibres(tabla)
    /\ tarea.paso = "compactar" => HayLibre(tabla)
    /\ tarea.paso = "reponer" =>
         /\ OcupadasPrimero(tabla)
         /\ HayLibre(tabla) \/ HayLibre(tarea.apartadas)
         /\ Ocupadas(tarea.apartadas) # {} => ~HayLibre(tabla)
    /\ tarea.paso = "unir" => OcupadasPrimero(tabla) /\ HayLibre(tabla)

Buddies == ALGORITMO_MEMORIA = "BS" => Alineada(tabla)

\* The history names the messages of the occupied partitions, each once; the
\* message being stored is the last one published and is not among them.
Historia ==
  /\ ToSet(orden) = {p.msg : p \in Guardadas}
  /\ SinRepetidos(orden)
  /\ \A m \in ToSet(orden) : m <= publicados
  /\ EnCurso => tarea.msg = publicados /\ publicados \in Mensaje /\ publicados \notin ToSet(orden)

\* A partition has the room its message asked for.
Justa(p) ==
  /\ TamanioPedido(medida[p.msg]) <= p.size
  /\ ALGORITMO_MEMORIA = "PARTICIONES" => p.size = TamanioPedido(medida[p.msg])

TamaniosJustos ==
  /\ \A p \in Guardadas : Justa(p)
  /\ EnCurso => tarea.tamanio = TamanioPedido(medida[tarea.msg])
  /\ \A m \in 1..publicados : medida[m] \in config.tamanios

\* Unless its use went unrecorded, a message sent or stored later is in a
\* partition of greater id.
Turnos ==
  \A a, b \in Mensaje :
    Antes(orden, a, b) /\ b \notin perdidas =>
      \A p, q \in Guardadas : p.msg = a /\ q.msg = b => p.id < q.id

\* A store can still evict every message there is.
Paciencia == EnCurso => tarea.liberadas + Len(orden) <= tarea.cantElementos

IInv ==
  /\ TypeOK /\ PasoCoherente
  /\ Cortada(tabla) /\ Sana(tabla) /\ Apartado /\ Libres /\ Buddies
  /\ Historia /\ TamaniosJustos /\ Turnos /\ Paciencia

-----------------------------------------------------------------------------
(* From what the list is to what the properties say of it *)

\* A partition of a list that tiles the memory lies in the memory.
LEMMA EnLaMemoria ==
  ASSUME NEW t \in Seq(Registro), Cortada(t)
  PROVE  t \in Seq(Particion)
<1>1. Len(t) \in Nat /\ DOMAIN t = 1..Len(t)
  BY LenProperties
<1>2. TAMANO_MEMORIA \in Nat
  BY ConstantesValidas
<1>3. ASSUME NEW k \in 1..Len(t) PROVE t[k] \in Particion
  <2>1. t[k] \in Registro
    BY ElementOfSeq
  <2>2. /\ 0 <= t[k].ini /\ 0 < t[k].size /\ t[k].fin < TAMANO_MEMORIA
        /\ t[k].fin = t[k].ini + t[k].size - 1
    BY <1>1 DEF Cortada
  <2>3. /\ t[k].ini \in 0..TAMANO_MEMORIA /\ t[k].fin \in 0..TAMANO_MEMORIA
        /\ t[k].size \in 1..TAMANO_MEMORIA
    <3>1. t[k].ini \in Int /\ t[k].fin \in Int /\ t[k].size \in Int
      BY <2>1 DEF Registro
    <3> QED BY <1>2, <2>2, <3>1
  <2> QED BY <2>1, <2>3 DEF Registro, Particion
<1>4. t \in [1..Len(t) -> Registro]
  BY LenProperties
<1>5. t \in [1..Len(t) -> Particion]
  BY <1>3, <1>4
<1> QED BY <1>1, <1>5, IsASeq, SeqDef

LEMMA ListasDeRegistros ==
  ASSUME NEW t \in Seq(Particion)
  PROVE  t \in Seq(Registro)
<1>1. Particion \subseteq Registro
  BY ConstantesValidas DEF Particion, Registro
<1> QED BY <1>1, SeqMonotonic

\* The occupied partitions of a list that follow the rule of Marcada have a message.
LEMMA ConMensaje ==
  ASSUME NEW t \in Seq(Registro), NEW p \in Llenas(t)
  PROVE  /\ p \in Registro
         /\ Marcada(t) => p.msg \in Mensaje
         /\ \A n : IdsHasta(t, n) => p.id <= n
<1>1. PICK k \in DOMAIN t : t[k].ocupada /\ p = t[k]
  BY DEF Llenas, Ocupadas
<1>2. p \in Registro
  <2>1. k \in 1..Len(t)
    BY LenProperties
  <2> QED BY <1>1, <2>1, ElementOfSeq
<1>3. Marcada(t) => p.msg # SinMensaje
  BY <1>1 DEF Marcada
<1>4. \A n : IdsHasta(t, n) => p.id <= n
  BY <1>1 DEF IdsHasta
<1> QED BY <1>2, <1>3, <1>4 DEF Registro

\* The first list of partitions has one, free, as large as the memory.
LEMMA UnicaParticion ==
  LET p == crearParticion(0, TAMANO_MEMORIA, 1)
      t == <<p>>
  IN  /\ t \in Seq(Registro) /\ Cortada(t) /\ LlegaAlFinal(t) /\ SinVecinasLibres(t)
      /\ Llenas(t) = {} /\ Marcada(t) /\ Distintas(t) /\ IdsHasta(t, 1)
      /\ EsPotenciaDeDos(TAMANO_MEMORIA) => Alineada(t)
<1> DEFINE p == crearParticion(0, TAMANO_MEMORIA, 1)
           t == <<p>>
<1>1. TAMANO_MEMORIA \in Nat /\ 0 < TAMANO_MEMORIA
  BY ConstantesValidas
<1>2. /\ p.ini = 0 /\ p.fin = TAMANO_MEMORIA - 1 /\ p.size = TAMANO_MEMORIA
      /\ p.ocupada = FALSE /\ p.id = 1 /\ p.msg = SinMensaje /\ p \in Registro
  BY <1>1 DEF crearParticion, Registro
<1> HIDE DEF p
<1>3. t \in Seq(Registro) /\ Len(t) = 1 /\ DOMAIN t = {1} /\ t[1] = p /\ t # <<>>
  BY <1>2
<1> HIDE DEF t
<1>4. Cortada(t)
  BY <1>1, <1>2, <1>3 DEF Cortada
<1>5. LlegaAlFinal(t) /\ SinVecinasLibres(t)
  BY <1>2, <1>3 DEF LlegaAlFinal, SinVecinasLibres
<1>6. Ocupadas(t) = {}
  BY <1>2, <1>3 DEF Ocupadas
<1>7. Llenas(t) = {} /\ Marcada(t) /\ Distintas(t) /\ IdsHasta(t, 1)
  BY <1>2, <1>3, <1>6 DEF Llenas, Marcada, Distintas, IdsHasta
<1>8. EsPotenciaDeDos(TAMANO_MEMORIA) => EsBuddy(p)
  <2> SUFFICES ASSUME EsPotenciaDeDos(TAMANO_MEMORIA) PROVE EsBuddy(p)
    OBVIOUS
  <2>1. PICK k \in 0..TAMANO_MEMORIA : TAMANO_MEMORIA = potencia[k]
    BY DEF EsPotenciaDeDos
  <2>2. k \in Nat /\ p.size = potencia[k] /\ p.ini = 0 * p.size
    BY <1>1, <1>2, <2>1
  <2> QED BY <2>2 DEF EsBuddy
<1>9. EsPotenciaDeDos(TAMANO_MEMORIA) => Alineada(t)
  BY <1>3, <1>8 DEF Alineada
<1> QED BY <1>3, <1>4, <1>5, <1>7, <1>9 DEF t, p

LEMMA ListaVacia ==
  /\ <<>> \in Seq(Registro) /\ Cortada(<<>>) /\ Llenas(<<>>) = {}
  /\ Marcada(<<>>) /\ Distintas(<<>>) /\ \A n : IdsHasta(<<>>, n)
  /\ OcupadasPrimero(<<>>) /\ ~HayLibre(<<>>) /\ Ocupadas(<<>>) = {}
  /\ Alineada(<<>>)
<1>1. <<>> \in Seq(Registro) /\ Len(<<>>) = 0 /\ DOMAIN <<>> = {}
  BY EmptySeq
<1>2. Cortada(<<>>)
  BY <1>1 DEF Cortada
<1> QED BY <1>1, <1>2 DEF Ocupadas, Llenas, Marcada, Distintas, IdsHasta, OcupadasPrimero,
                          HayLibre, Alineada

-----------------------------------------------------------------------------
LEMMA IInvInicial == Init => IInv
<1> SUFFICES ASSUME Init PROVE IInv
  OBVIOUS
<1>1. /\ tabla \in Seq(Registro) /\ Cortada(tabla) /\ LlegaAlFinal(tabla)
      /\ SinVecinasLibres(tabla) /\ Llenas(tabla) = {}
      /\ Marcada(tabla) /\ Distintas(tabla) /\ IdsHasta(tabla, 1)
      /\ EsPotenciaDeDos(TAMANO_MEMORIA) => Alineada(tabla)
  BY UnicaParticion DEF Init
<1>2. tarea = Ocioso /\ tarea.paso = "ocioso" /\ tarea.apartadas = <<>>
      /\ tarea.liberadas = 0 /\ tarea.cantElementos = 0 /\ tarea.msg = SinMensaje /\ tarea.tamanio = 0
  BY DEF Init, Ocioso
<1>3. orden = <<>> /\ ToSet(orden) = {} /\ DOMAIN orden = {} /\ orden \in Seq(Mensaje)
  BY EmptySeq DEF Init, ToSet
<1>4. Guardadas = {}
  BY <1>1, <1>2, ListaVacia DEF Guardadas
<1>5. TypeOK
  <2>1. tabla \in Seq(Particion)
    BY <1>1, EnLaMemoria
  <2>2. tarea \in Tareas
    BY EmptySeq DEF Init, Ocioso, Pasos
  <2>3. medida \in [Mensaje -> config.tamanios \cup {0}]
    BY DEF Init
  <2> QED BY <1>3, <2>1, <2>2, <2>3, ConstantesValidas DEF Init, TypeOK
<1>6. PasoCoherente
  BY <1>2 DEF PasoCoherente
<1>7. Sana(tabla)
  BY <1>1 DEF Init, Sana
<1>8. Apartado
  BY <1>1, <1>2, ListaVacia DEF Apartado, Sana
<1>9. Libres
  BY <1>1, <1>2 DEF Libres
<1>10. Buddies
  BY <1>1, PotenciasParaBuddySystem DEF Init, Buddies, ALGORITMO_MEMORIA
<1>11. Historia
  BY <1>2, <1>3, <1>4 DEF Historia, EnCurso, SinRepetidos
<1>12. TamaniosJustos
  BY <1>2, <1>4 DEF Init, TamaniosJustos, EnCurso
<1>13. Turnos
  BY <1>4 DEF Turnos
<1>14. Paciencia
  BY <1>2 DEF Paciencia, EnCurso
<1> QED BY <1>1, <1>5, <1>6, <1>7, <1>8, <1>9, <1>10, <1>11, <1>12, <1>13, <1>14 DEF IInv

-----------------------------------------------------------------------------
(* What a step does to the history *)

\* p and q are a partition of the same message, wherever each of them lies.
MismaFicha(p, q) == p.msg = q.msg /\ p.size = q.size /\ p.id = q.id

LEMMA QuitarDePuntual ==
  ASSUME NEW s \in Seq(Mensaje), SinRepetidos(s), NEW m \in ToSet(s)
  PROVE  LET r == QuitarDe(s, m)
         IN  /\ r \in Seq(Mensaje) /\ Len(r) = Len(s) - 1
             /\ ToSet(r) = ToSet(s) \ {m} /\ SinRepetidos(r)
             /\ \A a, b : Antes(r, a, b) => Antes(s, a, b)
<1> DEFINE i == CHOOSE k \in DOMAIN s : s[k] = m
<1>1. i \in DOMAIN s /\ s[i] = m
  BY DEF ToSet
<1>2. QuitarDe(s, m) = RemoveAt(s, i)
  BY DEF QuitarDe
<1> HIDE DEF i
<1>3. i \in 1..Len(s)
  BY <1>1, LenProperties
<1> QED BY <1>1, <1>2, <1>3, SalirDeLaCola

\* The message goes to the end of the queue.
LEMMA PasarAlFinal ==
  ASSUME NEW s \in Seq(Mensaje), SinRepetidos(s), NEW m \in ToSet(s)
  PROVE  LET r == Append(QuitarDe(s, m), m)
         IN  /\ r \in Seq(Mensaje) /\ Len(r) = Len(s)
             /\ ToSet(r) = ToSet(s) /\ SinRepetidos(r)
             /\ \A a, b : Antes(r, a, b) =>
                            (Antes(s, a, b) /\ b # m /\ a # m) \/ (a \in ToSet(s) /\ a # m /\ b = m)
<1> DEFINE q == QuitarDe(s, m)
           r == Append(q, m)
<1>1. /\ q \in Seq(Mensaje) /\ Len(q) = Len(s) - 1
      /\ ToSet(q) = ToSet(s) \ {m} /\ SinRepetidos(q)
      /\ \A a, b : Antes(q, a, b) => Antes(s, a, b)
  BY QuitarDePuntual
<1>2. m \in Mensaje
  BY LenProperties DEF ToSet
<1> HIDE DEF q
<1>3. /\ r \in Seq(Mensaje) /\ Len(r) = Len(q) + 1
      /\ ToSet(r) = ToSet(q) \cup {m} /\ SinRepetidos(r)
      /\ \A a, b : Antes(r, a, b) => Antes(q, a, b) \/ (a \in ToSet(q) /\ b = m)
  <2>1. q \in Seq(Mensaje) /\ m \notin ToSet(q) /\ SinRepetidos(q)
    BY <1>1
  <2> QED BY <1>2, <2>1, EntrarALaCola
<1> HIDE DEF r
<1>4. Len(s) \in Nat /\ Len(r) = Len(s)
  BY <1>1, <1>3, LenProperties
<1>5. ASSUME NEW a, NEW b, Antes(q, a, b) PROVE a # m /\ b # m
  <2>1. a \in ToSet(q) /\ b \in ToSet(q)
    BY <1>5 DEF Antes, ToSet
  <2> QED BY <1>1, <2>1
<1>6. \A a, b : Antes(r, a, b) =>
        (Antes(s, a, b) /\ b # m /\ a # m) \/ (a \in ToSet(s) /\ a # m /\ b = m)
  BY <1>1, <1>3, <1>5
<1>7. ToSet(r) = ToSet(s)
  BY <1>1, <1>3
<1> QED BY <1>3, <1>4, <1>6, <1>7 DEF r, q

\* Only the configuration and the size of its message say what a partition should have.
LEMMA JustaTambien ==
  ASSUME config' = config, NEW p, NEW q, p.msg = q.msg, p.size = q.size,
         medida'[p.msg] = medida[p.msg], Justa(q)
  PROVE  Justa(p)'
BY DEF Justa, TamanioPedido, AlMenosElMinimo, TAMANO_MINIMO_PARTICION, ALGORITMO_MEMORIA

\* No two partitions hold the same message.
LEMMA GuardadasDistintas ==
  ASSUME IInv
  PROVE  /\ \A p, q \in Guardadas : p.msg = q.msg => p = q
         /\ \A p \in Guardadas : p \in Registro /\ p.msg \in Mensaje /\ p.id <= id_particion
         /\ tabla \in Seq(Registro) /\ tarea.apartadas \in Seq(Registro)
<1>1. tabla \in Seq(Registro) /\ tarea.apartadas \in Seq(Registro)
  BY ListasDeRegistros DEF IInv, TypeOK
<1>2. ASSUME NEW t, Distintas(t), NEW p \in Llenas(t), NEW q \in Llenas(t), p.msg = q.msg
      PROVE  p = q
  BY <1>2 DEF Distintas, Llenas
<1>3. ASSUME NEW p \in Guardadas PROVE p \in Registro /\ p.msg \in Mensaje /\ p.id <= id_particion
  <2>1. CASE p \in Llenas(tabla)
    BY <1>1, <2>1, ConMensaje DEF IInv, Sana
  <2>2. CASE p \in Llenas(tarea.apartadas)
    BY <1>1, <2>2, ConMensaje DEF IInv, Apartado, Sana
  <2> QED BY <2>1, <2>2 DEF Guardadas
<1>4. ASSUME NEW p \in Guardadas, NEW q \in Guardadas, p.msg = q.msg PROVE p = q
  BY <1>2, <1>4 DEF Guardadas, IInv, Apartado, Sana
<1> QED BY <1>1, <1>3, <1>4

\* Whatever happens to the list, if the partitions of the messages stay as
\* they are, and so does the store in progress, the history stays true.
LEMMA HistoriaIgual ==
  ASSUME IInv, UNCHANGED <<config, publicados, medida, orden, perdidas>>,
         EnCurso, EnCurso',
         tarea'.msg = tarea.msg, tarea'.tamanio = tarea.tamanio,
         tarea'.liberadas = tarea.liberadas, tarea'.cantElementos = tarea.cantElementos,
         \A p \in Guardadas' : \E q \in Guardadas : MismaFicha(p, q),
         \A q \in Guardadas : \E p \in Guardadas' : MismaFicha(p, q)
  PROVE  Historia' /\ TamaniosJustos' /\ Turnos' /\ Paciencia'
<1>1. Historia'
  <2>1. {p.msg : p \in Guardadas}' = {p.msg : p \in Guardadas}
    BY DEF MismaFicha
  <2> QED BY <2>1 DEF IInv, Historia
<1>2. TamaniosJustos'
  <2>1. ASSUME NEW p \in Guardadas' PROVE Justa(p)'
    <3>1. PICK q \in Guardadas : MismaFicha(p, q)
      OBVIOUS
    <3>2. Justa(q)
      BY DEF IInv, TamaniosJustos
    <3> QED BY <3>1, <3>2, JustaTambien DEF MismaFicha
  <2>2. (tarea.tamanio = TamanioPedido(medida[tarea.msg]))'
    <3>1. tarea.tamanio = TamanioPedido(medida[tarea.msg])
      BY DEF IInv, TamaniosJustos
    <3> QED BY <3>1
        DEF TamanioPedido, AlMenosElMinimo, TAMANO_MINIMO_PARTICION, ALGORITMO_MEMORIA
  <2> QED BY <2>1, <2>2 DEF IInv, TamaniosJustos
<1>3. Turnos'
  <2> SUFFICES ASSUME NEW a \in Mensaje, NEW b \in Mensaje, Antes(orden, a, b), b \notin perdidas,
                      NEW p \in Guardadas', NEW q \in Guardadas', p.msg = a, q.msg = b
               PROVE  p.id < q.id
    BY DEF Turnos
  <2>1. PICK x \in Guardadas, y \in Guardadas : MismaFicha(p, x) /\ MismaFicha(q, y)
    OBVIOUS
  <2>2. x.id < y.id
    BY <2>1 DEF MismaFicha, IInv, Turnos
  <2> QED BY <2>1, <2>2 DEF MismaFicha
<1>4. Paciencia'
  BY DEF IInv, Paciencia
<1> QED BY <1>1, <1>2, <1>3, <1>4

\* The message being stored gets partition p, with an id no other has.
LEMMA HistoriaAlGuardar ==
  ASSUME IInv, UNCHANGED <<config, publicados, medida, perdidas>>, EnCurso, tarea' = Ocioso,
         orden' = Append(orden, tarea.msg),
         NEW p, Guardadas' = Guardadas \cup {p}, p.msg = tarea.msg, p.id = id_particion',
         id_particion' \in Nat, id_particion < id_particion',
         tarea.tamanio <= p.size,
         ALGORITMO_MEMORIA = "PARTICIONES" => p.size = tarea.tamanio
  PROVE  Historia' /\ TamaniosJustos' /\ Turnos' /\ Paciencia' /\ orden' \in Seq(Mensaje)
<1>1. /\ orden \in Seq(Mensaje) /\ SinRepetidos(orden) /\ tarea.msg \in Mensaje
      /\ tarea.msg \notin ToSet(orden) /\ tarea.msg = publicados
      /\ ToSet(orden) = {q.msg : q \in Guardadas}
  BY DEF IInv, TypeOK, Historia
<1>2. /\ orden' \in Seq(Mensaje)
      /\ ToSet(orden') = ToSet(orden) \cup {tarea.msg} /\ SinRepetidos(orden')
      /\ \A a, b : Antes(orden', a, b) =>
                     Antes(orden, a, b) \/ (a \in ToSet(orden) /\ b = tarea.msg)
  BY <1>1, EntrarALaCola
<1>3. ~EnCurso'
  BY DEF EnCurso, Ocioso
<1>4. \A q \in Guardadas : q.id < p.id /\ q.msg # p.msg
  <2>1. ASSUME NEW q \in Guardadas PROVE q.id < p.id /\ q.msg # p.msg
    <3>1. q \in Registro /\ q.id <= id_particion
      BY GuardadasDistintas
    <3>2. q.id \in Nat /\ id_particion \in Nat
      BY <3>1 DEF Registro, IInv, TypeOK
    <3>3. q.msg \in ToSet(orden)
      BY <1>1
    <3> QED BY <1>1, <3>1, <3>2, <3>3
  <2> QED BY <2>1
<1>5. Historia'
  <2>1. ToSet(orden') = {q.msg : q \in Guardadas'}
    BY <1>1, <1>2
  <2>2. \A m \in ToSet(orden') : m <= publicados'
    <3>1. \A m \in ToSet(orden) : m <= publicados
      BY DEF IInv, Historia
    <3>2. publicados <= publicados
      BY DEF IInv, TypeOK
    <3> QED BY <1>1, <1>2, <3>1, <3>2
  <2> QED BY <1>2, <1>3, <2>1, <2>2 DEF Historia
<1>6. TamaniosJustos'
  <2>1. ASSUME NEW q \in Guardadas' PROVE Justa(q)'
    <3>1. CASE q \in Guardadas
      <4>1. Justa(q)
        BY <3>1 DEF IInv, TamaniosJustos
      <4> QED BY <4>1, JustaTambien
    <3>2. CASE q = p
      <4>1. Justa(p)
        BY DEF IInv, TamaniosJustos, Justa
      <4> QED BY <3>2, <4>1, JustaTambien
    <3> QED BY <3>1, <3>2
  <2>2. \A m \in 1..publicados' : medida'[m] \in config'.tamanios
    BY DEF IInv, TamaniosJustos
  <2> QED BY <1>3, <2>1, <2>2 DEF TamaniosJustos
<1>7. Turnos'
  <2> SUFFICES ASSUME NEW a \in Mensaje, NEW b \in Mensaje, Antes(orden', a, b), b \notin perdidas,
                      NEW x \in Guardadas', NEW y \in Guardadas', x.msg = a, y.msg = b
               PROVE  x.id < y.id
    BY DEF Turnos
  <2>1. CASE a \in ToSet(orden) /\ b = tarea.msg
    BY <1>1, <1>4, <2>1
  <2>2. CASE Antes(orden, a, b)
    <3>1. a \in ToSet(orden) /\ b \in ToSet(orden)
      BY <2>2 DEF Antes, ToSet
    <3>2. x \in Guardadas /\ y \in Guardadas
      BY <1>1, <3>1
    <3> QED BY <2>2, <3>2 DEF IInv, Turnos
  <2> QED BY <1>2, <2>1, <2>2
<1>8. Paciencia'
  BY <1>3 DEF Paciencia
<1> QED BY <1>2, <1>5, <1>6, <1>7, <1>8

\* The message of partition v is evicted.
LEMMA HistoriaAlLiberar ==
  ASSUME IInv, UNCHANGED <<config, publicados, medida>>, EnCurso, EnCurso',
         tarea'.msg = tarea.msg, tarea'.tamanio = tarea.tamanio,
         tarea'.liberadas = tarea.liberadas + 1, tarea'.cantElementos = tarea.cantElementos,
         NEW v \in Guardadas, Guardadas' = Guardadas \ {v},
         orden' = QuitarDe(orden, v.msg), perdidas' = perdidas \ {v.msg}
  PROVE  Historia' /\ TamaniosJustos' /\ Turnos' /\ Paciencia' /\ orden' \in Seq(Mensaje)
<1>1. /\ orden \in Seq(Mensaje) /\ SinRepetidos(orden) /\ v.msg \in ToSet(orden)
      /\ ToSet(orden) = {q.msg : q \in Guardadas}
  BY DEF IInv, TypeOK, Historia
<1>2. /\ orden' \in Seq(Mensaje) /\ Len(orden') = Len(orden) - 1
      /\ ToSet(orden') = ToSet(orden) \ {v.msg} /\ SinRepetidos(orden')
      /\ \A a, b : Antes(orden', a, b) => Antes(orden, a, b)
  BY <1>1, QuitarDePuntual
<1>3. Historia'
  <2>1. ToSet(orden') = {q.msg : q \in Guardadas'}
    BY <1>1, <1>2, GuardadasDistintas
  <2> QED BY <1>2, <2>1 DEF IInv, Historia
<1>4. TamaniosJustos'
  <2>1. ASSUME NEW q \in Guardadas' PROVE Justa(q)'
    <3>1. Justa(q)
      BY DEF IInv, TamaniosJustos
    <3> QED BY <3>1, JustaTambien
  <2>2. (tarea.tamanio = TamanioPedido(medida[tarea.msg]))'
    <3>1. tarea.tamanio = TamanioPedido(medida[tarea.msg])
      BY DEF IInv, TamaniosJustos
    <3> QED BY <3>1
        DEF TamanioPedido, AlMenosElMinimo, TAMANO_MINIMO_PARTICION, ALGORITMO_MEMORIA
  <2> QED BY <2>1, <2>2 DEF IInv, TamaniosJustos
<1>5. Turnos'
  <2> SUFFICES ASSUME NEW a \in Mensaje, NEW b \in Mensaje, Antes(orden', a, b), b \notin perdidas',
                      NEW x \in Guardadas', NEW y \in Guardadas', x.msg = a, y.msg = b
               PROVE  x.id < y.id
    BY DEF Turnos
  <2>1. b # v.msg
    BY <1>2 DEF Antes, ToSet
  <2> QED BY <1>2, <2>1 DEF IInv, Turnos
<1>6. Paciencia'
  <2>1. /\ tarea.liberadas \in Nat /\ tarea.cantElementos \in Nat /\ Len(orden) \in Nat
        /\ tarea.liberadas + Len(orden) <= tarea.cantElementos
    BY <1>1, LenProperties DEF IInv, TypeOK, Paciencia
  <2> QED BY <1>2, <2>1 DEF Paciencia
<1> QED BY <1>2, <1>3, <1>4, <1>5, <1>6

\* The message of partition v is sent: w, the same partition, gets a new id.
LEMMA HistoriaAlUsar ==
  ASSUME IInv, UNCHANGED <<config, publicados, medida>>,
         tarea'.paso = tarea.paso, tarea'.msg = tarea.msg, tarea'.tamanio = tarea.tamanio,
         tarea'.liberadas = tarea.liberadas, tarea'.cantElementos = tarea.cantElementos,
         NEW v \in Guardadas, NEW w, Guardadas' = (Guardadas \ {v}) \cup {w},
         w.msg = v.msg, w.size = v.size, w.id = id_particion',
         id_particion' \in Nat, id_particion < id_particion',
         orden' = Append(QuitarDe(orden, v.msg), v.msg), perdidas' = perdidas \ {v.msg}
  PROVE  Historia' /\ TamaniosJustos' /\ Turnos' /\ Paciencia' /\ orden' \in Seq(Mensaje)
<1>1. /\ orden \in Seq(Mensaje) /\ SinRepetidos(orden) /\ v.msg \in ToSet(orden)
      /\ ToSet(orden) = {q.msg : q \in Guardadas}
  BY DEF IInv, TypeOK, Historia
<1>2. /\ orden' \in Seq(Mensaje) /\ Len(orden') = Len(orden)
      /\ ToSet(orden') = ToSet(orden) /\ SinRepetidos(orden')
      /\ \A a, b : Antes(orden', a, b) =>
           (Antes(orden, a, b) /\ b # v.msg /\ a # v.msg)
           \/ (a \in ToSet(orden) /\ a # v.msg /\ b = v.msg)
  BY <1>1, PasarAlFinal
<1>3. EnCurso' = EnCurso
  BY DEF EnCurso
<1>4. Historia'
  <2>1. {q.msg : q \in Guardadas'} = {q.msg : q \in Guardadas}
    OBVIOUS
  <2> QED BY <1>1, <1>2, <1>3, <2>1 DEF IInv, Historia
<1>5. TamaniosJustos'
  <2>1. ASSUME NEW q \in Guardadas' PROVE Justa(q)'
    <3>1. PICK x \in Guardadas : q.msg = x.msg /\ q.size = x.size
      OBVIOUS
    <3>2. Justa(x)
      BY DEF IInv, TamaniosJustos
    <3> QED BY <3>1, <3>2, JustaTambien
  <2>2. (EnCurso => tarea.tamanio = TamanioPedido(medida[tarea.msg]))'
    BY <1>3 DEF IInv, TamaniosJustos,
        TamanioPedido, AlMenosElMinimo, TAMANO_MINIMO_PARTICION, ALGORITMO_MEMORIA
  <2> QED BY <2>1, <2>2 DEF IInv, TamaniosJustos
<1>6. Turnos'
  <2> SUFFICES ASSUME NEW a \in Mensaje, NEW b \in Mensaje, Antes(orden', a, b), b \notin perdidas',
                      NEW x \in Guardadas', NEW y \in Guardadas', x.msg = a, y.msg = b
               PROVE  x.id < y.id
    BY DEF Turnos
  <2>1. CASE Antes(orden, a, b) /\ b # v.msg /\ a # v.msg
    BY <2>1 DEF IInv, Turnos
  <2>2. CASE a # v.msg /\ b = v.msg
    <3>1. x \in Guardadas /\ y = w
      BY <2>2, GuardadasDistintas
    <3>2. x.id <= id_particion /\ x \in Registro
      BY <3>1, GuardadasDistintas
    <3>3. x.id \in Nat /\ id_particion \in Nat
      BY <3>2 DEF Registro, IInv, TypeOK
    <3> QED BY <3>1, <3>2, <3>3
  <2> QED BY <1>2, <2>1, <2>2
<1>7. Paciencia'
  BY <1>2, <1>3 DEF IInv, Paciencia
<1> QED BY <1>2, <1>4, <1>5, <1>6, <1>7

\* A message is sent and its partition keeps its id.
LEMMA HistoriaSinEfecto ==
  ASSUME IInv, UNCHANGED <<config, publicados, medida, tarea>>, Guardadas' = Guardadas,
         NEW m \in ToSet(orden),
         orden' = Append(QuitarDe(orden, m), m), perdidas' = perdidas \cup {m}
  PROVE  Historia' /\ TamaniosJustos' /\ Turnos' /\ Paciencia' /\ orden' \in Seq(Mensaje)
<1>1. /\ orden \in Seq(Mensaje) /\ SinRepetidos(orden)
      /\ ToSet(orden) = {q.msg : q \in Guardadas}
  BY DEF IInv, TypeOK, Historia
<1>2. /\ orden' \in Seq(Mensaje) /\ Len(orden') = Len(orden)
      /\ ToSet(orden') = ToSet(orden) /\ SinRepetidos(orden')
      /\ \A a, b : Antes(orden', a, b) =>
           (Antes(orden, a, b) /\ b # m /\ a # m) \/ (a \in ToSet(orden) /\ a # m /\ b = m)
  BY <1>1, PasarAlFinal
<1>3. EnCurso' = EnCurso
  BY DEF EnCurso
<1>4. Historia'
  BY <1>1, <1>2, <1>3 DEF IInv, Historia
<1>5. TamaniosJustos'
  <2>1. ASSUME NEW q \in Guardadas' PROVE Justa(q)'
    <3>1. Justa(q)
      BY DEF IInv, TamaniosJustos
    <3> QED BY <3>1, JustaTambien
  <2>2. (EnCurso => tarea.tamanio = TamanioPedido(medida[tarea.msg]))'
    BY <1>3 DEF IInv, TamaniosJustos,
        TamanioPedido, AlMenosElMinimo, TAMANO_MINIMO_PARTICION, ALGORITMO_MEMORIA
  <2> QED BY <2>1, <2>2 DEF IInv, TamaniosJustos
<1>6. Turnos'
  BY <1>2 DEF IInv, Turnos
<1>7. Paciencia'
  BY <1>2, <1>3 DEF IInv, Paciencia
<1> QED BY <1>2, <1>4, <1>5, <1>6, <1>7

\* There are no more messages than partitions.
LEMMA MensajesYParticiones ==
  ASSUME IInv, tarea.apartadas = <<>>
  PROVE  Len(orden) <= Len(tabla)
<1>1. /\ tabla \in Seq(Registro) /\ orden \in Seq(Mensaje) /\ SinRepetidos(orden)
      /\ ToSet(orden) = {q.msg : q \in Guardadas} /\ Guardadas = Llenas(tabla)
  <2>1. Guardadas = Llenas(tabla)
    BY ListaVacia DEF Guardadas
  <2> QED BY <2>1, GuardadasDistintas DEF IInv, TypeOK, Historia
<1>2. Len(orden) \in Nat /\ Len(tabla) \in Nat
      /\ DOMAIN orden = 1..Len(orden) /\ DOMAIN tabla = 1..Len(tabla)
  BY <1>1, LenProperties
<1> DEFINE f == [j \in 1..Len(orden) |-> CHOOSE k \in 1..Len(tabla) : tabla[k].msg = orden[j]]
<1>3. ASSUME NEW j \in 1..Len(orden) PROVE f[j] \in 1..Len(tabla) /\ tabla[f[j]].msg = orden[j]
  <2>1. orden[j] \in ToSet(orden)
    BY <1>2 DEF ToSet
  <2>2. PICK p \in Llenas(tabla) : p.msg = orden[j]
    BY <1>1, <2>1
  <2>3. PICK k \in 1..Len(tabla) : p = tabla[k]
    BY <1>2 DEF Llenas, Ocupadas
  <2> QED BY <2>2, <2>3
<1>4. f \in [1..Len(orden) -> 1..Len(tabla)]
  BY <1>3
<1>5. \A i, j \in 1..Len(orden) : f[i] = f[j] => i = j
  <2> SUFFICES ASSUME NEW i \in 1..Len(orden), NEW j \in 1..Len(orden), f[i] = f[j] PROVE i = j
    OBVIOUS
  <2>1. orden[i] = orden[j]
    BY <1>3
  <2> QED BY <1>1, <1>2, <2>1 DEF SinRepetidos
<1> HIDE DEF f
<1> QED BY <1>2, <1>4, <1>5, Palomar

-----------------------------------------------------------------------------
(* What a step does to the messages in the memory *)

\* Nothing: each partition with a message keeps its id and its size.
MismaCache ==
  /\ \A p \in Guardadas' : \E q \in Guardadas : MismaFicha(p, q)
  /\ \A q \in Guardadas : \E p \in Guardadas' : MismaFicha(p, q)

\* The message being stored gets a partition, with an id greater than all.
EntraEnLaCache ==
  /\ id_particion' \in Nat /\ id_particion < id_particion'
  /\ \E p : Guardadas' = Guardadas \cup {p} /\ p.msg = tarea.msg /\ p.id = id_particion'

\* The partition of the victim is freed.
SaleDeLaCache ==
  LET v == tabla[tarea.victima]
  IN  /\ v \in Guardadas /\ Guardadas' = Guardadas \ {v}
      /\ orden' = QuitarDe(orden, v.msg)

\* The partition of m gets a new id, greater than all.
SeRenueva(m) ==
  /\ id_particion' \in Nat /\ id_particion < id_particion'
  /\ \E v \in Guardadas : \E w :
       /\ Guardadas' = (Guardadas \ {v}) \cup {w}
       /\ v.msg = m /\ w.msg = m /\ w.id = id_particion'

-----------------------------------------------------------------------------
(* Every action keeps the invariant *)

\* Between two stores, and while one searches, the whole list is in its place.
LEMMA ListaEntera ==
  ASSUME IInv, tarea.paso # "reponer"
  PROVE  /\ tabla \in Seq(Registro) /\ Cortada(tabla) /\ LlegaAlFinal(tabla)
         /\ Marcada(tabla) /\ Distintas(tabla) /\ IdsHasta(tabla, id_particion)
         /\ tarea.apartadas = <<>> /\ Guardadas = Llenas(tabla)
         /\ id_particion \in Nat /\ Len(tabla) \in Nat /\ DOMAIN tabla = 1..Len(tabla)
         /\ ALGORITMO_MEMORIA = "BS" => Alineada(tabla)
         /\ ALGORITMO_MEMORIA = "BS" \/ ALGORITMO_MEMORIA = "PARTICIONES"
         /\ ALGORITMO_MEMORIA = "PARTICIONES" /\ tarea.paso # "unir" => SinVecinasLibres(tabla)
<1>1. tarea.apartadas = <<>> /\ LlegaAlFinal(tabla)
  BY DEF IInv, Apartado
<1>2. Guardadas = Llenas(tabla)
  BY <1>1, ListaVacia DEF Guardadas
<1>3. tabla \in Seq(Registro)
  BY GuardadasDistintas
<1>4. ALGORITMO_MEMORIA = "BS" \/ ALGORITMO_MEMORIA = "PARTICIONES"
  BY ConstantesValidas DEF IInv, TypeOK, ALGORITMO_MEMORIA
<1>5. Len(tabla) \in Nat /\ DOMAIN tabla = 1..Len(tabla)
  BY <1>3, LenProperties
<1> QED BY <1>1, <1>2, <1>3, <1>4, <1>5 DEF IInv, TypeOK, Sana, Buddies, Libres

\* The whole list is in its place and no compaction is going on.
Entera ==
  /\ tabla \in Seq(Registro) /\ Cortada(tabla) /\ LlegaAlFinal(tabla)
  /\ Marcada(tabla) /\ Distintas(tabla) /\ IdsHasta(tabla, id_particion)
  /\ tarea.apartadas = <<>> /\ tarea.paso \notin {"reponer", "unir"}
  /\ ALGORITMO_MEMORIA = "BS" => Alineada(tabla)
  /\ ALGORITMO_MEMORIA = "PARTICIONES" => SinVecinasLibres(tabla)
  /\ tarea.paso = "compactar" => HayLibre(tabla)

ListaDelInvariante ==
  /\ tabla \in Seq(Particion) /\ Cortada(tabla) /\ Sana(tabla)
  /\ Apartado /\ Libres /\ Buddies
  /\ Guardadas = Llenas(tabla)

LEMMA ConListaEntera == Entera => ListaDelInvariante
<1> SUFFICES ASSUME Entera PROVE ListaDelInvariante
  OBVIOUS
<1> USE DEF Entera
<1>1. tabla \in Seq(Particion)
  BY EnLaMemoria
<1>2. Sana(tabla)
  BY DEF Sana
<1>3. Apartado /\ Guardadas = Llenas(tabla)
  BY ListaVacia DEF Apartado, Guardadas, Sana
<1> QED BY <1>1, <1>2, <1>3 DEF Libres, Buddies, ListaDelInvariante

LEMMA AlComenzar ==
  ASSUME IInv, config' = config, NEW n \in config.tamanios, guardarMensajeEnCache(n)
  PROVE  IInv' /\ MismaCache
<1>1. /\ tarea.paso = "ocioso" /\ publicados < MaxMensajes /\ publicados' = publicados + 1
      /\ medida' = [medida EXCEPT ![publicados + 1] = n]
      /\ UNCHANGED <<tabla, id_particion, usos, orden, perdidas>>
  BY DEF guardarMensajeEnCache
<1>2. /\ publicados \in Nat /\ MaxMensajes \in Nat /\ publicados + 1 \in Mensaje
      /\ publicados' \in 0..MaxMensajes
  BY <1>1, ConstantesValidas DEF IInv, TypeOK, Mensaje
<1>3. n \in Nat /\ TamanioPedido(n) \in Nat
  <2>1. n \in Nat /\ config \in Configuraciones
    BY ConstantesValidas DEF IInv, TypeOK
  <2> QED BY <2>1, TamanioPedidoAlcanza
<1>4. /\ tarea'.paso = "buscar" /\ tarea'.msg = publicados + 1
      /\ tarea'.tamanio = TamanioPedido(n) /\ tarea'.liberadas = 0
      /\ tarea'.cantElementos = Len(tabla) /\ tarea'.apartadas = <<>>
      /\ tarea' = [paso |-> "buscar", msg |-> publicados + 1, tamanio |-> TamanioPedido(n),
                   liberadas |-> 0, cantElementos |-> Len(tabla), apartadas |-> <<>>,
                   victima |-> 0, hasta |-> 0, renovada |-> FALSE, usoNulo |-> FALSE]
  BY DEF guardarMensajeEnCache, Ocioso
<1>5. /\ tabla \in Seq(Registro) /\ Cortada(tabla) /\ LlegaAlFinal(tabla)
      /\ Marcada(tabla) /\ Distintas(tabla) /\ IdsHasta(tabla, id_particion)
      /\ tarea.apartadas = <<>> /\ Guardadas = Llenas(tabla)
      /\ Len(tabla) \in Nat
      /\ ALGORITMO_MEMORIA = "BS" => Alineada(tabla)
      /\ ALGORITMO_MEMORIA = "PARTICIONES" => SinVecinasLibres(tabla)
  BY <1>1, ListaEntera
<1>6. ALGORITMO_MEMORIA' = ALGORITMO_MEMORIA
  BY DEF ALGORITMO_MEMORIA
<1>7. /\ tabla' \in Seq(Particion) /\ Sana(tabla)' /\ Apartado' /\ Libres' /\ Buddies'
      /\ Guardadas' = Llenas(tabla') /\ Cortada(tabla)'
  <2>1. /\ (tabla \in Seq(Registro))' /\ Cortada(tabla)' /\ LlegaAlFinal(tabla)'
        /\ Marcada(tabla)' /\ Distintas(tabla)' /\ IdsHasta(tabla, id_particion)'
        /\ (ALGORITMO_MEMORIA = "BS" => Alineada(tabla))'
        /\ (ALGORITMO_MEMORIA = "PARTICIONES" => SinVecinasLibres(tabla))'
    BY <1>1, <1>5, <1>6
  <2>2. tarea'.apartadas = <<>> /\ tarea'.paso \notin {"reponer", "unir", "compactar"}
    BY <1>4
  <2>3. Entera'
    BY <2>1, <2>2 DEF Entera
  <2>4. ListaDelInvariante'
    BY <2>3, ConListaEntera, PTL
  <2> QED BY <2>4 DEF ListaDelInvariante
<1>8. Guardadas' = Guardadas
  BY <1>1, <1>5, <1>7
<1>9. TypeOK'
  <2>1. tarea' \in Tareas
    BY <1>2, <1>3, <1>4, <1>5, EmptySeq DEF Pasos
  <2>2. medida' \in [Mensaje -> config'.tamanios \cup {0}]
    BY <1>1 DEF IInv, TypeOK
  <2> QED BY <1>1, <1>2, <1>7, <2>1, <2>2 DEF IInv, TypeOK
<1>10. PasoCoherente'
  BY <1>4 DEF PasoCoherente
<1>11. \A m \in ToSet(orden) : m \in Nat /\ m <= publicados /\ m # publicados + 1
  BY <1>2, LenProperties DEF IInv, TypeOK, Historia, ToSet, Mensaje
<1>12. Historia'
  <2>1. publicados' \notin ToSet(orden') /\ \A m \in ToSet(orden') : m <= publicados'
    BY <1>1, <1>2, <1>11
  <2> QED BY <1>1, <1>2, <1>4, <1>8, <2>1 DEF IInv, Historia
<1>13. TamaniosJustos'
  <2>1. ASSUME NEW p \in Guardadas' PROVE Justa(p)'
    <3>1. p.msg \in ToSet(orden) /\ Justa(p) /\ p.msg \in Mensaje
      BY <1>8, GuardadasDistintas DEF IInv, Historia, TamaniosJustos
    <3>2. medida'[p.msg] = medida[p.msg]
      BY <1>1, <1>11, <3>1 DEF IInv, TypeOK
    <3> QED BY <3>1, <3>2, JustaTambien
  <2>2. (tarea.tamanio = TamanioPedido(medida[tarea.msg]))'
    <3>1. medida'[tarea'.msg] = n
      BY <1>1, <1>2, <1>4 DEF IInv, TypeOK
    <3> QED BY <1>4, <3>1
        DEF TamanioPedido, AlMenosElMinimo, TAMANO_MINIMO_PARTICION, ALGORITMO_MEMORIA
  <2>3. ASSUME NEW m \in 1..publicados' PROVE medida'[m] \in config'.tamanios
    <3>1. m \in 1..publicados \/ m = publicados + 1
      BY <1>1, <1>2
    <3>2. m \in 1..publicados => m # publicados + 1 /\ m \in Mensaje
      BY <1>1, <1>2 DEF Mensaje
    <3> QED BY <1>1, <1>2, <3>1, <3>2 DEF IInv, TypeOK, TamaniosJustos
  <2> QED BY <2>1, <2>2, <2>3 DEF TamaniosJustos
<1>14. Turnos'
  BY <1>1, <1>8 DEF IInv, Turnos
<1>15. Paciencia'
  <2>1. Len(orden) <= Len(tabla) /\ Len(orden) \in Nat
    BY <1>5, MensajesYParticiones, LenProperties DEF IInv, TypeOK
  <2> QED BY <1>1, <1>4, <2>1 DEF Paciencia
<1>16. MismaCache
  BY <1>8 DEF MismaCache, MismaFicha
<1> QED BY <1>7, <1>9, <1>10, <1>12, <1>13, <1>14, <1>15, <1>16 DEF IInv

LEMMA TareaTerminada ==
  ASSUME tarea' = Ocioso
  PROVE  /\ tarea'.paso = "ocioso" /\ tarea'.apartadas = <<>> /\ ~EnCurso' /\ PasoCoherente'
         /\ tarea' \in Tareas
BY EmptySeq DEF Ocioso, EnCurso, Pasos, PasoCoherente

\* The message goes into the free partition i of t, a list with the same messages.
LEMMA AlGuardarEn ==
  ASSUME IInv, config' = config, tarea.paso \in {"buscar", "partir"},
         NEW t \in Seq(Registro), NEW i \in 1..Len(t), NEW ids \in Nat, Guardar(t, i, ids),
         Cortada(t), LlegaAlFinal(t), Marcada(t), Distintas(t), IdsHasta(t, id_particion + ids),
         Llenas(t) = Guardadas, ~t[i].ocupada, tarea.tamanio <= t[i].size,
         ALGORITMO_MEMORIA = "PARTICIONES" => t[i].size = tarea.tamanio /\ SinVecinasSalvo(t, i),
         ALGORITMO_MEMORIA = "BS" => Alineada(t)
  PROVE  IInv' /\ EntraEnLaCache
<1> DEFINE n == id_particion + ids + 1
           p == [t[i] EXCEPT !.ocupada = TRUE, !.msg = tarea.msg, !.id = n]
           u == [t EXCEPT ![i] = p]
<1>1. /\ tabla' = u /\ id_particion' = n /\ orden' = Append(orden, tarea.msg)
      /\ tarea' = Ocioso /\ UNCHANGED <<publicados, usos, medida, perdidas>>
  BY DEF Guardar, guardarMensaje
<1>2. id_particion \in Nat /\ n \in Nat /\ id_particion < n /\ id_particion + ids \in Nat
      /\ id_particion + ids <= n
  BY DEF IInv, TypeOK
<1>3. EnCurso /\ tarea.msg \in Mensaje /\ tarea.msg # SinMensaje
  BY DEF EnCurso, IInv, Historia, Mensaje, SinMensaje
<1>4. t[i] \in Registro
  BY ElementOfSeq
<1>5. /\ p \in Registro /\ p.ini = t[i].ini /\ p.fin = t[i].fin /\ p.size = t[i].size
      /\ p.ocupada = TRUE /\ p.msg = tarea.msg /\ p.id = n
  BY <1>2, <1>3, <1>4 DEF Registro
<1> HIDE DEF p
<1>6. /\ u \in Seq(Registro) /\ Len(u) = Len(t) /\ DOMAIN u = DOMAIN t
      /\ u[i] = p /\ \A k \in DOMAIN t : k # i => u[k] = t[k]
      /\ Cortada(u) /\ LlegaAlFinal(u) /\ Marcada(u)
      /\ IdsHasta(u, n)
  <2>1. /\ u \in Seq(Registro) /\ Len(u) = Len(t) /\ DOMAIN u = DOMAIN t
        /\ u[i] = p /\ \A k \in DOMAIN t : k # i => u[k] = t[k]
        /\ Cortada(t) => Cortada(u)
        /\ LlegaAlFinal(t) => LlegaAlFinal(u)
        /\ Marcada(t) /\ (p.ocupada <=> p.msg # SinMensaje) => Marcada(u)
        /\ \A a, b : IdsHasta(t, a) /\ a \in Nat /\ b \in Nat /\ a <= b /\ p.id <= b
                       => IdsHasta(u, b)
    BY <1>5, CambiadaPuntual
  <2>2. p.id <= n
    BY <1>2, <1>5
  <2> QED BY <1>2, <1>3, <1>5, <2>1, <2>2
<1> HIDE DEF u, n
<1>7. \A q \in Llenas(t) : q.msg # tarea.msg
  <2>1. \A q \in Guardadas : q.msg \in ToSet(orden)
    BY DEF IInv, Historia
  <2> QED BY <1>3, <2>1 DEF IInv, Historia
<1>8. Llenas(u) = Llenas(t) \cup {p} /\ Distintas(u)
  <2>1. ~t[i].ocupada /\ u[i].ocupada =>
              /\ Llenas(u) = Llenas(t) \cup {u[i]}
              /\ Distintas(t) /\ (\A q \in Llenas(t) : q.msg # u[i].msg) => Distintas(u)
    BY <1>6, LlenasAlCambiar
  <2> QED BY <1>5, <1>6, <1>7, <2>1
<1>9. ALGORITMO_MEMORIA = "PARTICIONES" => SinVecinasLibres(u)
  <2> SUFFICES ASSUME ALGORITMO_MEMORIA = "PARTICIONES", NEW k \in 1..(Len(t) - 1)
               PROVE  u[k].ocupada \/ u[k+1].ocupada
    BY <1>6 DEF SinVecinasLibres
  <2>1. Len(t) \in Nat
    BY LenProperties
  <2>2. k \in 1..Len(t) /\ k + 1 \in 1..Len(t)
    BY <2>1
  <2>3. CASE k = i
    BY <1>5, <1>6, <2>3
  <2>4. CASE k = i - 1
    <3>1. k + 1 = i
      BY <2>4
    <3> QED BY <1>5, <1>6, <3>1
  <2>5. CASE k # i /\ k # i - 1
    <3>1. t[k].ocupada \/ t[k+1].ocupada
      BY <2>5 DEF SinVecinasSalvo
    <3>2. k + 1 # i
      BY <2>5
    <3>3. DOMAIN t = 1..Len(t)
      BY LenProperties
    <3> QED BY <1>6, <2>2, <2>5, <3>1, <3>2, <3>3
  <2> QED BY <2>3, <2>4, <2>5
<1>10. ALGORITMO_MEMORIA = "BS" => Alineada(u)
  <2> SUFFICES ASSUME ALGORITMO_MEMORIA = "BS", NEW k \in DOMAIN t PROVE EsBuddy(u[k])
    BY <1>6 DEF Alineada
  <2>1. EsBuddy(t[k])
    BY DEF Alineada
  <2> QED BY <1>5, <1>6, <2>1 DEF EsBuddy
<1>11. ALGORITMO_MEMORIA' = ALGORITMO_MEMORIA
  BY DEF ALGORITMO_MEMORIA
<1>12. /\ tarea'.paso = "ocioso" /\ tarea'.apartadas = <<>> /\ ~EnCurso' /\ PasoCoherente'
       /\ tarea' \in Tareas
  BY <1>1, TareaTerminada
<1>13. Entera'
  BY <1>1, <1>6, <1>8, <1>9, <1>10, <1>11, <1>12 DEF Entera
<1>14. ListaDelInvariante'
  BY <1>13, ConListaEntera, PTL
<1>15. Guardadas' = Guardadas \cup {p}
  BY <1>1, <1>8, <1>14 DEF ListaDelInvariante
<1>16. Historia' /\ TamaniosJustos' /\ Turnos' /\ Paciencia' /\ orden' \in Seq(Mensaje)
  <2>1. /\ UNCHANGED <<config, publicados, medida, perdidas>> /\ p.id = id_particion'
        /\ id_particion' \in Nat /\ id_particion < id_particion'
    BY <1>1, <1>2, <1>5 DEF n
  <2> QED BY <1>1, <1>3, <1>5, <1>15, <2>1, HistoriaAlGuardar
<1>17. TypeOK'
  BY <1>1, <1>2, <1>12, <1>14, <1>16 DEF IInv, TypeOK, ListaDelInvariante, n
<1>18. EntraEnLaCache
  BY <1>1, <1>2, <1>5, <1>15 DEF EntraEnLaCache, n
<1> QED BY <1>12, <1>14, <1>16, <1>17, <1>18 DEF IInv, ListaDelInvariante

LEMMA AlGuardarBS ==
  ASSUME IInv, config' = config, GuardarBS
  PROVE  IInv' /\ EntraEnLaCache
<1> DEFINE n == tarea.tamanio
           i == getParticionBS(tabla, n)
<1>1. /\ ALGORITMO_MEMORIA = "BS" /\ tarea.paso \in {"buscar", "partir"}
      /\ hayParticionesCandidatasBS(n) /\ Guardar(tabla, i, 0)
  BY DEF GuardarBS, Buscando
<1>2. /\ tabla \in Seq(Registro) /\ Cortada(tabla) /\ LlegaAlFinal(tabla)
      /\ Marcada(tabla) /\ Distintas(tabla) /\ IdsHasta(tabla, id_particion)
      /\ Guardadas = Llenas(tabla) /\ id_particion \in Nat /\ DOMAIN tabla = 1..Len(tabla)
      /\ Alineada(tabla)
  BY <1>1, ListaEntera
<1>3. Candidatas(tabla, n) # {}
  <2>1. n \in Nat
    BY DEF IInv, TypeOK
  <2>2. PICK k \in DOMAIN tabla : ~tabla[k].ocupada /\ n = tabla[k].size
    BY <1>1 DEF hayParticionesCandidatasBS, particionCandidataBS
  <2>3. n <= tabla[k].size
    BY <2>1, <2>2
  <2> QED BY <2>2, <2>3 DEF Candidatas, particionCandidata
<1>4. i \in Candidatas(tabla, n)
  <2>1. i = getParticionFirstFit(tabla, n)
    BY DEF getParticionBS, getParticionFirstFit
  <2> QED BY <1>2, <1>3, <2>1, PrimeraCandidata
<1>5. i \in 1..Len(tabla) /\ ~tabla[i].ocupada /\ n <= tabla[i].size
  BY <1>2, <1>4 DEF Candidatas, particionCandidata
<1>6. IdsHasta(tabla, id_particion + 0) /\ 0 \in Nat
  <2>1. id_particion + 0 = id_particion
    BY <1>2
  <2> QED BY <1>2, <2>1
<1> HIDE DEF i
<1> QED BY <1>1, <1>2, <1>5, <1>6, AlGuardarEn

\* What a store asks for is never nothing, nor less than the message or the minimum.
LEMMA Pedido ==
  ASSUME IInv, NEW m \in Mensaje
  PROVE  /\ medida[m] \in Nat /\ TamanioPedido(medida[m]) \in Nat \ {0}
         /\ medida[m] <= TamanioPedido(medida[m])
         /\ TAMANO_MINIMO_PARTICION <= TamanioPedido(medida[m])
<1>1. config \in Configuraciones /\ medida[m] \in Nat
  BY ConstantesValidas DEF IInv, TypeOK
<1>2. TAMANO_MINIMO_PARTICION \in Nat /\ 1 <= TAMANO_MINIMO_PARTICION
  BY <1>1, ConstantesValidas DEF TAMANO_MINIMO_PARTICION
<1> DEFINE x == TamanioPedido(medida[m])
<1>3. x \in Nat /\ medida[m] <= x /\ TAMANO_MINIMO_PARTICION <= x
  BY <1>1, TamanioPedidoAlcanza
<1> HIDE DEF x
<1>4. x # 0
  BY <1>2, <1>3
<1> QED BY <1>1, <1>3, <1>4 DEF x

LEMMA PedidoPositivo ==
  ASSUME IInv, EnCurso
  PROVE  tarea.tamanio \in Nat \ {0}
<1>1. tarea.msg \in Mensaje
  BY DEF IInv, Historia
<1> QED BY <1>1, Pedido DEF IInv, TamaniosJustos

\* p and q are free and share out the room of r.
Partes(r, p, q) ==
  /\ p \in Registro /\ p.ocupada = FALSE /\ p.msg = SinMensaje
  /\ q \in Registro /\ q.ocupada = FALSE /\ q.msg = SinMensaje
  /\ p.ini = r.ini /\ 0 < p.size /\ p.fin = p.ini + p.size - 1
  /\ q.ini = p.fin + 1 /\ 0 < q.size /\ q.fin = q.ini + q.size - 1 /\ q.fin = r.fin

LEMMA PartesCreadas ==
  ASSUME NEW r \in Registro, r.fin = r.ini + r.size - 1, NEW a \in Nat, NEW b \in Nat,
         NEW s \in Int, NEW s2 \in Int, 0 < s, 0 < s2, s + s2 = r.size,
         NEW x, x = r.ini + s
  PROVE  LET p == crearParticion(r.ini, s, a)
             q == crearParticion(x, s2, b)
         IN  /\ Partes(r, p, q) /\ p.size = s /\ q.size = s2 /\ q.ini = x
             /\ p.id = a /\ q.id = b
<1> DEFINE c == r.ini
           p == crearParticion(c, s, a)
           q == crearParticion(x, s2, b)
<1>1. c \in Int /\ x \in Int /\ x = c + s /\ r.fin = c + (s + s2) - 1
  BY DEF Registro
<1> HIDE DEF c
<1>2. /\ p \in Registro /\ p.ini = c /\ p.fin = c + s - 1 /\ p.size = s
      /\ p.ocupada = FALSE /\ p.id = a /\ p.msg = SinMensaje
  BY <1>1 DEF crearParticion, Registro
<1>3. /\ q \in Registro /\ q.ini = x /\ q.fin = x + s2 - 1 /\ q.size = s2
      /\ q.ocupada = FALSE /\ q.id = b /\ q.msg = SinMensaje
  BY <1>1 DEF crearParticion, Registro
<1>4. x = (c + s - 1) + 1 /\ x + s2 - 1 = r.fin
  BY <1>1
<1> HIDE DEF p, q
<1>5. Partes(r, p, q)
  BY <1>2, <1>3, <1>4 DEF Partes, c
<1> QED BY <1>2, <1>3, <1>5 DEF c, p, q

LEMMA IdsHastaMas ==
  ASSUME NEW t \in Seq(Registro), NEW m \in Nat, NEW n \in Nat, m <= n, IdsHasta(t, m)
  PROVE  IdsHasta(t, n)
<1>1. ASSUME NEW k \in DOMAIN t PROVE t[k].id <= n
  <2>1. k \in 1..Len(t)
    BY LenProperties
  <2>2. t[k] \in Registro
    BY <2>1, ElementOfSeq
  <2>3. t[k].id \in Nat /\ t[k].id <= m
    BY <2>2 DEF Registro, IdsHasta
  <2> QED BY <2>3
<1> QED BY <1>1 DEF IdsHasta

\* A free partition of t is cut in two.
LEMMA AlCortar ==
  ASSUME NEW t \in Seq(Registro), NEW i \in 1..Len(t), NEW p, NEW q, Partes(t[i], p, q),
         NEW n, p.id <= n, q.id <= n, IdsHasta(t, n),
         Cortada(t), LlegaAlFinal(t), Marcada(t), Distintas(t), ~t[i].ocupada
  PROVE  LET u == Reemplazar(t, i, <<p, q>>)
         IN
         /\ Partida(t, u, i, p, q)
         /\ u \in Seq(Registro) /\ Len(u) = Len(t) + 1 /\ u[i] = p
         /\ Cortada(u) /\ LlegaAlFinal(u) /\ Marcada(u) /\ Distintas(u) /\ IdsHasta(u, n)
         /\ Llenas(u) = Llenas(t)
<1> DEFINE u == Reemplazar(t, i, <<p, q>>)
<1>1. /\ p \in Registro /\ p.ocupada = FALSE /\ p.msg = SinMensaje
      /\ q \in Registro /\ q.ocupada = FALSE /\ q.msg = SinMensaje
      /\ p.ini = t[i].ini /\ 0 < p.size /\ p.fin = p.ini + p.size - 1
      /\ q.ini = p.fin + 1 /\ 0 < q.size /\ q.fin = q.ini + q.size - 1 /\ q.fin = t[i].fin
  BY DEF Partes
<1>2. Partida(t, u, i, p, q)
  BY <1>1, ReemplazarDosPuntual
<1> HIDE DEF u
<1>3. Cortada(u) /\ LlegaAlFinal(u)
  BY <1>1, <1>2, PartidaCortada
<1>4. /\ Llenas(u) = Llenas(t) /\ Distintas(u) /\ Marcada(u) /\ IdsHasta(u, n)
  BY <1>1, <1>2, PartidaMismasLlenas
<1> QED BY <1>2, <1>3, <1>4 DEF Partida, u

\* Only the partition that has just been cut may have a free neighbour.
LEMMA CortadaSeparaLibres ==
  ASSUME NEW t \in Seq(Registro), NEW i \in 1..Len(t), NEW u, NEW p, NEW q,
         Partida(t, u, i, p, q), ~t[i].ocupada, SinVecinasLibres(t)
  PROVE  SinVecinasSalvo(u, i)
<1>1. Len(t) \in Nat /\ Len(u) = Len(t) + 1
  BY LenProperties DEF Partida
<1> SUFFICES ASSUME NEW k \in 1..Len(t), k # i - 1, k # i PROVE u[k].ocupada \/ u[k+1].ocupada
  <2>1. Len(u) - 1 = Len(t)
    BY <1>1
  <2> QED BY <2>1 DEF SinVecinasSalvo
<1>2. k < i - 1 \/ k = i + 1 \/ k > i + 1
  BY <1>1
<1>3. CASE k < i - 1
  <2>1. k \in 1..(i - 1) /\ k + 1 \in 1..(i - 1) /\ k \in 1..(Len(t) - 1)
    BY <1>1, <1>3
  <2>2. u[k] = t[k] /\ u[k+1] = t[k+1]
    BY <2>1 DEF Partida
  <2> QED BY <2>1, <2>2 DEF SinVecinasLibres
<1>4. CASE k = i + 1
  <2>1. i \in 1..(Len(t) - 1) /\ i + 1 \in (i + 1)..Len(t)
    BY <1>1, <1>4
  <2>2. u[(i+1)+1] = t[i+1] /\ t[i+1].ocupada
    BY <2>1 DEF Partida, SinVecinasLibres
  <2> QED BY <1>4, <2>2
<1>5. CASE k > i + 1
  <2>1. /\ k - 1 \in (i + 1)..Len(t) /\ k \in (i + 1)..Len(t) /\ (k - 1) + 1 = k
        /\ k - 1 \in 1..(Len(t) - 1)
    BY <1>1, <1>5
  <2>2. u[k] = t[k-1] /\ u[k+1] = t[k]
    BY <2>1 DEF Partida
  <2>3. t[k-1].ocupada \/ t[k].ocupada
    BY <2>1 DEF SinVecinasLibres
  <2> QED BY <2>2, <2>3
<1> QED BY <1>2, <1>3, <1>4, <1>5

LEMMA AlGuardarDinamica ==
  ASSUME IInv, config' = config, GuardarDinamica
  PROVE  IInv' /\ EntraEnLaCache
<1> DEFINE n == tarea.tamanio
           i == getParticionLibre(tabla, n)
           u == generarParticionDinamica(tabla, i, n)
<1>1. /\ ALGORITMO_MEMORIA = "PARTICIONES" /\ tarea.paso = "buscar"
      /\ hayParticionesCandidatas(n)
      /\ tabla[i].size = n => Guardar(tabla, i, 0)
      /\ tabla[i].size # n => Guardar(u, getParticionLibre(u, n), 2)
  BY DEF GuardarDinamica, Buscando
<1>2. /\ tabla \in Seq(Registro) /\ Cortada(tabla) /\ LlegaAlFinal(tabla)
      /\ Marcada(tabla) /\ Distintas(tabla) /\ IdsHasta(tabla, id_particion)
      /\ Guardadas = Llenas(tabla) /\ id_particion \in Nat
      /\ SinVecinasLibres(tabla)
  BY <1>1, ListaEntera
<1>3. DOMAIN tabla = 1..Len(tabla) /\ ALGORITMO_MEMORIA # "BS"
  BY <1>1, ListaEntera
<1>4. Candidatas(tabla, n) # {}
  BY <1>1 DEF hayParticionesCandidatas, Candidatas
<1>5. i \in Candidatas(tabla, n)
  BY <1>2, <1>4, LibreElegida
<1>6. i \in 1..Len(tabla) /\ ~tabla[i].ocupada /\ n <= tabla[i].size
  BY <1>3, <1>5 DEF Candidatas, particionCandidata
<1>7. n \in Nat \ {0}
  BY <1>1, PedidoPositivo DEF EnCurso
<1>8. tabla[i].size \in Int /\ tabla[i].ini \in Int
  <2>1. tabla[i] \in Registro
    BY <1>2, <1>6, ElementOfSeq
  <2> QED BY <2>1 DEF Registro
<1>9. n \in Nat /\ n \in Int /\ 0 < n
  BY <1>7
<1>10. CASE tabla[i].size = n
  <2>1. IdsHasta(tabla, id_particion + 0) /\ 0 \in Nat
    <3>1. id_particion + 0 = id_particion
      BY <1>2
    <3> QED BY <1>2, <3>1
  <2>2. SinVecinasSalvo(tabla, i)
    BY <1>2 DEF SinVecinasLibres, SinVecinasSalvo
  <2> HIDE DEF i
  <2> QED BY <1>1, <1>2, <1>3, <1>6, <1>10, <2>1, <2>2, AlGuardarEn
<1>11. CASE tabla[i].size # n
  <2> DEFINE a == id_particion + 1
             b == id_particion + 2
             s == tabla[i].size - n
             p == crearParticion(tabla[i].ini, n, a)
             x == tabla[i].ini + n
             q == crearParticion(x, s, b)
  <2>1. 0 < s /\ n + s = tabla[i].size /\ s \in Int
    BY <1>6, <1>8, <1>9, <1>11
  <2>2. a \in Nat /\ b \in Nat /\ id_particion <= b /\ a <= b /\ b <= b
    BY <1>2
  <2>13. IdsHasta(tabla, b) /\ x = tabla[i].ini + n
    BY <1>2, <2>2, IdsHastaMas
  <2>3. u = Reemplazar(tabla, i, <<p, q>>)
    BY DEF generarParticionDinamica
  <2>4. tabla[i] \in Registro /\ tabla[i].fin = tabla[i].ini + tabla[i].size - 1
    BY <1>2, <1>3, <1>6, ElementOfSeq DEF Cortada
  <2> HIDE DEF i, u, a, b, n, s, x
  <2>5. Partes(tabla[i], p, q) /\ p.size = n /\ p.id = a /\ q.id = b
    <3> DEFINE r == tabla[i]
    <3>1. /\ r \in Registro /\ r.fin = r.ini + r.size - 1 /\ x = r.ini + n
          /\ n \in Int /\ s \in Int /\ 0 < n /\ 0 < s /\ n + s = r.size
          /\ a \in Nat /\ b \in Nat
          /\ p = crearParticion(r.ini, n, a) /\ q = crearParticion(x, s, b)
      BY <1>9, <2>1, <2>2, <2>4, <2>13
    <3> HIDE DEF r, p, q
    <3>2. Partes(r, p, q) /\ p.size = n /\ p.id = a /\ q.id = b
      BY <3>1, PartesCreadas
    <3> QED BY <3>2 DEF r
  <2> HIDE DEF p, q
  <2>6. /\ Partida(tabla, u, i, p, q)
        /\ u \in Seq(Registro) /\ Len(u) = Len(tabla) + 1 /\ u[i] = p
        /\ Cortada(u) /\ LlegaAlFinal(u) /\ Marcada(u) /\ Distintas(u) /\ IdsHasta(u, b)
        /\ Llenas(u) = Llenas(tabla)
    <3>1. p.id <= b /\ q.id <= b
      BY <2>2, <2>5
    <3> QED BY <1>2, <1>6, <2>3, <2>5, <2>13, <3>1, AlCortar
  <2>7. SinVecinasSalvo(u, i)
    BY <1>2, <1>6, <2>6, CortadaSeparaLibres
  <2>8. ~p.ocupada
    BY <2>5 DEF Partes
  <2>9. getParticionLibre(u, n) = i
    <3>1. i = getParticionLibre(tabla, n)
      BY DEF i, n
    <3>2. Candidatas(tabla, n) # {}
      BY <1>4 DEF n
    <3>3. u \in Seq(Registro) /\ Cortada(u)
      BY <2>6
    <3> QED BY <1>2, <1>9, <1>11, <2>5, <2>6, <2>8, <3>1, <3>2, <3>3, LibreTrasPartir
  <2>10. i \in 1..Len(u) /\ 2 \in Nat
    BY <1>2, <1>6, <2>6, LenProperties
  <2>11. Guardar(u, i, 2)
    BY <1>1, <1>11, <2>9
  <2>12. n = tarea.tamanio /\ n <= n /\ b = id_particion + 2
    BY <1>9 DEF n, b
  <2> QED BY <1>1, <1>2, <1>3, <2>5, <2>6, <2>7, <2>8, <2>10, <2>11, <2>12, AlGuardarEn
<1> QED BY <1>10, <1>11

\* A halving round: what it asks for still fits in each half.
LEMMA AlPartirBS ==
  ASSUME IInv, config' = config, PartirBS
  PROVE  IInv' /\ MismaCache
<1> DEFINE n == tarea.tamanio
           i == getParticionFirstFit(tabla, n)
           r == tabla[i]
           m == r.size \div 2
           a == id_particion + 2
           b == id_particion + 4
           x == r.ini + m
           p == crearParticion(r.ini, m, a)
           q == crearParticion(x, m, b)
           u == Reemplazar(tabla, i, <<p, q>>)
<1>1. /\ ALGORITMO_MEMORIA = "BS" /\ tarea.paso \in {"buscar", "partir"}
      /\ ~hayParticionesCandidatasBS(n)
      /\ tabla' = generarParticionBS(tabla, i) /\ id_particion' = b
      /\ tarea' = [tarea EXCEPT !.paso = "partir"]
      /\ UNCHANGED <<publicados, usos, medida, orden, perdidas>>
  BY DEF PartirBS, Buscando
<1>2. /\ tabla \in Seq(Registro) /\ Cortada(tabla) /\ LlegaAlFinal(tabla)
      /\ Marcada(tabla) /\ Distintas(tabla) /\ IdsHasta(tabla, id_particion)
      /\ Guardadas = Llenas(tabla) /\ tarea.apartadas = <<>> /\ Alineada(tabla)
  BY <1>1, ListaEntera
<1>3. DOMAIN tabla = 1..Len(tabla) /\ Len(tabla) \in Nat /\ id_particion \in Nat
  BY <1>1, ListaEntera
<1>4. Candidatas(tabla, n) # {}
  <2>1. CASE tarea.paso = "buscar"
    BY <2>1 DEF PartirBS, hayParticionesCandidatas, Candidatas
  <2>2. CASE tarea.paso = "partir"
    BY <2>2 DEF IInv, PasoCoherente
  <2> QED BY <1>1, <2>1, <2>2
<1>5. i \in Candidatas(tabla, n)
  BY <1>2, <1>4, PrimeraCandidata
<1>6. i \in 1..Len(tabla) /\ ~r.ocupada /\ n <= r.size /\ r.size # n
  BY <1>1, <1>3, <1>5
     DEF Candidatas, particionCandidata, hayParticionesCandidatasBS, particionCandidataBS
<1>7. EnCurso /\ n \in Nat \ {0}
  BY <1>1, PedidoPositivo DEF EnCurso
<1>8. r \in Registro /\ r.fin = r.ini + r.size - 1 /\ EsBuddy(r)
  BY <1>2, <1>3, <1>6, ElementOfSeq DEF Cortada, Alineada
<1>9. r.size \in Int /\ r.ini \in Int
  BY <1>8 DEF Registro
<1>10. u = generarParticionBS(tabla, i)
  BY DEF generarParticionBS
<1>11. a \in Nat /\ b \in Nat /\ a <= b /\ b <= b /\ id_particion <= b
  BY <1>3
<1>12. m = r.size \div 2 /\ x = r.ini + m
  OBVIOUS
<1>13. p = crearParticion(r.ini, m, a) /\ q = crearParticion(x, m, b)
  OBVIOUS
<1>14. u = Reemplazar(tabla, i, <<p, q>>) /\ r = tabla[i]
  OBVIOUS
<1> HIDE DEF n, i, r, m, a, b, x, p, q, u
<1>15. m \in Nat \ {0} /\ r.size = m + m
  BY <1>6, <1>7, <1>8, <1>12, MitadEntera
<1>16. /\ Partes(r, p, q) /\ p.size = m /\ q.size = m /\ q.ini = x /\ p.id = a /\ q.id = b
  <2>1. /\ m \in Int /\ 0 < m /\ m + m = r.size /\ x = r.ini + m
        /\ r \in Registro /\ r.fin = r.ini + r.size - 1 /\ a \in Nat /\ b \in Nat
    BY <1>8, <1>11, <1>12, <1>15
  <2> QED BY <1>13, <2>1, PartesCreadas
<1>17. p.ini = r.ini /\ p.ocupada = FALSE /\ p \in Registro
  BY <1>16 DEF Partes
<1>18. EsBuddy(p) /\ EsBuddy(q)
  <2>1. q.ini = r.ini + m
    BY <1>12, <1>16
  <2> QED BY <1>6, <1>7, <1>8, <1>12, <1>16, <1>17, <2>1, MitadDeBuddy
<1>19. IdsHasta(tabla, b)
  BY <1>2, <1>3, <1>11, IdsHastaMas
<1>20. /\ Partida(tabla, u, i, p, q)
       /\ u \in Seq(Registro) /\ Len(u) = Len(tabla) + 1 /\ u[i] = p
       /\ Cortada(u) /\ LlegaAlFinal(u) /\ Marcada(u) /\ Distintas(u) /\ IdsHasta(u, b)
       /\ Llenas(u) = Llenas(tabla)
  <2>1. Partes(tabla[i], p, q) /\ p.id <= b /\ q.id <= b /\ ~tabla[i].ocupada
    BY <1>6, <1>11, <1>14, <1>16
  <2> QED BY <1>2, <1>6, <1>14, <1>19, <2>1, AlCortar
<1>21. Alineada(u)
  BY <1>2, <1>6, <1>18, <1>20, PartidaAlineada
<1>22. n <= m
  <2>1. PICK k \in Nat : r.size = potencia[k]
    BY <1>8 DEF EsBuddy
  <2>2. PICK j \in Nat : n = potencia[j]
    <3>1. config \in Configuraciones
      BY DEF IInv, TypeOK
    <3>2. tarea.msg \in Mensaje /\ n = TamanioPedido(medida[tarea.msg])
      BY <1>7 DEF IInv, Historia, TamaniosJustos, n
    <3>3. medida[tarea.msg] \in Nat
      BY <3>2, Pedido
    <3> QED BY <1>1, <3>1, <3>2, <3>3, PedidoEsPotencia
  <2>3. n < r.size
    BY <1>6, <1>7, <1>9
  <2>4. 2 * n <= r.size
    BY <2>1, <2>2, <2>3, PotenciasSeparadas
  <2> QED BY <1>7, <1>15, <2>4
<1>23. /\ tarea'.paso = "partir" /\ tarea'.apartadas = <<>> /\ tarea'.tamanio = n
       /\ tarea'.msg = tarea.msg /\ tarea'.liberadas = tarea.liberadas
       /\ tarea'.cantElementos = tarea.cantElementos /\ EnCurso'
  BY <1>1, <1>2 DEF IInv, TypeOK, EnCurso, n
<1>24. tabla' = u /\ ALGORITMO_MEMORIA' = ALGORITMO_MEMORIA
  BY <1>1, <1>10 DEF ALGORITMO_MEMORIA
<1>25. Entera'
  BY <1>1, <1>20, <1>21, <1>23, <1>24 DEF Entera
<1>26. ListaDelInvariante'
  BY <1>25, ConListaEntera, PTL
<1>27. Guardadas' = Guardadas
  BY <1>2, <1>20, <1>24, <1>26 DEF ListaDelInvariante
<1>28. Historia' /\ TamaniosJustos' /\ Turnos' /\ Paciencia'
  <2>1. UNCHANGED <<config, publicados, medida, orden, perdidas>> /\ tarea'.tamanio = tarea.tamanio
    BY <1>1, <1>23 DEF n
  <2>2. \A y \in Guardadas : MismaFicha(y, y)
    BY DEF MismaFicha
  <2> QED BY <1>7, <1>23, <1>27, <2>1, <2>2, HistoriaIgual
<1>29. PasoCoherente'
  <2>1. i \in Candidatas(u, n)
    <3>1. i \in DOMAIN u
      BY <1>3, <1>6, <1>20, LenProperties
    <3> QED BY <1>16, <1>17, <1>20, <1>22, <3>1 DEF Candidatas, particionCandidata
  <2> QED BY <1>1, <1>23, <1>24, <2>1 DEF PasoCoherente
<1>30. TypeOK'
  <2>1. tarea' \in Tareas
    BY <1>1 DEF IInv, TypeOK, Pasos
  <2> QED BY <1>1, <1>11, <1>26, <2>1 DEF IInv, TypeOK, ListaDelInvariante
<1>31. MismaCache
  BY <1>27 DEF MismaCache, MismaFicha
<1> QED BY <1>26, <1>28, <1>29, <1>30, <1>31 DEF IInv, ListaDelInvariante

\* A free partition instead of partition i.
LEMMA AlVaciar ==
  ASSUME NEW t \in Seq(Registro), NEW i \in 1..Len(t), t[i].ocupada, NEW id \in Nat, NEW n \in Nat,
         id <= n, IdsHasta(t, n),
         Cortada(t), LlegaAlFinal(t), Marcada(t), Distintas(t)
  PROVE  LET u == [t EXCEPT ![i] = [@ EXCEPT !.ocupada = FALSE, !.msg = SinMensaje, !.id = id]]
         IN  /\ u \in Seq(Registro) /\ Len(u) = Len(t) /\ DOMAIN u = DOMAIN t
             /\ ~u[i].ocupada /\ \A k \in DOMAIN t : k # i => u[k] = t[k]
             /\ Cortada(u) /\ LlegaAlFinal(u) /\ Marcada(u) /\ Distintas(u) /\ IdsHasta(u, n)
             /\ Llenas(u) = Llenas(t) \ {t[i]}
             /\ SinVecinasLibres(t) => SinVecinasSalvo(u, i)
             /\ Alineada(t) => Alineada(u)
<1> DEFINE p == [t[i] EXCEPT !.ocupada = FALSE, !.msg = SinMensaje, !.id = id]
           u == [t EXCEPT ![i] = p]
<1>1. t[i] \in Registro
  BY ElementOfSeq
<1>2. /\ p \in Registro /\ p.ini = t[i].ini /\ p.fin = t[i].fin /\ p.size = t[i].size
      /\ p.ocupada = FALSE /\ p.msg = SinMensaje /\ p.id = id
  BY <1>1 DEF Registro
<1> HIDE DEF p
<1>3. /\ u \in Seq(Registro) /\ Len(u) = Len(t) /\ DOMAIN u = DOMAIN t
      /\ u[i] = p /\ \A k \in DOMAIN t : k # i => u[k] = t[k]
      /\ Cortada(u) /\ LlegaAlFinal(u) /\ Marcada(u)
      /\ IdsHasta(u, n)
  <2>1. /\ u \in Seq(Registro) /\ Len(u) = Len(t) /\ DOMAIN u = DOMAIN t
        /\ u[i] = p /\ \A k \in DOMAIN t : k # i => u[k] = t[k]
        /\ Cortada(t) => Cortada(u)
        /\ LlegaAlFinal(t) => LlegaAlFinal(u)
        /\ Marcada(t) /\ (p.ocupada <=> p.msg # SinMensaje) => Marcada(u)
        /\ \A a, b : IdsHasta(t, a) /\ a \in Nat /\ b \in Nat /\ a <= b /\ p.id <= b
                       => IdsHasta(u, b)
    BY <1>2, CambiadaPuntual
  <2>2. p.id <= n /\ n <= n
    BY <1>2
  <2> QED BY <1>2, <2>1, <2>2
<1> HIDE DEF u
<1>4. Llenas(u) = Llenas(t) \ {t[i]} /\ Distintas(u)
  <2>1. t[i].ocupada /\ ~u[i].ocupada /\ Distintas(t) =>
          Llenas(u) = Llenas(t) \ {t[i]} /\ Distintas(u)
    BY <1>3, LlenasAlCambiar
  <2> QED BY <1>2, <1>3, <2>1
<1>5. SinVecinasLibres(t) => SinVecinasSalvo(u, i)
  <2> SUFFICES ASSUME SinVecinasLibres(t), NEW k \in 1..(Len(t) - 1), k # i - 1, k # i
               PROVE  u[k].ocupada \/ u[k+1].ocupada
    BY <1>3 DEF SinVecinasSalvo
  <2>1. t[k].ocupada \/ t[k+1].ocupada
    BY DEF SinVecinasLibres
  <2>2. Len(t) \in Nat
    BY LenProperties
  <2>3. k \in 1..Len(t) /\ k + 1 \in 1..Len(t) /\ k + 1 # i
    BY <2>2
  <2>4. DOMAIN t = 1..Len(t)
    BY LenProperties
  <2> QED BY <1>3, <2>1, <2>3, <2>4
<1>6. Alineada(t) => Alineada(u)
  <2> SUFFICES ASSUME Alineada(t), NEW k \in DOMAIN t PROVE EsBuddy(u[k])
    BY <1>3 DEF Alineada
  <2>1. EsBuddy(t[k])
    BY DEF Alineada
  <2> QED BY <1>2, <1>3, <2>1 DEF EsBuddy
<1>7. [t EXCEPT ![i] = [@ EXCEPT !.ocupada = FALSE, !.msg = SinMensaje, !.id = id]] = u
  BY DEF u, p
<1> QED BY <1>2, <1>3, <1>4, <1>5, <1>6, <1>7

LEMMA AlLiberar ==
  ASSUME IInv, config' = config, LiberarVictima
  PROVE  IInv' /\ SaleDeLaCache
<1> DEFINE i == tarea.victima
           v == tabla[i]
           n == id_particion'
           u == Liberar(tabla, i)
           r == consolidarParticion(u, i)
<1>1. /\ tarea.paso = "elegir" /\ tabla' = r
      /\ orden' = QuitarDe(orden, v.msg) /\ perdidas' = perdidas \ {v.msg}
      /\ id_particion' = IF ALGORITMO_REEMPLAZO = "FIFO" THEN id_particion ELSE id_particion + 1
      /\ UNCHANGED <<publicados, usos, medida>>
  BY DEF LiberarVictima, algoritmoLiberacion
<1>2. /\ tabla \in Seq(Registro) /\ Cortada(tabla) /\ LlegaAlFinal(tabla)
      /\ Marcada(tabla) /\ Distintas(tabla) /\ IdsHasta(tabla, id_particion)
      /\ Guardadas = Llenas(tabla) /\ tarea.apartadas = <<>>
      /\ ALGORITMO_MEMORIA = "BS" => Alineada(tabla)
      /\ ALGORITMO_MEMORIA = "BS" \/ ALGORITMO_MEMORIA = "PARTICIONES"
      /\ ALGORITMO_MEMORIA = "PARTICIONES" => SinVecinasLibres(tabla)
  BY <1>1, ListaEntera
<1>3. DOMAIN tabla = 1..Len(tabla) /\ id_particion \in Nat
  BY <1>1, ListaEntera
<1>4. i \in Ocupadas(tabla)
  BY <1>1 DEF IInv, PasoCoherente
<1>5. i \in 1..Len(tabla) /\ v.ocupada /\ v \in Llenas(tabla) /\ v = tabla[i]
  BY <1>3, <1>4 DEF Ocupadas, Llenas
<1>6. n \in Nat /\ id_particion <= n /\ id_particion + 1 \in Nat /\ 0 \in Nat
      /\ (ALGORITMO_REEMPLAZO # "FIFO" => n = id_particion + 1)
      /\ 0 <= n /\ n <= n
  BY <1>1, <1>3
<1> DEFINE id == IF ALGORITMO_REEMPLAZO = "FIFO" THEN 0 ELSE id_particion + 1
<1>7. id \in Nat /\ id <= n
  BY <1>6
<1>8. u = [tabla EXCEPT ![i] = [@ EXCEPT !.ocupada = FALSE, !.msg = SinMensaje, !.id = id]]
  BY DEF Liberar
<1>9. tabla' = consolidarParticion(u, i)
  BY <1>1
<1>22. tarea' = [tarea EXCEPT !.liberadas = @ + 1, !.victima = 0, !.hasta = 0, !.renovada = FALSE,
           !.paso = IF ALGORITMO_MEMORIA = "PARTICIONES" /\ TocaCompactar(tarea.liberadas + 1)
                    THEN "compactar" ELSE "buscar"]
  BY DEF LiberarVictima
<1> HIDE DEF i, v, n, u, r, id
<1>10. IdsHasta(tabla, n)
  BY <1>2, <1>3, <1>6, IdsHastaMas
<1>11. /\ u \in Seq(Registro) /\ Len(u) = Len(tabla) /\ ~u[i].ocupada
       /\ Cortada(u) /\ LlegaAlFinal(u) /\ Marcada(u) /\ Distintas(u) /\ IdsHasta(u, n)
       /\ Llenas(u) = Llenas(tabla) \ {v}
       /\ SinVecinasLibres(tabla) => SinVecinasSalvo(u, i)
       /\ Alineada(tabla) => Alineada(u)
  <2>1. tabla[i].ocupada
    BY <1>5
  <2> QED BY <1>2, <1>5, <1>6, <1>7, <1>8, <1>10, <2>1, AlVaciar
<1>12. i \in 1..Len(u)
  BY <1>5, <1>11
<1>13. /\ r \in Seq(Registro) /\ Cortada(r) /\ LlegaAlFinal(r)
       /\ MismasLlenas(u, r) /\ IdsHasta(r, n) /\ HayLibre(r)
  BY <1>11, <1>12, ConsolidarConserva DEF r
<1>14. Llenas(r) = Llenas(tabla) \ {v} /\ Marcada(r) /\ Distintas(r)
  BY <1>11, <1>13 DEF MismasLlenas
<1>15. ALGORITMO_MEMORIA = "BS" => Alineada(r)
  BY <1>2, <1>11, <1>12, ConsolidarAlineada DEF r
<1>16. ALGORITMO_MEMORIA = "PARTICIONES" => SinVecinasLibres(r)
  BY <1>2, <1>11, <1>12, ConsolidarSeparaLibres DEF r
<1>17. /\ tarea'.apartadas = <<>> /\ tarea'.paso \in {"buscar", "compactar"}
       /\ tarea'.paso = "compactar" => ALGORITMO_MEMORIA = "PARTICIONES"
       /\ tarea'.msg = tarea.msg /\ tarea'.tamanio = tarea.tamanio
       /\ tarea'.liberadas = tarea.liberadas + 1 /\ tarea'.cantElementos = tarea.cantElementos
       /\ EnCurso /\ EnCurso'
  BY <1>1, <1>2, <1>22 DEF EnCurso, IInv, TypeOK
<1>18. tabla' = r /\ id_particion' = n /\ ALGORITMO_MEMORIA' = ALGORITMO_MEMORIA
  BY <1>9 DEF r, n, ALGORITMO_MEMORIA
<1>19. Entera'
  BY <1>13, <1>14, <1>15, <1>16, <1>17, <1>18 DEF Entera
<1>20. ListaDelInvariante'
  BY <1>19, ConListaEntera, PTL
<1>21. Guardadas' = Guardadas \ {v} /\ v \in Guardadas
  BY <1>2, <1>5, <1>14, <1>18, <1>20 DEF ListaDelInvariante
<1>23. Historia' /\ TamaniosJustos' /\ Turnos' /\ Paciencia' /\ orden' \in Seq(Mensaje)
  <2>1. UNCHANGED <<config, publicados, medida>>
    BY <1>1
  <2> QED BY <1>1, <1>17, <1>21, <2>1, HistoriaAlLiberar
<1>24. PasoCoherente'
  BY <1>17, <1>18 DEF PasoCoherente
<1>25. TypeOK'
  <2>1. tarea' \in Tareas
    <3> DEFINE l == tarea.liberadas + 1
               x == IF ALGORITMO_MEMORIA = "PARTICIONES" /\ TocaCompactar(tarea.liberadas + 1)
                    THEN "compactar" ELSE "buscar"
    <3>1. l \in Nat /\ x \in {"buscar", "compactar"} /\ tarea' = [tarea EXCEPT !.liberadas = l, !.victima = 0,
                                      !.hasta = 0, !.renovada = FALSE, !.paso = x]
      BY <1>22 DEF IInv, TypeOK
    <3> HIDE DEF l, x
    <3> QED BY <3>1 DEF IInv, TypeOK, Pasos
  <2>2. perdidas' \subseteq Mensaje
    BY <1>1 DEF IInv, TypeOK
  <2> QED BY <1>1, <1>6, <1>18, <1>20, <1>23, <2>1, <2>2 DEF IInv, TypeOK, ListaDelInvariante
<1>26. SaleDeLaCache
  BY <1>1, <1>21 DEF SaleDeLaCache, i, v
<1> QED BY <1>20, <1>23, <1>24, <1>25, <1>26 DEF IInv, ListaDelInvariante

\* A step that only says where the store goes on, outside a compaction, or that
\* kills the process.
LEMMA AlSeguir ==
  ASSUME IInv, UNCHANGED <<config, tabla, id_particion, publicados, usos, medida, orden, perdidas>>,
         tarea'.paso = tarea.paso \/ (tarea.paso = "buscar" /\ tarea'.paso \in {"elegir", "segfault"}),
         tarea.paso # "ocioso", tarea' \in Tareas, PasoCoherente',
         tarea'.msg = tarea.msg, tarea'.tamanio = tarea.tamanio,
         tarea'.liberadas = tarea.liberadas, tarea'.cantElementos = tarea.cantElementos,
         tarea'.apartadas = tarea.apartadas
  PROVE  IInv' /\ MismaCache
<1>1. EnCurso /\ EnCurso' /\ ALGORITMO_MEMORIA' = ALGORITMO_MEMORIA /\ posicion' = posicion
  BY DEF EnCurso, ALGORITMO_MEMORIA, posicion
<1>2. Guardadas' = Guardadas
  BY DEF Guardadas
<1>3. Historia' /\ TamaniosJustos' /\ Turnos' /\ Paciencia'
  <2>1. \A y \in Guardadas : MismaFicha(y, y)
    BY DEF MismaFicha
  <2> QED BY <1>1, <1>2, <2>1, HistoriaIgual
<1>4. Cortada(tabla') /\ Sana(tabla)' /\ Apartado' /\ Libres' /\ Buddies'
  BY <1>1 DEF IInv, Sana, Apartado, Libres, Buddies
<1>5. TypeOK'
  BY DEF IInv, TypeOK
<1>6. MismaCache
  BY <1>2 DEF MismaCache, MismaFicha
<1> QED BY <1>3, <1>4, <1>5, <1>6 DEF IInv

\* The choice of a victim begins.
LEMMA AlElegir ==
  ASSUME IInv, config' = config, ElegirVictima
  PROVE  IInv' /\ MismaCache
<1> DEFINE i == Min(Ocupadas(tabla))
<1>1. /\ tarea.paso = "buscar" /\ ~hayParticionesCandidatas(tarea.tamanio) /\ Ocupadas(tabla) # {}
      /\ tarea' = [tarea EXCEPT !.paso = "elegir", !.victima = i, !.hasta = i]
      /\ UNCHANGED <<tabla, id_particion, publicados, usos, medida, orden, perdidas>>
  BY DEF ElegirVictima, Buscando
<1>2. i \in Ocupadas(tabla) /\ i \in Nat
  <2>1. Ocupadas(tabla) \in SUBSET Nat
    BY <1>1, ListaEntera DEF Ocupadas
  <2> QED BY <1>1, <2>1, MinDeNaturales
<1> HIDE DEF i
<1>3. tarea' \in Tareas
  BY <1>1, <1>2 DEF IInv, TypeOK, Pasos
<1>4. /\ tarea'.paso = "elegir" /\ tarea'.victima = i /\ tarea'.hasta = i
      /\ tarea'.msg = tarea.msg /\ tarea'.tamanio = tarea.tamanio
      /\ tarea'.liberadas = tarea.liberadas /\ tarea'.cantElementos = tarea.cantElementos
      /\ tarea'.apartadas = tarea.apartadas
  BY <1>1 DEF IInv, TypeOK
<1>5. PasoCoherente'
  BY <1>1, <1>2, <1>4 DEF PasoCoherente, hayParticionesCandidatas, Candidatas
<1> QED BY <1>1, <1>3, <1>4, <1>5, AlSeguir

\* One more occupied partition is compared.
LEMMA AlComparar ==
  ASSUME IInv, config' = config, CompararVictima
  PROVE  IInv' /\ MismaCache
<1> DEFINE j == Min(PorMirar)
           v == CompararCandidata(tabla, tarea.victima, j)
<1>1. /\ tarea.paso = "elegir" /\ PorMirar # {}
      /\ tarea' = [tarea EXCEPT !.victima = v, !.hasta = j]
      /\ UNCHANGED <<tabla, id_particion, publicados, usos, medida, orden, perdidas>>
  BY DEF CompararVictima, IInv, TypeOK
<1>2. j \in Ocupadas(tabla) /\ j \in Nat /\ tarea.hasta < j
  <2>1. Ocupadas(tabla) \in SUBSET Nat /\ tarea.hasta \in Nat
    BY <1>1, ListaEntera DEF Ocupadas, IInv, TypeOK
  <2>2. PorMirar \in SUBSET Nat
    BY <2>1 DEF PorMirar
  <2>3. j \in PorMirar
    BY <1>1, <2>2, MinDeNaturales
  <2> QED BY <2>1, <2>2, <2>3 DEF PorMirar
<1>3. tarea.victima \in Ocupadas(tabla) /\ tarea.victima <= tarea.hasta
      /\ tarea.victima \in Nat /\ tarea.hasta \in Nat
  BY <1>1 DEF IInv, TypeOK, PasoCoherente
<1>4. v \in Ocupadas(tabla) /\ v \in Nat /\ v <= j
  BY <1>2, <1>3 DEF CompararCandidata
<1> HIDE DEF j, v
<1>5. tarea' \in Tareas
  BY <1>1, <1>2, <1>4 DEF IInv, TypeOK, Pasos
<1>6. /\ tarea'.paso = "elegir" /\ tarea'.victima = v /\ tarea'.hasta = j
      /\ tarea'.msg = tarea.msg /\ tarea'.tamanio = tarea.tamanio
      /\ tarea'.liberadas = tarea.liberadas /\ tarea'.cantElementos = tarea.cantElementos
      /\ tarea'.apartadas = tarea.apartadas
  BY <1>1 DEF IInv, TypeOK
<1>7. PasoCoherente'
  BY <1>1, <1>4, <1>6 DEF IInv, PasoCoherente
<1> QED BY <1>1, <1>5, <1>6, <1>7, AlSeguir

\* The process dies with the list as it was.
LEMMA AlDesreferenciar ==
  ASSUME IInv, config' = config, DesreferenciarVictimaNula
  PROVE  IInv' /\ MismaCache
<1>1. /\ tarea.paso = "buscar" /\ tarea' = [tarea EXCEPT !.paso = "segfault"]
      /\ UNCHANGED <<tabla, id_particion, publicados, usos, medida, orden, perdidas>>
  BY DEF DesreferenciarVictimaNula, Buscando
<1>2. tarea' \in Tareas
  BY <1>1 DEF IInv, TypeOK, Pasos
<1>3. /\ tarea'.paso = "segfault" /\ tarea'.apartadas = tarea.apartadas
      /\ tarea'.tamanio = tarea.tamanio /\ tarea'.msg = tarea.msg
      /\ tarea'.liberadas = tarea.liberadas /\ tarea'.cantElementos = tarea.cantElementos
  BY <1>1 DEF IInv, TypeOK
<1>4. PasoCoherente'
  BY <1>3 DEF PasoCoherente
<1> QED BY <1>1, <1>2, <1>3, <1>4, AlSeguir

\* The compaction begins: every partition is set apart.
LEMMA AlVaciarTabla ==
  ASSUME IInv, config' = config, VaciarTabla
  PROVE  IInv' /\ MismaCache
<1>1. /\ tarea.paso = "compactar" /\ tarea' = [tarea EXCEPT !.paso = "reponer", !.apartadas = tabla]
      /\ tabla' = <<>>
      /\ UNCHANGED <<id_particion, publicados, usos, medida, orden, perdidas>>
  BY DEF VaciarTabla
<1>2. /\ tabla \in Seq(Registro) /\ Cortada(tabla) /\ LlegaAlFinal(tabla)
      /\ Marcada(tabla) /\ Distintas(tabla) /\ IdsHasta(tabla, id_particion)
      /\ Guardadas = Llenas(tabla)
  BY <1>1, ListaEntera
<1>3. ALGORITMO_MEMORIA = "PARTICIONES" /\ HayLibre(tabla)
  BY <1>1 DEF IInv, PasoCoherente, Libres
<1>4. /\ tarea'.paso = "reponer" /\ tarea'.apartadas = tabla /\ tarea'.tamanio = tarea.tamanio
      /\ tarea'.msg = tarea.msg /\ tarea'.liberadas = tarea.liberadas
      /\ tarea'.cantElementos = tarea.cantElementos /\ EnCurso /\ EnCurso'
  BY <1>1 DEF IInv, TypeOK, EnCurso
<1>5. ALGORITMO_MEMORIA' = ALGORITMO_MEMORIA
  BY DEF ALGORITMO_MEMORIA
<1>6. Guardadas' = Guardadas
  BY <1>1, <1>2, <1>4, ListaVacia DEF Guardadas
<1>7. Historia' /\ TamaniosJustos' /\ Turnos' /\ Paciencia'
  <2>1. \A y \in Guardadas : MismaFicha(y, y)
    BY DEF MismaFicha
  <2> QED BY <1>1, <1>4, <1>6, <2>1, HistoriaIgual
<1>8. Cortada(tabla') /\ Sana(tabla)' /\ tabla' \in Seq(Particion)
  <2>1. tabla' \in Seq(Particion)
    BY <1>1, EmptySeq
  <2> QED BY <1>1, <2>1, ListaVacia DEF Sana
<1>9. Apartado'
  <2>1. Cabe(tabla, 0)
    BY <1>2, CabeLaListaEntera
  <2>2. posicion' = 0
    BY <1>1 DEF posicion
  <2> QED BY <1>1, <1>2, <1>4, <2>1, <2>2, ListaVacia DEF Apartado, Sana
<1>10. Libres' /\ Buddies'
  BY <1>1, <1>3, <1>4, <1>5, ListaVacia DEF Libres, Buddies
<1>11. PasoCoherente'
  BY <1>3, <1>4, <1>5 DEF PasoCoherente
<1>12. TypeOK'
  <2>1. tarea' \in Tareas
    BY <1>1 DEF IInv, TypeOK, Pasos
  <2> QED BY <1>1, <1>8, <2>1 DEF IInv, TypeOK
<1>13. MismaCache
  BY <1>6 DEF MismaCache, MismaFicha
<1> QED BY <1>7, <1>8, <1>9, <1>10, <1>11, <1>12, <1>13 DEF IInv

\* The next of the partitions set apart is put back.
LEMMA AlReponer ==
  ASSUME IInv, config' = config, ReponerParticion
  PROVE  IInv' /\ MismaCache
<1> DEFINE t == tabla
           s == tarea.apartadas
           i == ProximaApartada
           p == s[i]
           x == posicion
           y == x + p.size
           r == [p EXCEPT !.ini = x, !.fin = x + p.size - 1]
           u == Append(t, r)
           z == RemoveAt(s, i)
<1>1. /\ tarea.paso = "reponer" /\ s # <<>> /\ tabla' = u
      /\ tarea' = [tarea EXCEPT !.apartadas = z]
      /\ UNCHANGED <<id_particion, publicados, usos, medida, orden, perdidas>>
  BY DEF ReponerParticion
<1>2. /\ t \in Seq(Registro) /\ s \in Seq(Registro) /\ s \in Seq(Particion)
      /\ Cortada(t) /\ Marcada(t) /\ Distintas(t) /\ IdsHasta(t, id_particion)
      /\ Marcada(s) /\ Distintas(s) /\ IdsHasta(s, id_particion)
      /\ \A a \in Llenas(t), b \in Llenas(s) : a.msg # b.msg
      /\ Cabe(s, x) /\ id_particion \in Nat
  BY <1>1, ListasDeRegistros DEF IInv, TypeOK, Sana, Apartado
<1>3. /\ ALGORITMO_MEMORIA = "PARTICIONES" /\ OcupadasPrimero(t)
      /\ HayLibre(t) \/ HayLibre(s)
      /\ Ocupadas(s) # {} => ~HayLibre(t)
  BY <1>1 DEF IInv, PasoCoherente, Libres
<1>4. /\ Guardadas = Llenas(t) \cup Llenas(s) /\ Guardadas' = Llenas(tabla') \cup Llenas(tarea'.apartadas)
      /\ posicion' = IF tabla' = <<>> THEN 0 ELSE Last(tabla').fin + 1
      /\ x = IF t = <<>> THEN 0 ELSE Last(t).fin + 1
  BY DEF Guardadas, posicion
<1>5. Len(s) \in Nat /\ DOMAIN s = 1..Len(s) /\ Len(s) # 0
  BY <1>1, <1>2, LenProperties, EmptySeq
<1>6. /\ i = IF Ocupadas(s) # {} THEN Min(Ocupadas(s)) ELSE 1
      /\ p = s[i] /\ z = RemoveAt(s, i) /\ y = x + p.size /\ u = Append(t, r)
      /\ r = [p EXCEPT !.ini = x, !.fin = x + p.size - 1]
  BY DEF ProximaApartada
<1>7. s = tarea.apartadas /\ t = tabla
  OBVIOUS
<1> HIDE DEF t, s, i, p, x, y, r, u, z
<1>8. i \in 1..Len(s) /\ (p.ocupada <=> Ocupadas(s) # {})
  <2>1. CASE Ocupadas(s) # {}
    <3>1. Ocupadas(s) \in SUBSET Nat
      BY <1>5 DEF Ocupadas
    <3>2. i \in Ocupadas(s)
      BY <1>6, <2>1, <3>1, MinDeNaturales
    <3> QED BY <1>5, <1>6, <2>1, <3>2 DEF Ocupadas
  <2>2. CASE Ocupadas(s) = {}
    <3>1. i = 1 /\ 1 \in 1..Len(s)
      BY <1>5, <1>6, <2>2
    <3> QED BY <1>5, <1>6, <2>2, <3>1 DEF Ocupadas
  <2> QED BY <2>1, <2>2
<1>9. p \in Registro /\ 0 < p.size /\ p.size \in Nat
  <2>1. p \in Registro /\ p \in Particion
    BY <1>2, <1>6, <1>8, ElementOfSeq
  <2> QED BY <2>1, ConstantesValidas DEF Particion
<1>10. x \in Nat /\ y \in Nat /\ y <= TAMANO_MEMORIA /\ Cabe(z, y)
  BY <1>2, <1>6, <1>8, <1>9, CabeElResto
<1>11. /\ r \in Registro /\ r.ini = x /\ r.fin = x + p.size - 1 /\ r.size = p.size
       /\ r.ocupada = p.ocupada /\ r.msg = p.msg /\ r.id = p.id
  <2> DEFINE w == x + p.size - 1
  <2>1. x \in Int /\ w \in Int /\ p \in Registro
    BY <1>9, <1>10
  <2>2. r = [p EXCEPT !.ini = x, !.fin = w]
    BY <1>6
  <2> HIDE DEF w
  <2>3. /\ r \in Registro /\ r.ini = x /\ r.fin = w /\ r.size = p.size
        /\ r.ocupada = p.ocupada /\ r.msg = p.msg /\ r.id = p.id
    BY <2>1, <2>2 DEF Registro
  <2> QED BY <2>3 DEF w
<1>12. r.fin + 1 = y /\ r.fin < TAMANO_MEMORIA /\ r.fin = r.ini + r.size - 1 /\ 0 < r.size
  <2> DEFINE a == p.size
             w == r.fin
  <2>1. /\ TAMANO_MEMORIA \in Nat /\ a \in Nat /\ 0 < a /\ y = x + a /\ w = x + a - 1
        /\ x \in Nat /\ y <= TAMANO_MEMORIA /\ r.ini = x /\ r.size = a
    BY <1>6, <1>9, <1>10, <1>11, ConstantesValidas
  <2> HIDE DEF a, w
  <2>2. w + 1 = y /\ w < TAMANO_MEMORIA /\ w = x + a - 1 /\ 0 < a
    BY <2>1
  <2> QED BY <2>1, <2>2 DEF a, w
<1>13. /\ p.ocupada <=> p.msg # SinMensaje
       /\ p.id <= id_particion
       /\ p.ocupada => p \in Llenas(s)
  BY <1>2, <1>5, <1>6, <1>8 DEF Marcada, IdsHasta, Llenas, Ocupadas
<1>14. /\ u \in Seq(Registro) /\ Last(u) = r /\ u # <<>>
       /\ Llenas(u) = Llenas(t) \cup (IF r.ocupada THEN {r} ELSE {})
       /\ Distintas(u) /\ Marcada(u) /\ IdsHasta(u, id_particion)
       /\ HayLibre(u) <=> HayLibre(t) \/ ~r.ocupada
       /\ OcupadasPrimero(u)
  <2>1. r.ocupada => \A q \in Llenas(t) : q.msg # r.msg
    BY <1>2, <1>11, <1>13
  <2>2. r.ocupada <=> r.msg # SinMensaje
    BY <1>11, <1>13
  <2>3. r.id <= id_particion
    BY <1>11, <1>13
  <2>4. r.ocupada => ~HayLibre(t)
    BY <1>3, <1>8, <1>11
  <2>5. /\ Append(t, r) \in Seq(Registro) /\ Last(Append(t, r)) = r /\ Append(t, r) # <<>>
        /\ Llenas(Append(t, r)) = Llenas(t) \cup (IF r.ocupada THEN {r} ELSE {})
        /\ Distintas(t) /\ (r.ocupada => \A q \in Llenas(t) : q.msg # r.msg) => Distintas(Append(t, r))
        /\ Marcada(t) /\ (r.ocupada <=> r.msg # SinMensaje) => Marcada(Append(t, r))
        /\ \A n : IdsHasta(t, n) /\ r.id <= n => IdsHasta(Append(t, r), n)
        /\ HayLibre(Append(t, r)) <=> HayLibre(t) \/ ~r.ocupada
        /\ OcupadasPrimero(t) /\ (r.ocupada => ~HayLibre(t)) => OcupadasPrimero(Append(t, r))
    BY <1>2, <1>11, AgregarPuntual
  <2> QED BY <1>2, <1>3, <1>6, <2>1, <2>2, <2>3, <2>4, <2>5
<1>15. Cortada(u)
  <2>1. /\ t = <<>> => r.ini = 0
        /\ t # <<>> => r.ini = Last(t).fin + 1
    BY <1>4, <1>11
  <2> QED BY <1>2, <1>6, <1>11, <1>12, <2>1, AgregarCortada
<1>16. /\ z \in Seq(Registro) /\ z \in Seq(Particion)
       /\ ~p.ocupada => Llenas(z) = Llenas(s)
       /\ p.ocupada => Llenas(z) = Llenas(s) \ {p}
       /\ Distintas(z) /\ Marcada(z) /\ IdsHasta(z, id_particion)
       /\ HayLibre(s) /\ p.ocupada => HayLibre(z)
       /\ Ocupadas(z) # {} => Ocupadas(s) # {}
  <2>1. z \in Seq(Particion)
    BY <1>2, <1>6, <1>8, RemoveAtPuntual
  <2>2. /\ RemoveAt(s, i) \in Seq(Registro)
        /\ ~s[i].ocupada => Llenas(RemoveAt(s, i)) = Llenas(s)
        /\ s[i].ocupada /\ Distintas(s) => Llenas(RemoveAt(s, i)) = Llenas(s) \ {s[i]}
        /\ Distintas(s) => Distintas(RemoveAt(s, i))
        /\ Marcada(s) => Marcada(RemoveAt(s, i))
        /\ \A n : IdsHasta(s, n) => IdsHasta(RemoveAt(s, i), n)
        /\ HayLibre(s) /\ s[i].ocupada => HayLibre(RemoveAt(s, i))
        /\ Ocupadas(RemoveAt(s, i)) # {} => Ocupadas(s) # {}
    BY <1>2, <1>8, QuitarPuntual
  <2> QED BY <1>2, <1>6, <2>1, <2>2
<1>17. /\ tarea'.paso = "reponer" /\ tarea'.apartadas = z /\ tarea'.tamanio = tarea.tamanio
       /\ tarea'.msg = tarea.msg /\ tarea'.liberadas = tarea.liberadas
       /\ tarea'.cantElementos = tarea.cantElementos /\ EnCurso /\ EnCurso'
  BY <1>1 DEF IInv, TypeOK, EnCurso
<1>18. ALGORITMO_MEMORIA' = ALGORITMO_MEMORIA
  BY DEF ALGORITMO_MEMORIA
<1>19. Guardadas' = Llenas(u) \cup Llenas(z)
  BY <1>1, <1>4, <1>17
<1>20. Historia' /\ TamaniosJustos' /\ Turnos' /\ Paciencia' /\ MismaCache
  <2>1. \A a : MismaFicha(a, a)
    BY DEF MismaFicha
  <2>2. MismaFicha(r, p)
    BY <1>11 DEF MismaFicha
  <2>3. ASSUME NEW a \in Guardadas' PROVE \E b \in Guardadas : MismaFicha(a, b)
    BY <1>4, <1>11, <1>13, <1>14, <1>16, <1>19, <2>1, <2>2
  <2>4. ASSUME NEW b \in Guardadas PROVE \E a \in Guardadas' : MismaFicha(a, b)
    BY <1>4, <1>11, <1>13, <1>14, <1>16, <1>19, <2>1, <2>2
  <2>5. MismaCache
    BY <2>3, <2>4 DEF MismaCache
  <2> QED BY <1>1, <1>17, <2>3, <2>4, <2>5, HistoriaIgual
<1>21. Cortada(tabla') /\ Sana(tabla)' /\ tabla' \in Seq(Particion)
  BY <1>1, <1>14, <1>15, EnLaMemoria DEF Sana
<1>22. Apartado'
  <2>1. posicion' = y
    BY <1>1, <1>4, <1>12, <1>14
  <2>2. ASSUME NEW a \in Llenas(u), NEW b \in Llenas(z) PROVE a.msg # b.msg
    <3>1. b \in Llenas(s) /\ (p.ocupada => b # p)
      BY <1>16
    <3>2. CASE a \in Llenas(t)
      BY <1>2, <3>1, <3>2
    <3>3. CASE a = r /\ r.ocupada
      <4>1. p \in Llenas(s) /\ b # p /\ a.msg = p.msg
        BY <1>11, <1>13, <3>1, <3>3
      <4>2. b.msg # p.msg
        BY <1>2, <3>1, <4>1 DEF Distintas, Llenas
      <4> QED BY <4>1, <4>2
    <3> QED BY <1>14, <3>2, <3>3
  <2> QED BY <1>1, <1>10, <1>16, <1>17, <2>1, <2>2 DEF Apartado, Sana
<1>23. Libres' /\ Buddies'
  <2>1. HayLibre(u) \/ HayLibre(z)
    BY <1>3, <1>11, <1>14, <1>16
  <2>2. Ocupadas(z) # {} => ~HayLibre(u)
    BY <1>3, <1>8, <1>11, <1>14, <1>16
  <2> QED BY <1>1, <1>3, <1>14, <1>17, <1>18, <2>1, <2>2 DEF Libres, Buddies
<1>24. PasoCoherente'
  BY <1>3, <1>17, <1>18 DEF PasoCoherente
<1>25. TypeOK'
  <2>1. tarea' \in Tareas
    BY <1>1, <1>16 DEF IInv, TypeOK, Pasos
  <2> QED BY <1>1, <1>21, <2>1 DEF IInv, TypeOK
<1> QED BY <1>20, <1>21, <1>22, <1>23, <1>24, <1>25 DEF IInv

\* Everything has been put back: the list reaches the end of the memory again.
LEMMA AlTerminarDeReponer ==
  ASSUME IInv, config' = config, TerminarDeReponer
  PROVE  IInv' /\ MismaCache
<1>1. /\ tarea.paso = "reponer" /\ tarea.apartadas = <<>>
      /\ tarea' = [tarea EXCEPT !.paso = "unir"]
      /\ UNCHANGED <<tabla, id_particion, publicados, usos, medida, orden, perdidas>>
  BY DEF TerminarDeReponer
<1>2. /\ tabla \in Seq(Registro) /\ Cortada(tabla) /\ Sana(tabla) /\ Cabe(<<>>, posicion)
      /\ ALGORITMO_MEMORIA = "PARTICIONES" /\ OcupadasPrimero(tabla) /\ HayLibre(tabla)
  BY <1>1, ListasDeRegistros, ListaVacia DEF IInv, TypeOK, Apartado, PasoCoherente, Libres
<1>3. LlegaAlFinal(tabla)
  <2>1. PICK f : Reparto(<<>>, posicion, f)
    BY <1>2 DEF Cabe
  <2>2. posicion = TAMANO_MEMORIA /\ TAMANO_MEMORIA \in Nat /\ TAMANO_MEMORIA # 0
    BY <2>1, EmptySeq, ConstantesValidas DEF Reparto
  <2>3. tabla # <<>> /\ tabla[Len(tabla)].fin + 1 = TAMANO_MEMORIA
    BY <2>2 DEF posicion, Last
  <2>4. Len(tabla) \in 1..Len(tabla)
    BY <1>2, <2>3, LenProperties, EmptySeq
  <2>5. tabla[Len(tabla)] \in Registro
    BY <1>2, <2>4, ElementOfSeq
  <2>6. tabla[Len(tabla)].fin \in Int
    BY <2>5 DEF Registro
  <2>7. tabla[Len(tabla)].fin = TAMANO_MEMORIA - 1
    BY <2>2, <2>3, <2>6
  <2> QED BY <2>3, <2>7 DEF LlegaAlFinal
<1>4. /\ tarea'.paso = "unir" /\ tarea'.apartadas = <<>> /\ tarea'.tamanio = tarea.tamanio
      /\ tarea'.msg = tarea.msg /\ tarea'.liberadas = tarea.liberadas
      /\ tarea'.cantElementos = tarea.cantElementos /\ EnCurso /\ EnCurso'
  BY <1>1 DEF IInv, TypeOK, EnCurso
<1>5. ALGORITMO_MEMORIA' = ALGORITMO_MEMORIA
  BY DEF ALGORITMO_MEMORIA
<1>6. Guardadas' = Guardadas
  BY <1>1, <1>4 DEF Guardadas
<1>7. Historia' /\ TamaniosJustos' /\ Turnos' /\ Paciencia'
  <2>1. \A y \in Guardadas : MismaFicha(y, y)
    BY DEF MismaFicha
  <2> QED BY <1>1, <1>4, <1>6, <2>1, HistoriaIgual
<1>8. Cortada(tabla') /\ Sana(tabla)'
  BY <1>1, <1>2 DEF Sana
<1>9. Apartado'
  BY <1>1, <1>3, <1>4, ListaVacia DEF Apartado, Sana
<1>10. Libres' /\ Buddies'
  BY <1>1, <1>2, <1>4, <1>5 DEF Libres, Buddies
<1>11. PasoCoherente'
  BY <1>2, <1>4, <1>5 DEF PasoCoherente
<1>12. TypeOK'
  <2>1. tarea' \in Tareas
    BY <1>1 DEF IInv, TypeOK, Pasos
  <2> QED BY <1>1, <2>1 DEF IInv, TypeOK
<1>13. MismaCache
  BY <1>6 DEF MismaCache, MismaFicha
<1> QED BY <1>7, <1>8, <1>9, <1>10, <1>11, <1>12, <1>13 DEF IInv

\* The free partitions at the end of the compacted list are joined one by one.
LEMMA AlConsolidarLibres ==
  ASSUME IInv, config' = config, ConsolidarLibres
  PROVE  IInv' /\ MismaCache
<1> DEFINE i == Min(DOMAIN tabla \ Ocupadas(tabla))
           r == consolidarParticion(tabla, i)
<1>1. /\ tarea.paso = "unir"
      /\ i = Len(tabla) => tarea' = [tarea EXCEPT !.paso = "buscar"] /\ UNCHANGED tabla
      /\ i # Len(tabla) => tabla' = r /\ UNCHANGED tarea
      /\ UNCHANGED <<id_particion, publicados, usos, medida, orden, perdidas>>
  BY DEF ConsolidarLibres
<1>2. /\ tabla \in Seq(Registro) /\ Cortada(tabla) /\ LlegaAlFinal(tabla)
      /\ Marcada(tabla) /\ Distintas(tabla) /\ IdsHasta(tabla, id_particion)
      /\ tarea.apartadas = <<>> /\ Guardadas = Llenas(tabla)
      /\ Len(tabla) \in Nat /\ DOMAIN tabla = 1..Len(tabla)
  BY <1>1, ListaEntera
<1>3. ALGORITMO_MEMORIA = "PARTICIONES" /\ OcupadasPrimero(tabla) /\ HayLibre(tabla)
  BY <1>1 DEF IInv, PasoCoherente, Libres
<1>4. i \in 1..Len(tabla) /\ ~tabla[i].ocupada /\ \A k \in 1..(i - 1) : tabla[k].ocupada
  <2> DEFINE S == DOMAIN tabla \ Ocupadas(tabla)
  <2>1. S \in SUBSET Nat /\ S # {} /\ S \subseteq 1..Len(tabla)
    BY <1>2, <1>3 DEF HayLibre, Ocupadas
  <2>2. i = Min(S)
    OBVIOUS
  <2>3. \A k \in 1..Len(tabla) : k \in S <=> ~tabla[k].ocupada
    BY <1>2 DEF Ocupadas
  <2> HIDE DEF S, i
  <2>4. i \in S /\ \A k \in S : i <= k
    BY <2>1, <2>2, MinDeNaturales
  <2>5. i \in 1..Len(tabla)
    BY <2>1, <2>4
  <2>6. ASSUME NEW k \in 1..(i - 1) PROVE tabla[k].ocupada
    <3>1. k \in 1..Len(tabla) /\ ~(i <= k)
      BY <1>2, <2>5
    <3> QED BY <2>3, <2>4, <3>1
  <2> QED BY <2>3, <2>4, <2>5, <2>6
<1>5. ALGORITMO_MEMORIA' = ALGORITMO_MEMORIA /\ EnCurso /\ ALGORITMO_MEMORIA # "BS"
  BY <1>1, <1>3 DEF ALGORITMO_MEMORIA, EnCurso
<1>6. \A y \in Guardadas : MismaFicha(y, y)
  BY DEF MismaFicha
<1> HIDE DEF i
<1>7. CASE i = Len(tabla)
  <2>1. /\ tarea'.paso = "buscar" /\ tarea'.apartadas = <<>> /\ tarea'.tamanio = tarea.tamanio
        /\ tarea'.msg = tarea.msg /\ tarea'.liberadas = tarea.liberadas
        /\ tarea'.cantElementos = tarea.cantElementos /\ EnCurso'
    BY <1>1, <1>2, <1>7 DEF IInv, TypeOK, EnCurso
  <2>2. SinVecinasLibres(tabla)
    <3>1. ASSUME NEW k \in 1..(Len(tabla) - 1) PROVE tabla[k].ocupada
      BY <1>4, <1>7
    <3> QED BY <3>1 DEF SinVecinasLibres
  <2>3. Entera'
    BY <1>1, <1>2, <1>5, <1>7, <2>1, <2>2 DEF Entera
  <2>4. ListaDelInvariante'
    BY <2>3, ConListaEntera, PTL
  <2>5. Guardadas' = Guardadas
    BY <1>1, <1>2, <1>7, <2>4 DEF ListaDelInvariante
  <2>6. Historia' /\ TamaniosJustos' /\ Turnos' /\ Paciencia'
    BY <1>1, <1>5, <1>6, <2>1, <2>5, HistoriaIgual
  <2>7. PasoCoherente'
    BY <2>1 DEF PasoCoherente
  <2>8. TypeOK'
    <3>1. tarea' \in Tareas
      BY <1>1, <1>7 DEF IInv, TypeOK, Pasos
    <3> QED BY <1>1, <1>7, <3>1 DEF IInv, TypeOK
  <2>9. MismaCache
    BY <2>5 DEF MismaCache, MismaFicha
  <2> QED BY <2>4, <2>6, <2>7, <2>8, <2>9 DEF IInv, ListaDelInvariante
<1>8. CASE i # Len(tabla)
  <2>1. i \in 1..(Len(tabla) - 1)
    <3>1. i \in 1..Len(tabla) /\ Len(tabla) \in Nat /\ i # Len(tabla)
      BY <1>2, <1>4, <1>8
    <3> QED BY <3>1
  <2>2. /\ r \in Seq(Registro) /\ Cortada(r) /\ LlegaAlFinal(r)
        /\ MismasLlenas(tabla, r) /\ IdsHasta(r, id_particion) /\ HayLibre(r)
    BY <1>2, <1>4, ConsolidarConserva
  <2>3. OcupadasPrimero(r)
    BY <1>2, <1>3, <1>4, <1>5, <2>1, ConsolidarPrimeraLibre
  <2>4. Llenas(r) = Llenas(tabla) /\ Marcada(r) /\ Distintas(r)
    BY <1>2, <2>2 DEF MismasLlenas
  <2>5. tabla' = r /\ tarea' = tarea /\ EnCurso'
    BY <1>1, <1>5, <1>8 DEF EnCurso
  <2> HIDE DEF r
  <2>6. Guardadas' = Guardadas
    BY <2>4, <2>5 DEF Guardadas
  <2>7. Historia' /\ TamaniosJustos' /\ Turnos' /\ Paciencia'
    BY <1>1, <1>5, <1>6, <2>5, <2>6, HistoriaIgual
  <2>8. Cortada(tabla') /\ Sana(tabla)' /\ tabla' \in Seq(Particion)
    BY <1>1, <2>2, <2>4, <2>5, EnLaMemoria DEF Sana
  <2>9. Apartado'
    BY <1>1, <1>2, <2>2, <2>5, ListaVacia DEF Apartado, Sana
  <2>10. Libres' /\ Buddies'
    BY <1>1, <1>3, <1>5, <2>2, <2>3, <2>5 DEF Libres, Buddies
  <2>11. PasoCoherente'
    BY <1>1, <1>3, <1>5, <2>5 DEF PasoCoherente
  <2>12. TypeOK'
    BY <1>1, <2>5, <2>8 DEF IInv, TypeOK
  <2>13. MismaCache
    BY <2>6 DEF MismaCache, MismaFicha
  <2> QED BY <2>7, <2>8, <2>9, <2>10, <2>11, <2>12, <2>13 DEF IInv
<1> QED BY <1>7, <1>8

\* A message is sent: its partition takes a new id, whatever the store is doing.
LEMMA AlUsar ==
  ASSUME IInv, config' = config, NEW m \in Mensaje, actualizarID(m)
  PROVE  IInv' /\ SeRenueva(m)
<1> DEFINE n == id_particion + 1
<1>1. /\ m \in ToSet(orden) /\ orden' = Append(QuitarDe(orden, m), m)
      /\ usos' \in 0..MaxUsos /\ perdidas' = perdidas \ {m} /\ id_particion' = n
      /\ UNCHANGED <<publicados, medida>>
  <2>1. Enviable(m) /\ AlEnviar(m) /\ perdidas' = perdidas \ {m} /\ id_particion' = n
    BY DEF actualizarID
  <2>2. usos \in 0..MaxUsos /\ usos < MaxUsos /\ usos' = usos + 1
    BY <2>1 DEF Enviable, AlEnviar, IInv, TypeOK
  <2>3. usos' \in 0..MaxUsos
    BY <2>2, ConstantesValidas
  <2> QED BY <2>1, <2>3 DEF Enviable, AlEnviar
<1>2. PICK i \in DOMAIN tabla :
        /\ tabla[i].msg = m /\ tabla' = [tabla EXCEPT ![i].id = n]
        /\ tarea' = [tarea EXCEPT !.renovada =
                       @ \/ (tarea.paso = "elegir" /\ i = LaDeMenorId(tabla))]
  BY DEF actualizarID
<1>24. /\ tarea' \in Tareas
       /\ tarea'.paso = tarea.paso /\ tarea'.msg = tarea.msg /\ tarea'.tamanio = tarea.tamanio
       /\ tarea'.liberadas = tarea.liberadas /\ tarea'.cantElementos = tarea.cantElementos
       /\ tarea'.apartadas = tarea.apartadas /\ tarea'.victima = tarea.victima
       /\ tarea'.hasta = tarea.hasta /\ (tarea.paso = "ocioso" => tarea' = tarea)
  <2> DEFINE b == tarea.renovada \/ (tarea.paso = "elegir" /\ i = LaDeMenorId(tabla))
  <2>1. /\ tarea \in Tareas /\ tarea.renovada \in BOOLEAN
        /\ tarea = [tarea EXCEPT !.renovada = tarea.renovada]
    BY DEF IInv, TypeOK
  <2>2. b \in BOOLEAN /\ (tarea.paso = "ocioso" => b = tarea.renovada)
    BY <2>1
  <2>3. tarea' = [tarea EXCEPT !.renovada = b]
    BY <1>2
  <2> HIDE DEF b
  <2>4. tarea' \in Tareas
    BY <2>1, <2>2, <2>3
  <2>5. tarea.paso = "ocioso" => tarea' = tarea
    BY <2>1, <2>2, <2>3
  <2> QED BY <2>1, <2>3, <2>4, <2>5
<1> DEFINE t == tabla
           v == t[i]
           w == [v EXCEPT !.id = n]
           u == [t EXCEPT ![i] = w]
<1>3. t \in Seq(Registro) /\ tarea.apartadas \in Seq(Registro) /\ DOMAIN t = 1..Len(t)
      /\ Cortada(t) /\ Sana(t) /\ i \in 1..Len(t)
  BY <1>2, GuardadasDistintas, LenProperties DEF IInv
<1>4. v \in Registro /\ v = t[i] /\ v.msg = m
  BY <1>2, <1>3, ElementOfSeq
<1>5. tabla' = u
  BY <1>2
<1>6. id_particion \in Nat /\ n \in Nat /\ id_particion < n /\ id_particion <= n
  BY DEF IInv, TypeOK
<1>7. u = [t EXCEPT ![i] = w] /\ t = tabla /\ n = id_particion + 1
  OBVIOUS
<1> HIDE DEF n, t, v
<1>8. /\ w \in Registro /\ w.ini = v.ini /\ w.fin = v.fin /\ w.size = v.size
      /\ w.ocupada = v.ocupada /\ w.msg = v.msg /\ w.id = n
  BY <1>4, <1>6 DEF Registro
<1> HIDE DEF w, u
<1>9. v.ocupada /\ v \in Llenas(t)
  <2>1. v.msg # SinMensaje
    BY <1>4 DEF Mensaje, SinMensaje
  <2> QED BY <1>3, <1>4, <2>1 DEF Sana, Marcada, Llenas, Ocupadas
<1>10. /\ u \in Seq(Registro) /\ Len(u) = Len(t) /\ DOMAIN u = DOMAIN t
       /\ u[i] = w /\ \A k \in DOMAIN t : k # i => u[k] = t[k]
       /\ Cortada(u) /\ (LlegaAlFinal(t) => LlegaAlFinal(u))
       /\ Marcada(u) /\ IdsHasta(u, n)
  <2>1. w.ocupada <=> w.msg # SinMensaje
    BY <1>3, <1>4, <1>8 DEF Sana, Marcada
  <2>2. w.ini = t[i].ini /\ w.fin = t[i].fin /\ w.size = t[i].size
    BY <1>4, <1>8
  <2>3. /\ [t EXCEPT ![i] = w] \in Seq(Registro) /\ Len([t EXCEPT ![i] = w]) = Len(t)
        /\ DOMAIN [t EXCEPT ![i] = w] = DOMAIN t
        /\ [t EXCEPT ![i] = w][i] = w
        /\ \A k \in DOMAIN t : k # i => [t EXCEPT ![i] = w][k] = t[k]
        /\ Cortada(t) => Cortada([t EXCEPT ![i] = w])
        /\ LlegaAlFinal(t) => LlegaAlFinal([t EXCEPT ![i] = w])
        /\ Marcada(t) /\ (w.ocupada <=> w.msg # SinMensaje) => Marcada([t EXCEPT ![i] = w])
        /\ \A a, b : IdsHasta(t, a) /\ a \in Nat /\ b \in Nat /\ a <= b /\ w.id <= b
                       => IdsHasta([t EXCEPT ![i] = w], b)
    BY <1>3, <1>8, <2>2, CambiadaPuntual
  <2>4. IdsHasta(t, id_particion) /\ w.id <= n
    BY <1>3, <1>6, <1>8, <1>7 DEF Sana
  <2> QED BY <1>3, <1>6, <1>7, <2>1, <2>3, <2>4 DEF Sana
<1>11. Llenas(u) = (Llenas(t) \ {v}) \cup {w} /\ Distintas(u)
  <2>1. t[i].ocupada /\ u[i].ocupada /\ u[i].msg = t[i].msg /\ Distintas(t)
    BY <1>3, <1>4, <1>8, <1>9, <1>10 DEF Sana
  <2>2. Llenas(u) = (Llenas(t) \ {t[i]}) \cup {u[i]} /\ Distintas(u)
    BY <1>3, <1>10, <2>1, LlenasAlCambiar
  <2> QED BY <1>4, <1>10, <2>2
<1>12. \A k \in DOMAIN t : /\ u[k].ocupada = t[k].ocupada /\ u[k].size = t[k].size
                          /\ u[k].ini = t[k].ini /\ u[k].fin = t[k].fin
  <2>1. ASSUME NEW k \in DOMAIN t
        PROVE  /\ u[k].ocupada = t[k].ocupada /\ u[k].size = t[k].size
               /\ u[k].ini = t[k].ini /\ u[k].fin = t[k].fin
    BY <1>4, <1>8, <1>10
  <2> QED BY <2>1
<1>13. /\ tabla' = u /\ t = tabla /\ id_particion' = n
       /\ ALGORITMO_MEMORIA' = ALGORITMO_MEMORIA
  BY <1>1, <1>5, <1>7 DEF ALGORITMO_MEMORIA
<1>14. /\ Guardadas = Llenas(t) \cup Llenas(tarea.apartadas)
       /\ Guardadas' = Llenas(u) \cup Llenas(tarea.apartadas)
       /\ \A p \in Llenas(t), q \in Llenas(tarea.apartadas) : p.msg # q.msg
  BY <1>13, <1>24 DEF Guardadas, IInv, Apartado
<1>15. Guardadas' = (Guardadas \ {v}) \cup {w} /\ v \in Guardadas
  <2>1. v \notin Llenas(tarea.apartadas)
    BY <1>9, <1>14
  <2> QED BY <1>9, <1>11, <1>14, <2>1
<1>16. Historia' /\ TamaniosJustos' /\ Turnos' /\ Paciencia' /\ orden' \in Seq(Mensaje)
  <2>1. /\ UNCHANGED <<config, publicados, medida>>
        /\ w.msg = v.msg /\ w.size = v.size /\ w.id = id_particion'
        /\ id_particion' \in Nat /\ id_particion < id_particion'
        /\ orden' = Append(QuitarDe(orden, v.msg), v.msg) /\ perdidas' = perdidas \ {v.msg}
    BY <1>1, <1>4, <1>6, <1>8, <1>13
  <2> QED BY <1>15, <1>24, <2>1, HistoriaAlUsar
<1>17. Cortada(tabla') /\ Sana(tabla)' /\ tabla' \in Seq(Particion)
  BY <1>10, <1>11, <1>13, EnLaMemoria DEF Sana
<1>18. Apartado'
  <2>1. Sana(tarea.apartadas)'
    <3>1. IdsHasta(tarea.apartadas, n)
      BY <1>3, <1>6, IdsHastaMas DEF IInv, Apartado, Sana
    <3> QED BY <1>13, <1>24, <3>1 DEF IInv, Apartado, Sana
  <2>2. ASSUME NEW p \in Llenas(u), NEW q \in Llenas(tarea.apartadas) PROVE p.msg # q.msg
    BY <1>8, <1>9, <1>11, <1>14
  <2>3. posicion' = posicion
    <3>1. u = <<>> <=> t = <<>>
      BY <1>10, <1>3, EmptySeq
    <3>2. CASE t = <<>>
      BY <1>13, <3>1, <3>2 DEF posicion
    <3>3. CASE t # <<>>
      <4>1. Len(t) \in DOMAIN t
        BY <1>3, <3>3, EmptySeq, LenProperties
      <4>2. Last(u).fin = Last(t).fin
        BY <1>10, <1>12, <4>1 DEF Last
      <4> QED BY <1>13, <3>1, <3>3, <4>2 DEF posicion
    <3> QED BY <3>2, <3>3
  <2> QED BY <1>10, <1>13, <1>24, <2>1, <2>2, <2>3 DEF IInv, Apartado
<1>19. /\ SinVecinasLibres(t) => SinVecinasLibres(u)
       /\ HayLibre(u) <=> HayLibre(t)
       /\ OcupadasPrimero(t) => OcupadasPrimero(u)
  <2>1. SinVecinasLibres(t) => SinVecinasLibres(u)
    <3> SUFFICES ASSUME SinVecinasLibres(t), NEW k \in 1..(Len(t) - 1)
                 PROVE  u[k].ocupada \/ u[k+1].ocupada
      BY <1>10 DEF SinVecinasLibres
    <3>1. k \in DOMAIN t /\ k + 1 \in DOMAIN t
      BY <1>3, LenProperties
    <3> QED BY <1>12, <3>1 DEF SinVecinasLibres
  <2>2. HayLibre(u) <=> HayLibre(t)
    BY <1>10, <1>12 DEF HayLibre
  <2>3. OcupadasPrimero(t) => OcupadasPrimero(u)
    BY <1>10, <1>12 DEF OcupadasPrimero
  <2> QED BY <2>1, <2>2, <2>3
<1>20. Libres' /\ Buddies'
  <2>1. Alineada(t) => Alineada(u)
    BY <1>10, <1>12 DEF Alineada, EsBuddy
  <2> QED BY <1>13, <1>19, <1>24, <2>1 DEF IInv, Libres, Buddies
<1>21. PasoCoherente'
  <2>1. Candidatas(u, tarea.tamanio) = Candidatas(t, tarea.tamanio)
    BY <1>10, <1>12 DEF Candidatas, particionCandidata
  <2>2. Ocupadas(u) = Ocupadas(t)
    BY <1>10, <1>12 DEF Ocupadas
  <2> QED BY <1>13, <1>24, <2>1, <2>2 DEF IInv, PasoCoherente
<1>22. TypeOK'
  BY <1>1, <1>6, <1>13, <1>16, <1>17, <1>24 DEF IInv, TypeOK
<1>23. SeRenueva(m)
  BY <1>4, <1>6, <1>8, <1>13, <1>15 DEF SeRenueva
<1> QED BY <1>16, <1>17, <1>18, <1>20, <1>21, <1>22, <1>23 DEF IInv

\* A message is sent and the loop of actualizarID steps over its partition.
LEMMA AlUsarSinEfecto ==
  ASSUME IInv, config' = config, NEW m \in Mensaje, actualizarIDSinEfecto(m)
  PROVE  IInv' /\ MismaCache
<1>1. /\ m \in ToSet(orden) /\ orden' = Append(QuitarDe(orden, m), m)
      /\ usos' \in 0..MaxUsos /\ perdidas' = perdidas \cup {m}
      /\ UNCHANGED <<tarea, publicados, medida, tabla, id_particion>>
  BY ConstantesValidas DEF actualizarIDSinEfecto, Enviable, AlEnviar, IInv, TypeOK
<1>2. Guardadas' = Guardadas /\ posicion' = posicion /\ ALGORITMO_MEMORIA' = ALGORITMO_MEMORIA
  BY <1>1 DEF Guardadas, posicion, ALGORITMO_MEMORIA
<1>3. Historia' /\ TamaniosJustos' /\ Turnos' /\ Paciencia' /\ orden' \in Seq(Mensaje)
  BY <1>1, <1>2, HistoriaSinEfecto
<1>4. PasoCoherente' /\ Cortada(tabla') /\ Sana(tabla)' /\ Apartado' /\ Libres' /\ Buddies'
  BY <1>1, <1>2 DEF IInv, PasoCoherente, Sana, Apartado, Libres, Buddies
<1>5. TypeOK'
  BY <1>1, <1>3 DEF IInv, TypeOK
<1>6. MismaCache
  BY <1>2 DEF MismaCache, MismaFicha
<1> QED BY <1>3, <1>4, <1>5, <1>6 DEF IInv

\* The loop of actualizarID reads NULL and the process dies.
LEMMA AlUsarDeNulo ==
  ASSUME IInv, config' = config, NEW m \in Mensaje, actualizarIDDeNulo(m)
  PROVE  IInv' /\ MismaCache
<1>1. /\ tarea.paso # "ocioso" /\ tarea' = [tarea EXCEPT !.usoNulo = TRUE]
      /\ UNCHANGED <<tabla, id_particion, publicados, usos, medida, orden, perdidas>>
  BY DEF actualizarIDDeNulo
<1>2. tarea' \in Tareas
  BY <1>1 DEF IInv, TypeOK
<1>3. /\ tarea'.paso = tarea.paso /\ tarea'.apartadas = tarea.apartadas
      /\ tarea'.tamanio = tarea.tamanio /\ tarea'.msg = tarea.msg
      /\ tarea'.liberadas = tarea.liberadas /\ tarea'.cantElementos = tarea.cantElementos
      /\ tarea'.victima = tarea.victima /\ tarea'.hasta = tarea.hasta
  BY <1>1 DEF IInv, TypeOK
<1>4. ALGORITMO_MEMORIA' = ALGORITMO_MEMORIA
  BY DEF ALGORITMO_MEMORIA
<1>5. PasoCoherente'
  BY <1>1, <1>3, <1>4 DEF IInv, PasoCoherente
<1> QED BY <1>1, <1>2, <1>3, <1>5, AlSeguir

LEMMA AlNoHacerNada ==
  ASSUME IInv, UNCHANGED vars
  PROVE  IInv' /\ MismaCache
<1>1. UNCHANGED <<config, tabla, id_particion, tarea, publicados, usos, medida, orden, perdidas>>
  BY DEF vars
<1>2. /\ Guardadas' = Guardadas /\ posicion' = posicion /\ ALGORITMO_MEMORIA' = ALGORITMO_MEMORIA
      /\ EnCurso' = EnCurso
  BY <1>1 DEF Guardadas, posicion, ALGORITMO_MEMORIA, EnCurso
<1>3. PasoCoherente' /\ Cortada(tabla') /\ Sana(tabla)' /\ Apartado' /\ Libres' /\ Buddies'
  BY <1>1, <1>2 DEF IInv, PasoCoherente, Sana, Apartado, Libres, Buddies
<1>4. \A p \in Guardadas : Justa(p)' <=> Justa(p)
  BY <1>1 DEF Justa, TamanioPedido, AlMenosElMinimo, TAMANO_MINIMO_PARTICION, ALGORITMO_MEMORIA
<1>5. TamanioPedido(medida[tarea.msg])' = TamanioPedido(medida[tarea.msg])
  BY <1>1 DEF TamanioPedido, AlMenosElMinimo, TAMANO_MINIMO_PARTICION, ALGORITMO_MEMORIA
<1>6. Historia' /\ TamaniosJustos' /\ Turnos' /\ Paciencia'
  BY <1>1, <1>2, <1>4, <1>5 DEF IInv, Historia, TamaniosJustos, Turnos, Paciencia
<1>7. TypeOK'
  BY <1>1 DEF IInv, TypeOK
<1>8. MismaCache
  BY <1>2 DEF MismaCache, MismaFicha
<1> QED BY <1>3, <1>6, <1>7, <1>8 DEF IInv

-----------------------------------------------------------------------------
(* The theorems *)

\* Every step keeps the invariant.
LEMMA IInvInductivo == IInv /\ [Next]_vars => IInv'
<1> SUFFICES ASSUME IInv, [Next]_vars PROVE IInv'
  OBVIOUS
<1>1. CASE UNCHANGED vars
  BY <1>1, AlNoHacerNada
<1>2. CASE Next
  <2>1. config' = config
    BY <1>2 DEF Next
  <2>2. ASSUME NEW n \in config.tamanios, guardarMensajeEnCache(n) PROVE IInv'
    BY <2>1, <2>2, AlComenzar
  <2>3. CASE Almacenar
    <3>1. CASE GuardarDinamica
      BY <2>1, <3>1, AlGuardarDinamica
    <3>2. CASE GuardarBS
      BY <2>1, <3>2, AlGuardarBS
    <3>3. CASE PartirBS
      BY <2>1, <3>3, AlPartirBS
    <3>4. CASE LiberarVictima
      BY <2>1, <3>4, AlLiberar
    <3>5. CASE DesreferenciarVictimaNula
      BY <2>1, <3>5, AlDesreferenciar
    <3>6. CASE VaciarTabla
      BY <2>1, <3>6, AlVaciarTabla
    <3>7. CASE ReponerParticion
      BY <2>1, <3>7, AlReponer
    <3>8. CASE TerminarDeReponer
      BY <2>1, <3>8, AlTerminarDeReponer
    <3>9. CASE ConsolidarLibres
      BY <2>1, <3>9, AlConsolidarLibres
    <3>10. CASE ElegirVictima
      BY <2>1, <3>10, AlElegir
    <3>11. CASE CompararVictima
      BY <2>1, <3>11, AlComparar
    <3> QED BY <2>3, <3>1, <3>2, <3>3, <3>4, <3>5, <3>6, <3>7, <3>8, <3>9, <3>10, <3>11
            DEF Almacenar
  <2>4. ASSUME NEW m \in Mensaje, actualizarID(m) PROVE IInv'
    BY <2>1, <2>4, AlUsar
  <2>5. ASSUME NEW m \in Mensaje, actualizarIDSinEfecto(m) PROVE IInv'
    BY <2>1, <2>5, AlUsarSinEfecto
  <2>6. ASSUME NEW m \in Mensaje, actualizarIDDeNulo(m) PROVE IInv'
    BY <2>1, <2>6, AlUsarDeNulo
  <2> QED BY <1>2, <2>2, <2>3, <2>4, <2>5, <2>6 DEF Next
<1> QED BY <1>1, <1>2

LEMMA SiempreIInv == Spec => []IInv
BY IInvInicial, IInvInductivo, PTL DEF Spec

\* Every variable always holds a value of the kind its declaration in the code says.
THEOREM TiposDeLaMemoria == Spec => []TypeOK
<1>1. IInv => TypeOK
  BY DEF IInv
<1> QED BY <1>1, SiempreIInv, PTL

\* The partitions always tile the memory: whatever was split, joined, evicted
\* or compacted, they follow one another from byte 0 to the last.
THEOREM MemoriaSinHuecos == Spec => []Particionada
<1>1. IInv => Particionada
  <2> SUFFICES ASSUME IInv, tarea.paso # "reponer"
               PROVE  /\ tabla # <<>> /\ tabla[1].ini = 0 /\ Last(tabla).fin = TAMANO_MEMORIA - 1
                      /\ \A i \in DOMAIN tabla : tabla[i].size > 0
                                  /\ tabla[i].fin = tabla[i].ini + tabla[i].size - 1
                      /\ \A i \in 1..(Len(tabla) - 1) : tabla[i+1].ini = tabla[i].fin + 1
    BY DEF Particionada
  <2>1. Cortada(tabla) /\ LlegaAlFinal(tabla) /\ tabla \in Seq(Registro)
    BY ListaEntera
  <2>2. ASSUME NEW i \in DOMAIN tabla PROVE tabla[i].size > 0
    <3>1. i \in 1..Len(tabla)
      BY <2>1, LenProperties
    <3>2. tabla[i] \in Registro
      BY <2>1, <3>1, ElementOfSeq
    <3> QED BY <2>1, <3>2 DEF Cortada, Registro
  <2> QED BY <2>1, <2>2 DEF Cortada, LlegaAlFinal, Last
<1> QED BY <1>1, SiempreIInv, PTL

\* Under dynamic partitions, outside a compaction, two neighbouring free
\* partitions never remain unjoined.
THEOREM LibresUnidas == Spec => []SinLibresContiguas
<1>1. IInv => SinLibresContiguas
  BY DEF IInv, Libres, SinLibresContiguas, SinVecinasLibres
<1> QED BY <1>1, SiempreIInv, PTL

\* A message stored and not evicted is in exactly one occupied partition,
\* through every split, join and compaction; no other partition is occupied.
THEOREM MensajesEnSuLugar == Spec => []CacheCoherente
<1>1. IInv => CacheCoherente
  <2> SUFFICES ASSUME IInv PROVE CacheCoherente
    OBVIOUS
  <2> DEFINE s == tarea.apartadas
             todas == tabla \o s
             a == Len(tabla)
             b == Len(s)
  <2>1. tabla \in Seq(Registro) /\ s \in Seq(Registro)
    BY GuardadasDistintas
  <2>2. /\ a \in Nat /\ b \in Nat /\ DOMAIN tabla = 1..a /\ DOMAIN s = 1..b
        /\ todas \in Seq(Registro) /\ Len(todas) = a + b
        /\ \A k \in 1..a : todas[k] = tabla[k]
        /\ \A k \in 1..b : todas[a + k] = s[k]
    BY <2>1, ConcatPuntual, LenProperties
  <2>3. DOMAIN todas = 1..(a + b)
    BY <2>2, LenProperties
  <2>4. /\ Sana(tabla) /\ Sana(s)
        /\ \A p \in Llenas(tabla), q \in Llenas(s) : p.msg # q.msg
        /\ ToSet(orden) = {p.msg : p \in Guardadas}
        /\ Guardadas = Llenas(tabla) \cup Llenas(s)
    BY DEF IInv, Apartado, Historia, Guardadas
  <2>5. CacheCoherente <=>
          /\ {todas[i].msg : i \in Ocupadas(todas)} = ToSet(orden)
          /\ \A i, j \in Ocupadas(todas) : todas[i].msg = todas[j].msg => i = j
          /\ \A i \in DOMAIN todas : todas[i].ocupada <=> todas[i].msg # SinMensaje
    BY DEF CacheCoherente
  <2> HIDE DEF s, todas, a, b
  <2>6. ASSUME NEW i \in 1..(a + b)
        PROVE  \/ i \in 1..a /\ i \in DOMAIN tabla /\ todas[i] = tabla[i]
               \/ i - a \in 1..b /\ i - a \in DOMAIN s /\ todas[i] = s[i-a] /\ a + (i - a) = i
    <3>1. CASE i <= a
      <4>1. i \in 1..a
        BY <2>2, <3>1
      <4> QED BY <2>2, <4>1
    <3>2. CASE ~(i <= a)
      <4>1. i - a \in 1..b /\ a + (i - a) = i
        BY <2>2, <3>2
      <4>2. todas[a + (i - a)] = s[i-a]
        BY <2>2, <4>1
      <4> QED BY <2>2, <4>1, <4>2
    <3> QED BY <3>1, <3>2
  <2>7. ASSUME NEW i \in Ocupadas(todas)
        PROVE  /\ i \in 1..(a + b) /\ todas[i] \in Guardadas
               /\ \/ i \in Ocupadas(tabla) /\ todas[i] = tabla[i] /\ todas[i] \in Llenas(tabla)
                  \/ i - a \in Ocupadas(s) /\ todas[i] = s[i-a] /\ todas[i] \in Llenas(s)
                     /\ a + (i - a) = i
    <3>1. i \in 1..(a + b) /\ todas[i].ocupada
      BY <2>3 DEF Ocupadas
    <3> QED BY <2>4, <2>6, <3>1 DEF Ocupadas, Llenas
  <2>8. ASSUME NEW p \in Guardadas PROVE \E i \in Ocupadas(todas) : todas[i] = p
    <3>1. CASE p \in Llenas(tabla)
      <4>1. PICK k \in 1..a : tabla[k].ocupada /\ p = tabla[k]
        BY <2>2, <3>1 DEF Llenas, Ocupadas
      <4>2. k \in DOMAIN todas /\ todas[k] = p
        BY <2>2, <2>3, <4>1
      <4> QED BY <4>1, <4>2 DEF Ocupadas
    <3>2. CASE p \in Llenas(s)
      <4>1. PICK k \in 1..b : s[k].ocupada /\ p = s[k]
        BY <2>2, <3>2 DEF Llenas, Ocupadas
      <4>2. a + k \in 1..(a + b) /\ todas[a + k] = p
        BY <2>2, <4>1
      <4>3. a + k \in Ocupadas(todas)
        BY <2>3, <4>1, <4>2 DEF Ocupadas
      <4> QED BY <4>2, <4>3
    <3> QED BY <2>4, <3>1, <3>2
  <2>9. {todas[i].msg : i \in Ocupadas(todas)} = ToSet(orden)
    <3>1. ASSUME NEW m \in ToSet(orden) PROVE \E i \in Ocupadas(todas) : todas[i].msg = m
      <4>1. PICK p \in Guardadas : p.msg = m
        BY <2>4
      <4> QED BY <2>8, <4>1
    <3>2. ASSUME NEW i \in Ocupadas(todas) PROVE todas[i].msg \in ToSet(orden)
      BY <2>4, <2>7
    <3> QED BY <3>1, <3>2
  <2>10. ASSUME NEW i \in Ocupadas(todas), NEW j \in Ocupadas(todas), todas[i].msg = todas[j].msg
         PROVE  i = j
    <3>1. CASE i \in Ocupadas(tabla) /\ todas[i] = tabla[i] /\ todas[i] \in Llenas(tabla)
      <4>1. todas[j] \notin Llenas(s)
        BY <2>4, <2>10, <3>1
      <4>2. j \in Ocupadas(tabla) /\ todas[j] = tabla[j]
        BY <2>7, <4>1
      <4> QED BY <2>4, <2>10, <3>1, <4>2 DEF Sana, Distintas
    <3>2. CASE i - a \in Ocupadas(s) /\ todas[i] = s[i-a] /\ todas[i] \in Llenas(s)
               /\ a + (i - a) = i
      <4>1. todas[j] \notin Llenas(tabla)
        BY <2>4, <2>10, <3>2
      <4>2. j - a \in Ocupadas(s) /\ todas[j] = s[j-a] /\ a + (j - a) = j
        BY <2>7, <4>1
      <4>3. i - a = j - a
        BY <2>4, <2>10, <3>2, <4>2 DEF Sana, Distintas
      <4>4. a + (i - a) = a + (j - a)
        BY <4>3
      <4> QED BY <3>2, <4>2, <4>4
    <3> QED BY <2>7, <3>1, <3>2
  <2>11. ASSUME NEW i \in DOMAIN todas PROVE todas[i].ocupada <=> todas[i].msg # SinMensaje
    <3>1. i \in 1..(a + b)
      BY <2>3
    <3> QED BY <2>4, <2>6, <3>1 DEF Sana, Marcada
  <2> QED BY <2>5, <2>9, <2>10, <2>11
<1> QED BY <1>1, SiempreIInv, PTL

\* A message always has at least the room it takes, and never less than the minimum.
THEOREM LugarParaCadaMensaje == Spec => []CabeElMensaje
<1>1. IInv => CabeElMensaje
  <2> SUFFICES ASSUME IInv, NEW i \in Ocupadas(tabla)
               PROVE  /\ tabla[i].size >= medida[tabla[i].msg]
                      /\ tabla[i].size >= TAMANO_MINIMO_PARTICION
    BY DEF CabeElMensaje
  <2> DEFINE p == tabla[i]
             x == TamanioPedido(medida[p.msg])
  <2>1. p \in Guardadas
    BY DEF Guardadas, Llenas
  <2>2. p \in Registro /\ p.msg \in Mensaje /\ x <= p.size
    BY <2>1, GuardadasDistintas DEF IInv, TamaniosJustos, Justa
  <2>3. medida[p.msg] \in Nat /\ x \in Nat /\ medida[p.msg] <= x /\ TAMANO_MINIMO_PARTICION <= x
    BY <2>2, Pedido
  <2>4. TAMANO_MINIMO_PARTICION \in Nat
    BY ConstantesValidas DEF IInv, TypeOK, TAMANO_MINIMO_PARTICION
  <2>5. p.size \in Int
    BY <2>2 DEF Registro
  <2> DEFINE a == p.size
             c == medida[p.msg]
  <2> HIDE DEF x, a, c
  <2>6. a \in Int /\ c \in Nat /\ x \in Nat /\ c <= x /\ TAMANO_MINIMO_PARTICION <= x /\ x <= a
    BY <2>2, <2>3, <2>5 DEF a, c
  <2>7. a >= c /\ a >= TAMANO_MINIMO_PARTICION
    BY <2>4, <2>6
  <2> QED BY <2>7 DEF a, c
<1> QED BY <1>1, SiempreIInv, PTL

\* Under dynamic partitions a message has exactly the room it asked for: what
\* the first fit or the best fit leaves over is always cut off.
THEOREM SobranteSiempreCortado == Spec => []SobranteCortado
<1>1. IInv => SobranteCortado
  BY DEF IInv, TamaniosJustos, Justa, Guardadas, Llenas, SobranteCortado, TamanioExacto
<1> QED BY <1>1, SiempreIInv, PTL

\* Buddy partitions are powers of two at multiples of their size.
THEOREM BuddiesSiempreAlineados == Spec => []BuddiesAlineados
<1>1. IInv => BuddiesAlineados
  <2> SUFFICES ASSUME IInv, ALGORITMO_MEMORIA = "BS", NEW i \in DOMAIN tabla
               PROVE  EsPotenciaDeDos(tabla[i].size) /\ tabla[i].ini % tabla[i].size = 0
    BY DEF BuddiesAlineados
  <2>1. PICK k \in Nat, a \in Nat : tabla[i].size = potencia[k] /\ tabla[i].ini = a * tabla[i].size
    BY DEF IInv, Buddies, Alineada, EsBuddy
  <2>2. potencia[k] \in Nat \ {0} /\ k < potencia[k]
    BY Potencias
  <2>3. k \in 0..potencia[k]
    BY <2>2
  <2>4. EsPotenciaDeDos(tabla[i].size)
    BY <2>1, <2>3 DEF EsPotenciaDeDos
  <2> DEFINE s == tabla[i].size
  <2>5. s \in Nat \ {0} /\ tabla[i].ini = a * s
    BY <2>1, <2>2
  <2> HIDE DEF s
  <2>6. (a * s) % s = 0
    BY <2>5, Multiplos
  <2> QED BY <2>4, <2>5, <2>6 DEF s
<1> QED BY <1>1, SiempreIInv, PTL

\* A store never evicts more partitions than there were when it began: the
\* bound of its loop never cuts it short.
THEOREM LaBusquedaNoSeCorta == Spec => []NuncaAbandona
<1>1. IInv => NuncaAbandona
  <2> SUFFICES ASSUME IInv PROVE tarea.liberadas <= tarea.cantElementos
    BY DEF NuncaAbandona
  <2>1. CASE EnCurso
    <3>1. Len(orden) \in Nat /\ tarea.liberadas \in Nat /\ tarea.cantElementos \in Nat
      BY LenProperties DEF IInv, TypeOK
    <3>2. tarea.liberadas + Len(orden) <= tarea.cantElementos
      BY <2>1 DEF IInv, Paciencia
    <3> QED BY <3>1, <3>2
  <2>2. CASE ~EnCurso
    BY <2>2 DEF IInv, EnCurso, PasoCoherente, Ocioso
  <2> QED BY <2>1, <2>2
<1> QED BY <1>1, SiempreIInv, PTL

-----------------------------------------------------------------------------
(* Dynamic partitions never run out of victims *)

\* No message is larger than the memory.
MensajesQueEntran ==
  \A c \in Configuraciones : c.memoria = "PARTICIONES" => c.tamanios \subseteq 1..TAMANO_MEMORIA

\* With nothing left to evict, the memory is one free partition.
LEMMA TodoLibreEsUna ==
  ASSUME NEW t \in Seq(Registro), Cortada(t), LlegaAlFinal(t), SinVecinasLibres(t),
         Ocupadas(t) = {}
  PROVE  1 \in DOMAIN t /\ ~t[1].ocupada /\ t[1].size = TAMANO_MEMORIA
<1>1. Len(t) \in Nat /\ DOMAIN t = 1..Len(t) /\ t # <<>>
  BY LenProperties DEF LlegaAlFinal
<1>2. \A k \in 1..Len(t) : ~t[k].ocupada
  BY <1>1 DEF Ocupadas
<1>3. Len(t) = 1
  <2>1. Len(t) # 0
    BY <1>1, EmptySeq
  <2>2. SUFFICES ASSUME Len(t) > 1 PROVE FALSE
    BY <1>1, <2>1
  <2>3. 1 \in 1..(Len(t) - 1) /\ 1 \in 1..Len(t) /\ 1 + 1 \in 1..Len(t)
    BY <1>1, <2>2
  <2> QED BY <1>2, <2>3 DEF SinVecinasLibres
<1>4. 1 \in 1..Len(t)
  BY <1>3
<1>5. t[1] \in Registro
  BY <1>4, ElementOfSeq
<1>6. t[1].ini = 0 /\ t[1].fin = TAMANO_MEMORIA - 1 /\ t[1].fin = t[1].ini + t[1].size - 1
  BY <1>1, <1>3, <1>4 DEF Cortada, LlegaAlFinal
<1>7. t[1].size = TAMANO_MEMORIA
  <2>1. t[1].size \in Int /\ TAMANO_MEMORIA \in Nat
    BY <1>5, ConstantesValidas DEF Registro
  <2> QED BY <1>6, <2>1
<1> QED BY <1>1, <1>2, <1>4, <1>7

\* Under dynamic partitions a store never dereferences a NULL victim, if no
\* message is larger than the memory: everything freed comes together in one
\* partition, and the message fits in it.
THEOREM DinamicaSiempreConVictima ==
  ASSUME MensajesQueEntran
  PROVE  Spec => []DinamicaSinVictimaNula
<1>1. Init => DinamicaSinVictimaNula
  BY DEF Init, Ocioso, DinamicaSinVictimaNula, SinVictimaNula
<1>2. IInv /\ DinamicaSinVictimaNula /\ [Next]_vars => DinamicaSinVictimaNula'
  <2> SUFFICES ASSUME IInv, DinamicaSinVictimaNula, [Next]_vars, ALGORITMO_MEMORIA' = "PARTICIONES"
               PROVE  tarea'.paso # "segfault"
    BY DEF DinamicaSinVictimaNula, SinVictimaNula
  <2>1. config' = config /\ ALGORITMO_MEMORIA = "PARTICIONES" /\ tarea.paso # "segfault"
    BY DEF Next, vars, ALGORITMO_MEMORIA, DinamicaSinVictimaNula, SinVictimaNula
  <2>2. tarea \in Tareas
    BY DEF IInv, TypeOK
  <2>3. CASE UNCHANGED vars
    BY <2>1, <2>3 DEF vars
  <2>4. ASSUME NEW n \in config.tamanios, guardarMensajeEnCache(n) PROVE tarea'.paso # "segfault"
    BY <2>4 DEF guardarMensajeEnCache, Ocioso
  <2>5. CASE GuardarDinamica \/ GuardarBS
    BY <2>5 DEF GuardarDinamica, GuardarBS, Guardar, Ocioso
  <2>6. CASE PartirBS \/ ElegirVictima \/ CompararVictima \/ LiberarVictima
    BY <2>2, <2>6 DEF PartirBS, ElegirVictima, CompararVictima, LiberarVictima
  <2>7. CASE DesreferenciarVictimaNula
    <3> SUFFICES FALSE
      OBVIOUS
    <3>1. /\ tarea.paso = "buscar" /\ ~hayParticionesCandidatas(tarea.tamanio)
          /\ Ocupadas(tabla) = {}
      BY <2>7 DEF DesreferenciarVictimaNula, Buscando
    <3>2. /\ tabla \in Seq(Registro) /\ Cortada(tabla) /\ LlegaAlFinal(tabla)
          /\ SinVecinasLibres(tabla)
      BY <2>1, <3>1, ListaEntera
    <3>3. 1 \in DOMAIN tabla /\ ~tabla[1].ocupada /\ tabla[1].size = TAMANO_MEMORIA
      BY <3>1, <3>2, TodoLibreEsUna
    <3>4. tarea.tamanio <= TAMANO_MEMORIA
      <4>1. /\ tarea.msg = publicados /\ publicados \in Mensaje
            /\ tarea.tamanio = TamanioPedido(medida[tarea.msg])
            /\ \A m \in 1..publicados : medida[m] \in config.tamanios
        BY <3>1 DEF IInv, EnCurso, Historia, TamaniosJustos
      <4>2. medida[tarea.msg] \in config.tamanios
        <5>1. publicados \in 1..publicados
          BY <4>1 DEF Mensaje
        <5> QED BY <4>1, <5>1
      <4>3. config \in Configuraciones /\ config.memoria = "PARTICIONES"
        BY <2>1 DEF IInv, TypeOK, ALGORITMO_MEMORIA
      <4>4. medida[tarea.msg] \in 1..TAMANO_MEMORIA
        BY <4>2, <4>3 DEF MensajesQueEntran
      <4>5. config.minimo \in 1..TAMANO_MEMORIA
        BY <4>3, ConstantesValidas
      <4> DEFINE n == medida[tarea.msg]
      <4>6. tarea.tamanio = IF n < config.minimo THEN config.minimo ELSE n
        BY <2>1, <4>1 DEF TamanioPedido, AlMenosElMinimo, TAMANO_MINIMO_PARTICION
      <4> HIDE DEF n
      <4> QED BY <4>4, <4>5, <4>6 DEF n
    <3> QED BY <3>1, <3>3, <3>4 DEF hayParticionesCandidatas, particionCandidata
  <2>8. CASE VaciarTabla \/ ReponerParticion \/ TerminarDeReponer
    BY <2>2, <2>8 DEF VaciarTabla, ReponerParticion, TerminarDeReponer
  <2>9. CASE ConsolidarLibres
    BY <2>1, <2>2, <2>9 DEF ConsolidarLibres
  <2>10. ASSUME NEW m \in Mensaje,
                actualizarID(m) \/ actualizarIDSinEfecto(m) \/ actualizarIDDeNulo(m)
         PROVE  tarea'.paso # "segfault"
    BY <2>1, <2>2, <2>10 DEF actualizarID, actualizarIDSinEfecto, actualizarIDDeNulo
  <2> QED BY <2>3, <2>4, <2>5, <2>6, <2>7, <2>8, <2>9, <2>10 DEF Next, Almacenar
<1> QED BY <1>1, <1>2, SiempreIInv, PTL DEF Spec

-----------------------------------------------------------------------------
(* The choice of a victim *)

\* Once the choice has looked at the partition whose turn it is, that one is
\* the victim, unless it was renewed since the choice began.
Elegida ==
  /\ tarea.paso # "elegir" => tarea.victima = 0 /\ ~tarea.renovada
  /\ tarea.paso = "elegir" /\ ~tarea.renovada /\ LaDeMenorId(tabla) <= tarea.hasta =>
       tarea.victima = LaDeMenorId(tabla)

\* While a victim is chosen there is a partition whose turn it is.
LEMMA TurnoDefinido ==
  ASSUME IInv, tarea.paso = "elegir"
  PROVE  LET h == LaDeMenorId(tabla)
         IN  /\ h \in Ocupadas(tabla) /\ h \in Nat
             /\ \A j \in Ocupadas(tabla) : tabla[h].id <= tabla[j].id /\ tabla[j].id \in Nat
             /\ \A i \in Ocupadas(tabla) :
                  (\A j \in Ocupadas(tabla) : tabla[i].id <= tabla[j].id) => h <= i
<1>1. tabla \in Seq(Registro) /\ DOMAIN tabla = 1..Len(tabla) /\ Ocupadas(tabla) # {}
  BY ListaEntera DEF IInv, PasoCoherente
<1>2. \A j \in Ocupadas(tabla) : j \in Nat /\ tabla[j].id \in Nat
  <2>1. ASSUME NEW j \in Ocupadas(tabla) PROVE j \in Nat /\ tabla[j] \in Registro
    BY <1>1, ElementOfSeq DEF Ocupadas
  <2> QED BY <2>1 DEF Registro
<1> QED BY <1>1, <1>2, MenorIdDefinido

\* One comparison: from then on the partition whose turn it is stays the victim.
LEMMA ElegidaAlComparar ==
  ASSUME IInv, Elegida, CompararVictima
  PROVE  Elegida'
<1> DEFINE h == LaDeMenorId(tabla)
           j == Min(PorMirar)
           v == tarea.victima
           w == CompararCandidata(tabla, v, j)
<1>1. /\ tarea.paso = "elegir" /\ PorMirar # {} /\ tabla' = tabla
      /\ tarea' = [tarea EXCEPT !.victima = w, !.hasta = j]
  BY DEF CompararVictima, IInv, TypeOK
<1>2. /\ h \in Ocupadas(tabla) /\ h \in Nat
      /\ \A k \in Ocupadas(tabla) : tabla[h].id <= tabla[k].id /\ tabla[k].id \in Nat
      /\ \A i \in Ocupadas(tabla) :
           (\A k \in Ocupadas(tabla) : tabla[i].id <= tabla[k].id) => h <= i
  BY <1>1, TurnoDefinido
<1>3. /\ v \in Ocupadas(tabla) /\ v <= tarea.hasta /\ v \in Nat /\ tarea.hasta \in Nat
  BY <1>1 DEF IInv, TypeOK, PasoCoherente
<1>4. /\ j \in Ocupadas(tabla) /\ j \in Nat /\ tarea.hasta < j
      /\ \A k \in Ocupadas(tabla) : tarea.hasta < k => j <= k
  <2>1. PorMirar \in SUBSET Nat
    BY <1>1, ListaEntera DEF PorMirar, Ocupadas
  <2>2. j \in PorMirar /\ \A k \in PorMirar : j <= k
    BY <1>1, <2>1, MinDeNaturales
  <2>3. \A k \in Ocupadas(tabla) : k \in Nat
    BY <1>1, ListaEntera DEF Ocupadas
  <2> QED BY <1>3, <2>1, <2>2, <2>3 DEF PorMirar
<1>5. /\ tarea'.paso = "elegir" /\ tarea'.victima = w /\ tarea'.hasta = j
      /\ tarea'.renovada = tarea.renovada
  BY <1>1 DEF IInv, TypeOK
<1>6. w = IF tabla[v].id > tabla[j].id THEN j ELSE v
  BY DEF CompararCandidata
<1>7. ~tarea.renovada /\ h <= tarea.hasta => v = h
  BY <1>1 DEF Elegida
<1>8. LaDeMenorId(tabla') = h
  BY <1>1
<1> HIDE DEF h, j, v, w
<1>9. ~tarea.renovada /\ h <= j => w = h
  <2> SUFFICES ASSUME ~tarea.renovada, h <= j PROVE w = h
    OBVIOUS
  <2>1. CASE h <= tarea.hasta
    <3>1. v = h /\ ~(tabla[h].id > tabla[j].id)
      BY <1>2, <1>4, <1>7, <2>1
    <3> QED BY <1>6, <3>1
  <2>2. CASE ~(h <= tarea.hasta)
    <3>1. h = j
      BY <1>2, <1>3, <1>4, <2>2
    <3>2. tabla[v].id > tabla[h].id
      <4> SUFFICES ASSUME ~(tabla[v].id > tabla[h].id) PROVE FALSE
        OBVIOUS
      <4>1. tabla[v].id = tabla[h].id
        BY <1>2, <1>3
      <4>2. h <= v
        BY <1>2, <1>3, <4>1
      <4> QED BY <1>2, <1>3, <2>2, <4>2
    <3> QED BY <1>6, <3>1, <3>2
  <2> QED BY <2>1, <2>2
<1> QED BY <1>5, <1>8, <1>9 DEF Elegida

\* A use renews the partition whose turn it is, and that is noted, or another
\* one, and then it is still its turn.
LEMMA ElegidaAlUsar ==
  ASSUME IInv, Elegida, NEW m \in Mensaje, actualizarID(m)
  PROVE  Elegida'
<1> DEFINE n == id_particion + 1
           h == LaDeMenorId(tabla)
<1>1. PICK i \in DOMAIN tabla :
        /\ tabla[i].msg = m /\ tabla' = [tabla EXCEPT ![i].id = n]
        /\ tarea' = [tarea EXCEPT !.renovada = @ \/ (tarea.paso = "elegir" /\ i = h)]
  BY DEF actualizarID
<1>2. /\ tarea'.paso = tarea.paso /\ tarea'.victima = tarea.victima
      /\ tarea'.hasta = tarea.hasta
      /\ tarea'.renovada <=> tarea.renovada \/ (tarea.paso = "elegir" /\ i = h)
  BY <1>1 DEF IInv, TypeOK
<1>3. CASE tarea.paso # "elegir"
  BY <1>2, <1>3 DEF Elegida
<1>4. CASE tarea.paso = "elegir" /\ (tarea.renovada \/ i = h)
  BY <1>2, <1>4 DEF Elegida
<1>5. CASE tarea.paso = "elegir" /\ ~tarea.renovada /\ i # h
  <2>1. /\ h \in Ocupadas(tabla) /\ h \in Nat
        /\ \A k \in Ocupadas(tabla) : tabla[h].id <= tabla[k].id /\ tabla[k].id \in Nat
        /\ \A k \in Ocupadas(tabla) :
             (\A j \in Ocupadas(tabla) : tabla[k].id <= tabla[j].id) => h <= k
    BY <1>5, TurnoDefinido
  <2>2. /\ tabla \in Seq(Registro) /\ DOMAIN tabla = 1..Len(tabla)
        /\ IdsHasta(tabla, id_particion) /\ id_particion \in Nat
    BY <1>5, ListaEntera
  <2>3. \A k \in DOMAIN tabla : tabla[k] \in Registro
    BY <2>2, ElementOfSeq
  <2>4. /\ DOMAIN tabla' = DOMAIN tabla
        /\ \A k \in DOMAIN tabla : /\ tabla'[k].ocupada = tabla[k].ocupada
                                   /\ k # i => tabla'[k].id = tabla[k].id
        /\ tabla'[i].id = n
    <3>1. DOMAIN tabla' = DOMAIN tabla /\ \A k \in DOMAIN tabla : k # i => tabla'[k] = tabla[k]
      BY <1>1
    <3>2. tabla'[i] = [tabla[i] EXCEPT !.id = n]
      BY <1>1
    <3>3. tabla'[i].ocupada = tabla[i].ocupada /\ tabla'[i].id = n
      BY <2>3, <3>2 DEF Registro
    <3> QED BY <3>1, <3>3
  <2>5. Ocupadas(tabla') = Ocupadas(tabla)
    BY <2>4 DEF Ocupadas
  <2>6. \A k \in Ocupadas(tabla) : tabla[k].id <= id_particion
    BY <2>2, <2>3 DEF IdsHasta, Ocupadas
  <2>7. \A k \in Ocupadas(tabla) : k \in DOMAIN tabla
    BY DEF Ocupadas
  <2> HIDE DEF h
  <2>8. i # h /\ n \in Nat /\ id_particion < n /\ n = id_particion + 1
    BY <1>5, <2>2
  <2> HIDE DEF n
  <2>9. \A k \in Ocupadas(tabla) : tabla'[h].id <= tabla'[k].id
    <3>1. tabla'[h].id = tabla[h].id /\ tabla[h].id \in Nat /\ tabla[h].id <= id_particion
      BY <2>1, <2>4, <2>6, <2>7, <2>8
    <3>2. ASSUME NEW k \in Ocupadas(tabla) PROVE tabla'[h].id <= tabla'[k].id
      <4>1. CASE k = i
        BY <2>2, <2>4, <2>8, <3>1, <4>1
      <4>2. CASE k # i
        BY <2>1, <2>4, <2>7, <3>1, <4>2
      <4> QED BY <4>1, <4>2
    <3> QED BY <3>2
  <2>10. ASSUME NEW k \in Ocupadas(tabla), \A j \in Ocupadas(tabla) : tabla'[k].id <= tabla'[j].id
         PROVE  h <= k
    <3>1. tabla'[h].id = tabla[h].id /\ tabla[h].id \in Nat /\ tabla[h].id <= id_particion
      BY <2>1, <2>4, <2>6, <2>7, <2>8
    <3>2. tabla'[k].id <= tabla'[h].id
      BY <2>1, <2>10
    <3>3. k # i
      BY <2>2, <2>4, <2>8, <3>1, <3>2
    <3>4. tabla'[k].id = tabla[k].id /\ tabla[k].id \in Nat
      BY <2>1, <2>4, <2>7, <3>3
    <3>5. ASSUME NEW j \in Ocupadas(tabla) PROVE tabla[k].id <= tabla[j].id
      BY <2>1, <3>1, <3>2, <3>4
    <3> QED BY <2>1, <3>5
  <2>11. LaDeMenorId(tabla') = h
    <3> DEFINE P == {k \in Ocupadas(tabla) : \A j \in Ocupadas(tabla) : tabla'[k].id <= tabla'[j].id}
    <3>1. LaDeMenorId(tabla') = Min(P)
      BY <2>5 DEF LaDeMenorId
    <3>2. h \in P /\ \A k \in P : h <= k
      BY <2>1, <2>9, <2>10
    <3>3. P \in SUBSET Nat
      BY <2>2, <2>7
    <3> HIDE DEF P
    <3>4. Min(P) \in P /\ Min(P) <= h
      BY <3>2, <3>3, MinDeNaturales
    <3>5. Min(P) \in Nat /\ h <= Min(P)
      BY <3>2, <3>3, <3>4
    <3> QED BY <2>1, <3>1, <3>4, <3>5
  <2>12. h <= tarea.hasta => tarea.victima = h
    BY <1>5 DEF Elegida, h
  <2> QED BY <1>2, <1>5, <2>11, <2>12 DEF Elegida
<1> QED BY <1>3, <1>4, <1>5

LEMMA SiempreElegida == Spec => []Elegida
<1>1. Init => Elegida
  BY DEF Init, Ocioso, Elegida
<1>2. IInv /\ Elegida /\ [Next]_vars => Elegida'
  <2> SUFFICES ASSUME IInv, Elegida, [Next]_vars PROVE Elegida'
    OBVIOUS
  <2>1. tarea \in Tareas
    BY DEF IInv, TypeOK
  <2>2. ASSUME tarea'.paso # "elegir", tarea'.victima = 0, ~tarea'.renovada PROVE Elegida'
    BY <2>2 DEF Elegida
  <2>3. ASSUME UNCHANGED tabla, tarea'.paso = tarea.paso, tarea'.victima = tarea.victima,
               tarea'.hasta = tarea.hasta, tarea'.renovada = tarea.renovada
        PROVE  Elegida'
    BY <2>3 DEF Elegida, LaDeMenorId, Ocupadas
  <2>4. ASSUME NEW n \in config.tamanios, guardarMensajeEnCache(n) PROVE Elegida'
    BY <2>2, <2>4 DEF guardarMensajeEnCache, Ocioso
  <2>5. CASE GuardarDinamica \/ GuardarBS
    BY <2>2, <2>5 DEF GuardarDinamica, GuardarBS, Guardar, Ocioso
  <2>6. CASE PartirBS
    <3>1. /\ tarea.paso # "elegir" /\ tarea'.paso = "partir"
          /\ tarea'.victima = tarea.victima /\ tarea'.renovada = tarea.renovada
      BY <2>1, <2>6 DEF PartirBS, Buscando
    <3> QED BY <2>2, <3>1 DEF Elegida
  <2>7. CASE ElegirVictima
    <3> DEFINE i == Min(Ocupadas(tabla))
    <3>1. /\ tarea.paso = "buscar" /\ tabla' = tabla /\ Ocupadas(tabla) # {}
          /\ tarea' = [tarea EXCEPT !.paso = "elegir", !.victima = i, !.hasta = i]
      BY <2>7 DEF ElegirVictima, Buscando
    <3>2. /\ tarea'.paso = "elegir" /\ tarea'.victima = i /\ tarea'.hasta = i
      BY <2>1, <3>1
    <3>3. Ocupadas(tabla) \in SUBSET Nat /\ tabla \in Seq(Registro)
      BY <3>1, ListaEntera DEF Ocupadas
    <3>4. i \in Ocupadas(tabla) /\ \A k \in Ocupadas(tabla) : i <= k
      BY <3>1, <3>3, MinDeNaturales
    <3>5. LaDeMenorId(tabla) \in Ocupadas(tabla)
      BY <3>1, <3>3, MenorIdDefinido
    <3> HIDE DEF i
    <3>6. LaDeMenorId(tabla) <= i => i = LaDeMenorId(tabla)
      BY <3>3, <3>4, <3>5
    <3> QED BY <3>1, <3>2, <3>6 DEF Elegida
  <2>8. CASE CompararVictima
    BY <2>8, ElegidaAlComparar
  <2>9. CASE LiberarVictima
    <3>1. tarea'.paso # "elegir" /\ tarea'.victima = 0 /\ ~tarea'.renovada
      <4> DEFINE x == IF ALGORITMO_MEMORIA = "PARTICIONES" /\ TocaCompactar(tarea.liberadas + 1)
                      THEN "compactar" ELSE "buscar"
      <4>1. /\ tarea' = [tarea EXCEPT !.liberadas = @ + 1, !.victima = 0, !.hasta = 0,
                                     !.renovada = FALSE, !.paso = x]
            /\ x # "elegir"
        BY <2>9 DEF LiberarVictima
      <4> HIDE DEF x
      <4> QED BY <2>1, <4>1
    <3> QED BY <2>2, <3>1
  <2>10. CASE DesreferenciarVictimaNula \/ VaciarTabla \/ TerminarDeReponer \/ ReponerParticion
    <3>1. /\ tarea.paso # "elegir" /\ tarea'.paso # "elegir"
          /\ tarea'.victima = tarea.victima /\ tarea'.renovada = tarea.renovada
      BY <2>1, <2>10 DEF DesreferenciarVictimaNula, VaciarTabla, TerminarDeReponer,
                         ReponerParticion, Buscando
    <3> QED BY <2>2, <3>1 DEF Elegida
  <2>11. CASE ConsolidarLibres
    <3>1. /\ tarea.paso # "elegir" /\ tarea'.paso # "elegir"
          /\ tarea'.victima = tarea.victima /\ tarea'.renovada = tarea.renovada
      BY <2>1, <2>11 DEF ConsolidarLibres
    <3> QED BY <2>2, <3>1 DEF Elegida
  <2>12. ASSUME NEW m \in Mensaje, actualizarID(m) PROVE Elegida'
    BY <2>12, ElegidaAlUsar
  <2>13. ASSUME NEW m \in Mensaje, actualizarIDSinEfecto(m) PROVE Elegida'
    BY <2>3, <2>13 DEF actualizarIDSinEfecto
  <2>14. ASSUME NEW m \in Mensaje, actualizarIDDeNulo(m) PROVE Elegida'
    BY <2>1, <2>3, <2>14 DEF actualizarIDDeNulo
  <2>15. CASE UNCHANGED vars
    BY <2>3, <2>15 DEF vars
  <2> QED BY <2>4, <2>5, <2>6, <2>7, <2>8, <2>9, <2>10, <2>11, <2>12, <2>13, <2>14, <2>15
          DEF Next, Almacenar
<1> QED BY <1>1, <1>2, SiempreIInv, PTL DEF Spec

\* When a victim goes out and the one whose turn it was has not been renewed
\* meanwhile, it has the smallest id.
LEMMA VictimaDeMenorId ==
  ASSUME IInv, Elegida, LiberarVictima, ~tarea.renovada
  PROVE  \A p \in Guardadas : tabla[tarea.victima].id <= p.id
<1>1. tarea.paso = "elegir" /\ PorMirar = {}
  BY DEF LiberarVictima
<1>2. LET h == LaDeMenorId(tabla)
      IN  /\ h \in Ocupadas(tabla) /\ h \in Nat
          /\ \A j \in Ocupadas(tabla) : tabla[h].id <= tabla[j].id
  BY <1>1, TurnoDefinido
<1>3. LaDeMenorId(tabla) <= tarea.hasta
  <2>1. tarea.hasta \in Nat
    BY DEF IInv, TypeOK
  <2> QED BY <1>1, <1>2, <2>1 DEF PorMirar
<1>4. tarea.victima = LaDeMenorId(tabla)
  BY <1>1, <1>3 DEF Elegida
<1>5. Guardadas = Llenas(tabla)
  BY <1>1, ListaEntera
<1> QED BY <1>2, <1>4, <1>5 DEF Llenas

-----------------------------------------------------------------------------
(* Action properties *)

\* The victim is the message stored (FIFO) or last stored or sent (LRU)
\* longest ago.  Under LRU another can go before it only if its own last use
\* was not recorded, or if the message whose turn it was has been sent since
\* the choice began.
THEOREM LaVictimaEsLaMasAntigua == Spec => VictimaMasAntigua
<1> DEFINE A == \A m \in ToSet(orden) \ ToSet(orden') :
                  m = Head(orden) \/ m \in perdidas \/ tarea.renovada
<1>1. IInv /\ Elegida /\ [Next]_vars => A
  <2> SUFFICES ASSUME IInv, Elegida, [Next]_vars PROVE A
    OBVIOUS
  <2>1. orden \in Seq(Mensaje) /\ SinRepetidos(orden)
    BY DEF IInv, TypeOK, Historia
  <2>2. CASE UNCHANGED orden
    BY <2>2
  <2>3. CASE GuardarDinamica \/ GuardarBS
    <3>1. orden' = Append(orden, tarea.msg)
      BY <2>3 DEF GuardarDinamica, GuardarBS, Guardar
    <3>2. tarea.paso # "ocioso"
      BY <2>3 DEF GuardarDinamica, GuardarBS, Buscando
    <3>3. tarea.msg \in Mensaje /\ tarea.msg \notin ToSet(orden)
      BY <3>2 DEF IInv, Historia, EnCurso
    <3>4. ToSet(orden') = ToSet(orden) \cup {tarea.msg}
      BY <2>1, <3>1, <3>3, EntrarALaCola
    <3> QED BY <3>4
  <2>4. CASE LiberarVictima
    <3> DEFINE v == tabla[tarea.victima]
    <3>1. tarea.paso = "elegir" /\ orden' = QuitarDe(orden, v.msg)
      BY <2>4 DEF LiberarVictima
    <3>2. Guardadas = Llenas(tabla) /\ tarea.victima \in Ocupadas(tabla)
      BY <3>1, ListaEntera DEF IInv, PasoCoherente
    <3>3. ~tarea.renovada => \A p \in Guardadas : v.id <= p.id
      BY <2>4, VictimaDeMenorId
    <3>4. v \in Guardadas
      BY <3>2 DEF Llenas
    <3> HIDE DEF v
    <3>5. v.msg \in ToSet(orden) /\ v.msg \in Mensaje /\ v \in Registro
      BY <3>4, GuardadasDistintas DEF IInv, Historia
    <3>6. ToSet(orden') = ToSet(orden) \ {v.msg}
      BY <2>1, <3>1, <3>5, QuitarDePuntual
    <3>7. v.msg = Head(orden) \/ v.msg \in perdidas \/ tarea.renovada
      <4> SUFFICES ASSUME v.msg # Head(orden), v.msg \notin perdidas, ~tarea.renovada PROVE FALSE
        OBVIOUS
      <4>1. Antes(orden, Head(orden), v.msg)
        BY <2>1, <3>5, DetrasDelPrimero
      <4>2. Head(orden) \in ToSet(orden)
        BY <4>1 DEF Antes, ToSet
      <4>3. PICK p \in Guardadas : p.msg = Head(orden)
        BY <4>2 DEF IInv, Historia
      <4>4. p \in Registro /\ p.msg \in Mensaje
        BY GuardadasDistintas
      <4>5. p.id < v.id
        BY <3>4, <3>5, <4>1, <4>3, <4>4 DEF IInv, Turnos
      <4>6. p.id \in Nat /\ v.id \in Nat /\ v.id <= p.id
        BY <3>3, <3>5, <4>4 DEF Registro
      <4> QED BY <4>5, <4>6
    <3> QED BY <3>6, <3>7
  <2>5. ASSUME NEW m \in Mensaje, actualizarID(m) \/ actualizarIDSinEfecto(m)
        PROVE  A
    <3>1. m \in ToSet(orden) /\ orden' = Append(QuitarDe(orden, m), m)
      BY <2>5 DEF actualizarID, actualizarIDSinEfecto, Enviable, AlEnviar
    <3>2. ToSet(orden') = ToSet(orden)
      BY <2>1, <3>1, PasarAlFinal
    <3> QED BY <3>2
  <2>6. CASE UNCHANGED vars
    BY <2>2, <2>6 DEF vars
  <2>7. ASSUME NEW n \in config.tamanios, guardarMensajeEnCache(n) PROVE UNCHANGED orden
    BY <2>7 DEF guardarMensajeEnCache
  <2>8. CASE PartirBS \/ ElegirVictima \/ CompararVictima \/ DesreferenciarVictimaNula
    BY <2>2, <2>8 DEF PartirBS, ElegirVictima, CompararVictima, DesreferenciarVictimaNula
  <2>9. CASE VaciarTabla \/ ReponerParticion \/ TerminarDeReponer \/ ConsolidarLibres
    BY <2>2, <2>9 DEF VaciarTabla, ReponerParticion, TerminarDeReponer, ConsolidarLibres
  <2>10. ASSUME NEW m \in Mensaje, actualizarIDDeNulo(m) PROVE UNCHANGED orden
    BY <2>10 DEF actualizarIDDeNulo
  <2> HIDE DEF A
  <2> QED BY <2>2, <2>3, <2>4, <2>5, <2>6, <2>7, <2>8, <2>9, <2>10 DEF Next, Almacenar
<1>2. IInv /\ Elegida /\ [Next]_vars => [A]_vars
  BY <1>1
<1> QED BY <1>2, SiempreIInv, SiempreElegida, PTL DEF Spec, VictimaMasAntigua


\* When only the last partition of a list may be free, what is free is that one.
LEMMA SumaDeUnaLibre ==
  ASSUME NEW t \in Seq(Registro), Len(t) # 0, \A k \in 1..(Len(t) - 1) : t[k].ocupada
  PROVE  SumaLibres(t) = IF t[Len(t)].ocupada THEN 0 ELSE t[Len(t)].size
<1> DEFINE n == Len(t)
           libre == [k \in 1..n |-> IF t[k].ocupada THEN 0 ELSE t[k].size]
           g == [k \in 0..n |-> IF k = n THEN libre[n] ELSE 0]
           suma == CHOOSE s : s = [k \in 0..n |->
                     IF k = 0 THEN 0 ELSE s[k-1] + (IF t[k].ocupada THEN 0 ELSE t[k].size)]
<1>1. n \in Nat /\ n # 0
  BY LenProperties
<1>2. \A k \in 1..n : libre[k] = IF t[k].ocupada THEN 0 ELSE t[k].size
  OBVIOUS
<1>3. \A k \in 1..n : libre[k] \in Int /\ (k # n => libre[k] = 0)
  <2>1. ASSUME NEW k \in 1..n PROVE libre[k] \in Int /\ (k # n => libre[k] = 0)
    <3>1. t[k] \in Registro
      BY ElementOfSeq
    <3>2. t[k].size \in Int
      BY <3>1 DEF Registro
    <3>3. k # n => k \in 1..(n - 1)
      BY <1>1
    <3> QED BY <3>2, <3>3
  <2> QED BY <2>1
<1>4. SumaLibres(t) = suma[n]
  BY DEF SumaLibres
<1> HIDE DEF libre, n
<1>5. g = [k \in 0..n |-> IF k = 0 THEN 0 ELSE g[k-1] + (IF t[k].ocupada THEN 0 ELSE t[k].size)]
  <2>1. ASSUME NEW k \in 0..n
        PROVE  g[k] = IF k = 0 THEN 0 ELSE g[k-1] + (IF t[k].ocupada THEN 0 ELSE t[k].size)
    <3>1. CASE k = 0
      BY <1>1, <3>1
    <3>2. CASE k # 0
      <4>1. k \in 1..n /\ k - 1 \in 0..n /\ k - 1 # n
        BY <1>1, <3>2
      <4>2. g[k-1] = 0
        BY <4>1
      <4>3. g[k] = libre[k]
        BY <1>3, <4>1
      <4>4. g[k] = 0 + libre[k]
        BY <1>3, <4>1, <4>3
      <4> QED BY <1>2, <3>2, <4>1, <4>2, <4>4
    <3> QED BY <3>1, <3>2
  <2> QED BY <2>1
<1> HIDE DEF g
<1>6. suma = [k \in 0..n |->
                IF k = 0 THEN 0 ELSE suma[k-1] + (IF t[k].ocupada THEN 0 ELSE t[k].size)]
  BY <1>5
<1> HIDE DEF suma
<1>7. \A k \in 0..n : suma[k] = IF k = 0 THEN 0 ELSE suma[k-1] + (IF t[k].ocupada THEN 0 ELSE t[k].size)
  BY <1>6
<1>8. suma[0] = 0 /\ \A k \in 1..n : suma[k] = suma[k-1] + libre[k]
  BY <1>1, <1>2, <1>7
<1> DEFINE S == {k \in Nat : k < n => suma[k] = 0}
<1>9. 0 \in S
  BY <1>8
<1>10. ASSUME NEW k \in S PROVE k + 1 \in S
  <2> SUFFICES ASSUME k + 1 < n PROVE suma[k+1] = 0
    OBVIOUS
  <2>1. k + 1 \in 1..n /\ k + 1 # n /\ (k + 1) - 1 = k /\ k < n
    BY <1>1
  <2>2. suma[k+1] = suma[k] + libre[k+1] /\ libre[k+1] = 0 /\ suma[k] = 0
    BY <1>3, <1>8, <2>1
  <2> QED BY <2>2
<1>11. S = Nat
  <2>1. S \in SUBSET Nat
    OBVIOUS
  <2> HIDE DEF S
  <2> QED BY <1>9, <1>10, <2>1, InduccionNat
<1>12. suma[n-1] = 0
  <2>1. n - 1 \in Nat /\ n - 1 < n
    BY <1>1
  <2> QED BY <1>11, <2>1
<1>13. suma[n] = libre[n] /\ n \in 1..n
  <2>1. n \in 1..n
    BY <1>1
  <2>2. suma[n] = 0 + libre[n] /\ libre[n] \in Int
    BY <1>3, <1>8, <1>12, <2>1
  <2> QED BY <2>1, <2>2
<1> QED BY <1>2, <1>4, <1>13 DEF n

\* With a compaction after every eviction, a store that has already evicted
\* searches a compacted list, and chooses the next victim in it.
Compactada ==
  (/\ ALGORITMO_MEMORIA = "PARTICIONES" /\ FRECUENCIA_COMPACTACION = 1
   /\ tarea.liberadas > 0 /\ tarea.paso \in {"buscar", "elegir"}) => OcupadasPrimero(tabla)

LEMMA SiempreCompactada == Spec => []Compactada
<1>1. Init => Compactada
  BY DEF Init, Ocioso, Compactada
<1>2. IInv /\ Compactada /\ [Next]_vars => Compactada'
  <2> SUFFICES ASSUME IInv, Compactada, [Next]_vars, ALGORITMO_MEMORIA' = "PARTICIONES",
                      FRECUENCIA_COMPACTACION' = 1, tarea'.liberadas > 0,
                      tarea'.paso \in {"buscar", "elegir"}
               PROVE  OcupadasPrimero(tabla')
    BY DEF Compactada
  <2>1. /\ config' = config /\ ALGORITMO_MEMORIA = "PARTICIONES" /\ FRECUENCIA_COMPACTACION = 1
    BY DEF Next, vars, ALGORITMO_MEMORIA, FRECUENCIA_COMPACTACION
  <2>2. tarea \in Tareas
    BY DEF IInv, TypeOK
  <2>3. CASE UNCHANGED <<tabla, tarea>>
    BY <2>1, <2>3 DEF Compactada
  <2>4. ASSUME NEW n \in config.tamanios, guardarMensajeEnCache(n) PROVE FALSE
    BY <2>4 DEF guardarMensajeEnCache, Ocioso
  <2>5. CASE GuardarDinamica \/ GuardarBS
    BY <2>5 DEF GuardarDinamica, GuardarBS, Guardar, Ocioso
  <2>6. CASE PartirBS
    BY <2>1, <2>6 DEF PartirBS
  <2>12. CASE ElegirVictima \/ CompararVictima
    <3>1. /\ tarea.paso \in {"buscar", "elegir"} /\ tabla' = tabla
          /\ tarea'.liberadas = tarea.liberadas
      BY <2>2, <2>12 DEF ElegirVictima, CompararVictima, Buscando
    <3> QED BY <2>1, <3>1 DEF Compactada
  <2>7. CASE LiberarVictima
    <3>1. tarea'.paso = "compactar"
      BY <2>1, <2>2, <2>7 DEF LiberarVictima, TocaCompactar
    <3> QED BY <3>1
  <2>8. CASE DesreferenciarVictimaNula \/ VaciarTabla \/ ReponerParticion \/ TerminarDeReponer
    BY <2>2, <2>8 DEF DesreferenciarVictimaNula, VaciarTabla, ReponerParticion, TerminarDeReponer
  <2>9. CASE ConsolidarLibres
    <3>1. tabla' = tabla
      BY <2>2, <2>9 DEF ConsolidarLibres
    <3> QED BY <2>1, <2>9, <3>1 DEF ConsolidarLibres, IInv, Libres
  <2>10. ASSUME NEW m \in Mensaje, actualizarID(m) PROVE OcupadasPrimero(tabla')
    <3>1. tarea'.paso = tarea.paso /\ tarea'.liberadas = tarea.liberadas
      BY <2>2, <2>10 DEF actualizarID
    <3>2. PICK i \in DOMAIN tabla : tabla' = [tabla EXCEPT ![i].id = id_particion + 1]
      BY <2>10 DEF actualizarID
    <3>3. /\ DOMAIN tabla' = DOMAIN tabla
          /\ \A k \in DOMAIN tabla : tabla'[k].ocupada = tabla[k].ocupada
      <4>1. \A k \in DOMAIN tabla : tabla[k] \in Registro
        <5>1. tabla \in Seq(Registro) /\ DOMAIN tabla = 1..Len(tabla)
          BY GuardadasDistintas, LenProperties
        <5> QED BY <5>1, ElementOfSeq
      <4>2. DOMAIN tabla' = DOMAIN tabla
        BY <3>2
      <4>3. ASSUME NEW k \in DOMAIN tabla PROVE tabla'[k].ocupada = tabla[k].ocupada
        <5>1. CASE k # i
          BY <3>2, <5>1
        <5>2. CASE k = i
          BY <3>2, <4>1, <5>2 DEF Registro
        <5> QED BY <5>1, <5>2
      <4> QED BY <4>2, <4>3
    <3>4. OcupadasPrimero(tabla)
      BY <2>1, <3>1 DEF Compactada
    <3> QED BY <3>3, <3>4 DEF OcupadasPrimero
  <2>11. ASSUME NEW m \in Mensaje, actualizarIDSinEfecto(m) PROVE UNCHANGED <<tabla, tarea>>
    BY <2>11 DEF actualizarIDSinEfecto
  <2>13. ASSUME NEW m \in Mensaje, actualizarIDDeNulo(m) PROVE OcupadasPrimero(tabla')
    <3>1. tarea'.paso = tarea.paso /\ tarea'.liberadas = tarea.liberadas /\ tabla' = tabla
      BY <2>2, <2>13 DEF actualizarIDDeNulo
    <3> QED BY <2>1, <3>1 DEF Compactada
  <2> QED BY <2>3, <2>4, <2>5, <2>6, <2>7, <2>8, <2>9, <2>10, <2>11, <2>12, <2>13
          DEF Next, Almacenar, vars
<1> QED BY <1>1, <1>2, SiempreIInv, PTL DEF Spec

\* When every eviction is followed by a compaction, a second victim goes only
\* if all the free memory together is too little for the message.
THEOREM NingunDesalojoDeMas == Spec => DesalojoNecesario
<1> DEFINE A == (/\ ALGORITMO_MEMORIA = "PARTICIONES" /\ FRECUENCIA_COMPACTACION = 1
                 /\ tarea.liberadas > 0 /\ LiberarVictima) => SumaLibres(tabla) < tarea.tamanio
<1>1. IInv /\ Compactada => A
  <2> SUFFICES ASSUME IInv, Compactada, ALGORITMO_MEMORIA = "PARTICIONES",
                      FRECUENCIA_COMPACTACION = 1, tarea.liberadas > 0, LiberarVictima
               PROVE  SumaLibres(tabla) < tarea.tamanio
    OBVIOUS
  <2>1. tarea.paso = "elegir" /\ ~hayParticionesCandidatas(tarea.tamanio)
    BY DEF LiberarVictima, IInv, PasoCoherente, hayParticionesCandidatas, Candidatas
  <2>2. /\ tabla \in Seq(Registro) /\ LlegaAlFinal(tabla) /\ SinVecinasLibres(tabla)
        /\ Len(tabla) \in Nat /\ DOMAIN tabla = 1..Len(tabla) /\ OcupadasPrimero(tabla)
    BY <2>1, ListaEntera DEF Compactada
  <2> DEFINE n == Len(tabla)
  <2>3. n # 0
    BY <2>2, EmptySeq DEF LlegaAlFinal
  <2>4. ASSUME NEW k \in 1..(n - 1) PROVE tabla[k].ocupada
    <3>1. k \in 1..n /\ k + 1 \in 1..n /\ k < k + 1
      BY <2>2
    <3>2. tabla[k+1].ocupada => tabla[k].ocupada
      BY <2>2, <3>1 DEF OcupadasPrimero
    <3> QED BY <2>2, <3>2 DEF SinVecinasLibres
  <2>5. SumaLibres(tabla) = IF tabla[n].ocupada THEN 0 ELSE tabla[n].size
    BY <2>2, <2>3, <2>4, SumaDeUnaLibre
  <2>6. tarea.tamanio \in Nat \ {0}
    BY <2>1, PedidoPositivo DEF EnCurso
  <2>7. ~tabla[n].ocupada => ~(tarea.tamanio <= tabla[n].size) /\ tabla[n].size \in Int
    <3>1. n \in 1..n
      BY <2>2, <2>3
    <3>2. tabla[n] \in Registro
      BY <2>2, <3>1, ElementOfSeq
    <3>3. n \in DOMAIN tabla
      BY <2>2, <3>1
    <3> QED BY <2>1, <3>2, <3>3 DEF Registro, hayParticionesCandidatas, particionCandidata
  <2> HIDE DEF n
  <2> QED BY <2>5, <2>6, <2>7
<1>2. IInv /\ Compactada /\ [Next]_vars => [A]_vars
  BY <1>1
<1> QED BY <1>2, SiempreIInv, SiempreCompactada, PTL DEF Spec, DesalojoNecesario

-----------------------------------------------------------------------------
(* Partitions in the order of their ids *)

\* What the refinement asks of the partitions that hold a message.
Fichas(G) ==
  /\ IsFiniteSet(G)
  /\ \A p \in G : p.msg \in Mensaje /\ p.id \in Nat
  /\ \A p, q \in G : p.msg = q.msg => p = q
  /\ \A p, q \in G : p.id = q.id => p = q

Lugar(G, p) == Cardinality({q \in G : q.id <= p.id})

\* The messages of G, the one of smallest id first.
PorId(G) == [k \in 1..Cardinality(G) |-> (CHOOSE p \in G : Lugar(G, p) = k).msg]

\* c lists the messages of G, each once, by growing id.
Ordenada(c, G) ==
  /\ c \in Seq(Mensaje) /\ SinRepetidos(c)
  /\ ToSet(c) = {p.msg : p \in G}
  /\ \A p, q \in G : Antes(c, p.msg, q.msg) => p.id < q.id

\* The places of the partitions are 1, 2, ... and grow with their ids.
LEMMA LugaresSeguidos ==
  ASSUME NEW G, Fichas(G)
  PROVE  /\ Cardinality(G) \in Nat
         /\ \A p \in G : Lugar(G, p) \in 1..Cardinality(G)
         /\ \A p, q \in G : p.id < q.id => Lugar(G, p) < Lugar(G, q)
         /\ \A k \in 1..Cardinality(G) : \E p \in G : Lugar(G, p) = k
<1> DEFINE n == Cardinality(G)
           D(p) == {q \in G : q.id <= p.id}
           f == [p \in G |-> Lugar(G, p)]
<1>1. n \in Nat
  BY FS_CardinalityType DEF Fichas
<1>2. ASSUME NEW p \in G PROVE Lugar(G, p) \in 1..n
  <2>1. D(p) \in SUBSET G /\ p \in D(p)
    BY DEF Fichas
  <2> HIDE DEF D
  <2>2. IsFiniteSet(D(p)) /\ Cardinality(D(p)) <= n
    BY <2>1, FS_Subset DEF Fichas
  <2>3. Cardinality(D(p)) \in Nat /\ Cardinality(D(p)) # 0
    BY <2>1, <2>2, FS_CardinalityType, FS_EmptySet
  <2> QED BY <1>1, <2>2, <2>3 DEF Lugar, D
<1>3. ASSUME NEW p \in G, NEW q \in G, p.id < q.id PROVE Lugar(G, p) < Lugar(G, q)
  <2>1. /\ D(p) \in SUBSET D(q) /\ q \in D(q) /\ q \notin D(p)
        /\ D(q) \in SUBSET G
    BY <1>3 DEF Fichas
  <2> HIDE DEF D
  <2>2. IsFiniteSet(D(q))
    BY <2>1, FS_Subset DEF Fichas
  <2>3. Cardinality(D(p)) <= Cardinality(D(q)) /\ Cardinality(D(p)) # Cardinality(D(q))
    BY <2>1, <2>2, FS_Subset
  <2>4. Lugar(G, p) = Cardinality(D(p)) /\ Lugar(G, q) = Cardinality(D(q))
    BY DEF Lugar, D
  <2>5. Lugar(G, p) \in Nat /\ Lugar(G, q) \in Nat
    BY <1>2
  <2> QED BY <2>3, <2>4, <2>5
<1>4. f \in Injection(G, 1..n)
  <2>1. f \in [G -> 1..n]
    BY <1>2
  <2>2. ASSUME NEW p \in G, NEW q \in G, f[p] = f[q] PROVE p = q
    <3>1. p.id < q.id \/ q.id < p.id \/ p.id = q.id
      BY DEF Fichas
    <3>2. Lugar(G, p) = Lugar(G, q) /\ Lugar(G, p) \in 1..n
      BY <1>2, <2>2
    <3>3. ~(p.id < q.id) /\ ~(q.id < p.id)
      BY <1>1, <1>3, <3>2
    <3> QED BY <3>1, <3>3 DEF Fichas
  <2> QED BY <2>1, <2>2 DEF Injection, IsInjective
<1>5. f \in Surjection(G, 1..n)
  <2>1. IsFiniteSet(1..n) /\ Cardinality(1..n) = n
    BY <1>1, FS_Interval
  <2> HIDE DEF f
  <2> QED BY <1>4, <2>1, FS_Injection
<1>6. ASSUME NEW k \in 1..n PROVE \E p \in G : Lugar(G, p) = k
  <2>1. \E p \in G : f[p] = k
    BY <1>5 DEF Surjection
  <2> QED BY <2>1
<1> QED BY <1>1, <1>2, <1>3, <1>6

\* The list of the messages by place is in the order of the ids.
LEMMA OrdenadaPorId ==
  ASSUME NEW G, Fichas(G)
  PROVE  Ordenada(PorId(G), G)
<1> DEFINE n == Cardinality(G)
           h(k) == CHOOSE p \in G : Lugar(G, p) = k
           c == PorId(G)
<1>1. /\ n \in Nat
      /\ \A p \in G : Lugar(G, p) \in 1..n
      /\ \A p, q \in G : p.id < q.id => Lugar(G, p) < Lugar(G, q)
      /\ \A k \in 1..n : \E p \in G : Lugar(G, p) = k
  BY LugaresSeguidos
<1>2. ASSUME NEW k \in 1..n PROVE h(k) \in G /\ Lugar(G, h(k)) = k
  BY <1>1
<1>3. c = [k \in 1..n |-> h(k).msg]
  BY DEF PorId
<1> HIDE DEF h, c
<1>4. /\ c \in Seq(Mensaje) /\ Len(c) = n /\ DOMAIN c = 1..n
      /\ \A k \in 1..n : c[k] = h(k).msg
  <2>1. \A k \in 1..n : h(k).msg \in Mensaje
    BY <1>2 DEF Fichas
  <2> QED BY <1>1, <1>3, <2>1
<1>5. ASSUME NEW p \in G PROVE h(Lugar(G, p)) = p
  <2> DEFINE q == h(Lugar(G, p))
  <2>1. q \in G /\ Lugar(G, q) = Lugar(G, p) /\ Lugar(G, p) \in 1..n
    BY <1>1, <1>2
  <2> HIDE DEF q
  <2>2. ~(p.id < q.id) /\ ~(q.id < p.id)
    BY <1>1, <2>1
  <2>3. p.id = q.id
    BY <2>1, <2>2 DEF Fichas
  <2> QED BY <2>1, <2>3 DEF Fichas, q
<1>6. SinRepetidos(c)
  <2> SUFFICES ASSUME NEW i \in 1..n, NEW j \in 1..n, c[i] = c[j] PROVE i = j
    BY <1>4 DEF SinRepetidos
  <2>1. h(i) = h(j)
    BY <1>2, <1>4 DEF Fichas
  <2>2. Lugar(G, h(i)) = i /\ Lugar(G, h(j)) = j
    BY <1>2
  <2> QED BY <2>1, <2>2
<1>7. ToSet(c) = {p.msg : p \in G}
  <2>1. ASSUME NEW p \in G PROVE p.msg \in ToSet(c)
    <3>1. Lugar(G, p) \in DOMAIN c /\ c[Lugar(G, p)] = p.msg
      BY <1>1, <1>4, <1>5
    <3> QED BY <3>1 DEF ToSet
  <2>2. \A m \in ToSet(c) : \E p \in G : m = p.msg
    BY <1>2, <1>4 DEF ToSet
  <2> QED BY <2>1, <2>2
<1>8. ASSUME NEW p \in G, NEW q \in G, Antes(c, p.msg, q.msg) PROVE p.id < q.id
  <2>1. PICK i \in 1..n, j \in 1..n : i < j /\ c[i] = p.msg /\ c[j] = q.msg
    BY <1>4, <1>8 DEF Antes
  <2>2. h(i) = p /\ h(j) = q
    BY <1>2, <1>4, <2>1 DEF Fichas
  <2>3. Lugar(G, p) = i /\ Lugar(G, q) = j
    BY <1>2, <2>2
  <2>4. ~(q.id < p.id)
    BY <1>1, <2>1, <2>3
  <2>5. p.id # q.id
    <3>1. p # q
      BY <2>1, <2>3
    <3> QED BY <3>1 DEF Fichas
  <2> QED BY <2>4, <2>5 DEF Fichas
<1> QED BY <1>4, <1>6, <1>7, <1>8 DEF Ordenada, c

\* Only one list is in that order.
LEMMA OrdenadaUnica ==
  ASSUME NEW G, Fichas(G), NEW c, NEW d, Ordenada(c, G), Ordenada(d, G)
  PROVE  c = d
<1>1. /\ c \in Seq(Mensaje) /\ d \in Seq(Mensaje) /\ SinRepetidos(c) /\ SinRepetidos(d)
      /\ ToSet(c) = ToSet(d)
  BY DEF Ordenada
<1>2. ASSUME NEW a, NEW b, Antes(c, a, b), Antes(d, b, a) PROVE FALSE
  <2>1. a \in ToSet(c) /\ b \in ToSet(c)
    BY <1>2 DEF Antes, ToSet
  <2>2. PICK p \in G, q \in G : a = p.msg /\ b = q.msg
    BY <2>1 DEF Ordenada
  <2>3. p.id < q.id /\ q.id < p.id
    BY <1>2, <2>2 DEF Ordenada
  <2> QED BY <2>3 DEF Fichas
<1> QED BY <1>1, <1>2, MismoOrden

-----------------------------------------------------------------------------
(* The order of the messages after a step *)

LEMMA OrdenadaMisma ==
  ASSUME NEW G, Fichas(G), NEW H, IsFiniteSet(H),
         \A p \in H : p.msg \in Mensaje /\ p.id \in Nat,
         \A p, q \in H : p.msg = q.msg => p = q,
         \A p \in H : \E q \in G : MismaFicha(p, q),
         \A q \in G : \E p \in H : MismaFicha(p, q),
         NEW c, Ordenada(c, G)
  PROVE  Fichas(H) /\ Ordenada(c, H)
<1>1. ASSUME NEW p \in H, NEW q \in H, p.id = q.id PROVE p = q
  <2>1. PICK x \in G, y \in G : MismaFicha(p, x) /\ MismaFicha(q, y)
    OBVIOUS
  <2>2. x.id = y.id
    BY <1>1, <2>1 DEF MismaFicha
  <2>3. x = y
    BY <2>2 DEF Fichas
  <2> QED BY <2>1, <2>3 DEF MismaFicha
<1>2. Fichas(H)
  BY <1>1 DEF Fichas
<1>3. {p.msg : p \in H} = {p.msg : p \in G}
  BY DEF MismaFicha
<1>4. ASSUME NEW p \in H, NEW q \in H, Antes(c, p.msg, q.msg) PROVE p.id < q.id
  <2>1. PICK x \in G, y \in G : MismaFicha(p, x) /\ MismaFicha(q, y)
    OBVIOUS
  <2>2. Antes(c, x.msg, y.msg)
    BY <1>4, <2>1 DEF MismaFicha
  <2> QED BY <2>1, <2>2 DEF MismaFicha, Ordenada
<1> QED BY <1>2, <1>3, <1>4 DEF Ordenada

\* A partition of a message of its own, with an id greater than all, comes last.
LEMMA OrdenadaAlEntrar ==
  ASSUME NEW G, Fichas(G), NEW p, p.msg \in Mensaje, p.id \in Nat,
         \A q \in G : q.id < p.id /\ q.msg # p.msg,
         NEW c, Ordenada(c, G)
  PROVE  Fichas(G \cup {p}) /\ Ordenada(Append(c, p.msg), G \cup {p})
<1> DEFINE r == Append(c, p.msg)
           H == G \cup {p}
<1>1. Fichas(H)
  <2>1. IsFiniteSet(H)
    BY FS_AddElement DEF Fichas
  <2>2. \A q \in G : q.id # p.id
    BY DEF Fichas
  <2> QED BY <2>1, <2>2 DEF Fichas
<1>2. c \in Seq(Mensaje) /\ SinRepetidos(c) /\ p.msg \notin ToSet(c)
  BY DEF Ordenada
<1>3. /\ r \in Seq(Mensaje) /\ SinRepetidos(r) /\ ToSet(r) = ToSet(c) \cup {p.msg}
      /\ \A a, b : Antes(r, a, b) => Antes(c, a, b) \/ (a \in ToSet(c) /\ b = p.msg)
  BY <1>2, EntrarALaCola
<1> HIDE DEF r
<1>4. ToSet(r) = {q.msg : q \in H}
  BY <1>3 DEF Ordenada
<1>5. ASSUME NEW x \in H, NEW y \in H, Antes(r, x.msg, y.msg) PROVE x.id < y.id
  <2>1. CASE Antes(c, x.msg, y.msg)
    <3>1. x.msg \in ToSet(c) /\ y.msg \in ToSet(c)
      BY <2>1 DEF Antes, ToSet
    <3>2. x \in G /\ y \in G
      BY <1>2, <3>1
    <3> QED BY <2>1, <3>2 DEF Ordenada
  <2>2. CASE x.msg \in ToSet(c) /\ y.msg = p.msg
    <3>1. x \in G /\ y = p
      BY <1>2, <2>2
    <3> QED BY <3>1
  <2> QED BY <1>3, <1>5, <2>1, <2>2
<1> QED BY <1>1, <1>3, <1>4, <1>5 DEF Ordenada, r

\* A partition goes, and its message with it.
LEMMA OrdenadaAlSalir ==
  ASSUME NEW G, Fichas(G), NEW v \in G, NEW c, Ordenada(c, G),
         NEW i \in 1..Len(c), c[i] = v.msg
  PROVE  Fichas(G \ {v}) /\ Ordenada(RemoveAt(c, i), G \ {v})
<1> DEFINE r == RemoveAt(c, i)
<1>1. Fichas(G \ {v})
  BY FS_RemoveElement DEF Fichas
<1>2. c \in Seq(Mensaje) /\ SinRepetidos(c)
  BY DEF Ordenada
<1>3. /\ r \in Seq(Mensaje) /\ SinRepetidos(r) /\ ToSet(r) = ToSet(c) \ {c[i]}
      /\ \A a, b : Antes(r, a, b) => Antes(c, a, b)
  BY <1>2, SalirDeLaCola
<1> HIDE DEF r
<1>4. ToSet(r) = {q.msg : q \in G \ {v}}
  <2>1. ToSet(r) = {q.msg : q \in G} \ {v.msg}
    BY <1>3 DEF Ordenada
  <2> QED BY <2>1 DEF Fichas
<1> QED BY <1>1, <1>3, <1>4 DEF Ordenada, r

\* The message of smallest id is the first.
LEMMA PrimeraLaDeMenorId ==
  ASSUME NEW G, Fichas(G), NEW v \in G, \A p \in G : v.id <= p.id, NEW c, Ordenada(c, G)
  PROVE  c # <<>> /\ 1 \in 1..Len(c) /\ c[1] = v.msg /\ RemoveAt(c, 1) = Tail(c)
<1>1. /\ c \in Seq(Mensaje) /\ SinRepetidos(c) /\ v.msg \in ToSet(c)
      /\ DOMAIN c = 1..Len(c) /\ Len(c) \in Nat
  BY LenProperties DEF Ordenada
<1>2. c # <<>> /\ 1 \in 1..Len(c)
  BY <1>1 DEF ToSet
<1>3. /\ Head(c) = c[1] /\ Head(c) \in Mensaje
      /\ Tail(c) \in Seq(Mensaje) /\ Len(Tail(c)) = Len(c) - 1
      /\ \A k \in 1..(Len(c) - 1) : Tail(c)[k] = c[k+1]
  BY <1>1, <1>2, HeadTailProperties
<1>4. /\ RemoveAt(c, 1) \in Seq(Mensaje) /\ Len(RemoveAt(c, 1)) = Len(c) - 1
      /\ \A k \in 1..(Len(c) - 1) : RemoveAt(c, 1)[k] = c[k+1]
  BY <1>1, <1>2, RemoveAtPuntual
<1>5. RemoveAt(c, 1) = Tail(c)
  BY <1>3, <1>4, SeqEqual
<1>6. v.msg = Head(c)
  <2> SUFFICES ASSUME v.msg # Head(c) PROVE FALSE
    OBVIOUS
  <2>1. Antes(c, Head(c), v.msg)
    BY <1>1, DetrasDelPrimero
  <2>2. PICK p \in G : p.msg = Head(c)
    BY <1>1, <1>2, <1>3 DEF Ordenada, ToSet
  <2>3. p.id < v.id
    BY <2>1, <2>2 DEF Ordenada
  <2> QED BY <2>3 DEF Fichas
<1> QED BY <1>2, <1>3, <1>5, <1>6

-----------------------------------------------------------------------------
(* The invariant that the refinement needs *)

\* No two partitions with a message have the same id.
IdsDistintos == \A p, q \in Guardadas : p.id = q.id => p = q

RInv == IInv /\ IdsDistintos

LEMMA PocasPartidas ==
  ASSUME NEW t \in Seq(Registro)
  PROVE  IsFiniteSet(Llenas(t))
<1> DEFINE U == {t[k] : k \in 1..Len(t)}
           f == [k \in 1..Len(t) |-> t[k]]
<1>1. Len(t) \in Nat /\ DOMAIN t = 1..Len(t)
  BY LenProperties
<1>2. IsFiniteSet(1..Len(t))
  BY <1>1, FS_Interval
<1>3. f \in Surjection(1..Len(t), U)
  BY DEF Surjection
<1>4. Llenas(t) \in SUBSET U
  BY <1>1 DEF Llenas, Ocupadas
<1> HIDE DEF f, U
<1>5. IsFiniteSet(U)
  BY <1>2, <1>3, FS_Surjection
<1> QED BY <1>4, <1>5, FS_Subset

\* What IInv says of the partitions that hold a message.
SonFichas ==
  /\ IsFiniteSet(Guardadas)
  /\ \A p \in Guardadas : p.msg \in Mensaje /\ p.id \in Nat
  /\ \A p, q \in Guardadas : p.msg = q.msg => p = q

LEMMA IInvSonFichas == IInv => SonFichas
<1> SUFFICES ASSUME IInv PROVE SonFichas
  OBVIOUS
<1>1. /\ \A p, q \in Guardadas : p.msg = q.msg => p = q
      /\ \A p \in Guardadas : p \in Registro /\ p.msg \in Mensaje
      /\ tabla \in Seq(Registro) /\ tarea.apartadas \in Seq(Registro)
  BY GuardadasDistintas
<1>2. IsFiniteSet(Guardadas)
  BY <1>1, PocasPartidas, FS_Union DEF Guardadas
<1>3. \A p \in Guardadas : p.id \in Nat
  BY <1>1 DEF Registro
<1> QED BY <1>1, <1>2, <1>3 DEF SonFichas

\* MensajesPorId lists the messages of the partitions by growing id.
EnOrden == Fichas(Guardadas) /\ Ordenada(MensajesPorId, Guardadas)

LEMMA RInvEnOrden == RInv => EnOrden
<1> SUFFICES ASSUME RInv PROVE EnOrden
  OBVIOUS
<1>1. Fichas(Guardadas)
  BY IInvSonFichas DEF RInv, IdsDistintos, Fichas, SonFichas
<1>2. EnCache = Guardadas
  BY DEF EnCache, Guardadas, Llenas, Ocupadas, ToSet
<1>3. MensajesPorId = PorId(Guardadas)
  BY <1>2 DEF MensajesPorId, PorId, Lugar
<1>4. Ordenada(PorId(Guardadas), Guardadas)
  BY <1>1, OrdenadaPorId
<1> QED BY <1>1, <1>3, <1>4 DEF EnOrden

-----------------------------------------------------------------------------
(* What a step does to the queue of messages *)

\* The list that the effect of a step orders is the list after the step.
LEMMA ColaSiguiente ==
  ASSUME RInv, IInv', NEW c, Fichas(Guardadas') /\ Ordenada(c, Guardadas')
  PROVE  RInv' /\ MensajesPorId' = c
<1> DEFINE H == Guardadas'
<1>1. RInv'
  <2>1. IdsDistintos'
    BY DEF IdsDistintos, Fichas
  <2> QED BY <2>1 DEF RInv
<1>2. EnOrden'
  BY <1>1, RInvEnOrden, PTL
<1>3. Ordenada(MensajesPorId', H)
  BY <1>2 DEF EnOrden, Ordenada, SinRepetidos, Antes, ToSet
<1> HIDE DEF H
<1>4. Fichas(H) /\ Ordenada(c, H)
  BY DEF H
<1>5. MensajesPorId' = c
  BY <1>3, <1>4, OrdenadaUnica
<1> QED BY <1>1, <1>5

\* A step that leaves the partitions of the messages alone leaves the queue alone.
LEMMA ColaIgual ==
  ASSUME RInv, IInv', MismaCache
  PROVE  RInv' /\ MensajesPorId' = MensajesPorId
<1> DEFINE G == Guardadas
           c == MensajesPorId
<1>1. Fichas(G) /\ Ordenada(c, G)
  BY RInvEnOrden DEF EnOrden
<1>2. SonFichas'
  BY IInvSonFichas, PTL
<1>3. /\ IsFiniteSet(G')
      /\ \A p \in G' : p.msg \in Mensaje /\ p.id \in Nat
      /\ \A p, q \in G' : p.msg = q.msg => p = q
  BY <1>2 DEF SonFichas
<1>4. /\ \A p \in G' : \E q \in G : MismaFicha(p, q)
      /\ \A q \in G : \E p \in G' : MismaFicha(p, q)
  BY DEF MismaCache
<1> HIDE DEF G, c
<1>5. Fichas(G') /\ Ordenada(c, G')
  BY <1>1, <1>3, <1>4, OrdenadaMisma
<1> QED BY <1>5, ColaSiguiente DEF G, c

\* A message that is stored comes to the end of the queue.
LEMMA ColaAlEntrar ==
  ASSUME RInv, IInv', EntraEnLaCache, tarea.msg \in Mensaje, tarea.msg \notin ToSet(orden)
  PROVE  RInv' /\ MensajesPorId' = Append(MensajesPorId, tarea.msg)
<1> DEFINE G == Guardadas
           c == MensajesPorId
           m == tarea.msg
<1>1. Fichas(G) /\ Ordenada(c, G)
  BY RInvEnOrden DEF EnOrden
<1>2. PICK p : G' = G \cup {p} /\ p.msg = m /\ p.id = id_particion'
  BY DEF EntraEnLaCache
<1>3. ASSUME NEW q \in G PROVE q.id < p.id /\ q.msg # p.msg
  <2>1. q.id <= id_particion /\ q.id \in Nat /\ id_particion \in Nat
    BY <1>1, GuardadasDistintas DEF RInv, IInv, TypeOK, Fichas
  <2>2. q.id < p.id
    BY <1>2, <2>1 DEF EntraEnLaCache
  <2>3. q.msg \in ToSet(orden)
    BY DEF RInv, IInv, Historia
  <2> QED BY <1>2, <2>2, <2>3
<1>4. p.msg \in Mensaje /\ p.id \in Nat
  BY <1>2 DEF EntraEnLaCache
<1> HIDE DEF G, c
<1>5. Fichas(G \cup {p}) /\ Ordenada(Append(c, p.msg), G \cup {p})
  BY <1>1, <1>3, <1>4, OrdenadaAlEntrar
<1>6. Fichas(Guardadas') /\ Ordenada(Append(c, m), Guardadas')
  BY <1>2, <1>5 DEF G
<1> QED BY <1>6, ColaSiguiente DEF c

\* An eviction takes the head of the queue, or any message when the head was
\* renewed during the choice.
LEMMA ColaAlSalir ==
  ASSUME RInv, IInv', SaleDeLaCache
  PROVE  /\ RInv'
         /\ \E i \in DOMAIN MensajesPorId : MensajesPorId' = RemoveAt(MensajesPorId, i)
         /\ (\A p \in Guardadas : tabla[tarea.victima].id <= p.id) =>
               MensajesPorId' = Tail(MensajesPorId)
<1> DEFINE G == Guardadas
           c == MensajesPorId
           v == tabla[tarea.victima]
<1>1. Fichas(G) /\ Ordenada(c, G)
  BY RInvEnOrden DEF EnOrden
<1>2. v \in G /\ G' = G \ {v}
  BY DEF SaleDeLaCache
<1>3. G' = Guardadas'
  OBVIOUS
<1> HIDE DEF G, c, v
<1>4. DOMAIN c = 1..Len(c)
  BY <1>1, LenProperties DEF Ordenada
<1>5. ASSUME NEW i \in 1..Len(c), c[i] = v.msg PROVE RInv' /\ MensajesPorId' = RemoveAt(c, i)
  <2>1. Fichas(G \ {v}) /\ Ordenada(RemoveAt(c, i), G \ {v})
    BY <1>1, <1>2, <1>5, OrdenadaAlSalir
  <2>2. Fichas(Guardadas') /\ Ordenada(RemoveAt(c, i), Guardadas')
    BY <1>2, <1>3, <2>1
  <2> QED BY <2>2, ColaSiguiente
<1>6. PICK i \in 1..Len(c) : c[i] = v.msg
  <2>1. v.msg \in ToSet(c)
    BY <1>1, <1>2 DEF Ordenada
  <2> QED BY <1>4, <2>1 DEF ToSet
<1>7. RInv' /\ MensajesPorId' = RemoveAt(c, i)
  BY <1>5, <1>6
<1>8. ASSUME \A p \in G : v.id <= p.id PROVE MensajesPorId' = Tail(c)
  <2>1. 1 \in 1..Len(c) /\ c[1] = v.msg /\ RemoveAt(c, 1) = Tail(c)
    BY <1>1, <1>2, <1>8, PrimeraLaDeMenorId
  <2> QED BY <1>5, <2>1
<1> QED BY <1>4, <1>7, <1>8 DEF G, c, v

\* A message that is sent under LRU moves to the end of the queue.
LEMMA ColaAlUsar ==
  ASSUME RInv, IInv', NEW m \in Mensaje, SeRenueva(m)
  PROVE  /\ RInv'
         /\ \E i \in DOMAIN MensajesPorId :
              /\ MensajesPorId[i] = m
              /\ MensajesPorId' = Append(RemoveAt(MensajesPorId, i), m)
<1> DEFINE G == Guardadas
           c == MensajesPorId
<1>1. Fichas(G) /\ Ordenada(c, G)
  BY RInvEnOrden DEF EnOrden
<1>0. PICK v \in G : \E w : /\ G' = (G \ {v}) \cup {w}
                           /\ v.msg = m /\ w.msg = m /\ w.id = id_particion'
  BY DEF SeRenueva
<1>2. PICK w : /\ G' = (G \ {v}) \cup {w}
               /\ v.msg = m /\ w.msg = m /\ w.id = id_particion'
  BY <1>0
<1>3. \A q \in G : q.id < w.id
  <2>1. \A q \in G : q.id <= id_particion /\ q.id \in Nat
    BY <1>1, GuardadasDistintas DEF RInv, Fichas
  <2>2. id_particion \in Nat
    BY DEF RInv, IInv, TypeOK
  <2> QED BY <1>2, <2>1, <2>2 DEF SeRenueva
<1>4. w.id \in Nat
  BY <1>2 DEF SeRenueva
<1> HIDE DEF G, c
<1>5. DOMAIN c = 1..Len(c)
  BY <1>1, LenProperties DEF Ordenada
<1>6. PICK i \in DOMAIN c : c[i] = m
  <2>1. m \in ToSet(c)
    BY <1>1, <1>2 DEF Ordenada
  <2> QED BY <2>1 DEF ToSet
<1> DEFINE K == G \ {v}
           d == RemoveAt(c, i)
<1>7. Fichas(K) /\ Ordenada(d, K)
  BY <1>1, <1>2, <1>5, <1>6, OrdenadaAlSalir
<1>8. \A q \in K : q.id < w.id /\ q.msg # w.msg
  BY <1>1, <1>2, <1>3 DEF Fichas
<1> HIDE DEF K, d
<1>9. Fichas(K \cup {w}) /\ Ordenada(Append(d, w.msg), K \cup {w})
  BY <1>2, <1>4, <1>7, <1>8, OrdenadaAlEntrar
<1>10. Fichas(Guardadas') /\ Ordenada(Append(d, m), Guardadas')
  BY <1>2, <1>9 DEF G, K
<1>11. RInv' /\ MensajesPorId' = Append(d, m)
  BY <1>10, ColaSiguiente
<1> QED BY <1>6, <1>11 DEF c, d

\* Only the message of smallest id is the first of the queue.
LEMMA PrimeraDeLaCola ==
  ASSUME RInv, NEW v \in Guardadas, \A p \in Guardadas : v.id <= p.id,
         NEW i \in DOMAIN MensajesPorId
  PROVE  i = 1 <=> MensajesPorId[i] = v.msg
<1> DEFINE G == Guardadas
           c == MensajesPorId
<1>1. Fichas(G) /\ Ordenada(c, G) /\ v \in G /\ \A p \in G : v.id <= p.id
  BY RInvEnOrden DEF EnOrden
<1> HIDE DEF G, c
<1>2. 1 \in 1..Len(c) /\ c[1] = v.msg /\ DOMAIN c = 1..Len(c) /\ SinRepetidos(c)
  BY <1>1, PrimeraLaDeMenorId, LenProperties DEF Ordenada
<1>3. i \in DOMAIN c => (i = 1 <=> c[i] = v.msg)
  BY <1>2 DEF SinRepetidos
<1> QED BY <1>3 DEF c

-----------------------------------------------------------------------------
(* The refinement, step by step *)

\* The empty memory is the empty queue.
LEMMA EmpiezaVacia == Init => RInv /\ Cache!Init
<1> SUFFICES ASSUME Init PROVE RInv /\ Cache!Init
  OBVIOUS
<1>1. tarea.apartadas = <<>> /\ tarea.msg = SinMensaje
  BY DEF Init, Ocioso
<1>2. Guardadas = {}
  BY <1>1, UnicaParticion, ListaVacia DEF Init, Guardadas
<1>3. RInv
  BY <1>2, IInvInicial DEF RInv, IdsDistintos
<1>4. Ordenada(MensajesPorId, Guardadas)
  BY <1>3, RInvEnOrden DEF EnOrden
<1>5. MensajesPorId \in Seq(Mensaje) /\ ToSet(MensajesPorId) = {}
  BY <1>2, <1>4 DEF Ordenada
<1>6. MensajesPorId = <<>>
  <2>1. Len(MensajesPorId) \in Nat /\ DOMAIN MensajesPorId = 1..Len(MensajesPorId)
    BY <1>5, LenProperties
  <2>2. 1 \notin DOMAIN MensajesPorId
    BY <1>5 DEF ToSet
  <2>3. Len(MensajesPorId) = 0
    BY <2>1, <2>2
  <2> QED BY <1>5, <2>3, EmptySeq
<1>7. Cache!Init
  BY <1>1, <1>6 DEF Cache!Init, Eleccion, Init, Ocioso
<1> QED BY <1>3, <1>7

\* The choice of a victim is no step of the queue but its beginning.
EligeIgual == Eleccion' = Eleccion

\* An LRU use is a use of the queue, and renews the choice if the queue says so.
LEMMA UsarEsUsar ==
  ASSUME RInv, Elegida, config' = config, NEW m \in Mensaje, actualizarID(m)
  PROVE  RInv' /\ Cache!Usar(m)
<1>1. IInv /\ tarea \in Tareas
  BY DEF RInv, IInv, TypeOK
<1>2. ALGORITMO_REEMPLAZO = "LRU"
  BY DEF actualizarID, Enviable
<1>3. /\ RInv'
      /\ \E i \in DOMAIN MensajesPorId :
           /\ MensajesPorId[i] = m
           /\ MensajesPorId' = Append(RemoveAt(MensajesPorId, i), m)
  BY <1>1, AlUsar, ColaAlUsar
<1>4. PICK i \in DOMAIN MensajesPorId :
        MensajesPorId[i] = m /\ MensajesPorId' = Append(RemoveAt(MensajesPorId, i), m)
  BY <1>3
<1> DEFINE h == LaDeMenorId(tabla)
<1>5. PICK k \in DOMAIN tabla :
        /\ tabla[k].msg = m
        /\ tarea' = [tarea EXCEPT !.renovada = @ \/ (tarea.paso = "elegir" /\ k = h)]
  BY DEF actualizarID
<1>6. /\ tarea'.msg = tarea.msg /\ tarea'.victima = tarea.victima
      /\ tarea'.renovada <=> tarea.renovada \/ (tarea.paso = "elegir" /\ k = h)
  BY <1>1, <1>5
<1>7. CASE tarea.paso # "elegir"
  <2>1. Eleccion = "ninguna" /\ Eleccion' = "ninguna"
    BY <1>6, <1>7 DEF Elegida, Eleccion
  <2> QED BY <1>2, <1>3, <1>4, <1>6, <2>1 DEF Cache!Usar, Cache!RemoveAt, RemoveAt
<1>8. CASE tarea.paso = "elegir"
  <2>1. tarea.victima # 0
    <3>1. tarea.victima \in Ocupadas(tabla) /\ DOMAIN tabla = 1..Len(tabla)
      BY <1>1, <1>8, ListaEntera DEF IInv, PasoCoherente
    <3> QED BY <3>1 DEF Ocupadas
  <2>2. /\ h \in Ocupadas(tabla)
        /\ \A j \in Ocupadas(tabla) : tabla[h].id <= tabla[j].id
    BY <1>1, <1>8, TurnoDefinido
  <2>3. Guardadas = Llenas(tabla) /\ Distintas(tabla) /\ Marcada(tabla)
    BY <1>1, <1>8, ListaEntera
  <2>4. tabla[h] \in Guardadas /\ \A p \in Guardadas : tabla[h].id <= p.id
    BY <2>2, <2>3 DEF Llenas
  <2>5. k \in Ocupadas(tabla)
    BY <1>5, <2>3 DEF Marcada, Ocupadas, Mensaje, SinMensaje
  <2>6. i = 1 <=> MensajesPorId[i] = tabla[h].msg
    BY <2>4, PrimeraDeLaCola
  <2>7. k = h <=> m = tabla[h].msg
    BY <1>5, <2>2, <2>3, <2>5 DEF Distintas
  <2> HIDE DEF h
  <2>8. Eleccion # "ninguna" /\ Eleccion' = IF i = 1 /\ Eleccion # "ninguna" THEN "renovada" ELSE Eleccion
    BY <1>4, <1>6, <1>8, <2>1, <2>6, <2>7 DEF Eleccion
  <2> QED BY <1>2, <1>3, <1>4, <1>6, <2>8 DEF Cache!Usar, Cache!RemoveAt, RemoveAt
<1> QED BY <1>7, <1>8

\* A step of the memory is a step of the queue, or leaves the queue as it was.
LEMMA CadaPasoEsDeLaCola ==
  RInv /\ Elegida /\ [Next]_vars => RInv' /\ [Cache!Next]_(Cache!vars)
<1> SUFFICES ASSUME RInv, Elegida, [Next]_vars PROVE RInv' /\ [Cache!Next]_(Cache!vars)
  OBVIOUS
<1> USE DEF Cache!vars
<1>1. IInv
  BY DEF RInv
<1>2. ASSUME MismaCache, IInv', config' = config, tarea'.msg = tarea.msg, EligeIgual
      PROVE  RInv' /\ [Cache!Next]_(Cache!vars)
  BY <1>2, ColaIgual DEF ALGORITMO_REEMPLAZO, EligeIgual
<1>11. tarea.paso # "elegir" <=> Eleccion = "ninguna"
  <2>1. CASE tarea.paso # "elegir"
    BY <2>1 DEF Elegida, Eleccion
  <2>2. CASE tarea.paso = "elegir"
    <3>1. tarea.victima \in Ocupadas(tabla) /\ DOMAIN tabla = 1..Len(tabla)
      BY <1>1, <2>2, ListaEntera DEF IInv, PasoCoherente
    <3> QED BY <2>2, <3>1 DEF Ocupadas, Eleccion
  <2> QED BY <2>1, <2>2
<1>12. tarea \in Tareas
  BY <1>1 DEF IInv, TypeOK
<1>3. ASSUME EntraEnLaCache, IInv', config' = config, tarea' = Ocioso, EnCurso,
             tarea.paso # "elegir"
      PROVE  RInv' /\ [Cache!Next]_(Cache!vars)
  <2>1. tarea.msg \in Mensaje /\ tarea.msg \notin ToSet(orden)
    BY <1>1, <1>3 DEF IInv, Historia
  <2>2. RInv' /\ MensajesPorId' = Append(MensajesPorId, tarea.msg)
    BY <1>3, <2>1, ColaAlEntrar
  <2>3. tarea.msg # SinMensaje /\ tarea'.msg = SinMensaje
    BY <1>3, <2>1 DEF Ocioso, Mensaje, SinMensaje
  <2>5. Eleccion = "ninguna" /\ Eleccion' = "ninguna"
    BY <1>3, <1>11 DEF Eleccion, Ocioso
  <2>4. Cache!Guardar
    BY <2>2, <2>3, <2>5 DEF Cache!Guardar
  <2> QED BY <1>3, <2>2, <2>4 DEF Cache!Next, ALGORITMO_REEMPLAZO
<1>4. CASE UNCHANGED vars
  <2>1. IInv' /\ MismaCache
    BY <1>1, <1>4, AlNoHacerNada
  <2> QED BY <1>2, <1>4, <2>1 DEF vars, EligeIgual, Eleccion
<1>5. CASE Next
  <2>1. config' = config
    BY <1>5 DEF Next
  <2>2. ASSUME NEW n \in config.tamanios, guardarMensajeEnCache(n)
        PROVE  RInv' /\ [Cache!Next]_(Cache!vars)
    <3> DEFINE m == publicados + 1
    <3>1. /\ tarea.paso = "ocioso" /\ publicados < MaxMensajes /\ tarea'.msg = m
          /\ publicados \in Nat /\ MaxMensajes \in Nat
      BY <1>1, <2>2, ConstantesValidas DEF guardarMensajeEnCache, Ocioso, IInv, TypeOK
    <3>2. RInv' /\ MensajesPorId' = MensajesPorId
      BY <1>1, <2>1, <2>2, AlComenzar, ColaIgual
    <3>3. m \in Mensaje /\ tarea.msg = SinMensaje
      <4>1. tarea = Ocioso
        BY <1>1, <3>1 DEF IInv, PasoCoherente
      <4> QED BY <3>1, <4>1 DEF Mensaje, Ocioso
    <3>4. m \notin ToSet(MensajesPorId)
      <4>1. ToSet(MensajesPorId) = {p.msg : p \in Guardadas}
        BY RInvEnOrden DEF EnOrden, Ordenada
      <4>2. \A x \in ToSet(orden) : x <= publicados
        BY <1>1 DEF IInv, Historia
      <4>3. m \notin ToSet(orden)
        BY <3>1, <4>2
      <4> QED BY <1>1, <4>1, <4>3 DEF IInv, Historia
    <3> HIDE DEF m
    <3>6. Eleccion' = Eleccion
      BY <1>11, <2>2, <3>1 DEF Eleccion, guardarMensajeEnCache, Ocioso
    <3>5. Cache!Publicar(m)
      BY <3>1, <3>2, <3>3, <3>4, <3>6 DEF Cache!Publicar, Cache!ToSet, ToSet
    <3> QED BY <2>1, <3>2, <3>3, <3>5 DEF Cache!Next, ALGORITMO_REEMPLAZO
  <2>3. CASE Almacenar
    <3>1. CASE GuardarDinamica
      <4>1. tarea' = Ocioso /\ EnCurso /\ tarea.paso # "elegir"
        BY <3>1 DEF GuardarDinamica, Guardar, Buscando, EnCurso
      <4> QED BY <1>1, <1>3, <2>1, <3>1, <4>1, AlGuardarDinamica
    <3>2. CASE GuardarBS
      <4>1. tarea' = Ocioso /\ EnCurso /\ tarea.paso # "elegir"
        BY <3>2 DEF GuardarBS, Guardar, Buscando, EnCurso
      <4> QED BY <1>1, <1>3, <2>1, <3>2, <4>1, AlGuardarBS
    <3>3. CASE LiberarVictima
      <4>1. tarea.paso = "elegir" /\ tarea'.msg = tarea.msg /\ tarea'.victima = 0
        <5> DEFINE x == IF ALGORITMO_MEMORIA = "PARTICIONES" /\ TocaCompactar(tarea.liberadas + 1)
                        THEN "compactar" ELSE "buscar"
        <5>1. /\ tarea.paso = "elegir"
              /\ tarea' = [tarea EXCEPT !.liberadas = @ + 1, !.victima = 0, !.hasta = 0,
                                        !.renovada = FALSE, !.paso = x]
          BY <3>3 DEF LiberarVictima
        <5> HIDE DEF x
        <5> QED BY <1>12, <5>1
      <4>2. /\ RInv'
            /\ \E i \in DOMAIN MensajesPorId : MensajesPorId' = RemoveAt(MensajesPorId, i)
            /\ (\A p \in Guardadas : tabla[tarea.victima].id <= p.id) =>
                  MensajesPorId' = Tail(MensajesPorId)
        BY <1>1, <2>1, <3>3, AlLiberar, ColaAlSalir
      <4>3. ~tarea.renovada => MensajesPorId' = Tail(MensajesPorId)
        BY <1>1, <3>3, <4>2, VictimaDeMenorId
      <4>4. /\ Eleccion' = "ninguna"
            /\ Eleccion = IF tarea.renovada THEN "renovada" ELSE "empezada"
        BY <1>11, <4>1 DEF Eleccion
      <4>5. Cache!Desalojar
        BY <4>1, <4>2, <4>3, <4>4 DEF Cache!Desalojar, Cache!RemoveAt, RemoveAt
      <4> QED BY <2>1, <4>2, <4>5 DEF Cache!Next, ALGORITMO_REEMPLAZO
    <3>10. CASE ElegirVictima
      <4>1. /\ tarea.paso = "buscar" /\ Ocupadas(tabla) # {}
            /\ tarea' = [tarea EXCEPT !.paso = "elegir", !.victima = Min(Ocupadas(tabla)),
                                      !.hasta = Min(Ocupadas(tabla))]
        BY <3>10 DEF ElegirVictima, Buscando
      <4>2. /\ tarea'.msg = tarea.msg /\ tarea'.victima = Min(Ocupadas(tabla))
            /\ tarea'.renovada = tarea.renovada
        BY <1>12, <4>1
      <4>3. Guardadas = Llenas(tabla) /\ DOMAIN tabla = 1..Len(tabla)
        BY <1>1, <4>1, ListaEntera
      <4>4. Eleccion' = "empezada" /\ Eleccion = "ninguna"
        <5>1. Min(Ocupadas(tabla)) \in Ocupadas(tabla)
          BY <4>1, <4>3, MinDeNaturales DEF Ocupadas
        <5>2. Min(Ocupadas(tabla)) # 0
          BY <4>3, <5>1 DEF Ocupadas
        <5>3. ~tarea.renovada /\ Eleccion = "ninguna"
          BY <1>11, <4>1 DEF Elegida
        <5> QED BY <4>2, <5>2, <5>3 DEF Eleccion
      <4>5. MensajesPorId # <<>>
        <5>1. Ordenada(MensajesPorId, Guardadas)
          BY RInvEnOrden DEF EnOrden
        <5>2. Guardadas # {}
          BY <4>1, <4>3 DEF Llenas
        <5>3. ToSet(MensajesPorId) # {}
          BY <5>1, <5>2 DEF Ordenada
        <5> QED BY <5>3, EmptySeq DEF ToSet
      <4>6. RInv' /\ MensajesPorId' = MensajesPorId
        BY <1>1, <2>1, <3>10, AlElegir, ColaIgual
      <4>7. tarea.msg # SinMensaje
        BY <1>1, <4>1 DEF IInv, Historia, EnCurso, Mensaje, SinMensaje
      <4>8. Cache!Elegir
        BY <4>2, <4>4, <4>5, <4>6, <4>7 DEF Cache!Elegir
      <4> QED BY <2>1, <4>6, <4>8 DEF Cache!Next, ALGORITMO_REEMPLAZO
    <3>11. CASE CompararVictima
      <4>1. /\ tarea.paso = "elegir" /\ tarea'.paso = "elegir" /\ tarea'.msg = tarea.msg
            /\ tarea'.renovada = tarea.renovada
        BY <1>12, <3>11 DEF CompararVictima
      <4>2. IInv' /\ MismaCache
        BY <1>1, <2>1, <3>11, AlComparar
      <4>3. tarea.victima # 0 /\ tarea'.victima # 0
        <5>1. tarea.victima \in Ocupadas(tabla) /\ DOMAIN tabla = 1..Len(tabla)
          BY <1>1, <4>1, ListaEntera DEF IInv, PasoCoherente
        <5>2. tarea'.victima \in Ocupadas(tabla')
          BY <4>1, <4>2 DEF IInv, PasoCoherente
        <5>3. tabla' = tabla
          BY <3>11 DEF CompararVictima
        <5> QED BY <5>1, <5>2, <5>3 DEF Ocupadas
      <4>4. EligeIgual
        BY <4>1, <4>3 DEF EligeIgual, Eleccion
      <4> QED BY <1>2, <2>1, <4>1, <4>2, <4>4
    <3>4. CASE PartirBS
      <4>1. tarea'.msg = tarea.msg /\ EligeIgual
        BY <1>12, <3>4 DEF PartirBS, EligeIgual, Eleccion
      <4> QED BY <1>1, <1>2, <2>1, <3>4, <4>1, AlPartirBS
    <3>5. CASE DesreferenciarVictimaNula
      <4>1. tarea'.msg = tarea.msg /\ EligeIgual
        BY <1>12, <3>5 DEF DesreferenciarVictimaNula, EligeIgual, Eleccion
      <4> QED BY <1>1, <1>2, <2>1, <3>5, <4>1, AlDesreferenciar
    <3>6. CASE VaciarTabla
      <4>1. tarea'.msg = tarea.msg /\ EligeIgual
        BY <1>12, <3>6 DEF VaciarTabla, EligeIgual, Eleccion
      <4> QED BY <1>1, <1>2, <2>1, <3>6, <4>1, AlVaciarTabla
    <3>7. CASE ReponerParticion
      <4>1. tarea'.msg = tarea.msg /\ EligeIgual
        BY <1>12, <3>7 DEF ReponerParticion, EligeIgual, Eleccion
      <4> QED BY <1>1, <1>2, <2>1, <3>7, <4>1, AlReponer
    <3>8. CASE TerminarDeReponer
      <4>1. tarea'.msg = tarea.msg /\ EligeIgual
        BY <1>12, <3>8 DEF TerminarDeReponer, EligeIgual, Eleccion
      <4> QED BY <1>1, <1>2, <2>1, <3>8, <4>1, AlTerminarDeReponer
    <3>9. CASE ConsolidarLibres
      <4>1. tarea'.msg = tarea.msg /\ EligeIgual
        BY <1>12, <3>9 DEF ConsolidarLibres, EligeIgual, Eleccion
      <4> QED BY <1>1, <1>2, <2>1, <3>9, <4>1, AlConsolidarLibres
    <3> QED BY <2>3, <3>1, <3>2, <3>3, <3>4, <3>5, <3>6, <3>7, <3>8, <3>9, <3>10, <3>11
            DEF Almacenar
  <2>4. ASSUME NEW m \in Mensaje, actualizarID(m) PROVE RInv' /\ [Cache!Next]_(Cache!vars)
    <3>1. RInv' /\ Cache!Usar(m)
      BY <2>1, <2>4, UsarEsUsar
    <3> QED BY <2>1, <3>1 DEF Cache!Next, ALGORITMO_REEMPLAZO
  <2>5. ASSUME NEW m \in Mensaje, actualizarIDSinEfecto(m)
        PROVE  RInv' /\ [Cache!Next]_(Cache!vars)
    <3>1. tarea' = tarea
      BY <2>5 DEF actualizarIDSinEfecto
    <3>2. EligeIgual
      BY <3>1 DEF EligeIgual, Eleccion
    <3> QED BY <1>1, <1>2, <2>1, <2>5, <3>1, <3>2, AlUsarSinEfecto
  <2>6. ASSUME NEW m \in Mensaje, actualizarIDDeNulo(m)
        PROVE  RInv' /\ [Cache!Next]_(Cache!vars)
    <3>1. tarea'.msg = tarea.msg /\ EligeIgual
      BY <1>12, <2>6 DEF actualizarIDDeNulo, EligeIgual, Eleccion
    <3> QED BY <1>1, <1>2, <2>1, <2>6, <3>1, AlUsarDeNulo
  <2> QED BY <1>5, <2>2, <2>3, <2>4, <2>5, <2>6 DEF Next
<1> QED BY <1>4, <1>5

\* The partitions implement the queue of messages: dynamic partitions and
\* buddies, FF and BF, FIFO and LRU, with or without compaction, and whatever
\* is sent between the steps of a store, a store appends a message, an LRU use
\* moves a message to the end, an eviction takes the head unless the head was
\* sent while it was being chosen, and nothing else changes the queue.
THEOREM LaMemoriaImplementaLaCola == Spec => ImplementaCache
<1>1. Init => Cache!Init
  BY EmpiezaVacia
<1>2. Spec => []RInv
  BY EmpiezaVacia, CadaPasoEsDeLaCola, SiempreElegida, PTL DEF Spec
<1>3. RInv /\ Elegida /\ [Next]_vars => [Cache!Next]_(Cache!vars)
  BY CadaPasoEsDeLaCola
<1> QED BY <1>1, <1>2, <1>3, SiempreElegida, PTL DEF Spec, ImplementaCache, Cache!Spec
=============================================================================
