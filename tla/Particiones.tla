----------------------------- MODULE Particiones -----------------------------
(***************************************************************************)
(* The memory of the Broker (Broker/src/Particiones.c): the list           *)
(* tabla_particiones that cuts [0, TAMANO_MEMORIA) into free and occupied  *)
(* partitions, kept by dynamic partitions (FF or BF, with compaction) or   *)
(* by the buddy system, with FIFO or LRU replacement.                      *)
(*                                                                         *)
(* One publisher at a time stores a message: guardarMensajeEnCache runs    *)
(* under mutex_guardar_en_memoria.  Every iteration of its search loop,    *)
(* and every comparison of the choice of a victim, is an action of its     *)
(* own, because actualizarID, called by the threads that send messages     *)
(* under LRU, takes no mutex and may run between them.                     *)
(***************************************************************************)
EXTENDS Integers, SequencesExt

CONSTANTS
  TAMANO_MEMORIA,   \* size of the memory
  Configuraciones,  \* configuration files, each with the sizes its messages may have
  MaxMensajes,      \* bound: messages published
  MaxUsos           \* bound: calls of actualizarID

potencia[k \in Nat] == IF k = 0 THEN 1 ELSE 2 * potencia[k-1]

EsPotenciaDeDos(n) == \E k \in 0..n : n = potencia[k]

ASSUME ConstantesValidas ==
  /\ TAMANO_MEMORIA \in Nat \ {0}
  /\ MaxMensajes \in Nat /\ MaxUsos \in Nat
  /\ \A c \in Configuraciones :
       /\ c.minimo \in 1..TAMANO_MEMORIA
       /\ c.memoria \in {"BS", "PARTICIONES"}
       /\ c.reemplazo \in {"FIFO", "LRU"}
       /\ c.libre \in {"FF", "BF"}
       /\ c.frecuencia \in Nat \cup {-1}
       /\ c.tamanios \subseteq Nat \ {0}

\* The buddy system halves partitions: the configuration file gives it powers of two.
ASSUME PotenciasParaBuddySystem ==
  \A c \in Configuraciones :
    c.memoria = "BS" => EsPotenciaDeDos(TAMANO_MEMORIA) /\ EsPotenciaDeDos(c.minimo)

SinMensaje == 0
Mensaje == 1..MaxMensajes

VARIABLES
  config,       \* the configuration file read at the start
  tabla,        \* tabla_particiones
  id_particion, \* the global counter behind get_id_particion
  tarea,        \* the store in progress: locals of the algorithm and its next step
                \* (renovada is history: see AlEnviar)
  publicados,   \* messages published so far (their id_mensaje is 1, 2, ...)
  usos,         \* calls of actualizarID so far
  medida,       \* history: size of each published message
  orden,        \* history: cached messages, the one stored or sent longest ago first
  perdidas      \* history: cached messages whose last actualizarID found no partition

vars == <<config, tabla, id_particion, tarea, publicados, usos, medida, orden, perdidas>>

TAMANO_MINIMO_PARTICION == config.minimo
ALGORITMO_MEMORIA == config.memoria
ALGORITMO_REEMPLAZO == config.reemplazo
ALGORITMO_PARTICION_LIBRE == config.libre
FRECUENCIA_COMPACTACION == config.frecuencia   \* -1: never; n: see TocaCompactar

-----------------------------------------------------------------------------
(* Partitions *)

crearParticion(inicio, size, id) ==
  [ini |-> inicio, fin |-> inicio + size - 1, size |-> size,
   ocupada |-> FALSE, id |-> id, msg |-> SinMensaje]

particionCandidata(p, n) == ~p.ocupada /\ n <= p.size
particionCandidataBS(p, n) == ~p.ocupada /\ n = p.size

hayParticionesCandidatas(n) == \E i \in DOMAIN tabla : particionCandidata(tabla[i], n)
hayParticionesCandidatasBS(n) == \E i \in DOMAIN tabla : particionCandidataBS(tabla[i], n)

Candidatas(t, n) == {i \in DOMAIN t : particionCandidata(t[i], n)}

getParticionFirstFit(t, n) == Min(Candidatas(t, n))

\* The first of the smallest candidates.
getParticionBestFit(t, n) ==
  Min({i \in Candidatas(t, n) : \A j \in Candidatas(t, n) : t[i].size <= t[j].size})

getParticionLibre(t, n) ==
  IF ALGORITMO_PARTICION_LIBRE = "FF" THEN getParticionFirstFit(t, n)
                                      ELSE getParticionBestFit(t, n)

\* It filters with particionCandidata, not with particionCandidataBS.
getParticionBS(t, n) == Min(Candidatas(t, n))

\* Mutant: rounds down to a power of two.
PotenciaInferior(n) ==
  CHOOSE p \in {potencia[k] : k \in 0..n} :
    p <= n /\ \A k \in 0..n : potencia[k] <= n => potencia[k] <= p

tamanioMinimo(n) ==
  CHOOSE p \in {potencia[k] : k \in 0..n} :
    p >= n /\ \A k \in 0..n : potencia[k] >= n => p <= potencia[k]

AlMenosElMinimo(n) == IF n < TAMANO_MINIMO_PARTICION THEN TAMANO_MINIMO_PARTICION ELSE n

TamanioPedido(n) ==
  AlMenosElMinimo(IF ALGORITMO_MEMORIA = "BS" THEN tamanioMinimo(n) ELSE n)

\* Partition i is replaced by the partitions of nuevas.
Reemplazar(t, i, nuevas) == SubSeq(t, 1, i - 1) \o nuevas \o SubSeq(t, i + 1, Len(t))

\* Mutant: what is left keeps the size of the whole partition.
RestoSinDescontar(t, i, n) ==
  Reemplazar(t, i, <<crearParticion(t[i].ini, n, id_particion + 1),
                     crearParticion(t[i].ini + n, t[i].size, id_particion + 2)>>)

generarParticionDinamica(t, i, n) ==
  Reemplazar(t, i, <<crearParticion(t[i].ini, n, id_particion + 1),
                     crearParticion(t[i].ini + n, t[i].size - n, id_particion + 2)>>)

\* Each half takes a second id after the one of crearParticion.
generarParticionBS(t, i) ==
  LET mitad == t[i].size \div 2
  IN  Reemplazar(t, i, <<crearParticion(t[i].ini, mitad, id_particion + 2),
                         crearParticion(t[i].ini + mitad, mitad, id_particion + 4)>>)

guardarMensaje(t, i, m, id) ==
  [t EXCEPT ![i] = [@ EXCEPT !.ocupada = TRUE, !.msg = m, !.id = id]]

Ocupadas(t) == {i \in DOMAIN t : t[i].ocupada}

\* Mutant: the comparison is the other way round.
ConservarLaMayor(t, v, j) == IF t[v].id < t[j].id THEN j ELSE v

\* One comparison of algoritmoFIFO and of algoritmoLRU, which are the same (the
\* comment on the second says that it looks for the largest id).
CompararCandidata(t, v, j) == IF t[v].id > t[j].id THEN j ELSE v

\* The partition whose turn it is: the first of smallest id.
LaDeMenorId(t) ==
  Min({i \in Ocupadas(t) : \A j \in Ocupadas(t) : t[i].id <= t[j].id})

-----------------------------------------------------------------------------
(* Coalescing and compaction *)

FusionarConAnterior(t, i) ==
  Reemplazar(RemoveAt(t, i), i - 1,
             <<[t[i] EXCEPT !.ini = t[i-1].ini, !.size = @ + t[i-1].size]>>)

FusionarConSiguiente(t, i) ==
  Reemplazar(RemoveAt(t, i + 1), i,
             <<[t[i] EXCEPT !.fin = t[i+1].fin, !.size = @ + t[i+1].size]>>)

\* x ^ s, for s a power of two.
XorTamanio(x, s) == IF (x \div s) % 2 = 0 THEN x + s ELSE x - s

\* Mutant: the second partition may be occupied.
PrimeraLibre(p, q) == ~p.ocupada

AmbasLibres(p, q) == ~p.ocupada /\ ~q.ocupada

\* Mutant: the xor is forgotten.
VecinasIguales(p, q) == AmbasLibres(p, q) /\ p.size = q.size

SonBuddies(p, q) ==
  AmbasLibres(p, q) /\ p.size = q.size /\ q.ini = XorTamanio(p.ini, p.size)

SeUnen(p, q) ==
  IF ALGORITMO_MEMORIA = "BS" THEN SonBuddies(p, q) ELSE AmbasLibres(p, q)

\* Mutant: the partition freed is left as it is.
SinConsolidar(t, i) == t

\* consolidarParticion and consolidarParticionBS: partition i is joined with
\* its left neighbour and then with its right one, never more than one a side.
consolidarParticion(t, i) ==
  LET izq == i # 1 /\ SeUnen(t[i-1], t[i])
      t1  == IF izq THEN FusionarConAnterior(t, i) ELSE t
      j   == IF izq THEN i - 1 ELSE i
  IN  IF j # Len(t1) /\ SeUnen(t1[j], t1[j+1]) THEN FusionarConSiguiente(t1, j) ELSE t1

Liberar(t, i) ==
  [t EXCEPT ![i] = [@ EXCEPT !.ocupada = FALSE, !.msg = SinMensaje,
                             !.id = IF ALGORITMO_REEMPLAZO = "FIFO" THEN 0 ELSE id_particion + 1]]

algoritmoLiberacion(t, i) == consolidarParticion(Liberar(t, i), i)

\* Mutant: the memory is never compacted.
NuncaToca(liberadas) == FALSE

TocaCompactar(liberadas) ==
  CASE FRECUENCIA_COMPACTACION = -1 -> FALSE
    [] FRECUENCIA_COMPACTACION = 1  -> TRUE            \* case 0 || 1
    [] OTHER -> liberadas = FRECUENCIA_COMPACTACION
-----------------------------------------------------------------------------
(* The store of one message *)

Ocioso == [paso |-> "ocioso", msg |-> SinMensaje, tamanio |-> 0, liberadas |-> 0,
           cantElementos |-> 0, apartadas |-> <<>>, victima |-> 0, hasta |-> 0,
           renovada |-> FALSE, usoNulo |-> FALSE]

Init ==
  /\ config \in Configuraciones
  /\ tabla = <<crearParticion(0, TAMANO_MEMORIA, 1)>>
  /\ id_particion = 1
  /\ tarea = Ocioso
  /\ publicados = 0 /\ usos = 0
  /\ medida = [m \in Mensaje |-> 0]
  /\ orden = <<>> /\ perdidas = {}

\* Mutant: the bound of the loop is one short.
GuardarConUnaMenos(n) ==
  /\ tarea.paso = "ocioso" /\ publicados < MaxMensajes
  /\ publicados' = publicados + 1
  /\ medida' = [medida EXCEPT ![publicados + 1] = n]
  /\ tarea' = [Ocioso EXCEPT !.paso = "buscar", !.msg = publicados + 1,
                             !.tamanio = TamanioPedido(n), !.cantElementos = Len(tabla) - 1]
  /\ UNCHANGED <<tabla, id_particion, usos, orden, perdidas>>

\* A publisher takes mutex_guardar_en_memoria and enters the algorithm.
guardarMensajeEnCache(n) ==
  /\ tarea.paso = "ocioso" /\ publicados < MaxMensajes
  /\ publicados' = publicados + 1
  /\ medida' = [medida EXCEPT ![publicados + 1] = n]
  /\ tarea' = [Ocioso EXCEPT !.paso = "buscar", !.msg = publicados + 1,
                             !.tamanio = TamanioPedido(n), !.cantElementos = Len(tabla)]
  /\ UNCHANGED <<tabla, id_particion, usos, orden, perdidas>>

\* The message goes into partition i of t, and the mutex is released.
Guardar(t, i, idsUsados) ==
  /\ tabla' = guardarMensaje(t, i, tarea.msg, id_particion + idsUsados + 1)
  /\ id_particion' = id_particion + idsUsados + 1
  /\ orden' = Append(orden, tarea.msg)
  /\ tarea' = Ocioso
  /\ UNCHANGED <<publicados, usos, medida, perdidas>>

\* History: message m leaves its place in s.
QuitarDe(s, m) == RemoveAt(s, CHOOSE k \in DOMAIN s : s[k] = m)

Buscando(paso) == tarea.paso = paso /\ tarea.liberadas <= tarea.cantElementos

\* Mutant: a partition that is too large is not split.
GuardarSinPartir ==
  /\ ALGORITMO_MEMORIA = "PARTICIONES"
  /\ Buscando("buscar") /\ hayParticionesCandidatas(tarea.tamanio)
  /\ Guardar(tabla, getParticionLibre(tabla, tarea.tamanio), 0)

\* algoritmoParticionDinamica, a free partition is large enough.
GuardarDinamica ==
  /\ ALGORITMO_MEMORIA = "PARTICIONES"
  /\ Buscando("buscar") /\ hayParticionesCandidatas(tarea.tamanio)
  /\ LET n == tarea.tamanio
         i == getParticionLibre(tabla, n)
         t == generarParticionDinamica(tabla, i, n)
     IN  IF tabla[i].size = n THEN Guardar(tabla, i, 0)
                              ELSE Guardar(t, getParticionLibre(t, n), 2)

\* algoritmoBuddySystem, a free partition has the very size.
GuardarBS ==
  /\ ALGORITMO_MEMORIA = "BS"
  /\ Buscando("buscar") \/ tarea.paso = "partir"
  /\ hayParticionesCandidatasBS(tarea.tamanio)
  /\ Guardar(tabla, getParticionBS(tabla, tarea.tamanio), 0)

\* algoritmoBuddySystem, one round of the inner loop that halves the first
\* candidate until some partition has the very size.
PartirBS ==
  /\ ALGORITMO_MEMORIA = "BS"
  /\ \/ Buscando("buscar") /\ hayParticionesCandidatas(tarea.tamanio)
     \/ tarea.paso = "partir"
  /\ ~hayParticionesCandidatasBS(tarea.tamanio)
  /\ tabla' = generarParticionBS(tabla, getParticionFirstFit(tabla, tarea.tamanio))
  /\ id_particion' = id_particion + 4
  /\ tarea' = [tarea EXCEPT !.paso = "partir"]
  /\ UNCHANGED <<publicados, usos, medida, orden, perdidas>>

\* No candidate: algoritmoReemplazo (FIFO or LRU) lists the occupied partitions
\* and begins with the first.
ElegirVictima ==
  /\ Buscando("buscar") /\ ~hayParticionesCandidatas(tarea.tamanio)
  /\ Ocupadas(tabla) # {}
  /\ LET i == Min(Ocupadas(tabla))
     IN  tarea' = [tarea EXCEPT !.paso = "elegir", !.victima = i, !.hasta = i]
  /\ UNCHANGED <<tabla, id_particion, publicados, usos, medida, orden, perdidas>>

PorMirar == {j \in Ocupadas(tabla) : j > tarea.hasta}

\* It reads the ids one by one; actualizarID may renew any of them meanwhile.
CompararVictima ==
  /\ tarea.paso = "elegir" /\ PorMirar # {}
  /\ LET j == Min(PorMirar)
     IN  tarea' = [tarea EXCEPT !.victima = CompararCandidata(tabla, @, j), !.hasta = j]
  /\ UNCHANGED <<tabla, id_particion, publicados, usos, medida, orden, perdidas>>

\* The victim is evicted, and its partition joined with its neighbours.
LiberarVictima ==
  /\ tarea.paso = "elegir" /\ PorMirar = {}
  /\ LET i == tarea.victima
         compacta == ALGORITMO_MEMORIA = "PARTICIONES" /\ TocaCompactar(tarea.liberadas + 1)
     IN  /\ tabla' = algoritmoLiberacion(tabla, i)
         /\ orden' = QuitarDe(orden, tabla[i].msg)
         /\ perdidas' = perdidas \ {tabla[i].msg}
         /\ tarea' = [tarea EXCEPT !.liberadas = @ + 1, !.victima = 0, !.hasta = 0,
                                   !.renovada = FALSE,
                                   !.paso = IF compacta THEN "compactar" ELSE "buscar"]
  /\ id_particion' = IF ALGORITMO_REEMPLAZO = "FIFO" THEN id_particion ELSE id_particion + 1
  /\ UNCHANGED <<publicados, usos, medida>>

\* Nothing is left to evict: the victim is NULL and obtenerPosicion reads
\* its id.  The process dies; the branch that would give up is never taken.
DesreferenciarVictimaNula ==
  /\ Buscando("buscar") /\ ~hayParticionesCandidatas(tarea.tamanio)
  /\ Ocupadas(tabla) = {}
  /\ tarea' = [tarea EXCEPT !.paso = "segfault"]
  /\ UNCHANGED <<tabla, id_particion, publicados, usos, medida, orden, perdidas>>

\* algoritmoCompactacion: the partitions are set apart, put back one by one
\* and joined one by one, and actualizarID may run between any two.
VaciarTabla ==
  /\ tarea.paso = "compactar"
  /\ tarea' = [tarea EXCEPT !.paso = "reponer", !.apartadas = tabla]
  /\ tabla' = <<>>
  /\ UNCHANGED <<id_particion, publicados, usos, medida, orden, perdidas>>

posicion == IF tabla = <<>> THEN 0 ELSE Last(tabla).fin + 1

\* The occupied partitions go before the free ones.
ProximaApartada ==
  IF Ocupadas(tarea.apartadas) # {} THEN Min(Ocupadas(tarea.apartadas)) ELSE 1

ReponerParticion ==
  /\ tarea.paso = "reponer" /\ tarea.apartadas # <<>>
  /\ LET i == ProximaApartada
         p == tarea.apartadas[i]
     IN  /\ tabla' = Append(tabla, [p EXCEPT !.ini = posicion, !.fin = posicion + p.size - 1])
         /\ tarea' = [tarea EXCEPT !.apartadas = RemoveAt(@, i)]
  /\ UNCHANGED <<id_particion, publicados, usos, medida, orden, perdidas>>

TerminarDeReponer ==
  /\ tarea.paso = "reponer" /\ tarea.apartadas = <<>>
  /\ tarea' = [tarea EXCEPT !.paso = "unir"]
  /\ UNCHANGED <<tabla, id_particion, publicados, usos, medida, orden, perdidas>>

\* The first free partition is joined with the next until it is the last.
ConsolidarLibres ==
  /\ tarea.paso = "unir"
  /\ LET i == Min(DOMAIN tabla \ Ocupadas(tabla))
     IN  IF i = Len(tabla)
         THEN tarea' = [tarea EXCEPT !.paso = "buscar"] /\ UNCHANGED tabla
         ELSE tabla' = consolidarParticion(tabla, i) /\ UNCHANGED tarea
  /\ UNCHANGED <<id_particion, publicados, usos, medida, orden, perdidas>>

-----------------------------------------------------------------------------
(* actualizarID, by a thread that sends message m (LRU only, no mutex).  For *)
(* a message evicted since the thread listed it, it changes nothing.         *)

Enviable(m) ==
  /\ ALGORITMO_REEMPLAZO = "LRU" /\ tarea.paso # "segfault"
  /\ usos < MaxUsos
  /\ m \in ToSet(orden)

\* History: message m has been sent.
AlEnviar(m) ==
  /\ usos' = usos + 1
  /\ orden' = Append(QuitarDe(orden, m), m)
  /\ UNCHANGED <<publicados, medida>>

\* History (renovada): the message whose turn it was is renewed during the choice.
actualizarID(m) ==
  /\ Enviable(m) /\ AlEnviar(m)
  /\ \E i \in DOMAIN tabla :
       /\ tabla[i].msg = m
       /\ tabla' = [tabla EXCEPT ![i].id = id_particion + 1]
       /\ tarea' = [tarea EXCEPT !.renovada =
                      @ \/ (tarea.paso = "elegir" /\ i = LaDeMenorId(tabla))]
  /\ id_particion' = id_particion + 1
  /\ perdidas' = perdidas \ {m}

\* While a publisher is changing the list the unsynchronised loop may step
\* over the partition: the message has been sent and keeps its old id.
actualizarIDSinEfecto(m) ==
  /\ tarea.paso # "ocioso"
  /\ Enviable(m) /\ AlEnviar(m)
  /\ perdidas' = perdidas \cup {m}
  /\ UNCHANGED <<tarea, tabla, id_particion>>

\* Or the list gets shorter between the test of the loop and list_get, which
\* answers NULL: the process dies.
actualizarIDDeNulo(m) ==
  /\ tarea.paso # "ocioso"
  /\ Enviable(m)
  /\ tarea' = [tarea EXCEPT !.usoNulo = TRUE]
  /\ UNCHANGED <<tabla, id_particion, publicados, usos, medida, orden, perdidas>>

Almacenar ==
  \/ GuardarDinamica
  \/ GuardarBS
  \/ PartirBS
  \/ ElegirVictima
  \/ CompararVictima
  \/ LiberarVictima
  \/ DesreferenciarVictimaNula
  \/ VaciarTabla
  \/ ReponerParticion
  \/ TerminarDeReponer
  \/ ConsolidarLibres

Next ==
  /\ ~tarea.usoNulo
  /\ \/ \E n \in config.tamanios : guardarMensajeEnCache(n)
     \/ Almacenar
     \/ \E m \in Mensaje : actualizarID(m)
     \/ \E m \in Mensaje : actualizarIDSinEfecto(m)
     \/ \E m \in Mensaje : actualizarIDDeNulo(m)
  /\ UNCHANGED config

Spec == Init /\ [][Next]_vars
-----------------------------------------------------------------------------
(* Properties *)

Particion ==
  [ini : 0..TAMANO_MEMORIA, fin : 0..TAMANO_MEMORIA, size : 1..TAMANO_MEMORIA,
   ocupada : BOOLEAN, id : Nat, msg : Mensaje \cup {SinMensaje}]

Pasos == {"ocioso", "buscar", "partir", "elegir", "compactar", "reponer", "unir", "segfault"}

Tareas ==
  [paso : Pasos, msg : Mensaje \cup {SinMensaje}, tamanio : Nat, liberadas : Nat,
   cantElementos : Nat, apartadas : Seq(Particion), victima : Nat, hasta : Nat,
   renovada : BOOLEAN, usoNulo : BOOLEAN]

\* Every variable holds a value of the kind its declaration in the code says.
TypeOK ==
  /\ config \in Configuraciones
  /\ tabla \in Seq(Particion)
  /\ id_particion \in Nat
  /\ tarea \in Tareas
  /\ publicados \in 0..MaxMensajes
  /\ usos \in 0..MaxUsos
  /\ medida \in [Mensaje -> config.tamanios \cup {0}]
  /\ orden \in Seq(Mensaje)
  /\ perdidas \subseteq Mensaje

\* The partitions tile the memory: whatever was split, joined, evicted or
\* compacted, they are consecutive, none is empty and none is lost, and
\* posicion_inicial, posicion_final and size of each agree.
Particionada ==
  tarea.paso # "reponer" =>
    /\ tabla # <<>> /\ tabla[1].ini = 0 /\ Last(tabla).fin = TAMANO_MEMORIA - 1
    /\ \A i \in DOMAIN tabla : tabla[i].size > 0 /\ tabla[i].fin = tabla[i].ini + tabla[i].size - 1
    /\ \A i \in 1..(Len(tabla) - 1) : tabla[i+1].ini = tabla[i].fin + 1

\* Under dynamic partitions two neighbouring free partitions never remain
\* unjoined, so no room is hidden from the search for a candidate.
SinLibresContiguas ==
  (ALGORITMO_MEMORIA = "PARTICIONES" /\ tarea.paso \notin {"reponer", "unir"}) =>
    \A i \in 1..(Len(tabla) - 1) : tabla[i].ocupada \/ tabla[i+1].ocupada

\* A message stored and not evicted is in exactly one occupied partition,
\* through every split, join and compaction; no other partition is occupied.
CacheCoherente ==
  LET todas == tabla \o tarea.apartadas
      llenas == Ocupadas(todas)
  IN  /\ {todas[i].msg : i \in llenas} = ToSet(orden)
      /\ \A i, j \in llenas : todas[i].msg = todas[j].msg => i = j
      /\ \A i \in DOMAIN todas : todas[i].ocupada <=> todas[i].msg # SinMensaje

\* A message has at least the room it takes, and never less than the minimum.
CabeElMensaje ==
  \A i \in Ocupadas(tabla) :
    tabla[i].size >= medida[tabla[i].msg] /\ tabla[i].size >= TAMANO_MINIMO_PARTICION

\* ... and no more than that.
TamanioExacto ==
  \A i \in Ocupadas(tabla) : tabla[i].size = TamanioPedido(medida[tabla[i].msg])

\* Under dynamic partitions what the first-fit or best-fit choice leaves over
\* is always cut off.
SobranteCortado == ALGORITMO_MEMORIA = "PARTICIONES" => TamanioExacto

\* Buddy partitions are powers of two at multiples of their size: without it
\* the xor of consolidarParticionBS would not find the buddy.
BuddiesAlineados ==
  ALGORITMO_MEMORIA = "BS" =>
    \A i \in DOMAIN tabla : EsPotenciaDeDos(tabla[i].size) /\ tabla[i].ini % tabla[i].size = 0

\* A store never dereferences a NULL victim: when everything has been evicted
\* the message either fits or is given up with the message the code prints
\* ("Libere todas las particiones y no encontre un lugar para guardar el mensaje").
SinVictimaNula == tarea.paso # "segfault"

\* Dynamic partitions keep that promise, compacting or not: everything freed
\* comes together in one partition.
DinamicaSinVictimaNula == ALGORITMO_MEMORIA = "PARTICIONES" => SinVictimaNula

\* The store never evicts more partitions than there were when it began: the
\* bound of its loop (liberadas <= cantElementos) never cuts it short.  It
\* waits for nobody, so a store that is not killed ends with its message stored.
NuncaAbandona == tarea.liberadas <= tarea.cantElementos

\* The victim is the message stored (FIFO) or last stored or sent (LRU)
\* longest ago.  Under LRU another can go before it only if its own last use
\* was not recorded, or if the message whose turn it was has been sent since
\* the choice began: a use of any other message does not change the choice.
VictimaMasAntigua ==
  [][\A m \in ToSet(orden) \ ToSet(orden') :
       m = Head(orden) \/ m \in perdidas \/ tarea.renovada]_vars

SumaLibres(t) ==
  LET suma[k \in 0..Len(t)] ==
        IF k = 0 THEN 0 ELSE suma[k-1] + (IF t[k].ocupada THEN 0 ELSE t[k].size)
  IN  suma[Len(t)]

\* When every eviction is followed by a compaction (dynamic, frequency 1) a second
\* victim goes only if all the free memory together is too little.
DesalojoNecesario ==
  [][(/\ ALGORITMO_MEMORIA = "PARTICIONES" /\ FRECUENCIA_COMPACTACION = 1
      /\ tarea.liberadas > 0 /\ LiberarVictima) => SumaLibres(tabla) < tarea.tamanio]_vars

-----------------------------------------------------------------------------
(* The partitions implement the abstract cache: its messages are those of   *)
(* the occupied partitions, in the order of their ids.                      *)

EnCache == {p \in ToSet(tabla) \cup ToSet(tarea.apartadas) : p.ocupada}

MensajesPorId ==
  LET llenas == EnCache
      lugar(p) == Cardinality({q \in llenas : q.id <= p.id})
  IN  [k \in 1..Cardinality(llenas) |-> (CHOOSE p \in llenas : lugar(p) = k).msg]

Eleccion ==
  IF tarea.victima = 0 THEN "ninguna" ELSE IF tarea.renovada THEN "renovada" ELSE "empezada"

Cache == INSTANCE CacheBroker WITH
  cache <- MensajesPorId,
  entrante <- tarea.msg,
  eleccion <- Eleccion,
  reordena_al_enviar <- ALGORITMO_REEMPLAZO = "LRU"

\* Dynamic partitions and buddies, FF and BF, with or without compaction, all
\* keep one queue of messages: a store appends, an LRU use moves to the end, an
\* eviction takes the head unless the head was sent while it was being chosen,
\* and nothing else changes it.
ImplementaCache == Cache!Spec
=============================================================================
