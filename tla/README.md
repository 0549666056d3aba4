# Delibird: a verification of its Broker, Game-Card and Team

Delibird (UTN FRBA, Operating Systems, 2020) is a distributed system in C. A **Broker** keeps
messages in a memory of its own and sends them to the processes subscribed to six queues. The
**Game-Card** owns the pokemon, kept on a file system of its own called TallGrass. The **Team** moves
trainers about the map to catch them. The **Game-Boy** sends single messages from a command line.

This directory holds the TLA+ specifications of these processes and of the protocol between them, their TLC
configurations, and proofs about the memory, the queues and the connections of the Broker, about the Game-Card and
about the Team. Names in the modules are those of the C code. Paths below are relative to `src/` of the repository root,
e.g. `Broker/src/Broker.c`.

* `tlc -config X.cfg M` runs the model checks (table *Runs*);
* `tlapm TallGrassProofs.tla` checks proofs (each `...Proofs`, `...Lemas` and `Lemas`; `TeamProofs` and
  `ParticionesProofs` take about ten minutes, the others some minutes each);
* `PROJECT.json` ties every definition to the lines it models, every property to a mutation of the
  code that breaks it, and lists the hazards and the findings.

## 1. Inventory

### Broker: the memory (`Broker/src/Particiones.c`)
*State*: the list `tabla_particiones` (start, end, size, occupied, id, message) and the counter
`id_particion`. *Operations*: store a message (search, split, evict, join neighbours, compact), renew the
id of a message that is sent (`actualizarID`, LRU). *Interaction*: publishers store under
`mutex_guardar_en_memoria`; the subscriber threads read the table under it, but call `actualizarID` under
no mutex. *Hard*: a store is a loop of many steps whose bound must neither cut it short nor let it
go on; buddies are joined once only; ids are renewed while the table changes, is empty in the
middle of a compaction, or is searched for a victim. *Correct when*: partitions tile the memory; a cached message is in exactly one
partition; no neighbouring free partitions remain (dynamic); buddies are aligned; the victim is the right
one; a store ends and evicts no more than it must.

### Broker: queues and subscriptions (`Broker/src/Broker.c`, `Broker.h`)
*State*: `list_mensajes`, with the processes that acknowledged each; `list_suscriptores`; per queue two
counting semaphores (`primerX`, `nuevoMensajeX`); the semaphore `writer` and the counter `reader`; the
global id. *Operations*: a thread per message (id, list, cache, announce); a thread per subscriber (wait for
two tokens, search, send, wait for each ACK). *Hard*: `reader++` has no mutex; `get_id` reads the id
after its unlock; tokens belong to a queue and not to a thread; a client that goes away is noticed only while
its ACK is awaited; a client that returns is known by its process id. *Correct when*: an acknowledged
message is not sent again; no process is noted as having received what it never got; a message in memory
gets to its subscribers; publishers block only where the race on `reader` has lost `writer`.

### Connections: accept loop, handshake, clients (`Broker.c:18`, `Game-Card.c:252`, `team.c:1368`, `Game-Boy.c`)
*State*: the locals of `main`, among them one structure for the next subscription and one for the next message;
two mutexes that `main` takes and the thread it creates gives back; the sockets. *Operations*: handshake, then
a subscription or a message, each acknowledged; a subscriber that loses its connection comes back. *Hard*: `main`
waits for each client in turn; it passes the address of its own locals to threads; each payload is written and read
field by field with a size computed elsewhere; processes die at any step; nobody ignores SIGPIPE. *Correct when*: each
thread serves its own client; what is read is what was sent; after the last failure everybody is served.

### Broker: dump (`Broker.c:1340`, SIGUSR1)
The handler writes the table to a file, and locks a mutex that the interrupted thread may hold. Not modelled.

### Game-Card: TallGrass (`Game-Card/src/funciones.c`)
*State*: on disk the metadata of each pokemon (`OPEN`, `BLOCKS`, `SIZE`), the block files and the bitmap; in
memory a dictionary with a semaphore for each pokemon and the locals of each thread. *Operations*: NEW,
CATCH and GET, each in a thread. *Hard*: `OPEN=Y` is a lock kept in a file, waited for by polling; a
file is created in three steps that others can see; bits are cleared before the metadata forgets the
blocks; a crash leaves files half done. *Correct when*: a pokemon is open in one thread; the file of a
pokemon that nobody has open is whole and shares no block; requests behave as if they were atomic; each is
answered.

### Game-Card: text of a file, installation, recovery (`funciones.c`, `Game-Card.c`)
The file has one line `x-y=n` per position, searched with `strstr`. `instalar_filesystem` and
`recuperar_datos` create or read the bitmap and make the semaphores. Modelled so far: the map the text stands
for, the initial state and the restart.

### Team (`team/src/team.c`, `pokemon_utils.c`, `utils.c`)
*State*: a record per trainer (state, `ocupado`, `pokemon_destino`, position, pokemon, semaphore), `cola_ready` and
`cambio_cola_ready`, six counting semaphores, the pokemon seen, received and asked for, the CATCH that await an answer.
*Threads*: one per trainer, the planner, two replanners, the detector of deadlocks, one per message. *Operations*: four
schedulers (FIFO, RR, SJF with and without preemption), capture, detection of circular waits and exchange of pokemon.
*Hard*: only the queue has a mutex; `estado`, `ocupado` and `pokemon_destino` are written one after the other and
read by others in between; a CAUGHT may come before its id is registered; a semaphore is posted for three different
reasons; lists change while a cycle is being resolved. *Correct when*: the queue and its semaphore agree; one trainer
moves at a time; nobody catches more than it wants; what is credited is what was caught; every circular wait is found and
resolved; the Team ends.

### Sockets, shared types, Game-Boy, scripts
Serialisation (`OurLibraries/Sockets`) and the payloads (`UniversoPokemon`) are the alphabet of the connections. The
Game-Boy publishes, or subscribes for some seconds; its direct modes to Team and Game-Card are not modelled. Scripts
set up directories.

### How they interact
Team and Game-Card subscribe to queues of the Broker, acknowledge each message, and publish theirs
(GET, CATCH; APPEARED, LOCALIZED, CAUGHT) over new connections. Inside the Broker, `main` creates the threads of
`BrokerColas`, which call the store of `Particiones`. Inside the Game-Card, the subscriptions create the
threads of `TallGrass`. Inside the Team they create the message threads of `Team`.

## 2. Modules

| Module | What it is |
|---|---|
| `CacheBroker` | abstract: the memory of the Broker as one queue of messages (an eviction takes the head, LRU moves to the end) |
| `Particiones` | `Particiones.c`, one action per round of the store; implements `CacheBroker` |
| `Lemas` | facts about numbers and sequences that the proofs share, induction among them |
| `ParticionesLemas` | lemmas: what each operation on the list of partitions does, and what it keeps |
| `ParticionesProofs` | theorems about `Particiones` for every value of its constants, and that it implements `CacheBroker` |
| `BrokerColas` | the threads of messages and of subscribers of `Broker.c` |
| `BrokerColasProofs` | theorems about `BrokerColas` for every value of its constants |
| `Mensajes` | operators: the packets as the bytes they hold, written and read field by field |
| `Conexiones` | `main` of the Broker and the threads it creates, the clients, and the byte streams between them; extends `Mensajes` |
| `ConexionesProofs` | theorems about `Conexiones` and `Mensajes` for every set of clients |
| `MapaPokemon` | abstract: how many pokemon there are at each position, with atomic NEW, CATCH and GET |
| `TallGrass` | the threads of the Game-Card on metadata, blocks and bitmap, with crash and restart; implements `MapaPokemon` |
| `TallGrassProofs` | theorems about `TallGrass` for every value of its constants |
| `Pokemones` | operators: lists of pokemon, what is missing, what is to spare, what an exchange moves |
| `Deadlocks` | operators: the search for circular waits and the choice of an exchange; extends `Pokemones` |
| `Rondas` | detection and exchange alone, round after round, on teams that wait in a circle; extends `Deadlocks` |
| `RondasProofs` | theorems about `Rondas` for every circle in which each has one pokemon and wants one |
| `Team` | the threads of a Team; extends `Deadlocks`, and takes from `Mensajes` what reading a LOCALIZED does |
| `TeamProofs` | theorems about `Team`, and about the operators of `Deadlocks` and `Pokemones`, for every team, algorithm and sequence of messages |
| `MC...` | instances for TLC |

### Particiones
`tabla` is `tabla_particiones`, in order; `tarea` holds the locals of the algorithm that has the mutex
(message, size, `liberadas`, `cantElementos`) and its next step. `guardarMensajeEnCache` enters the algorithm;
`GuardarDinamica`, `GuardarBS` and `PartirBS` are rounds of its loop. A round that evicts has a step for each partition looked at:
`ElegirVictima` begins with the first occupied one, `CompararVictima` compares the next id, `LiberarVictima` releases and joins
the one chosen; `actualizarID` may renew the id of any of them in between. Joining follows the
code: one neighbour on each side, never in cascade. Compaction is `VaciarTabla` (`list_clean`), a
`ReponerParticion` for each partition put back, occupied ones first, `TerminarDeReponer`, and a `ConsolidarLibres` for each join of its last loop:
the table is empty, and then incomplete, in between. `actualizarID` may come between any two steps, with or without finding
its partition, or die there of a list that got shorter (`actualizarIDDeNulo`). `medida`, `orden` and `perdidas` are history: the size of
each message, the order of use, and the uses the race dropped; `tarea.renovada` says that the message whose turn it was has been
renewed since the choice began. `CacheBroker` makes the same exception: what goes out is its head, unless the head is sent
between the choice and the release.

### BrokerColas
A section under a mutex is one action. Each access to `reader` and to `id_mensaje_global` outside of a mutex
is an action too: `LeerReader`/`EscribirReader` are the load and the store of `reader++`, `LeerId` is the
return of `get_id`. The six functions `manejoSuscripcionX` have the same text up to the queue, so they are
instances of `ManejoSuscripcion`. The memory is a FIFO queue of `Capacidad` messages: what
`Particiones` is shown to implement, for messages of one size. A client acknowledges what it gets or
disconnects at any moment, and connects again to a queue only after its last connection is gone.
`entregado` and `yaConfirmados` are history.

### Mensajes and Conexiones
A stream is a sequence of bytes, each marked with the field it belongs to and its place there: `Leer` gives the value
back if the bytes are those of one field in order, and `Basura` if they are not. So a field that is too long, missing
or out of place spoils what comes after it, as it does in the program. In `Conexiones`, `principal` and
`hilo` are the locals of `main` and of its threads, and each blocking `recv` is a step that waits for its bytes or for the
other side to close. `estructura_suscriptor` and `estructura_mensaje` are the locals whose address is handed over, with
the mutex that `main` locks and the thread unlocks. A client is a program counter and the number of its current
connection. `Caida` and `Muerte` are crashes; `SigPipe` and `HandshakePerdido` are deaths that the code brings upon
itself by writing to a dead connection. Which message is sent when is the matter of `BrokerColas`: here a thread may
send any message of its queue that its process has not acknowledged, so ids are 0 and there are no tokens. Of the searches
only their effect on the semaphore `writer` is kept, since a publisher is acknowledged after it has waited for it (`Broker.c:698`):
with two threads of subscribers, of any queues, `PerderWriter` and `ReponerWriter` are what the race on `reader` may do to it.

### TallGrass
`estado`, `open`, `blocks`, `size`, `disco` and `mapa` are the disk; `paso` is the next operation of a thread. What
the code does under the semaphore of a pokemon, under `bitmap` or under `diccionario` is one action, but
for the creation of a pokemon, in three steps because `existe` looks with no semaphore. `Caida` kills
the process between two steps, and may leave empty the metadata that a thread was rewriting (`fopen "w"`);
`Reinicio` is `recuperar_datos`. After undefined behaviour (`get_open` of an empty file, a bitmap with no free
bit) `sistema` is `"indefinido"` and the model stops. `contenido` is history: the map that the requests done so
far add up to, and the refinement mapping to `MapaPokemon`.

### Pokemones, Deadlocks, Rondas
Plain operators on lists `[nombre, cantidad]`, in the order the code scans them. `recorrer_fila_DL` follows the
code and not the idea of it: from each row it goes to the *first* 1 only, counters and `procesos_involucrados` run on from one
walk to the next, and the matrix is read past its rows when fewer trainers are in deadlock than there are (`basura` is
what lies behind it). `Rondas` repeats detection and exchange until nobody is in deadlock.

### Team
`ent[e]` is the `t_entrenador` with the program counter of its thread; `sem` the six semaphores; `servicio`
what the planner, the replanner, the detector and `hilo_exit` have in hand; `hilos` the threads of messages; `catches` the
CATCH sent, with whether the id is registered. Reads and writes that other threads can get between are separate
actions: `Llegar`/`SalirDeExec` (`BLOCKED`, then `ocupado`), `ElegirAppeared`/`AsignarAppeared`, `EnviarCatch`/
`RegistrarCatch`, `ProponerIntercambio` and, after five cycles of sleep, the changes of an exchange one by one (`RecibirPokemon`, `QuitarAlOtro`,
`EntregarPokemon`, `QuitarLoEntregado`, `LiberarEntrenador`, `LiberarAlOtro`),
`hilo_replanificar`/`replanificar_entrenador`, `Detectar`/`resolver_deadlock`. Following a NULL or uninitialised pointer is
an action of its own that ends the model in `vivo = "segfault"`. `tratados` is history: who has taken part in an exchange.

## 3. Runs

| Run | Question | Result |
|---|---|---|
| `particiones` | dynamic (first fit with FIFO, best fit with LRU) and buddy system, with unsynchronised `actualizarID`: do partitions tile the memory, is a message lost or doubled, is the victim the right one and needed, is it a queue? | holds, 1 088 340 states |
| `buddy_sin_victima` | does a buddy store find a victim, or room, once everything was evicted? | **violated** |
| `colas` | two messages, two connections, one or two processes, disconnection and eviction: is what was acknowledged sent again, who is noted as having received? | holds, 1.07 million states |
| `colas_vida` | two messages, fair threads; one subscriber of any of the six queues, or two of one: does a message stay in its queue, does every one reach the only subscriber, does every publisher finish unless two searches meet on `reader`? | holds, 245 387 states |
| `colas_id_repetido` | are the ids of the messages unique, as `obtenerMensaje` takes for granted? | **violated** |
| `tallgrass` | three requests, two pokemon, two blocks, a crash between any two steps or inside the rewriting of a metadata: lock, integrity, no shared blocks, atomic map? | holds, 154 000 states |
| `tallgrass_vida` | three requests for one pokemon, fair threads: is each answered? | holds, 66 000 states |
| `team` | fourteen teams, all four algorithms: do queue and semaphores agree, does one trainer move at a time, is what is caught wanted (until an exchange) and credited rightly, does a trainer wait in vain? | holds, 471 559 states |
| `team_vida` | teams that need an exchange of two or three, fair threads: does the Team end? | holds, 76 973 states |
| `rondas` | every circular wait of two to five trainers, in every numbering: is it found and resolved by fair exchanges? | holds, 207 states |
| `conexiones` | subscribers, publishers and a Game-Boy, crashes of the Broker and of clients: does each thread get its own client, is each message read as it was sent, is everybody served in the end, unless `writer` is lost? | holds, 58 050 states |
| `localized_posiciones` | does a LOCALIZED hold all its positions, as the comment lays it out? | **violated** |

`CHECK_DEADLOCK FALSE` is everywhere because all models stop when the messages or requests of the
instance are used up, and where the process has died.

### The three violations
* `SinVictimaNula` (`Particiones.c:155`): freed buddies are joined once a side and not in cascade. With every
  message evicted the memory may still be in pieces; the next victim is NULL and `obtenerPosicion` reads its id.
  The branch that prints "Libere todas las particiones y no encontre un lugar" is not reached.
* `IdsUnicos` (`Broker.c:214`): two threads increment the id before either reads it back.
* `LocalizedFiel` (`sockets.c:356`): one `malloc` for all the positions: the list holds the last one, repeated. The
  comment at `Broker.c:1280` shows three different ones.

### Bounds, and why they are enough
* *Particiones*: a memory of 8 and minimum 2 (1 for buddies); the sizes give exact fits, remainders, messages below
  the minimum, splits in cascade and stores that need several victims. `MaxMensajes` 5: the memory fills and is
  emptied more than once. `MaxUsos` 2 lets two uses race with one store. No size is larger than the memory in
  the run that passes: such a message reaches the NULL victim at once.
* *BrokerColas*: a race on `reader` needs two threads; an eviction needs two messages with `Capacidad` 1. A
  reconnection needs two connections of one process, a stolen token two processes; the two connections of `colas`
  may be either. `colas_vida` takes messages, connections and processes in one order (`EnOrden`, since they are interchangeable).
  `DosEnUnaCola` lets one message and one connection be of any queue while there is no second connection; two connections, of two
  processes, are on one queue, where their threads meet on `reader` or take turns on it. Then the second comes before the last
  message, and disconnections, which a thread notices between two searches only, are left to `colas`.
* *Conexiones*: three clients are enough for `main` to serve one while a thread still holds the structure of another and
  a third waits in the backlog. Each field of each of the six messages travels at least once, in both directions. One
  crash of the Broker and one of a client, also together; `conexiones` is how many connections a client can need
  (each fall of the Broker, from a crash or SIGPIPE, and each death of its process costs one), and one
  that needed more would stay unserved, against `TodosAtendidos`. A scenario with a crash has two subscribers *or* one and a publisher, not both: the
  product takes too long. `DosMensajes` has the two subscribers and the two publishers that it takes for one message to be stored,
  `writer` to be lost, and the other publisher to wait for it.
* *Team*: two trainers for every race between a trainer and the service threads; three for a circular wait and for a
  cycle shorter than the deadlock. Three messages, so that a trainer catches twice or a message comes while all
  are busy. In `Despojado` an exchange gives what is not there. Positions 0..4 on a line: the code moves along X and then along Y, and only distance and equality
  matter. Each scenario says which case it is for.
* *Rondas*: all the cyclic permutations of up to five trainers, so that the first-1 walk meets every order of rows.
* *TallGrass*: three threads on two pokemon and two blocks: two threads compete for a pokemon while a third
  competes with them for blocks, and the disk gets full. `MaxCaidas` is 1. The theorems of section 4 cover
  every size.

### Fairness
* `BrokerColas`: weak fairness of each thread, and of each client's answer. Nobody has to subscribe, and which
  of two waiting threads gets a semaphore is open (POSIX semaphores are not FIFO).
* `TallGrass`: weak fairness of each thread and of the restart. The wait for `OPEN=N` is a polling loop
  (`sem_post`, `sleep`, `sem_wait`), modelled as a step enabled when `OPEN=N`. Weak fairness is enough here
  since the requests are finitely many, so a thread finds the file closed in the end.
* `Team`: weak fairness of `Hilos`, the threads together, which is enough because each scenario offers finitely many steps to
  each; and `[]<>~Detectando`, that a thread inside `detectar_deadlocks` leaves it in the end. The Game-Card's
  answer is one of the threads. No order is assumed among waiting threads.
* `Conexiones`: weak fairness of `main`, of each thread of the Broker while it does not wait for a message, of each
  client, and of the restart of the Broker. None of sending a message (that is the matter of the tokens), none
  of what happens to `writer` and none of crashes. A subscriber process that dies is taken to be started again, as the Broker is: nothing in the
  repository does it, somebody at a console does.
* `Particiones`: none; its properties are safety. That a store ends follows from `NuncaAbandona` and from
  `liberadas`, which bounds its rounds.

## 4. What is proved

TLAPS checks the proofs, for every value of the constants that the assumptions allow.

### The memory (`ParticionesLemas`, `ParticionesProofs`)

For every size of memory, every set of configuration files (algorithms, minimum, frequency, sizes of messages) and
every number of messages and of uses:

| Theorem | States |
|---|---|
| `TiposDeLaMemoria` | `Spec => []TypeOK` |
| `MemoriaSinHuecos` | `Spec => []Particionada` |
| `LibresUnidas` | `Spec => []SinLibresContiguas` |
| `MensajesEnSuLugar` | `Spec => []CacheCoherente` |
| `LugarParaCadaMensaje` | `Spec => []CabeElMensaje` |
| `SobranteSiempreCortado` | `Spec => []SobranteCortado` |
| `BuddiesSiempreAlineados` | `Spec => []BuddiesAlineados` |
| `LaBusquedaNoSeCorta` | `Spec => []NuncaAbandona` |
| `DinamicaSiempreConVictima` | `Spec => []DinamicaSinVictimaNula`, given `MensajesQueEntran` |
| `LaVictimaEsLaMasAntigua` | `Spec => VictimaMasAntigua` |
| `NingunDesalojoDeMas` | `Spec => DesalojoNecesario` |
| `LaMemoriaImplementaLaCola` | `Spec => ImplementaCache` |

*Assumptions*: `ConstantesValidas`; `PotenciasParaBuddySystem` (a buddy system is given powers of two), used by
`BuddiesSiempreAlineados` and by what halving a partition keeps; `MensajesQueEntran`, the hypothesis of one theorem
only: with dynamic partitions no message is larger than the memory (a larger one does follow the NULL victim).

*Argument*. The list is never reasoned about through `SubSeq` and `RemoveAt`: the lemmas of `ParticionesLemas` say point
by point what splitting, storing, evicting, joining and halving make of it (`Partida`, `Unida`), and that each keeps
that the partitions are consecutive (`Cortada`), marked and with distinct messages (`Sana`), aligned, or without free
neighbours. The properties are not inductive, and `IInv` adds:

* `Apartado`: the partitions a compaction has set apart fit exactly behind those it has put back, and hold other
  messages; without it neither `Particionada` nor `CacheCoherente` survives a compaction.
* `Libres`: no free neighbours outside of a compaction, and inside it all occupied partitions before all free ones. One
  join on each side is enough for dynamic partitions *because* there were no free neighbours before; this is what fails for buddies.
* `Historia`, `TamaniosJustos`: the history and the partitions name the same messages, each partition with the room its
  message asked for.
* `Turnos`: a message stored or sent later is in a partition of greater id, unless its last use was lost. Beside `IInv`, `Elegida`: once
  the choice has looked at the partition of least id, that one is the victim, unless it was renewed since the choice began. A
  renewal of any other partition, looked at or not, gives it a greater id than all and changes nothing. The two give `VictimaMasAntigua`.
* `Paciencia`: evictions done and messages left are together no more than `cantElementos`. It gives `NuncaAbandona`.

For the refinement `RInv` adds that ids are distinct (each use and store takes a fresh one). The abstract queue is that
of the occupied partitions in the order of their ids (`MensajesPorId`), those set apart included; the proof describes it
without its order (`Ordenada`: the same messages, each once, by growing id), shows that this determines it
(`OrdenadaUnica`), and then that a store appends, an eviction takes the head (by `Elegida`; any message, if the head was renewed
during the choice), `actualizarID` moves a message to the end, and every other step keeps it. An `actualizarID` that finds no partition is a stutter: the queue is that of the
ids and not that of the uses, which `VictimaMasAntigua` is about.

### The queues (`BrokerColasProofs`)

For every finite set of messages, every set of connections and processes, every capacity:

| Theorem | States |
|---|---|
| `TiposCorrectos` | `Spec => []TypeOK` |
| `ConfirmacionesFieles` | `Spec => []ConfirmacionFiel` |
| `SinSuscripcionesRepetidas` | `Spec => []UnaEntradaPorSuscripcion` |
| `CacheadosListados` | `Spec => []CacheadoEstaListado` |
| `EntregasDeSuCola` | `Spec => []EntregaDeSuCola` |
| `NadaSeReentrega` | `Spec => SinReentrega` |

*Assumption*: `ConstantesValidas`, in which the messages are finitely many (`id_mensaje_global` counts them).

*Argument*. The six subscriber functions are one text, so a connection has one invariant (`Conexion`): what it has still
to send is of its queue, not acknowledged when it connected and not delivered (`PorEnviar`); what is on its way has
left that list, and is delivered from the moment the client has it (`EnCamino`); what is delivered is confirmed or
its ACK is on its way (`Entregado`). None of it depends on `reader`, so the race on that counter breaks none of
these properties. `Listados` ties the steps of a message to `list_mensajes`.

### The connections (`ConexionesProofs`)

For every set of clients and profiles, any number of crashes, deaths and connections of each client, and messages of every
kind with any fields:

| Theorem | States |
|---|---|
| `InvarianteSiempre` | `Spec => []Invariante` |
| `SuscripcionesReales` | `Spec => []SuscripcionReal` |
| `MensajesFieles` | `Spec => []MensajeFiel`, given `UnaPosicion` |

*Assumptions*: `EscenariosValidos` (a profile is one of a subscriber, a publisher or a Game-Boy that is not subscribed to
LOCALIZED, see *Abstractions*; names have a length) and, in the last theorem only, `UnaPosicion`: nobody publishes a LOCALIZED of several
positions, which arrives wrong (run `localized_posiciones`). Without it `Invariante` still says what arrives (`Llegado`).

*Argument*. First the bytes: `Contiene(s, d, v, n)` says that `s` holds the `n` bytes of `v` from `d` on; what was
written there is read (`LeerLoEscrito`), and it stays there, shifted, when something is put before or behind it
(`Concatenados`). From this, one lemma for each kind of payload (`ViajeDe...`) and one for headers (`Viaje`,
`DeConfirmacion`): each packet is read as it was sent *and to its last byte*, so the next one begins where it should.
Only the shape of a packet (`EsPaquete`) is used from there on.

Neither property is inductive. `Invariante` has a part for each connection, and none relates two of them:

* `EnUnLugar`: it waits for `accept`, or `main` holds it, or its thread does.
* `DatosFieles`: the locals of `main`, the structure that `main` lends while the mutex is taken, and the locals of the
  thread all say who its client is and what it asked for. The mutex goes with the structure: while it is taken a thread is
  about to copy it, and there is one such thread. This is what `CrearHiloSinMutex` breaks.
* `EnCamino`: for each place of the connection in the Broker, the steps its client may be at and the bytes that
  may be on their way (`PorSaludar`, `PorPedir`, `SinResponder`, `Atendida`, `EnEspera`, `Suelta`); a client that
  has gone leaves what it had sent.

A step changes one connection; `Intacta` and `Reunir` dispose of the others. Only the death of the Broker (`AlMorir`) and
of a process (`AlMorirProceso`) change several.

### The Team (`TeamProofs`)

For every number of trainers, their objectives and their pokemon, the four algorithms, every sequence of APPEARED and
LOCALIZED, any number of them attended at once, and answers that are early, lost or refused:

| Theorem | States |
|---|---|
| `InvarianteDelTeam` | `Spec => []IInv` |
| `TypeOKSiempre` | `Spec => []TypeOK` |
| `ColaConItemsSiempre` | `Spec => []ColaConItems` |
| `EsperaConRespuestaSiempre` | `Spec => []EsperaConRespuesta` |
| `UnoSinDesalojoSiempre` | `(Spec /\ SinTratos) => []UnoSinDesalojo` |
| `CupoRespetadoSiempre` | `(Spec /\ SinTratos /\ NadieEmpiezaPasado) => []CupoRespetado` |
| `CapturaFielSiempre` | `(Spec /\ SinEncuentros) => CapturaFiel` |

*Hypotheses of the last three*. They say how far each property is proved of every team:

* `SinTratos`: no exchange is carried out. A behaviour may stop anywhere, so this says that the property holds *until the
  first exchange*: APPEARED and LOCALIZED, captures, answers, replanning, detection and preemption by RR are all in it.
  `SinEncuentros`: nor has one begun, that is, a trainer been sent to meet another.
* `NadieEmpiezaPasado`: no trainer starts with more pokemon than it wants.

*Assumption*: `EscenariosValidos`, which says what a configuration is: one objective, one list of pokemon and one position for
each trainer, no element that counts nothing (`sumarizar_pokemones` makes none), and messages with positions (a LOCALIZED
may bring none: the Game-Card sends such a one for a pokemon it does not have). TLC evaluates it on the `team` runs.

*Argument*. `IInv` is `Tipos /\ ColaConItems /\ UltimoSinRegistrar /\ EsperaConRespuesta`, and its parts need each other:

* `TratoHecho`: from the five cycles of an exchange to its end the other trainer is *another one*, and both pokemon are named. Without it
  the two lists that the exchange writes could be one, and an element be left with nothing.
* `HilosTipo`: a LOCALIZED that is about to assign a trainer is still inside its list. The loop shortens the list it
  walks (`list_remove`), and only the check at the start of the round, `PosicionNula` otherwise, keeps `i` inside.
* `ColaConItems` counts the trainer that the planner has been granted and has not taken yet (`servicio.planifica`), which makes it
  inductive given `SemTipo`: every step that posts the semaphore also queues (`EncolarInv`), and whoever takes a trainer out
  has taken a token before (`TomarItemInv`, `SacarInv`).
* `UltimoSinRegistrar`: between sending a CATCH and keeping its id, the last CATCH of a trainer is without id and its answer
  has not been used. It gives `EsperaConRespuesta` when the trainer goes to wait: nobody else can have taken the
  answer, so it is on its way or was dropped for coming early.

One lemma for each action (`...Inv`) proves that it keeps `IInv`; the `Marco...` lemmas say once what a step that
leaves some variables alone need not prove again. Three operators rest on recursive functions (`Elegidos`,
`buscar_deadlocks` and the `FlattenSeq` of the library): each is shown to be defined, one more step at a time, and then
its result is typed: the lists of pokemon keep positive amounts, and the exchange that a detection chooses is between
two trainers of the team (`ElegirTipo`, `DetectarInv`). That the cycles found are the right ones is
the matter of `RondasProofs`.

The last three theorems have inductive invariants of their own, over `IInv`:

* `EnTurno`, for `UnoSinDesalojo`: `s_procesos_en_exec` and the tokens of the trainers are *one* permit in all. The token that the
  answer to a CATCH posts is no permit: the trainer owes it to the wait for the answer (`Credito` is what it has, and is sure to
  get, less what it owes), and it has at most one CATCH unanswered.
* `EnCupo`, for `CupoRespetado`: what a trainer has, its CATCH without answer and the capture it is about to begin are together
  no more than it wants (`Carga`). Room is looked at on arrival, and nothing between there and the answer adds to `Carga`.
* `Fieles`, for `CapturaFiel`: while a trainer is BLOCKED with a CATCH pending, its destination is the pokemon of that CATCH
  (`EnDestinoDelCatch`); who sends it elsewhere makes it READY first.

### The rounds of detection (`RondasProofs`)

For every number of trainers, in whatever order they are numbered, and whatever lies in the memory after the matrix:

| Theorem | States |
|---|---|
| `RondaResueltaSiempre` | `(Spec /\ RondasDeUno) => []RondaResuelta` |
| `TratoJustoSiempre` | `(Spec /\ RondasDeUno) => TratoJusto` |

*Hypothesis*: `RondasDeUno`. In each team a trainer has one pokemon and wants one, no two have or want the same, somebody has what each
wants, and those who wait form one circle (`UnaRonda`: no smaller set of them is closed). The rounds of one of each of `rondas` are such teams.

*Argument*. `buscar_deadlocks` walks a matrix from its first row, looking for the first 1 of each row. The proof says:

* the trainers in the deadlock are those who wait, each once (`ElegidosSon`);
* in a narrow matrix the first 1 of a row is whoever has what that row wants (`CeldaDentro`, `SiguienteEs`): the columns past the last one, which
  the code reads too, come later, so what they hold does not matter;
* following a circle of `m` for `m` steps visits everybody and comes back only at the end (`VueltaEntera`, by counting: whoever is
  visited twice closes a smaller circle). So the walk ends in its first row after all the others (`RecorreEs`), in the first attempt
  and with no NULL (`BuscarElCiclo`);
* the exchange chosen is between two of the circle, and gives the first what it wants (`ElegirElTrato`);
* after it, whoever got what it wanted is out and the rest form a circle of one less (`RondaMenor`): `EnRonda` is the
  inductive invariant. When nobody waits, all have what they want: `RondaResuelta`;
* for `TratoJusto`, what is missing is the number of trainers that wait, and each kind is still had by as many (`TratoCuenta`).

### TallGrass (`TallGrassProofs`)

For every set of requests, pokemon and positions, every number of blocks and of crashes:

| Theorem | States |
|---|---|
| `Inductivo` | `Spec => []IInv` |
| `TipoCorrecto` | `Spec => []TypeOK` |
| `OpenEsUnCerrojo` | `Spec => []ExclusionOpen` |
| `ArchivosIntegros` | `Spec => []ArchivoIntegro` |
| `BloquesSinDosDuenios` | `Spec => []BloquesAjenos` |
| `SemaforosListos` | `Spec => []SemaforoListo` |
| `ImplementaElMapa` | `Spec => ImplementaMapa` |

*Assumptions*: `ConstantesValidas` (finitely many positions, amounts above 0, natural bounds) and `NuloAparte`
(the null value is none of the others). TLC evaluates both on the `tallgrass` runs.

*Argument*. `ArchivoIntegro` speaks of closed files only, so it is not inductive: it is lost the moment a thread
opens the file. `IInv` adds what the thread that has it open knows at each step (`Avance`): before
`liberar_bloques` the metadata still describes the old contents; from `volcar` on, the first `indice` blocks hold the
first fragments of the new ones. It also adds who uses each block (`BloquesRepartidos`): the blocks of a pokemon
are those of its metadata and the one just assigned, *except* between the clearing of the bits and the
emptying of the line `BLOCKS` (`Vigente`), when the metadata names blocks that another pokemon may get.
`ExclusionOpen` makes that thread unique. `Creacion` covers the three steps in which a pokemon
appears, guarded by `diccionario`. `Recibido` and `Intacto` tie the locals of a thread to its step. The crash
keeps `IInv`: a file left with `OPEN=Y` promises nothing and is never opened again, and a truncated one
is never read as a whole file. `PasoX` lemmas prove that a step keeps one conjunct each. The refinement maps
`GrabarMetadata`, `AbrirVacioNew`, `ModificarNew`, `ModificarCatch`, `NoHayQuitar`, `NoExisteOtro`,
`AbrirVacioOtro` and `CargarGet` to the atomic operations, and every other step to a stutter.

### What stays with TLC, and why

* *Liveness* (`TodoMensajeLlega`, `TodoPublicadorTermina`, `TodoPedidoTermina`, `TeamTermina`, `TodosAtendidos`): the prover does
  not do liveness under fairness.
* `Team`: `UnoSinDesalojo` after an exchange, and `CupoRespetado` and `CapturaFiel` of the trainers that have not exchanged when others
  have, are checked on the teams of the run.
* `Rondas`: rounds in which trainers have two of each. A matrix then has several 1 in a row, a walk may pass through
  part of the deadlock only, and the list elements count more than one; not attempted.
* `SinVictimaNula`, `IdsUnicos`, `LocalizedFiel` are false of the code.

Induction over the natural numbers is used in one form: `InduccionNat` of `Lemas` states it for a *set* of
numbers, proved from the well-foundedness of `<`, since a lemma with an operator parameter cannot be instantiated. What is
summed or counted recursively over a list (`SumaLibres`, `potencia`, and the recursive functions of the Team) is reasoned
about through it.

## 5. What the models leave out, and what was seen on the way

### Behaviour of the code seen in counterexamples
Some properties are stated for part of the configurations because TLC shows the code going wrong in the rest, where no
document promises otherwise:

* **Two messages at a time** (`hilos` above 1): the thread of an APPEARED can choose a trainer, be overtaken while
  that trainer is chosen for an exchange, and overwrite its destination. The exchange then hands over a pokemon nobody
  had. `CupoRespetado` is stated for one message at a time; with two it fails on the run's own teams.
* **A trainer sent off while it waits for its CAUGHT**: the answer credits the pokemon of the destination the trainer has *then*
  (`team.c:1304`), not that of its CATCH. One trainer, FIFO and one message at a time are enough: it wants two P and one O and
  has caught a P; the thread of an APPEARED O chooses it while the replanner chooses it for the second P; it goes for the P, and while it waits
  for the answer the O becomes its destination (READY). It is credited an O for a P. So `CapturaFiel` is stated for a
  trainer that is still BLOCKED when it is credited, and that no exchange has set free before.
* **RR and SJF with a LOCALIZED**: it does not set `ocupado`, and neither do these planners, so a trainer that has just arrived is
  free for a moment (`BLOCKED`, not yet `ocupado`, `team.c:957`). It is given another destination, and the answer to its
  CATCH credits that one. The trainer is then READY, so `CapturaFiel` does not cover it.
* **Exchanges leave tokens**: both trainers are woken up afterwards, and the one that did not move may have been waiting for
  nothing; its token lets it start later with a NULL destination, or move without the planner. `UnoSinDesalojo`
  still holds of the teams of `team`, but no theorem covers it after an exchange.
* **What an exchange gives is not always there**: a trainer gets the pokemon of *its own destination*
  (`queme_sirve`, `team.c:879`) from the one it meets, which may not have it, or have it no longer. With FIFO, trainers that want P and Q, and P and O,
  the first with two P, both at 2, and the messages Q at 2, O at 0 and Q at 1 (`Despojado`), an exchange hands over a pokemon nobody has: there
  is one more in the team, and a trainer with more than it wants. The second catches the O; the thread of an APPEARED Q chooses it, but
  the replanner sends it to the other Q before; it catches that one, has no room left when it gets to the first Q, and is taken there for a trainer
  that comes to exchange (`team.c:962`): it gets a Q from the first, which has only P. This is why no property says that
  exchanges conserve the pokemon and why `CupoRespetado` speaks of trainers that have not exchanged.
* **SJF-CD**: a preempted trainer and its successor are both posted, and the successor stays in the queue. Two trainers
  run at a time, against the comment at `team.c:1162` ("solo puede haber uno a la vez"), and may catch twice;
  `UnoSinDesalojo` and `CupoRespetado` leave SJF-CD out.
* **NULL pointers** followed: `PosicionNula` (the loop of a LOCALIZED over a list that shrinks), `CaughtSinDestino`,
  `EstimarSinDestino`, `CompararSinCola`, `IntercambioNulo`, and a cycle shorter than the deadlock (scenario `RondaCorta`).
* **An early CAUGHT** is dropped and its trainer waits for ever; so does one whose CATCH lost its connection, because
  `recv(...) != -1` takes a closed connection and the last ACK for a new one (`team.c:582`). `EsperaConRespuesta` says that
  these are the only ways.
* **Waits with three of a kind**: exchanges of pokemon that come in threes move a shared list element and break
  `TratoJusto`; `rondas` has one or two of each.
* **Two subscribers of one queue**: the race on `reader` can lose `writer` for ever, and then every publisher
  blocks; a thread that goes round takes the token left for a process that subscribes later, so the comment at `Broker.c:707`
  (whoever subscribes searches at least once) does not hold. For this reason `TodoMensajeLlega` speaks of the only
  connection, `TodoPublicadorTermina` promises nothing once two searches have met on `reader`, and `TodosAtendidos` excepts
  the publishers that wait for a lost `writer`. `colas` checks that these races break nothing else.
* **A buddy message** takes the first partition that is large enough (`Particiones.c:420`), not the exact one that the loop
  found or split off, though the comment at line 403 says that only the exact power of two is a candidate.
* **SIGPIPE**: the Broker dies when it sends a message to a client that was gone when its subscription was confirmed. A
  subscriber dies when its connection falls before the ACK of its handshake (`Game-Card.c:308`, where the branch is commented out).
* A pokemon left with `OPEN=Y` by a crash is never reset: later requests for it poll for ever, so
  `TodoPedidoTermina` is checked without crashes.

### Abstractions
* `Particiones`: the increment and the read of `get_id_particion`, and the store of the id that `actualizarID` takes, are one step. A
  release is one step with the joins that follow it: an `actualizarID` in between is taken to come before or after, to miss
  its partition, or to find the list shorter than it was and follow the NULL of `list_get`. Left out: that `obtenerPosicion`
  reads the id of the victim twice, so that a renewal between the two reads makes it answer -1; the reading of a partition that
  has just been freed; the contents and addresses of messages. The comment on `algoritmoLRU` (line 323) says the victim has the largest id; its
  comparator sorts as FIFO's and the model follows the comparator. `case 0 || 1` is `case 1`, so a frequency of 0
  never compacts.
* `BrokerColas`: the two calls of `obtenerMensaje` in a search are taken as one step.
* `Conexiones`: clients are fair: one that stays connected and sends nothing, for which `main` would wait for ever, is left out. A
  send is whole, and what a dead process sent is still read. Answers that are not an ACK, unknown operations,
  a failing `accept`, `crear_servidor` that cannot bind, and a Game-Boy subscribed to LOCALIZED (it leaves the payload in the
  stream, `Leido`) are in no scenario.
* `Team`: to summarise a list is one step. An exchange puts the *same* element into two lists until it is removed from one:
  `Entregado` gives it at once the amount that the removal leaves it, and that another thread summarises the list in between and
  replaces the element is left out. Elements that two lists share are followed only where the amount to spare is 1; the snapshot of
  `detectar_deadlocks` and its choice are one step; the estimate of a trainer that captured without a Broker is
  any; metrics and logs are left out.
* `TallGrass`: the text of a file is a function from positions to amounts, with one block for each line, so
  `SIZE` counts lines; `strstr` finding `1-2` inside `11-2` is left out. The bitmap has exactly `BLOCKS` bits, which
  is right when the number of blocks is a multiple of 8 (`Game-Card.c:107` marks the wrong number of them otherwise). A crash
  inside the rewriting of the bitmap, and the unsynchronised reads of the dictionary (`funciones.c:74`), are left out.

### Not modelled
The dump of the Broker; the servers that Team and Game-Card open for the Game-Boy (`team.c:1318`, `crear_servidor_GC`) and the
Game-Boy's direct modes; the GET that a Team sends at the start; the text of a pokemon file; pure I/O, logging,
memory management, scripts.

## 6. Plan

Done: `Particiones`, `BrokerColas`, `Mensajes`, `Conexiones`, `TallGrass`, `Team` and `Rondas`, each with its runs and its
proofs; every invariant and every action property that a passing run checks is stated by a theorem (those of `Team` that exchanges could
disturb, until the first one). Next, in this order:

1. **After an exchange**: what `UnoSinDesalojo` needs of the tokens that an exchange leaves behind.
2. **Rounds of several of each**: what the walk finds when a row has more than one 1, and an exchange when an element counts more than one.
3. **The servers for the Game-Boy** (Team, Game-Card) as clients and servers of `Conexiones`.
4. **ArchivoPokemon**: the text of a file, against the map it stands for; the bits after the last block.
5. **A CATCH from end to end**: Team, queues and Game-Card in one module, over the abstract specifications: every CATCH has
   at most one answer, and which failures lose it.
