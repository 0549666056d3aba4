------------------------------ MODULE TallGrass ------------------------------
(***************************************************************************)
(* The Game-Card on its file system TallGrass (Game-Card/src): one         *)
(* detached thread per NEW, CATCH or GET request works on the Metadata.bin *)
(* of its pokemon and on the blocks that hold the pokemon's file.          *)
(*                                                                         *)
(* A section of the code under the semaphore of a pokemon, under `bitmap'  *)
(* or under `diccionario' is one action; the directory and the file of a   *)
(* new pokemon are created in three, since `existe' looks without any      *)
(* semaphore.  The text of a file is abstracted to how many pokemon there  *)
(* are at each position, one block for each line.                          *)
(***************************************************************************)
EXTENDS Integers, Sequences, FiniteSets

CONSTANTS
  Pedido, Pokemon, Posicion, Cantidad, Nulo,   \* as in MapaPokemon
  BLOCKS,                                      \* number of blocks of the disk
  MaxCaidas                                    \* bound: crashes of the process

ASSUME ConstantesValidas ==
  /\ IsFiniteSet(Posicion)
  /\ Cantidad \subseteq Nat \ {0}
  /\ BLOCKS \in Nat
  /\ MaxCaidas \in Nat

Bloque == 0..(BLOCKS - 1)

VARIABLES
  (* on disk *)
  estado,      \* of a pokemon: "no", "dir" (directory only), "vacia" (empty file), "si"
  open,        \* its line OPEN is OPEN=Y
  blocks,      \* its line BLOCKS
  size,        \* its line SIZE (in lines of the file)
  disco,       \* what each block file holds: fragment indice of an archivo
  mapa,        \* the bitmap: the blocks marked as taken
  (* in memory *)
  sistema,     \* "corriendo", "caido" or "indefinido" (after undefined behaviour)
  diccionario, \* the thread that holds `diccionario', or Nulo
  semaforos,   \* the pokemon with an entry in the dictionary of semaphores
  (* the locals of each thread *)
  pedido,      \* the request it serves
  paso,        \* the operation it is about to do
  bloques,     \* strings_bloques: the blocks it read from the metadata
  archivo,     \* archivo_cargado
  indice,      \* fragments written so far by volcar_archivo_cargado
  asignado,    \* bloque_libre, the block it was last given
  resultado,   \* the answer it will send
  (* history *)
  contenido,   \* the map that the requests done so far add up to
  caidas       \* crashes so far

enDisco == <<estado, open, blocks, size, disco, mapa>>
proceso == <<sistema, diccionario, semaforos>>
locales == <<pedido, paso, bloques, archivo, indice, asignado, resultado>>
vars == <<enDisco, proceso, locales, contenido, caidas>>

Operacion == {"NEW", "CATCH", "GET"}
Mensaje == [op : Operacion, pokemon : Pokemon, pos : Posicion, cant : Cantidad]
Archivo == [Posicion -> Nat]
Vacio == [x \in Posicion |-> 0]
Ilegible == [x \in Posicion |-> -1]
Fragmento == [archivo : Archivo, indice : Nat]
Respuesta == [tipo : {"APPEARED", "OK", "FAIL", "LOCALIZED"}, archivo : Archivo]
Responde(tipo, a) == [tipo |-> tipo, archivo |-> a]
Solo(x, n) == [Vacio EXCEPT ![x] = n]

ASSUME NuloAparte == Nulo \notin Pedido /\ Nulo \notin Mensaje /\ Nulo \notin Respuesta

existe(p) == estado[p] \in {"vacia", "si"}

\* One block for each line of the file; none when it is NULL.
bloques_necesarios(a) == Cardinality({x \in Posicion : a[x] > 0})

\* traer_bloques: the blocks of a file, in order, are the file.
EsFragmentacion(bs, a) ==
  /\ Len(bs) = bloques_necesarios(a)
  /\ \A i \in DOMAIN bs : disco[bs[i]] = [archivo |-> a, indice |-> i]

traer_bloques(bs) ==
  IF bs # <<>> /\ EsFragmentacion(bs, disco[bs[1]].archivo) THEN disco[bs[1]].archivo
                                                            ELSE Ilegible

BloquesDe(bs) == {bs[i] : i \in DOMAIN bs}

Init ==
  /\ estado = [p \in Pokemon |-> "no"]
  /\ open = [p \in Pokemon |-> FALSE]
  /\ blocks = [p \in Pokemon |-> <<>>]
  /\ size = [p \in Pokemon |-> 0]
  /\ disco = [b \in Bloque |-> [archivo |-> Vacio, indice |-> 0]]
  /\ mapa = {}
  /\ sistema = "corriendo"
  /\ diccionario = Nulo
  /\ semaforos = {}
  /\ pedido = [h \in Pedido |-> Nulo]
  /\ paso = [h \in Pedido |-> "libre"]
  /\ bloques = [h \in Pedido |-> <<>>]
  /\ archivo = [h \in Pedido |-> Vacio]
  /\ indice = [h \in Pedido |-> 0]
  /\ asignado = [h \in Pedido |-> 0]
  /\ resultado = [h \in Pedido |-> Nulo]
  /\ contenido = [p \in Pokemon |-> Vacio]
  /\ caidas = 0

-----------------------------------------------------------------------------
(* The steps of a thread *)

En(h, s) == sistema = "corriendo" /\ paso[h] = s
Sigue(h, s) == paso' = [paso EXCEPT ![h] = s]
De(h) == pedido[h].pokemon
EsOp(h, op) == pedido[h].op = op

\* responder_mensaje: the request is acknowledged and a thread is created for it.
Recibir(h, m) ==
  /\ En(h, "libre")
  /\ pedido' = [pedido EXCEPT ![h] = m]
  /\ Sigue(h, "existe")
  /\ UNCHANGED <<enDisco, proceso, bloques, archivo, indice, asignado, resultado, contenido, caidas>>

\* NEW looks for the file with `diccionario' taken.  It gives it back at once
\* when the file is there, and keeps it while it creates the pokemon.
ExisteNew(h) ==
  /\ En(h, "existe") /\ EsOp(h, "NEW") /\ diccionario = Nulo /\ existe(De(h))
  /\ Sigue(h, "abrir")
  /\ UNCHANGED <<enDisco, proceso, pedido, bloques, archivo, indice, asignado, resultado,
                 contenido, caidas>>

CrearCarpeta(h) ==
  /\ En(h, "existe") /\ EsOp(h, "NEW") /\ diccionario = Nulo /\ estado[De(h)] = "no"
  /\ diccionario' = h
  /\ semaforos' = semaforos \cup {De(h)}
  /\ estado' = [estado EXCEPT ![De(h)] = "dir"]
  /\ Sigue(h, "crear")
  /\ UNCHANGED <<open, blocks, size, disco, mapa, sistema, pedido, bloques, archivo, indice,
                 asignado, resultado, contenido, caidas>>

\* fopen (ruta, "w+"): the file is there, with nothing in it.
CrearArchivo(h) ==
  /\ En(h, "crear")
  /\ estado' = [estado EXCEPT ![De(h)] = "vacia"]
  /\ Sigue(h, "grabar")
  /\ UNCHANGED <<open, blocks, size, disco, mapa, proceso, pedido, bloques, archivo, indice,
                 asignado, resultado, contenido, caidas>>

\* The lines are written when fclose flushes them, with OPEN=Y.
GrabarMetadata(h) ==
  /\ En(h, "grabar")
  /\ estado' = [estado EXCEPT ![De(h)] = "si"]
  /\ open' = [open EXCEPT ![De(h)] = TRUE]
  /\ diccionario' = Nulo
  /\ archivo' = [archivo EXCEPT ![h] = Solo(pedido[h].pos, pedido[h].cant)]
  /\ contenido' = [contenido EXCEPT ![De(h)] = Solo(pedido[h].pos, pedido[h].cant)]
  /\ resultado' = [resultado EXCEPT ![h] = Responde("APPEARED", Vacio)]
  /\ Sigue(h, "volcar")
  /\ UNCHANGED <<blocks, size, disco, mapa, sistema, semaforos, pedido, bloques, indice,
                 asignado, caidas>>

\* CATCH and GET look for the file with no semaphore taken.
ExisteOtro(h) ==
  /\ En(h, "existe") /\ ~EsOp(h, "NEW") /\ existe(De(h))
  /\ Sigue(h, "abrir")
  /\ UNCHANGED <<enDisco, proceso, pedido, bloques, archivo, indice, asignado, resultado,
                 contenido, caidas>>

RespuestaVacia(h) == Responde(IF EsOp(h, "GET") THEN "LOCALIZED" ELSE "FAIL", Vacio)

NoExisteOtro(h) ==
  /\ En(h, "existe") /\ ~EsOp(h, "NEW") /\ ~existe(De(h))
  /\ resultado' = [resultado EXCEPT ![h] = RespuestaVacia(h)]
  /\ Sigue(h, "responder")
  /\ UNCHANGED <<enDisco, proceso, pedido, bloques, archivo, indice, asignado, contenido, caidas>>

\* Mutant: OPEN is set without looking at it.
AbrirSinMirar(h, llena) ==
  /\ En(h, "abrir") /\ De(h) \in semaforos
  /\ estado[De(h)] = "si"
  /\ llena <=> blocks[De(h)] # <<>>
  /\ open' = [open EXCEPT ![De(h)] = TRUE]
  /\ bloques' = [bloques EXCEPT ![h] = blocks[De(h)]]

\* Under the semaphore of the pokemon: OPEN is N, becomes Y, and BLOCKS is
\* read.  With OPEN=Y the thread sleeps and looks again.
AbrirCon(h, llena) ==
  /\ En(h, "abrir") /\ De(h) \in semaforos
  /\ estado[De(h)] = "si" /\ ~open[De(h)]
  /\ llena <=> blocks[De(h)] # <<>>
  /\ open' = [open EXCEPT ![De(h)] = TRUE]
  /\ bloques' = [bloques EXCEPT ![h] = blocks[De(h)]]

AbrirLleno(h) ==
  /\ AbrirCon(h, TRUE)
  /\ Sigue(h, "cargar")
  /\ UNCHANGED <<estado, blocks, size, disco, mapa, proceso, pedido, archivo, indice, asignado,
                 resultado, contenido, caidas>>

AbrirVacioNew(h) ==
  /\ AbrirCon(h, FALSE) /\ EsOp(h, "NEW")
  /\ archivo' = [archivo EXCEPT ![h] = Solo(pedido[h].pos, pedido[h].cant)]
  /\ contenido' = [contenido EXCEPT ![De(h)] = Solo(pedido[h].pos, pedido[h].cant)]
  /\ resultado' = [resultado EXCEPT ![h] = Responde("APPEARED", Vacio)]
  /\ Sigue(h, "volcar")
  /\ UNCHANGED <<estado, blocks, size, disco, mapa, proceso, pedido, indice, asignado, caidas>>

\* CATCH and GET of an empty file: they answer first, and write OPEN=N after.
AbrirVacioOtro(h) ==
  /\ AbrirCon(h, FALSE) /\ ~EsOp(h, "NEW")
  /\ resultado' = [resultado EXCEPT ![h] = RespuestaVacia(h)]
  /\ Sigue(h, "avisar")
  /\ UNCHANGED <<estado, blocks, size, disco, mapa, proceso, pedido, archivo, indice, asignado,
                 contenido, caidas>>

CargarGet(h) ==
  /\ En(h, "cargar") /\ EsOp(h, "GET")
  /\ resultado' = [resultado EXCEPT ![h] = Responde("LOCALIZED", traer_bloques(bloques[h]))]
  /\ Sigue(h, "cerrar")
  /\ UNCHANGED <<enDisco, proceso, pedido, bloques, archivo, indice, asignado, contenido, caidas>>

Cargar(h) ==
  /\ En(h, "cargar") /\ ~EsOp(h, "GET")
  /\ archivo' = [archivo EXCEPT ![h] = traer_bloques(bloques[h])]
  /\ Sigue(h, "liberar")
  /\ UNCHANGED <<enDisco, proceso, pedido, bloques, indice, asignado, resultado, contenido, caidas>>

\* liberar_bloques clears the bits first, under `bitmap' ...
LiberarBloques(h) ==
  /\ En(h, "liberar")
  /\ mapa' = mapa \ BloquesDe(bloques[h])
  /\ Sigue(h, "vaciar")
  /\ UNCHANGED <<estado, open, blocks, size, disco, proceso, pedido, bloques, archivo, indice,
                 asignado, resultado, contenido, caidas>>

\* Mutant: the line BLOCKS keeps the blocks that were freed.
NoVaciarMetadata(h) ==
  /\ En(h, "vaciar")
  /\ Sigue(h, "modificar")
  /\ UNCHANGED <<enDisco, proceso, pedido, bloques, archivo, indice, asignado, resultado,
                 contenido, caidas>>

\* ... and empties the line BLOCKS later: until then it names blocks that
\* another pokemon may be given.
VaciarMetadata(h) ==
  /\ En(h, "vaciar")
  /\ blocks' = [blocks EXCEPT ![De(h)] = <<>>]
  /\ Sigue(h, "modificar")
  /\ UNCHANGED <<estado, open, size, disco, mapa, proceso, pedido, bloques, archivo, indice,
                 asignado, resultado, contenido, caidas>>

\* Mutant: the count at the position is replaced, not added to.
ReemplazarCantidad(h) ==
  /\ En(h, "modificar") /\ EsOp(h, "NEW")
  /\ archivo' = [archivo EXCEPT ![h][pedido[h].pos] = pedido[h].cant]
  /\ contenido' = [contenido EXCEPT ![De(h)] = archivo'[h]]
  /\ resultado' = [resultado EXCEPT ![h] = Responde("APPEARED", Vacio)]
  /\ Sigue(h, "volcar")
  /\ UNCHANGED <<enDisco, proceso, pedido, bloques, indice, asignado, caidas>>

\* agregar_cantidad or agregar_nueva_posicion.
ModificarNew(h) ==
  /\ En(h, "modificar") /\ EsOp(h, "NEW")
  /\ archivo' = [archivo EXCEPT ![h][pedido[h].pos] = @ + pedido[h].cant]
  /\ contenido' = [contenido EXCEPT ![De(h)] = archivo'[h]]
  /\ resultado' = [resultado EXCEPT ![h] = Responde("APPEARED", Vacio)]
  /\ Sigue(h, "volcar")
  /\ UNCHANGED <<enDisco, proceso, pedido, bloques, indice, asignado, caidas>>

\* quitar_pokemon.
ModificarCatch(h) ==
  /\ En(h, "modificar") /\ EsOp(h, "CATCH") /\ archivo[h][pedido[h].pos] # 0
  /\ archivo' = [archivo EXCEPT ![h][pedido[h].pos] = @ - 1]
  /\ contenido' = [contenido EXCEPT ![De(h)] = archivo'[h]]
  /\ resultado' = [resultado EXCEPT ![h] = Responde("OK", Vacio)]
  /\ Sigue(h, "volcar")
  /\ UNCHANGED <<enDisco, proceso, pedido, bloques, indice, asignado, caidas>>

NoHayQuitar(h) ==
  /\ En(h, "modificar") /\ EsOp(h, "CATCH") /\ archivo[h][pedido[h].pos] = 0
  /\ resultado' = [resultado EXCEPT ![h] = Responde("FAIL", Vacio)]
  /\ Sigue(h, "volcar")
  /\ UNCHANGED <<enDisco, proceso, pedido, bloques, archivo, indice, asignado, contenido, caidas>>

-----------------------------------------------------------------------------
(* volcar_archivo_cargado: for each fragment, a block is assigned, added to *)
(* the metadata and written; at the end the metadata gets the size.         *)

FaltanBloques(h) == indice[h] < bloques_necesarios(archivo[h])

PrimerLibre(b) == b \in Bloque \ mapa /\ \A c \in Bloque \ mapa : b <= c

\* Mutant: the bit of the block is left clear.
AsignarSinMarcar(h) ==
  /\ En(h, "volcar") /\ FaltanBloques(h)
  /\ \E b \in Bloque :
       /\ PrimerLibre(b)
       /\ asignado' = [asignado EXCEPT ![h] = b]
  /\ Sigue(h, "agregar")
  /\ UNCHANGED <<enDisco, proceso, pedido, bloques, archivo, indice, resultado, contenido, caidas>>

asignar_bloque_libre(h) ==
  /\ En(h, "volcar") /\ FaltanBloques(h)
  /\ \E b \in Bloque :
       /\ PrimerLibre(b)
       /\ asignado' = [asignado EXCEPT ![h] = b]
       /\ mapa' = mapa \cup {b}
  /\ Sigue(h, "agregar")
  /\ UNCHANGED <<estado, open, blocks, size, disco, proceso, pedido, bloques, archivo, indice,
                 resultado, contenido, caidas>>

metadata_agregar_bloque(h) ==
  /\ En(h, "agregar")
  /\ blocks' = [blocks EXCEPT ![De(h)] = Append(@, asignado[h])]
  /\ Sigue(h, "escribir")
  /\ UNCHANGED <<estado, open, size, disco, mapa, proceso, pedido, bloques, archivo, indice,
                 asignado, resultado, contenido, caidas>>

\* Mutant: every block gets the fragment before its own.
EscribirAnterior(h) ==
  /\ En(h, "escribir")
  /\ disco' = [disco EXCEPT ![asignado[h]] = [archivo |-> archivo[h], indice |-> indice[h]]]
  /\ indice' = [indice EXCEPT ![h] = @ + 1]
  /\ Sigue(h, "volcar")
  /\ UNCHANGED <<estado, open, blocks, size, mapa, proceso, pedido, bloques, archivo, asignado,
                 resultado, contenido, caidas>>

EscribirBloque(h) ==
  /\ En(h, "escribir")
  /\ disco' = [disco EXCEPT ![asignado[h]] = [archivo |-> archivo[h], indice |-> indice[h] + 1]]
  /\ indice' = [indice EXCEPT ![h] = @ + 1]
  /\ Sigue(h, "volcar")
  /\ UNCHANGED <<estado, open, blocks, size, mapa, proceso, pedido, bloques, archivo, asignado,
                 resultado, contenido, caidas>>

metadata_actualizar_size(h) ==
  /\ En(h, "volcar") /\ ~FaltanBloques(h)
  /\ size' = [size EXCEPT ![De(h)] = bloques_necesarios(archivo[h])]
  /\ Sigue(h, "cerrar")
  /\ UNCHANGED <<estado, open, blocks, disco, mapa, proceso, pedido, bloques, archivo, indice,
                 asignado, resultado, contenido, caidas>>

\* Mutant: OPEN=N is not written.
NoCerrar(h) ==
  /\ En(h, "cerrar") \/ En(h, "soltar")
  /\ Sigue(h, IF paso[h] = "cerrar" THEN "responder" ELSE "fin")
  /\ UNCHANGED <<enDisco, proceso, pedido, bloques, archivo, indice, asignado, resultado,
                 contenido, caidas>>

\* set_open (ruta, 'N'), before the answer or after it.
Cerrar(h) ==
  /\ En(h, "cerrar") \/ En(h, "soltar")
  /\ open' = [open EXCEPT ![De(h)] = FALSE]
  /\ Sigue(h, IF paso[h] = "cerrar" THEN "responder" ELSE "fin")
  /\ UNCHANGED <<estado, blocks, size, disco, mapa, proceso, pedido, bloques, archivo, indice,
                 asignado, resultado, contenido, caidas>>

\* enviar_appeared, enviar_caught, enviar_localized: one attempt; when the
\* Broker does not accept the connection the answer is dropped.
Responder(h) ==
  /\ En(h, "responder") \/ En(h, "avisar")
  /\ Sigue(h, IF paso[h] = "responder" THEN "fin" ELSE "soltar")
  /\ UNCHANGED <<enDisco, proceso, pedido, bloques, archivo, indice, asignado, resultado,
                 contenido, caidas>>

-----------------------------------------------------------------------------
(* What goes wrong *)

\* get_open splits an empty file into lines and reads the fourth; or the
\* dictionary has no semaphore for the pokemon.
LeerMetadataVacia(h) ==
  /\ En(h, "abrir") /\ (estado[De(h)] = "vacia" \/ De(h) \notin semaforos)
  /\ sistema' = "indefinido"
  /\ UNCHANGED <<enDisco, diccionario, semaforos, locales, contenido, caidas>>

\* asignar_bloque_libre runs past the end of a full bitmap.
SinBloquesLibres(h) ==
  /\ En(h, "volcar") /\ FaltanBloques(h) /\ Bloque \subseteq mapa
  /\ sistema' = "indefinido"
  /\ UNCHANGED <<enDisco, diccionario, semaforos, locales, contenido, caidas>>

\* The process is gone with its memory and its threads.
Muere ==
  /\ sistema' = "caido"
  /\ diccionario' = Nulo
  /\ semaforos' = {}
  /\ paso' = [h \in Pedido |-> IF paso[h] \in {"libre", "fin"} THEN paso[h] ELSE "perdido"]
  /\ UNCHANGED <<pedido, bloques, archivo, indice, asignado, resultado, contenido>>

\* mkdir fails when a crash has left the directory without its file: salir.
Salir(h) ==
  /\ En(h, "existe") /\ EsOp(h, "NEW") /\ diccionario = Nulo /\ estado[De(h)] = "dir"
  /\ Muere
  /\ UNCHANGED <<enDisco, caidas>>

\* The metadata that some thread may be rewriting (fopen "w" has emptied it).
Reescribible(p) ==
  /\ estado[p] = "si"
  /\ \E h \in Pedido :
       /\ pedido[h] # Nulo /\ De(h) = p
       /\ \/ paso[h] \in {"vaciar", "agregar", "volcar", "cerrar", "soltar"}
          \/ paso[h] = "abrir" /\ ~open[p]

\* The process is killed between two steps, or while it rewrites metadata
\* files, which are then left empty.
Caida ==
  /\ sistema = "corriendo" /\ caidas < MaxCaidas
  /\ caidas' = caidas + 1
  /\ \E truncas \in SUBSET {p \in Pokemon : Reescribible(p)} :
       estado' = [p \in Pokemon |-> IF p \in truncas THEN "vacia" ELSE estado[p]]
  /\ Muere
  /\ UNCHANGED <<open, blocks, size, disco, mapa>>

\* Mutant: a restart that makes no semaphores.
ReinicioSinSemaforos ==
  /\ sistema = "caido"
  /\ sistema' = "corriendo"
  /\ UNCHANGED <<enDisco, diccionario, semaforos, locales, contenido, caidas>>

\* recuperar_datos: the bitmap is read back and each directory gets a
\* semaphore; no OPEN=Y is looked for.
Reinicio ==
  /\ sistema = "caido"
  /\ sistema' = "corriendo"
  /\ semaforos' = {p \in Pokemon : estado[p] # "no"}
  /\ UNCHANGED <<enDisco, diccionario, locales, contenido, caidas>>

Paso(h) ==
  \/ ExisteNew(h)
  \/ CrearCarpeta(h)
  \/ CrearArchivo(h)
  \/ GrabarMetadata(h)
  \/ ExisteOtro(h)
  \/ NoExisteOtro(h)
  \/ AbrirLleno(h)
  \/ AbrirVacioNew(h)
  \/ AbrirVacioOtro(h)
  \/ CargarGet(h)
  \/ Cargar(h)
  \/ LiberarBloques(h)
  \/ VaciarMetadata(h)
  \/ ModificarNew(h)
  \/ ModificarCatch(h)
  \/ NoHayQuitar(h)
  \/ asignar_bloque_libre(h)
  \/ metadata_agregar_bloque(h)
  \/ EscribirBloque(h)
  \/ metadata_actualizar_size(h)
  \/ Cerrar(h)
  \/ Responder(h)
  \/ LeerMetadataVacia(h)
  \/ SinBloquesLibres(h)
  \/ Salir(h)

Next ==
  \/ \E h \in Pedido, m \in Mensaje : Recibir(h, m)
  \/ \E h \in Pedido : Paso(h)
  \/ Caida
  \/ Reinicio

Spec == Init /\ [][Next]_vars

\* The threads keep running, and a process that died is started again; no
\* request has to arrive.  The wait for OPEN=N is a polling loop.
FairSpec == Spec /\ (\A h \in Pedido : WF_vars(Paso(h))) /\ WF_vars(Reinicio)

-----------------------------------------------------------------------------
(* Properties *)

Estados == {"no", "dir", "vacia", "si"}
Pasos == {"libre", "existe", "crear", "grabar", "abrir", "cargar", "liberar", "vaciar", "modificar",
          "volcar", "agregar", "escribir", "cerrar", "responder", "avisar", "soltar", "fin", "perdido"}

\* Every variable holds a value of the kind its declaration in the code says;
\* in particular a loaded file is never unreadable.
TypeOK ==
  /\ estado \in [Pokemon -> Estados]
  /\ open \in [Pokemon -> BOOLEAN]
  /\ blocks \in [Pokemon -> Seq(Bloque)]
  /\ size \in [Pokemon -> Nat]
  /\ disco \in [Bloque -> Fragmento]
  /\ mapa \subseteq Bloque
  /\ sistema \in {"corriendo", "caido", "indefinido"}
  /\ diccionario \in Pedido \cup {Nulo}
  /\ semaforos \subseteq Pokemon
  /\ pedido \in [Pedido -> Mensaje \cup {Nulo}]
  /\ paso \in [Pedido -> Pasos]
  /\ bloques \in [Pedido -> Seq(Bloque)]
  /\ archivo \in [Pedido -> Archivo]
  /\ indice \in [Pedido -> Nat]
  /\ asignado \in [Pedido -> Int]
  /\ resultado \in [Pedido -> Respuesta \cup {Nulo}]
  /\ contenido \in [Pokemon -> Archivo]
  /\ caidas \in Nat

\* The steps at which a thread has its pokemon open.
ConOpen == {"cargar", "liberar", "vaciar", "modificar", "volcar", "agregar", "escribir",
            "cerrar", "avisar", "soltar"}

\* OPEN=Y works as a lock: no two threads are past the loop that waits for
\* OPEN=N with the same pokemon, and its metadata says so while one is.
ExclusionOpen ==
  /\ \A h \in Pedido : paso[h] \in ConOpen => estado[De(h)] = "si" /\ open[De(h)]
  /\ \A h, k \in Pedido :
       paso[h] \in ConOpen /\ paso[k] \in ConOpen /\ De(h) = De(k) => h = k

Cerrado(p) == estado[p] = "si" /\ ~open[p]

\* The file of a pokemon nobody has open is whole: its blocks hold, in order,
\* the fragments of what the requests done so far add up to, they are marked
\* in the bitmap, and no block is listed twice.
ArchivoIntegro ==
  \A p \in Pokemon : Cerrado(p) =>
    /\ EsFragmentacion(blocks[p], contenido[p])
    /\ BloquesDe(blocks[p]) \subseteq mapa
    /\ \A i, j \in DOMAIN blocks[p] : blocks[p][i] = blocks[p][j] => i = j

\* No block of such a file belongs to another one, nor has it been handed to
\* a thread that is about to write it.
BloquesAjenos ==
  \A p \in Pokemon : Cerrado(p) =>
    /\ \A q \in Pokemon \ {p} : Cerrado(q) => BloquesDe(blocks[p]) \cap BloquesDe(blocks[q]) = {}
    /\ \A h \in Pedido : paso[h] \in {"agregar", "escribir"} => asignado[h] \notin BloquesDe(blocks[p])

\* A file in the directory of a pokemon has its semaphore in the dictionary.
SemaforoListo ==
  sistema = "corriendo" => \A p \in Pokemon : existe(p) => p \in semaforos

\* Every request acknowledged is answered, unless a crash loses it or the
\* behaviour of the process becomes undefined: nobody waits for OPEN=N for
\* ever.  (Checked without crashes: an OPEN=Y that a crash leaves on the disk
\* is never reset, and the requests for that pokemon poll for ever.)
TodoPedidoTermina ==
  \A h \in Pedido :
    paso[h] = "existe" ~> (paso[h] \in {"fin", "perdido"} \/ sistema = "indefinido")

\* The Game-Card implements the map: each request takes effect at one
\* instant, and what it answers is what the map said at that instant.
Mapa == INSTANCE MapaPokemon
ImplementaMapa == Mapa!Spec
=============================================================================
