--------------------------- MODULE TallGrassProofs ---------------------------
(***************************************************************************)
(* TallGrass for every set of requests, pokemon and positions and every    *)
(* number of blocks: its inductive invariant, and the proofs that it       *)
(* implies the safety properties and the implementation of MapaPokemon.    *)
(***************************************************************************)
EXTENDS TallGrass, FiniteSetTheorems, TLAPS

-----------------------------------------------------------------------------
(* The inductive invariant *)

\* A thread has its request from the moment it is created.
Recibido ==
  \A h \in Pedido : pedido[h] \in Mensaje <=> paso[h] # "libre"

\* `diccionario' makes one thread at a time the creator of a pokemon, and
\* what it creates is still empty.
Creacion ==
  /\ \A h \in Pedido : paso[h] \in {"crear", "grabar"} =>
       /\ diccionario = h /\ De(h) \in semaforos /\ EsOp(h, "NEW")
       /\ estado[De(h)] = IF paso[h] = "crear" THEN "dir" ELSE "vacia"
       /\ blocks[De(h)] = <<>> /\ contenido[De(h)] = Vacio
  /\ \A p \in Pokemon : estado[p] \in {"no", "dir"} =>
       blocks[p] = <<>> /\ contenido[p] = Vacio

\* Only the thread that has the pokemon open is past the loop on OPEN.
HiloAbre(h, p) == paso[h] \in ConOpen /\ De(h) = p

\* A pokemon whose line BLOCKS means something: nobody has it open, or the
\* thread that does has not just cleared its bits.
Vigente(p) ==
  Cerrado(p) \/ \E h \in Pedido : HiloAbre(h, p) /\ paso[h] # "vaciar"

Asignados(p) ==
  {asignado[h] : h \in {k \in Pedido : HiloAbre(k, p) /\ paso[k] \in {"agregar", "escribir"}}}

\* The blocks that are in use for p, in its metadata or on their way there.
EnUso(p) == IF Vigente(p) THEN BloquesDe(blocks[p]) \cup Asignados(p) ELSE {}

BloquesRepartidos ==
  /\ \A p \in Pokemon : EnUso(p) \subseteq mapa
  /\ \A p, q \in Pokemon : p # q => EnUso(p) \cap EnUso(q) = {}

SinRepetidos(bs) == \A i, j \in DOMAIN bs : bs[i] = bs[j] => i = j

Integro(p) == EsFragmentacion(blocks[p], contenido[p]) /\ SinRepetidos(blocks[p])

\* The file of a pokemon that nobody has open is whole.
Integros == \A p \in Pokemon : Cerrado(p) => Integro(p)

\* The first n blocks of p hold the first n fragments of a.
Escritos(p, n, a) == \A i \in 1..n : disco[blocks[p][i]] = [archivo |-> a, indice |-> i]

\* What a thread that has the pokemon open knows at each step.
Avance(h) ==
  LET p == De(h) IN
  /\ paso[h] \in {"cargar", "cerrar", "avisar", "soltar"} => Integro(p)
  /\ paso[h] \in {"cargar", "liberar"} => bloques[h] = blocks[p] /\ blocks[p] # <<>>
  /\ paso[h] \in {"liberar", "vaciar", "modificar", "volcar", "agregar", "escribir"} =>
       archivo[h] = contenido[p] /\ ~EsOp(h, "GET")
  /\ paso[h] = "modificar" => blocks[p] = <<>>
  /\ paso[h] \in {"volcar", "agregar", "escribir"} =>
       /\ SinRepetidos(blocks[p])
       /\ Escritos(p, indice[h], archivo[h])
       /\ indice[h] <= bloques_necesarios(archivo[h])
       /\ Len(blocks[p]) = IF paso[h] = "escribir" THEN indice[h] + 1 ELSE indice[h]
  /\ paso[h] \in {"agregar", "escribir"} =>
       indice[h] < bloques_necesarios(archivo[h]) /\ asignado[h] \in Bloque
  /\ paso[h] = "agregar" => asignado[h] \notin BloquesDe(blocks[p])
  /\ paso[h] = "escribir" => blocks[p][Len(blocks[p])] = asignado[h]

AvancePorHilo == \A h \in Pedido : paso[h] \in ConOpen => Avance(h)

\* A thread has written nothing until it has something to write, and has no
\* result until its request takes effect.
Intacto ==
  /\ \A h \in Pedido :
       paso[h] \in {"libre", "existe", "crear", "grabar", "abrir", "cargar", "liberar", "vaciar",
                    "modificar"} => indice[h] = 0 /\ resultado[h] = Nulo

IInv ==
  /\ TypeOK
  /\ Recibido
  /\ Creacion
  /\ ExclusionOpen
  /\ SemaforoListo
  /\ Intacto
  /\ AvancePorHilo
  /\ Integros
  /\ BloquesRepartidos

-----------------------------------------------------------------------------
(* Lemmas about the operators *)

\* A file takes a natural number of blocks, and none only when it is empty.
LEMMA BloquesNecesarios ==
  ASSUME NEW a \in Archivo
  PROVE  bloques_necesarios(a) \in Nat /\ (bloques_necesarios(a) = 0 => a = Vacio)
<1> DEFINE T == {x \in Posicion : a[x] > 0}
<1>1. IsFiniteSet(T) /\ Cardinality(T) \in Nat /\ (Cardinality(T) = 0 => T = {})
  BY ConstantesValidas, FS_Subset, FS_CardinalityType, FS_EmptySet
<1>2. T = {} => a = Vacio
  BY DEF Archivo, Vacio
<1> QED
  BY <1>1, <1>2 DEF bloques_necesarios

\* What a thread reads from the blocks of a whole file is the file.
LEMMA TraerBloques ==
  ASSUME NEW bs \in Seq(Bloque), NEW a \in Archivo, bs # <<>>, EsFragmentacion(bs, a)
  PROVE  traer_bloques(bs) = a
<1>1. 1 \in DOMAIN bs
  OBVIOUS
<1>2. disco[bs[1]] = [archivo |-> a, indice |-> 1]
  BY <1>1 DEF EsFragmentacion
<1>3. disco[bs[1]].archivo = a
  BY <1>2
<1> QED
  BY <1>3 DEF traer_bloques

\* One position with a valid amount is a file, and so is the empty file.
LEMMA ArchivosNuevos ==
  /\ Vacio \in Archivo
  /\ \A m \in Mensaje : Solo(m.pos, m.cant) \in Archivo
BY ConstantesValidas DEF Vacio, Archivo, Solo, Mensaje

\* A thread that has been created has its request.
LEMMA PedidoRecibido ==
  ASSUME TypeOK, Recibido, NEW h \in Pedido, paso[h] # "libre"
  PROVE  /\ pedido[h] \in Mensaje
         /\ De(h) \in Pokemon
         /\ pedido[h].pos \in Posicion
         /\ pedido[h].cant \in Cantidad
         /\ pedido[h].op \in Operacion
         /\ Solo(pedido[h].pos, pedido[h].cant) \in Archivo
BY ArchivosNuevos DEF Recibido, Mensaje, De

-----------------------------------------------------------------------------
(* Type correctness *)

\* Any step of the Game-Card keeps every variable within its type.
LEMMA PasoTypeOK ==
  ASSUME IInv, [Next]_vars
  PROVE  TypeOK'
<1> USE DEF Sigue, Pasos, Estados
<1>0. TypeOK /\ Recibido /\ Vacio \in Archivo
  BY ArchivosNuevos DEF IInv
<1>1. ASSUME NEW h \in Pedido, NEW m \in Mensaje, Recibir(h, m) PROVE TypeOK'
  BY <1>0, <1>1 DEF TypeOK, Recibir, En, enDisco, proceso
<1>2. ASSUME NEW h \in Pedido, Paso(h) PROVE TypeOK'
  <2>0. paso[h] # "libre"
    BY <1>2 DEF Paso, ExisteNew, CrearCarpeta, CrearArchivo, GrabarMetadata, ExisteOtro,
         NoExisteOtro, AbrirLleno, AbrirVacioNew, AbrirVacioOtro, AbrirCon, CargarGet, Cargar,
         LiberarBloques, VaciarMetadata, ModificarNew, ModificarCatch, NoHayQuitar,
         asignar_bloque_libre, metadata_agregar_bloque, EscribirBloque,
         metadata_actualizar_size, Cerrar, Responder, LeerMetadataVacia, SinBloquesLibres,
         Salir, En
  <2>1. /\ pedido[h] \in Mensaje /\ De(h) \in Pokemon
        /\ pedido[h].pos \in Posicion /\ pedido[h].cant \in Nat
        /\ Solo(pedido[h].pos, pedido[h].cant) \in Archivo
    BY <1>0, <2>0, PedidoRecibido, ConstantesValidas
  <2>2. \A t \in {"APPEARED", "OK", "FAIL", "LOCALIZED"}, a \in Archivo : Responde(t, a) \in Respuesta
    BY DEF Responde, Respuesta
  <2>3. RespuestaVacia(h) \in Respuesta
    BY <1>0, <2>2 DEF RespuestaVacia
  <2> USE <1>0, <2>1
  <2>4. CASE ExisteNew(h)
    BY <2>4 DEF TypeOK, ExisteNew, enDisco, proceso
  <2>5. CASE CrearCarpeta(h)
    BY <2>5 DEF TypeOK, CrearCarpeta
  <2>6. CASE CrearArchivo(h)
    BY <2>6 DEF TypeOK, CrearArchivo, proceso
  <2>7. CASE GrabarMetadata(h)
    BY <2>2, <2>7 DEF TypeOK, GrabarMetadata
  <2>8. CASE ExisteOtro(h)
    BY <2>8 DEF TypeOK, ExisteOtro, enDisco, proceso
  <2>9. CASE NoExisteOtro(h)
    BY <2>3, <2>9 DEF TypeOK, NoExisteOtro, enDisco, proceso
  <2>10. CASE AbrirLleno(h)
    BY <2>10 DEF TypeOK, AbrirLleno, AbrirCon, proceso
  <2>11. CASE AbrirVacioNew(h)
    BY <2>2, <2>11 DEF TypeOK, AbrirVacioNew, AbrirCon, proceso
  <2>12. CASE AbrirVacioOtro(h)
    BY <2>3, <2>12 DEF TypeOK, AbrirVacioOtro, AbrirCon, proceso
  <2>13. ASSUME paso[h] = "cargar" PROVE traer_bloques(bloques[h]) \in Archivo
    <3>1. Integro(De(h)) /\ bloques[h] = blocks[De(h)] /\ blocks[De(h)] # <<>>
      BY <2>13 DEF IInv, AvancePorHilo, Avance, ConOpen
    <3>2. blocks[De(h)] \in Seq(Bloque) /\ contenido[De(h)] \in Archivo
      BY DEF TypeOK
    <3> QED
      BY <3>1, <3>2, TraerBloques DEF Integro
  <2>14. CASE CargarGet(h)
    BY <2>2, <2>13, <2>14 DEF TypeOK, CargarGet, En, enDisco, proceso
  <2>15. CASE Cargar(h)
    BY <2>13, <2>15 DEF TypeOK, Cargar, En, enDisco, proceso
  <2>16. CASE LiberarBloques(h)
    BY <2>16 DEF TypeOK, LiberarBloques, proceso
  <2>17. CASE VaciarMetadata(h)
    BY <2>17 DEF TypeOK, VaciarMetadata, proceso
  <2>18. CASE ModificarNew(h)
    <3>1. [archivo[h] EXCEPT ![pedido[h].pos] = @ + pedido[h].cant] \in Archivo
      BY SMTT(30) DEF TypeOK, Archivo
    <3>2. archivo'[h] \in Archivo /\ archivo' \in [Pedido -> Archivo]
      BY <2>18, <3>1, SMTT(30) DEF TypeOK, ModificarNew
    <3> QED
      BY <2>2, <2>18, <3>2 DEF TypeOK, ModificarNew, enDisco, proceso
  <2>19. CASE ModificarCatch(h)
    <3>1. [archivo[h] EXCEPT ![pedido[h].pos] = @ - 1] \in Archivo
      BY <2>19 DEF TypeOK, Archivo, ModificarCatch
    <3>2. archivo'[h] \in Archivo /\ archivo' \in [Pedido -> Archivo]
      BY <2>19, <3>1 DEF TypeOK, ModificarCatch
    <3> QED
      BY <2>2, <2>19, <3>2 DEF TypeOK, ModificarCatch, enDisco, proceso
  <2>20. CASE NoHayQuitar(h)
    BY <2>2, <2>20, SMTT(30) DEF TypeOK, NoHayQuitar, enDisco, proceso
  <2>21. CASE asignar_bloque_libre(h)
    BY <2>21, SMTT(30) DEF TypeOK, asignar_bloque_libre, Bloque, proceso
  <2>22. CASE metadata_agregar_bloque(h)
    <3>1. asignado[h] \in Bloque
      BY <2>22 DEF IInv, AvancePorHilo, Avance, ConOpen, metadata_agregar_bloque, En
    <3> QED
      BY <2>22, <3>1, SMTT(30) DEF TypeOK, metadata_agregar_bloque, proceso
  <2>23. CASE EscribirBloque(h)
    <3>1. archivo[h] \in Archivo /\ indice[h] + 1 \in Nat
      BY DEF TypeOK
    <3>2. [archivo |-> archivo[h], indice |-> indice[h] + 1] \in Fragmento
      BY <3>1 DEF Fragmento
    <3> QED
      BY <2>23, <3>1, <3>2 DEF TypeOK, EscribirBloque, proceso
  <2>24. CASE metadata_actualizar_size(h)
    BY <2>24, BloquesNecesarios DEF TypeOK, metadata_actualizar_size, proceso
  <2>25. CASE Cerrar(h)
    BY <2>25 DEF TypeOK, Cerrar, proceso
  <2>26. CASE Responder(h)
    BY <2>26 DEF TypeOK, Responder, enDisco, proceso
  <2>27. CASE LeerMetadataVacia(h)
    BY <2>27 DEF TypeOK, LeerMetadataVacia, enDisco, locales
  <2>28. CASE SinBloquesLibres(h)
    BY <2>28 DEF TypeOK, SinBloquesLibres, enDisco, locales
  <2>29. CASE Salir(h)
    BY <2>29 DEF TypeOK, Salir, Muere, enDisco
  <2> QED
    BY <1>2, <2>4, <2>5, <2>6, <2>7, <2>8, <2>9, <2>10, <2>11, <2>12, <2>14, <2>15, <2>16, <2>17,
       <2>18, <2>19, <2>20, <2>21, <2>22, <2>23, <2>24, <2>25, <2>26, <2>27, <2>28, <2>29 DEF Paso
<1>3. CASE Caida
  BY <1>0, <1>3 DEF TypeOK, Caida, Muere
<1>4. CASE Reinicio
  BY <1>0, <1>4 DEF TypeOK, Reinicio, enDisco, locales
<1>5. CASE UNCHANGED vars
  BY <1>0, <1>5 DEF TypeOK, vars, enDisco, proceso, locales
<1> QED
  BY <1>1, <1>2, <1>3, <1>4, <1>5 DEF Next

-----------------------------------------------------------------------------
(* What a step leaves alone *)

\* The step of a thread that does not end the process only touches the
\* locals of the thread and what the disk has of its pokemon.
LEMMA PasoAjeno ==
  ASSUME TypeOK, NEW h \in Pedido, Paso(h), sistema' = "corriendo"
  PROVE  /\ sistema = "corriendo" /\ paso[h] # "libre"
         /\ pedido' = pedido /\ semaforos \subseteq semaforos'
         /\ \A k \in Pedido \ {h} :
              /\ paso'[k] = paso[k] /\ bloques'[k] = bloques[k] /\ archivo'[k] = archivo[k]
              /\ indice'[k] = indice[k] /\ asignado'[k] = asignado[k]
              /\ resultado'[k] = resultado[k]
         /\ \A p \in Pokemon \ {De(h)} :
              /\ estado'[p] = estado[p] /\ open'[p] = open[p] /\ blocks'[p] = blocks[p]
              /\ contenido'[p] = contenido[p]
<1> USE DEF TypeOK, En, Sigue
<1>1. CASE ExisteNew(h)
  BY <1>1 DEF ExisteNew, enDisco, proceso
<1>2. CASE CrearCarpeta(h)
  BY <1>2 DEF CrearCarpeta
<1>3. CASE CrearArchivo(h)
  BY <1>3 DEF CrearArchivo, proceso
<1>4. CASE GrabarMetadata(h)
  BY <1>4 DEF GrabarMetadata
<1>5. CASE ExisteOtro(h)
  BY <1>5 DEF ExisteOtro, enDisco, proceso
<1>6. CASE NoExisteOtro(h)
  BY <1>6 DEF NoExisteOtro, enDisco, proceso
<1>7. CASE AbrirLleno(h)
  BY <1>7 DEF AbrirLleno, AbrirCon, proceso
<1>8. CASE AbrirVacioNew(h)
  BY <1>8 DEF AbrirVacioNew, AbrirCon, proceso
<1>9. CASE AbrirVacioOtro(h)
  BY <1>9 DEF AbrirVacioOtro, AbrirCon, proceso
<1>10. CASE CargarGet(h)
  BY <1>10 DEF CargarGet, enDisco, proceso
<1>11. CASE Cargar(h)
  BY <1>11 DEF Cargar, enDisco, proceso
<1>12. CASE LiberarBloques(h)
  BY <1>12 DEF LiberarBloques, proceso
<1>13. CASE VaciarMetadata(h)
  BY <1>13 DEF VaciarMetadata, proceso
<1>14. CASE ModificarNew(h)
  BY <1>14 DEF ModificarNew, enDisco, proceso
<1>15. CASE ModificarCatch(h)
  BY <1>15 DEF ModificarCatch, enDisco, proceso
<1>16. CASE NoHayQuitar(h)
  BY <1>16 DEF NoHayQuitar, enDisco, proceso
<1>17. CASE asignar_bloque_libre(h)
  BY <1>17 DEF asignar_bloque_libre, proceso
<1>18. CASE metadata_agregar_bloque(h)
  BY <1>18 DEF metadata_agregar_bloque, proceso
<1>19. CASE EscribirBloque(h)
  BY <1>19 DEF EscribirBloque, proceso
<1>20. CASE metadata_actualizar_size(h)
  BY <1>20 DEF metadata_actualizar_size, proceso
<1>21. CASE Cerrar(h)
  BY <1>21 DEF Cerrar, proceso
<1>22. CASE Responder(h)
  BY <1>22 DEF Responder, enDisco, proceso
<1>23. ~LeerMetadataVacia(h) /\ ~SinBloquesLibres(h) /\ ~Salir(h)
  BY DEF LeerMetadataVacia, SinBloquesLibres, Salir, Muere
<1> QED
  BY <1>1, <1>2, <1>3, <1>4, <1>5, <1>6, <1>7, <1>8, <1>9, <1>10, <1>11, <1>12, <1>13, <1>14,
     <1>15, <1>16, <1>17, <1>18, <1>19, <1>20, <1>21, <1>22, <1>23 DEF Paso

\* The step of a thread after which the process is no longer running.
LEMMA PasoFinal ==
  ASSUME NEW h \in Pedido, Paso(h), sistema' # "corriendo"
  PROVE  \/ sistema' = "indefinido" /\ UNCHANGED <<enDisco, diccionario, semaforos, locales, contenido>>
         \/ sistema' = "caido" /\ Muere /\ UNCHANGED enDisco
<1>1. LeerMetadataVacia(h) \/ SinBloquesLibres(h) \/ Salir(h)
  BY DEF Paso, ExisteNew, CrearCarpeta, CrearArchivo, GrabarMetadata, ExisteOtro, NoExisteOtro,
    AbrirLleno, AbrirVacioNew, AbrirVacioOtro, AbrirCon, CargarGet, Cargar, LiberarBloques,
    VaciarMetadata, ModificarNew, ModificarCatch, NoHayQuitar, asignar_bloque_libre,
    metadata_agregar_bloque, EscribirBloque, metadata_actualizar_size, Cerrar, Responder, En, proceso
<1> QED
  BY <1>1 DEF LeerMetadataVacia, SinBloquesLibres, Salir, Muere

\* The process dies: no thread has anything open any more.
LEMMA NadieTrasMuere ==
  ASSUME TypeOK, Muere
  PROVE  \A k \in Pedido : paso'[k] \in {"libre", "fin", "perdido"} /\ (paso'[k] = "libre" <=> paso[k] = "libre")
BY DEF TypeOK, Muere

\* No step takes a thread back to where it has no request.
LEMMA PasoSinLibre ==
  ASSUME NEW h \in Pedido, paso \in [Pedido -> Pasos], Paso(h), sistema' = "corriendo"
  PROVE  paso'[h] # "libre"
<1>1. CASE ExisteNew(h) \/ CrearCarpeta(h) \/ CrearArchivo(h) \/ GrabarMetadata(h) \/ ExisteOtro(h)
           \/ NoExisteOtro(h)
  BY <1>1 DEF ExisteNew, CrearCarpeta, CrearArchivo, GrabarMetadata, ExisteOtro, NoExisteOtro, Sigue
<1>2. CASE AbrirLleno(h) \/ AbrirVacioNew(h) \/ AbrirVacioOtro(h) \/ CargarGet(h) \/ Cargar(h)
  BY <1>2 DEF AbrirLleno, AbrirVacioNew, AbrirVacioOtro, CargarGet, Cargar, Sigue
<1>3. CASE LiberarBloques(h) \/ VaciarMetadata(h) \/ ModificarNew(h) \/ ModificarCatch(h)
           \/ NoHayQuitar(h)
  BY <1>3 DEF LiberarBloques, VaciarMetadata, ModificarNew, ModificarCatch, NoHayQuitar, Sigue
<1>4. CASE asignar_bloque_libre(h) \/ metadata_agregar_bloque(h) \/ EscribirBloque(h)
           \/ metadata_actualizar_size(h) \/ Cerrar(h) \/ Responder(h)
  BY <1>4 DEF asignar_bloque_libre, metadata_agregar_bloque, EscribirBloque,
    metadata_actualizar_size, Cerrar, Responder, Sigue
<1>5. ~LeerMetadataVacia(h) /\ ~SinBloquesLibres(h) /\ ~Salir(h)
  BY DEF LeerMetadataVacia, SinBloquesLibres, Salir, Muere
<1> QED
  BY <1>1, <1>2, <1>3, <1>4, <1>5 DEF Paso

-----------------------------------------------------------------------------
(* The invariants of the threads *)

\* A step moves its thread forward: it has its request before and after.
LEMMA PasoRecibido ==
  ASSUME IInv, [Next]_vars
  PROVE  Recibido'
<1> USE DEF Recibido
<1>0. TypeOK /\ TypeOK' /\ Recibido
  BY PasoTypeOK DEF IInv
<1>1. ASSUME NEW h \in Pedido, NEW m \in Mensaje, Recibir(h, m) PROVE Recibido'
  BY <1>0, <1>1 DEF TypeOK, Recibir, Sigue
<1>2. ASSUME NEW h \in Pedido, Paso(h) PROVE Recibido'
  <2>1. CASE sistema' = "corriendo"
    <3>1. /\ paso[h] # "libre" /\ pedido' = pedido
          /\ \A k \in Pedido \ {h} : paso'[k] = paso[k]
      BY <1>0, <1>2, <2>1, PasoAjeno
    <3>2. paso'[h] # "libre"
      BY <1>0, <1>2, <2>1, PasoSinLibre DEF TypeOK
    <3> QED
      BY <1>0, <3>1, <3>2
  <2>2. CASE sistema' # "corriendo"
    BY <1>0, <1>2, <2>2, PasoFinal, NadieTrasMuere DEF locales, Muere
  <2> QED
    BY <2>1, <2>2
<1>3. CASE Caida
  BY <1>0, <1>3, NadieTrasMuere DEF Caida, Muere
<1>4. CASE Reinicio
  BY <1>0, <1>4 DEF Reinicio, locales
<1>5. CASE UNCHANGED vars
  BY <1>0, <1>5 DEF vars, locales
<1> QED
  BY <1>1, <1>2, <1>3, <1>4, <1>5 DEF Next

\* Only four steps take a thread past the loop on OPEN.
LEMMA PasoQueAbre ==
  ASSUME NEW h \in Pedido, paso \in [Pedido -> Pasos], Paso(h),
         paso[h] \notin ConOpen, paso'[h] \in ConOpen
  PROVE  GrabarMetadata(h) \/ AbrirLleno(h) \/ AbrirVacioNew(h) \/ AbrirVacioOtro(h)
<1>1. ~ExisteNew(h) /\ ~CrearCarpeta(h) /\ ~CrearArchivo(h) /\ ~ExisteOtro(h) /\ ~NoExisteOtro(h)
  BY DEF ExisteNew, CrearCarpeta, CrearArchivo, ExisteOtro, NoExisteOtro, Sigue, ConOpen
<1>2. /\ ~CargarGet(h) /\ ~Cargar(h) /\ ~LiberarBloques(h) /\ ~VaciarMetadata(h)
      /\ ~ModificarNew(h) /\ ~ModificarCatch(h) /\ ~NoHayQuitar(h)
  BY DEF CargarGet, Cargar, LiberarBloques, VaciarMetadata, ModificarNew, ModificarCatch,
    NoHayQuitar, En, ConOpen
<1>3. /\ ~asignar_bloque_libre(h) /\ ~metadata_agregar_bloque(h) /\ ~EscribirBloque(h)
      /\ ~metadata_actualizar_size(h) /\ ~Cerrar(h)
  BY DEF asignar_bloque_libre, metadata_agregar_bloque, EscribirBloque, metadata_actualizar_size,
    Cerrar, En, ConOpen
<1>4. ~Responder(h)
  BY DEF Responder, En, Sigue, ConOpen
<1>5. ~LeerMetadataVacia(h) /\ ~SinBloquesLibres(h) /\ ~Salir(h)
  BY DEF LeerMetadataVacia, SinBloquesLibres, Salir, Muere, locales, ConOpen
<1> QED
  BY <1>1, <1>2, <1>3, <1>4, <1>5 DEF Paso

\* A step outside of the loop leaves the blocks and OPEN of every file alone,
\* and the file of its pokemon too unless it is creating it.
LEMMA PasoSinOpen ==
  ASSUME TypeOK, Recibido, Creacion, NEW h \in Pedido, Paso(h),
         paso[h] \notin ConOpen, paso'[h] \notin ConOpen
  PROVE  /\ blocks' = blocks
         /\ \/ estado' = estado /\ open' = open
            \/ estado[De(h)] # "si" /\ estado'[De(h)] # "si"
<1>0. paso \in [Pedido -> Pasos] /\ estado \in [Pokemon -> Estados]
  BY DEF TypeOK
<1>1. ~GrabarMetadata(h) /\ ~AbrirLleno(h) /\ ~AbrirVacioNew(h) /\ ~AbrirVacioOtro(h)
  BY <1>0 DEF GrabarMetadata, AbrirLleno, AbrirVacioNew, AbrirVacioOtro, Sigue, ConOpen
<1>2. /\ ~CargarGet(h) /\ ~Cargar(h) /\ ~LiberarBloques(h) /\ ~VaciarMetadata(h)
      /\ ~ModificarNew(h) /\ ~ModificarCatch(h) /\ ~NoHayQuitar(h)
  BY DEF CargarGet, Cargar, LiberarBloques, VaciarMetadata, ModificarNew, ModificarCatch,
    NoHayQuitar, En, ConOpen
<1>3. /\ ~asignar_bloque_libre(h) /\ ~metadata_agregar_bloque(h) /\ ~EscribirBloque(h)
      /\ ~metadata_actualizar_size(h) /\ ~Cerrar(h)
  BY DEF asignar_bloque_libre, metadata_agregar_bloque, EscribirBloque, metadata_actualizar_size,
    Cerrar, En, ConOpen
<1>4. CASE ExisteNew(h) \/ ExisteOtro(h) \/ NoExisteOtro(h) \/ Responder(h)
           \/ LeerMetadataVacia(h) \/ SinBloquesLibres(h) \/ Salir(h)
  BY <1>4 DEF ExisteNew, ExisteOtro, NoExisteOtro, Responder, LeerMetadataVacia, SinBloquesLibres,
    Salir, enDisco
<1>5. CASE CrearCarpeta(h) \/ CrearArchivo(h)
  <2>1. De(h) \in Pokemon /\ estado[De(h)] \in {"no", "dir"}
    BY <1>5, PedidoRecibido DEF CrearCarpeta, CrearArchivo, Creacion, En
  <2> QED
    BY <1>0, <1>5, <2>1 DEF CrearCarpeta, CrearArchivo
<1> QED
  BY <1>1, <1>2, <1>3, <1>4, <1>5 DEF Paso

\* A thread that is past the loop on OPEN has its pokemon open, alone.
LEMMA PasoExclusion ==
  ASSUME IInv, [Next]_vars
  PROVE  ExclusionOpen'
<1> USE DEF ConOpen
<1>0. TypeOK /\ TypeOK' /\ ExclusionOpen /\ Recibido /\ Creacion
  BY PasoTypeOK DEF IInv
<1>1. ASSUME NEW h \in Pedido, NEW m \in Mensaje, Recibir(h, m) PROVE ExclusionOpen'
  BY <1>0, <1>1 DEF TypeOK, Recibir, En, Sigue, ExclusionOpen, De, enDisco
<1>2. ASSUME NEW h \in Pedido, Paso(h), sistema' = "corriendo" PROVE ExclusionOpen'
  <2>1. /\ paso[h] # "libre" /\ pedido' = pedido
        /\ \A k \in Pedido \ {h} : paso'[k] = paso[k]
        /\ \A p \in Pokemon \ {De(h)} : estado'[p] = estado[p] /\ open'[p] = open[p]
    BY <1>0, <1>2, PasoAjeno
  <2>2. \A k \in Pedido : paso[k] \in ConOpen => De(k) \in Pokemon /\ De(k)' = De(k)
    BY <1>0, <2>1, PedidoRecibido DEF De
  <2>3. De(h) \in Pokemon /\ De(h)' = De(h)
    BY <1>0, <2>1, PedidoRecibido DEF De
  <2>4. SUFFICES /\ \A k \in Pedido \ {h} : paso[k] \in ConOpen /\ De(k) = De(h) =>
                     paso'[h] \notin ConOpen /\ estado'[De(h)] = "si" /\ open'[De(h)]
                 /\ paso'[h] \in ConOpen => estado'[De(h)] = "si" /\ open'[De(h)]
    BY <1>0, <2>1, <2>2, <2>3, <2>4 DEF ExclusionOpen
  <2> USE <1>0, <2>1, <2>3 DEF ExclusionOpen, TypeOK, En, Sigue
  <2>5. CASE paso[h] \notin ConOpen /\ paso'[h] \notin ConOpen
    <3>1. (estado'[De(h)] = estado[De(h)] /\ open' = open) \/ estado[De(h)] # "si"
      BY <1>0, <1>2, <2>5, PasoSinOpen
    <3>2. \A k \in Pedido \ {h} : paso[k] \in ConOpen /\ De(k) = De(h) =>
             estado[De(h)] = "si" /\ open[De(h)]
      BY ONLY <1>0 DEF ExclusionOpen
    <3> QED
      BY ONLY <2>5, <3>1, <3>2
  <2>6. CASE GrabarMetadata(h)
    <3>1. estado[De(h)] = "vacia"
      BY <2>6 DEF GrabarMetadata, IInv, Creacion
    <3> QED
      BY <2>6, <3>1 DEF GrabarMetadata
  <2>7. CASE AbrirLleno(h) \/ AbrirVacioNew(h) \/ AbrirVacioOtro(h)
    BY <2>7 DEF AbrirLleno, AbrirVacioNew, AbrirVacioOtro, AbrirCon
  <2>8. CASE Cerrar(h)
    BY <2>8 DEF Cerrar
  <2>9. CASE paso[h] \in ConOpen /\ ~Cerrar(h)
    <3>1. estado' = estado /\ open' = open
      BY <1>2, <2>9 DEF Paso, ExisteNew, CrearCarpeta, CrearArchivo, GrabarMetadata, ExisteOtro,
        NoExisteOtro, AbrirLleno, AbrirVacioNew, AbrirVacioOtro, AbrirCon, CargarGet, Cargar,
        LiberarBloques, VaciarMetadata, ModificarNew, ModificarCatch, NoHayQuitar,
        asignar_bloque_libre, metadata_agregar_bloque, EscribirBloque, metadata_actualizar_size,
        Responder, LeerMetadataVacia, SinBloquesLibres, Salir, enDisco
    <3> QED
      BY <2>9, <3>1
  <2>10. paso[h] \notin ConOpen /\ paso'[h] \in ConOpen =>
           GrabarMetadata(h) \/ AbrirLleno(h) \/ AbrirVacioNew(h) \/ AbrirVacioOtro(h)
    BY ONLY <1>0, <1>2, PasoQueAbre DEF TypeOK, ConOpen
  <2> QED
    BY <2>5, <2>6, <2>7, <2>8, <2>9, <2>10
<1>3. ASSUME NEW h \in Pedido, Paso(h), sistema' # "corriendo" PROVE ExclusionOpen'
  <2>1. CASE UNCHANGED <<enDisco, locales>>
    BY <1>0, <2>1 DEF ExclusionOpen, enDisco, locales, De
  <2>2. CASE Muere
    BY <1>0, <2>2, NadieTrasMuere DEF ExclusionOpen
  <2> QED
    BY <1>3, <2>1, <2>2, PasoFinal
<1>4. CASE Caida
  BY <1>0, <1>4, NadieTrasMuere DEF Caida, ExclusionOpen
<1>5. CASE Reinicio
  BY <1>0, <1>5 DEF Reinicio, locales, enDisco, ExclusionOpen, De
<1>6. CASE UNCHANGED vars
  BY <1>0, <1>6 DEF vars, locales, enDisco, ExclusionOpen, De
<1> QED
  BY <1>1, <1>2, <1>3, <1>4, <1>5, <1>6 DEF Next

\* A directory with its file has a semaphore, and so has one that is about to.
LEMMA PasoSemaforo ==
  ASSUME IInv, [Next]_vars
  PROVE  SemaforoListo'
<1> USE DEF SemaforoListo, existe
<1>0. TypeOK /\ TypeOK' /\ SemaforoListo /\ Recibido
  BY PasoTypeOK DEF IInv
<1>1. ASSUME NEW h \in Pedido, NEW m \in Mensaje, Recibir(h, m) PROVE SemaforoListo'
  BY <1>0, <1>1 DEF Recibir, enDisco, proceso
<1>2. ASSUME NEW h \in Pedido, Paso(h), sistema' = "corriendo" PROVE SemaforoListo'
  <2>1. /\ sistema = "corriendo" /\ semaforos \subseteq semaforos' /\ De(h) \in Pokemon
        /\ \A p \in Pokemon \ {De(h)} : estado'[p] = estado[p]
    BY <1>0, <1>2, PasoAjeno, PedidoRecibido
  <2>2. existe(De(h)) \/ De(h) \in semaforos \/ estado'[De(h)] \in {estado[De(h)], "dir"}
    BY <1>0, <1>2 DEF Paso, ExisteNew, CrearCarpeta, CrearArchivo, GrabarMetadata, ExisteOtro,
      NoExisteOtro, AbrirLleno, AbrirVacioNew, AbrirVacioOtro, AbrirCon, CargarGet, Cargar,
      LiberarBloques, VaciarMetadata, ModificarNew, ModificarCatch, NoHayQuitar,
      asignar_bloque_libre, metadata_agregar_bloque, EscribirBloque, metadata_actualizar_size,
      Cerrar, Responder, LeerMetadataVacia, SinBloquesLibres, Salir, En, IInv, Creacion, TypeOK, enDisco
  <2> QED
    BY <1>0, <2>1, <2>2
<1>3. CASE Reinicio
  BY <1>0, <1>3 DEF Reinicio, enDisco
<1>4. CASE UNCHANGED vars
  BY <1>0, <1>4 DEF vars, enDisco, proceso
<1>5. CASE Caida
  BY <1>5 DEF Caida, Muere
<1> QED
  BY <1>1, <1>2, <1>3, <1>4, <1>5 DEF Next

\* What a thread creates under `diccionario' stays empty until it is done.
LEMMA PasoCreacion ==
  ASSUME IInv, [Next]_vars
  PROVE  Creacion'
<1>0. TypeOK /\ TypeOK' /\ Creacion /\ Recibido /\ ExclusionOpen /\ Vacio \in Archivo
  BY PasoTypeOK, ArchivosNuevos DEF IInv
<1>1. ASSUME NEW h \in Pedido, NEW m \in Mensaje, Recibir(h, m) PROVE Creacion'
  BY <1>0, <1>1 DEF Creacion, TypeOK, Recibir, En, Sigue, De, EsOp, enDisco, proceso
<1>2. ASSUME NEW h \in Pedido, Paso(h), sistema' = "corriendo" PROVE Creacion'
  <2>1. /\ paso[h] # "libre" /\ pedido' = pedido /\ semaforos \subseteq semaforos'
        /\ \A k \in Pedido \ {h} : paso'[k] = paso[k]
        /\ \A p \in Pokemon \ {De(h)} :
              estado'[p] = estado[p] /\ blocks'[p] = blocks[p] /\ contenido'[p] = contenido[p]
    BY <1>0, <1>2, PasoAjeno
  <2>2. De(h) \in Pokemon /\ \A k \in Pedido : De(k)' = De(k) /\ (EsOp(k, "NEW") <=> EsOp(k, "NEW")')
    BY <1>0, <2>1, PedidoRecibido DEF De, EsOp
  <2>3. \A k \in Pedido : paso[k] \in {"crear", "grabar"} => De(k) \in Pokemon
    BY <1>0, PedidoRecibido
  <2> USE <1>0, <2>1, <2>2, <2>3 DEF TypeOK, En, Sigue
  <2>4. CASE CrearCarpeta(h)
    BY <2>4, NuloAparte DEF CrearCarpeta, Creacion
  <2>5. CASE CrearArchivo(h)
    BY <2>5 DEF CrearArchivo, Creacion, proceso
  <2>6. CASE GrabarMetadata(h)
    BY <2>6 DEF GrabarMetadata, Creacion
  <2>7. CASE ~CrearCarpeta(h) /\ ~CrearArchivo(h) /\ ~GrabarMetadata(h)
    <3>1. diccionario' = diccionario /\ estado' = estado /\ paso'[h] \notin {"crear", "grabar"}
      BY <1>2, <2>7 DEF Paso, ExisteNew, ExisteOtro, NoExisteOtro, AbrirLleno, AbrirVacioNew,
        AbrirVacioOtro, AbrirCon, CargarGet, Cargar, LiberarBloques, VaciarMetadata, ModificarNew,
        ModificarCatch, NoHayQuitar, asignar_bloque_libre, metadata_agregar_bloque, EscribirBloque,
        metadata_actualizar_size, Cerrar, Responder, LeerMetadataVacia, SinBloquesLibres, Salir,
        Muere, enDisco, proceso
    <3>2. (blocks' = blocks /\ contenido' = contenido) \/ estado[De(h)] = "si"
      BY <1>2, <2>7 DEF Paso, ExisteNew, ExisteOtro, NoExisteOtro, AbrirLleno, AbrirVacioNew,
        AbrirVacioOtro, AbrirCon, CargarGet, Cargar, LiberarBloques, VaciarMetadata, ModificarNew,
        ModificarCatch, NoHayQuitar, asignar_bloque_libre, metadata_agregar_bloque, EscribirBloque,
        metadata_actualizar_size, Cerrar, Responder, LeerMetadataVacia, SinBloquesLibres, Salir,
        Muere, enDisco, proceso, ExclusionOpen, ConOpen
    <3>3. \A p \in Pokemon :
             estado[p] # "si" => blocks'[p] = blocks[p] /\ contenido'[p] = contenido[p]
      BY <3>2
    <3>4. \A k \in Pedido : paso'[k] \in {"crear", "grabar"} => k # h /\ paso'[k] = paso[k]
      BY <3>1
    <3>5. ASSUME NEW k \in Pedido, paso'[k] \in {"crear", "grabar"}
          PROVE  /\ diccionario' = k /\ De(k) \in semaforos' /\ EsOp(k, "NEW")
                 /\ estado'[De(k)] = IF paso'[k] = "crear" THEN "dir" ELSE "vacia"
                 /\ blocks'[De(k)] = <<>> /\ contenido'[De(k)] = Vacio
      <4>1. k # h /\ paso'[k] = paso[k] /\ paso[k] \in {"crear", "grabar"}
        BY <3>4, <3>5
      <4>2. /\ diccionario = k /\ De(k) \in semaforos /\ EsOp(k, "NEW")
            /\ estado[De(k)] = IF paso[k] = "crear" THEN "dir" ELSE "vacia"
            /\ blocks[De(k)] = <<>> /\ contenido[De(k)] = Vacio
        BY ONLY <1>0, <4>1 DEF Creacion
      <4>3. De(k) \in Pokemon /\ estado[De(k)] # "si"
        BY <2>3, <4>1, <4>2
      <4> QED
        BY ONLY <2>1, <3>1, <3>3, <4>1, <4>2, <4>3
    <3>6. ASSUME NEW p \in Pokemon, estado'[p] \in {"no", "dir"}
          PROVE  blocks'[p] = <<>> /\ contenido'[p] = Vacio
      BY <3>1, <3>3, <3>6 DEF Creacion
    <3> QED
      BY <3>5, <3>6 DEF Creacion, De, EsOp
  <2> QED
    BY <2>4, <2>5, <2>6, <2>7
<1>3. ASSUME NEW h \in Pedido, Paso(h), sistema' # "corriendo" PROVE Creacion'
  <2>1. CASE UNCHANGED <<enDisco, diccionario, semaforos, locales, contenido>>
    BY <1>0, <2>1 DEF Creacion, enDisco, locales, De, EsOp
  <2>2. CASE Muere /\ UNCHANGED enDisco
    BY <1>0, <2>2, NadieTrasMuere DEF Creacion, Muere, enDisco
  <2> QED
    BY <1>3, <2>1, <2>2, PasoFinal
<1>4. CASE Caida
  BY <1>0, <1>4, NadieTrasMuere DEF Caida, Creacion, Muere, TypeOK
<1>5. CASE Reinicio
  <2>1. \A k \in Pedido : paso[k] \in {"crear", "grabar"} => De(k) \in Pokemon
    BY <1>0, PedidoRecibido
  <2> QED
    BY <1>0, <1>5, <2>1 DEF Reinicio, locales, enDisco, Creacion, De, EsOp
<1>6. CASE UNCHANGED vars
  BY <1>0, <1>6 DEF vars, locales, enDisco, proceso, Creacion, De, EsOp
<1> QED
  BY <1>1, <1>2, <1>3, <1>4, <1>5, <1>6 DEF Next

\* Until its request takes effect, a thread has no result and has written
\* no fragment.
LEMMA PasoIntacto ==
  ASSUME IInv, [Next]_vars
  PROVE  Intacto'
<1> USE DEF Intacto
<1>0. TypeOK /\ TypeOK' /\ Intacto
  BY PasoTypeOK DEF IInv
<1>1. ASSUME NEW h \in Pedido, NEW m \in Mensaje, Recibir(h, m) PROVE Intacto'
  BY <1>0, <1>1 DEF TypeOK, Recibir, En, Sigue
<1>2. ASSUME NEW h \in Pedido, Paso(h), sistema' = "corriendo" PROVE Intacto'
  <2>1. \A k \in Pedido \ {h} :
           paso'[k] = paso[k] /\ indice'[k] = indice[k] /\ resultado'[k] = resultado[k]
    BY <1>0, <1>2, PasoAjeno
  <2>2. CASE paso'[h] \in {"libre", "existe", "crear", "grabar", "abrir", "cargar", "liberar",
                           "vaciar", "modificar"}
    <3>1. /\ indice'[h] = indice[h] /\ resultado'[h] = resultado[h]
          /\ paso[h] \in {"libre", "existe", "crear", "grabar", "abrir", "cargar", "liberar",
                          "vaciar", "modificar"}
      BY <1>0, <1>2, <2>2 DEF Paso, ExisteNew, CrearCarpeta, CrearArchivo, GrabarMetadata,
        ExisteOtro, NoExisteOtro, AbrirLleno, AbrirVacioNew, AbrirVacioOtro, AbrirCon, CargarGet,
        Cargar, LiberarBloques, VaciarMetadata, ModificarNew, ModificarCatch, NoHayQuitar,
        asignar_bloque_libre, metadata_agregar_bloque, EscribirBloque, metadata_actualizar_size,
        Cerrar, Responder, LeerMetadataVacia, SinBloquesLibres, Salir, Muere, TypeOK, En, Sigue
    <3> QED
      BY <1>0, <2>1, <3>1
  <2> QED
    BY <1>0, <2>1, <2>2
<1>3. ASSUME NEW h \in Pedido, Paso(h), sistema' # "corriendo" PROVE Intacto'
  BY <1>0, <1>3, PasoFinal, NadieTrasMuere DEF locales, Muere
<1>4. CASE Caida
  BY <1>0, <1>4, NadieTrasMuere DEF Caida, Muere
<1>5. CASE Reinicio
  BY <1>0, <1>5 DEF Reinicio, locales
<1>6. CASE UNCHANGED vars
  BY <1>0, <1>6 DEF vars, locales
<1> QED
  BY <1>1, <1>2, <1>3, <1>4, <1>5, <1>6 DEF Next

-----------------------------------------------------------------------------
(* The invariants of the disk *)

\* The blocks in use for p while h has it open.
BloquesDelHilo(h, p) ==
  IF paso[h] = "vaciar" THEN {}
  ELSE BloquesDe(blocks[p]) \cup (IF paso[h] \in {"agregar", "escribir"} THEN {asignado[h]} ELSE {})

EnUsoAlAbrir == \A h \in Pedido, p \in Pokemon : HiloAbre(h, p) => EnUso(p) = BloquesDelHilo(h, p)
EnUsoAlCerrar == \A p \in Pokemon : Cerrado(p) => EnUso(p) = BloquesDe(blocks[p])

\* The blocks in use for a pokemon that a thread has open are the ones in its
\* metadata and the one on its way there; none from when the bits are
\* cleared until the metadata is empty.
LEMMA EnUsoAbierto == ExclusionOpen => EnUsoAlAbrir
<1> SUFFICES ASSUME ExclusionOpen, NEW h \in Pedido, NEW p \in Pokemon, HiloAbre(h, p)
             PROVE  EnUso(p) = BloquesDelHilo(h, p)
  BY DEF EnUsoAlAbrir
<1>1. \A k \in Pedido : HiloAbre(k, p) => k = h
  BY DEF ExclusionOpen, HiloAbre
<1>2. ~Cerrado(p)
  BY DEF ExclusionOpen, HiloAbre, Cerrado
<1>3. Vigente(p) <=> paso[h] # "vaciar"
  BY <1>1, <1>2 DEF Vigente
<1>4. Asignados(p) = IF paso[h] \in {"agregar", "escribir"} THEN {asignado[h]} ELSE {}
  BY <1>1 DEF Asignados
<1> QED
  BY <1>3, <1>4 DEF EnUso, BloquesDelHilo

\* The blocks in use for a pokemon that is closed are the ones in its metadata.
LEMMA EnUsoCerrado == ExclusionOpen => EnUsoAlCerrar
BY DEF EnUsoAlCerrar, ExclusionOpen, Cerrado, EnUso, Vigente, Asignados, HiloAbre

\* No block is in use for a pokemon that nobody has open and that is not closed.
LEMMA EnUsoDeNadie ==
  \A p \in Pokemon : ~Cerrado(p) /\ (\A h \in Pedido : ~HiloAbre(h, p)) => EnUso(p) = {}
BY DEF EnUso, Vigente

\* The step of a thread changes nothing of the blocks of the other pokemon.
LEMMA EnUsoAjeno ==
  ASSUME IInv, NEW h \in Pedido, Paso(h), sistema' = "corriendo", NEW p \in Pokemon, p # De(h)
  PROVE  /\ EnUso(p)' = EnUso(p) /\ (Cerrado(p)' <=> Cerrado(p))
         /\ \A k \in Pedido : HiloAbre(k, p)' <=> HiloAbre(k, p)
<1>1. /\ pedido' = pedido
      /\ \A k \in Pedido \ {h} : paso'[k] = paso[k] /\ asignado'[k] = asignado[k]
      /\ estado'[p] = estado[p] /\ open'[p] = open[p] /\ blocks'[p] = blocks[p]
  BY PasoAjeno DEF IInv
<1>2. Cerrado(p)' <=> Cerrado(p)
  BY <1>1 DEF Cerrado
<1>3. \A k \in Pedido : HiloAbre(k, p)' <=> HiloAbre(k, p)
  BY <1>1 DEF HiloAbre, De
<1>4. \A k \in Pedido : HiloAbre(k, p) => paso'[k] = paso[k] /\ asignado'[k] = asignado[k]
  BY <1>1 DEF HiloAbre
<1>5. Vigente(p)' <=> Vigente(p)
  BY <1>2, <1>3, <1>4 DEF Vigente
<1>6. Asignados(p)' = Asignados(p)
  BY <1>3, <1>4 DEF Asignados
<1> QED
  BY <1>1, <1>2, <1>3, <1>5, <1>6 DEF EnUso, BloquesDe

\* A block added at the end of the metadata moves no other.
LEMMA BloqueAlFinal ==
  ASSUME NEW bs \in Seq(Bloque), NEW b \in Bloque
  PROVE  /\ Len(Append(bs, b)) = Len(bs) + 1 /\ Append(bs, b)[Len(bs) + 1] = b
         /\ \A i \in 1..Len(bs) : Append(bs, b)[i] = bs[i]
OBVIOUS

\* A block added at the end of the metadata is one more of its blocks, and a
\* new one is not repeated.
LEMMA BloqueAgregado ==
  ASSUME NEW bs \in Seq(Bloque), NEW b \in Bloque
  PROVE  /\ BloquesDe(Append(bs, b)) = BloquesDe(bs) \cup {b}
         /\ SinRepetidos(bs) /\ b \notin BloquesDe(bs) => SinRepetidos(Append(bs, b))
<1> DEFINE cs == Append(bs, b)
<1>1. /\ cs \in Seq(Bloque) /\ Len(cs) = Len(bs) + 1 /\ cs[Len(bs) + 1] = b
      /\ \A i \in 1..Len(bs) : cs[i] = bs[i]
      /\ DOMAIN cs = 1..(Len(bs) + 1) /\ DOMAIN bs = 1..Len(bs) /\ Len(bs) \in Nat
  OBVIOUS
<1> HIDE DEF cs
<1>2. DOMAIN cs = DOMAIN bs \cup {Len(bs) + 1}
  BY <1>1
<1>3. BloquesDe(cs) = BloquesDe(bs) \cup {b}
  BY <1>1, <1>2 DEF BloquesDe
<1>4. ASSUME SinRepetidos(bs), b \notin BloquesDe(bs) PROVE SinRepetidos(cs)
  BY <1>1, <1>2, <1>4 DEF SinRepetidos, BloquesDe
<1> QED
  BY <1>3, <1>4 DEF cs

\* A step takes for its pokemon no block it did not have, except the free one
\* it is given.
LEMMA EnUsoPropio ==
  ASSUME IInv, NEW h \in Pedido, Paso(h), sistema' = "corriendo", NEW p \in Pokemon, p = De(h),
         ExclusionOpen'
  PROVE  /\ ~asignar_bloque_libre(h) => EnUso(p)' \subseteq EnUso(p)
         /\ asignar_bloque_libre(h) => EnUso(p)' \subseteq EnUso(p) \cup {asignado'[h]}
         /\ LiberarBloques(h) => EnUso(p)' = {} /\ EnUso(p) = BloquesDe(bloques[h])
<1> USE DEF Sigue, En
<1>0. TypeOK /\ TypeOK' /\ Recibido /\ ExclusionOpen
  BY PasoTypeOK DEF IInv, Next
<1>1. /\ pedido' = pedido
      /\ \A k \in Pedido \ {h} : paso'[k] = paso[k] /\ asignado'[k] = asignado[k]
  BY <1>0, PasoAjeno
<1>2. \A k \in Pedido : k # h => (HiloAbre(k, p)' <=> HiloAbre(k, p))
  BY <1>1 DEF HiloAbre, De
<1>3. /\ HiloAbre(h, p) <=> paso[h] \in ConOpen
      /\ HiloAbre(h, p)' <=> paso'[h] \in ConOpen
  BY <1>1 DEF HiloAbre, De
<1>4. HiloAbre(h, p)' =>
        EnUso(p)' = IF paso'[h] = "vaciar" THEN {}
                    ELSE BloquesDe(blocks[p])' \cup
                         (IF paso'[h] \in {"agregar", "escribir"} THEN {asignado'[h]} ELSE {})
  <2>1. (ExclusionOpen => EnUsoAlAbrir)'
    BY EnUsoAbierto, PTL
  <2> QED
    BY <2>1 DEF EnUsoAlAbrir, BloquesDelHilo
<1>5. HiloAbre(h, p) =>
        EnUso(p) = IF paso[h] = "vaciar" THEN {}
                   ELSE BloquesDe(blocks[p]) \cup
                        (IF paso[h] \in {"agregar", "escribir"} THEN {asignado[h]} ELSE {})
  BY <1>0, EnUsoAbierto DEF EnUsoAlAbrir, BloquesDelHilo
<1>6. Cerrado(p) => EnUso(p) = BloquesDe(blocks[p])
  BY <1>0, EnUsoCerrado DEF EnUsoAlCerrar
<1>7. Cerrado(p)' => EnUso(p)' = BloquesDe(blocks[p])'
  <2>1. (ExclusionOpen => EnUsoAlCerrar)'
    BY EnUsoCerrado, PTL
  <2> QED
    BY <2>1 DEF EnUsoAlCerrar
<1>8. ASSUME paso[h] \notin ConOpen, paso'[h] \notin ConOpen PROVE EnUso(p)' = EnUso(p)
  <2>1. blocks' = blocks /\ ((estado' = estado /\ open' = open) \/ (estado[p] # "si" /\ estado'[p] # "si"))
    BY <1>0, <1>8, PasoSinOpen DEF IInv
  <2>2. Cerrado(p)' <=> Cerrado(p)
    BY <2>1 DEF Cerrado
  <2>3. \A k \in Pedido : HiloAbre(k, p) => paso'[k] = paso[k] /\ asignado'[k] = asignado[k]
    BY <1>1, <1>3, <1>8
  <2>4. \A k \in Pedido : HiloAbre(k, p)' <=> HiloAbre(k, p)
    BY <1>2, <1>3, <1>8
  <2>5. (Vigente(p)' <=> Vigente(p)) /\ Asignados(p)' = Asignados(p)
    BY <2>2, <2>3, <2>4 DEF Vigente, Asignados
  <2> QED
    BY <2>1, <2>5 DEF EnUso, BloquesDe
<1> USE <1>0
<1>9. CASE GrabarMetadata(h)
  <2>1. blocks'[p] = <<>> /\ paso'[h] = "volcar"
    BY <1>9 DEF GrabarMetadata, IInv, Creacion, TypeOK
  <2> QED
    BY <1>3, <1>4, <1>9, <2>1 DEF BloquesDe, ConOpen, GrabarMetadata, asignar_bloque_libre, LiberarBloques
<1>10. CASE AbrirLleno(h) \/ AbrirVacioNew(h) \/ AbrirVacioOtro(h)
  <2>1. Cerrado(p) /\ paso'[h] \in {"cargar", "volcar", "avisar"} /\ blocks' = blocks /\ paso[h] = "abrir"
    BY <1>10 DEF AbrirLleno, AbrirVacioNew, AbrirVacioOtro, AbrirCon, Cerrado, TypeOK
  <2>2. EnUso(p)' = BloquesDe(blocks[p]) /\ EnUso(p) = BloquesDe(blocks[p])
    BY <1>3, <1>4, <1>6, <2>1 DEF BloquesDe, ConOpen
  <2> QED
    BY <2>1, <2>2 DEF asignar_bloque_libre, LiberarBloques
<1>11. CASE VaciarMetadata(h)
  <2>1. blocks'[p] = <<>> /\ paso'[h] = "modificar"
    BY <1>11 DEF VaciarMetadata, TypeOK
  <2> QED
    BY <1>3, <1>4, <1>11, <2>1 DEF BloquesDe, ConOpen, VaciarMetadata, asignar_bloque_libre, LiberarBloques
<1>12. CASE metadata_agregar_bloque(h)
  <2>1. /\ blocks'[p] = Append(blocks[p], asignado[h]) /\ paso'[h] = "escribir" /\ paso[h] = "agregar"
        /\ asignado'[h] = asignado[h]
    BY <1>12 DEF metadata_agregar_bloque, TypeOK
  <2>2. asignado[h] \in Bloque /\ blocks[p] \in Seq(Bloque)
    BY <2>1 DEF IInv, AvancePorHilo, Avance, ConOpen, TypeOK
  <2>3. BloquesDe(blocks'[p]) = BloquesDe(blocks[p]) \cup {asignado[h]}
    BY <2>1, <2>2, BloqueAgregado
  <2>4. EnUso(p)' = BloquesDe(blocks'[p]) \cup {asignado[h]}
    BY <1>3, <1>4, <2>1 DEF ConOpen
  <2> QED
    BY <1>3, <1>5, <2>1, <2>3, <2>4 DEF ConOpen, asignar_bloque_libre, LiberarBloques
<1>13. CASE Cerrar(h)
  <2>1. /\ blocks' = blocks /\ paso[h] \in {"cerrar", "soltar"} /\ paso'[h] \in {"responder", "fin"}
        /\ estado' = estado /\ open'[p] = FALSE
    BY <1>13 DEF Cerrar, TypeOK
  <2>2. Cerrado(p)'
    BY <1>3, <2>1 DEF ExclusionOpen, ConOpen, Cerrado
  <2> QED
    BY <1>3, <1>5, <1>7, <2>1, <2>2 DEF BloquesDe, ConOpen, asignar_bloque_libre, LiberarBloques
<1>14. CASE LiberarBloques(h)
  <2>1. paso[h] = "liberar" /\ paso'[h] = "vaciar"
    BY <1>14 DEF LiberarBloques, TypeOK
  <2>2. bloques[h] = blocks[p]
    BY <2>1 DEF IInv, AvancePorHilo, Avance, ConOpen
  <2> QED
    BY <1>3, <1>4, <1>5, <2>1, <2>2 DEF ConOpen, asignar_bloque_libre
<1>15. CASE asignar_bloque_libre(h)
  <2>1. paso[h] = "volcar" /\ paso'[h] = "agregar" /\ blocks' = blocks
    BY <1>15 DEF asignar_bloque_libre, TypeOK
  <2> QED
    BY <1>3, <1>4, <1>5, <1>15, <2>1 DEF ConOpen, BloquesDe, LiberarBloques
<1>16. CASE /\ paso[h] \in ConOpen
            /\ ~VaciarMetadata(h) /\ ~metadata_agregar_bloque(h) /\ ~Cerrar(h) /\ ~LiberarBloques(h)
            /\ ~asignar_bloque_libre(h)
  <2>1. /\ blocks' = blocks /\ asignado' = asignado
        /\ paso[h] \in ConOpen \ {"liberar", "vaciar", "agregar"}
        /\ paso'[h] \in ConOpen \ {"vaciar", "agregar", "escribir"}
    BY <1>16 DEF Paso, ExisteNew, CrearCarpeta, CrearArchivo, GrabarMetadata, ExisteOtro,
      NoExisteOtro, AbrirLleno, AbrirVacioNew, AbrirVacioOtro, AbrirCon, CargarGet, Cargar,
      ModificarNew, ModificarCatch, NoHayQuitar, EscribirBloque, metadata_actualizar_size,
      Responder, LeerMetadataVacia, SinBloquesLibres, Salir, enDisco, ConOpen, TypeOK
  <2> QED
    BY <1>3, <1>4, <1>5, <1>16, <2>1 DEF BloquesDe, ConOpen
<1>17. \/ (paso[h] \notin ConOpen /\ paso'[h] \notin ConOpen) \/ paso[h] \in ConOpen
       \/ GrabarMetadata(h) \/ AbrirLleno(h) \/ AbrirVacioNew(h) \/ AbrirVacioOtro(h)
  BY PasoQueAbre DEF TypeOK
<1>18. paso[h] \notin ConOpen => ~asignar_bloque_libre(h) /\ ~LiberarBloques(h)
  BY DEF asignar_bloque_libre, LiberarBloques, ConOpen
<1> QED
  BY <1>8, <1>9, <1>10, <1>11, <1>12, <1>13, <1>14, <1>15, <1>16, <1>17, <1>18

\* A block is in use for one pokemon at most, and marked in the bitmap.
LEMMA PasoBloques ==
  ASSUME IInv, [Next]_vars
  PROVE  BloquesRepartidos'
<1>0. TypeOK /\ TypeOK' /\ ExclusionOpen /\ ExclusionOpen' /\ Recibido /\ BloquesRepartidos
  BY PasoTypeOK, PasoExclusion DEF IInv
<1>1. ASSUME UNCHANGED mapa, \A p \in Pokemon : EnUso(p)' \subseteq EnUso(p)
      PROVE  BloquesRepartidos'
  BY <1>0, <1>1 DEF BloquesRepartidos
<1>2. ASSUME UNCHANGED <<enDisco, asignado>>, pedido' = pedido, paso' = paso PROVE BloquesRepartidos'
  <2>1. \A p \in Pokemon : (Vigente(p)' <=> Vigente(p)) /\ Asignados(p)' = Asignados(p)
    BY <1>2 DEF Vigente, Asignados, HiloAbre, De, Cerrado, enDisco
  <2> QED
    BY <1>1, <1>2, <2>1 DEF EnUso, BloquesDe, enDisco
<1>3. ASSUME UNCHANGED <<blocks, open, mapa>>, Muere, TypeOK,
             \A p \in Pokemon : estado'[p] = "si" => estado[p] = "si"
      PROVE  BloquesRepartidos'
  <2>1. ASSUME NEW p \in Pokemon PROVE EnUso(p)' \subseteq EnUso(p)
    <3>1. \A k \in Pedido : ~HiloAbre(k, p)'
      BY <1>3, NadieTrasMuere DEF HiloAbre, ConOpen
    <3>2. Cerrado(p)' => Cerrado(p)
      BY <1>3 DEF Cerrado
    <3>3. CASE Cerrado(p)'
      BY <1>3, <3>1, <3>2, <3>3 DEF EnUso, Vigente, Asignados, BloquesDe
    <3>4. CASE ~Cerrado(p)'
      BY <3>1, <3>4 DEF EnUso, Vigente
    <3> QED
      BY <3>3, <3>4
  <2> QED
    BY <1>1, <1>3, <2>1
<1>4. ASSUME NEW h \in Pedido, NEW m \in Mensaje, Recibir(h, m) PROVE BloquesRepartidos'
  <2>1. \A k \in Pedido \ {h} : paso'[k] = paso[k] /\ De(k)' = De(k)
    BY <1>0, <1>4 DEF Recibir, Sigue, De, TypeOK
  <2>2. paso[h] \notin ConOpen /\ paso'[h] \notin ConOpen
    BY <1>0, <1>4 DEF Recibir, En, Sigue, ConOpen, TypeOK
  <2>3. ASSUME NEW p \in Pokemon PROVE EnUso(p)' = EnUso(p)
    <3>1. \A k \in Pedido : (HiloAbre(k, p)' <=> HiloAbre(k, p)) /\ (HiloAbre(k, p) => paso'[k] = paso[k])
      BY <2>1, <2>2 DEF HiloAbre
    <3>2. (Vigente(p)' <=> Vigente(p)) /\ Asignados(p)' = Asignados(p)
      BY <1>4, <3>1 DEF Vigente, Asignados, Cerrado, Recibir, enDisco
    <3> QED
      BY <1>4, <3>2 DEF EnUso, BloquesDe, Recibir, enDisco
  <2> QED
    BY <1>1, <1>4, <2>3 DEF Recibir, enDisco
<1>5. ASSUME NEW h \in Pedido, Paso(h), sistema' = "corriendo" PROVE BloquesRepartidos'
  <2>0. De(h) \in Pokemon
    BY <1>0, <1>5, PasoAjeno, PedidoRecibido
  <2>1. PICK p \in Pokemon : p = De(h)
    BY <2>0
  <2>2. \A q \in Pokemon \ {p} : EnUso(q)' = EnUso(q)
    BY <1>5, <2>1, EnUsoAjeno
  <2>3. /\ ~asignar_bloque_libre(h) => EnUso(p)' \subseteq EnUso(p)
        /\ asignar_bloque_libre(h) => EnUso(p)' \subseteq EnUso(p) \cup {asignado'[h]}
        /\ LiberarBloques(h) => EnUso(p)' = {} /\ EnUso(p) = BloquesDe(bloques[h])
    BY <1>0, <1>5, <2>1, EnUsoPropio
  <2>4. CASE LiberarBloques(h)
    BY <1>0, <2>1, <2>2, <2>3, <2>4 DEF LiberarBloques, BloquesRepartidos
  <2>5. CASE asignar_bloque_libre(h)
    <3>1. asignado'[h] \notin mapa /\ mapa' = mapa \cup {asignado'[h]}
      BY <1>0, <2>5 DEF asignar_bloque_libre, PrimerLibre, TypeOK
    <3> QED
      BY <1>0, <2>1, <2>2, <2>3, <2>5, <3>1 DEF BloquesRepartidos
  <2>6. CASE ~LiberarBloques(h) /\ ~asignar_bloque_libre(h)
    <3>1. mapa' = mapa
      BY <1>5, <2>6 DEF Paso, ExisteNew, CrearCarpeta, CrearArchivo, GrabarMetadata, ExisteOtro,
        NoExisteOtro, AbrirLleno, AbrirVacioNew, AbrirVacioOtro, AbrirCon, CargarGet, Cargar,
        VaciarMetadata, ModificarNew, ModificarCatch, NoHayQuitar, metadata_agregar_bloque,
        EscribirBloque, metadata_actualizar_size, Cerrar, Responder, LeerMetadataVacia,
        SinBloquesLibres, Salir, enDisco
    <3> QED
      BY <1>1, <2>2, <2>3, <2>6, <3>1
  <2> QED
    BY <2>4, <2>5, <2>6
<1>6. ASSUME NEW h \in Pedido, Paso(h), sistema' # "corriendo" PROVE BloquesRepartidos'
  BY <1>0, <1>2, <1>3, <1>6, PasoFinal DEF locales, enDisco
<1>7. CASE Caida
  <2>1. \A p \in Pokemon : estado'[p] = "si" => estado[p] = "si"
    BY <1>0, <1>7 DEF Caida, TypeOK
  <2> QED
    BY <1>0, <1>3, <1>7, <2>1 DEF Caida
<1>8. CASE Reinicio
  BY <1>2, <1>8 DEF Reinicio, locales, enDisco
<1>9. CASE UNCHANGED vars
  BY <1>2, <1>9 DEF vars, locales, enDisco
<1> QED
  BY <1>4, <1>5, <1>6, <1>7, <1>8, <1>9 DEF Next

\* A step writes no block that is in use for another pokemon.
LEMMA DiscoAjeno ==
  ASSUME IInv, NEW h \in Pedido, Paso(h), sistema' = "corriendo", NEW p \in Pokemon, p # De(h),
         NEW b \in EnUso(p)
  PROVE  disco'[b] = disco[b]
<1>0. TypeOK /\ Recibido /\ ExclusionOpen /\ BloquesRepartidos
  BY DEF IInv
<1>1. CASE EscribirBloque(h)
  <2>1. De(h) \in Pokemon /\ HiloAbre(h, De(h)) /\ paso[h] = "escribir"
    BY <1>0, <1>1, PedidoRecibido DEF EscribirBloque, En, HiloAbre, ConOpen
  <2>2. asignado[h] \in EnUso(De(h))
    BY <1>0, <2>1, EnUsoAbierto DEF EnUsoAlAbrir, BloquesDelHilo
  <2>3. b # asignado[h] /\ b \in Bloque
    BY <1>0, <2>1, <2>2 DEF BloquesRepartidos, TypeOK
  <2> QED
    BY <1>0, <1>1, <2>3 DEF EscribirBloque, TypeOK
<1>2. CASE ~EscribirBloque(h)
  <2>1. disco' = disco
    BY <1>2 DEF Paso, ExisteNew, CrearCarpeta, CrearArchivo, GrabarMetadata, ExisteOtro,
      NoExisteOtro, AbrirLleno, AbrirVacioNew, AbrirVacioOtro, AbrirCon, CargarGet, Cargar,
      LiberarBloques, VaciarMetadata, ModificarNew, ModificarCatch, NoHayQuitar,
      asignar_bloque_libre, metadata_agregar_bloque, metadata_actualizar_size, Cerrar, Responder,
      LeerMetadataVacia, SinBloquesLibres, Salir, enDisco
  <2> QED
    BY <2>1
<1> QED
  BY <1>1, <1>2

\* The file of another pokemon is as whole after a step as before, and the
\* fragments in it stay where they are.
LEMMA ArchivoAjeno ==
  ASSUME IInv, NEW h \in Pedido, Paso(h), sistema' = "corriendo", NEW p \in Pokemon, p # De(h),
         Vigente(p)
  PROVE  /\ Integro(p) => Integro(p)'
         /\ blocks'[p] = blocks[p] /\ contenido'[p] = contenido[p]
         /\ \A i \in DOMAIN blocks[p] : disco'[blocks[p][i]] = disco[blocks[p][i]]
<1>1. blocks'[p] = blocks[p] /\ contenido'[p] = contenido[p]
  BY PasoAjeno DEF IInv
<1>2. ASSUME NEW i \in DOMAIN blocks[p] PROVE disco'[blocks[p][i]] = disco[blocks[p][i]]
  <2>1. blocks[p][i] \in EnUso(p)
    BY DEF EnUso, BloquesDe
  <2> QED
    BY <2>1, DiscoAjeno
<1>3. Integro(p) => Integro(p)'
  BY <1>1, <1>2 DEF Integro, EsFragmentacion, SinRepetidos
<1> QED
  BY <1>1, <1>2, <1>3

\* What a thread knows of its pokemon stays true when another thread steps.
LEMMA AvanceAjeno ==
  ASSUME IInv, NEW h \in Pedido, Paso(h), sistema' = "corriendo", ExclusionOpen',
         NEW k \in Pedido, k # h, paso'[k] \in ConOpen
  PROVE  Avance(k)'
<1>0. TypeOK /\ Recibido /\ ExclusionOpen
  BY DEF IInv
<1>1. /\ pedido' = pedido /\ paso'[k] = paso[k] /\ bloques'[k] = bloques[k]
      /\ archivo'[k] = archivo[k] /\ indice'[k] = indice[k] /\ asignado'[k] = asignado[k]
  BY <1>0, PasoAjeno
<1>2. De(k)' = De(k) /\ (EsOp(k, "GET")' <=> EsOp(k, "GET")) /\ De(k) \in Pokemon /\ paso[k] \in ConOpen
  BY <1>0, <1>1, PedidoRecibido DEF De, EsOp, ConOpen
<1>3. PICK p \in Pokemon : p = De(k)
  BY <1>2
<1>4. Avance(k)
  BY <1>2 DEF IInv, AvancePorHilo
<1>5. CASE p # De(h)
  <2>1. CASE paso[k] = "vaciar"
    <3>1. blocks'[p] = blocks[p] /\ contenido'[p] = contenido[p]
      BY <1>0, <1>5, PasoAjeno
    <3> QED
      BY <1>1, <1>2, <1>3, <1>4, <2>1, <3>1 DEF Avance
  <2>2. CASE paso[k] # "vaciar"
    <3>1. Vigente(p)
      BY <1>2, <1>3, <2>2 DEF Vigente, HiloAbre
    <3>2. /\ Integro(p) => Integro(p)'
          /\ blocks'[p] = blocks[p] /\ contenido'[p] = contenido[p]
          /\ \A i \in DOMAIN blocks[p] : disco'[blocks[p][i]] = disco[blocks[p][i]]
      BY <1>5, <3>1, ArchivoAjeno
    <3>3. blocks[p] \in Seq(Bloque) /\ indice[k] \in Nat
      BY <1>0 DEF TypeOK
    <3>4. ASSUME paso[k] \in {"volcar", "agregar", "escribir"}, NEW i \in 1..indice[k]
          PROVE  disco'[blocks[p][i]] = [archivo |-> archivo[k], indice |-> i]
      <4>1. Escritos(p, indice[k], archivo[k])
        BY ONLY <1>3, <1>4, <3>4 DEF Avance
      <4>2. Len(blocks[p]) >= indice[k]
        BY ONLY <1>3, <1>4, <3>3, <3>4 DEF Avance
      <4>3. i \in DOMAIN blocks[p]
        BY ONLY <3>3, <3>4, <4>2
      <4> QED
        BY <3>2, <3>4, <4>1, <4>3 DEF Escritos
    <3>5. blocks'[p] = blocks[p] /\ contenido'[p] = contenido[p] /\ De(k)' = p /\ De(k) = p
      BY <1>2, <1>3, <3>2
    <3>6. CASE paso[k] \in {"cargar", "liberar", "modificar", "cerrar", "avisar", "soltar"}
      BY <1>1, <1>2, <1>4, <3>2, <3>5, <3>6 DEF Avance
    <3>7. CASE paso[k] \in {"volcar", "agregar", "escribir"}
      <4>1. Escritos(p, indice[k], archivo[k])'
        BY <1>1, <3>4, <3>5, <3>7 DEF Escritos
      <4>2. SinRepetidos(blocks[p])' /\ ~EsOp(k, "GET") /\ archivo[k] = contenido[p]
        BY <1>4, <3>5, <3>7 DEF Avance, SinRepetidos
      <4>3. /\ indice[k] <= bloques_necesarios(archivo[k])
            /\ Len(blocks[p]) = IF paso[k] = "escribir" THEN indice[k] + 1 ELSE indice[k]
            /\ paso[k] # "volcar" =>
                 indice[k] < bloques_necesarios(archivo[k]) /\ asignado[k] \in Bloque
            /\ paso[k] = "agregar" => asignado[k] \notin BloquesDe(blocks[p])
            /\ paso[k] = "escribir" => blocks[p][Len(blocks[p])] = asignado[k]
        BY <1>4, <3>5, <3>7 DEF Avance
      <4> QED
        BY <1>1, <1>2, <3>5, <3>7, <4>1, <4>2, <4>3 DEF Avance, BloquesDe
    <3> QED
      BY <1>2, <2>2, <3>6, <3>7 DEF ConOpen
  <2> QED
    BY <2>1, <2>2
<1>6. CASE p = De(h)
  <2>1. paso[h] \notin ConOpen /\ paso'[h] \notin ConOpen
    BY <1>1, <1>2, <1>3, <1>6, <1>0 DEF ExclusionOpen, De
  <2>2. estado[p] = "si" /\ open[p]
    BY <1>0, <1>2, <1>3 DEF ExclusionOpen
  <2>3. blocks' = blocks /\ contenido' = contenido /\ disco' = disco
    BY <1>0, <1>6, <2>1, <2>2 DEF Paso, ExisteNew, CrearCarpeta, CrearArchivo, GrabarMetadata,
      ExisteOtro, NoExisteOtro, AbrirLleno, AbrirVacioNew, AbrirVacioOtro, AbrirCon, CargarGet,
      Cargar, LiberarBloques, VaciarMetadata, ModificarNew, ModificarCatch, NoHayQuitar,
      asignar_bloque_libre, metadata_agregar_bloque, EscribirBloque, metadata_actualizar_size,
      Cerrar, Responder, LeerMetadataVacia, SinBloquesLibres, Salir, enDisco, ConOpen, En,
      IInv, Creacion
  <2> QED
    BY <1>1, <1>2, <1>4, <2>3 DEF Avance, Integro, EsFragmentacion, SinRepetidos, Escritos, BloquesDe
<1> QED
  BY <1>5, <1>6

\* The last index of 1..n + 1, and the others.
LEMMA UltimoIndice ==
  ASSUME NEW n \in Nat
  PROVE  n + 1 \in 1..(n + 1) /\ \A j \in 1..(n + 1) : j # n + 1 => j \in 1..n
OBVIOUS

\* What a thread knows of its pokemon after a step of its own.
LEMMA AvancePropio ==
  ASSUME IInv, NEW h \in Pedido, Paso(h), sistema' = "corriendo", ExclusionOpen', paso'[h] \in ConOpen
  PROVE  Avance(h)'
<1>0. TypeOK /\ TypeOK' /\ Recibido /\ ExclusionOpen /\ BloquesRepartidos /\ Integros
  BY PasoTypeOK DEF IInv, Next
<1>1. pedido' = pedido /\ paso[h] # "libre"
  BY <1>0, PasoAjeno
<1>2. PICK p \in Pokemon : p = De(h)
  BY <1>0, <1>1, PedidoRecibido
<1>3. De(h)' = p /\ (EsOp(h, "GET")' <=> EsOp(h, "GET")) /\ De(h) = p
  BY <1>1, <1>2 DEF De, EsOp
<1>4. /\ blocks[p] \in Seq(Bloque) /\ contenido[p] \in Archivo /\ contenido'[p] \in Archivo
      /\ indice[h] \in Nat /\ archivo[h] \in Archivo /\ archivo'[h] \in Archivo
  BY <1>0 DEF TypeOK
<1>5. /\ bloques_necesarios(archivo[h]) \in Nat /\ bloques_necesarios(archivo'[h]) \in Nat
      /\ bloques_necesarios(contenido[p]) \in Nat
  BY <1>4, BloquesNecesarios
<1>6. paso[h] \in ConOpen => Avance(h)
  BY DEF IInv, AvancePorHilo
<1>7. Cerrado(p) => Integro(p)
  BY <1>0 DEF Integros
<1> USE <1>0, <1>1, <1>3 DEF En, Sigue, TypeOK
\* A thread that is about to write an empty list of blocks.
<1>8. ASSUME paso'[h] = "volcar", blocks'[p] = <<>>, archivo'[h] = contenido'[p], ~EsOp(h, "GET"),
             indice'[h] = 0
      PROVE  Avance(h)'
  BY <1>3, <1>5, <1>8 DEF Avance, SinRepetidos, Escritos
<1>9. paso[h] \in {"grabar", "abrir", "modificar"} => indice[h] = 0
  BY DEF IInv, Intacto
<1>10. CASE GrabarMetadata(h)
  <2>1. blocks[p] = <<>> /\ EsOp(h, "NEW")
    BY <1>10 DEF GrabarMetadata, IInv, Creacion
  <2> QED
    BY <1>8, <1>9, <1>10, <2>1 DEF GrabarMetadata, EsOp
<1>11. ASSUME Integro(p), UNCHANGED <<blocks, disco>>, contenido'[p] = contenido[p],
              paso'[h] \in {"cargar", "cerrar", "avisar", "soltar"},
              paso'[h] = "cargar" => bloques'[h] = blocks[p] /\ blocks[p] # <<>>
       PROVE  Avance(h)'
  <2>1. Integro(p)'
    BY <1>11 DEF Integro, EsFragmentacion, SinRepetidos
  <2>2. blocks'[p] = blocks[p]
    BY <1>11
  <2> QED
    BY <1>3, <1>11, <2>1, <2>2 DEF Avance
<1>12. CASE AbrirLleno(h)
  BY <1>7, <1>11, <1>12 DEF AbrirLleno, AbrirCon, Cerrado
<1>13. CASE AbrirVacioNew(h)
  BY <1>8, <1>9, <1>13 DEF AbrirVacioNew, AbrirCon, EsOp
<1>14. CASE AbrirVacioOtro(h)
  BY <1>7, <1>11, <1>14 DEF AbrirVacioOtro, AbrirCon, Cerrado
<1>15. CASE CargarGet(h)
  BY <1>6, <1>11, <1>15 DEF CargarGet, Avance, ConOpen, enDisco
<1>16. CASE Cargar(h)
  <2>1. Integro(p) /\ bloques[h] = blocks[p] /\ blocks[p] # <<>>
    BY <1>6, <1>16 DEF Cargar, Avance, ConOpen
  <2>2. traer_bloques(bloques[h]) = contenido[p]
    BY <1>4, <2>1, TraerBloques DEF Integro
  <2>3. archivo'[h] = contenido'[p] /\ blocks'[p] = blocks[p] /\ bloques'[h] = bloques[h] /\ paso'[h] = "liberar"
    BY <1>16, <2>2 DEF Cargar, enDisco
  <2> QED
    BY <1>3, <1>16, <2>1, <2>3 DEF Avance, Cargar
<1>17. CASE LiberarBloques(h)
  <2>1. archivo[h] = contenido[p] /\ ~EsOp(h, "GET")
    BY <1>6, <1>17 DEF LiberarBloques, Avance, ConOpen
  <2>2. archivo'[h] = contenido'[p] /\ paso'[h] = "vaciar"
    BY <1>17, <2>1 DEF LiberarBloques
  <2> QED
    BY <1>3, <2>1, <2>2 DEF Avance
<1>18. CASE VaciarMetadata(h)
  <2>1. archivo[h] = contenido[p] /\ ~EsOp(h, "GET")
    BY <1>6, <1>18 DEF VaciarMetadata, Avance, ConOpen
  <2>2. archivo'[h] = contenido'[p] /\ paso'[h] = "modificar" /\ blocks'[p] = <<>>
    BY <1>18, <2>1 DEF VaciarMetadata
  <2> QED
    BY <1>3, <2>1, <2>2 DEF Avance
<1>19. CASE ModificarNew(h) \/ ModificarCatch(h) \/ NoHayQuitar(h)
  <2>1. archivo[h] = contenido[p] /\ ~EsOp(h, "GET") /\ blocks[p] = <<>>
    BY <1>6, <1>19 DEF ModificarNew, ModificarCatch, NoHayQuitar, Avance, ConOpen
  <2>2. archivo'[h] = contenido'[p]
    BY <1>19, <2>1 DEF ModificarNew, ModificarCatch, NoHayQuitar
  <2> QED
    BY <1>8, <1>9, <1>19, <2>1, <2>2 DEF ModificarNew, ModificarCatch, NoHayQuitar, enDisco
<1>20. ASSUME paso[h] \in {"volcar", "agregar", "escribir"}
       PROVE  /\ archivo[h] = contenido[p] /\ ~EsOp(h, "GET")
              /\ SinRepetidos(blocks[p])
              /\ \A i \in 1..indice[h] : disco[blocks[p][i]] = [archivo |-> archivo[h], indice |-> i]
              /\ indice[h] <= bloques_necesarios(archivo[h])
              /\ Len(blocks[p]) = IF paso[h] = "escribir" THEN indice[h] + 1 ELSE indice[h]
              /\ paso[h] # "volcar" =>
                   indice[h] < bloques_necesarios(archivo[h]) /\ asignado[h] \in Bloque
  BY <1>6, <1>20 DEF Avance, Escritos, ConOpen
<1>21. CASE asignar_bloque_libre(h)
  <2>1. BloquesDe(blocks[p]) \subseteq mapa
    <3>1. EnUso(p) = BloquesDe(blocks[p])
      <4>1. HiloAbre(h, p) /\ paso[h] = "volcar"
        BY <1>21 DEF HiloAbre, asignar_bloque_libre, ConOpen
      <4> QED
        BY <4>1, EnUsoAbierto DEF EnUsoAlAbrir, BloquesDelHilo
    <3> QED
      BY <3>1 DEF BloquesRepartidos
  <2>2. /\ asignado'[h] \in Bloque \ mapa /\ paso[h] = "volcar" /\ paso'[h] = "agregar"
        /\ archivo' = archivo /\ contenido' = contenido /\ blocks' = blocks /\ disco' = disco
        /\ indice' = indice /\ indice[h] < bloques_necesarios(archivo[h])
    BY <1>4, <1>5, <1>21 DEF asignar_bloque_libre, PrimerLibre, FaltanBloques
  <2> QED
    BY <1>3, <1>20, <2>1, <2>2, SMTT(30) DEF Avance, Escritos, SinRepetidos, BloquesDe
<1>22. CASE metadata_agregar_bloque(h)
  <2>1. paso[h] = "agregar" /\ asignado[h] \notin BloquesDe(blocks[p])
    BY <1>6, <1>22 DEF metadata_agregar_bloque, Avance, ConOpen
  <2>2. /\ paso'[h] = "escribir" /\ blocks'[p] = Append(blocks[p], asignado[h])
        /\ archivo' = archivo /\ contenido' = contenido /\ disco' = disco
        /\ indice' = indice /\ asignado' = asignado
    BY <1>22 DEF metadata_agregar_bloque
  <2>3. SinRepetidos(blocks'[p])
    BY <1>4, <1>20, <2>1, <2>2, BloqueAgregado
  <2>4. /\ Len(blocks'[p]) = indice[h] + 1 /\ blocks'[p][indice[h] + 1] = asignado[h]
        /\ \A i \in 1..indice[h] : blocks'[p][i] = blocks[p][i]
    <3>1. blocks[p] \in Seq(Bloque) /\ asignado[h] \in Bloque /\ Len(blocks[p]) = indice[h]
      BY <1>4, <1>20, <2>1
    <3>2. blocks'[p] = Append(blocks[p], asignado[h])
      BY <2>2
    <3> QED
      BY ONLY <3>1, <3>2, BloqueAlFinal
  <2>5. \A i \in 1..indice[h] : disco'[blocks'[p][i]] = [archivo |-> archivo[h], indice |-> i]
    BY <1>20, <2>1, <2>2, <2>4
  <2> QED
    BY <1>3, <1>20, <2>1, <2>2, <2>3, <2>4, <2>5, SMTT(30) DEF Avance, Escritos, SinRepetidos
<1>23. CASE EscribirBloque(h)
  <2>1. paso[h] = "escribir" /\ blocks[p][Len(blocks[p])] = asignado[h]
    BY <1>6, <1>23 DEF EscribirBloque, Avance, ConOpen
  <2>2. /\ paso'[h] = "volcar" /\ blocks' = blocks /\ archivo' = archivo /\ contenido' = contenido
        /\ indice'[h] = indice[h] + 1
        /\ disco' = [disco EXCEPT ![asignado[h]] = [archivo |-> archivo[h], indice |-> indice[h] + 1]]
    BY <1>23 DEF EscribirBloque
  <2>3. Len(blocks[p]) = indice[h] + 1 /\ DOMAIN blocks[p] = 1..(indice[h] + 1) /\ asignado[h] \in Bloque
    BY <1>4, <1>20, <2>1
  <2>4. ASSUME NEW i \in 1..(indice[h] + 1)
        PROVE  disco'[blocks[p][i]] = [archivo |-> archivo[h], indice |-> i]
    <3>1. CASE i = indice[h] + 1
      BY <2>1, <2>2, <2>3, <3>1
    <3>2. CASE i # indice[h] + 1
      <4>1. i \in 1..indice[h] /\ i \in DOMAIN blocks[p] /\ indice[h] + 1 \in DOMAIN blocks[p]
        BY <1>4, <2>3, <3>2, UltimoIndice
      <4>2. blocks[p][i] # asignado[h]
        BY <1>20, <2>1, <2>3, <3>2, <4>1 DEF SinRepetidos
      <4>3. disco[blocks[p][i]] = [archivo |-> archivo[h], indice |-> i] /\ blocks[p][i] \in Bloque
        BY <1>4, <1>20, <2>1, <4>1
      <4> QED
        BY <2>2, <4>2, <4>3
    <3> QED
      BY <3>1, <3>2
  <2>5. SinRepetidos(blocks[p])' /\ Escritos(p, indice[h], archivo[h])'
    BY <1>20, <2>1, <2>2, <2>4 DEF Escritos, SinRepetidos
  <2>6. indice[h] + 1 <= bloques_necesarios(archivo[h])
    BY <1>4, <1>5, <1>20, <2>1
  <2>7. /\ indice'[h] <= bloques_necesarios(archivo'[h]) /\ Len(blocks'[p]) = indice'[h]
        /\ archivo'[h] = contenido'[p]
    BY <1>20, <2>1, <2>2, <2>3, <2>6
  <2> QED
    BY <1>3, <1>20, <2>1, <2>2, <2>5, <2>7 DEF Avance
<1>24. CASE metadata_actualizar_size(h)
  <2>1. paso[h] = "volcar" /\ ~(indice[h] < bloques_necesarios(archivo[h])) /\ paso'[h] = "cerrar"
    BY <1>24 DEF metadata_actualizar_size, FaltanBloques
  <2>2. Len(blocks[p]) = bloques_necesarios(contenido[p]) /\ indice[h] = Len(blocks[p])
    BY <1>4, <1>5, <1>20, <2>1
  <2>3. Integro(p)
    BY <1>4, <1>20, <2>1, <2>2 DEF Integro, EsFragmentacion
  <2> QED
    BY <1>11, <1>24, <2>1, <2>3 DEF metadata_actualizar_size
<1>25. CASE Responder(h)
  BY <1>6, <1>11, <1>25 DEF Responder, ConOpen, Avance, enDisco
<1> QED
  BY <1>10, <1>12, <1>13, <1>14, <1>15, <1>16, <1>17, <1>18, <1>19, <1>21, <1>22, <1>23, <1>24, <1>25,
     SMTT(30)
     DEF Paso, ExisteNew, CrearCarpeta, CrearArchivo, ExisteOtro, NoExisteOtro, Cerrar,
       LeerMetadataVacia, SinBloquesLibres, Salir, Muere, ConOpen

\* What each thread that has a pokemon open knows of it.
LEMMA PasoAvance ==
  ASSUME IInv, [Next]_vars
  PROVE  AvancePorHilo'
<1>0. TypeOK /\ TypeOK' /\ Recibido /\ ExclusionOpen' /\ AvancePorHilo
  BY PasoTypeOK, PasoExclusion DEF IInv
<1>1. ASSUME UNCHANGED <<enDisco, locales, contenido>> PROVE AvancePorHilo'
  BY <1>0, <1>1, SMTT(60) DEF AvancePorHilo, Avance, Integro, EsFragmentacion, SinRepetidos,
    Escritos, BloquesDe, De, EsOp, enDisco, locales
<1>2. ASSUME Muere PROVE AvancePorHilo'
  BY <1>0, <1>2, NadieTrasMuere DEF AvancePorHilo, ConOpen
<1>3. ASSUME NEW h \in Pedido, NEW m \in Mensaje, Recibir(h, m) PROVE AvancePorHilo'
  <2>1. \A k \in Pedido : paso'[k] \in ConOpen =>
           k # h /\ paso'[k] = paso[k] /\ De(k)' = De(k) /\ (EsOp(k, "GET")' <=> EsOp(k, "GET"))
    BY <1>0, <1>3 DEF Recibir, Sigue, ConOpen, De, EsOp, TypeOK
  <2> QED
    BY <1>0, <1>3, <2>1 DEF AvancePorHilo, Avance, Integro, EsFragmentacion, SinRepetidos, Escritos,
      BloquesDe, Recibir, enDisco
<1>4. ASSUME NEW h \in Pedido, Paso(h), sistema' = "corriendo" PROVE AvancePorHilo'
  BY <1>0, <1>4, AvanceAjeno, AvancePropio DEF AvancePorHilo
<1>5. ASSUME NEW h \in Pedido, Paso(h), sistema' # "corriendo" PROVE AvancePorHilo'
  BY <1>1, <1>2, <1>5, PasoFinal
<1> QED
  BY <1>1, <1>2, <1>3, <1>4, <1>5 DEF Next, Caida, Reinicio, vars

\* The file of a pokemon that nobody has open stays whole, and is whole when
\* the thread that had it open writes OPEN=N.
LEMMA PasoIntegros ==
  ASSUME IInv, [Next]_vars
  PROVE  Integros'
<1>0. TypeOK /\ TypeOK' /\ Recibido /\ ExclusionOpen /\ Integros
  BY PasoTypeOK DEF IInv
<1>1. ASSUME UNCHANGED <<open, blocks, disco, contenido>>,
             \A p \in Pokemon : estado'[p] = "si" => estado[p] = "si"
      PROVE  Integros'
  BY <1>0, <1>1 DEF Integros, Cerrado, Integro, EsFragmentacion, SinRepetidos
<1>2. ASSUME NEW h \in Pedido, Paso(h), sistema' = "corriendo" PROVE Integros'
  <2>1. pedido' = pedido
    BY <1>0, <1>2, PasoAjeno
  <2>2. PICK p \in Pokemon : p = De(h)
    BY <1>0, <1>2, PasoAjeno, PedidoRecibido
  <2>3. ASSUME NEW q \in Pokemon, q # p, Cerrado(q)' PROVE Integro(q)'
    <3>1. Cerrado(q) /\ Vigente(q)
      BY <1>2, <2>2, <2>3, EnUsoAjeno DEF Vigente
    <3> QED
      BY <1>0, <1>2, <2>2, <2>3, <3>1, ArchivoAjeno DEF Integros
  <2>4. ASSUME Cerrado(p)' PROVE Integro(p)'
    <3>1. CASE Cerrar(h)
      <4>1. Integro(p)
        BY <2>2, <3>1 DEF IInv, AvancePorHilo, Avance, Cerrar, En, ConOpen
      <4> QED
        BY <3>1, <4>1 DEF Cerrar, Integro, EsFragmentacion, SinRepetidos
    <3>2. CASE ~Cerrar(h)
      <4>1. Cerrado(p) /\ blocks' = blocks /\ disco' = disco /\ contenido' = contenido
        BY <1>0, <1>2, <2>2, <2>4, <3>2 DEF Paso, ExisteNew, CrearCarpeta, CrearArchivo,
          GrabarMetadata, ExisteOtro, NoExisteOtro, AbrirLleno, AbrirVacioNew, AbrirVacioOtro,
          AbrirCon, CargarGet, Cargar, LiberarBloques, VaciarMetadata, ModificarNew, ModificarCatch,
          NoHayQuitar, asignar_bloque_libre, metadata_agregar_bloque, EscribirBloque,
          metadata_actualizar_size, Responder, LeerMetadataVacia, SinBloquesLibres, Salir, Muere,
          enDisco, ConOpen, En, ExclusionOpen, Cerrado, TypeOK
      <4> QED
        BY <1>0, <4>1 DEF Integros, Integro, EsFragmentacion, SinRepetidos
    <3> QED
      BY <3>1, <3>2
  <2> QED
    BY <2>3, <2>4 DEF Integros
<1>3. ASSUME NEW h \in Pedido, Paso(h), sistema' # "corriendo" PROVE Integros'
  BY <1>0, <1>1, <1>3, PasoFinal DEF enDisco, Muere
<1>4. CASE Caida
  <2>1. \A p \in Pokemon : estado'[p] = "si" => estado[p] = "si"
    BY <1>0, <1>4 DEF Caida, TypeOK
  <2> QED
    BY <1>1, <1>4, <2>1 DEF Caida, Muere
<1>5. CASE (\E h \in Pedido, m \in Mensaje : Recibir(h, m)) \/ Reinicio \/ UNCHANGED vars
  BY <1>1, <1>5 DEF Recibir, Reinicio, vars, enDisco
<1> QED
  BY <1>2, <1>3, <1>4, <1>5 DEF Next

-----------------------------------------------------------------------------
(* The theorems *)

\* IInv is an inductive invariant of the Game-Card.
THEOREM Inductivo == Spec => []IInv
<1>1. Init => IInv
  <2> SUFFICES ASSUME Init PROVE IInv
    OBVIOUS
  <2>1. Vacio \in Archivo
    BY ArchivosNuevos
  <2>2. TypeOK
    BY <2>1, ConstantesValidas DEF Init, TypeOK, Estados, Pasos, Bloque, Fragmento
  <2>3. Recibido /\ Creacion /\ ExclusionOpen /\ SemaforoListo /\ Intacto /\ AvancePorHilo
    BY NuloAparte DEF Init, Recibido, Creacion, ExclusionOpen, SemaforoListo, existe, Intacto,
      AvancePorHilo, ConOpen
  <2>4. Integros /\ \A p \in Pokemon : ~Cerrado(p) /\ \A h \in Pedido : ~HiloAbre(h, p)
    BY DEF Init, Integros, Cerrado, HiloAbre, ConOpen
  <2>5. BloquesRepartidos
    BY <2>4, EnUsoDeNadie DEF BloquesRepartidos
  <2> QED
    BY <2>2, <2>3, <2>4, <2>5 DEF IInv
<1>2. IInv /\ [Next]_vars => IInv'
  BY PasoTypeOK, PasoRecibido, PasoCreacion, PasoExclusion, PasoSemaforo, PasoIntacto, PasoAvance,
     PasoIntegros, PasoBloques DEF IInv
<1> QED
  BY <1>1, <1>2, PTL DEF Spec

\* The variables keep to their types: in particular the blocks that a thread
\* loads always make up a file.
THEOREM TipoCorrecto == Spec => []TypeOK
BY Inductivo, PTL DEF IInv

\* OPEN=Y, a line in a file on disk, is a lock for the threads.
THEOREM OpenEsUnCerrojo == Spec => []ExclusionOpen
BY Inductivo, PTL DEF IInv

\* A file that nobody has open holds what the requests add up to.
THEOREM ArchivosIntegros == Spec => []ArchivoIntegro
<1>1. IInv => ArchivoIntegro
  <2> SUFFICES ASSUME IInv, NEW p \in Pokemon, Cerrado(p)
               PROVE  Integro(p) /\ BloquesDe(blocks[p]) \subseteq mapa
    BY DEF ArchivoIntegro, Integro, SinRepetidos
  <2> QED
    BY EnUsoCerrado DEF EnUsoAlCerrar, IInv, Integros, BloquesRepartidos
<1> QED
  BY <1>1, Inductivo, PTL

\* No block is shared by two closed files, nor on its way to another one.
THEOREM BloquesSinDosDuenios == Spec => []BloquesAjenos
<1>1. IInv => BloquesAjenos
  <2> SUFFICES ASSUME IInv, NEW p \in Pokemon, Cerrado(p)
               PROVE  /\ \A q \in Pokemon \ {p} :
                           Cerrado(q) => BloquesDe(blocks[p]) \cap BloquesDe(blocks[q]) = {}
                      /\ \A h \in Pedido : paso[h] \in {"agregar", "escribir"} =>
                           asignado[h] \notin BloquesDe(blocks[p])
    BY DEF BloquesAjenos
  <2>1. /\ TypeOK /\ Recibido /\ ExclusionOpen /\ BloquesRepartidos
        /\ \A q \in Pokemon : Cerrado(q) => EnUso(q) = BloquesDe(blocks[q])
    BY EnUsoCerrado DEF EnUsoAlCerrar, IInv
  <2>2. ASSUME NEW h \in Pedido, paso[h] \in {"agregar", "escribir"}
        PROVE  asignado[h] \notin BloquesDe(blocks[p])
    <3>1. De(h) \in Pokemon /\ HiloAbre(h, De(h)) /\ De(h) # p
      BY <2>1, <2>2, PedidoRecibido DEF HiloAbre, ConOpen, ExclusionOpen, Cerrado
    <3>2. asignado[h] \in EnUso(De(h))
      BY <2>1, <2>2, <3>1, EnUsoAbierto DEF EnUsoAlAbrir, BloquesDelHilo
    <3> QED
      BY <2>1, <3>1, <3>2 DEF BloquesRepartidos
  <2> QED
    BY <2>1, <2>2 DEF BloquesRepartidos
<1> QED
  BY <1>1, Inductivo, PTL

\* No request finds a file whose pokemon has no semaphore.
THEOREM SemaforosListos == Spec => []SemaforoListo
BY Inductivo, PTL DEF IInv

\* Every step of the Game-Card is a step of the map, or leaves the map alone.
LEMMA PasoMapa ==
  ASSUME IInv, [Next]_vars
  PROVE  [Mapa!Next]_Mapa!vars
<1>0. TypeOK /\ Recibido /\ ExclusionOpen /\ Integros
  BY DEF IInv
<1> USE <1>0 DEF En, Sigue
<1>1. ASSUME UNCHANGED <<pedido, contenido, resultado>> PROVE UNCHANGED Mapa!vars
  BY <1>1 DEF Mapa!vars
<1>2. ASSUME NEW h \in Pedido, NEW m \in Mensaje, Recibir(h, m) PROVE Mapa!Next
  <2>1. pedido[h] = Nulo
    BY <1>2 DEF Recibir, Recibido, TypeOK
  <2>2. m \in Mapa!Mensaje
    BY DEF Mensaje, Mapa!Mensaje, Operacion, Mapa!Operacion
  <2> QED
    BY <1>2, <2>1, <2>2 DEF Recibir, Mapa!Next, Mapa!Recibir
<1>3. ASSUME NEW h \in Pedido, Paso(h) PROVE [Mapa!Next]_Mapa!vars
  <2>0. Vacio = Mapa!Vacio /\ \A t, a : Responde(t, a) = Mapa!Responde(t, a)
    BY DEF Vacio, Mapa!Vacio, Responde, Mapa!Responde
  <2>1. /\ paso[h] # "libre" =>
             /\ pedido[h] \in Mensaje /\ De(h) \in Pokemon /\ pedido[h].pos \in Posicion
             /\ pedido[h].cant \in Nat /\ pedido[h].op \in Operacion
    BY PedidoRecibido, ConstantesValidas
  <2>2. ASSUME NEW p \in Pokemon PROVE contenido[p] \in [Posicion -> Nat]
    BY DEF TypeOK, Archivo
  <2>3. ASSUME NEW op, paso[h] # "libre", EsOp(h, op), resultado[h] = Nulo PROVE Mapa!Pendiente(h, op)
    BY <2>1, <2>3, NuloAparte DEF Mapa!Pendiente, EsOp
  <2>4. paso[h] \in {"existe", "grabar", "abrir", "cargar", "modificar"} => resultado[h] = Nulo
    BY DEF IInv, Intacto
  <2>5. ASSUME paso[h] # "libre", EsOp(h, "NEW"), resultado[h] = Nulo,
               contenido' = [contenido EXCEPT ![De(h)] =
                              [contenido[De(h)] EXCEPT ![pedido[h].pos] = @ + pedido[h].cant]],
               resultado' = [resultado EXCEPT ![h] = Responde("APPEARED", Vacio)],
               pedido' = pedido
        PROVE  Mapa!New(h)
    BY <2>0, <2>3, <2>5 DEF Mapa!New, De
  <2>6. ASSUME paso[h] # "libre", contenido[De(h)] = Vacio
        PROVE  Solo(pedido[h].pos, pedido[h].cant) =
                 [contenido[De(h)] EXCEPT ![pedido[h].pos] = @ + pedido[h].cant]
    <3>1. Vacio[pedido[h].pos] = 0 /\ 0 + pedido[h].cant = pedido[h].cant
      BY <2>1, <2>6 DEF Vacio
    <3> QED
      BY <2>6, <3>1 DEF Solo
  <2>7. ASSUME paso[h] # "libre", ~EsOp(h, "NEW"), resultado[h] = Nulo, contenido[De(h)] = Vacio,
               resultado' = [resultado EXCEPT ![h] = RespuestaVacia(h)],
               UNCHANGED <<pedido, contenido>>
        PROVE  Mapa!Next
    <3>1. CASE EsOp(h, "GET")
      <4>1. Mapa!Get(h)
        BY <2>0, <2>3, <2>7, <3>1 DEF RespuestaVacia, Mapa!Get, De
      <4> QED
        BY <4>1 DEF Mapa!Next
    <3>2. CASE EsOp(h, "CATCH")
      <4>1. contenido[pedido[h].pokemon][pedido[h].pos] = 0
        BY <2>1, <2>7 DEF Vacio, De
      <4>2. Mapa!CatchFail(h)
        BY <2>0, <2>3, <2>7, <3>2, <4>1 DEF RespuestaVacia, Mapa!CatchFail, EsOp
      <4> QED
        BY <4>2 DEF Mapa!Next
    <3> QED
      BY <2>1, <2>7, <3>1, <3>2 DEF EsOp, Operacion
  <2>8. ASSUME paso[h] # "libre", Integro(De(h)), blocks[De(h)] = <<>> PROVE contenido[De(h)] = Vacio
    <3>1. bloques_necesarios(contenido[De(h)]) = 0 /\ contenido[De(h)] \in Archivo
      BY <2>1, <2>8 DEF Integro, EsFragmentacion, TypeOK
    <3> QED
      BY <3>1, BloquesNecesarios
  <2>9. ASSUME NEW llena, AbrirCon(h, llena) PROVE Integro(De(h))
    BY <2>1, <2>9 DEF AbrirCon, Integros, Cerrado
  <2>10. CASE GrabarMetadata(h)
    <3>1. contenido[De(h)] = Vacio /\ EsOp(h, "NEW")
      BY <2>10 DEF GrabarMetadata, IInv, Creacion
    <3>2. Mapa!New(h)
      BY <2>4, <2>5, <2>6, <2>10, <3>1 DEF GrabarMetadata
    <3> QED
      BY <3>2 DEF Mapa!Next
  <2>11. CASE NoExisteOtro(h)
    <3>1. contenido[De(h)] = Vacio
      BY <2>1, <2>11 DEF NoExisteOtro, existe, IInv, Creacion, TypeOK, Estados
    <3> QED
      BY <2>4, <2>7, <2>11, <3>1 DEF NoExisteOtro
  <2>12. CASE AbrirVacioNew(h)
    <3>1. contenido[De(h)] = Vacio /\ EsOp(h, "NEW")
      BY <2>8, <2>9, <2>12 DEF AbrirVacioNew, AbrirCon
    <3>2. Mapa!New(h)
      BY <2>4, <2>5, <2>6, <2>12, <3>1 DEF AbrirVacioNew, AbrirCon
    <3> QED
      BY <3>2 DEF Mapa!Next
  <2>13. CASE AbrirVacioOtro(h)
    <3>1. contenido[De(h)] = Vacio
      BY <2>8, <2>9, <2>13 DEF AbrirVacioOtro, AbrirCon
    <3> QED
      BY <2>4, <2>7, <2>13, <3>1 DEF AbrirVacioOtro, AbrirCon
  <2>14. CASE CargarGet(h)
    <3>1. Integro(De(h)) /\ bloques[h] = blocks[De(h)] /\ blocks[De(h)] # <<>>
      BY <2>14 DEF CargarGet, IInv, AvancePorHilo, Avance, ConOpen
    <3>2. blocks[De(h)] \in Seq(Bloque) /\ contenido[De(h)] \in Archivo
      BY <2>1, <2>14 DEF CargarGet, TypeOK
    <3>3. traer_bloques(bloques[h]) = contenido[De(h)]
      BY <3>1, <3>2, TraerBloques DEF Integro
    <3>4. Mapa!Get(h)
      BY <2>0, <2>3, <2>4, <2>14, <3>3 DEF CargarGet, Mapa!Get, De
    <3> QED
      BY <3>4 DEF Mapa!Next
  <2>15. ASSUME paso[h] = "modificar" PROVE archivo[h] = contenido[De(h)] /\ resultado[h] = Nulo
    BY <2>4, <2>15 DEF IInv, AvancePorHilo, Avance, ConOpen
  <2>16. ASSUME ModificarNew(h) \/ ModificarCatch(h)
         PROVE  contenido' = [contenido EXCEPT ![De(h)] = archivo'[h]]
    BY <2>16 DEF ModificarNew, ModificarCatch
  <2>17. CASE ModificarNew(h)
    <3>1. archivo'[h] = [contenido[De(h)] EXCEPT ![pedido[h].pos] = @ + pedido[h].cant]
      BY <2>15, <2>17 DEF ModificarNew, TypeOK
    <3>2. Mapa!New(h)
      BY <2>5, <2>15, <2>16, <2>17, <3>1 DEF ModificarNew
    <3> QED
      BY <3>2 DEF Mapa!Next
  <2>18. CASE ModificarCatch(h)
    <3>1. archivo'[h] = [contenido[De(h)] EXCEPT ![pedido[h].pos] = @ - 1]
      BY <2>15, <2>18 DEF ModificarCatch, TypeOK
    <3>2. contenido[De(h)][pedido[h].pos] > 0
      BY <2>1, <2>2, <2>15, <2>18 DEF ModificarCatch
    <3>3. Mapa!CatchOk(h)
      BY <2>0, <2>3, <2>15, <2>16, <2>18, <3>1, <3>2 DEF ModificarCatch, Mapa!CatchOk, De
    <3> QED
      BY <3>3 DEF Mapa!Next
  <2>19. CASE NoHayQuitar(h)
    <3>1. Mapa!CatchFail(h)
      BY <2>0, <2>3, <2>15, <2>19 DEF NoHayQuitar, Mapa!CatchFail, De
    <3> QED
      BY <3>1 DEF Mapa!Next
  <2>20. CASE UNCHANGED <<pedido, contenido, resultado>>
    BY <1>1, <2>20
  <2> QED
    BY <1>3, <2>10, <2>11, <2>12, <2>13, <2>14, <2>17, <2>18, <2>19, <2>20
       DEF Paso, ExisteNew, CrearCarpeta, CrearArchivo, ExisteOtro, AbrirLleno, Cargar,
         LiberarBloques, VaciarMetadata, asignar_bloque_libre, metadata_agregar_bloque,
         EscribirBloque, metadata_actualizar_size, Cerrar, Responder, LeerMetadataVacia,
         SinBloquesLibres, Salir, Muere, locales
<1>4. CASE Caida \/ Reinicio \/ UNCHANGED vars
  BY <1>1, <1>4 DEF Caida, Reinicio, Muere, vars, locales
<1> QED
  BY <1>2, <1>3, <1>4 DEF Next

\* The Game-Card implements the map: with its files, its blocks, its threads,
\* its crashes and its restarts, it answers as if each request happened at
\* one instant.
THEOREM ImplementaElMapa == Spec => ImplementaMapa
<1>1. Init => Mapa!Init
  BY DEF Init, Mapa!Init, Vacio, Mapa!Vacio
<1>2. IInv /\ [Next]_vars => [Mapa!Next]_Mapa!vars
  BY PasoMapa
<1> QED
  BY <1>1, <1>2, Inductivo, PTL DEF Spec, ImplementaMapa, Mapa!Spec
=============================================================================
