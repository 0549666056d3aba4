----------------------------- MODULE TeamProofs -----------------------------
(***************************************************************************)
(* What holds of the Team for every configuration and every sequence of    *)
(* messages: types, the semaphore of the queue and the wait for a CAUGHT;  *)
(* and, until two trainers first exchange, who moves, what a trainer has   *)
(* room for and what a CAUGHT credits.                                     *)
(***************************************************************************)
EXTENDS Team, Lemas

-----------------------------------------------------------------------------
(* The lists of pokemons *)

\* The recursion of Elegidos, one step of it.
PasoElegidos(l, I, h, k) ==
  IF k = 0 THEN <<>> ELSE IF k \in I THEN Append(h[k-1], l[k]) ELSE h[k-1]

EsElegidos(l, I, n, h) == h = [k \in 0..n |-> PasoElegidos(l, I, h, k)]

\* A function defined by it up to n can be taken one step further.
LEMMA ElegidosUnoMas ==
  ASSUME NEW l, NEW I, NEW n \in Nat, NEW h, EsElegidos(l, I, n, h)
  PROVE  \E g : EsElegidos(l, I, n + 1, g)
<1>0. h = [k \in 0..n |-> PasoElegidos(l, I, h, k)]
  BY DEF EsElegidos
<1> DEFINE g == [k \in 0..(n + 1) |-> IF k = n + 1 THEN PasoElegidos(l, I, h, k) ELSE h[k]]
<1>1. ASSUME NEW k \in 0..(n + 1) PROVE g[k] = PasoElegidos(l, I, g, k)
  <2>1. k = 0 \/ (k - 1 \in 0..(n + 1) /\ k - 1 # n + 1 /\ k - 1 \in 0..n)
    OBVIOUS
  <2>2. k = 0 \/ g[k - 1] = h[k - 1]
    BY <2>1
  <2>3. k \in 0..n \/ k = n + 1
    OBVIOUS
  <2>4. g[k] = PasoElegidos(l, I, h, k)
    BY <1>0, <2>3
  <2> HIDE DEF g
  <2> QED BY <2>2, <2>4 DEF PasoElegidos
<1>2. g = [k \in 0..(n + 1) |-> PasoElegidos(l, I, g, k)]
  <2>1. g = [k \in 0..(n + 1) |-> g[k]]
    OBVIOUS
  <2> HIDE DEF g
  <2> QED BY <1>1, <2>1
<1>3. EsElegidos(l, I, n + 1, g)
  BY <1>2 DEF EsElegidos
<1> HIDE DEF g
<1> QED BY <1>3

\* What Elegidos returns is a sequence of the elements it was asked for.
LEMMA ElegidosTipo ==
  ASSUME NEW S, NEW l, Len(l) \in Nat, NEW I, \A i \in 1..Len(l) : i \in I => l[i] \in S
  PROVE  Elegidos(l, I) \in Seq(S)
<1> DEFINE N == Len(l)
           Existe(n) == \E h : EsElegidos(l, I, n, h)
<1>1. Existe(N)
  <2> DEFINE Hay == {n \in Nat : Existe(n)}
  <2>1. Existe(0)
    <3> DEFINE g == [k \in 0..0 |-> <<>>]
    <3>1. EsElegidos(l, I, 0, g)
      BY DEF EsElegidos, PasoElegidos
    <3> QED BY <3>1
  <2>2. ASSUME NEW n \in Hay PROVE n + 1 \in Hay
    <3>1. PICK h : EsElegidos(l, I, n, h)
      OBVIOUS
    <3>2. n \in Nat
      OBVIOUS
    <3>3. Existe(n + 1)
      BY <3>1, <3>2, ElegidosUnoMas
    <3> QED BY <3>3
  <2> HIDE DEF Existe
  <2>3. Hay = Nat
    <3>1. Hay \in SUBSET Nat /\ 0 \in Hay
      BY <2>1
    <3> HIDE DEF Hay
    <3> QED BY <2>2, <3>1, InduccionNat
  <2> QED BY <2>3
<1> DEFINE hasta == CHOOSE h : h = [k \in 0..N |-> PasoElegidos(l, I, h, k)]
<1>2. hasta = [k \in 0..N |-> PasoElegidos(l, I, hasta, k)]
  BY <1>1 DEF EsElegidos
<1>3. Elegidos(l, I) = hasta[N]
  BY DEF Elegidos, PasoElegidos
<1> HIDE DEF hasta
<1> DEFINE Bien == {k \in Nat : k <= N => hasta[k] \in Seq(S)}
<1>4. Bien = Nat
  <2>1. 0 \in Bien
    BY <1>2 DEF PasoElegidos
  <2>2. ASSUME NEW k \in Bien PROVE k + 1 \in Bien
    <3>1. SUFFICES ASSUME k + 1 <= N PROVE hasta[k + 1] \in Seq(S)
      OBVIOUS
    <3>2. hasta[k + 1] = IF k + 1 \in I THEN Append(hasta[k], l[k + 1]) ELSE hasta[k]
      <4>1. k + 1 \in 0..N /\ k + 1 # 0 /\ (k + 1) - 1 = k
        BY <3>1
      <4>2. hasta[k + 1] = PasoElegidos(l, I, hasta, k + 1)
        BY <1>2, <4>1
      <4> QED BY <4>1, <4>2 DEF PasoElegidos
    <3>3. hasta[k] \in Seq(S)
      BY <3>1
    <3>4. k + 1 \in I => l[k + 1] \in S
      BY <3>1
    <3> QED BY <3>2, <3>3, <3>4
  <2>3. Bien \in SUBSET Nat
    OBVIOUS
  <2> HIDE DEF Bien
  <2> QED BY <2>1, <2>2, <2>3, InduccionNat
<1>5. N \in Bien
  BY <1>4
<1> QED BY <1>3, <1>5

\* The same recursion, for FlattenSeq.
PasoAplanar(s, h, k) == IF k = 1 THEN s[k] ELSE h[k-1] \o s[k]

EsAplanar(s, n, h) == h = [k \in 1..n |-> PasoAplanar(s, h, k)]

LEMMA AplanarUnoMas ==
  ASSUME NEW s, NEW n \in Nat, NEW h, EsAplanar(s, n, h)
  PROVE  \E g : EsAplanar(s, n + 1, g)
<1>0. h = [k \in 1..n |-> PasoAplanar(s, h, k)]
  BY DEF EsAplanar
<1> DEFINE g == [k \in 1..(n + 1) |-> IF k = n + 1 THEN PasoAplanar(s, h, k) ELSE h[k]]
<1>1. ASSUME NEW k \in 1..(n + 1) PROVE g[k] = PasoAplanar(s, g, k)
  <2>1. k = 1 \/ (k - 1 \in 1..(n + 1) /\ k - 1 # n + 1 /\ k - 1 \in 1..n)
    OBVIOUS
  <2>2. k = 1 \/ g[k - 1] = h[k - 1]
    BY <2>1
  <2>3. k \in 1..n \/ k = n + 1
    OBVIOUS
  <2>4. g[k] = PasoAplanar(s, h, k)
    BY <1>0, <2>3
  <2> HIDE DEF g
  <2> QED BY <2>2, <2>4 DEF PasoAplanar
<1>2. g = [k \in 1..(n + 1) |-> PasoAplanar(s, g, k)]
  <2>1. g = [k \in 1..(n + 1) |-> g[k]]
    OBVIOUS
  <2> HIDE DEF g
  <2> QED BY <1>1, <2>1
<1>3. EsAplanar(s, n + 1, g)
  BY <1>2 DEF EsAplanar
<1> HIDE DEF g
<1> QED BY <1>3

\* A sequence of sequences, flattened, is a sequence of the same elements.
LEMMA AplanarTipo ==
  ASSUME NEW S, NEW s \in Seq(Seq(S))
  PROVE  FlattenSeq(s) \in Seq(S)
<1> DEFINE N == Len(s)
           Existe(n) == \E h : EsAplanar(s, n, h)
<1>0. N \in Nat /\ \A k \in 1..N : s[k] \in Seq(S)
  OBVIOUS
<1>a. CASE N = 0
  <2>1. FlattenSeq(s) = s /\ s = <<>>
    BY <1>a DEF FlattenSeq
  <2> QED BY <2>1
<1>b. CASE N # 0
  <2>1. Existe(N)
    <3> DEFINE Hay == {n \in Nat : Existe(n)}
    <3>1. Existe(0)
      <4> DEFINE g == [k \in 1..0 |-> <<>>]
      <4>1. EsAplanar(s, 0, g)
        BY DEF EsAplanar
      <4> QED BY <4>1
    <3>2. ASSUME NEW n \in Hay PROVE n + 1 \in Hay
      <4>1. PICK h : EsAplanar(s, n, h)
        OBVIOUS
      <4>2. n \in Nat
        OBVIOUS
      <4>3. Existe(n + 1)
        BY <4>1, <4>2, AplanarUnoMas
      <4> QED BY <4>3
    <3> HIDE DEF Existe
    <3>3. Hay = Nat
      <4>1. Hay \in SUBSET Nat /\ 0 \in Hay
        BY <3>1
      <4> HIDE DEF Hay
      <4> QED BY <3>2, <4>1, InduccionNat
    <3> QED BY <3>3, <1>0
  <2> DEFINE flatten == CHOOSE h : h = [k \in 1..N |-> PasoAplanar(s, h, k)]
  <2>2. flatten = [k \in 1..N |-> PasoAplanar(s, flatten, k)]
    BY <2>1 DEF EsAplanar
  <2>3. FlattenSeq(s) = flatten[N]
    <3>1. FlattenSeq(s) = IF Len(s) = 0 THEN s ELSE flatten[Len(s)]
      BY Zenon DEF FlattenSeq, PasoAplanar
    <3> QED BY <3>1, <1>b
  <2> HIDE DEF flatten
  <2> DEFINE Bien == {k \in Nat : k \in 1..N => flatten[k] \in Seq(S)}
  <2>4. Bien = Nat
    <3>1. 0 \in Bien
      OBVIOUS
    <3>2. ASSUME NEW k \in Bien PROVE k + 1 \in Bien
      <4>1. SUFFICES ASSUME k + 1 \in 1..N PROVE flatten[k + 1] \in Seq(S)
        OBVIOUS
      <4>2. k \in Nat /\ (k + 1) - 1 = k /\ (k + 1 = 1 \/ k \in 1..N)
        BY <4>1, <1>0
      <4>3. flatten[k + 1] = PasoAplanar(s, flatten, k + 1)
        BY <2>2, <4>1
      <4>4. s[k + 1] \in Seq(S)
        BY <4>1, <1>0
      <4>5. k \in 1..N => flatten[k] \in Seq(S)
        OBVIOUS
      <4> HIDE DEF Bien
      <4>6. k \in 1..N => flatten[k] \o s[k + 1] \in Seq(S)
        BY <4>4, <4>5, ConcatProperties
      <4> QED BY <4>2, <4>3, <4>4, <4>6 DEF PasoAplanar
    <3>3. Bien \in SUBSET Nat
      OBVIOUS
    <3> HIDE DEF Bien
    <3> QED BY <3>1, <3>2, <3>3, InduccionNat
  <2>5. N \in Bien /\ N \in 1..N
    BY <2>4, <1>b, <1>0
  <2> QED BY <2>3, <2>5
<1> QED BY <1>a, <1>b

Listado == Seq(t_pokemon)

\* The places of a name in a list, and the first of them.
LEMMA PosicionesTipo ==
  ASSUME NEW n, NEW l \in Listado
  PROVE  /\ Posiciones(n, l) \subseteq DOMAIN l /\ Posiciones(n, l) \in SUBSET Nat
         /\ IsFiniteSet(Posiciones(n, l)) /\ Cardinality(Posiciones(n, l)) \in Nat
         /\ Posiciones(n, l) # {} =>
              /\ Min(Posiciones(n, l)) \in DOMAIN l
              /\ Cardinality(Posiciones(n, l)) # 0
<1> DEFINE P == Posiciones(n, l)
<1>1. Len(l) \in Nat /\ DOMAIN l = 1..Len(l)
  BY DEF Listado
<1>2. P \subseteq DOMAIN l /\ P \in SUBSET Nat
  BY <1>1 DEF Posiciones
<1>3. IsFiniteSet(DOMAIN l)
  BY <1>1, FS_Interval
<1> HIDE DEF P
<1>4. IsFiniteSet(P)
  BY <1>2, <1>3, FS_Subset
<1>5. Cardinality(P) \in Nat /\ (Cardinality(P) = 0 <=> P = {})
  BY <1>4, FS_CardinalityType, FS_EmptySet
<1>6. P # {} => Min(P) \in P
  BY <1>2, MinDeNaturales
<1> QED BY <1>2, <1>4, <1>5, <1>6 DEF P

\* The count of a name.
LEMMA CantidadTipo ==
  ASSUME NEW n, NEW l \in Listado
  PROVE  get_cantidad_by_nombre_pokemon(n, l) \in Nat
<1>1. \A i \in DOMAIN l : l[i] \in t_pokemon
  BY DEF Listado
<1>2. \A i \in DOMAIN l : l[i].cantidad \in Nat
  BY <1>1 DEF t_pokemon
<1> QED BY <1>2, PosicionesTipo DEF get_cantidad_by_nombre_pokemon

\* A summarised list is a list: no element of it counts nothing.
LEMMA SumarizarTipo ==
  ASSUME NEW l \in Listado
  PROVE  sumarizar_pokemones(l) \in Listado
<1> DEFINE Suma == [i \in DOMAIN l |-> [nombre   |-> l[i].nombre,
                                        cantidad |-> CantidadSumarizada(l, l[i].nombre)]]
           Primeros == {i \in DOMAIN l : \A j \in 1..(i - 1) : l[j].nombre # l[i].nombre}
<1>1. Len(l) \in Nat /\ DOMAIN l = 1..Len(l) /\ \A i \in DOMAIN l : l[i] \in t_pokemon
  BY DEF Listado
<1>2. Len(Suma) \in Nat /\ Len(Suma) = Len(l)
  BY <1>1
<1>3. ASSUME NEW i \in DOMAIN l PROVE Suma[i] \in t_pokemon
  <2> DEFINE P == Posiciones(l[i].nombre, l)
  <2>1. i \in P
    BY DEF Posiciones
  <2> HIDE DEF P
  <2>2. P # {}
    BY <2>1
  <2>3. Min(P) \in DOMAIN l /\ Cardinality(P) \in Nat /\ Cardinality(P) # 0
    BY <2>2, PosicionesTipo DEF P
  <2>4. l[Min(P)].cantidad \in Nat \ {0} /\ l[i].nombre \in Nombres
    BY <1>1, <2>3 DEF t_pokemon
  <2>5. CantidadSumarizada(l, l[i].nombre) = l[Min(P)].cantidad + Cardinality(P) - 1
    BY DEF CantidadSumarizada, P
  <2>6. CantidadSumarizada(l, l[i].nombre) \in Nat \ {0}
    BY <2>3, <2>4, <2>5
  <2> QED BY <2>4, <2>6 DEF t_pokemon
<1>4. sumarizar_pokemones(l) = Elegidos(Suma, Primeros)
  BY DEF sumarizar_pokemones
<1> HIDE DEF Suma, Primeros
<1>5. \A i \in 1..Len(Suma) : i \in Primeros => Suma[i] \in t_pokemon
  BY <1>1, <1>2, <1>3
<1> QED BY <1>2, <1>4, <1>5, ElegidosTipo DEF Listado

LEMMA GlobalTipo ==
  ASSUME NEW s \in Seq(Listado)
  PROVE  sumarizar_global(s) \in Listado
BY AplanarTipo, SumarizarTipo DEF sumarizar_global, Listado

LEMMA ElementoTipo ==
  ASSUME NEW l \in Listado, NEW i \in DOMAIN l
  PROVE  /\ l[i] \in t_pokemon /\ l[i].nombre \in Nombres /\ l[i].cantidad \in Nat \ {0}
         /\ i \in 1..Len(l) /\ Len(l) \in Nat
<1>1. l[i] \in t_pokemon /\ Len(l) \in Nat /\ DOMAIN l = 1..Len(l)
  BY DEF Listado
<1> QED BY <1>1 DEF t_pokemon

LEMMA AgregarTipo ==
  ASSUME NEW l \in Listado, NEW n \in Nombres
  PROVE  Append(l, get_pokemon(n)) \in Listado
<1>1. get_pokemon(n) \in t_pokemon
  BY DEF get_pokemon, t_pokemon
<1> QED BY <1>1 DEF Listado

\* Whatever is taken away, what stays counts something.
LEMMA QuitarTipo ==
  ASSUME NEW l \in Listado, NEW n
  PROVE  remove_pokemon_by_nombre(n, l) \in Listado
<1>1. CASE Posiciones(n, l) = {}
  BY <1>1 DEF remove_pokemon_by_nombre
<1>2. CASE Posiciones(n, l) # {}
  <2> DEFINE i == Min(Posiciones(n, l))
  <2>1. i \in DOMAIN l
    BY <1>2, PosicionesTipo
  <2>2. remove_pokemon_by_nombre(n, l) =
          IF l[i].cantidad > 1 THEN [l EXCEPT ![i].cantidad = @ - 1] ELSE RemoveAt(l, i)
    BY <1>2 DEF remove_pokemon_by_nombre
  <2> HIDE DEF i
  <2>3. l[i] \in t_pokemon /\ l[i].cantidad \in Nat \ {0} /\ i \in 1..Len(l)
    BY <2>1, ElementoTipo
  <2>4. l[i].cantidad > 1 => [l[i] EXCEPT !.cantidad = @ - 1] \in t_pokemon
    BY <2>3 DEF t_pokemon
  <2>5. l[i].cantidad > 1 => [l EXCEPT ![i].cantidad = @ - 1] \in Listado
    BY <2>3, <2>4 DEF Listado
  <2>6. RemoveAt(l, i) \in Listado
    BY <2>3, RemoveAtPuntual DEF Listado
  <2> QED BY <2>2, <2>5, <2>6
<1> QED BY <1>1, <1>2

LEMMA EntregarTipo ==
  ASSUME NEW de \in Listado, NEW a \in Listado, NEW n \in Nombres
  PROVE  Append(a, Entregado(n, de)) \in Listado
<1>1. get_cantidad_by_nombre_pokemon(n, de) \in Nat
  BY CantidadTipo
<1>2. Entregado(n, de) \in t_pokemon
  BY <1>1 DEF Entregado, t_pokemon
<1> QED BY <1>2 DEF Listado

LEMMA ElegidosListado ==
  ASSUME NEW l \in Listado, NEW I
  PROVE  Elegidos(l, I) \in Listado
<1>1. Len(l) \in Nat /\ \A i \in 1..Len(l) : l[i] \in t_pokemon
  BY DEF Listado
<1> QED BY <1>1, ElegidosTipo DEF Listado

LEMMA DeMasTipo ==
  ASSUME NEW l \in Listado, NEW o
  PROVE  pokemones_de_mas(l, o) \in Listado
BY ElegidosListado DEF pokemones_de_mas

LEMMA PendientesTipo ==
  ASSUME NEW l, NEW o \in Listado
  PROVE  objetivos_pendientes(l, o) \in Listado
BY ElegidosListado DEF objetivos_pendientes

LEMMA SirveTipo ==
  ASSUME NEW o \in Listado, NEW l \in Listado
  PROVE  pokemon_que_sirve(o, l) \in Listado
<1> DEFINE utiles == {i \in DOMAIN o : Posiciones(o[i].nombre, l) # {}}
           i == Min(utiles)
           P == Posiciones(o[i].nombre, l)
<1>1. CASE utiles = {}
  BY <1>1 DEF pokemon_que_sirve, Listado
<1>2. CASE utiles # {}
  <2>1. utiles \in SUBSET Nat
    BY DEF Listado
  <2>2. i \in utiles
    <3> HIDE DEF utiles
    <3> QED BY <1>2, <2>1, MinDeNaturales
  <2>3. P # {}
    <3> HIDE DEF i
    <3> QED BY <2>2
  <2>4. Min(P) \in DOMAIN l
    <3> HIDE DEF i
    <3> QED BY <2>3, PosicionesTipo
  <2>5. pokemon_que_sirve(o, l) = <<l[Min(P)]>>
    BY <1>2 DEF pokemon_que_sirve
  <2> HIDE DEF P
  <2>6. l[Min(P)] \in t_pokemon
    BY <2>4, ElementoTipo
  <2> QED BY <2>5, <2>6 DEF Listado
<1> QED BY <1>1, <1>2

LEMMA OfrecidoTipo ==
  ASSUME NEW l \in Listado, NEW o1 \in Listado, NEW o2 \in Listado
  PROVE  pokemon_ofrecido(l, o1, o2) \in Listado
BY DeMasTipo, SirveTipo DEF pokemon_ofrecido, pokemon_que_sirve_intercambio

\* The first element of a list that is not empty.
LEMMA PrimeroTipo ==
  ASSUME NEW l \in Listado, l # <<>>
  PROVE  l[1].nombre \in Nombres
<1>1. 1 \in DOMAIN l
  BY DEF Listado
<1> QED BY <1>1, ElementoTipo

\* A set of numbers up to n, if it is not empty, has a greatest element.
LEMMA MaximoHay ==
  ASSUME NEW n \in Nat, NEW S, S \subseteq 0..n, S # {}
  PROVE  \E k \in S : \A j \in S : j <= k
<1> DEFINE Z == {z \in Nat : \E k \in S : z = n - k}
<1>1. Z \in SUBSET Nat /\ Z # {}
  <2>1. PICK k \in S : TRUE
    OBVIOUS
  <2>2. n - k \in Z
    BY <2>1
  <2> QED BY <2>2
<1>2. Min(Z) \in Z /\ \A z \in Z : Min(Z) <= z
  <2> HIDE DEF Z
  <2> QED BY <1>1, MinDeNaturales
<1>3. PICK k \in S : Min(Z) = n - k
  BY <1>2
<1>4. ASSUME NEW j \in S PROVE j <= k
  <2>1. n - j \in Z
    BY <1>4
  <2>2. n - k <= n - j
    BY <1>2, <1>3, <2>1
  <2> QED BY <2>2
<1> QED BY <1>4

-----------------------------------------------------------------------------
(* The search for a circular wait *)

\* The recursion of buscar_deadlocks, one step of it.
PasoBuscar(dl, n, intentos0, basura, h, i) ==
  IF i = 0 THEN [intentos |-> intentos0, procesos |-> {}, encontrados |-> <<>>, nulo |-> FALSE]
  ELSE LET antes    == h[i-1]
           filas    == recorrer_fila_DL(dl, n, i, antes.intentos, basura)
           ciclo    == Len(filas) > 1 /\ Last(filas) = i
           procesos == antes.procesos \cup ToSet(Front(filas))
           nuevo    == ciclo /\ Ordenados(procesos \cup {i}, n) \notin ToSet(antes.encontrados)
       IN  [intentos    |-> IF ciclo THEN 0 ELSE antes.intentos + Len(filas) - 1,
            procesos    |-> IF ciclo THEN {} ELSE procesos,
            encontrados |-> IF nuevo THEN Append(antes.encontrados, Ordenados(procesos \cup {i}, n))
                                     ELSE antes.encontrados,
            nulo        |-> antes.nulo \/ (nuevo /\ ~(procesos \subseteq DOMAIN dl))]

EsBuscar(dl, n, intentos0, basura, m, h) ==
  h = [i \in 0..m |-> PasoBuscar(dl, n, intentos0, basura, h, i)]

LEMMA BuscarUnoMas ==
  ASSUME NEW dl, NEW n, NEW int, NEW basura, NEW m \in Nat, NEW h, EsBuscar(dl, n, int, basura, m, h)
  PROVE  \E g : EsBuscar(dl, n, int, basura, m + 1, g)
<1> DEFINE Paso(f, k) == PasoBuscar(dl, n, int, basura, f, k)
<1>0. h = [k \in 0..m |-> Paso(h, k)]
  BY DEF EsBuscar
<1> DEFINE g == [k \in 0..(m + 1) |-> IF k = m + 1 THEN Paso(h, k) ELSE h[k]]
<1>1. ASSUME NEW k \in 0..(m + 1) PROVE g[k] = Paso(g, k)
  <2> HIDE DEF Paso
  <2>1. k = 0 \/ (k - 1 \in 0..(m + 1) /\ k - 1 # m + 1 /\ k - 1 \in 0..m)
    OBVIOUS
  <2>2. k = 0 \/ g[k - 1] = h[k - 1]
    BY <2>1
  <2>3. k \in 0..m \/ k = m + 1
    OBVIOUS
  <2>4. g[k] = Paso(h, k)
    BY <1>0, <2>3
  <2> HIDE DEF g
  <2>5. Paso(g, k) = Paso(h, k)
    <3>1. CASE k = 0
      BY <3>1 DEF Paso, PasoBuscar
    <3>2. CASE g[k - 1] = h[k - 1]
      BY <3>2 DEF Paso, PasoBuscar
    <3> QED BY <2>2, <3>1, <3>2
  <2> QED BY <2>4, <2>5
<1>2. g = [k \in 0..(m + 1) |-> Paso(g, k)]
  <2>1. g = [k \in 0..(m + 1) |-> g[k]]
    OBVIOUS
  <2> HIDE DEF g, Paso
  <2> QED BY <1>1, <2>1
<1>3. EsBuscar(dl, n, int, basura, m + 1, g)
  BY <1>2 DEF EsBuscar
<1> HIDE DEF g
<1> QED BY <1>3

\* If no trainer was NULL, every cycle that a step leaves is made of rows.
LEMMA PasoBuscarTipo ==
  ASSUME NEW dl, Len(dl) \in Nat, DOMAIN dl = 1..Len(dl), NEW n \in Nat, NEW int, NEW basura, NEW h,
         NEW i \in 1..Len(dl),
         ~h[i-1].nulo => h[i-1].encontrados \in Seq(Seq(1..Len(dl))),
         ~PasoBuscar(dl, n, int, basura, h, i).nulo
  PROVE  PasoBuscar(dl, n, int, basura, h, i).encontrados \in Seq(Seq(1..Len(dl)))
<1> DEFINE antes    == h[i-1]
           filas    == recorrer_fila_DL(dl, n, i, antes.intentos, basura)
           ciclo    == Len(filas) > 1 /\ Last(filas) = i
           procesos == antes.procesos \cup ToSet(Front(filas))
           nuevo    == ciclo /\ Ordenados(procesos \cup {i}, n) \notin ToSet(antes.encontrados)
           orden    == Ordenados(procesos \cup {i}, n)
<1>1. PasoBuscar(dl, n, int, basura, h, i) =
        [intentos    |-> IF ciclo THEN 0 ELSE antes.intentos + Len(filas) - 1,
         procesos    |-> IF ciclo THEN {} ELSE procesos,
         encontrados |-> IF nuevo THEN Append(antes.encontrados, orden) ELSE antes.encontrados,
         nulo        |-> antes.nulo \/ (nuevo /\ ~(procesos \subseteq DOMAIN dl))]
  <2>1. i # 0
    OBVIOUS
  <2> QED BY <2>1, Zenon DEF PasoBuscar
<1> HIDE DEF antes, filas, ciclo, nuevo
<1>2. /\ PasoBuscar(dl, n, int, basura, h, i).encontrados =
           IF nuevo THEN Append(antes.encontrados, orden) ELSE antes.encontrados
      /\ PasoBuscar(dl, n, int, basura, h, i).nulo =
           (antes.nulo \/ (nuevo /\ ~(procesos \subseteq DOMAIN dl)))
  <2> HIDE DEF procesos, orden
  <2> QED BY <1>1
<1>3. ~antes.nulo /\ (nuevo => procesos \subseteq DOMAIN dl)
  BY <1>2, Zenon
<1>4. antes.encontrados \in Seq(Seq(1..Len(dl)))
  BY <1>3 DEF antes
<1>5. ASSUME nuevo PROVE orden \in Seq(1..Len(dl))
  <2>1. procesos \cup {i} \subseteq 1..Len(dl)
    BY <1>3, <1>5
  <2> DEFINE numeros == [k \in 1..n |-> k]
             I == procesos \cup {i}
  <2>2. Len(numeros) = n /\ \A k \in 1..n : numeros[k] = k
    OBVIOUS
  <2>3. orden = Elegidos(numeros, I)
    BY DEF Ordenados
  <2> HIDE DEF numeros, orden, I
  <2>4. \A k \in 1..Len(numeros) : k \in I => numeros[k] \in 1..Len(dl)
    BY <2>1, <2>2 DEF I
  <2> QED BY <2>2, <2>3, <2>4, ElegidosTipo
<1> HIDE DEF procesos, orden
<1>6. CASE nuevo
  BY <1>2, <1>4, <1>5, <1>6
<1>7. CASE ~nuevo
  BY <1>2, <1>4, <1>7
<1> QED BY <1>6, <1>7

\* So does the whole search.
LEMMA BuscarTipo ==
  ASSUME NEW dl, Len(dl) \in Nat, DOMAIN dl = 1..Len(dl), NEW n \in Nat, NEW int, NEW basura,
         ~buscar_deadlocks(dl, n, int, basura).nulo
  PROVE  buscar_deadlocks(dl, n, int, basura).encontrados \in Seq(Seq(1..Len(dl)))
<1> DEFINE N == Len(dl)
           Existe(m) == \E h : EsBuscar(dl, n, int, basura, m, h)
<1>1. Existe(N)
  <2> DEFINE Hay == {m \in Nat : Existe(m)}
  <2>1. Existe(0)
    <3> DEFINE g == [k \in 0..0 |-> [intentos |-> int, procesos |-> {}, encontrados |-> <<>>, nulo |-> FALSE]]
    <3>1. EsBuscar(dl, n, int, basura, 0, g)
      BY DEF EsBuscar, PasoBuscar
    <3> QED BY <3>1
  <2>2. ASSUME NEW m \in Hay PROVE m + 1 \in Hay
    <3>1. PICK h : EsBuscar(dl, n, int, basura, m, h)
      OBVIOUS
    <3>2. m \in Nat
      OBVIOUS
    <3>3. Existe(m + 1)
      BY <3>1, <3>2, BuscarUnoMas
    <3> QED BY <3>3
  <2> HIDE DEF Existe
  <2>3. Hay = Nat
    <3>1. Hay \in SUBSET Nat /\ 0 \in Hay
      BY <2>1
    <3> HIDE DEF Hay
    <3> QED BY <2>2, <3>1, InduccionNat
  <2> QED BY <2>3
<1> DEFINE hasta == CHOOSE h : h = [k \in 0..N |-> PasoBuscar(dl, n, int, basura, h, k)]
<1>2. hasta = [k \in 0..N |-> PasoBuscar(dl, n, int, basura, hasta, k)]
  <2>1. \E h : h = [k \in 0..N |-> PasoBuscar(dl, n, int, basura, h, k)]
    BY <1>1 DEF EsBuscar
  <2> QED BY <2>1
<1>3. buscar_deadlocks(dl, n, int, basura) = hasta[N]
  BY Zenon DEF buscar_deadlocks, PasoBuscar
<1> HIDE DEF hasta
<1> DEFINE Bien == {k \in Nat : (k <= N /\ ~hasta[k].nulo) => hasta[k].encontrados \in Seq(Seq(1..N))}
<1>4. Bien = Nat
  <2>1. 0 \in Bien
    <3>1. hasta[0] = [intentos |-> int, procesos |-> {}, encontrados |-> <<>>, nulo |-> FALSE]
      BY <1>2 DEF PasoBuscar
    <3>2. hasta[0].encontrados = <<>>
      BY <3>1
    <3>3. <<>> \in Seq(Seq(1..N))
      OBVIOUS
    <3> QED BY <3>2, <3>3
  <2>2. ASSUME NEW k \in Bien PROVE k + 1 \in Bien
    <3>1. SUFFICES ASSUME k + 1 <= N, ~hasta[k + 1].nulo PROVE hasta[k + 1].encontrados \in Seq(Seq(1..N))
      OBVIOUS
    <3>2. k \in Nat /\ k + 1 \in 1..N /\ k + 1 \in 0..N /\ (k + 1) - 1 = k /\ k <= N
      BY <3>1
    <3>3. ~hasta[k].nulo => hasta[k].encontrados \in Seq(Seq(1..N))
      BY <3>2
    <3>4. hasta[k + 1] = PasoBuscar(dl, n, int, basura, hasta, k + 1)
      BY <1>2, <3>2
    <3> HIDE DEF Bien
    <3>5. ~hasta[(k + 1) - 1].nulo => hasta[(k + 1) - 1].encontrados \in Seq(Seq(1..N))
      BY <3>2, <3>3
    <3> QED BY <3>1, <3>2, <3>4, <3>5, PasoBuscarTipo
  <2>3. Bien \in SUBSET Nat
    OBVIOUS
  <2> HIDE DEF Bien
  <2> QED BY <2>1, <2>2, <2>3, InduccionNat
<1>5. N \in Bien
  BY <1>4
<1> QED BY <1>3, <1>5

\* The rows of an exchange are rows of the snapshot, and one waits for the other.
LEMMA ElegirTipo ==
  ASSUME NEW dl, Len(dl) \in Nat, Len(dl) > 1, NEW enc \in Seq(Seq(1..Len(dl))),
         elegir_intercambio(dl, enc) # SinIntercambio
  PROVE  /\ elegir_intercambio(dl, enc).e1 \in 1..Len(dl)
         /\ elegir_intercambio(dl, enc).e2 \in 1..Len(dl)
         /\ estan_unidos(dl[elegir_intercambio(dl, enc).e1], dl[elegir_intercambio(dl, enc).e2])
<1> DEFINE ciclo  == enc[1]
           unidos == {k \in 2..Len(dl) : estan_unidos(dl[ciclo[1]], dl[ciclo[k]])}
<1>1. elegir_intercambio(dl, enc) =
        IF enc = <<>> \/ Len(ciclo) < Len(dl) \/ unidos = {} THEN SinIntercambio
        ELSE [e1 |-> ciclo[1], e2 |-> ciclo[Max(unidos)]]
  BY DEF elegir_intercambio
<1>2. enc # <<>> /\ ~(Len(ciclo) < Len(dl)) /\ unidos # {}
  <2> HIDE DEF unidos, ciclo
  <2> QED BY <1>1
<1>3. ciclo \in Seq(1..Len(dl))
  BY <1>2
<1>4. Len(ciclo) \in Nat /\ Len(ciclo) >= Len(dl) /\ \A k \in 1..Len(ciclo) : ciclo[k] \in 1..Len(dl)
  <2>1. Len(ciclo) \in Nat /\ \A k \in 1..Len(ciclo) : ciclo[k] \in 1..Len(dl)
    <3> HIDE DEF ciclo
    <3> QED BY <1>3
  <2>2. ~(Len(ciclo) < Len(dl))
    BY <1>2
  <2> HIDE DEF ciclo
  <2> QED BY <2>1, <2>2
<1>5. \E k \in unidos : \A j \in unidos : j <= k
  <2>1. unidos \subseteq 0..Len(dl)
    OBVIOUS
  <2> HIDE DEF unidos
  <2> QED BY <1>2, <2>1, MaximoHay
<1>6. Max(unidos) \in unidos
  <2> HIDE DEF unidos
  <2> QED BY <1>5 DEF Max
<1> DEFINE k == Max(unidos)
<1>7. k \in 2..Len(dl) /\ estan_unidos(dl[ciclo[1]], dl[ciclo[k]])
  <2> HIDE DEF k, ciclo
  <2> QED BY <1>6 DEF k
<1>8. elegir_intercambio(dl, enc) = [e1 |-> ciclo[1], e2 |-> ciclo[k]]
  <2> HIDE DEF unidos, ciclo
  <2> QED BY <1>1, <1>2
<1> HIDE DEF unidos, ciclo, k
<1>9. 1 \in 1..Len(ciclo) /\ k \in 1..Len(ciclo)
  BY <1>4, <1>7
<1> QED BY <1>4, <1>7, <1>8, <1>9

-----------------------------------------------------------------------------
(* The configurations *)

LEMMA SecuenciaTipo ==
  ASSUME NEW S, NEW s \in Seq(S)
  PROVE  Len(s) \in Nat /\ DOMAIN s = 1..Len(s) /\ \A i \in DOMAIN s : s[i] \in S
OBVIOUS

LEMMA EscenarioTipo ==
  ASSUME NEW c \in Escenarios
  PROVE  /\ DOMAIN c.objetivo = 1..Len(c.objetivo) /\ Len(c.objetivo) \in Nat
         /\ \A e \in DOMAIN c.objetivo :
              c.objetivo[e] \in Listado /\ c.pokemones[e] \in Listado /\ c.posicion[e] \in Int
         /\ c.objetivo \in Seq(Listado)
         /\ DOMAIN c.mensajes \subseteq Nat
         /\ \A m \in DOMAIN c.mensajes :
              /\ c.mensajes[m].nombre \in Nombres
              /\ c.mensajes[m].tipo \in {"APPEARED", "LOCALIZED"}
              /\ c.mensajes[m].posiciones \in Seq(Int)
              /\ c.mensajes[m].tipo = "APPEARED" => c.mensajes[m].posiciones[1] \in Int
         /\ c.quantum \in Nat
<1>1. /\ c.objetivo \in Seq(Seq(t_pokemon)) /\ c.pokemones \in Seq(Seq(t_pokemon))
      /\ c.posicion \in Seq(Int) /\ c.quantum \in Nat
      /\ Len(c.objetivo) = Len(c.pokemones) /\ Len(c.objetivo) = Len(c.posicion)
      /\ c.mensajes \in Seq([tipo : {"APPEARED", "LOCALIZED"}, nombre : Nombres,
                             posiciones : Seq(Int)])
      /\ \A m \in DOMAIN c.mensajes :
           c.mensajes[m].tipo = "APPEARED" => c.mensajes[m].posiciones # <<>>
  BY EscenariosValidos
<1> DEFINE o == c.objetivo
           p == c.pokemones
           x == c.posicion
           ms == c.mensajes
           M == [tipo : {"APPEARED", "LOCALIZED"}, nombre : Nombres, posiciones : Seq(Int)]
<1>2. /\ o \in Seq(Listado) /\ p \in Seq(Listado) /\ x \in Seq(Int)
      /\ Len(o) = Len(p) /\ Len(o) = Len(x) /\ ms \in Seq(M)
  BY <1>1 DEF Listado
<1>3. /\ DOMAIN o = 1..Len(o) /\ Len(o) \in Nat
      /\ \A e \in DOMAIN o : o[e] \in Listado /\ p[e] \in Listado /\ x[e] \in Int
  <2> HIDE DEF o, p, x, ms
  <2>1. Len(o) \in Nat /\ DOMAIN o = 1..Len(o) /\ \A e \in DOMAIN o : o[e] \in Listado
    BY <1>2, SecuenciaTipo
  <2>2. DOMAIN p = 1..Len(p) /\ \A e \in DOMAIN p : p[e] \in Listado
    BY <1>2, SecuenciaTipo
  <2>3. DOMAIN x = 1..Len(x) /\ \A e \in DOMAIN x : x[e] \in Int
    BY <1>2, SecuenciaTipo
  <2> QED BY <1>2, <2>1, <2>2, <2>3
<1>4. DOMAIN ms \subseteq Nat /\ \A m \in DOMAIN ms : ms[m] \in M
  <2> HIDE DEF o, p, x, ms, M
  <2> QED BY <1>2
<1>5. \A s \in Seq(Int) : s # <<>> => s[1] \in Int
  OBVIOUS
<1>6. ASSUME NEW m \in DOMAIN ms
      PROVE  /\ ms[m].nombre \in Nombres /\ ms[m].tipo \in {"APPEARED", "LOCALIZED"}
             /\ ms[m].posiciones \in Seq(Int)
  <2>1. ms[m] \in M
    BY <1>4, <1>6
  <2> HIDE DEF ms
  <2> QED BY <2>1
<1> QED BY <1>1, <1>2, <1>3, <1>4, <1>5, <1>6

-----------------------------------------------------------------------------
(* The inductive invariant *)

Estados == {"NEW", "READY", "EXEC", "BLOCKED", "EXIT"}
Lugares == {"vuelta", "esperar", "mover", "decision", "llego", "capturar", "registrar",
            "caught", "evaluar", "intercambiar", "ciclos", "recibido", "entregar", "entregado",
            "liberar", "liberarOtro", "detectar", "resolver", "fin"}
\* From the five cycles of an exchange to its end.
Tratando == {"ciclos", "recibido", "entregar", "entregado", "liberar", "liberarOtro"}
Respuestas == {"enviado", "descartado", "atrapado", "escapado", "acreditado", "fin"}

\* t_pokemon_team
Destinos == [nombre : Nombres, origen : Nat, posicion : Int]

\* A trainer of team c, but for what only some steps of it need.
Ficha(c) ==
  [estado : Estados, ocupado : BOOLEAN, destino : Destinos \cup {Nulo}, posicion : Int,
   pokemones : Listado, semaforo : Nat, pc : Lugares, movimientos : 0..c.quantum,
   trato : [con : {0} \cup DOMAIN c.objetivo, queme_sirve : Nombres \cup {Nulo},
            quele_sirve : Nombres \cup {Nulo}],
   estimado : BOOLEAN]

EntTipo == ent \in [Entrenador -> Ficha(config)]

\* While it exchanges, the trainer knows with whom, for what and against what.
TratoHecho ==
  \A e \in Entrenador :
    ent[e].pc \in Tratando =>
      /\ ent[e].trato.con \in Entrenador \ {e}
      /\ ent[e].trato.queme_sirve \in Nombres /\ ent[e].trato.quele_sirve \in Nombres

ColaTipo == cola_ready \in Seq(Entrenador)

UbicadosTipo ==
  ubicados \in Seq([nombre : Nombres, origen : Nat, posicion : Int, planificable : BOOLEAN])

Semaforos ==
  [con_items : Nat, en_exec : Nat, detectar : Nat, replanificar : Nat, sjfcd : Nat, exits : Nat]

SemTipo == sem \in Semaforos

\* The thread of a message in team c.
Atencion(c) ==
  [paso : {"nuevo", "elegir", "asignar", "fin"}, elegido : {0} \cup DOMAIN c.objetivo,
   lista : Seq(Int), i : Nat \ {0}, hasta : Int]

\* When it assigns, the loop of a LOCALIZED is inside its list.
HilosTipo ==
  /\ hilos \in [HiloMensaje -> Atencion(config)]
  /\ \A m \in HiloMensaje :
       (hilos[m].paso = "asignar" /\ Mensaje(m).tipo = "LOCALIZED") => hilos[m].i <= Len(hilos[m].lista)

\* A CATCH of team c.
CatchDe(c) ==
  [entrenador : DOMAIN c.objetivo, nombre : Nombres, guardado : BOOLEAN, estado : Respuestas]

CatchesTipo == catches \in Seq(CatchDe(config))

ServicioTipo ==
  /\ servicio \in [planifica : BOOLEAN, replanifica : BOOLEAN, elegido : {0} \cup Entrenador,
                   avisos : 0..Len(config.objetivo)]
  /\ servicio.replanifica => servicio.elegido \in Entrenador

PendienteTipo ==
  pendiente \in [Entrenador \cup {Detector} ->
                   {SinIntercambio} \cup [e1 : Entrenador, e2 : Entrenador, nombre : Nombres]]

\* Between the CATCH and the note of its id, the trainer's last CATCH has no
\* answer that anybody will use.
ElUltimo(c, e) ==
  c \in DOMAIN catches /\ catches[c].entrenador = e /\
  \A i \in DOMAIN catches : catches[i].entrenador = e => i <= c

UltimoSinRegistrar ==
  \A e \in Entrenador :
    ent[e].pc = "registrar" =>
      \E c \in DOMAIN catches :
        ElUltimo(c, e) /\ ~catches[c].guardado /\ catches[c].estado \in {"enviado", "descartado"}

Tipos ==
  /\ config \in Escenarios /\ EntTipo /\ TratoHecho /\ ColaTipo /\ UbicadosTipo /\ SemTipo
  /\ HilosTipo /\ CatchesTipo /\ ServicioTipo /\ PendienteTipo
  /\ proceso_ejecutando \in {0} \cup Entrenador /\ vivo \in {"si", "segfault", "fin"}

IInv == Tipos /\ ColaConItems /\ UltimoSinRegistrar /\ EsperaConRespuesta

-----------------------------------------------------------------------------
(* What a step leaves alone *)

\* Nobody begins to note a CATCH or to wait for its answer, and whoever does
\* keeps its tokens.
SinEntrar ==
  \A e \in Entrenador :
    ent'[e].pc \in {"registrar", "caught"} =>
      ent'[e].pc = ent[e].pc /\ ent'[e].semaforo >= ent[e].semaforo

LEMMA MarcoEspera ==
  ASSUME IInv, UNCHANGED <<config, catches>>, EntTipo', SinEntrar
  PROVE  UltimoSinRegistrar' /\ EsperaConRespuesta'
<1>1. Entrenador' = Entrenador /\ catches' = catches
  BY DEF Entrenador
<1>2. /\ \A e \in Entrenador : ent[e].semaforo \in Nat
      /\ \A e \in Entrenador : ent'[e].semaforo \in Nat
  <2>1. \A e \in Entrenador : ent[e] \in Ficha(config) /\ ent'[e] \in Ficha(config')
    BY <1>1 DEF IInv, Tipos, EntTipo
  <2> QED BY <2>1 DEF Ficha
<1>3. UltimoSinRegistrar'
  BY <1>1 DEF IInv, UltimoSinRegistrar, SinEntrar, ElUltimo
<1>4. EsperaConRespuesta'
  BY <1>1, <1>2 DEF IInv, EsperaConRespuesta, SinEntrar
<1> QED BY <1>3, <1>4

LEMMA Marco ==
  ASSUME Tipos, config' = config
  PROVE  /\ config' \in Escenarios /\ Entrenador' = Entrenador /\ HiloMensaje' = HiloMensaje
         /\ cola_ready' = cola_ready => ColaTipo'
         /\ ubicados' = ubicados => UbicadosTipo'
         /\ sem' = sem => SemTipo'
         /\ hilos' = hilos => HilosTipo'
         /\ catches' = catches => CatchesTipo'
         /\ servicio' = servicio => ServicioTipo'
         /\ pendiente' = pendiente => PendienteTipo'
         /\ ent' = ent => EntTipo' /\ TratoHecho'
         /\ proceso_ejecutando' = proceso_ejecutando => proceso_ejecutando' \in ({0} \cup Entrenador)'
<1>1. config' \in Escenarios /\ Entrenador' = Entrenador /\ HiloMensaje' = HiloMensaje
  BY DEF Tipos, Entrenador, HiloMensaje
<1>2. \A m \in HiloMensaje : Mensaje(m)' = Mensaje(m)
  BY DEF Mensaje
<1>3. cola_ready' = cola_ready => ColaTipo'
  BY <1>1 DEF Tipos, ColaTipo
<1>4. ubicados' = ubicados => UbicadosTipo'
  BY <1>1 DEF Tipos, UbicadosTipo
<1>5. sem' = sem => SemTipo'
  BY <1>1 DEF Tipos, SemTipo
<1>6. hilos' = hilos => HilosTipo'
  BY <1>1, <1>2 DEF Tipos, HilosTipo
<1>7. catches' = catches => CatchesTipo'
  BY <1>1 DEF Tipos, CatchesTipo
<1>8. servicio' = servicio => ServicioTipo'
  BY <1>1 DEF Tipos, ServicioTipo
<1>9. pendiente' = pendiente => PendienteTipo'
  BY <1>1 DEF Tipos, PendienteTipo
<1>10. ent' = ent => EntTipo' /\ TratoHecho'
  BY <1>1 DEF Tipos, EntTipo, TratoHecho, Tratando
<1>11. proceso_ejecutando' = proceso_ejecutando => proceso_ejecutando' \in ({0} \cup Entrenador)'
  BY <1>1 DEF Tipos
<1> QED BY <1>1, <1>3, <1>4, <1>5, <1>6, <1>7, <1>8, <1>9, <1>10, <1>11

LEMMA MarcoCola ==
  ASSUME IInv, cola_ready' = cola_ready, sem'.con_items = sem.con_items,
         servicio'.planifica = servicio.planifica
  PROVE  ColaConItems'
BY DEF IInv, ColaConItems

\* A step of the trainers, that moves neither the queue nor what others keep.
LEMMA MarcoEnt ==
  ASSUME IInv, UNCHANGED <<config, cola_ready, ubicados, hilos, catches, servicio, pendiente, vivo>>,
         EntTipo', TratoHecho', SemTipo', sem'.con_items = sem.con_items,
         proceso_ejecutando' \in {0} \cup Entrenador, SinEntrar
  PROVE  IInv'
<1>1. Tipos
  BY DEF IInv
<1>2. UltimoSinRegistrar' /\ EsperaConRespuesta'
  BY MarcoEspera
<1>3. ColaConItems'
  BY MarcoCola
<1>4. Tipos'
  BY <1>1, Marco DEF Tipos
<1> QED BY <1>2, <1>3, <1>4 DEF IInv

\* What is known of one trainer.
LEMMA FichaDe ==
  ASSUME Tipos, NEW e \in Entrenador
  PROVE  /\ ent[e] \in Ficha(config) /\ ent[e].pokemones \in Listado
         /\ ent[e].destino # Nulo => /\ ent[e].destino \in Destinos
                                     /\ ent[e].destino.nombre \in Nombres
                                     /\ ent[e].destino.posicion \in Int
         /\ ent[e].posicion \in Int /\ ent[e].semaforo \in Nat /\ ent[e].movimientos \in 0..config.quantum
         /\ config.quantum \in Nat /\ e \in Nat
         /\ config.objetivo[e] \in Listado
<1>1. ent[e] \in Ficha(config)
  BY DEF Tipos, EntTipo
<1>2. config.quantum \in Nat /\ e \in Nat /\ config.objetivo[e] \in Listado
  BY EscenarioTipo DEF Tipos, Entrenador
<1>3. /\ ent[e].pokemones \in Listado /\ ent[e].destino \in Destinos \cup {Nulo}
      /\ ent[e].posicion \in Int /\ ent[e].semaforo \in Nat /\ ent[e].movimientos \in 0..config.quantum
  BY <1>1 DEF Ficha
<1>4. ent[e].destino # Nulo => /\ ent[e].destino \in Destinos
                               /\ ent[e].destino.nombre \in Nombres /\ ent[e].destino.posicion \in Int
  BY <1>3 DEF Destinos
<1> QED BY <1>1, <1>2, <1>3, <1>4

LEMMA SemDe ==
  ASSUME Tipos
  PROVE  /\ sem \in Semaforos /\ sem.con_items \in Nat /\ sem.en_exec \in Nat /\ sem.detectar \in Nat
         /\ sem.replanificar \in Nat /\ sem.sjfcd \in Nat /\ sem.exits \in Nat
BY DEF Tipos, SemTipo, Semaforos

LEMMA AvanzarTipo ==
  ASSUME Tipos, NEW e \in Entrenador, ent[e].destino # Nulo
  PROVE  Avanzar(e) \in Int
BY FichaDe DEF Avanzar

-----------------------------------------------------------------------------
(* The thread of a trainer *)

LEMMA CumplirObjetivoInv ==
  ASSUME IInv, NEW e \in Entrenador, CumplirObjetivo(e)
  PROVE  IInv'
<1>1. Tipos
  BY DEF IInv
<1>2. sumarizar_pokemones(ent[e].pokemones) \in Listado
  BY <1>1, FichaDe, SumarizarTipo
<1>3. EntTipo'
  BY <1>1, <1>2, FichaDe DEF Tipos, EntTipo, Ficha, Estados, Lugares, CumplirObjetivo, Entrenador
<1>4. TratoHecho' /\ SinEntrar
  BY <1>1, FichaDe DEF Tipos, EntTipo, Ficha, TratoHecho, Tratando, SinEntrar, CumplirObjetivo, Entrenador
<1>5. SemTipo' /\ sem'.con_items = sem.con_items
  <2> DEFINE x == sem.detectar + 1
             y == sem.exits + 1
  <2>1. x \in Nat /\ y \in Nat /\ sem \in Semaforos
    BY <1>1, SemDe
  <2>2. sem' = [sem EXCEPT !.detectar = x, !.exits = y]
    BY DEF CumplirObjetivo
  <2> HIDE DEF x, y
  <2> QED BY <2>1, <2>2 DEF SemTipo, Semaforos
<1>6. proceso_ejecutando' \in {0} \cup Entrenador
  BY <1>1 DEF Tipos, CumplirObjetivo
<1> QED BY <1>3, <1>4, <1>5, <1>6, MarcoEnt DEF CumplirObjetivo, colaVars, mensajesVars, capturaVars,
             deadlockVars

\* One trainer changes, and does not begin to wait nor to exchange.
LEMMA UnaFicha ==
  ASSUME Tipos, config' = config, NEW e \in Entrenador, NEW ficha \in Ficha(config),
         ficha.pc \notin {"registrar", "caught"} \cup Tratando, ent' = [ent EXCEPT ![e] = ficha]
  PROVE  EntTipo' /\ TratoHecho' /\ SinEntrar
<1>1. ent \in [Entrenador -> Ficha(config)] /\ Entrenador' = Entrenador
  BY DEF Tipos, EntTipo, Entrenador
<1>2. /\ ent' \in [Entrenador -> Ficha(config)]
      /\ \A f \in Entrenador : ent'[f] = IF f = e THEN ficha ELSE ent[f]
  BY <1>1
<1>3. EntTipo'
  BY <1>1, <1>2 DEF EntTipo
<1>4. \A f \in Entrenador : ent[f].semaforo \in Nat
  BY FichaDe
<1>5. TratoHecho'
  BY <1>1, <1>2 DEF Tipos, TratoHecho, Tratando
<1>6. SinEntrar
  BY <1>2, <1>4 DEF SinEntrar
<1> QED BY <1>3, <1>5, <1>6

LEMMA SegfaultInv ==
  ASSUME IInv, Segfault
  PROVE  IInv'
<1>1. Tipos
  BY DEF IInv
<1>2. UltimoSinRegistrar' /\ EsperaConRespuesta' /\ ColaConItems'
  BY DEF Segfault, IInv, UltimoSinRegistrar, ElUltimo, EsperaConRespuesta, ColaConItems, Entrenador
<1>3. Tipos'
  BY <1>1, Marco DEF Tipos, Segfault
<1> QED BY <1>2, <1>3 DEF IInv

LEMMA VolverAEsperarInv ==
  ASSUME IInv, NEW e \in Entrenador, VolverAEsperar(e)
  PROVE  IInv'
<1>1. Tipos
  BY DEF IInv
<1>2. sumarizar_pokemones(ent[e].pokemones) \in Listado
  BY <1>1, FichaDe, SumarizarTipo
<1>3. EntTipo'
  BY <1>1, <1>2, FichaDe DEF Tipos, EntTipo, Ficha, Estados, Lugares, VolverAEsperar, Entrenador
<1>4. TratoHecho' /\ SinEntrar
  BY <1>1, <1>2, FichaDe DEF Tipos, EntTipo, Ficha, TratoHecho, Tratando, SinEntrar, VolverAEsperar, Entrenador
<1>5. SemTipo' /\ sem'.con_items = sem.con_items
  BY <1>1 DEF Tipos, SemTipo, VolverAEsperar
<1>6. proceso_ejecutando' \in {0} \cup Entrenador
  BY <1>1 DEF Tipos, VolverAEsperar
<1> QED BY <1>3, <1>4, <1>5, <1>6, MarcoEnt DEF VolverAEsperar, colaVars, mensajesVars, capturaVars,
             deadlockVars

LEMMA DespertarInv ==
  ASSUME IInv, NEW e \in Entrenador, Despertar(e)
  PROVE  IInv'
<1>1. Tipos
  BY DEF IInv
<1> DEFINE movimientos ==
             IF algoritmo = "RR" /\ ent[e].destino # Nulo
             THEN Min({config.quantum, Distancia(ent[e].posicion, ent[e].destino.posicion)}) ELSE 0
<1>2. movimientos \in 0..config.quantum
  <2>1. CASE algoritmo = "RR" /\ ent[e].destino # Nulo
    <3> DEFINE q == config.quantum
               d == Distancia(ent[e].posicion, ent[e].destino.posicion)
    <3>1. q \in Nat /\ d \in Nat
      BY <1>1, <2>1, FichaDe DEF Distancia
    <3> HIDE DEF q, d
    <3>2. {q, d} \in SUBSET Nat /\ {q, d} # {}
      BY <3>1
    <3>3. Min({q, d}) \in {q, d} /\ Min({q, d}) <= q
      BY <3>2, MinDeNaturales
    <3>4. Min({q, d}) \in 0..q
      BY <3>1, <3>3
    <3>5. movimientos = Min({q, d})
      BY <2>1 DEF q, d
    <3> HIDE DEF movimientos
    <3> QED BY <3>4, <3>5 DEF q
  <2>2. CASE ~(algoritmo = "RR" /\ ent[e].destino # Nulo)
    <3>1. movimientos = 0
      BY <2>2
    <3> HIDE DEF movimientos
    <3> QED BY <1>1, <3>1, FichaDe
  <2> QED BY <2>1, <2>2
<1>a. ent' = [ent EXCEPT ![e].semaforo = @ - 1,
                         ![e].pc = IF ent[e].destino = Nulo THEN "vuelta" ELSE "mover",
                         ![e].movimientos = movimientos]
  BY DEF Despertar
<1>b. ent[e].semaforo - 1 \in Nat
  BY <1>1, FichaDe DEF Despertar
<1> HIDE DEF movimientos
<1>3. EntTipo'
  BY <1>1, <1>2, <1>a, <1>b, FichaDe DEF Tipos, EntTipo, Ficha, Estados, Lugares, Despertar, Entrenador
<1>4. TratoHecho' /\ SinEntrar
  BY <1>1, <1>2, <1>a, <1>b, FichaDe DEF Tipos, EntTipo, Ficha, TratoHecho, Tratando, SinEntrar, Despertar, Entrenador
<1>5. SemTipo' /\ sem'.con_items = sem.con_items
  BY <1>1 DEF Tipos, SemTipo, Despertar
<1>6. proceso_ejecutando' \in {0} \cup Entrenador
  BY <1>1 DEF Tipos, Despertar
<1> QED BY <1>3, <1>4, <1>5, <1>6, MarcoEnt DEF Despertar, colaVars, mensajesVars, capturaVars,
             deadlockVars

LEMMA ejecutaInv ==
  ASSUME IInv, NEW e \in Entrenador, ejecuta(e)
  PROVE  IInv'
<1>1. Tipos
  BY DEF IInv
<1>2. Avanzar(e) \in Int
  BY <1>1, AvanzarTipo DEF ejecuta
<1>a. algoritmo = "RR" => ent[e].movimientos - 1 \in 0..config.quantum
  BY <1>1, FichaDe DEF ejecuta
<1>3. EntTipo'
  BY <1>1, <1>2, <1>a, FichaDe DEF Tipos, EntTipo, Ficha, Estados, Lugares, ejecuta, Entrenador
<1>4. TratoHecho' /\ SinEntrar
  BY <1>1, <1>2, <1>a, FichaDe DEF Tipos, EntTipo, Ficha, TratoHecho, Tratando, SinEntrar, ejecuta, Entrenador
<1>5. SemTipo' /\ sem'.con_items = sem.con_items
  BY <1>1 DEF Tipos, SemTipo, ejecuta
<1>6. proceso_ejecutando' \in {0} \cup Entrenador
  BY <1>1 DEF Tipos, ejecuta
<1> QED BY <1>3, <1>4, <1>5, <1>6, MarcoEnt DEF ejecuta, colaVars, mensajesVars, capturaVars,
             deadlockVars

LEMMA PedirReplanificacionInv ==
  ASSUME IInv, NEW e \in Entrenador, PedirReplanificacion(e)
  PROVE  IInv'
<1>1. Tipos
  BY DEF IInv
<1>3. EntTipo'
  BY <1>1, FichaDe DEF Tipos, EntTipo, Ficha, Estados, Lugares, PedirReplanificacion, Entrenador
<1>4. TratoHecho' /\ SinEntrar
  BY <1>1, FichaDe DEF Tipos, EntTipo, Ficha, TratoHecho, Tratando, SinEntrar, PedirReplanificacion, Entrenador
<1>5. SemTipo' /\ sem'.con_items = sem.con_items
  <2> DEFINE x == sem.sjfcd + 1
  <2>1. x \in Nat /\ sem \in Semaforos
    BY <1>1, SemDe
  <2>2. sem' = [sem EXCEPT !.sjfcd = x]
    BY DEF PedirReplanificacion
  <2> HIDE DEF x
  <2> QED BY <2>1, <2>2 DEF SemTipo, Semaforos
<1>6. proceso_ejecutando' \in {0} \cup Entrenador
  BY <1>1 DEF Tipos, PedirReplanificacion
<1> QED BY <1>3, <1>4, <1>5, <1>6, MarcoEnt DEF PedirReplanificacion, colaVars, mensajesVars, capturaVars,
             deadlockVars

LEMMA SeguirODejarInv ==
  ASSUME IInv, NEW e \in Entrenador, SeguirODejar(e)
  PROVE  IInv'
<1>1. Tipos
  BY DEF IInv
<1>2. ent[e].estado = "EXEC" => Avanzar(e) \in Int
  BY <1>1, AvanzarTipo DEF SeguirODejar
<1>a. ent[e].semaforo - 1 \in Nat
  BY <1>1, FichaDe DEF SeguirODejar
<1>3. EntTipo'
  BY <1>1, <1>2, <1>a, FichaDe DEF Tipos, EntTipo, Ficha, Estados, Lugares, SeguirODejar, Entrenador
<1>4. TratoHecho' /\ SinEntrar
  BY <1>1, <1>2, <1>a, FichaDe DEF Tipos, EntTipo, Ficha, TratoHecho, Tratando, SinEntrar, SeguirODejar, Entrenador
<1>5. SemTipo' /\ sem'.con_items = sem.con_items
  BY <1>1 DEF Tipos, SemTipo, SeguirODejar
<1>6. proceso_ejecutando' \in {0} \cup Entrenador
  BY <1>1 DEF Tipos, SeguirODejar
<1> QED BY <1>3, <1>4, <1>5, <1>6, MarcoEnt DEF SeguirODejar, colaVars, mensajesVars, capturaVars,
             deadlockVars

LEMMA LlegarInv ==
  ASSUME IInv, NEW e \in Entrenador, Llegar(e)
  PROVE  IInv'
<1>1. Tipos
  BY DEF IInv
<1>3. EntTipo'
  BY <1>1, FichaDe DEF Tipos, EntTipo, Ficha, Estados, Lugares, Llegar, Entrenador
<1>4. TratoHecho' /\ SinEntrar
  BY <1>1, FichaDe DEF Tipos, EntTipo, Ficha, TratoHecho, Tratando, SinEntrar, Llegar, Entrenador
<1>5. SemTipo' /\ sem'.con_items = sem.con_items
  BY <1>1 DEF Tipos, SemTipo, Llegar
<1>6. proceso_ejecutando' \in {0} \cup Entrenador
  BY <1>1 DEF Tipos, Llegar
<1> QED BY <1>3, <1>4, <1>5, <1>6, MarcoEnt DEF Llegar, colaVars, mensajesVars, capturaVars,
             deadlockVars

LEMMA SalirDeExecInv ==
  ASSUME IInv, NEW e \in Entrenador, SalirDeExec(e)
  PROVE  IInv'
<1>1. Tipos
  BY DEF IInv
<1>3. EntTipo'
  BY <1>1, FichaDe DEF Tipos, EntTipo, Ficha, Estados, Lugares, SalirDeExec, Entrenador
<1>4. TratoHecho' /\ SinEntrar
  BY <1>1, FichaDe DEF Tipos, EntTipo, Ficha, TratoHecho, Tratando, SinEntrar, SalirDeExec, Entrenador
<1>5. SemTipo' /\ sem'.con_items = sem.con_items
  <2> DEFINE x == sem.en_exec + 1
  <2>1. x \in Nat /\ sem \in Semaforos
    BY <1>1, SemDe
  <2>2. sem' = [sem EXCEPT !.en_exec = x]
    BY DEF SalirDeExec
  <2> HIDE DEF x
  <2> QED BY <2>1, <2>2 DEF SemTipo, Semaforos
<1>6. proceso_ejecutando' \in {0} \cup Entrenador
  BY <1>1 DEF Tipos, SalirDeExec
<1> QED BY <1>3, <1>4, <1>5, <1>6, MarcoEnt DEF SalirDeExec, colaVars, mensajesVars, capturaVars,
             deadlockVars

LEMMA CapturarSinBrokerInv ==
  ASSUME IInv, NEW e \in Entrenador, CapturarSinBroker(e)
  PROVE  IInv'
<1>1. Tipos
  BY DEF IInv
<1> DEFINE lista == Append(ent[e].pokemones, get_pokemon(ent[e].destino.nombre))
           ficha == [ent[e] EXCEPT !.pokemones = lista, !.destino = Nulo, !.ocupado = FALSE,
                                   !.estimado = TRUE, !.pc = "evaluar"]
<1>2. ficha \in Ficha(config) /\ ficha.pc \notin {"registrar", "caught"} \cup Tratando
  <2>1. lista \in Listado
    BY <1>1, FichaDe, AgregarTipo DEF CapturarSinBroker
  <2>9. ent[e] \in Ficha(config)
    BY <1>1, FichaDe
  <2> HIDE DEF lista
  <2> QED BY <2>9, <2>1 DEF Ficha, Estados, Lugares, Tratando
<1>3. ent' = [ent EXCEPT ![e] = ficha]
  BY DEF CapturarSinBroker
<1> HIDE DEF ficha
<1>4. EntTipo' /\ TratoHecho' /\ SinEntrar
  BY <1>1, <1>2, <1>3, UnaFicha DEF CapturarSinBroker
<1>5. SemTipo' /\ sem'.con_items = sem.con_items
  BY <1>1 DEF Tipos, SemTipo, CapturarSinBroker
<1>6. proceso_ejecutando' \in {0} \cup Entrenador
  BY <1>1 DEF Tipos, CapturarSinBroker
<1> QED BY <1>4, <1>5, <1>6, MarcoEnt DEF CapturarSinBroker, colaVars, mensajesVars, capturaVars,
             deadlockVars

LEMMA EsperarCaughtInv ==
  ASSUME IInv, NEW e \in Entrenador, EsperarCaught(e)
  PROVE  IInv'
<1>1. Tipos
  BY DEF IInv
<1>2. ent[e].semaforo - 1 \in Nat
  BY <1>1, FichaDe DEF EsperarCaught
<1>3. EntTipo'
  BY <1>1, <1>2, FichaDe DEF Tipos, EntTipo, Ficha, Estados, Lugares, EsperarCaught, Entrenador
<1>4. TratoHecho' /\ SinEntrar
  BY <1>1, <1>2, FichaDe DEF Tipos, EntTipo, Ficha, TratoHecho, Tratando, SinEntrar, EsperarCaught, Entrenador
<1>5. SemTipo' /\ sem'.con_items = sem.con_items
  BY <1>1 DEF Tipos, SemTipo, EsperarCaught
<1>6. proceso_ejecutando' \in {0} \cup Entrenador
  BY <1>1 DEF Tipos, EsperarCaught
<1> QED BY <1>3, <1>4, <1>5, <1>6, MarcoEnt DEF EsperarCaught, colaVars, mensajesVars, capturaVars,
             deadlockVars

LEMMA EvaluarInv ==
  ASSUME IInv, NEW e \in Entrenador, Evaluar(e)
  PROVE  IInv'
<1>1. Tipos
  BY DEF IInv
<1>2. sumarizar_pokemones(ent[e].pokemones) \in Listado
  BY <1>1, FichaDe, SumarizarTipo
<1>3. EntTipo'
  BY <1>1, <1>2, FichaDe DEF Tipos, EntTipo, Ficha, Estados, Lugares, Evaluar, Entrenador
<1>4. TratoHecho' /\ SinEntrar
  BY <1>1, <1>2, FichaDe DEF Tipos, EntTipo, Ficha, TratoHecho, Tratando, SinEntrar, Evaluar, Entrenador
<1>5. SemTipo' /\ sem'.con_items = sem.con_items
  <2> DEFINE x == IF ~CumplioObjetivo(e) /\ PuedeCapturar(e) THEN sem.replanificar + 1 ELSE sem.replanificar
             y == IF ~CumplioObjetivo(e) /\ ~PuedeCapturar(e) THEN sem.detectar + 1 ELSE sem.detectar
  <2>1. x \in Nat /\ y \in Nat /\ sem \in Semaforos
    BY <1>1, SemDe DEF Evaluar
  <2>2. sem' = [sem EXCEPT !.replanificar = x, !.detectar = y]
    BY DEF Evaluar
  <2> HIDE DEF x, y
  <2> QED BY <2>1, <2>2 DEF SemTipo, Semaforos
<1>6. proceso_ejecutando' \in {0} \cup Entrenador
  BY <1>1 DEF Tipos, Evaluar
<1> QED BY <1>3, <1>4, <1>5, <1>6, MarcoEnt DEF Evaluar, colaVars, mensajesVars, capturaVars,
             deadlockVars

-----------------------------------------------------------------------------
(* The exchange *)

\* Two trainers change; the second keeps its place and no token of it is lost.
LEMMA DosFichas ==
  ASSUME Tipos, config' = config, NEW e \in Entrenador, NEW f \in Entrenador, e # f,
         NEW fe \in Ficha(config), NEW ff \in Ficha(config),
         fe.pc \notin {"registrar", "caught"},
         fe.pc \in Tratando => /\ fe.trato.con \in Entrenador \ {e}
                               /\ fe.trato.queme_sirve \in Nombres
                               /\ fe.trato.quele_sirve \in Nombres,
         ff.pc = ent[f].pc, ff.trato = ent[f].trato, ff.semaforo >= ent[f].semaforo,
         \A g \in Entrenador : ent'[g] = IF g = e THEN fe ELSE IF g = f THEN ff ELSE ent[g],
         ent' = [g \in Entrenador |-> ent'[g]]
  PROVE  EntTipo' /\ TratoHecho' /\ SinEntrar
<1>1. ent \in [Entrenador -> Ficha(config)] /\ Entrenador' = Entrenador
  BY DEF Tipos, EntTipo, Entrenador
<1>2. ent' \in [Entrenador -> Ficha(config)]
  BY <1>1
<1>3. EntTipo'
  BY <1>1, <1>2 DEF EntTipo
<1>4. \A g \in Entrenador : ent[g].semaforo \in Nat
  BY FichaDe
<1>5. TratoHecho'
  BY <1>1 DEF Tipos, TratoHecho, Tratando
<1>6. SinEntrar
  BY <1>4 DEF SinEntrar
<1> QED BY <1>3, <1>5, <1>6

LEMMA OtroTipo ==
  ASSUME Tipos, NEW e \in Entrenador, get_entrenador_intercambio(e) # 0
  PROVE  get_entrenador_intercambio(e) \in Entrenador \ {e}
<1> DEFINE sirven == {f \in Entrenador \ {e} :
                        /\ ent[f].posicion = ent[e].posicion
                        /\ pokemon_que_sirve_intercambio(config.objetivo[e], ent[f].pokemones,
                                                         config.objetivo[f]) # <<>>}
<1>1. get_entrenador_intercambio(e) = IF sirven = {} THEN 0 ELSE Min(sirven)
  BY DEF get_entrenador_intercambio
<1>2. sirven \subseteq Entrenador \ {e} /\ sirven \in SUBSET Nat
  BY FichaDe
<1> HIDE DEF sirven
<1> QED BY <1>1, <1>2, MinDeNaturales

LEMMA ProponerIntercambioInv ==
  ASSUME IInv, NEW e \in Entrenador, ProponerIntercambio(e)
  PROVE  IInv'
<1>1. Tipos
  BY DEF IInv
<1> DEFINE f == get_entrenador_intercambio(e)
           nada == Ofrecido(e, f) = <<>>
           sinTrato == nada \/ ent[e].destino = Nulo
           trato == IF sinTrato THEN SinTrato
                    ELSE [con |-> f, queme_sirve |-> ent[e].destino.nombre,
                          quele_sirve |-> Ofrecido(e, f)[1].nombre]
           lugar == IF sinTrato THEN "detectar" ELSE "ciclos"
           destino == IF nada THEN Nulo
                      ELSE get_pokemon_team(Ofrecido(e, f)[1].nombre, 0, ent[e].posicion)
           fe == [ent[e] EXCEPT !.pc = lugar, !.trato = trato]
           ff == [ent[f] EXCEPT !.ocupado = TRUE, !.destino = destino]
<1>2. f \in Entrenador /\ f # e
  BY <1>1, OtroTipo DEF ProponerIntercambio
<1>3. ent' = [ent EXCEPT ![e].pc = lugar, ![e].trato = trato, ![f].ocupado = TRUE, ![f].destino = destino]
  BY DEF ProponerIntercambio
<1>4. /\ UNCHANGED <<config, cola_ready, ubicados, hilos, catches, servicio, pendiente, vivo, sem>>
      /\ UNCHANGED proceso_ejecutando
  BY DEF ProponerIntercambio, colaVars, mensajesVars, capturaVars, deadlockVars
<1>5. ~nada => Ofrecido(e, f)[1].nombre \in Nombres
  <2>1. Ofrecido(e, f) \in Listado
    BY <1>1, <1>2, FichaDe, OfrecidoTipo DEF Ofrecido
  <2> HIDE DEF f
  <2> QED BY <2>1, PrimeroTipo
<1>6. destino \in Destinos \cup {Nulo}
  <2>1. ent[e].posicion \in Int
    BY <1>1, FichaDe
  <2> HIDE DEF f
  <2> QED BY <1>5, <2>1 DEF Destinos, get_pokemon_team
<1>7. ~sinTrato => ent[e].destino.nombre \in Nombres
  BY <1>1, FichaDe
<1>8. /\ trato \in [con : {0} \cup DOMAIN config.objetivo, queme_sirve : Nombres \cup {Nulo},
                    quele_sirve : Nombres \cup {Nulo}]
      /\ ~sinTrato => trato.con = f /\ trato.queme_sirve \in Nombres /\ trato.quele_sirve \in Nombres
  <2> HIDE DEF f
  <2> QED BY <1>2, <1>5, <1>7 DEF SinTrato, Entrenador
<1>9. lugar \in Lugares /\ lugar \notin {"registrar", "caught"} /\ (lugar \in Tratando <=> ~sinTrato)
  <2> HIDE DEF sinTrato
  <2> QED BY DEF Lugares, Tratando
<1> HIDE DEF f, trato, destino, lugar, sinTrato
<1>10. ent[e] \in Ficha(config) /\ ent[f] \in Ficha(config) /\ ent \in [Entrenador -> Ficha(config)]
  BY <1>1, <1>2, FichaDe DEF Tipos, EntTipo
<1>11. fe \in Ficha(config) /\ fe.pc = lugar /\ fe.trato = trato
  BY <1>8, <1>9, <1>10 DEF Ficha
<1>12. /\ ff \in Ficha(config) /\ ff.pc = ent[f].pc /\ ff.trato = ent[f].trato
       /\ ff.semaforo = ent[f].semaforo /\ ent[f].semaforo \in Nat
  BY <1>6, <1>10 DEF Ficha
<1>13. /\ \A g \in Entrenador : ent'[g] = IF g = e THEN fe ELSE IF g = f THEN ff ELSE ent[g]
       /\ ent' = [g \in Entrenador |-> ent'[g]]
  <2>1. ent' = [g \in Entrenador |-> ent'[g]]
    BY <1>3, <1>10
  <2>2. ent'[e] = fe
    BY <1>2, <1>3, <1>10
  <2>3. ent'[f] = ff
    BY <1>2, <1>3, <1>10
  <2>4. \A g \in Entrenador : (g # e /\ g # f) => ent'[g] = ent[g]
    BY <1>2, <1>3, <1>10
  <2> HIDE DEF fe, ff
  <2> QED BY <2>1, <2>2, <2>3, <2>4
<1> HIDE DEF fe, ff
<1>14. ff.semaforo >= ent[f].semaforo
  BY <1>12
<1>15. EntTipo' /\ TratoHecho' /\ SinEntrar
  BY <1>1, <1>2, <1>4, <1>8, <1>9, <1>11, <1>12, <1>13, <1>14, DosFichas
<1>16. SemTipo' /\ sem'.con_items = sem.con_items /\ proceso_ejecutando' \in {0} \cup Entrenador
  BY <1>1, <1>4 DEF Tipos, SemTipo
<1> QED BY <1>4, <1>15, <1>16, MarcoEnt

LEMMA TratoDe ==
  ASSUME Tipos, NEW e \in Entrenador, ent[e].pc \in Tratando
  PROVE  /\ Otro(e) \in Entrenador /\ Otro(e) # e /\ ent \in [Entrenador -> Ficha(config)]
         /\ queme_sirve(e) \in Nombres /\ quele_sirve(e) \in Nombres
         /\ ent[e] \in Ficha(config) /\ ent[Otro(e)] \in Ficha(config)
<1>1. Otro(e) \in Entrenador \ {e} /\ queme_sirve(e) \in Nombres /\ quele_sirve(e) \in Nombres
  BY DEF Tipos, TratoHecho, Otro, queme_sirve, quele_sirve
<1> QED BY <1>1 DEF Tipos, EntTipo

\* A step of an exchange: it goes on as it was agreed, or is over.
LEMMA TratoInv ==
  ASSUME IInv, NEW e \in Entrenador, ent[e].pc \in Tratando,
         NEW fe \in Ficha(config), NEW ff \in Ficha(config),
         fe.pc \notin {"registrar", "caught"}, fe.pc \in Tratando => fe.trato = ent[e].trato,
         ff.pc = ent[Otro(e)].pc, ff.trato = ent[Otro(e)].trato,
         ff.semaforo >= ent[Otro(e)].semaforo,
         ent' = [ent EXCEPT ![e] = fe, ![Otro(e)] = ff], UNCHANGED intercambioVars
  PROVE  IInv'
<1> DEFINE f == Otro(e)
<1>1. Tipos
  BY DEF IInv
<1>2. /\ f \in Entrenador /\ f # e /\ ent \in [Entrenador -> Ficha(config)]
      /\ queme_sirve(e) \in Nombres /\ quele_sirve(e) \in Nombres
  BY <1>1, TratoDe
<1>3. /\ UNCHANGED <<config, cola_ready, ubicados, hilos, catches, servicio, pendiente, vivo, sem>>
      /\ UNCHANGED proceso_ejecutando
  BY DEF intercambioVars, colaVars, mensajesVars, capturaVars, deadlockVars
<1>4. fe.pc \in Tratando => /\ fe.trato.con \in Entrenador \ {e}
                            /\ fe.trato.queme_sirve \in Nombres /\ fe.trato.quele_sirve \in Nombres
  BY <1>2 DEF Otro, queme_sirve, quele_sirve
<1>5. /\ \A g \in Entrenador : ent'[g] = IF g = e THEN fe ELSE IF g = f THEN ff ELSE ent[g]
      /\ ent' = [g \in Entrenador |-> ent'[g]]
  BY <1>2
<1>6. ff.pc = ent[f].pc /\ ff.trato = ent[f].trato /\ ff.semaforo >= ent[f].semaforo
  OBVIOUS
<1> HIDE DEF f
<1>7. e \in Entrenador /\ f \in Entrenador /\ e # f /\ config' = config
  BY <1>2, <1>3
<1>8. EntTipo' /\ TratoHecho' /\ SinEntrar
  BY ONLY <1>1, <1>4, <1>5, <1>6, <1>7, DosFichas, fe \in Ficha(config), ff \in Ficha(config),
          fe.pc \notin {"registrar", "caught"}
<1>9. SemTipo' /\ sem'.con_items = sem.con_items /\ proceso_ejecutando' \in {0} \cup Entrenador
  BY <1>1, <1>3 DEF Tipos, SemTipo
<1> QED BY <1>3, <1>8, <1>9, MarcoEnt

LEMMA RecibirPokemonInv ==
  ASSUME IInv, NEW e \in Entrenador, RecibirPokemon(e)
  PROVE  IInv'
<1>1. Tipos /\ ent[e].pc \in Tratando
  BY DEF IInv, Tratando, RecibirPokemon
<1> DEFINE f == Otro(e)
           l == Append(ent[e].pokemones, Entregado(queme_sirve(e), ent[f].pokemones))
           fe == [ent[e] EXCEPT !.pc = "recibido", !.pokemones = l]
<1>2. /\ f \in Entrenador /\ f # e /\ ent \in [Entrenador -> Ficha(config)]
      /\ queme_sirve(e) \in Nombres
      /\ ent[e] \in Ficha(config) /\ ent[f] \in Ficha(config)
  BY <1>1, TratoDe
<1>3. l \in Listado
  BY <1>1, <1>2, FichaDe, EntregarTipo
<1>4. ent' = [ent EXCEPT ![e].pc = "recibido", ![e].pokemones = l] /\ UNCHANGED intercambioVars
  BY DEF RecibirPokemon
<1> HIDE DEF f, l
<1>5. ent' = [ent EXCEPT ![e] = fe, ![f] = ent[f]]
  BY <1>2, <1>4
<1>6. fe \in Ficha(config) /\ fe.pc = "recibido" /\ fe.trato = ent[e].trato
  BY <1>2, <1>3 DEF Ficha, Lugares
<1>7. ent[f].semaforo >= ent[f].semaforo
  BY <1>1, <1>2, FichaDe
<1> HIDE DEF fe
<1> QED BY <1>1, <1>2, <1>4, <1>5, <1>6, <1>7, TratoInv DEF f

LEMMA QuitarAlOtroInv ==
  ASSUME IInv, NEW e \in Entrenador, QuitarAlOtro(e)
  PROVE  IInv'
<1>1. Tipos /\ ent[e].pc \in Tratando
  BY DEF IInv, Tratando, QuitarAlOtro
<1> DEFINE f == Otro(e)
           l == remove_pokemon_by_nombre(queme_sirve(e), ent[f].pokemones)
           fe == [ent[e] EXCEPT !.pc = "entregar", !.destino = Nulo]
           ff == [ent[f] EXCEPT !.pokemones = l]
<1>2. /\ f \in Entrenador /\ f # e /\ ent \in [Entrenador -> Ficha(config)]
      /\ ent[e] \in Ficha(config) /\ ent[f] \in Ficha(config)
  BY <1>1, TratoDe
<1>3. l \in Listado
  BY <1>1, <1>2, FichaDe, QuitarTipo
<1>4. /\ ent' = [ent EXCEPT ![e].pc = "entregar", ![e].destino = Nulo,
                            ![f].pokemones = remove_pokemon_by_nombre(queme_sirve(e), @)]
      /\ UNCHANGED intercambioVars
  BY DEF QuitarAlOtro
<1>5. ent' = [ent EXCEPT ![e] = fe, ![f] = ff]
  <2> HIDE DEF f
  <2> QED BY <1>2, <1>4
<1> HIDE DEF f, l
<1>6. fe \in Ficha(config) /\ fe.pc = "entregar" /\ fe.trato = ent[e].trato
  BY <1>2 DEF Ficha, Lugares
<1>7. /\ ff \in Ficha(config) /\ ff.pc = ent[f].pc /\ ff.trato = ent[f].trato
      /\ ff.semaforo = ent[f].semaforo /\ ent[f].semaforo \in Nat
  BY <1>2, <1>3 DEF Ficha
<1> HIDE DEF fe, ff
<1>8. ff.semaforo >= ent[f].semaforo
  BY <1>7
<1> QED BY <1>1, <1>2, <1>4, <1>5, <1>6, <1>7, <1>8, TratoInv DEF f

LEMMA EntregarPokemonInv ==
  ASSUME IInv, NEW e \in Entrenador, EntregarPokemon(e)
  PROVE  IInv'
<1>1. Tipos /\ ent[e].pc \in Tratando
  BY DEF IInv, Tratando, EntregarPokemon
<1> DEFINE f == Otro(e)
           p == ent[f].destino
           x == IF p.nombre = quele_sirve(e) THEN Entregado(p.nombre, ent[e].pokemones)
                ELSE get_pokemon(p.nombre)
           l == Append(ent[f].pokemones, x)
           fe == [ent[e] EXCEPT !.pc = "entregado"]
           ff == [ent[f] EXCEPT !.pokemones = l]
<1>2. /\ f \in Entrenador /\ f # e /\ ent \in [Entrenador -> Ficha(config)]
      /\ ent[e] \in Ficha(config) /\ ent[f] \in Ficha(config)
  BY <1>1, TratoDe
<1>3. l \in Listado
  <2>1. p.nombre \in Nombres /\ ent[f].pokemones \in Listado /\ ent[e].pokemones \in Listado
    BY <1>1, <1>2, FichaDe DEF EntregarPokemon
  <2> HIDE DEF f, p
  <2> QED BY <2>1, EntregarTipo, AgregarTipo
<1>4. /\ ent' = [ent EXCEPT ![e].pc = "entregado", ![f].pokemones = Append(@, x)]
      /\ UNCHANGED intercambioVars
  BY DEF EntregarPokemon
<1>5. ent' = [ent EXCEPT ![e] = fe, ![f] = ff]
  <2> HIDE DEF f, x
  <2> QED BY <1>2, <1>4
<1> HIDE DEF f, l
<1>6. fe \in Ficha(config) /\ fe.pc = "entregado" /\ fe.trato = ent[e].trato
  BY <1>2 DEF Ficha, Lugares
<1>7. /\ ff \in Ficha(config) /\ ff.pc = ent[f].pc /\ ff.trato = ent[f].trato
      /\ ff.semaforo = ent[f].semaforo /\ ent[f].semaforo \in Nat
  BY <1>2, <1>3 DEF Ficha
<1> HIDE DEF fe, ff
<1>8. ff.semaforo >= ent[f].semaforo
  BY <1>7
<1> QED BY <1>1, <1>2, <1>4, <1>5, <1>6, <1>7, <1>8, TratoInv DEF f

LEMMA QuitarLoEntregadoInv ==
  ASSUME IInv, NEW e \in Entrenador, QuitarLoEntregado(e)
  PROVE  IInv'
<1>1. Tipos /\ ent[e].pc \in Tratando
  BY DEF IInv, Tratando, QuitarLoEntregado
<1> DEFINE f == Otro(e)
           l == remove_pokemon_by_nombre(quele_sirve(e), ent[e].pokemones)
           fe == [ent[e] EXCEPT !.pc = "liberar", !.pokemones = l]
           ff == [ent[f] EXCEPT !.destino = Nulo]
<1>2. /\ f \in Entrenador /\ f # e /\ ent \in [Entrenador -> Ficha(config)]
      /\ ent[e] \in Ficha(config) /\ ent[f] \in Ficha(config)
  BY <1>1, TratoDe
<1>3. l \in Listado
  BY <1>1, FichaDe, QuitarTipo
<1>4. /\ ent' = [ent EXCEPT ![e].pc = "liberar", ![e].pokemones = l, ![f].destino = Nulo]
      /\ UNCHANGED intercambioVars
  BY DEF QuitarLoEntregado
<1> HIDE DEF f, l
<1>5. ent' = [ent EXCEPT ![e] = fe, ![f] = ff]
  BY <1>2, <1>4
<1>6. fe \in Ficha(config) /\ fe.pc = "liberar" /\ fe.trato = ent[e].trato
  BY <1>2, <1>3 DEF Ficha, Lugares
<1>7. /\ ff \in Ficha(config) /\ ff.pc = ent[f].pc /\ ff.trato = ent[f].trato
      /\ ff.semaforo = ent[f].semaforo /\ ent[f].semaforo \in Nat
  BY <1>2 DEF Ficha
<1> HIDE DEF fe, ff
<1>8. ff.semaforo >= ent[f].semaforo
  BY <1>7
<1> QED BY <1>1, <1>2, <1>4, <1>5, <1>6, <1>7, <1>8, TratoInv DEF f

LEMMA LiberarEntrenadorInv ==
  ASSUME IInv, NEW e \in Entrenador, LiberarEntrenador(e)
  PROVE  IInv'
<1>1. Tipos /\ ent[e].pc \in Tratando
  BY DEF IInv, Tratando, LiberarEntrenador
<1> DEFINE f == Otro(e)
           le == IF TRUE /\ Libre(e) THEN sumarizar_pokemones(ent[e].pokemones) ELSE ent[e].pokemones
           lf == IF esta_en_deadlock(e) /\ Libre(f) THEN sumarizar_pokemones(ent[f].pokemones)
                 ELSE ent[f].pokemones
           fe == [ent[e] EXCEPT !.pc = "liberarOtro", !.estado = "BLOCKED", !.ocupado = FALSE,
                                !.pokemones = le]
           ff == [ent[f] EXCEPT !.pokemones = lf]
<1>2. /\ f \in Entrenador /\ f # e /\ ent \in [Entrenador -> Ficha(config)]
      /\ ent[e] \in Ficha(config) /\ ent[f] \in Ficha(config)
  BY <1>1, TratoDe
<1>3. le \in Listado /\ lf \in Listado
  BY <1>1, <1>2, FichaDe, SumarizarTipo
<1>4. /\ ent' = [ent EXCEPT ![e].pc = "liberarOtro", ![e].estado = "BLOCKED", ![e].ocupado = FALSE,
                            ![e].pokemones = le, ![f].pokemones = lf]
      /\ UNCHANGED intercambioVars
  BY DEF LiberarEntrenador
<1> HIDE DEF f, le, lf
<1>5. ent' = [ent EXCEPT ![e] = fe, ![f] = ff]
  BY <1>2, <1>4
<1>6. fe \in Ficha(config) /\ fe.pc = "liberarOtro" /\ fe.trato = ent[e].trato
  BY <1>2, <1>3 DEF Ficha, Lugares, Estados
<1>7. /\ ff \in Ficha(config) /\ ff.pc = ent[f].pc /\ ff.trato = ent[f].trato
      /\ ff.semaforo = ent[f].semaforo /\ ent[f].semaforo \in Nat
  BY <1>2, <1>3 DEF Ficha
<1> HIDE DEF fe, ff
<1>8. ff.semaforo >= ent[f].semaforo
  BY <1>7
<1> QED BY <1>1, <1>2, <1>4, <1>5, <1>6, <1>7, <1>8, TratoInv DEF f

LEMMA LiberarAlOtroInv ==
  ASSUME IInv, NEW e \in Entrenador, LiberarAlOtro(e)
  PROVE  IInv'
<1>1. Tipos /\ ent[e].pc \in Tratando
  BY DEF IInv, Tratando, LiberarAlOtro
<1> DEFINE f == Otro(e)
           se == ent[e].semaforo + 1
           sf == ent[f].semaforo + 1
           fe == [ent[e] EXCEPT !.pc = "detectar", !.trato = SinTrato, !.semaforo = se]
           ff == [ent[f] EXCEPT !.estado = "BLOCKED", !.ocupado = FALSE, !.semaforo = sf]
<1>2. /\ f \in Entrenador /\ f # e /\ ent \in [Entrenador -> Ficha(config)]
      /\ ent[e] \in Ficha(config) /\ ent[f] \in Ficha(config)
  BY <1>1, TratoDe
<1>3. se \in Nat /\ sf \in Nat /\ sf >= ent[f].semaforo
  BY <1>1, <1>2, FichaDe
<1>4. /\ ent' = [ent EXCEPT ![e].pc = "detectar", ![e].trato = SinTrato, ![e].semaforo = @ + 1,
                            ![f].estado = "BLOCKED", ![f].ocupado = FALSE, ![f].semaforo = @ + 1]
      /\ UNCHANGED intercambioVars
  BY DEF LiberarAlOtro
<1>5. ent' = [ent EXCEPT ![e] = fe, ![f] = ff]
  <2> HIDE DEF f
  <2> QED BY <1>2, <1>4
<1> HIDE DEF f, se, sf
<1>6. fe \in Ficha(config) /\ fe.pc = "detectar"
  BY <1>2, <1>3 DEF Ficha, Lugares, SinTrato
<1>7. /\ ff \in Ficha(config) /\ ff.pc = ent[f].pc /\ ff.trato = ent[f].trato /\ ff.semaforo = sf
  BY <1>2, <1>3 DEF Ficha, Estados
<1> HIDE DEF fe, ff
<1>8. fe.pc \notin {"registrar", "caught"} /\ fe.pc \notin Tratando
  BY <1>6 DEF Tratando
<1>9. ff.semaforo >= ent[f].semaforo
  BY <1>3, <1>7
<1> QED BY <1>1, <1>2, <1>4, <1>5, <1>6, <1>7, <1>8, <1>9, TratoInv DEF f

\* Of some numbers, one is the least.
LEMMA MasCercaHay ==
  ASSUME NEW S, NEW d \in [S -> Nat], S # {}
  PROVE  \E k \in S : \A j \in S : d[k] <= d[j]
<1> DEFINE V == {d[k] : k \in S}
<1>1. V \in SUBSET Nat /\ V # {}
  OBVIOUS
<1>2. Min(V) \in V /\ \A y \in V : Min(V) <= y
  <2> HIDE DEF V
  <2> QED BY <1>1, MinDeNaturales
<1>3. PICK k \in S : d[k] = Min(V)
  BY <1>2
<1> HIDE DEF V
<1>4. \A j \in S : d[j] \in V
  BY DEF V
<1> QED BY <1>2, <1>3, <1>4

-----------------------------------------------------------------------------
(* The ready queue and its semaphore *)

\* One trainer changes, but neither its place nor its exchange, and loses no token.
LEMMA FichaQuieta ==
  ASSUME Tipos, config' = config, NEW e \in Entrenador, NEW ficha \in Ficha(config),
         ficha.pc = ent[e].pc, ficha.trato = ent[e].trato, ficha.semaforo >= ent[e].semaforo,
         ent' = [ent EXCEPT ![e] = ficha]
  PROVE  EntTipo' /\ TratoHecho' /\ SinEntrar
<1>1. ent \in [Entrenador -> Ficha(config)] /\ Entrenador' = Entrenador
  BY DEF Tipos, EntTipo, Entrenador
<1>2. /\ ent' \in [Entrenador -> Ficha(config)]
      /\ \A f \in Entrenador : ent'[f] = IF f = e THEN ficha ELSE ent[f]
  BY <1>1
<1>3. EntTipo'
  BY <1>1, <1>2 DEF EntTipo
<1>4. \A f \in Entrenador : ent[f].semaforo \in Nat
  BY FichaDe
<1>5. TratoHecho'
  BY <1>1, <1>2 DEF Tipos, TratoHecho, Tratando
<1>6. SinEntrar
  BY <1>2, <1>4 DEF SinEntrar
<1> QED BY <1>3, <1>5, <1>6

LEMMA EntIgual ==
  ASSUME Tipos, config' = config, ent' = ent
  PROVE  EntTipo' /\ TratoHecho' /\ SinEntrar
<1>1. \A e \in Entrenador : ent[e].semaforo \in Nat
  BY FichaDe
<1>2. SinEntrar
  BY <1>1 DEF SinEntrar
<1> QED BY <1>2, Marco

\* The parts of the invariant, put together again after a step that leaves the
\* CATCH alone.
LEMMA MarcoSinCatch ==
  ASSUME IInv, UNCHANGED <<config, catches, vivo>>, EntTipo', TratoHecho', SinEntrar,
         ColaTipo', UbicadosTipo', SemTipo', HilosTipo', ServicioTipo', PendienteTipo',
         proceso_ejecutando' = proceso_ejecutando, ColaConItems'
  PROVE  IInv'
<1>1. Tipos
  BY DEF IInv
<1>2. UltimoSinRegistrar' /\ EsperaConRespuesta'
  BY MarcoEspera
<1>3. Tipos'
  BY <1>1, Marco DEF Tipos
<1> QED BY <1>2, <1>3 DEF IInv

\* A post of s_cola_ready_con_items with a trainer behind it.
LEMMA AnotarItem ==
  ASSUME IInv, config' = config, NEW e \in Entrenador, cola_ready' = Append(cola_ready, e),
         sem'.con_items = sem.con_items + 1, servicio'.planifica = servicio.planifica
  PROVE  ColaTipo' /\ ColaConItems'
<1>1. cola_ready \in Seq(Entrenador) /\ Entrenador' = Entrenador /\ sem.con_items \in Nat
  BY SemDe DEF IInv, Tipos, ColaTipo, Entrenador
<1>2. cola_ready' \in Seq(Entrenador) /\ Len(cola_ready') = Len(cola_ready) + 1 /\ Len(cola_ready) \in Nat
  BY <1>1
<1>3. ColaConItems'
  BY <1>1, <1>2 DEF IInv, ColaConItems
<1> QED BY <1>1, <1>2, <1>3 DEF ColaTipo

LEMMA EncolarInv ==
  ASSUME IInv, config' = config, NEW e \in Entrenador, NEW cambios, Encolar(e, cambios),
         servicio'.planifica = servicio.planifica
  PROVE  ColaTipo' /\ ColaConItems' /\ SemTipo'
<1>1. sem \in Semaforos /\ sem.con_items \in Nat
  BY SemDe DEF IInv
<1> DEFINE x == sem.con_items + 1
<1>2. x \in Nat /\ sem' = [sem EXCEPT !.con_items = x]
  BY <1>1 DEF Encolar
<1> HIDE DEF x
<1>3. sem' \in Semaforos /\ sem'.con_items = x
  BY <1>1, <1>2 DEF Semaforos
<1>4. sem'.con_items = sem.con_items + 1
  BY <1>3 DEF x
<1> QED BY <1>3, <1>4, AnotarItem DEF Encolar, SemTipo

LEMMA TerminarQuantumInv ==
  ASSUME IInv, NEW e \in Entrenador, TerminarQuantum(e)
  PROVE  IInv'
<1>1. Tipos
  BY DEF IInv
<1> DEFINE ficha == [ent[e] EXCEPT !.estado = "READY", !.pc = "vuelta"]
           x == sem.con_items + 1
           y == sem.en_exec + 1
<1>2. ficha \in Ficha(config) /\ ficha.pc = "vuelta"
  BY <1>1, FichaDe DEF Ficha, Estados, Lugares
<1>3. ent' = [ent EXCEPT ![e] = ficha]
  <2>1. ent' = [ent EXCEPT ![e].estado = "READY", ![e].pc = "vuelta"]
    BY DEF TerminarQuantum
  <2>2. ent \in [Entrenador -> Ficha(config)]
    BY <1>1 DEF Tipos, EntTipo
  <2> HIDE DEF x, y
  <2> QED BY <2>1, <2>2
<1> HIDE DEF ficha
<1>4. EntTipo' /\ TratoHecho' /\ SinEntrar
  BY <1>1, <1>2, <1>3, UnaFicha DEF TerminarQuantum, Tratando
<1>5. SemTipo' /\ sem'.con_items = sem.con_items + 1
  <2>1. x \in Nat /\ y \in Nat /\ sem \in Semaforos
    BY <1>1, SemDe
  <2>2. sem' = [sem EXCEPT !.con_items = x, !.en_exec = y]
    BY DEF TerminarQuantum
  <2> HIDE DEF x, y
  <2>3. sem' \in Semaforos /\ sem'.con_items = x
    BY <2>1, <2>2 DEF Semaforos
  <2> QED BY <2>3 DEF SemTipo, x
<1>6. /\ UNCHANGED <<config, ubicados, hilos, catches, servicio, pendiente, vivo, proceso_ejecutando>>
      /\ cola_ready' = Append(cola_ready, e)
  BY DEF TerminarQuantum, mensajesVars, capturaVars, deadlockVars
<1>7. ColaTipo' /\ ColaConItems'
  BY <1>5, <1>6, AnotarItem
<1> QED BY <1>1, <1>4, <1>5, <1>6, <1>7, Marco, MarcoSinCatch

LEMMA TomarItemInv ==
  ASSUME IInv, TomarItem
  PROVE  IInv'
<1>1. Tipos
  BY DEF IInv
<1>2. /\ UNCHANGED <<config, ent, cola_ready, ubicados, hilos, catches, pendiente, vivo, proceso_ejecutando>>
      /\ Entrenador' = Entrenador
  BY DEF TomarItem, colaVars, mensajesVars, capturaVars, deadlockVars, Entrenador
<1> DEFINE x == sem.con_items - 1
<1>3. SemTipo' /\ sem'.con_items = sem.con_items - 1 /\ sem.con_items \in Nat
  <2>1. x \in Nat /\ sem \in Semaforos /\ sem.con_items \in Nat
    BY <1>1, SemDe DEF TomarItem
  <2>2. sem' = [sem EXCEPT !.con_items = x]
    BY DEF TomarItem
  <2> HIDE DEF x
  <2>3. sem' \in Semaforos /\ sem'.con_items = x
    BY <2>1, <2>2 DEF Semaforos
  <2> QED BY <2>1, <2>3 DEF SemTipo, x
<1>4. ServicioTipo' /\ servicio'.planifica
  BY <1>1, <1>2 DEF Tipos, ServicioTipo, TomarItem
<1>5. ColaConItems'
  <2>1. Len(cola_ready) \in Nat
    BY <1>1 DEF Tipos, ColaTipo
  <2> QED BY <1>2, <1>3, <1>4, <2>1 DEF IInv, ColaConItems, TomarItem
<1>6. EntTipo' /\ TratoHecho' /\ SinEntrar
  BY <1>1, <1>2, EntIgual
<1> QED BY <1>1, <1>2, <1>3, <1>4, <1>5, <1>6, Marco, MarcoSinCatch

LEMMA SacarInv ==
  ASSUME IInv, NEW i, Sacar(i)
  PROVE  /\ ColaTipo' /\ SemTipo' /\ ServicioTipo' /\ ColaConItems'
         /\ cola_ready[i] \in Entrenador
         /\ UNCHANGED <<config, ubicados, hilos, catches, pendiente, vivo, proceso_ejecutando>>
<1>1. Tipos
  BY DEF IInv
<1>2. /\ UNCHANGED <<config, ubicados, hilos, catches, pendiente, vivo, proceso_ejecutando>>
      /\ Entrenador' = Entrenador
  BY DEF Sacar, mensajesVars, capturaVars, deadlockVars, Entrenador
<1>3. /\ cola_ready \in Seq(Entrenador) /\ i \in 1..Len(cola_ready) /\ Len(cola_ready) \in Nat
      /\ cola_ready[i] \in Entrenador
  BY <1>1 DEF Tipos, ColaTipo, Sacar
<1>4. ColaTipo' /\ Len(cola_ready') = Len(cola_ready) - 1
  BY <1>2, <1>3, RemoveAtPuntual DEF ColaTipo, Sacar
<1> DEFINE x == sem.en_exec - 1
<1>5. SemTipo' /\ sem'.con_items = sem.con_items /\ sem.con_items \in Nat
  <2>1. x \in Nat /\ sem \in Semaforos /\ sem.con_items \in Nat
    BY <1>1, SemDe DEF Sacar
  <2>2. sem' = [sem EXCEPT !.en_exec = x]
    BY DEF Sacar
  <2> HIDE DEF x
  <2> QED BY <2>1, <2>2 DEF SemTipo, Semaforos
<1>6. ServicioTipo' /\ ~servicio'.planifica
  BY <1>1, <1>2 DEF Tipos, ServicioTipo, Sacar
<1>7. ColaConItems'
  BY <1>3, <1>4, <1>5, <1>6 DEF IInv, ColaConItems, Sacar
<1> QED BY <1>2, <1>3, <1>4, <1>5, <1>6, <1>7

LEMMA planificar_fifoInv ==
  ASSUME IInv, planificar_fifo
  PROVE  IInv'
<1>1. Tipos
  BY DEF IInv
<1>2. Sacar(1)
  BY DEF planificar_fifo
<1> DEFINE e == cola_ready[1]
           x == ent[e].semaforo + 1
           ficha == [ent[e] EXCEPT !.estado = "EXEC", !.ocupado = TRUE, !.semaforo = x]
<1>3. e \in Entrenador
  BY <1>2, SacarInv
<1>4. ent' = [ent EXCEPT ![e] = ficha]
  BY DEF planificar_fifo
<1>5. x \in Nat /\ x >= ent[e].semaforo
  BY <1>1, <1>3, FichaDe
<1> HIDE DEF e, x
<1>6. /\ ficha \in Ficha(config) /\ ficha.pc = ent[e].pc /\ ficha.trato = ent[e].trato
      /\ ficha.semaforo = x
  BY <1>1, <1>3, <1>5, FichaDe DEF Ficha, Estados
<1> HIDE DEF ficha
<1>7. EntTipo' /\ TratoHecho' /\ SinEntrar
  BY <1>1, <1>2, <1>3, <1>4, <1>5, <1>6, SacarInv, FichaQuieta
<1> QED BY <1>1, <1>2, <1>7, SacarInv, Marco, MarcoSinCatch

\* The trainer at place i of the queue gets a token.
LEMMA TokenInv ==
  ASSUME IInv, NEW i, Sacar(i), ent' = [ent EXCEPT ![cola_ready[i]].semaforo = @ + 1]
  PROVE  IInv'
<1>1. Tipos
  BY DEF IInv
<1> DEFINE e == cola_ready[i]
           x == ent[e].semaforo + 1
           ficha == [ent[e] EXCEPT !.semaforo = x]
<1>3. e \in Entrenador
  BY SacarInv
<1>4. ent' = [ent EXCEPT ![e] = ficha]
  OBVIOUS
<1>5. x \in Nat /\ x >= ent[e].semaforo
  BY <1>1, <1>3, FichaDe
<1> HIDE DEF e, x
<1>6. /\ ficha \in Ficha(config) /\ ficha.pc = ent[e].pc /\ ficha.trato = ent[e].trato
      /\ ficha.semaforo = x
  BY <1>1, <1>3, <1>5, FichaDe DEF Ficha
<1> HIDE DEF ficha
<1>7. EntTipo' /\ TratoHecho' /\ SinEntrar
  BY <1>1, <1>3, <1>4, <1>5, <1>6, SacarInv, FichaQuieta
<1> QED BY <1>1, <1>7, SacarInv, Marco, MarcoSinCatch

LEMMA planificarInv ==
  ASSUME IInv, planificar_rr \/ \E i \in DOMAIN cola_ready : planificar_sjfsd(i)
  PROVE  IInv'
BY TokenInv DEF planificar_rr, planificar_sjfsd

LEMMA replanificar_entrenadorInv ==
  ASSUME IInv, replanificar_entrenador
  PROVE  IInv'
<1>1. Tipos
  BY DEF IInv
<1> DEFINE e == servicio.elegido
           i == get_pokemon_necesario_mas_cercano(ent[e].posicion)
           p == ubicados[i]
<1>2. e \in Entrenador /\ servicio.replanifica
  BY <1>1 DEF Tipos, ServicioTipo, replanificar_entrenador
<1>3. /\ UNCHANGED <<config, hilos, catches, pendiente, vivo, proceso_ejecutando>>
      /\ Entrenador' = Entrenador
  BY DEF replanificar_entrenador, capturaVars, deadlockVars, Entrenador
<1>4. ServicioTipo' /\ servicio'.planifica = servicio.planifica
  BY <1>1, <1>3 DEF Tipos, ServicioTipo, replanificar_entrenador
<1>5. i # 0 => i \in DOMAIN ubicados
  <2> DEFINE utiles == {k \in DOMAIN ubicados : ubicados[k].planificable /\ pokemon_necesario(ubicados[k])}
             Lejos(k) == Distancia(ubicados[k].posicion, ent[e].posicion)
             cerca == {k \in utiles : \A j \in utiles : Lejos(k) <= Lejos(j)}
  <2>1. i = IF utiles = {} THEN 0 ELSE Min(cerca)
    BY DEF get_pokemon_necesario_mas_cercano
  <2>2. utiles \in SUBSET Nat /\ cerca \subseteq utiles /\ utiles \subseteq DOMAIN ubicados
    <3>1. DOMAIN ubicados \subseteq Nat
      BY <1>1 DEF Tipos, UbicadosTipo
    <3> QED BY <3>1
  <2>3. \A k \in utiles : Lejos(k) \in Nat
    <3>1. ent[e].posicion \in Int
      BY <1>1, <1>2, FichaDe
    <3>2. \A k \in DOMAIN ubicados :
            ubicados[k] \in [nombre : Nombres, origen : Nat, posicion : Int, planificable : BOOLEAN]
      BY <1>1, SecuenciaTipo DEF Tipos, UbicadosTipo
    <3>3. \A k \in DOMAIN ubicados : ubicados[k].posicion \in Int
      BY <3>2
    <3> QED BY <3>1, <3>3 DEF Distancia
  <2> DEFINE d == [k \in utiles |-> Lejos(k)]
  <2> HIDE DEF utiles, Lejos, i
  <2>4. utiles # {} => cerca # {}
    <3>1. d \in [utiles -> Nat]
      BY <2>3
    <3>2. utiles # {} => \E k \in utiles : \A j \in utiles : d[k] <= d[j]
      <4> HIDE DEF d
      <4> QED BY <3>1, MasCercaHay
    <3> QED BY <3>2
  <2> HIDE DEF cerca
  <2> QED BY <2>1, <2>2, <2>4, MinDeNaturales
<1>6. CASE ent[e].destino # Nulo
  <2> DEFINE ficha == [ent[e] EXCEPT !.estado = "READY"]
  <2>1. Encolar(e, [ent EXCEPT ![e] = ficha]) /\ ubicados' = ubicados
    BY <1>6 DEF replanificar_entrenador
  <2>2. /\ ficha \in Ficha(config) /\ ficha.pc = ent[e].pc /\ ficha.trato = ent[e].trato
        /\ ficha.semaforo = ent[e].semaforo /\ ent[e].semaforo \in Nat
    BY <1>1, <1>2, FichaDe DEF Ficha, Estados
  <2> HIDE DEF e, ficha
  <2>3. ent' = [ent EXCEPT ![e] = ficha] /\ ficha.semaforo >= ent[e].semaforo
    BY <2>1, <2>2 DEF Encolar
  <2>4. EntTipo' /\ TratoHecho' /\ SinEntrar
    BY <1>1, <1>2, <1>3, <2>2, <2>3, FichaQuieta
  <2>5. ColaTipo' /\ ColaConItems' /\ SemTipo'
    BY <1>2, <1>3, <1>4, <2>1, EncolarInv
  <2> QED BY <1>1, <1>3, <1>4, <2>1, <2>4, <2>5, Marco, MarcoSinCatch
<1>7. CASE ent[e].destino = Nulo /\ i = 0
  <2>1. UNCHANGED <<ent, sem, cola_ready, ubicados>>
    BY <1>7 DEF replanificar_entrenador, colaVars
  <2>2. ColaConItems'
    BY <1>4, <2>1, MarcoCola
  <2> QED BY <1>1, <1>3, <1>4, <2>1, <2>2, EntIgual, Marco, MarcoSinCatch
<1>8. CASE ent[e].destino = Nulo /\ i # 0
  <2> DEFINE destino == get_pokemon_team(p.nombre, p.origen, p.posicion)
             ficha == [ent[e] EXCEPT !.estado = "READY", !.destino = destino]
  <2>1. Encolar(e, [ent EXCEPT ![e] = ficha]) /\ ubicados' = SinPlanificar(i)
    BY <1>8 DEF replanificar_entrenador
  <2>2. p \in [nombre : Nombres, origen : Nat, posicion : Int, planificable : BOOLEAN]
    <3>1. i \in DOMAIN ubicados
      BY <1>5, <1>8
    <3>2. UbicadosTipo
      BY <1>1 DEF Tipos
    <3> HIDE DEF i
    <3> QED BY <3>1, <3>2, SecuenciaTipo DEF UbicadosTipo
  <2>3. destino \in Destinos
    <3> HIDE DEF p
    <3> QED BY <2>2 DEF Destinos, get_pokemon_team
  <2>4. UbicadosTipo'
    <3> DEFINE U == [nombre : Nombres, origen : Nat, posicion : Int, planificable : BOOLEAN]
    <3>1. i \in DOMAIN ubicados
      BY <1>5, <1>8
    <3>2. ubicados \in Seq(U)
      BY <1>1 DEF Tipos, UbicadosTipo
    <3> DEFINE u == [p EXCEPT !.planificable = FALSE]
    <3>3. u \in U
      BY <2>2
    <3>4. ubicados' = [ubicados EXCEPT ![i] = u]
      BY <2>1 DEF SinPlanificar
    <3> HIDE DEF i, u, U
    <3>5. ubicados' \in Seq(U)
      BY <3>1, <3>2, <3>3, <3>4
    <3> QED BY <3>5 DEF UbicadosTipo, U
  <2> HIDE DEF destino, i, e
  <2>5. /\ ficha \in Ficha(config) /\ ficha.pc = ent[e].pc /\ ficha.trato = ent[e].trato
        /\ ficha.semaforo = ent[e].semaforo /\ ent[e].semaforo \in Nat
    BY <1>1, <1>2, <2>3, FichaDe DEF Ficha, Estados
  <2> HIDE DEF ficha
  <2>6. ent' = [ent EXCEPT ![e] = ficha] /\ ficha.semaforo >= ent[e].semaforo
    BY <2>1, <2>5 DEF Encolar
  <2>7. EntTipo' /\ TratoHecho' /\ SinEntrar
    BY <1>1, <1>2, <1>3, <2>5, <2>6, FichaQuieta
  <2>8. ColaTipo' /\ ColaConItems' /\ SemTipo'
    BY <1>2, <1>3, <1>4, <2>1, EncolarInv
  <2> QED BY <1>1, <1>3, <1>4, <2>4, <2>7, <2>8, Marco, MarcoSinCatch
<1> QED BY <1>6, <1>7, <1>8

-----------------------------------------------------------------------------
(* The threads of the messages *)

LEMMA AtencionDe ==
  ASSUME Tipos, NEW m \in HiloMensaje
  PROVE  /\ hilos[m] \in Atencion(config) /\ m \in Nat /\ Mensaje(m).nombre \in Nombres
         /\ Mensaje(m).posiciones \in Seq(Int)
         /\ Mensaje(m).tipo = "APPEARED" => Mensaje(m).posiciones[1] \in Int
         /\ hilos[m].elegido \in {0} \cup Entrenador /\ hilos[m].lista \in Seq(Int)
         /\ hilos[m].i \in Nat \ {0} /\ hilos[m].hasta \in Int
<1>1. hilos[m] \in Atencion(config)
  BY DEF Tipos, HilosTipo
<1>2. m \in Nat /\ Mensaje(m).nombre \in Nombres /\ Mensaje(m).posiciones \in Seq(Int)
      /\ (Mensaje(m).tipo = "APPEARED" => Mensaje(m).posiciones[1] \in Int)
  BY EscenarioTipo DEF Tipos, HiloMensaje, Mensaje
<1>3. /\ hilos[m].elegido \in {0} \cup Entrenador /\ hilos[m].lista \in Seq(Int)
      /\ hilos[m].i \in Nat \ {0} /\ hilos[m].hasta \in Int
  BY <1>1 DEF Atencion, Entrenador
<1> QED BY <1>1, <1>2, <1>3

LEMMA UnaAtencion ==
  ASSUME Tipos, config' = config, NEW m \in HiloMensaje, NEW h \in Atencion(config),
         (h.paso = "asignar" /\ Mensaje(m).tipo = "LOCALIZED") => h.i <= Len(h.lista),
         hilos' = [hilos EXCEPT ![m] = h]
  PROVE  HilosTipo'
<1>1. hilos \in [HiloMensaje -> Atencion(config)] /\ HiloMensaje' = HiloMensaje
  BY DEF Tipos, HilosTipo, HiloMensaje
<1>2. /\ hilos' \in [HiloMensaje -> Atencion(config)]
      /\ \A k \in HiloMensaje : hilos'[k] = IF k = m THEN h ELSE hilos[k]
  BY <1>1
<1>3. \A k \in HiloMensaje : Mensaje(k)' = Mensaje(k)
  BY DEF Mensaje
<1> QED BY <1>1, <1>2, <1>3 DEF Tipos, HilosTipo

\* Only the thread of a message moves.
LEMMA MarcoHilo ==
  ASSUME IInv, HilosTipo',
         UNCHANGED <<config, ent, sem, cola_ready, ubicados, proceso_ejecutando, catches, servicio,
                     pendiente, vivo>>
  PROVE  IInv'
<1>1. Tipos
  BY DEF IInv
<1>2. ColaConItems'
  BY MarcoCola
<1> QED BY <1>1, <1>2, EntIgual, Marco, MarcoSinCatch

\* The trainer chosen for a position is one of the team, or none.
LEMMA MasCercanoTipo ==
  ASSUME Tipos, NEW pos \in Int
  PROVE  get_entrenador_planificable_mas_cercano(pos) \in {0} \cup Entrenador
<1> DEFINE libres == {e \in Entrenador : Planificable(e)}
           Lejos(e) == Distancia(ent[e].posicion, pos)
           cerca == {e \in libres : \A f \in libres : Lejos(e) <= Lejos(f)}
           d == [e \in libres |-> Lejos(e)]
<1>1. get_entrenador_planificable_mas_cercano(pos) = IF libres = {} THEN 0 ELSE Min(cerca)
  BY DEF get_entrenador_planificable_mas_cercano
<1>2. libres \subseteq Entrenador /\ cerca \subseteq libres /\ Entrenador \in SUBSET Nat
  BY FichaDe
<1>3. \A e \in libres : Lejos(e) \in Nat
  BY <1>2, FichaDe DEF Distancia
<1> HIDE DEF libres, Lejos
<1>4. d \in [libres -> Nat]
  BY <1>3
<1>5. libres # {} => cerca # {}
  <2>1. libres # {} => \E e \in libres : \A f \in libres : d[e] <= d[f]
    <3> HIDE DEF d
    <3> QED BY <1>4, MasCercaHay
  <2> QED BY <2>1
<1> HIDE DEF cerca
<1>6. cerca \in SUBSET Nat /\ cerca \subseteq Entrenador
  BY <1>2
<1> QED BY <1>1, <1>5, <1>6, MinDeNaturales

LEMMA ElegirAppearedInv ==
  ASSUME IInv, NEW m \in HiloMensaje, ElegirAppeared(m)
  PROVE  IInv'
<1>1. Tipos
  BY DEF IInv
<1>2. UNCHANGED <<config, ent, sem, cola_ready, ubicados, proceso_ejecutando, catches, servicio,
                  pendiente, vivo>>
  BY DEF ElegirAppeared, colaVars, capturaVars, deadlockVars
<1> DEFINE e == get_entrenador_planificable_mas_cercano(Mensaje(m).posiciones[1])
           h == [hilos[m] EXCEPT !.paso = "asignar", !.elegido = e]
           fin == [hilos[m] EXCEPT !.paso = "fin"]
<1>3. e \in {0} \cup DOMAIN config.objetivo
  <2>1. Mensaje(m).posiciones[1] \in Int
    BY <1>1, AtencionDe DEF ElegirAppeared, AtenderMensaje
  <2> QED BY <1>1, <2>1, MasCercanoTipo DEF Entrenador
<1>4. hilos' = [hilos EXCEPT ![m] = h] \/ hilos' = [hilos EXCEPT ![m] = fin]
  BY DEF ElegirAppeared
<1> HIDE DEF e
<1>5. h \in Atencion(config) /\ fin \in Atencion(config) /\ fin.paso = "fin"
  BY <1>1, <1>3, AtencionDe DEF Atencion
<1> HIDE DEF h, fin
<1>6. Mensaje(m).tipo # "LOCALIZED"
  BY DEF ElegirAppeared, AtenderMensaje
<1>7. HilosTipo'
  BY <1>1, <1>2, <1>4, <1>5, <1>6, UnaAtencion
<1> QED BY <1>2, <1>7, MarcoHilo

LEMMA ValidarLocalizedInv ==
  ASSUME IInv, NEW m \in HiloMensaje, ValidarLocalized(m)
  PROVE  IInv'
<1>1. Tipos
  BY DEF IInv
<1>2. UNCHANGED <<config, ent, sem, cola_ready, ubicados, proceso_ejecutando, catches, servicio,
                  pendiente, vivo>>
  BY DEF ValidarLocalized, colaVars, capturaVars, deadlockVars
<1> DEFINE l == Mensaje(m).posiciones
           lista == Cable!RepetirUltima(l)
           c == get_cantidad_by_nombre_pokemon(Mensaje(m).nombre, objetivo_global)
           hasta == Min({Len(l), c})
           h == [hilos[m] EXCEPT !.paso = "elegir", !.lista = lista, !.hasta = hasta]
           fin == [hilos[m] EXCEPT !.paso = "fin"]
<1>3. l \in Seq(Int)
  BY <1>1, AtencionDe
<1>4. lista \in Seq(Int)
  <2> HIDE DEF l
  <2> QED BY <1>3 DEF Cable!RepetirUltima
<1>5. hasta \in Int
  <2>1. Len(l) \in Nat
    <3> HIDE DEF l
    <3> QED BY <1>3
  <2>2. c \in Nat
    BY <1>1, EscenarioTipo, GlobalTipo, CantidadTipo DEF Tipos, objetivo_global
  <2> HIDE DEF l, c
  <2>3. {Len(l), c} \in SUBSET Nat /\ {Len(l), c} # {}
    BY <2>1, <2>2
  <2>4. Min({Len(l), c}) \in {Len(l), c}
    BY <2>3, MinDeNaturales
  <2> QED BY <2>1, <2>2, <2>4
<1>6. hilos' = [hilos EXCEPT ![m] = h] \/ hilos' = [hilos EXCEPT ![m] = fin]
  BY DEF ValidarLocalized
<1> HIDE DEF lista, hasta
<1>7. /\ h \in Atencion(config) /\ fin \in Atencion(config)
      /\ fin.paso = "fin" /\ h.paso = "elegir"
  BY <1>1, <1>4, <1>5, AtencionDe DEF Atencion
<1> HIDE DEF h, fin
<1>8. HilosTipo'
  BY <1>1, <1>2, <1>6, <1>7, UnaAtencion
<1> QED BY <1>2, <1>8, MarcoHilo

LEMMA ElegirLocalizedInv ==
  ASSUME IInv, NEW m \in HiloMensaje, ElegirLocalized(m)
  PROVE  IInv'
<1>1. Tipos
  BY DEF IInv
<1>2. UNCHANGED <<config, ent, sem, cola_ready, ubicados, proceso_ejecutando, catches, servicio,
                  pendiente, vivo>>
  BY DEF ElegirLocalized, colaVars, capturaVars, deadlockVars
<1> DEFINE i == hilos[m].i
           lista == hilos[m].lista
           termina == i > hilos[m].hasta
           paso == IF termina THEN "fin" ELSE "asignar"
           elegido == IF termina THEN 0 ELSE get_entrenador_planificable_mas_cercano(lista[i])
           h == [hilos[m] EXCEPT !.paso = paso, !.elegido = elegido]
<1>3. /\ i \in Nat \ {0} /\ lista \in Seq(Int) /\ hilos[m].hasta \in Int
      /\ hilos[m] \in Atencion(config)
  BY <1>1, AtencionDe
<1>4. ~termina => i <= Len(lista)
  BY <1>3 DEF ElegirLocalized
<1>5. ~termina => lista[i] \in Int
  <2> HIDE DEF i, lista, termina
  <2> QED BY <1>3, <1>4
<1>6. elegido \in {0} \cup DOMAIN config.objetivo
  <2> HIDE DEF i, lista, termina
  <2> QED BY <1>1, <1>5, MasCercanoTipo DEF Entrenador
<1>7. hilos' = [hilos EXCEPT ![m] = h]
  BY DEF ElegirLocalized
<1>8. paso \in {"fin", "asignar"} /\ (paso = "asignar" => ~termina)
  <2> HIDE DEF termina
  <2> QED OBVIOUS
<1> HIDE DEF elegido, paso, termina
<1>9. h \in Atencion(config) /\ h.paso = paso /\ h.i = i /\ h.lista = lista
  BY <1>3, <1>6, <1>8 DEF Atencion
<1> HIDE DEF h, i, lista
<1>10. HilosTipo'
  BY <1>1, <1>2, <1>4, <1>7, <1>8, <1>9, UnaAtencion
<1> QED BY <1>2, <1>10, MarcoHilo

\* A step that sends trainer e to destination p.
LEMMA EnviarInv ==
  ASSUME IInv, UNCHANGED <<config, catches, servicio, vivo, proceso_ejecutando>>,
         NEW e \in Entrenador, NEW ficha \in Ficha(config), ficha.semaforo >= ent[e].semaforo,
         ficha.pc = ent[e].pc, ficha.trato = ent[e].trato,
         Encolar(e, [ent EXCEPT ![e] = ficha]), UbicadosTipo', HilosTipo', PendienteTipo'
  PROVE  IInv'
<1>1. Tipos
  BY DEF IInv
<1>2. ent' = [ent EXCEPT ![e] = ficha]
  BY DEF Encolar
<1>3. EntTipo' /\ TratoHecho' /\ SinEntrar
  BY <1>1, <1>2, FichaQuieta
<1>4. ColaTipo' /\ ColaConItems' /\ SemTipo'
  BY EncolarInv
<1> QED BY <1>1, <1>3, <1>4, Marco, MarcoSinCatch

LEMMA UbicarTipo ==
  ASSUME Tipos, NEW l \in Seq([nombre : Nombres, origen : Nat, posicion : Int, planificable : BOOLEAN]),
         ubicados' = ubicados \o l
  PROVE  UbicadosTipo'
<1>1. ubicados \in Seq([nombre : Nombres, origen : Nat, posicion : Int, planificable : BOOLEAN])
  BY DEF Tipos, UbicadosTipo
<1> QED BY <1>1, ConcatPuntual DEF UbicadosTipo

LEMMA AsignarAppearedInv ==
  ASSUME IInv, NEW m \in HiloMensaje, AsignarAppeared(m)
  PROVE  IInv'
<1>1. Tipos
  BY DEF IInv
<1>2. UNCHANGED <<config, catches, servicio, pendiente, vivo, proceso_ejecutando>>
  BY DEF AsignarAppeared, capturaVars, deadlockVars
<1> DEFINE e == hilos[m].elegido
           pos == Mensaje(m).posiciones[1]
           p == get_pokemon_team(Mensaje(m).nombre, m, pos)
           fin == [hilos[m] EXCEPT !.paso = "fin"]
           ficha == [ent[e] EXCEPT !.estado = "READY", !.destino = p, !.ocupado = TRUE]
           u == ubicar(p, TRUE)
<1>3. /\ hilos[m] \in Atencion(config) /\ e \in {0} \cup Entrenador
      /\ pos \in Int /\ m \in Nat /\ Mensaje(m).nombre \in Nombres
  BY <1>1, AtencionDe DEF AsignarAppeared
<1>4. HilosTipo'
  <2>1. fin \in Atencion(config) /\ fin.paso = "fin"
    BY <1>3 DEF Atencion
  <2>2. hilos' = [hilos EXCEPT ![m] = fin]
    BY DEF AsignarAppeared
  <2> HIDE DEF fin
  <2> QED BY <1>1, <1>2, <2>1, <2>2, UnaAtencion
<1>5. p \in Destinos /\ u \in [nombre : Nombres, origen : Nat, posicion : Int, planificable : BOOLEAN]
  <2> HIDE DEF pos
  <2> QED BY <1>3 DEF Destinos, get_pokemon_team, ubicar
<1>6. CASE e # 0
  <2>1. Encolar(e, [ent EXCEPT ![e] = ficha]) /\ ubicados' = ubicados
    BY <1>6 DEF AsignarAppeared
  <2>2. e \in Entrenador
    BY <1>3, <1>6
  <2> HIDE DEF e, p
  <2>3. /\ ficha \in Ficha(config) /\ ficha.pc = ent[e].pc /\ ficha.trato = ent[e].trato
        /\ ficha.semaforo = ent[e].semaforo /\ ent[e].semaforo \in Nat
    BY <1>1, <1>5, <2>2, FichaDe DEF Ficha, Estados
  <2> HIDE DEF ficha
  <2>4. ficha.semaforo >= ent[e].semaforo
    BY <2>3
  <2> QED BY <1>1, <1>2, <1>4, <2>1, <2>2, <2>3, <2>4, Marco, EnviarInv
<1>7. CASE e = 0
  <2>1. UNCHANGED <<ent, sem, cola_ready>> /\ ubicados' = Append(ubicados, u)
    BY <1>7 DEF AsignarAppeared, colaVars
  <2> HIDE DEF u
  <2>2. UbicadosTipo'
    BY <1>1, <1>5, <2>1 DEF Tipos, UbicadosTipo
  <2>3. ColaConItems'
    BY <1>2, <2>1, MarcoCola
  <2> QED BY <1>1, <1>2, <1>4, <2>1, <2>2, <2>3, EntIgual, Marco, MarcoSinCatch
<1> QED BY <1>3, <1>6, <1>7

LEMMA AsignarLocalizedInv ==
  ASSUME IInv, NEW m \in HiloMensaje, AsignarLocalized(m)
  PROVE  IInv'
<1>1. Tipos
  BY DEF IInv
<1>2. UNCHANGED <<config, catches, servicio, pendiente, vivo, proceso_ejecutando>>
  BY DEF AsignarLocalized, capturaVars, deadlockVars
<1> DEFINE i == hilos[m].i
           l == hilos[m].lista
           e == hilos[m].elegido
           p == get_pokemon_team(Mensaje(m).nombre, m, l[i])
           sigue == i + 1
           resto == IF e # 0 THEN Tail(l) ELSE l
           h == [hilos[m] EXCEPT !.paso = "elegir", !.i = sigue, !.lista = resto]
           ficha == [ent[e] EXCEPT !.estado = "READY", !.destino = p]
<1>3. /\ hilos[m] \in Atencion(config) /\ e \in {0} \cup Entrenador /\ l \in Seq(Int)
      /\ i \in Nat \ {0} /\ m \in Nat /\ Mensaje(m).nombre \in Nombres
  BY <1>1, AtencionDe
<1>4. i <= Len(l)
  BY <1>1 DEF Tipos, HilosTipo, AsignarLocalized
<1>5. l # <<>> /\ l[i] \in Int /\ sigue \in Nat \ {0}
  <2> HIDE DEF i, l
  <2> QED BY <1>3, <1>4
<1>6. resto \in Seq(Int)
  <2> HIDE DEF l, e
  <2> QED BY <1>3, <1>5
<1>7. HilosTipo'
  <2>1. hilos' = [hilos EXCEPT ![m] = h]
    BY DEF AsignarLocalized
  <2> HIDE DEF sigue, resto
  <2>2. h \in Atencion(config) /\ h.paso = "elegir"
    BY <1>3, <1>5, <1>6 DEF Atencion
  <2> HIDE DEF h
  <2> QED BY <1>1, <1>2, <2>1, <2>2, UnaAtencion
<1>8. CASE e # 0
  <2>1. Encolar(e, [ent EXCEPT ![e] = ficha]) /\ ubicados' = ubicados
    BY <1>8 DEF AsignarLocalized
  <2>2. e \in Entrenador
    BY <1>3, <1>8
  <2>3. p \in Destinos
    <3> HIDE DEF l, i
    <3> QED BY <1>3, <1>5 DEF Destinos, get_pokemon_team
  <2> HIDE DEF e, p
  <2>4. /\ ficha \in Ficha(config) /\ ficha.pc = ent[e].pc /\ ficha.trato = ent[e].trato
        /\ ficha.semaforo = ent[e].semaforo /\ ent[e].semaforo \in Nat
    BY <1>1, <2>2, <2>3, FichaDe DEF Ficha, Estados
  <2> HIDE DEF ficha
  <2>5. ficha.semaforo >= ent[e].semaforo
    BY <2>4
  <2> QED BY <1>1, <1>2, <1>7, <2>1, <2>2, <2>4, <2>5, Marco, EnviarInv
<1>9. CASE e = 0
  <2>1. UNCHANGED <<ent, sem, cola_ready>>
    BY <1>9 DEF AsignarLocalized, colaVars
  <2>2. PICK b \in BOOLEAN : ubicados' = ubicados \o Ubicados(m, l, b)
    BY <1>9 DEF AsignarLocalized
  <2>3. Ubicados(m, l, b)
          \in Seq([nombre : Nombres, origen : Nat, posicion : Int, planificable : BOOLEAN])
    <3> HIDE DEF l
    <3> DEFINE U == [nombre : Nombres, origen : Nat, posicion : Int, planificable : BOOLEAN]
               u(k) == ubicar(get_pokemon_team(Mensaje(m).nombre, m, l[k]), b)
    <3>1. DOMAIN l = 1..Len(l) /\ Len(l) \in Nat /\ \A k \in DOMAIN l : l[k] \in Int
      BY <1>3
    <3>2. \A k \in DOMAIN l : u(k) \in U
      BY <1>3, <3>1 DEF ubicar, get_pokemon_team
    <3>3. Ubicados(m, l, b) = [k \in 1..Len(l) |-> u(k)]
      BY <3>1 DEF Ubicados
    <3> HIDE DEF u, U
    <3>4. [k \in 1..Len(l) |-> u(k)] \in Seq(U)
      BY <3>1, <3>2
    <3> QED BY <3>3, <3>4 DEF U
  <2>4. UbicadosTipo'
    BY <1>1, <2>2, <2>3, UbicarTipo
  <2>5. ColaConItems'
    BY <1>2, <2>1, MarcoCola
  <2> QED BY <1>1, <1>2, <1>7, <2>1, <2>4, <2>5, EntIgual, Marco, MarcoSinCatch
<1> QED BY <1>3, <1>8, <1>9

-----------------------------------------------------------------------------
(* The replanners *)

\* The trainers change, but neither their places nor their exchanges, and no
\* token is lost.
LEMMA EntQuieto ==
  ASSUME Tipos, config' = config, ent' \in [Entrenador -> Ficha(config)],
         \A f \in Entrenador : /\ ent'[f].pc = ent[f].pc /\ ent'[f].trato = ent[f].trato
                               /\ ent'[f].semaforo >= ent[f].semaforo
  PROVE  EntTipo' /\ TratoHecho' /\ SinEntrar
<1>1. Entrenador' = Entrenador
  BY DEF Entrenador
<1>2. EntTipo'
  BY <1>1 DEF EntTipo
<1>3. TratoHecho'
  BY <1>1 DEF Tipos, TratoHecho, Tratando
<1>4. SinEntrar
  BY DEF SinEntrar
<1> QED BY <1>2, <1>3, <1>4

\* In h, trainer e gets a token and a state.
ConToken(h, e, s) == [h EXCEPT ![e].estado = s, ![e].semaforo = @ + 1]

LEMMA DarToken ==
  ASSUME config \in Escenarios, NEW h \in [Entrenador -> Ficha(config)], NEW e, NEW s \in Estados,
         NEW g, g = ConToken(h, e, s)
  PROVE  /\ g \in [Entrenador -> Ficha(config)]
         /\ \A f \in Entrenador : /\ g[f].pc = h[f].pc /\ g[f].trato = h[f].trato
                                  /\ g[f].semaforo >= h[f].semaforo
                                  /\ g[f].semaforo \in Nat /\ h[f].semaforo \in Nat
<1> DEFINE x == h[e].semaforo + 1
           ficha == [h[e] EXCEPT !.estado = s, !.semaforo = x]
<1>1. \A f \in Entrenador :
        h[f] \in Ficha(config) /\ h[f].semaforo \in Nat /\ h[f].semaforo >= h[f].semaforo
  BY DEF Ficha
<1>2. CASE e \notin Entrenador
  <2>1. g = h
    BY <1>2 DEF ConToken
  <2> QED BY <1>1, <2>1
<1>3. CASE e \in Entrenador
  <2>1. g = [h EXCEPT ![e] = ficha]
    BY DEF ConToken
  <2>2. x \in Nat /\ x >= h[e].semaforo
    BY <1>1, <1>3
  <2> HIDE DEF x
  <2>3. /\ ficha \in Ficha(config) /\ ficha.pc = h[e].pc /\ ficha.trato = h[e].trato
        /\ ficha.semaforo = x
    BY <1>1, <1>3, <2>2 DEF Ficha
  <2> HIDE DEF ficha
  <2>4. g \in [Entrenador -> Ficha(config)] /\ g[e] = ficha
    BY <1>3, <2>1, <2>3
  <2>5. \A f \in Entrenador : f # e => g[f] = h[f]
    BY <2>1
  <2> QED BY <1>1, <2>2, <2>3, <2>4, <2>5
<1> QED BY <1>2, <1>3

LEMMA SjfcdInv ==
  ASSUME IInv, UNCHANGED <<config, cola_ready, ubicados, hilos, proceso_ejecutando, catches, servicio,
                           pendiente, vivo>>,
         sem.sjfcd > 0, sem' = [sem EXCEPT !.sjfcd = @ - 1], EntTipo', TratoHecho', SinEntrar
  PROVE  IInv'
<1>1. Tipos
  BY DEF IInv
<1> DEFINE x == sem.sjfcd - 1
<1>2. x \in Nat /\ sem \in Semaforos /\ sem' = [sem EXCEPT !.sjfcd = x]
  BY <1>1, SemDe
<1> HIDE DEF x
<1>3. SemTipo' /\ sem'.con_items = sem.con_items
  BY <1>2 DEF SemTipo, Semaforos
<1>4. ColaConItems'
  BY <1>3, MarcoCola
<1> QED BY <1>1, <1>3, <1>4, Marco, MarcoSinCatch

LEMMA SeguirEjecutandoInv ==
  ASSUME IInv, SeguirEjecutando
  PROVE  IInv'
<1>1. Tipos /\ config \in Escenarios /\ ent \in [Entrenador -> Ficha(config)]
  BY DEF IInv, Tipos, EntTipo
<1>2. /\ UNCHANGED <<config, cola_ready, ubicados, hilos, proceso_ejecutando, catches, servicio,
                     pendiente, vivo>>
      /\ sem.sjfcd > 0 /\ sem' = [sem EXCEPT !.sjfcd = @ - 1]
      /\ ent' = ConToken(ent, proceso_ejecutando, "EXEC")
  BY DEF SeguirEjecutando, ConToken, mensajesVars, capturaVars, deadlockVars
<1>3. "EXEC" \in Estados
  BY DEF Estados
<1>4. /\ ent' \in [Entrenador -> Ficha(config)]
      /\ \A f \in Entrenador : /\ ent'[f].pc = ent[f].pc /\ ent'[f].trato = ent[f].trato
                               /\ ent'[f].semaforo >= ent[f].semaforo
  BY <1>1, <1>2, <1>3, DarToken
<1>5. EntTipo' /\ TratoHecho' /\ SinEntrar
  BY <1>1, <1>2, <1>4, EntQuieto
<1> QED BY <1>2, <1>5, SjfcdInv

LEMMA DesalojarInv ==
  ASSUME IInv, NEW i \in DOMAIN cola_ready, Desalojar(i)
  PROVE  IInv'
<1>1. Tipos /\ config \in Escenarios /\ ent \in [Entrenador -> Ficha(config)]
  BY DEF IInv, Tipos, EntTipo
<1> DEFINE desalojado == ConToken(ent, proceso_ejecutando, "READY")
<1>2. /\ UNCHANGED <<config, cola_ready, ubicados, hilos, proceso_ejecutando, catches, servicio,
                     pendiente, vivo>>
      /\ sem.sjfcd > 0 /\ sem' = [sem EXCEPT !.sjfcd = @ - 1]
      /\ ent' = ConToken(desalojado, cola_ready[i], "EXEC")
  BY DEF Desalojar, ConToken, mensajesVars, capturaVars, deadlockVars
<1>3. "EXEC" \in Estados /\ "READY" \in Estados
  BY DEF Estados
<1>4. /\ desalojado \in [Entrenador -> Ficha(config)]
      /\ \A f \in Entrenador : /\ desalojado[f].pc = ent[f].pc /\ desalojado[f].trato = ent[f].trato
                               /\ desalojado[f].semaforo >= ent[f].semaforo
                               /\ desalojado[f].semaforo \in Nat /\ ent[f].semaforo \in Nat
  BY <1>1, <1>3, DarToken
<1> HIDE DEF desalojado
<1>5. /\ ent' \in [Entrenador -> Ficha(config)]
      /\ \A f \in Entrenador : /\ ent'[f].pc = desalojado[f].pc /\ ent'[f].trato = desalojado[f].trato
                               /\ ent'[f].semaforo >= desalojado[f].semaforo
                               /\ ent'[f].semaforo \in Nat
  BY <1>1, <1>2, <1>3, <1>4, DarToken
<1>6. \A f \in Entrenador : /\ ent'[f].pc = ent[f].pc /\ ent'[f].trato = ent[f].trato
                            /\ ent'[f].semaforo >= ent[f].semaforo
  BY <1>4, <1>5
<1>7. EntTipo' /\ TratoHecho' /\ SinEntrar
  BY <1>1, <1>2, <1>5, <1>6, EntQuieto
<1> QED BY <1>2, <1>7, SjfcdInv

LEMMA hilo_replanificarInv ==
  ASSUME IInv, hilo_replanificar
  PROVE  IInv'
<1>1. Tipos
  BY DEF IInv
<1>2. /\ UNCHANGED <<config, ent, cola_ready, ubicados, hilos, proceso_ejecutando, catches, pendiente, vivo>>
      /\ Entrenador' = Entrenador
  BY DEF hilo_replanificar, colaVars, mensajesVars, capturaVars, deadlockVars, Entrenador
<1> DEFINE R == {e \in Entrenador : Replanificable(e)}
           elegido == Max(R)
<1>3. elegido \in Entrenador
  <2>1. /\ Entrenador = 1..Len(config.objetivo) /\ Len(config.objetivo) \in Nat
    BY <1>1, EscenarioTipo DEF Tipos, Entrenador
  <2>2. R \subseteq 0..Len(config.objetivo) /\ R # {} /\ R \subseteq Entrenador
    BY <2>1 DEF hilo_replanificar
  <2> HIDE DEF R
  <2>3. \E k \in R : \A j \in R : k >= j
    BY <2>1, <2>2, MaximoHay
  <2> QED BY <2>2, <2>3 DEF Max
<1>4. servicio' = [servicio EXCEPT !.replanifica = TRUE, !.elegido = elegido]
  BY DEF hilo_replanificar
<1> HIDE DEF elegido
<1>5. ServicioTipo' /\ servicio'.planifica = servicio.planifica
  BY <1>1, <1>2, <1>3, <1>4 DEF Tipos, ServicioTipo
<1> DEFINE x == sem.replanificar - 1
<1>6. x \in Nat /\ sem \in Semaforos /\ sem' = [sem EXCEPT !.replanificar = x]
  BY <1>1, SemDe DEF hilo_replanificar
<1> HIDE DEF x
<1>7. SemTipo' /\ sem'.con_items = sem.con_items
  BY <1>6 DEF SemTipo, Semaforos
<1>8. ColaConItems'
  BY <1>2, <1>5, <1>7, MarcoCola
<1> QED BY <1>1, <1>2, <1>5, <1>7, <1>8, EntIgual, Marco, MarcoSinCatch

LEMMA ReplanificarSinInicializarInv ==
  ASSUME IInv, ReplanificarSinInicializar
  PROVE  IInv'
<1>1. Tipos
  BY DEF IInv
<1>2. CASE Segfault
  BY <1>2, SegfaultInv
<1>3. CASE ~Segfault
  <2> DEFINE x == sem.replanificar - 1
  <2>1. /\ UNCHANGED <<config, ent, cola_ready, ubicados, hilos, proceso_ejecutando, catches, servicio,
                       pendiente, vivo>>
        /\ sem.replanificar > 0 /\ sem' = [sem EXCEPT !.replanificar = x]
    BY <1>3 DEF ReplanificarSinInicializar, colaVars, mensajesVars, capturaVars, deadlockVars
  <2>2. x \in Nat /\ sem \in Semaforos
    BY <1>1, <2>1, SemDe
  <2> HIDE DEF x
  <2>3. SemTipo' /\ sem'.con_items = sem.con_items
    BY <2>1, <2>2 DEF SemTipo, Semaforos
  <2>4. ColaConItems'
    BY <2>1, <2>3, MarcoCola
  <2> QED BY <1>1, <2>1, <2>3, <2>4, EntIgual, Marco, MarcoSinCatch
<1> QED BY <1>2, <1>3

\* The trainers change, but nobody goes anywhere but back to its loop.
LEMMA EntVuelta ==
  ASSUME Tipos, config' = config, ent' \in [Entrenador -> Ficha(config)],
         \A f \in Entrenador : /\ ent'[f].pc = ent[f].pc \/ ent'[f].pc = "vuelta"
                               /\ ent'[f].trato = ent[f].trato
                               /\ ent'[f].semaforo = ent[f].semaforo /\ ent[f].semaforo \in Nat
  PROVE  EntTipo' /\ TratoHecho' /\ SinEntrar
<1>1. Entrenador' = Entrenador
  BY DEF Entrenador
<1>2. EntTipo'
  BY <1>1 DEF EntTipo
<1>3. TratoHecho'
  BY <1>1 DEF Tipos, TratoHecho, Tratando
<1>4. SinEntrar
  BY DEF SinEntrar
<1> QED BY <1>2, <1>3, <1>4

-----------------------------------------------------------------------------
(* The detection *)

LEMMA AvisarDetectorInv ==
  ASSUME IInv, AvisarDetector
  PROVE  IInv'
<1>1. Tipos
  BY DEF IInv
<1>2. /\ UNCHANGED <<config, ent, cola_ready, ubicados, hilos, proceso_ejecutando, catches, pendiente, vivo>>
      /\ Entrenador' = Entrenador
  BY DEF AvisarDetector, colaVars, mensajesVars, capturaVars, deadlockVars, Entrenador
<1> DEFINE x == sem.detectar - 1
           y == servicio.avisos + 1
<1>3. x \in Nat /\ sem \in Semaforos /\ sem' = [sem EXCEPT !.detectar = x]
  BY <1>1, SemDe DEF AvisarDetector
<1>4. y \in 0..Len(config.objetivo) /\ servicio' = [servicio EXCEPT !.avisos = y]
  BY <1>1, EscenarioTipo DEF Tipos, ServicioTipo, AvisarDetector
<1> HIDE DEF x, y
<1>5. SemTipo' /\ sem'.con_items = sem.con_items
  BY <1>3 DEF SemTipo, Semaforos
<1>6. ServicioTipo' /\ servicio'.planifica = servicio.planifica
  BY <1>1, <1>2, <1>4 DEF Tipos, ServicioTipo
<1>7. ColaConItems'
  BY <1>2, <1>5, <1>6, MarcoCola
<1> QED BY <1>1, <1>2, <1>5, <1>6, <1>7, EntIgual, Marco, MarcoSinCatch

\* Looking at the trainers summarises lists; the one that looks moves on.
LEMMA SumarizadasInv ==
  ASSUME Tipos, config' = config, NEW t, NEW pc \in {"vuelta", "resolver"}, ent' = Sumarizadas(t, pc)
  PROVE  EntTipo' /\ TratoHecho' /\ SinEntrar
<1> DEFINE lista(e) == sumarizar_pokemones(ent[e].pokemones)
           s(e) == IF ent[e].estado = "BLOCKED" /\ ~ent[e].ocupado
                   THEN [ent[e] EXCEPT !.pokemones = lista(e)] ELSE ent[e]
           ficha(e) == IF e = t THEN [s(e) EXCEPT !.pc = pc] ELSE s(e)
<1>1. ent' = [e \in Entrenador |-> ficha(e)]
  BY DEF Sumarizadas
<1>2. ASSUME NEW e \in Entrenador
      PROVE  /\ ficha(e) \in Ficha(config) /\ ficha(e).trato = ent[e].trato
             /\ ficha(e).semaforo = ent[e].semaforo /\ ent[e].semaforo \in Nat
             /\ ficha(e).pc \in {"vuelta", "resolver"} \/ ficha(e).pc = ent[e].pc
  <2>1. lista(e) \in Listado /\ ent[e] \in Ficha(config) /\ ent[e].semaforo \in Nat
    BY FichaDe, SumarizarTipo
  <2> HIDE DEF lista
  <2>2. s(e) \in Ficha(config) /\ s(e).trato = ent[e].trato /\ s(e).semaforo = ent[e].semaforo
        /\ s(e).pc = ent[e].pc
    BY <2>1 DEF Ficha
  <2>3. pc \in Lugares
    BY DEF Lugares
  <2> HIDE DEF s
  <2> QED BY <2>1, <2>2, <2>3 DEF Ficha
<1> HIDE DEF ficha
<1>3. Entrenador' = Entrenador
  BY DEF Entrenador
<1>4. EntTipo'
  BY <1>1, <1>2, <1>3 DEF EntTipo
<1>5. TratoHecho'
  BY <1>1, <1>2, <1>3 DEF Tipos, TratoHecho, Tratando
<1>6. SinEntrar
  BY <1>1, <1>2 DEF SinEntrar
<1> QED BY <1>4, <1>5, <1>6

LEMMA TerminadaTipo ==
  ASSUME Tipos, config' = config, NEW t, servicio' = Terminada(t)
  PROVE  ServicioTipo' /\ servicio'.planifica = servicio.planifica
<1>1. Entrenador' = Entrenador /\ Len(config.objetivo) \in Nat
  BY EscenarioTipo DEF Tipos, Entrenador
<1> QED BY <1>1 DEF Tipos, ServicioTipo, Terminada

LEMMA DetectarNadaInv ==
  ASSUME IInv, NEW t \in Entrenador \cup {Detector}, DetectarNada(t)
  PROVE  IInv'
<1>1. Tipos
  BY DEF IInv
<1>2. UNCHANGED <<config, sem, cola_ready, ubicados, hilos, proceso_ejecutando, catches, pendiente, vivo>>
  BY DEF DetectarNada, colaVars, mensajesVars, capturaVars, deadlockVars
<1>3. EntTipo' /\ TratoHecho' /\ SinEntrar
  BY <1>1, <1>2, SumarizadasInv DEF DetectarNada
<1>4. ServicioTipo' /\ servicio'.planifica = servicio.planifica
  BY <1>1, <1>2, TerminadaTipo DEF DetectarNada
<1>5. ColaConItems'
  BY <1>2, <1>4, MarcoCola
<1> QED BY <1>1, <1>2, <1>3, <1>4, <1>5, Marco, MarcoSinCatch

\* The snapshot the detection works on.
LEMMA EnDeadlockTipo ==
  ASSUME Tipos
  PROVE  entrenadores_en_deadlock \in Seq([id : Entrenador, pokemones : Listado, objetivo : Listado])
<1> DEFINE S == [id : Entrenador, pokemones : Listado, objetivo : Listado]
           copia(e) == copia_DL(e, ent[e].pokemones, config.objetivo[e])
           l == [e \in Entrenador |-> copia(e)]
           I == {e \in Entrenador : esta_en_deadlock(e)}
<1>1. Entrenador = 1..Len(config.objetivo) /\ Len(config.objetivo) \in Nat
  BY EscenarioTipo DEF Tipos, Entrenador
<1>2. ASSUME NEW e \in Entrenador PROVE copia(e) \in S
  <2> DEFINE r == sumarizar_pokemones(ent[e].pokemones)
  <2>1. config.objetivo[e] \in Listado /\ r \in Listado
    BY FichaDe, SumarizarTipo
  <2>2. copia(e) = [id |-> e, pokemones |-> pokemones_de_mas(r, config.objetivo[e]),
                    objetivo |-> objetivos_pendientes(r, config.objetivo[e])]
    BY DEF copia_DL
  <2> HIDE DEF r
  <2>3. /\ pokemones_de_mas(r, config.objetivo[e]) \in Listado
        /\ objetivos_pendientes(r, config.objetivo[e]) \in Listado
    BY <2>1, DeMasTipo, PendientesTipo
  <2> QED BY <2>2, <2>3
<1>3. entrenadores_en_deadlock = Elegidos(l, I)
  BY DEF entrenadores_en_deadlock
<1> HIDE DEF S, copia, I
<1>4. l \in Seq(S) /\ Len(l) = Len(config.objetivo) /\ \A e \in 1..Len(l) : l[e] \in S
  <2>1. l \in [1..Len(config.objetivo) -> S]
    BY <1>1, <1>2
  <2> HIDE DEF l
  <2> QED BY <1>1, <2>1
<1> HIDE DEF l
<1>5. Elegidos(l, I) \in Seq(S)
  BY <1>1, <1>4, ElegidosTipo
<1> QED BY <1>3, <1>5 DEF S

LEMMA DetectarInv ==
  ASSUME IInv, NEW t \in Entrenador \cup {Detector}, Detectar(t)
  PROVE  IInv'
<1>1. Tipos
  BY DEF IInv
<1> DEFINE dl == entrenadores_en_deadlock
           n == Len(config.objetivo)
<1>2. PICK basura \in BOOLEAN :
        LET b == buscar_deadlocks(dl, n, intentos, basura)
            x == elegir_intercambio(dl, b.encontrados)
        IN  IF b.nulo \/ x = SinIntercambio THEN Segfault
            ELSE /\ pendiente' = [pendiente EXCEPT ![t] =
                      [e1 |-> dl[x.e1].id, e2 |-> dl[x.e2].id,
                       nombre |-> pokemon_que_sirve(dl[x.e1].objetivo, dl[x.e2].pokemones)[1].nombre]]
                 /\ intentos' = b.intentos
                 /\ ent' = Sumarizadas(t, "resolver")
                 /\ UNCHANGED <<config, sem, colaVars, mensajesVars, proceso_ejecutando, capturaVars,
                                servicio, vivo>>
  BY DEF Detectar
<1> DEFINE b == buscar_deadlocks(dl, n, intentos, basura)
           x == elegir_intercambio(dl, b.encontrados)
           q == pokemon_que_sirve(dl[x.e1].objetivo, dl[x.e2].pokemones)
           nuevo == [e1 |-> dl[x.e1].id, e2 |-> dl[x.e2].id, nombre |-> q[1].nombre]
<1>3. CASE b.nulo \/ x = SinIntercambio
  <2>1. Segfault
    BY <1>2, <1>3
  <2> QED BY <2>1, SegfaultInv
<1>4. CASE ~b.nulo /\ x # SinIntercambio
  <2>1. /\ pendiente' = [pendiente EXCEPT ![t] = nuevo]
        /\ ent' = Sumarizadas(t, "resolver")
        /\ UNCHANGED <<config, sem, cola_ready, ubicados, hilos, proceso_ejecutando, catches, servicio, vivo>>
    BY <1>2, <1>4 DEF colaVars, mensajesVars, capturaVars
  <2>2. nuevo \in [e1 : Entrenador, e2 : Entrenador, nombre : Nombres]
    <3>1. /\ dl \in Seq([id : Entrenador, pokemones : Listado, objetivo : Listado])
          /\ Len(dl) > 1 /\ n \in Nat
      BY <1>1, EnDeadlockTipo, EscenarioTipo DEF Detectar, Tipos
    <3> HIDE DEF dl, n
    <3>2. Len(dl) \in Nat /\ DOMAIN dl = 1..Len(dl)
          /\ \A k \in 1..Len(dl) : dl[k] \in [id : Entrenador, pokemones : Listado, objetivo : Listado]
      BY <3>1, SecuenciaTipo
    <3>3. b.encontrados \in Seq(Seq(1..Len(dl)))
      BY <1>4, <3>1, <3>2, BuscarTipo
    <3> HIDE DEF b
    <3>4. x.e1 \in 1..Len(dl) /\ x.e2 \in 1..Len(dl) /\ estan_unidos(dl[x.e1], dl[x.e2])
      BY <1>4, <3>1, <3>2, <3>3, ElegirTipo
    <3> HIDE DEF x
    <3>5. /\ dl[x.e1].id \in Entrenador /\ dl[x.e2].id \in Entrenador
          /\ dl[x.e1].objetivo \in Listado /\ dl[x.e2].pokemones \in Listado
      BY <3>2, <3>4
    <3>6. q \in Listado /\ q # <<>>
      BY <3>4, <3>5, SirveTipo DEF estan_unidos
    <3>7. q[1].nombre \in Nombres
      <4> HIDE DEF q
      <4> QED BY <3>6, PrimeroTipo
    <3> HIDE DEF q
    <3> QED BY <3>5, <3>7
  <2> HIDE DEF nuevo
  <2>3. PendienteTipo'
    BY <1>1, <2>1, <2>2 DEF Tipos, PendienteTipo, Entrenador, Detector
  <2>4. EntTipo' /\ TratoHecho' /\ SinEntrar
    BY <1>1, <2>1, SumarizadasInv
  <2>5. ColaConItems'
    BY <2>1, MarcoCola
  <2> QED BY <1>1, <2>1, <2>3, <2>4, <2>5, Marco, MarcoSinCatch
<1> QED BY <1>3, <1>4

LEMMA resolver_deadlockInv ==
  ASSUME IInv, NEW t \in Entrenador \cup {Detector}, resolver_deadlock(t)
  PROVE  IInv'
<1>1. Tipos
  BY DEF IInv
<1>2. UNCHANGED <<config, ubicados, hilos, proceso_ejecutando, catches, vivo>>
  BY DEF resolver_deadlock, mensajesVars, capturaVars
<1>3. ServicioTipo' /\ servicio'.planifica = servicio.planifica
  BY <1>1, <1>2, TerminadaTipo DEF resolver_deadlock
<1>4. PendienteTipo'
  BY <1>1, <1>2 DEF Tipos, PendienteTipo, Entrenador, resolver_deadlock
<1> DEFINE x == pendiente[t]
           vuelta == IF t = Detector THEN ent ELSE [ent EXCEPT ![t].pc = "vuelta"]
<1>5. x \in [e1 : Entrenador, e2 : Entrenador, nombre : Nombres]
  BY <1>1 DEF Tipos, PendienteTipo, resolver_deadlock
<1>6. /\ vuelta \in [Entrenador -> Ficha(config)]
      /\ \A f \in Entrenador : /\ vuelta[f].pc = ent[f].pc \/ vuelta[f].pc = "vuelta"
                               /\ vuelta[f].trato = ent[f].trato
                               /\ vuelta[f].semaforo = ent[f].semaforo /\ ent[f].semaforo \in Nat
  <2>1. ent \in [Entrenador -> Ficha(config)] /\ \A f \in Entrenador : ent[f].semaforo \in Nat
    BY <1>1, FichaDe DEF Tipos, EntTipo
  <2>2. CASE t = Detector
    BY <2>1, <2>2
  <2>3. CASE t # Detector
    <3> DEFINE ficha == [ent[t] EXCEPT !.pc = "vuelta"]
    <3>1. t \in Entrenador /\ vuelta = [ent EXCEPT ![t] = ficha]
      BY <2>3
    <3>2. /\ ficha \in Ficha(config) /\ ficha.pc = "vuelta" /\ ficha.trato = ent[t].trato
          /\ ficha.semaforo = ent[t].semaforo
      BY <2>1, <3>1 DEF Ficha, Lugares
    <3> HIDE DEF ficha, vuelta
    <3> QED BY <2>1, <3>1, <3>2
  <2> QED BY <2>2, <2>3
<1> HIDE DEF vuelta
<1>7. CASE ent' = vuelta /\ UNCHANGED <<sem, colaVars>>
  <2>1. EntTipo' /\ TratoHecho' /\ SinEntrar
    BY <1>1, <1>2, <1>6, <1>7, EntVuelta
  <2>2. ColaConItems'
    BY <1>3, <1>7, MarcoCola DEF colaVars
  <2> QED BY <1>1, <1>2, <1>3, <1>4, <1>7, <2>1, <2>2, Marco, MarcoSinCatch DEF colaVars
<1>8. CASE Encolar(x.e1, [vuelta EXCEPT
             ![x.e1].estado = "READY",
             ![x.e1].destino = get_pokemon_team(x.nombre, 0, ent[x.e2].posicion)])
  <2> DEFINE destino == get_pokemon_team(x.nombre, 0, ent[x.e2].posicion)
             e == x.e1
             ficha == [vuelta[e] EXCEPT !.estado = "READY", !.destino = destino]
  <2>1. e \in Entrenador /\ destino \in Destinos
    <3>1. e \in Entrenador /\ x.e2 \in Entrenador /\ x.nombre \in Nombres
      BY <1>5
    <3> HIDE DEF x, e
    <3>2. ent[x.e2].posicion \in Int
      BY <1>1, <3>1, FichaDe
    <3> QED BY <3>1, <3>2 DEF Destinos, get_pokemon_team
  <2>2. Encolar(e, [vuelta EXCEPT ![e] = ficha])
    BY <1>8
  <2> HIDE DEF destino, e
  <2>3. vuelta[e] \in Ficha(config)
    BY <1>6, <2>1
  <2>4. /\ ficha \in Ficha(config) /\ ficha.pc = vuelta[e].pc /\ ficha.trato = vuelta[e].trato
        /\ ficha.semaforo = vuelta[e].semaforo
    BY <2>1, <2>3 DEF Ficha, Estados
  <2> HIDE DEF ficha
  <2>5. /\ ent' = [vuelta EXCEPT ![e] = ficha] /\ ent' \in [Entrenador -> Ficha(config)]
        /\ \A f \in Entrenador : /\ ent'[f].pc = vuelta[f].pc /\ ent'[f].trato = vuelta[f].trato
                                 /\ ent'[f].semaforo = vuelta[f].semaforo
    BY <1>6, <2>1, <2>2, <2>4 DEF Encolar
  <2>6. \A f \in Entrenador : /\ ent'[f].pc = ent[f].pc \/ ent'[f].pc = "vuelta"
                              /\ ent'[f].trato = ent[f].trato
                              /\ ent'[f].semaforo = ent[f].semaforo /\ ent[f].semaforo \in Nat
    BY <1>6, <2>5
  <2>7. EntTipo' /\ TratoHecho' /\ SinEntrar
    BY <1>1, <1>2, <2>5, <2>6, EntVuelta
  <2>8. ColaTipo' /\ ColaConItems' /\ SemTipo'
    BY <1>2, <1>3, <2>1, <2>2, EncolarInv
  <2> QED BY <1>1, <1>2, <1>3, <1>4, <2>7, <2>8, Marco, MarcoSinCatch
<1> QED BY <1>7, <1>8 DEF resolver_deadlock, vuelta

-----------------------------------------------------------------------------
(* The CATCH and its answer *)

LEMMA CatchesDe ==
  ASSUME Tipos
  PROVE  /\ catches \in Seq(CatchDe(config)) /\ Len(catches) \in Nat /\ DOMAIN catches = 1..Len(catches)
         /\ \A c \in DOMAIN catches :
              /\ catches[c] \in CatchDe(config) /\ catches[c].entrenador \in Entrenador
              /\ catches[c].guardado \in BOOLEAN /\ catches[c].estado \in Respuestas
<1>1. catches \in Seq(CatchDe(config))
  BY DEF Tipos, CatchesTipo
<1>2. Len(catches) \in Nat /\ DOMAIN catches = 1..Len(catches)
      /\ \A c \in DOMAIN catches : catches[c] \in CatchDe(config)
  BY <1>1, SecuenciaTipo
<1>3. \A x \in CatchDe(config) :
        x.entrenador \in Entrenador /\ x.guardado \in BOOLEAN /\ x.estado \in Respuestas
  BY DEF CatchDe, Entrenador
<1> QED BY <1>1, <1>2, <1>3

\* The parts of the invariant, put together again after a step of a CATCH.
LEMMA MarcoCatch ==
  ASSUME IInv, UNCHANGED <<config, sem, cola_ready, ubicados, hilos, servicio, pendiente,
                           proceso_ejecutando, vivo>>,
         EntTipo', TratoHecho', CatchesTipo', UltimoSinRegistrar', EsperaConRespuesta'
  PROVE  IInv'
<1>1. Tipos
  BY DEF IInv
<1>2. ColaConItems'
  BY MarcoCola
<1>3. Tipos'
  BY <1>1, Marco DEF Tipos
<1> QED BY <1>2, <1>3 DEF IInv

\* Trainer e goes to place pc, which is one of the two around the note of the id.
LEMMA MudarFicha ==
  ASSUME Tipos, config' = config, NEW e \in Entrenador, NEW pc \in {"registrar", "caught"},
         ent' = [ent EXCEPT ![e].pc = pc]
  PROVE  /\ EntTipo' /\ TratoHecho'
         /\ \A f \in Entrenador : /\ ent'[f].pc = IF f = e THEN pc ELSE ent[f].pc
                                  /\ ent'[f].semaforo = ent[f].semaforo
<1> DEFINE ficha == [ent[e] EXCEPT !.pc = pc]
<1>1. ent \in [Entrenador -> Ficha(config)] /\ Entrenador' = Entrenador
  BY DEF Tipos, EntTipo, Entrenador
<1>2. ficha \in Ficha(config) /\ ficha.pc = pc /\ ficha.semaforo = ent[e].semaforo
  BY <1>1 DEF Ficha, Lugares
<1>3. ent' = [ent EXCEPT ![e] = ficha]
  OBVIOUS
<1> HIDE DEF ficha
<1>4. /\ ent' \in [Entrenador -> Ficha(config)]
      /\ \A f \in Entrenador : ent'[f] = IF f = e THEN ficha ELSE ent[f]
  BY <1>1, <1>2, <1>3
<1>5. EntTipo'
  BY <1>1, <1>4 DEF EntTipo
<1>6. TratoHecho'
  BY <1>1, <1>2, <1>4 DEF Tipos, TratoHecho, Tratando
<1>7. \A f \in Entrenador : /\ ent'[f].pc = IF f = e THEN pc ELSE ent[f].pc
                            /\ ent'[f].semaforo = ent[f].semaforo
  BY <1>2, <1>4
<1> QED BY <1>5, <1>6, <1>7

LEMMA EnviarCatchInv ==
  ASSUME IInv, NEW e \in Entrenador, EnviarCatch(e)
  PROVE  IInv'
<1>1. Tipos
  BY DEF IInv
<1> DEFINE nuevo == [entrenador |-> e, nombre |-> ent[e].destino.nombre, guardado |-> FALSE,
                     estado |-> "enviado"]
           n == Len(catches)
<1>2. /\ UNCHANGED <<config, sem, cola_ready, ubicados, hilos, servicio, pendiente,
                     proceso_ejecutando, vivo>>
      /\ catches' = Append(catches, nuevo) /\ ent' = [ent EXCEPT ![e].pc = "registrar"]
      /\ Entrenador' = Entrenador
  BY DEF EnviarCatch, colaVars, mensajesVars, deadlockVars, Entrenador
<1>3. nuevo \in CatchDe(config) /\ nuevo.entrenador = e /\ ~nuevo.guardado /\ nuevo.estado = "enviado"
  BY <1>1, FichaDe DEF CatchDe, Respuestas, EnviarCatch, Entrenador
<1> HIDE DEF nuevo
<1>4. /\ catches' \in Seq(CatchDe(config)) /\ n \in Nat /\ DOMAIN catches = 1..n
      /\ DOMAIN catches' = 1..(n + 1) /\ catches'[n + 1] = nuevo
      /\ \A c \in 1..n : catches'[c] = catches[c]
  <2>1. catches \in Seq(CatchDe(config)) /\ n \in Nat /\ DOMAIN catches = 1..n
    BY <1>1, CatchesDe
  <2> QED BY <1>2, <1>3, <2>1
<1>5. /\ EntTipo' /\ TratoHecho'
      /\ \A f \in Entrenador : /\ ent'[f].pc = IF f = e THEN "registrar" ELSE ent[f].pc
                               /\ ent'[f].semaforo = ent[f].semaforo
  BY <1>1, <1>2, MudarFicha
<1> HIDE DEF n
<1>6. CatchesTipo'
  BY <1>2, <1>4 DEF CatchesTipo
<1>7. UltimoSinRegistrar'
  <2> SUFFICES ASSUME NEW f \in Entrenador, ent'[f].pc = "registrar"
               PROVE  \E c \in DOMAIN catches' :
                        ElUltimo(c, f)' /\ ~catches'[c].guardado
                        /\ catches'[c].estado \in {"enviado", "descartado"}
    BY <1>2 DEF UltimoSinRegistrar
  <2>1. CASE f = e
    <3>1. PICK d \in DOMAIN catches' : d = n + 1
      BY <1>4
    <3>2. catches'[d] = nuevo /\ \A i \in DOMAIN catches' : i <= d
      BY <1>4, <3>1
    <3>3. ElUltimo(d, f)'
      BY <1>3, <2>1, <3>2 DEF ElUltimo
    <3> QED BY <1>3, <3>2, <3>3
  <2>2. CASE f # e
    <3>1. ent[f].pc = "registrar"
      BY <1>5, <2>2
    <3>2. PICK c \in DOMAIN catches :
            ElUltimo(c, f) /\ ~catches[c].guardado /\ catches[c].estado \in {"enviado", "descartado"}
      BY <3>1 DEF IInv, UltimoSinRegistrar
    <3>3. c \in 1..n /\ c \in DOMAIN catches' /\ catches'[c] = catches[c]
      BY <1>4
    <3>4. \A i \in DOMAIN catches' : catches'[i].entrenador = f => i \in 1..n
      BY <1>3, <1>4, <2>2
    <3>5. ElUltimo(c, f)'
      BY <1>4, <3>2, <3>3, <3>4 DEF ElUltimo
    <3> QED BY <3>2, <3>3, <3>5
  <2> QED BY <2>1, <2>2
<1>8. EsperaConRespuesta'
  BY <1>2, <1>4, <1>5 DEF IInv, EsperaConRespuesta
<1> QED BY <1>2, <1>5, <1>6, <1>7, <1>8, MarcoCatch

LEMMA RegistrarCatchInv ==
  ASSUME IInv, NEW e \in Entrenador, RegistrarCatch(e)
  PROVE  IInv'
<1>1. Tipos
  BY DEF IInv
<1> DEFINE suyos == {i \in DOMAIN catches : catches[i].entrenador = e}
           c == Max(suyos)
           x == [catches[c] EXCEPT !.guardado = TRUE]
<1>2. /\ UNCHANGED <<config, sem, cola_ready, ubicados, hilos, servicio, pendiente,
                     proceso_ejecutando, vivo>>
      /\ catches' = [catches EXCEPT ![c] = x] /\ ent' = [ent EXCEPT ![e].pc = "caught"]
      /\ Entrenador' = Entrenador
  BY DEF RegistrarCatch, colaVars, mensajesVars, deadlockVars, Entrenador
<1>3. ElUltimo(c, e) /\ catches[c].estado \in {"enviado", "descartado"}
  <2>1. PICK d \in DOMAIN catches : ElUltimo(d, e) /\ catches[d].estado \in {"enviado", "descartado"}
    BY DEF IInv, UltimoSinRegistrar, RegistrarCatch
  <2>2. d \in suyos /\ \A i \in suyos : i <= d
    BY <2>1 DEF ElUltimo
  <2>3. suyos \subseteq Nat
    BY <1>1, CatchesDe
  <2>4. Max(suyos) = d
    <3> HIDE DEF suyos
    <3>1. \A k \in suyos : (\A i \in suyos : k >= i) => k = d
      BY <2>2, <2>3
    <3>2. \A i \in suyos : d >= i
      BY <2>2, <2>3
    <3> QED BY <2>2, <3>1, <3>2 DEF Max
  <2> QED BY <2>1, <2>4
<1> HIDE DEF c
<1>4. c \in DOMAIN catches /\ catches[c].entrenador = e
  BY <1>3 DEF ElUltimo
<1>5. catches[c] \in CatchDe(config) /\ catches \in Seq(CatchDe(config))
  BY <1>1, <1>4, CatchesDe
<1>6. x \in CatchDe(config) /\ x.entrenador = e /\ x.estado = catches[c].estado
  BY <1>4, <1>5 DEF CatchDe
<1> HIDE DEF x
<1>7. /\ catches' \in Seq(CatchDe(config)) /\ DOMAIN catches' = DOMAIN catches
      /\ \A i \in DOMAIN catches : catches'[i] = IF i = c THEN x ELSE catches[i]
  BY <1>2, <1>4, <1>5, <1>6
<1>8. /\ EntTipo' /\ TratoHecho'
      /\ \A f \in Entrenador : /\ ent'[f].pc = IF f = e THEN "caught" ELSE ent[f].pc
                               /\ ent'[f].semaforo = ent[f].semaforo
  BY <1>1, <1>2, MudarFicha
<1>9. CatchesTipo'
  BY <1>2, <1>7 DEF CatchesTipo
<1>10. UltimoSinRegistrar'
  <2> SUFFICES ASSUME NEW f \in Entrenador, ent'[f].pc = "registrar"
               PROVE  \E d \in DOMAIN catches' :
                        ElUltimo(d, f)' /\ ~catches'[d].guardado
                        /\ catches'[d].estado \in {"enviado", "descartado"}
    BY <1>2 DEF UltimoSinRegistrar
  <2>1. f # e /\ ent[f].pc = "registrar"
    BY <1>8
  <2>2. PICK d \in DOMAIN catches :
          ElUltimo(d, f) /\ ~catches[d].guardado /\ catches[d].estado \in {"enviado", "descartado"}
    BY <2>1 DEF IInv, UltimoSinRegistrar
  <2>3. d # c
    BY <1>4, <2>1, <2>2 DEF ElUltimo
  <2>4. ElUltimo(d, f)'
    BY <1>4, <1>6, <1>7, <2>2, <2>3 DEF ElUltimo
  <2> QED BY <1>7, <2>2, <2>3, <2>4
<1>11. EsperaConRespuesta'
  <2> SUFFICES ASSUME NEW f \in Entrenador, ent'[f].pc = "caught", ~(ent'[f].semaforo > 0)
               PROVE  \E d \in DOMAIN catches' :
                        /\ catches'[d].entrenador = f
                        /\ \/ catches'[d].estado \in {"enviado", "atrapado", "escapado"}
                           \/ catches'[d].estado = "descartado" \/ ~catches'[d].guardado
    BY <1>2 DEF EsperaConRespuesta
  <2>1. CASE f = e
    BY <1>3, <1>4, <1>6, <1>7, <2>1
  <2>2. CASE f # e
    <3>1. PICK d \in DOMAIN catches :
            /\ catches[d].entrenador = f
            /\ \/ catches[d].estado \in {"enviado", "atrapado", "escapado"}
               \/ catches[d].estado = "descartado" \/ ~catches[d].guardado
      BY <1>8, <2>2 DEF IInv, EsperaConRespuesta
    <3> QED BY <1>4, <1>7, <2>2, <3>1
  <2> QED BY <2>1, <2>2
<1> QED BY <1>2, <1>8, <1>9, <1>10, <1>11, MarcoCatch

LEMMA PerderAckInv ==
  ASSUME IInv, NEW e \in Entrenador, PerderAck(e)
  PROVE  IInv'
<1>1. Tipos
  BY DEF IInv
<1>2. /\ UNCHANGED <<config, sem, cola_ready, ubicados, hilos, servicio, pendiente, catches,
                     proceso_ejecutando, vivo>>
      /\ ent' = [ent EXCEPT ![e].pc = "caught"]
      /\ Entrenador' = Entrenador
  BY DEF PerderAck, colaVars, mensajesVars, deadlockVars, Entrenador
<1>3. /\ EntTipo' /\ TratoHecho'
      /\ \A f \in Entrenador : /\ ent'[f].pc = IF f = e THEN "caught" ELSE ent[f].pc
                               /\ ent'[f].semaforo = ent[f].semaforo
  BY <1>1, <1>2, MudarFicha
<1>4. CatchesTipo'
  BY <1>1, <1>2, Marco
<1>5. \E c \in DOMAIN catches : catches[c].entrenador = e /\ ~catches[c].guardado
  BY DEF IInv, UltimoSinRegistrar, ElUltimo, PerderAck
<1>6. UltimoSinRegistrar'
  BY <1>2, <1>3 DEF IInv, UltimoSinRegistrar, ElUltimo
<1>7. EsperaConRespuesta'
  BY <1>2, <1>3, <1>5 DEF IInv, EsperaConRespuesta
<1> QED BY <1>2, <1>3, <1>4, <1>6, <1>7, MarcoCatch

LEMMA ResponderInv ==
  ASSUME IInv, NEW c \in DOMAIN catches, NEW atrapado \in BOOLEAN, Responder(c, atrapado)
  PROVE  IInv'
<1>1. Tipos
  BY DEF IInv
<1> DEFINE estado == IF ~catches[c].guardado THEN "descartado"
                     ELSE IF atrapado THEN "atrapado" ELSE "escapado"
           x == [catches[c] EXCEPT !.estado = estado]
<1>2. /\ UNCHANGED <<config, ent, sem, cola_ready, ubicados, hilos, servicio, pendiente,
                     proceso_ejecutando, vivo>>
      /\ catches' = [catches EXCEPT ![c] = x] /\ Entrenador' = Entrenador
  BY DEF Responder, colaVars, mensajesVars, deadlockVars, Entrenador
<1>3. /\ estado \in {"descartado", "atrapado", "escapado"}
      /\ ~catches[c].guardado => estado = "descartado"
  OBVIOUS
<1>4. catches[c] \in CatchDe(config) /\ catches \in Seq(CatchDe(config))
  BY <1>1, CatchesDe
<1> HIDE DEF estado
<1>5. /\ x \in CatchDe(config) /\ x.entrenador = catches[c].entrenador /\ x.estado = estado
      /\ x.guardado = catches[c].guardado
  BY <1>3, <1>4 DEF CatchDe, Respuestas
<1> HIDE DEF x
<1>6. /\ catches' \in Seq(CatchDe(config)) /\ DOMAIN catches' = DOMAIN catches
      /\ \A i \in DOMAIN catches : catches'[i] = IF i = c THEN x ELSE catches[i]
  BY <1>2, <1>4, <1>5
<1>7. CatchesTipo' /\ EntTipo' /\ TratoHecho'
  BY <1>1, <1>2, <1>6, Marco DEF CatchesTipo
<1>8. UltimoSinRegistrar'
  <2> SUFFICES ASSUME NEW f \in Entrenador, ent[f].pc = "registrar"
               PROVE  \E d \in DOMAIN catches' :
                        ElUltimo(d, f)' /\ ~catches'[d].guardado
                        /\ catches'[d].estado \in {"enviado", "descartado"}
    BY <1>2 DEF UltimoSinRegistrar
  <2>1. PICK d \in DOMAIN catches :
          ElUltimo(d, f) /\ ~catches[d].guardado /\ catches[d].estado \in {"enviado", "descartado"}
    BY DEF IInv, UltimoSinRegistrar
  <2>2. ElUltimo(d, f)'
    BY <1>5, <1>6, <2>1 DEF ElUltimo
  <2> QED BY <1>3, <1>5, <1>6, <2>1, <2>2
<1>9. EsperaConRespuesta'
  <2> SUFFICES ASSUME NEW f \in Entrenador, ent[f].pc = "caught", ~(ent[f].semaforo > 0)
               PROVE  \E d \in DOMAIN catches' :
                        /\ catches'[d].entrenador = f
                        /\ \/ catches'[d].estado \in {"enviado", "atrapado", "escapado"}
                           \/ catches'[d].estado = "descartado" \/ ~catches'[d].guardado
    BY <1>2 DEF EsperaConRespuesta
  <2>1. PICK d \in DOMAIN catches :
          /\ catches[d].entrenador = f
          /\ \/ catches[d].estado \in {"enviado", "atrapado", "escapado"}
             \/ catches[d].estado = "descartado" \/ ~catches[d].guardado
    BY DEF IInv, EsperaConRespuesta
  <2> QED BY <1>3, <1>5, <1>6, <2>1
<1> QED BY <1>2, <1>7, <1>8, <1>9, MarcoCatch

LEMMA recibidor_mensajes_caughtInv ==
  ASSUME IInv, NEW c \in DOMAIN catches, recibidor_mensajes_caught(c)
  PROVE  IInv'
<1>1. Tipos
  BY DEF IInv
<1> DEFINE e == catches[c].entrenador
           atrapado == catches[c].estado = "atrapado"
           estado == IF atrapado THEN "acreditado" ELSE "fin"
           x == [catches[c] EXCEPT !.estado = estado]
           lista == IF atrapado THEN Append(ent[e].pokemones, get_pokemon(ent[e].destino.nombre))
                    ELSE ent[e].pokemones
           s == ent[e].semaforo + 1
           ficha == [ent[e] EXCEPT !.pokemones = lista, !.destino = Nulo, !.ocupado = FALSE, !.semaforo = s]
<1>2. /\ UNCHANGED <<config, sem, cola_ready, ubicados, hilos, servicio, pendiente,
                     proceso_ejecutando, vivo>>
      /\ catches' = [catches EXCEPT ![c] = x] /\ Entrenador' = Entrenador
      /\ ent' = [ent EXCEPT ![e] = ficha]
      /\ catches[c].estado \in {"atrapado", "escapado"}
  BY DEF recibidor_mensajes_caught, colaVars, mensajesVars, deadlockVars, Entrenador
<1>3. /\ e \in Entrenador /\ catches[c] \in CatchDe(config) /\ catches \in Seq(CatchDe(config))
  BY <1>1, CatchesDe
<1>4. lista \in Listado
  <2>1. atrapado => ent[e].destino # Nulo
    BY DEF recibidor_mensajes_caught
  <2> HIDE DEF e, atrapado
  <2> QED BY <1>1, <1>3, <2>1, FichaDe, AgregarTipo
<1>5. s \in Nat /\ s > 0 /\ s >= ent[e].semaforo
  <2> HIDE DEF e
  <2> QED BY <1>1, <1>3, FichaDe
<1>6. estado \in {"acreditado", "fin"}
  OBVIOUS
<1> HIDE DEF estado, lista, s
<1>7. x \in CatchDe(config) /\ x.entrenador = e
  BY <1>3, <1>6 DEF CatchDe, Respuestas
<1> HIDE DEF x
<1>8. /\ catches' \in Seq(CatchDe(config)) /\ DOMAIN catches' = DOMAIN catches
      /\ \A i \in DOMAIN catches : catches'[i] = IF i = c THEN x ELSE catches[i]
  BY <1>2, <1>3, <1>7
<1>9. CatchesTipo'
  BY <1>2, <1>8 DEF CatchesTipo
<1>10. /\ ficha \in Ficha(config) /\ ficha.pc = ent[e].pc /\ ficha.trato = ent[e].trato
       /\ ficha.semaforo = s
  <2> HIDE DEF e
  <2> QED BY <1>1, <1>3, <1>4, <1>5, FichaDe DEF Ficha
<1> HIDE DEF e, ficha, atrapado
<1>11. EntTipo' /\ TratoHecho'
  BY <1>1, <1>2, <1>3, <1>5, <1>10, FichaQuieta
<1>12. \A f \in Entrenador : /\ ent'[f].pc = ent[f].pc
                             /\ f # e => ent'[f].semaforo = ent[f].semaforo
                             /\ f = e => ent'[f].semaforo > 0
  <2>1. ent \in [Entrenador -> Ficha(config)]
    BY <1>1 DEF Tipos, EntTipo
  <2> QED BY <1>2, <1>3, <1>5, <1>10, <2>1
<1>13. UltimoSinRegistrar'
  <2> SUFFICES ASSUME NEW f \in Entrenador, ent[f].pc = "registrar"
               PROVE  \E d \in DOMAIN catches' :
                        ElUltimo(d, f)' /\ ~catches'[d].guardado
                        /\ catches'[d].estado \in {"enviado", "descartado"}
    BY <1>2, <1>12 DEF UltimoSinRegistrar
  <2>1. PICK d \in DOMAIN catches :
          ElUltimo(d, f) /\ ~catches[d].guardado /\ catches[d].estado \in {"enviado", "descartado"}
    BY DEF IInv, UltimoSinRegistrar
  <2>2. d # c
    BY <1>2, <2>1
  <2>3. \A i \in DOMAIN catches : catches'[i].entrenador = catches[i].entrenador
    BY <1>7, <1>8 DEF e
  <2>4. ElUltimo(d, f)'
    BY <1>8, <2>1, <2>3 DEF ElUltimo
  <2> QED BY <1>8, <2>1, <2>2, <2>4
<1>14. EsperaConRespuesta'
  <2> SUFFICES ASSUME NEW f \in Entrenador, ent'[f].pc = "caught", ~(ent'[f].semaforo > 0)
               PROVE  \E d \in DOMAIN catches' :
                        /\ catches'[d].entrenador = f
                        /\ \/ catches'[d].estado \in {"enviado", "atrapado", "escapado"}
                           \/ catches'[d].estado = "descartado" \/ ~catches'[d].guardado
    BY <1>2 DEF EsperaConRespuesta
  <2>1. f # e /\ ent[f].pc = "caught" /\ ~(ent[f].semaforo > 0)
    BY <1>12
  <2>2. PICK d \in DOMAIN catches :
          /\ catches[d].entrenador = f
          /\ \/ catches[d].estado \in {"enviado", "atrapado", "escapado"}
             \/ catches[d].estado = "descartado" \/ ~catches[d].guardado
    BY <2>1 DEF IInv, EsperaConRespuesta
  <2>3. d # c
    BY <2>1, <2>2 DEF e
  <2> QED BY <1>8, <2>2, <2>3
<1> QED BY <1>2, <1>9, <1>11, <1>13, <1>14, MarcoCatch

-----------------------------------------------------------------------------
(* The invariant holds, and what follows from it *)

LEMMA IInvInicial ==
  ASSUME Init
  PROVE  IInv
<1>1. config \in Escenarios /\ \A e \in Entrenador :
        config.pokemones[e] \in Listado /\ config.posicion[e] \in Int
  BY EscenarioTipo DEF Init, Entrenador
<1> DEFINE lista(e) == sumarizar_pokemones(config.pokemones[e])
<1>2. \A e \in Entrenador : lista(e) \in Listado
  BY <1>1, SumarizarTipo
<1>3. ent = [e \in Entrenador |->
               [estado |-> "NEW", ocupado |-> FALSE, destino |-> Nulo, posicion |-> config.posicion[e],
                pokemones |-> lista(e), semaforo |-> 0, pc |-> "vuelta", movimientos |-> 0,
                trato |-> SinTrato, estimado |-> FALSE]]
  BY DEF Init
<1> HIDE DEF lista
<1>4. config.quantum \in Nat /\ Len(config.objetivo) \in Nat
  BY <1>1, EscenarioTipo
<1>5. EntTipo
  <2>1. 0 \in 0..config.quantum
    BY <1>4
  <2> QED BY <1>1, <1>2, <1>3, <2>1 DEF EntTipo, Ficha, Estados, Lugares, SinTrato
<1>6. \A e \in Entrenador : ent[e].pc = "vuelta"
  BY <1>3
<1>7. TratoHecho /\ UltimoSinRegistrar /\ EsperaConRespuesta
  BY <1>6 DEF TratoHecho, Tratando, UltimoSinRegistrar, EsperaConRespuesta
<1>8. ColaTipo /\ UbicadosTipo /\ CatchesTipo
  BY DEF Init, ColaTipo, UbicadosTipo, CatchesTipo
<1>9. SemTipo
  BY DEF Init, SemTipo, Semaforos
<1>10. HilosTipo
  BY DEF Init, HilosTipo, Atencion
<1>11. ServicioTipo
  BY <1>4 DEF Init, ServicioTipo
<1>12. PendienteTipo
  BY DEF Init, PendienteTipo
<1>13. ColaConItems
  BY DEF Init, ColaConItems
<1>14. Tipos
  BY <1>1, <1>5, <1>7, <1>8, <1>9, <1>10, <1>11, <1>12 DEF Tipos, Init
<1> QED BY <1>7, <1>13, <1>14 DEF IInv

LEMMA HiloEntrenadorInv ==
  ASSUME IInv, NEW e \in Entrenador, HiloEntrenador(e)
  PROVE  IInv'
<1>1. CASE SinDestino(e) \/ IntercambioNulo(e)
  BY <1>1, SegfaultInv DEF SinDestino, IntercambioNulo
<1> QED BY <1>1, CumplirObjetivoInv, VolverAEsperarInv, DespertarInv, ejecutaInv, TerminarQuantumInv,
           PedirReplanificacionInv, SeguirODejarInv, LlegarInv, SalirDeExecInv, EnviarCatchInv,
           RegistrarCatchInv, EsperarCaughtInv, EvaluarInv, ProponerIntercambioInv,
           RecibirPokemonInv, QuitarAlOtroInv, EntregarPokemonInv, QuitarLoEntregadoInv,
           LiberarEntrenadorInv, LiberarAlOtroInv
        DEF HiloEntrenador, Intercambiar

LEMMA HilosDeServicioInv ==
  ASSUME IInv, HiloPlanificador \/ HiloReplanificarSjfcd \/ HiloReplanificar
  PROVE  IInv'
<1>1. CASE EstimarSinDestino \/ CompararSinCola
  BY <1>1, SegfaultInv DEF EstimarSinDestino, CompararSinCola
<1>2. CASE HiloPlanificador /\ ~EstimarSinDestino
  BY <1>2, TomarItemInv, planificar_fifoInv, planificarInv DEF HiloPlanificador
<1>3. CASE HiloReplanificarSjfcd /\ ~CompararSinCola
  BY <1>3, SeguirEjecutandoInv, DesalojarInv DEF HiloReplanificarSjfcd
<1>4. CASE HiloReplanificar
  BY <1>4, hilo_replanificarInv, ReplanificarSinInicializarInv, replanificar_entrenadorInv
     DEF HiloReplanificar
<1> QED BY <1>1, <1>2, <1>3, <1>4

LEMMA HiloDeMensajeInv ==
  ASSUME IInv, NEW m \in HiloMensaje, HiloDeMensaje(m)
  PROVE  IInv'
<1>1. CASE PosicionNula(m)
  BY <1>1, SegfaultInv DEF PosicionNula
<1> QED BY <1>1, ElegirAppearedInv, AsignarAppearedInv, ValidarLocalizedInv, ElegirLocalizedInv,
           AsignarLocalizedInv DEF HiloDeMensaje

LEMMA HiloCaughtInv ==
  ASSUME IInv, NEW c \in DOMAIN catches, HiloCaught(c)
  PROVE  IInv'
<1>1. CASE CaughtSinDestino(c)
  BY <1>1, SegfaultInv DEF CaughtSinDestino
<1> QED BY <1>1, ResponderInv, recibidor_mensajes_caughtInv DEF HiloCaught

LEMMA hilo_exitInv ==
  ASSUME IInv, hilo_exit
  PROVE  IInv'
<1>1. Tipos
  BY DEF IInv
<1>2. /\ UNCHANGED <<config, ent, sem, cola_ready, ubicados, hilos, proceso_ejecutando, catches, servicio,
                     pendiente>>
      /\ vivo' = "fin"
  BY DEF hilo_exit, colaVars, mensajesVars, capturaVars, deadlockVars
<1>3. UltimoSinRegistrar' /\ EsperaConRespuesta'
  BY <1>1, <1>2, EntIgual, MarcoEspera
<1>4. ColaConItems'
  BY <1>2, MarcoCola
<1>5. Tipos'
  BY <1>1, <1>2, Marco DEF Tipos
<1> QED BY <1>3, <1>4, <1>5 DEF IInv

LEMMA HilosInv ==
  ASSUME IInv, Hilos
  PROVE  IInv'
BY HiloEntrenadorInv, HilosDeServicioInv, HiloDeMensajeInv, HiloCaughtInv, AvisarDetectorInv,
   DetectarNadaInv, resolver_deadlockInv, hilo_exitInv DEF Hilos

LEMMA IInvPaso ==
  ASSUME IInv, [Next]_vars
  PROVE  IInv'
<1>1. CASE Hilos
  BY <1>1, HilosInv
<1>2. CASE \E t \in Entrenador \cup {Detector} : Detectar(t)
  BY <1>2, DetectarInv
<1>3. CASE Falla
  BY <1>3, CapturarSinBrokerInv, PerderAckInv DEF Falla
<1>4. CASE UNCHANGED vars
  <2>1. Tipos /\ config' = config /\ ent' = ent
    BY <1>4 DEF IInv, vars
  <2>2. EntTipo' /\ TratoHecho' /\ SinEntrar
    BY <2>1, EntIgual
  <2>3. SemTipo'
    BY <1>4, <2>1, Marco DEF vars
  <2>4. proceso_ejecutando' \in {0} \cup Entrenador
    BY <1>4, <2>1 DEF vars, Tipos
  <2> QED BY <1>4, <2>2, <2>3, <2>4, MarcoEnt DEF vars
<1> QED BY <1>1, <1>2, <1>3, <1>4 DEF Next

\* Whatever the team, the algorithm and the messages, every step of every
\* thread keeps the four parts of the invariant: types (with the loop of a
\* LOCALIZED inside its list and every exchange with another trainer), the
\* queue behind its semaphore, the last CATCH of a trainer that has not noted
\* its id without a used answer, and the wait for a CAUGHT with a token or an
\* answer on its way or lost.
THEOREM InvarianteDelTeam == Spec => []IInv
<1>1. Init => IInv
  BY IInvInicial
<1>2. IInv /\ [Next]_vars => IInv'
  BY IInvPaso
<1> QED BY <1>1, <1>2, PTL DEF Spec

LEMMA TypeOKDelInvariante ==
  ASSUME IInv
  PROVE  TypeOK
<1>1. Tipos
  BY DEF IInv
<1>2. ASSUME NEW e \in Entrenador
      PROVE  /\ ent[e].estado \in Estados /\ ent[e].pc \in Lugares /\ ent[e].semaforo \in Nat
             /\ ent[e].movimientos \in 0..config.quantum
             /\ \A i \in DOMAIN ent[e].pokemones : ent[e].pokemones[i].cantidad \in Nat \ {0}
  <2>1. ent[e] \in Ficha(config) /\ ent[e].pokemones \in Listado
    BY <1>1, FichaDe
  <2>2. \A i \in DOMAIN ent[e].pokemones : ent[e].pokemones[i].cantidad \in Nat \ {0}
    BY <2>1, ElementoTipo
  <2> QED BY <2>1, <2>2 DEF Ficha
<1>3. Listas
  BY <1>2 DEF Listas
<1>4. \A m \in HiloMensaje : hilos[m].paso \in {"nuevo", "elegir", "asignar", "fin"}
  BY <1>1, AtencionDe DEF Atencion
<1>5. \A c \in DOMAIN catches : catches[c].estado \in Respuestas
  BY <1>1, CatchesDe
<1>6. servicio.avisos \in 0..Len(config.objetivo)
  BY <1>1 DEF Tipos, ServicioTipo
<1>7. cola_ready \in Seq(Entrenador) /\ sem \in Semaforos
  BY <1>1, SemDe DEF Tipos, ColaTipo
<1> QED BY <1>1, <1>2, <1>3, <1>4, <1>5, <1>6, <1>7
        DEF TypeOK, Tipos, Estados, Lugares, Respuestas, Semaforos

\* No semaphore goes below zero, no thread is out of place, the queue holds
\* trainers only, and no element of a list counts nothing, though an exchange
\* takes from one list and adds to another.
THEOREM TypeOKSiempre == Spec => []TypeOK
<1>1. IInv => TypeOK
  BY TypeOKDelInvariante
<1> QED BY <1>1, InvarianteDelTeam, PTL

\* hilo_planificador never takes a trainer out of an empty queue: every post
\* of s_cola_ready_con_items, by whichever of the five kinds of thread that
\* queue a trainer, has a trainer behind it.
THEOREM ColaConItemsSiempre == Spec => []ColaConItems
<1>1. IInv => ColaConItems
  BY DEF IInv
<1> QED BY <1>1, InvarianteDelTeam, PTL

\* generar_y_enviar_catch and hilo_suscriptor_caught: a trainer waits in vain
\* only for an answer that came before its id was kept, or an id that never came.
THEOREM EsperaConRespuestaSiempre == Spec => []EsperaConRespuesta
<1>1. IInv => EsperaConRespuesta
  BY DEF IInv
<1> QED BY <1>1, InvarianteDelTeam, PTL

-----------------------------------------------------------------------------
(* The permits to move: s_procesos_en_exec, and the tokens of the semaphore *)
(* of a trainer that the planner or the answer to its CATCH posts           *)

\* The CATCH of e that have no answer yet, or one nobody has read.
Pendientes(e) ==
  {c \in DOMAIN catches : catches[c].entrenador = e /\ catches[c].estado \in {"enviado", "atrapado", "escapado"}}

\* The tokens that e has, is sure to get, and will spend on the answer.
Enviada(e) == IF Pendientes(e) = {} THEN 0 ELSE 1
Deuda(e) == IF ent[e].pc \in {"registrar", "caught"} THEN 1 ELSE 0
Credito(e) == ent[e].semaforo + Enviada(e) - Deuda(e)

\* The permits to move that e has or may yet come to have.
Permisos(e) ==
  (IF Credito(e) > 0 THEN Credito(e) ELSE 0) + (IF ent[e].pc \in {"mover", "llego"} THEN 1 ELSE 0)

\* One permit in all, s_procesos_en_exec or the token of one trainer, and one
\* CATCH at most for each trainer: what keeps UnoALaVez.
EnTurno ==
  /\ sem.sjfcd = 0 /\ \A e \in Entrenador : ent[e].pc # "decision"
  /\ \A e \in Entrenador : Permisos(e) + sem.en_exec <= 1
  /\ \A e, f \in Entrenador : e # f => Permisos(e) = 0 \/ Permisos(f) = 0
  /\ \A e \in Entrenador : \A c, d \in Pendientes(e) : c = d
  /\ \A e \in Entrenador : ent[e].pc = "capturar" => Pendientes(e) = {}
  /\ \A e \in Entrenador : pendiente[e] # SinIntercambio => ent[e].pc = "resolver"

SinDesalojo == algoritmo # "SJF-CD"

\* What the count is made of.
CuentaTipo ==
  /\ sem.en_exec \in Nat
  /\ \A e \in Entrenador :
       /\ Enviada(e) \in {0, 1} /\ Deuda(e) \in {0, 1} /\ ent[e].semaforo \in Nat
       /\ Permisos(e) \in Nat

LEMMA PermisosNat == Tipos => CuentaTipo
<1> SUFFICES ASSUME Tipos, NEW e \in Entrenador
    PROVE  /\ Enviada(e) \in {0, 1} /\ Deuda(e) \in {0, 1} /\ ent[e].semaforo \in Nat
           /\ Permisos(e) \in Nat /\ sem.en_exec \in Nat
  BY SemDe DEF CuentaTipo
<1>1. ent[e].semaforo \in Nat /\ sem.en_exec \in Nat
  BY FichaDe, SemDe
<1>2. Enviada(e) \in {0, 1} /\ Deuda(e) \in {0, 1}
  BY DEF Enviada, Deuda
<1>3. Credito(e) \in Int
  BY <1>1, <1>2 DEF Credito
<1> QED BY <1>1, <1>2, <1>3 DEF Permisos

LEMMA CuentaAntesYDespues ==
  ASSUME Tipos, Tipos'
  PROVE  CuentaTipo /\ CuentaTipo'
<1>1. CuentaTipo
  BY PermisosNat
<1>2. (Tipos => CuentaTipo)'
  BY PermisosNat, PTL
<1> QED BY <1>1, <1>2

\* Nobody gets a permit, and no permit is given back.
LEMMA TurnoIgual ==
  ASSUME Tipos, Tipos', EnTurno, config' = config, sem'.en_exec = sem.en_exec, sem'.sjfcd = sem.sjfcd,
         \A f \in Entrenador :
           /\ Permisos(f)' <= Permisos(f) /\ Pendientes(f)' \subseteq Pendientes(f)
           /\ ent'[f].pc # "decision" /\ (ent'[f].pc = "capturar" => ent[f].pc = "capturar")
           /\ pendiente'[f] # SinIntercambio => ent'[f].pc = "resolver"
  PROVE  EnTurno'
<1>1. Entrenador' = Entrenador
  BY DEF Entrenador
<1>2. \A f \in Entrenador : Permisos(f) \in Nat
  BY CuentaAntesYDespues DEF CuentaTipo
<1>3. \A f \in Entrenador : Permisos(f)' \in Nat
  BY <1>1, CuentaAntesYDespues DEF CuentaTipo
<1>4. sem.en_exec \in Nat
  BY SemDe
<1>5. (sem.sjfcd = 0 /\ \A e \in Entrenador : ent[e].pc # "decision")'
  BY <1>1 DEF EnTurno
<1>6. (\A e \in Entrenador : Permisos(e) + sem.en_exec <= 1)'
  BY <1>1, <1>2, <1>3, <1>4 DEF EnTurno
<1>7. (\A e, f \in Entrenador : e # f => Permisos(e) = 0 \/ Permisos(f) = 0)'
  BY <1>1, <1>2, <1>3 DEF EnTurno
<1>8. (\A e \in Entrenador : \A c, d \in Pendientes(e) : c = d)'
  BY <1>1 DEF EnTurno
<1>9. (\A e \in Entrenador : ent[e].pc = "capturar" => Pendientes(e) = {})'
  BY <1>1 DEF EnTurno
<1>10. (\A e \in Entrenador : pendiente[e] # SinIntercambio => ent[e].pc = "resolver")'
  BY <1>1 DEF EnTurno
<1> QED BY <1>5, <1>6, <1>7, <1>8, <1>9, <1>10 DEF EnTurno

LEMMA PermisosIguales ==
  ASSUME NEW f, ent'[f].pc = ent[f].pc, ent'[f].semaforo = ent[f].semaforo,
         Pendientes(f)' = Pendientes(f)
  PROVE  Permisos(f)' = Permisos(f)
BY DEF Permisos, Credito, Enviada, Deuda

\* The places where the count looks.
Contados == {"mover", "llego", "capturar", "registrar", "caught", "decision"}

\* Nothing of trainer f that the count looks at changes.
Sigue(f) ==
  /\ ent'[f].semaforo = ent[f].semaforo
  /\ ent'[f].pc = ent[f].pc \/ (ent[f].pc \notin Contados /\ ent'[f].pc \notin Contados)
  /\ pendiente'[f] # SinIntercambio => ent'[f].pc = "resolver"

LEMMA PendientesIguales ==
  ASSUME catches' = catches
  PROVE  \A f : Pendientes(f)' = Pendientes(f)
BY DEF Pendientes

LEMMA TurnoQuieto ==
  ASSUME Tipos, Tipos', EnTurno, config' = config, catches' = catches,
         sem'.en_exec = sem.en_exec, sem'.sjfcd = sem.sjfcd, \A f \in Entrenador : Sigue(f)
  PROVE  EnTurno'
<1> SUFFICES ASSUME NEW f \in Entrenador
    PROVE  /\ Permisos(f)' <= Permisos(f) /\ Pendientes(f)' \subseteq Pendientes(f)
           /\ ent'[f].pc # "decision" /\ (ent'[f].pc = "capturar" => ent[f].pc = "capturar")
           /\ pendiente'[f] # SinIntercambio => ent'[f].pc = "resolver"
  BY TurnoIgual
<1>1. Pendientes(f)' = Pendientes(f)
  BY PendientesIguales
<1>2. Sigue(f) /\ ent[f].pc # "decision"
  BY DEF EnTurno
<1>3. Permisos(f) \in Nat
  BY CuentaAntesYDespues DEF CuentaTipo
<1>4. Permisos(f)' = Permisos(f)
  BY <1>1, <1>2 DEF Sigue, Contados, Permisos, Credito, Enviada, Deuda
<1> QED BY <1>1, <1>2, <1>3, <1>4 DEF Sigue, Contados

\* One trainer changes, and only itself.
SoloCambia(e) == \A f \in Entrenador \ {e} : ent'[f] = ent[f]

LEMMA TurnoDeUno ==
  ASSUME Tipos, Tipos', EnTurno, UNCHANGED <<config, catches, pendiente>>,
         sem'.en_exec = sem.en_exec, sem'.sjfcd = sem.sjfcd,
         NEW e \in Entrenador, SoloCambia(e), Permisos(e)' <= Permisos(e),
         ent'[e].pc \notin {"decision", "capturar"}, ent[e].pc # "resolver"
  PROVE  EnTurno'
<1> SUFFICES ASSUME NEW f \in Entrenador
    PROVE  /\ Permisos(f)' <= Permisos(f) /\ Pendientes(f)' \subseteq Pendientes(f)
           /\ ent'[f].pc # "decision" /\ (ent'[f].pc = "capturar" => ent[f].pc = "capturar")
           /\ pendiente'[f] # SinIntercambio => ent'[f].pc = "resolver"
  BY TurnoIgual
<1>1. Pendientes(f)' = Pendientes(f)
  BY PendientesIguales
<1>2. Permisos(f) \in Nat
  BY CuentaAntesYDespues DEF CuentaTipo
<1>3. CASE f = e
  BY <1>1, <1>3 DEF EnTurno
<1>4. CASE f # e
  <2>1. ent'[f] = ent[f]
    BY <1>4 DEF SoloCambia
  <2>2. Permisos(f)' = Permisos(f)
    BY <1>1, <2>1, PermisosIguales
  <2> QED BY <1>1, <1>2, <2>1, <2>2 DEF EnTurno
<1> QED BY <1>3, <1>4

\* Steps in which the trainer keeps its place in the count.
Discretos(e) ==
  \/ CumplirObjetivo(e)
  \/ VolverAEsperar(e)
  \/ ejecuta(e)
  \/ Evaluar(e)
  \/ ProponerIntercambio(e)

LEMMA EntDe ==
  ASSUME Tipos
  PROVE  ent \in [Entrenador -> Ficha(config)]
BY DEF Tipos, EntTipo

LEMMA DespertarTurno ==
  ASSUME Tipos, Tipos', EnTurno, NEW e \in Entrenador, Despertar(e)
  PROVE  EnTurno'
<1>1. /\ ent[e].pc = "esperar" /\ ent[e].semaforo > 0 /\ SoloCambia(e)
      /\ ent'[e].semaforo = ent[e].semaforo - 1 /\ ent'[e].pc \in {"vuelta", "mover"}
  BY EntDe DEF Ficha, Despertar, SoloCambia
<1>2. Pendientes(e)' = Pendientes(e)
  BY PendientesIguales DEF Despertar, capturaVars
<1>3. Permisos(e)' <= Permisos(e)
  <2>1. Enviada(e)' = Enviada(e) /\ Enviada(e) \in {0, 1} /\ ent[e].semaforo \in Nat
    BY <1>2, CuentaAntesYDespues DEF Enviada, CuentaTipo
  <2>2. Deuda(e) = 0 /\ Deuda(e)' = 0
    BY <1>1 DEF Deuda
  <2>3. Credito(e) > 0 /\ Credito(e)' = Credito(e) - 1 /\ Credito(e) \in Int
    BY <1>1, <2>1, <2>2 DEF Credito
  <2> QED BY <1>1, <2>3 DEF Permisos
<1> QED BY <1>1, <1>3, TurnoDeUno DEF Despertar, capturaVars, deadlockVars

LEMMA LlegarTurno ==
  ASSUME Tipos, Tipos', EnTurno, NEW e \in Entrenador, Llegar(e)
  PROVE  EnTurno'
<1>1. /\ ent[e].pc = "mover" /\ SoloCambia(e)
      /\ ent'[e].semaforo = ent[e].semaforo /\ ent'[e].pc = "llego"
  BY EntDe DEF Ficha, Llegar, SoloCambia
<1>2. Pendientes(e)' = Pendientes(e)
  BY PendientesIguales DEF Llegar, capturaVars
<1>3. Permisos(e)' <= Permisos(e)
  <2>1. Permisos(e)' = Permisos(e) /\ Permisos(e) \in Nat
    BY <1>1, <1>2, CuentaAntesYDespues DEF Permisos, Credito, Enviada, Deuda, CuentaTipo
  <2> QED BY <2>1
<1> QED BY <1>1, <1>3, TurnoDeUno DEF Llegar, capturaVars, deadlockVars

LEMMA EsperarCaughtTurno ==
  ASSUME Tipos, Tipos', EnTurno, NEW e \in Entrenador, EsperarCaught(e)
  PROVE  EnTurno'
<1>1. /\ ent[e].pc = "caught" /\ ent[e].semaforo > 0 /\ SoloCambia(e)
      /\ ent'[e].semaforo = ent[e].semaforo - 1 /\ ent'[e].pc = "evaluar"
  BY EntDe DEF Ficha, EsperarCaught, SoloCambia
<1>2. Pendientes(e)' = Pendientes(e)
  BY PendientesIguales DEF EsperarCaught, capturaVars
<1>3. Permisos(e)' <= Permisos(e)
  <2>1. Enviada(e)' = Enviada(e) /\ Enviada(e) \in {0, 1} /\ ent[e].semaforo \in Nat
    BY <1>2, CuentaAntesYDespues DEF Enviada, CuentaTipo
  <2>2. Deuda(e) = 1 /\ Deuda(e)' = 0
    BY <1>1 DEF Deuda
  <2>3. Credito(e)' = Credito(e) /\ Credito(e) \in Int
    BY <1>1, <2>1, <2>2 DEF Credito
  <2> QED BY <1>1, <2>3 DEF Permisos
<1> QED BY <1>1, <1>3, TurnoDeUno DEF EsperarCaught, capturaVars, deadlockVars

LEMMA PerderAckTurno ==
  ASSUME Tipos, Tipos', EnTurno, NEW e \in Entrenador, PerderAck(e)
  PROVE  EnTurno'
<1>1. /\ ent[e].pc = "registrar" /\ SoloCambia(e)
      /\ ent'[e].semaforo = ent[e].semaforo /\ ent'[e].pc = "caught"
  BY EntDe DEF Ficha, PerderAck, SoloCambia
<1>2. Pendientes(e)' = Pendientes(e)
  BY PendientesIguales DEF PerderAck
<1>3. Permisos(e)' <= Permisos(e)
  <2>1. Permisos(e)' = Permisos(e) /\ Permisos(e) \in Nat
    BY <1>1, <1>2, CuentaAntesYDespues DEF Permisos, Credito, Enviada, Deuda, CuentaTipo
  <2> QED BY <2>1
<1> QED BY <1>1, <1>3, TurnoDeUno DEF PerderAck, deadlockVars

LEMMA CapturarSinBrokerTurno ==
  ASSUME Tipos, Tipos', EnTurno, NEW e \in Entrenador, CapturarSinBroker(e)
  PROVE  EnTurno'
<1>1. /\ ent[e].pc = "capturar" /\ SoloCambia(e)
      /\ ent'[e].semaforo = ent[e].semaforo /\ ent'[e].pc = "evaluar"
  BY EntDe DEF Ficha, CapturarSinBroker, SoloCambia
<1>2. Pendientes(e)' = Pendientes(e)
  BY PendientesIguales DEF CapturarSinBroker
<1>3. Permisos(e)' <= Permisos(e)
  <2>1. Permisos(e)' = Permisos(e) /\ Permisos(e) \in Nat
    BY <1>1, <1>2, CuentaAntesYDespues DEF Permisos, Credito, Enviada, Deuda, CuentaTipo
  <2> QED BY <2>1
<1> QED BY <1>1, <1>3, TurnoDeUno DEF CapturarSinBroker, deadlockVars

LEMMA DiscretosTurno ==
  ASSUME Tipos, Tipos', EnTurno, NEW e \in Entrenador, Discretos(e)
  PROVE  EnTurno'
<1>1. /\ UNCHANGED <<config, catches, pendiente>>
      /\ sem'.en_exec = sem.en_exec /\ sem'.sjfcd = sem.sjfcd
  BY SemDe DEF Discretos, CumplirObjetivo, VolverAEsperar, ejecuta, Evaluar, ProponerIntercambio,
       capturaVars, deadlockVars, Semaforos
<1> SUFFICES ASSUME NEW f \in Entrenador PROVE Sigue(f)
  BY <1>1, TurnoQuieto
<1>2. /\ ent'[f].semaforo = ent[f].semaforo
      /\ ent'[f].pc = ent[f].pc \/ (/\ ent[f].pc \in {"vuelta", "evaluar", "intercambiar"}
                                    /\ ent'[f].pc \in {"fin", "esperar", "vuelta", "detectar", "ciclos"})
  <2>1. CASE CumplirObjetivo(e)
    BY <2>1, EntDe DEF CumplirObjetivo, Ficha
  <2>2. CASE VolverAEsperar(e)
    BY <2>2, EntDe DEF VolverAEsperar, Ficha
  <2>3. CASE ejecuta(e)
    BY <2>3, EntDe DEF ejecuta, Ficha
  <2>4. CASE Evaluar(e)
    BY <2>4, EntDe DEF Evaluar, Ficha
  <2>5. CASE ProponerIntercambio(e)
    <3> DEFINE g == get_entrenador_intercambio(e)
               nada == Ofrecido(e, g) = <<>> \/ ent[e].destino = Nulo
               lugar == IF nada THEN "detectar" ELSE "ciclos"
               trato == IF nada THEN SinTrato
                        ELSE [con |-> g, queme_sirve |-> ent[e].destino.nombre,
                              quele_sirve |-> Ofrecido(e, g)[1].nombre]
               destino == IF Ofrecido(e, g) = <<>> THEN Nulo
                          ELSE get_pokemon_team(Ofrecido(e, g)[1].nombre, 0, ent[e].posicion)
    <3>1. /\ ent[e].pc = "intercambiar" /\ lugar \in {"detectar", "ciclos"}
          /\ ent' = [ent EXCEPT ![e].pc = lugar, ![e].trato = trato, ![g].ocupado = TRUE,
                                ![g].destino = destino]
      BY <2>5 DEF ProponerIntercambio
    <3> HIDE DEF g, lugar, trato, destino
    <3> QED BY <3>1, EntDe DEF Ficha
  <2> QED BY <2>1, <2>2, <2>3, <2>4, <2>5 DEF Discretos
<1>3. pendiente'[f] # SinIntercambio => ent[f].pc = "resolver"
  BY <1>1 DEF EnTurno
<1> QED BY <1>2, <1>3 DEF Sigue, Contados

\* A trainer gives back its permit.
LEMMA SoltarTurno ==
  ASSUME Tipos, Tipos', EnTurno, UNCHANGED <<config, catches, pendiente>>,
         sem'.en_exec = sem.en_exec + 1, sem'.sjfcd = sem.sjfcd,
         NEW e \in Entrenador, SoloCambia(e), ent[e].pc \in {"mover", "llego"},
         ent'[e].semaforo = ent[e].semaforo, ent'[e].pc \in {"vuelta", "capturar", "intercambiar"}
  PROVE  EnTurno'
<1>1. Entrenador' = Entrenador /\ \A f \in Entrenador : Pendientes(f)' = Pendientes(f)
  BY PendientesIguales DEF Entrenador
<1>2. CuentaTipo /\ CuentaTipo'
  BY CuentaAntesYDespues
<1>3. /\ Permisos(e) = 1 /\ sem.en_exec = 0
      /\ Credito(e) <= 0 /\ ent[e].semaforo = 0 /\ Enviada(e) = 0 /\ Pendientes(e) = {}
  <2>1. Credito(e) = ent[e].semaforo + Enviada(e)
    BY <1>2 DEF Credito, Deuda, CuentaTipo
  <2>2. Permisos(e) + sem.en_exec <= 1
    BY DEF EnTurno
  <2>3. Permisos(e) = (IF Credito(e) > 0 THEN Credito(e) ELSE 0) + 1
    BY DEF Permisos
  <2> QED BY <1>2, <2>1, <2>2, <2>3 DEF CuentaTipo, Enviada
<1>4. Permisos(e)' = 0
  <2>1. Enviada(e)' = 0 /\ Deuda(e)' = 0 /\ ent'[e].semaforo = 0
    BY <1>1, <1>3 DEF Enviada, Deuda
  <2>2. Credito(e)' = 0
    BY <2>1 DEF Credito
  <2> QED BY <2>2 DEF Permisos
<1>5. ASSUME NEW f \in Entrenador, f # e
      PROVE  ent'[f] = ent[f] /\ Permisos(f)' = 0
  <2>1. ent'[f] = ent[f]
    BY <1>5 DEF SoloCambia
  <2>2. Permisos(f)' = Permisos(f)
    BY <1>1, <2>1, PermisosIguales
  <2>3. Permisos(f) = 0
    BY <1>3, <1>5 DEF EnTurno
  <2> QED BY <2>1, <2>2, <2>3
<1>6. (sem.sjfcd = 0 /\ \A f \in Entrenador : ent[f].pc # "decision")'
  BY <1>1, <1>5 DEF EnTurno
<1>7. (\A f \in Entrenador : Permisos(f) + sem.en_exec <= 1)'
  BY <1>1, <1>3, <1>4, <1>5
<1>8. (\A f, g \in Entrenador : f # g => Permisos(f) = 0 \/ Permisos(g) = 0)'
  BY <1>1, <1>4, <1>5
<1>9. (\A f \in Entrenador : \A c, d \in Pendientes(f) : c = d)'
  BY <1>1 DEF EnTurno
<1>10. (\A f \in Entrenador : ent[f].pc = "capturar" => Pendientes(f) = {})'
  BY <1>1, <1>3, <1>5 DEF EnTurno
<1>11. (\A f \in Entrenador : pendiente[f] # SinIntercambio => ent[f].pc = "resolver")'
  BY <1>1, <1>5 DEF EnTurno
<1> QED BY <1>6, <1>7, <1>8, <1>9, <1>10, <1>11 DEF EnTurno

LEMMA SalirDeExecTurno ==
  ASSUME Tipos, Tipos', EnTurno, NEW e \in Entrenador, SalirDeExec(e)
  PROVE  EnTurno'
<1>1. /\ ent[e].pc = "llego" /\ SoloCambia(e)
      /\ ent'[e].semaforo = ent[e].semaforo /\ ent'[e].pc \in {"capturar", "intercambiar"}
  BY EntDe DEF Ficha, SalirDeExec, SoloCambia
<1>2. sem'.en_exec = sem.en_exec + 1 /\ sem'.sjfcd = sem.sjfcd
  BY SemDe DEF SalirDeExec, Semaforos
<1> QED BY <1>1, <1>2, SoltarTurno DEF SalirDeExec, capturaVars, deadlockVars

LEMMA TerminarQuantumTurno ==
  ASSUME Tipos, Tipos', EnTurno, NEW e \in Entrenador, TerminarQuantum(e)
  PROVE  EnTurno'
<1>1. /\ ent[e].pc = "mover" /\ SoloCambia(e)
      /\ ent'[e].semaforo = ent[e].semaforo /\ ent'[e].pc = "vuelta"
  BY EntDe DEF Ficha, TerminarQuantum, SoloCambia
<1>2. sem'.en_exec = sem.en_exec + 1 /\ sem'.sjfcd = sem.sjfcd
  BY SemDe DEF TerminarQuantum, Semaforos
<1> QED BY <1>1, <1>2, SoltarTurno DEF TerminarQuantum, capturaVars, deadlockVars

-----------------------------------------------------------------------------
(* What the steps of a CATCH do to those that are pending *)

\* A CATCH keeps its trainer and its pokemon.
MismosCatch ==
  \A c \in DOMAIN catches :
    /\ c \in DOMAIN catches' /\ catches'[c].entrenador = catches[c].entrenador
    /\ catches'[c].nombre = catches[c].nombre

LEMMA EnviarCatchEfecto ==
  ASSUME Tipos, NEW e \in Entrenador, EnviarCatch(e)
  PROVE  \E n :
           /\ n \notin DOMAIN catches /\ DOMAIN catches' = DOMAIN catches \cup {n}
           /\ \A c \in DOMAIN catches : catches'[c] = catches[c]
           /\ catches'[n].nombre = ent[e].destino.nombre /\ catches'[n].estado = "enviado"
           /\ Pendientes(e)' = Pendientes(e) \cup {n}
           /\ \A f \in Entrenador \ {e} : Pendientes(f)' = Pendientes(f)
<1> DEFINE nuevo == [entrenador |-> e, nombre |-> ent[e].destino.nombre, guardado |-> FALSE,
                     estado |-> "enviado"]
           n == Len(catches)
<1>1. catches \in Seq(CatchDe(config)) /\ n \in Nat /\ DOMAIN catches = 1..n
  BY CatchesDe
<1>2. catches' = Append(catches, nuevo)
  BY DEF EnviarCatch
<1>3. nuevo \in CatchDe(config) /\ nuevo.entrenador = e /\ nuevo.estado = "enviado"
      /\ nuevo.nombre = ent[e].destino.nombre
  BY FichaDe DEF CatchDe, Respuestas, EnviarCatch, Entrenador
<1> HIDE DEF nuevo
<1>4. /\ DOMAIN catches' = 1..(n + 1) /\ catches'[n + 1] = nuevo
      /\ \A c \in 1..n : catches'[c] = catches[c]
  BY <1>1, <1>2, <1>3
<1> HIDE DEF n
<1>5. /\ n + 1 \notin DOMAIN catches /\ DOMAIN catches' = DOMAIN catches \cup {n + 1}
      /\ \A c \in DOMAIN catches : catches'[c] = catches[c]
  BY <1>1, <1>4
<1>6. Pendientes(e)' = Pendientes(e) \cup {n + 1}
  BY <1>3, <1>4, <1>5 DEF Pendientes
<1>7. ASSUME NEW f \in Entrenador \ {e} PROVE Pendientes(f)' = Pendientes(f)
  BY <1>3, <1>4, <1>5 DEF Pendientes
<1> QED BY <1>3, <1>4, <1>5, <1>6, <1>7

LEMMA RegistrarCatchEfecto ==
  ASSUME IInv, NEW e \in Entrenador, RegistrarCatch(e)
  PROVE  /\ MismosCatch /\ \A f : Pendientes(f)' = Pendientes(f)
         /\ \A c \in DOMAIN catches : catches'[c].estado = catches[c].estado
         /\ DOMAIN catches' = DOMAIN catches
<1>0. Tipos
  BY DEF IInv
<1> DEFINE c == Max({i \in DOMAIN catches : catches[i].entrenador = e})
<1>1. catches' = [catches EXCEPT ![c].guardado = TRUE]
  BY DEF RegistrarCatch
<1> HIDE DEF c
<1>2. /\ DOMAIN catches' = DOMAIN catches
      /\ \A i \in DOMAIN catches : catches[i] \in CatchDe(config)
      /\ \A i \in DOMAIN catches : catches'[i] = IF i = c THEN [catches[i] EXCEPT !.guardado = TRUE]
                                                  ELSE catches[i]
  <2>1. catches \in Seq(CatchDe(config))
    BY <1>0, CatchesDe
  <2> QED BY <1>0, <1>1, <2>1, CatchesDe
<1>3. \A i \in DOMAIN catches : /\ catches'[i].entrenador = catches[i].entrenador
                                /\ catches'[i].nombre = catches[i].nombre
                                /\ catches'[i].estado = catches[i].estado
  BY <1>2 DEF CatchDe
<1>4. \A f : Pendientes(f)' = Pendientes(f)
  BY <1>2, <1>3 DEF Pendientes
<1> QED BY <1>2, <1>3, <1>4 DEF MismosCatch

LEMMA ResponderEfecto ==
  ASSUME Tipos, NEW c \in DOMAIN catches, NEW atrapado \in BOOLEAN, Responder(c, atrapado)
  PROVE  /\ MismosCatch /\ \A f : Pendientes(f)' \subseteq Pendientes(f)
         /\ DOMAIN catches' = DOMAIN catches
         /\ \A i \in DOMAIN catches : catches'[i].estado = catches[i].estado
                                      \/ catches'[i].estado \in {"descartado", "atrapado", "escapado"}
<1> DEFINE estado == IF ~catches[c].guardado THEN "descartado"
                     ELSE IF atrapado THEN "atrapado" ELSE "escapado"
<1>1. /\ catches' = [catches EXCEPT ![c].estado = estado] /\ catches[c].estado = "enviado"
      /\ estado \in {"descartado", "atrapado", "escapado"}
  BY DEF Responder
<1> HIDE DEF estado
<1>2. /\ DOMAIN catches' = DOMAIN catches
      /\ \A i \in DOMAIN catches : catches[i] \in CatchDe(config)
      /\ \A i \in DOMAIN catches : catches'[i] = IF i = c THEN [catches[i] EXCEPT !.estado = estado]
                                                  ELSE catches[i]
  <2>1. catches \in Seq(CatchDe(config))
    BY CatchesDe
  <2> QED BY <1>1, <2>1, CatchesDe
<1>3. \A i \in DOMAIN catches : /\ catches'[i].entrenador = catches[i].entrenador
                                /\ catches'[i].nombre = catches[i].nombre
                                /\ catches'[i].estado = IF i = c THEN estado ELSE catches[i].estado
  BY <1>2 DEF CatchDe
<1>4. \A f : Pendientes(f)' \subseteq Pendientes(f)
  BY <1>1, <1>2, <1>3 DEF Pendientes
<1> QED BY <1>1, <1>2, <1>3, <1>4 DEF MismosCatch

LEMMA recibidor_mensajes_caughtEfecto ==
  ASSUME Tipos, NEW c \in DOMAIN catches, recibidor_mensajes_caught(c),
         NEW e, e = catches[c].entrenador
  PROVE  /\ MismosCatch /\ DOMAIN catches' = DOMAIN catches
         /\ c \in Pendientes(e) /\ Pendientes(e)' = Pendientes(e) \ {c}
         /\ \A f \in Entrenador \ {e} : Pendientes(f)' = Pendientes(f)
         /\ \A i \in DOMAIN catches \ {c} : catches'[i].estado = catches[i].estado
<1> DEFINE estado == IF catches[c].estado = "atrapado" THEN "acreditado" ELSE "fin"
<1>1. /\ catches' = [catches EXCEPT ![c].estado = estado] /\ catches[c].estado \in {"atrapado", "escapado"}
      /\ estado \in {"acreditado", "fin"}
  BY DEF recibidor_mensajes_caught
<1> HIDE DEF estado
<1>2. /\ DOMAIN catches' = DOMAIN catches
      /\ \A i \in DOMAIN catches : catches[i] \in CatchDe(config)
      /\ \A i \in DOMAIN catches : catches'[i] = IF i = c THEN [catches[i] EXCEPT !.estado = estado]
                                                  ELSE catches[i]
  <2>1. catches \in Seq(CatchDe(config))
    BY CatchesDe
  <2> QED BY <1>1, <2>1, CatchesDe
<1>3. \A i \in DOMAIN catches : /\ catches'[i].entrenador = catches[i].entrenador
                                /\ catches'[i].nombre = catches[i].nombre
                                /\ catches'[i].estado = IF i = c THEN estado ELSE catches[i].estado
  BY <1>2 DEF CatchDe
<1>5. \A f : Pendientes(f)' = Pendientes(f) \ {c}
  BY <1>1, <1>2, <1>3 DEF Pendientes
<1>6. c \in Pendientes(e)
  BY <1>1 DEF Pendientes
<1>7. \A f \in Entrenador \ {e} : c \notin Pendientes(f)
  BY DEF Pendientes
<1> QED BY <1>2, <1>3, <1>5, <1>6, <1>7 DEF MismosCatch

LEMMA EnviarCatchTurno ==
  ASSUME Tipos, Tipos', EnTurno, NEW e \in Entrenador, EnviarCatch(e)
  PROVE  EnTurno'
<1>1. /\ ent[e].pc = "capturar" /\ SoloCambia(e)
      /\ ent'[e].semaforo = ent[e].semaforo /\ ent'[e].pc = "registrar"
  BY EntDe DEF Ficha, EnviarCatch, SoloCambia
<1>2. Entrenador' = Entrenador /\ sem' = sem /\ pendiente' = pendiente
  BY DEF EnviarCatch, deadlockVars, Entrenador
<1>3. CuentaTipo /\ CuentaTipo'
  BY CuentaAntesYDespues
<1>4. Pendientes(e) = {}
  BY <1>1 DEF EnTurno
<1>5. PICK n : /\ Pendientes(e)' = Pendientes(e) \cup {n}
               /\ \A f \in Entrenador \ {e} : Pendientes(f)' = Pendientes(f)
  BY EnviarCatchEfecto
<1>6. Permisos(e)' = Permisos(e)
  <2>1. Enviada(e) = 0 /\ Enviada(e)' = 1
    BY <1>4, <1>5 DEF Enviada
  <2>2. Deuda(e) = 0 /\ Deuda(e)' = 1
    BY <1>1 DEF Deuda
  <2>3. Credito(e)' = Credito(e)
    BY <1>1, <1>3, <2>1, <2>2 DEF Credito, CuentaTipo
  <2> QED BY <1>1, <2>3 DEF Permisos
<1>7. ASSUME NEW f \in Entrenador, f # e
      PROVE  ent'[f] = ent[f] /\ Permisos(f)' = Permisos(f) /\ Pendientes(f)' = Pendientes(f)
  <2>1. ent'[f] = ent[f]
    BY <1>1, <1>7 DEF SoloCambia
  <2>2. Pendientes(f)' = Pendientes(f)
    BY <1>5, <1>7
  <2> QED BY <2>1, <2>2, PermisosIguales
<1>8. (sem.sjfcd = 0 /\ \A f \in Entrenador : ent[f].pc # "decision")'
  BY <1>1, <1>2, <1>7 DEF EnTurno
<1>9. (\A f \in Entrenador : Permisos(f) + sem.en_exec <= 1)'
  BY <1>2, <1>6, <1>7 DEF EnTurno
<1>10. (\A f, g \in Entrenador : f # g => Permisos(f) = 0 \/ Permisos(g) = 0)'
  BY <1>2, <1>6, <1>7 DEF EnTurno
<1>11. (\A f \in Entrenador : \A c, d \in Pendientes(f) : c = d)'
  BY <1>2, <1>4, <1>5, <1>7 DEF EnTurno
<1>12. (\A f \in Entrenador : ent[f].pc = "capturar" => Pendientes(f) = {})'
  BY <1>1, <1>2, <1>7 DEF EnTurno
<1>13. (\A f \in Entrenador : pendiente[f] # SinIntercambio => ent[f].pc = "resolver")'
  BY <1>1, <1>2, <1>7 DEF EnTurno
<1> QED BY <1>8, <1>9, <1>10, <1>11, <1>12, <1>13 DEF EnTurno

LEMMA RegistrarCatchTurno ==
  ASSUME IInv, Tipos', EnTurno, NEW e \in Entrenador, RegistrarCatch(e)
  PROVE  EnTurno'
<1>0. Tipos
  BY DEF IInv
<1>1. /\ ent[e].pc = "registrar" /\ SoloCambia(e)
      /\ ent'[e].semaforo = ent[e].semaforo /\ ent'[e].pc = "caught"
  BY <1>0, EntDe DEF Ficha, RegistrarCatch, SoloCambia
<1>2. UNCHANGED <<config, sem, pendiente>>
  BY DEF RegistrarCatch, deadlockVars
<1> SUFFICES ASSUME NEW f \in Entrenador
    PROVE  /\ Permisos(f)' <= Permisos(f) /\ Pendientes(f)' \subseteq Pendientes(f)
           /\ ent'[f].pc # "decision" /\ (ent'[f].pc = "capturar" => ent[f].pc = "capturar")
           /\ pendiente'[f] # SinIntercambio => ent'[f].pc = "resolver"
  BY <1>0, <1>2, TurnoIgual
<1>3. Pendientes(f)' = Pendientes(f)
  BY RegistrarCatchEfecto
<1>4. Permisos(f) \in Nat
  BY <1>0, CuentaAntesYDespues DEF CuentaTipo
<1>5. CASE f = e
  <2>1. Permisos(f)' = Permisos(f)
    BY <1>1, <1>3, <1>5 DEF Permisos, Credito, Enviada, Deuda
  <2> QED BY <1>1, <1>2, <1>3, <1>4, <1>5, <2>1 DEF EnTurno
<1>6. CASE f # e
  <2>1. ent'[f] = ent[f]
    BY <1>1, <1>6 DEF SoloCambia
  <2>2. Permisos(f)' = Permisos(f)
    BY <1>3, <2>1, PermisosIguales
  <2> QED BY <1>2, <1>3, <1>4, <2>1, <2>2 DEF EnTurno
<1> QED BY <1>5, <1>6

LEMMA ResponderTurno ==
  ASSUME Tipos, Tipos', EnTurno, NEW c \in DOMAIN catches, NEW atrapado \in BOOLEAN,
         Responder(c, atrapado)
  PROVE  EnTurno'
<1>1. UNCHANGED <<config, ent, sem, pendiente>>
  BY DEF Responder, deadlockVars
<1> SUFFICES ASSUME NEW f \in Entrenador
    PROVE  /\ Permisos(f)' <= Permisos(f) /\ Pendientes(f)' \subseteq Pendientes(f)
           /\ ent'[f].pc # "decision" /\ (ent'[f].pc = "capturar" => ent[f].pc = "capturar")
           /\ pendiente'[f] # SinIntercambio => ent'[f].pc = "resolver"
  BY <1>1, TurnoIgual
<1>2. Pendientes(f)' \subseteq Pendientes(f)
  BY ResponderEfecto
<1>3. CuentaTipo /\ CuentaTipo'
  BY CuentaAntesYDespues
<1>4. Permisos(f)' <= Permisos(f)
  <2>1. Enviada(f)' <= Enviada(f) /\ Enviada(f) \in Nat /\ Enviada(f)' \in Nat
    BY <1>2 DEF Enviada
  <2>2. Deuda(f)' = Deuda(f)
    BY <1>1 DEF Deuda
  <2>3. ent[f].semaforo \in Nat /\ Deuda(f) \in Nat
    BY <1>3 DEF CuentaTipo
  <2>4. Credito(f)' <= Credito(f) /\ Credito(f) \in Int /\ Credito(f)' \in Int
    BY <1>1, <2>1, <2>2, <2>3 DEF Credito
  <2> QED BY <1>1, <2>4 DEF Permisos
<1> QED BY <1>1, <1>2, <1>4 DEF EnTurno

LEMMA recibidor_mensajes_caughtTurno ==
  ASSUME Tipos, Tipos', EnTurno, NEW c \in DOMAIN catches, recibidor_mensajes_caught(c)
  PROVE  EnTurno'
<1>0. PICK e \in Entrenador : e = catches[c].entrenador
  BY CatchesDe
<1>1. /\ c \in Pendientes(e) /\ Pendientes(e)' = Pendientes(e) \ {c}
      /\ \A f \in Entrenador \ {e} : Pendientes(f)' = Pendientes(f)
  BY <1>0, recibidor_mensajes_caughtEfecto
<1>2. UNCHANGED <<config, sem, pendiente>>
  BY DEF recibidor_mensajes_caught, deadlockVars
<1>3. SoloCambia(e) /\ ent'[e].semaforo = ent[e].semaforo + 1 /\ ent'[e].pc = ent[e].pc
  <2> DEFINE lista == IF catches[c].estado = "atrapado"
                      THEN Append(ent[e].pokemones, get_pokemon(ent[e].destino.nombre))
                      ELSE ent[e].pokemones
  <2>1. ent' = [ent EXCEPT ![e].pokemones = lista, ![e].destino = Nulo, ![e].ocupado = FALSE,
                           ![e].semaforo = @ + 1]
    BY <1>0 DEF recibidor_mensajes_caught
  <2> HIDE DEF lista
  <2> QED BY <2>1, EntDe DEF Ficha, SoloCambia
<1> SUFFICES ASSUME NEW f \in Entrenador
    PROVE  /\ Permisos(f)' <= Permisos(f) /\ Pendientes(f)' \subseteq Pendientes(f)
           /\ ent'[f].pc # "decision" /\ (ent'[f].pc = "capturar" => ent[f].pc = "capturar")
           /\ pendiente'[f] # SinIntercambio => ent'[f].pc = "resolver"
  BY <1>2, TurnoIgual
<1>4. CuentaTipo /\ CuentaTipo'
  BY CuentaAntesYDespues
<1>5. CASE f = e
  <2>1. Pendientes(e)' = {}
    BY <1>1 DEF EnTurno
  <2>2. Enviada(e) = 1 /\ Enviada(e)' = 0
    BY <1>1, <2>1 DEF Enviada
  <2>3. Deuda(e)' = Deuda(e) /\ Deuda(e) \in Nat /\ ent[e].semaforo \in Nat
    BY <1>1, <1>3, <1>4 DEF Deuda, CuentaTipo
  <2>4. Credito(e)' = Credito(e)
    BY <1>3, <2>2, <2>3 DEF Credito
  <2>5. Permisos(e)' = Permisos(e) /\ Permisos(e) \in Nat
    BY <1>1, <1>3, <1>4, <2>4 DEF Permisos, CuentaTipo
  <2> QED BY <1>1, <1>2, <1>3, <1>5, <2>5 DEF EnTurno
<1>6. CASE f # e
  <2>1. ent'[f] = ent[f] /\ Pendientes(f)' = Pendientes(f)
    BY <1>1, <1>3, <1>6 DEF SoloCambia
  <2>2. Permisos(f)' = Permisos(f) /\ Permisos(f) \in Nat
    BY <1>4, <2>1, PermisosIguales DEF CuentaTipo
  <2> QED BY <1>2, <2>1, <2>2 DEF EnTurno
<1> QED BY <1>5, <1>6

-----------------------------------------------------------------------------
(* Steps that at most put trainers in the queue *)

\* Trainer f is left alone or queued.
Enviado(f) ==
  \/ ent'[f] = ent[f]
  \/ /\ ent'[f].pc = ent[f].pc /\ ent'[f].semaforo = ent[f].semaforo
     /\ ent'[f].pokemones = ent[f].pokemones /\ ent'[f].estado = "READY"

SemQuietos == sem'.en_exec = sem.en_exec /\ sem'.sjfcd = sem.sjfcd

Envio ==
  /\ UNCHANGED <<config, catches, pendiente>> /\ SemQuietos
  /\ \A f \in Entrenador : Enviado(f)

LEMMA EncolarEfecto ==
  ASSUME Tipos, NEW e \in Entrenador, NEW ficha, Encolar(e, [ent EXCEPT ![e] = ficha]),
         ficha.pc = ent[e].pc, ficha.semaforo = ent[e].semaforo,
         ficha.pokemones = ent[e].pokemones, ficha.estado = "READY"
  PROVE  SemQuietos /\ \A f \in Entrenador : Enviado(f)
<1>1. SemQuietos
  <2>1. sem' = [sem EXCEPT !.con_items = @ + 1]
    BY DEF Encolar
  <2> QED BY <2>1, SemDe DEF SemQuietos, Semaforos
<1>2. ent' = [ent EXCEPT ![e] = ficha]
  BY DEF Encolar
<1>3. \A f \in Entrenador : Enviado(f)
  BY <1>2, EntDe DEF Enviado
<1> QED BY <1>1, <1>3

LEMMA QuietoEsEnvio ==
  ASSUME UNCHANGED <<config, ent, catches, pendiente>>, SemQuietos
  PROVE  Envio
BY DEF Envio, Enviado

LEMMA replanificar_entrenadorEfecto ==
  ASSUME Tipos, replanificar_entrenador
  PROVE  Envio
<1> DEFINE e == servicio.elegido
           i == get_pokemon_necesario_mas_cercano(ent[e].posicion)
           p == ubicados[i]
           destino == get_pokemon_team(p.nombre, p.origen, p.posicion)
<1>1. e \in Entrenador
  BY DEF Tipos, ServicioTipo, replanificar_entrenador
<1>2. UNCHANGED <<config, catches, pendiente>>
  BY DEF replanificar_entrenador, capturaVars, deadlockVars
<1>3. \/ Encolar(e, [ent EXCEPT ![e].estado = "READY"])
      \/ UNCHANGED <<ent, sem>>
      \/ Encolar(e, [ent EXCEPT ![e].estado = "READY", ![e].destino = destino])
  BY DEF replanificar_entrenador
<1> HIDE DEF e, destino
<1>4. CASE UNCHANGED <<ent, sem>>
  BY <1>2, <1>4, QuietoEsEnvio DEF SemQuietos
<1>5. CASE Encolar(e, [ent EXCEPT ![e].estado = "READY"])
  <2> DEFINE ficha == [ent[e] EXCEPT !.estado = "READY"]
  <2>1. Encolar(e, [ent EXCEPT ![e] = ficha])
    BY <1>5
  <2>2. e \in Entrenador
    BY <1>1
  <2>3. /\ ficha.pc = ent[e].pc /\ ficha.semaforo = ent[e].semaforo
        /\ ficha.pokemones = ent[e].pokemones /\ ficha.estado = "READY"
    BY <2>2, EntDe DEF Ficha
  <2> HIDE DEF ficha
  <2> QED BY <1>2, <2>1, <2>2, <2>3, EncolarEfecto DEF Envio
<1>6. CASE Encolar(e, [ent EXCEPT ![e].estado = "READY", ![e].destino = destino])
  <2> DEFINE ficha == [ent[e] EXCEPT !.estado = "READY", !.destino = destino]
  <2>1. Encolar(e, [ent EXCEPT ![e] = ficha])
    BY <1>6
  <2>2. e \in Entrenador
    BY <1>1
  <2>3. /\ ficha.pc = ent[e].pc /\ ficha.semaforo = ent[e].semaforo
        /\ ficha.pokemones = ent[e].pokemones /\ ficha.estado = "READY"
    BY <2>2, EntDe DEF Ficha
  <2> HIDE DEF ficha
  <2> QED BY <1>2, <2>1, <2>2, <2>3, EncolarEfecto DEF Envio
<1> QED BY <1>3, <1>4, <1>5, <1>6

LEMMA AsignarAppearedEfecto ==
  ASSUME Tipos, NEW m \in HiloMensaje, AsignarAppeared(m)
  PROVE  Envio
<1> DEFINE e == hilos[m].elegido
           p == get_pokemon_team(Mensaje(m).nombre, m, Mensaje(m).posiciones[1])
<1>1. e \in {0} \cup Entrenador
  BY AtencionDe
<1>2. UNCHANGED <<config, catches, pendiente>>
  BY DEF AsignarAppeared, capturaVars, deadlockVars
<1>3. \/ /\ e # 0
         /\ Encolar(e, [ent EXCEPT ![e].estado = "READY", ![e].destino = p, ![e].ocupado = TRUE])
      \/ UNCHANGED <<ent, sem>>
  BY DEF AsignarAppeared
<1> HIDE DEF e, p
<1>4. CASE UNCHANGED <<ent, sem>>
  BY <1>2, <1>4, QuietoEsEnvio DEF SemQuietos
<1>5. CASE e # 0 /\ Encolar(e, [ent EXCEPT ![e].estado = "READY", ![e].destino = p, ![e].ocupado = TRUE])
  <2> DEFINE ficha == [ent[e] EXCEPT !.estado = "READY", !.destino = p, !.ocupado = TRUE]
  <2>1. Encolar(e, [ent EXCEPT ![e] = ficha])
    BY <1>5
  <2>2. e \in Entrenador
    BY <1>1, <1>5
  <2>3. /\ ficha.pc = ent[e].pc /\ ficha.semaforo = ent[e].semaforo
        /\ ficha.pokemones = ent[e].pokemones /\ ficha.estado = "READY"
    BY <2>2, EntDe DEF Ficha
  <2> HIDE DEF ficha
  <2> QED BY <1>2, <2>1, <2>2, <2>3, EncolarEfecto DEF Envio
<1> QED BY <1>3, <1>4, <1>5

LEMMA AsignarLocalizedEfecto ==
  ASSUME Tipos, NEW m \in HiloMensaje, AsignarLocalized(m)
  PROVE  Envio
<1> DEFINE e == hilos[m].elegido
           p == get_pokemon_team(Mensaje(m).nombre, m, hilos[m].lista[hilos[m].i])
<1>1. e \in {0} \cup Entrenador
  BY AtencionDe
<1>2. UNCHANGED <<config, catches, pendiente>>
  BY DEF AsignarLocalized, capturaVars, deadlockVars
<1>3. \/ e # 0 /\ Encolar(e, [ent EXCEPT ![e].estado = "READY", ![e].destino = p])
      \/ UNCHANGED <<ent, sem>>
  BY DEF AsignarLocalized
<1> HIDE DEF e, p
<1>4. CASE UNCHANGED <<ent, sem>>
  BY <1>2, <1>4, QuietoEsEnvio DEF SemQuietos
<1>5. CASE e # 0 /\ Encolar(e, [ent EXCEPT ![e].estado = "READY", ![e].destino = p])
  <2> DEFINE ficha == [ent[e] EXCEPT !.estado = "READY", !.destino = p]
  <2>1. Encolar(e, [ent EXCEPT ![e] = ficha])
    BY <1>5
  <2>2. e \in Entrenador
    BY <1>1, <1>5
  <2>3. /\ ficha.pc = ent[e].pc /\ ficha.semaforo = ent[e].semaforo
        /\ ficha.pokemones = ent[e].pokemones /\ ficha.estado = "READY"
    BY <2>2, EntDe DEF Ficha
  <2> HIDE DEF ficha
  <2> QED BY <1>2, <2>1, <2>2, <2>3, EncolarEfecto DEF Envio
<1> QED BY <1>3, <1>4, <1>5

LEMMA SegfaultEfecto ==
  ASSUME Segfault
  PROVE  Envio
BY QuietoEsEnvio DEF Segfault, SemQuietos

\* The steps that neither move a trainer nor post or spend a token.
Mandados ==
  \/ Segfault \/ hilo_exit \/ AvisarDetector \/ TomarItem \/ HiloReplanificar
  \/ \E m \in HiloMensaje : HiloDeMensaje(m)

LEMMA MandadosEfecto ==
  ASSUME Tipos, Mandados
  PROVE  Envio
<1>1. CASE hilo_exit
  BY <1>1, QuietoEsEnvio DEF hilo_exit, SemQuietos, capturaVars, deadlockVars
<1>2. CASE AvisarDetector
  BY <1>2, SemDe, QuietoEsEnvio DEF AvisarDetector, SemQuietos, Semaforos, capturaVars, deadlockVars
<1>3. CASE TomarItem
  BY <1>3, SemDe, QuietoEsEnvio DEF TomarItem, SemQuietos, Semaforos, capturaVars, deadlockVars
<1>4. CASE hilo_replanificar
  BY <1>4, SemDe, QuietoEsEnvio DEF hilo_replanificar, SemQuietos, Semaforos, capturaVars, deadlockVars
<1>5. CASE ReplanificarSinInicializar
  <2>1. CASE Segfault
    BY <2>1, SegfaultEfecto
  <2>2. CASE ~Segfault
    BY <1>5, <2>2, SemDe, QuietoEsEnvio DEF ReplanificarSinInicializar, SemQuietos, Semaforos,
       capturaVars, deadlockVars
  <2> QED BY <2>1, <2>2
<1>6. ASSUME NEW m \in HiloMensaje, HiloDeMensaje(m) PROVE Envio
  <2>1. CASE ElegirAppeared(m)
    BY <2>1, QuietoEsEnvio DEF ElegirAppeared, SemQuietos, capturaVars, deadlockVars
  <2>2. CASE ValidarLocalized(m)
    BY <2>2, QuietoEsEnvio DEF ValidarLocalized, SemQuietos, capturaVars, deadlockVars
  <2>3. CASE ElegirLocalized(m)
    BY <2>3, QuietoEsEnvio DEF ElegirLocalized, SemQuietos, capturaVars, deadlockVars
  <2> QED BY <1>6, <2>1, <2>2, <2>3, AsignarAppearedEfecto, AsignarLocalizedEfecto, SegfaultEfecto
          DEF HiloDeMensaje, PosicionNula
<1> QED BY <1>1, <1>2, <1>3, <1>4, <1>5, <1>6, SegfaultEfecto, replanificar_entrenadorEfecto
        DEF Mandados, HiloReplanificar

LEMMA EnvioTurno ==
  ASSUME Tipos, Tipos', EnTurno, Envio
  PROVE  EnTurno'
<1>1. \A f \in Entrenador : Sigue(f)
  BY DEF Envio, Enviado, Sigue, EnTurno
<1> QED BY <1>1, TurnoQuieto DEF Envio, SemQuietos

-----------------------------------------------------------------------------
(* The planner gives the permit *)

\* Trainer e comes out of the queue with a token.
Despachado(e) ==
  /\ UNCHANGED <<config, catches, pendiente>> /\ sem.en_exec > 0
  /\ sem'.en_exec = sem.en_exec - 1 /\ sem'.sjfcd = sem.sjfcd
  /\ SoloCambia(e)
  /\ ent'[e].semaforo = ent[e].semaforo + 1 /\ ent'[e].pc = ent[e].pc
  /\ ent'[e].pokemones = ent[e].pokemones /\ ent'[e].destino = ent[e].destino
  /\ ent'[e].estado \in {ent[e].estado, "EXEC"}

LEMMA planificarEfecto ==
  ASSUME Tipos, planificar_fifo \/ planificar_rr \/ \E i \in DOMAIN cola_ready : planificar_sjfsd(i)
  PROVE  \E e \in Entrenador : Despachado(e)
<1>1. PICK i \in DOMAIN cola_ready :
        /\ Sacar(i)
        /\ \/ ent' = [ent EXCEPT ![cola_ready[i]].estado = "EXEC", ![cola_ready[i]].ocupado = TRUE,
                                 ![cola_ready[i]].semaforo = @ + 1]
           \/ ent' = [ent EXCEPT ![cola_ready[i]].semaforo = @ + 1]
  BY DEF planificar_fifo, planificar_rr, planificar_sjfsd, Sacar
<1>2. PICK e \in Entrenador : e = cola_ready[i]
  BY DEF Tipos, ColaTipo
<1>3. /\ UNCHANGED <<config, catches, pendiente>> /\ sem.en_exec > 0
      /\ sem' = [sem EXCEPT !.en_exec = @ - 1]
  BY <1>1 DEF Sacar, capturaVars, deadlockVars
<1>4. sem'.en_exec = sem.en_exec - 1 /\ sem'.sjfcd = sem.sjfcd
  BY <1>3, SemDe DEF Semaforos
<1>5. \/ ent' = [ent EXCEPT ![e].estado = "EXEC", ![e].ocupado = TRUE, ![e].semaforo = @ + 1]
      \/ ent' = [ent EXCEPT ![e].semaforo = @ + 1]
  BY <1>1, <1>2
<1>6. /\ SoloCambia(e)
      /\ ent'[e].semaforo = ent[e].semaforo + 1 /\ ent'[e].pc = ent[e].pc
      /\ ent'[e].pokemones = ent[e].pokemones /\ ent'[e].destino = ent[e].destino
      /\ ent'[e].estado \in {ent[e].estado, "EXEC"}
  BY <1>5, EntDe DEF Ficha, SoloCambia
<1> QED BY <1>3, <1>4, <1>6 DEF Despachado

LEMMA DespachadoTurno ==
  ASSUME Tipos, Tipos', EnTurno, NEW e \in Entrenador, Despachado(e)
  PROVE  EnTurno'
<1>1. Entrenador' = Entrenador /\ \A f \in Entrenador : Pendientes(f)' = Pendientes(f)
  BY PendientesIguales DEF Entrenador, Despachado
<1>2. CuentaTipo /\ CuentaTipo'
  BY CuentaAntesYDespues
<1>3. sem.en_exec = 1 /\ sem'.en_exec = 0 /\ \A f \in Entrenador : Permisos(f) = 0
  BY <1>2 DEF EnTurno, Despachado, CuentaTipo
<1>4. Permisos(e)' <= 1
  <2>1. Permisos(e) = 0
    BY <1>3
  <2>2. Enviada(e)' = Enviada(e) /\ Deuda(e)' = Deuda(e)
    BY <1>1 DEF Despachado, Enviada, Deuda
  <2>3. Credito(e)' = Credito(e) + 1 /\ Credito(e) \in Int
    BY <1>2, <2>2 DEF Despachado, Credito, CuentaTipo
  <2>4. Credito(e) <= 0 /\ ent[e].pc \notin {"mover", "llego"}
    BY <2>1, <2>3 DEF Permisos
  <2> QED BY <2>3, <2>4 DEF Permisos, Despachado
<1>5. ASSUME NEW f \in Entrenador, f # e
      PROVE  ent'[f] = ent[f] /\ Permisos(f)' = 0
  <2>1. ent'[f] = ent[f]
    BY <1>5 DEF SoloCambia, Despachado
  <2>2. Permisos(f)' = Permisos(f)
    BY <1>1, <2>1, PermisosIguales
  <2> QED BY <1>3, <2>1, <2>2
<1>6. (sem.sjfcd = 0 /\ \A f \in Entrenador : ent[f].pc # "decision")'
  BY <1>1, <1>5 DEF EnTurno, Despachado
<1>7. (\A f \in Entrenador : Permisos(f) + sem.en_exec <= 1)'
  BY <1>1, <1>2, <1>3, <1>4, <1>5 DEF CuentaTipo
<1>8. (\A f, g \in Entrenador : f # g => Permisos(f) = 0 \/ Permisos(g) = 0)'
  BY <1>1, <1>5
<1>9. (\A f \in Entrenador : \A c, d \in Pendientes(f) : c = d)'
  BY <1>1 DEF EnTurno
<1>10. (\A f \in Entrenador : ent[f].pc = "capturar" => Pendientes(f) = {})'
  BY <1>1, <1>5 DEF EnTurno, Despachado
<1>11. (\A f \in Entrenador : pendiente[f] # SinIntercambio => ent[f].pc = "resolver")'
  BY <1>1, <1>5 DEF EnTurno, Despachado
<1> QED BY <1>6, <1>7, <1>8, <1>9, <1>10, <1>11 DEF EnTurno

-----------------------------------------------------------------------------
(* The detection *)

\* Lists are summarised, the thread that looks moves on, and a trainer may
\* be queued.
Mirado(f) ==
  /\ ent'[f].semaforo = ent[f].semaforo
  /\ \/ ent'[f].pc = ent[f].pc
     \/ ent[f].pc = "detectar" /\ ent'[f].pc \in {"vuelta", "resolver"}
     \/ ent[f].pc = "resolver" /\ ent'[f].pc = "vuelta"
  /\ ent'[f].pokemones \in {ent[f].pokemones, sumarizar_pokemones(ent[f].pokemones)}
  /\ ent'[f].estado = "READY" \/ (ent'[f].estado = ent[f].estado /\ ent'[f].destino = ent[f].destino)

LEMMA SumarizadasEfecto ==
  ASSUME Tipos, NEW t, t \in Entrenador => ent[t].pc = "detectar", NEW pc \in {"vuelta", "resolver"},
         ent' = Sumarizadas(t, pc)
  PROVE  \A f \in Entrenador : /\ Mirado(f)
                               /\ ent'[f].pc = IF f = t THEN pc ELSE ent[f].pc
<1> SUFFICES ASSUME NEW f \in Entrenador
    PROVE  Mirado(f) /\ ent'[f].pc = IF f = t THEN pc ELSE ent[f].pc
  OBVIOUS
<1> DEFINE l == sumarizar_pokemones(ent[f].pokemones)
           s == IF ent[f].estado = "BLOCKED" /\ ~ent[f].ocupado
                THEN [ent[f] EXCEPT !.pokemones = l] ELSE ent[f]
<1>1. ent'[f] = IF f = t THEN [s EXCEPT !.pc = pc] ELSE s
  BY DEF Sumarizadas
<1> HIDE DEF l
<1>2. /\ s.semaforo = ent[f].semaforo /\ s.pc = ent[f].pc /\ s.estado = ent[f].estado
      /\ s.destino = ent[f].destino /\ s.pokemones \in {ent[f].pokemones, l}
      /\ [s EXCEPT !.pc = pc].semaforo = s.semaforo /\ [s EXCEPT !.pc = pc].pc = pc
      /\ [s EXCEPT !.pc = pc].estado = s.estado /\ [s EXCEPT !.pc = pc].destino = s.destino
      /\ [s EXCEPT !.pc = pc].pokemones = s.pokemones
  BY EntDe DEF Ficha
<1> HIDE DEF s
<1> QED BY <1>1, <1>2 DEF Mirado, l

Miradas ==
  /\ UNCHANGED <<config, catches>> /\ SemQuietos
  /\ \A f \in Entrenador : Mirado(f) /\ (pendiente'[f] # SinIntercambio => ent'[f].pc = "resolver")

LEMMA DetectarNadaEfecto ==
  ASSUME Tipos, EnTurno, NEW t \in Entrenador \cup {Detector}, DetectarNada(t)
  PROVE  Miradas
<1>1. UNCHANGED <<config, catches, pendiente>> /\ SemQuietos
  BY DEF DetectarNada, capturaVars, deadlockVars, SemQuietos
<1>2. t \in Entrenador => ent[t].pc = "detectar"
  BY EscenarioTipo DEF DetectarNada, LeTocaDetectar, Detector, Tipos, Entrenador
<1>3. \A f \in Entrenador : Mirado(f) /\ ent'[f].pc = IF f = t THEN "vuelta" ELSE ent[f].pc
  BY <1>2, SumarizadasEfecto DEF DetectarNada
<1> QED BY <1>1, <1>2, <1>3 DEF Miradas, EnTurno

LEMMA DetectarEfecto ==
  ASSUME Tipos, EnTurno, NEW t \in Entrenador \cup {Detector}, Detectar(t)
  PROVE  Segfault \/ Miradas
<1> SUFFICES ASSUME ~Segfault PROVE Miradas
  OBVIOUS
<1>1. PICK x : /\ UNCHANGED <<config, sem, catches>> /\ pendiente' = [pendiente EXCEPT ![t] = x]
               /\ ent' = Sumarizadas(t, "resolver")
  BY DEF Detectar, capturaVars
<1>2. t \in Entrenador => ent[t].pc = "detectar"
  BY EscenarioTipo DEF Detectar, LeTocaDetectar, Detector, Tipos, Entrenador
<1>3. \A f \in Entrenador : Mirado(f) /\ ent'[f].pc = IF f = t THEN "resolver" ELSE ent[f].pc
  BY <1>1, <1>2, SumarizadasEfecto
<1>4. \A f \in Entrenador : f # t => pendiente'[f] = pendiente[f]
  BY <1>1 DEF Tipos, PendienteTipo
<1> QED BY <1>1, <1>3, <1>4 DEF Miradas, EnTurno, SemQuietos

LEMMA resolver_deadlockEfecto ==
  ASSUME Tipos, EnTurno, NEW t \in Entrenador \cup {Detector}, resolver_deadlock(t)
  PROVE  Miradas
<1> DEFINE x == pendiente[t]
           destino == get_pokemon_team(x.nombre, 0, ent[x.e2].posicion)
           vuelta == IF t = Detector THEN ent ELSE [ent EXCEPT ![t].pc = "vuelta"]
<1>1. /\ UNCHANGED <<config, catches>> /\ x # SinIntercambio
      /\ pendiente' = [pendiente EXCEPT ![t] = SinIntercambio]
      /\ \/ ent' = vuelta /\ sem' = sem
         \/ Encolar(x.e1, [vuelta EXCEPT ![x.e1].estado = "READY", ![x.e1].destino = destino])
  BY DEF resolver_deadlock, capturaVars
<1>2. t \in Entrenador => ent[t].pc = "resolver"
  BY <1>1 DEF EnTurno
<1>3. \A f \in Entrenador : pendiente'[f] # SinIntercambio => f # t /\ ent[f].pc = "resolver"
  BY <1>1 DEF Tipos, PendienteTipo, EnTurno
<1>4. PICK e \in Entrenador : e = x.e1
  BY <1>1 DEF Tipos, PendienteTipo
<1> HIDE DEF x
<1>5. /\ vuelta \in [Entrenador -> Ficha(config)]
      /\ \A f \in Entrenador :
           /\ vuelta[f].pc = IF f = t THEN "vuelta" ELSE ent[f].pc
           /\ vuelta[f].semaforo = ent[f].semaforo /\ vuelta[f].pokemones = ent[f].pokemones
           /\ vuelta[f].estado = ent[f].estado /\ vuelta[f].destino = ent[f].destino
  <2>1. 0 \notin Entrenador
    BY EscenarioTipo DEF Tipos, Entrenador
  <2> QED BY <2>1, EntDe DEF Ficha, Lugares, Detector
<1> HIDE DEF vuelta, destino
<1>6. CASE ent' = vuelta /\ sem' = sem
  <2>1. \A f \in Entrenador : Mirado(f) /\ ent'[f].pc = IF f = t THEN "vuelta" ELSE ent[f].pc
    BY <1>2, <1>5, <1>6 DEF Mirado
  <2> QED BY <1>1, <1>3, <1>6, <2>1 DEF Miradas, SemQuietos
<1>7. CASE Encolar(e, [vuelta EXCEPT ![e].estado = "READY", ![e].destino = destino])
  <2>1. sem' = [sem EXCEPT !.con_items = @ + 1]
        /\ ent' = [vuelta EXCEPT ![e].estado = "READY", ![e].destino = destino]
    BY <1>7 DEF Encolar
  <2>2. SemQuietos
    BY <2>1, SemDe DEF SemQuietos, Semaforos
  <2>3. \A f \in Entrenador :
          /\ ent'[f].pc = vuelta[f].pc /\ ent'[f].semaforo = vuelta[f].semaforo
          /\ ent'[f].pokemones = vuelta[f].pokemones
          /\ f = e => ent'[f].estado = "READY"
          /\ f # e => ent'[f] = vuelta[f]
    BY <1>5, <2>1 DEF Ficha
  <2>4. \A f \in Entrenador : Mirado(f) /\ ent'[f].pc = IF f = t THEN "vuelta" ELSE ent[f].pc
    BY <1>2, <1>5, <2>3 DEF Mirado
  <2> QED BY <1>1, <1>3, <2>2, <2>4 DEF Miradas
<1> QED BY <1>1, <1>4, <1>6, <1>7

LEMMA MiradasTurno ==
  ASSUME Tipos, Tipos', EnTurno, Miradas
  PROVE  EnTurno'
<1>1. \A f \in Entrenador : Sigue(f)
  BY DEF Miradas, Mirado, Sigue, Contados
<1> QED BY <1>1, TurnoQuieto DEF Miradas, SemQuietos

-----------------------------------------------------------------------------
(* Every step but an exchange *)

LEMMA SegfaultTurno ==
  ASSUME Tipos, Tipos', EnTurno, Segfault
  PROVE  EnTurno'
BY SegfaultEfecto, EnvioTurno

LEMMA HiloEntrenadorTurno ==
  ASSUME Tipos, Tipos', IInv, EnTurno, SinDesalojo, NEW e \in Entrenador, HiloEntrenador(e),
         ~Intercambiar(e)
  PROVE  EnTurno'
<1>1. CASE SinDestino(e) \/ IntercambioNulo(e)
  BY <1>1, SegfaultTurno DEF SinDestino, IntercambioNulo
<1>2. ~PedirReplanificacion(e) /\ ~SeguirODejar(e)
  BY DEF PedirReplanificacion, SeguirODejar, EnTurno, SinDesalojo
<1>3. CASE Discretos(e)
  BY <1>3, DiscretosTurno
<1> QED BY <1>1, <1>2, <1>3, DespertarTurno, TerminarQuantumTurno, LlegarTurno, SalirDeExecTurno,
           EnviarCatchTurno, RegistrarCatchTurno, EsperarCaughtTurno
        DEF HiloEntrenador, Discretos

\* Every step but an exchange keeps the permits, if nobody is preempted.
LEMMA TurnoPaso ==
  ASSUME IInv, IInv', EnTurno, SinDesalojo, [Next]_vars,
         \A e \in Entrenador : ~Intercambiar(e)
  PROVE  EnTurno'
<1>0. Tipos /\ Tipos'
  BY DEF IInv
<1>1. ASSUME NEW e \in Entrenador, HiloEntrenador(e) PROVE EnTurno'
  BY <1>0, <1>1, HiloEntrenadorTurno
<1>2. CASE HiloPlanificador
  <2>1. CASE TomarItem
    BY <1>0, <2>1, MandadosEfecto, EnvioTurno DEF Mandados
  <2>2. CASE EstimarSinDestino
    BY <1>0, <2>2, SegfaultTurno DEF EstimarSinDestino
  <2>3. CASE planificar_fifo \/ planificar_rr \/ \E i \in DOMAIN cola_ready : planificar_sjfsd(i)
    BY <1>0, <2>3, planificarEfecto, DespachadoTurno
  <2> QED BY <1>2, <2>1, <2>2, <2>3 DEF HiloPlanificador
<1>3. CASE HiloReplanificarSjfcd
  BY <1>0, <1>3, SegfaultTurno
     DEF HiloReplanificarSjfcd, SeguirEjecutando, Desalojar, CompararSinCola, EnTurno
<1>4. CASE Mandados
  BY <1>0, <1>4, MandadosEfecto, EnvioTurno
<1>5. ASSUME NEW c \in DOMAIN catches, HiloCaught(c) PROVE EnTurno'
  BY <1>0, <1>5, ResponderTurno, recibidor_mensajes_caughtTurno, SegfaultTurno
     DEF HiloCaught, CaughtSinDestino
<1>6. ASSUME NEW t \in Entrenador \cup {Detector},
             DetectarNada(t) \/ resolver_deadlock(t) \/ Detectar(t)
      PROVE  EnTurno'
  BY <1>0, <1>6, DetectarNadaEfecto, resolver_deadlockEfecto, DetectarEfecto, MiradasTurno, SegfaultTurno
<1>7. CASE Falla
  BY <1>0, <1>7, CapturarSinBrokerTurno, PerderAckTurno DEF Falla
<1>8. CASE UNCHANGED vars
  <2>1. Envio
    BY <1>8, QuietoEsEnvio DEF vars, SemQuietos
  <2> QED BY <1>0, <2>1, EnvioTurno
<1>9. CASE Hilos
  BY <1>1, <1>2, <1>3, <1>4, <1>5, <1>6, <1>9 DEF Hilos, Mandados
<1> QED BY <1>6, <1>7, <1>8, <1>9 DEF Next

\* No exchange is made.
SinTratos == [][\A e \in Entrenador : ~Intercambiar(e)]_vars

\* The configuration never changes.
LEMMA MismoEquipo ==
  ASSUME [Next]_vars
  PROVE  config' = config
<1>1. CASE Segfault
  BY <1>1 DEF Segfault
<1>2. ASSUME NEW e \in Entrenador, HiloEntrenador(e) PROVE config' = config
  <2>1. CASE CumplirObjetivo(e) \/ VolverAEsperar(e) \/ Despertar(e) \/ ejecuta(e) \/ TerminarQuantum(e)
    BY <2>1 DEF CumplirObjetivo, VolverAEsperar, Despertar, ejecuta, TerminarQuantum
  <2>2. CASE PedirReplanificacion(e) \/ SeguirODejar(e) \/ Llegar(e) \/ SalirDeExec(e) \/ EnviarCatch(e)
    BY <2>2 DEF PedirReplanificacion, SeguirODejar, Llegar, SalirDeExec, EnviarCatch
  <2>3. CASE RegistrarCatch(e) \/ EsperarCaught(e) \/ Evaluar(e) \/ ProponerIntercambio(e)
    BY <2>3 DEF RegistrarCatch, EsperarCaught, Evaluar, ProponerIntercambio
  <2>4. CASE SinDestino(e) \/ IntercambioNulo(e) \/ Intercambiar(e)
    BY <1>1, <2>4 DEF SinDestino, IntercambioNulo, Intercambiar, RecibirPokemon, QuitarAlOtro,
              EntregarPokemon, QuitarLoEntregado, LiberarEntrenador, LiberarAlOtro, intercambioVars
  <2> QED BY <1>2, <2>1, <2>2, <2>3, <2>4 DEF HiloEntrenador
<1>3. CASE HiloPlanificador \/ HiloReplanificarSjfcd \/ HiloReplanificar
  BY <1>1, <1>3
     DEF HiloPlanificador, TomarItem, planificar_fifo, planificar_rr, planificar_sjfsd, EstimarSinDestino, Sacar,
         HiloReplanificarSjfcd, SeguirEjecutando, Desalojar, CompararSinCola, HiloReplanificar,
         hilo_replanificar, ReplanificarSinInicializar, replanificar_entrenador
<1>4. CASE \E m \in HiloMensaje : HiloDeMensaje(m)
  BY <1>1, <1>4
     DEF HiloDeMensaje, ElegirAppeared, AsignarAppeared, ValidarLocalized, ElegirLocalized, PosicionNula,
         AsignarLocalized
<1>5. CASE \E c \in DOMAIN catches : HiloCaught(c)
  BY <1>1, <1>5 DEF HiloCaught, Responder, recibidor_mensajes_caught, CaughtSinDestino
<1>6. CASE \E t \in Entrenador \cup {Detector} : DetectarNada(t) \/ resolver_deadlock(t) \/ Detectar(t)
  BY <1>1, <1>6 DEF DetectarNada, resolver_deadlock, Detectar
<1>7. CASE AvisarDetector \/ hilo_exit \/ Falla \/ UNCHANGED vars
  BY <1>7 DEF AvisarDetector, hilo_exit, Falla, CapturarSinBroker, PerderAck, vars
<1> QED BY <1>2, <1>3, <1>4, <1>5, <1>6, <1>7 DEF Next, Hilos

LEMMA EnTurnoInicial ==
  ASSUME Init
  PROVE  EnTurno
<1>1. catches = <<>> /\ sem.en_exec = 1 /\ sem.sjfcd = 0
  BY DEF Init
<1>2. \A e \in Entrenador : ent[e].pc = "vuelta" /\ ent[e].semaforo = 0
  BY DEF Init
<1>3. \A e \in Entrenador : pendiente[e] = SinIntercambio
  BY DEF Init
<1>4. DOMAIN catches = {}
  BY <1>1
<1>5. \A e : Pendientes(e) = {}
  BY <1>4 DEF Pendientes
<1>6. \A e \in Entrenador : Permisos(e) = 0
  BY <1>2, <1>5 DEF Permisos, Credito, Enviada, Deuda
<1> QED BY <1>1, <1>2, <1>3, <1>5, <1>6 DEF EnTurno

\* Two trainers that move would have a permit each.
LEMMA UnoDelTurno ==
  ASSUME IInv, EnTurno
  PROVE  UnoALaVez
<1>1. \A e, f \in Ejecutando : e = f
  <2> SUFFICES ASSUME NEW e \in Ejecutando, NEW f \in Ejecutando, e # f PROVE FALSE
    OBVIOUS
  <2>1. e \in Entrenador /\ f \in Entrenador
    BY DEF Ejecutando
  <2>2. Permisos(e) # 0 /\ Permisos(f) # 0
    <3>1. \A d \in Ejecutando : Credito(d) \in Int
      BY PermisosNat DEF IInv, CuentaTipo, Credito, Ejecutando
    <3> QED BY <3>1 DEF Ejecutando, Permisos
  <2> QED BY <2>1, <2>2 DEF EnTurno
<1>2. CASE Ejecutando = {}
  BY <1>2, FS_EmptySet DEF UnoALaVez
<1>3. CASE Ejecutando # {}
  <2>1. PICK e : e \in Ejecutando
    BY <1>3
  <2>2. Ejecutando = {e}
    BY <1>1, <2>1
  <2> QED BY <2>2, FS_Singleton DEF UnoALaVez
<1> QED BY <1>2, <1>3

\* hilo_planificador and capturar_pokemon: with FIFO, RR and SJF-SD, whatever
\* messages, answers and replanning do, at most one trainer moves at a time
\* until two have exchanged: s_procesos_en_exec and the token that the planner
\* posts are one permit, which the answer to a CATCH never doubles.
THEOREM UnoSinDesalojoSiempre == (Spec /\ SinTratos) => []UnoSinDesalojo
<1> DEFINE Turno == IInv /\ (SinDesalojo => EnTurno)
           Paso == \A e \in Entrenador : ~Intercambiar(e)
<1>1. Init => Turno
  BY IInvInicial, EnTurnoInicial
<1>2. Turno /\ [Next]_vars /\ [Paso]_vars => Turno'
  <2> SUFFICES ASSUME Turno, [Next]_vars, [Paso]_vars PROVE Turno'
    OBVIOUS
  <2>1. IInv'
    BY IInvPaso
  <2>2. Tipos /\ Tipos' /\ SinDesalojo' = SinDesalojo
    BY <2>1, MismoEquipo DEF IInv, SinDesalojo, algoritmo
  <2>3. CASE UNCHANGED vars
    BY <2>1, <2>2, <2>3, QuietoEsEnvio, EnvioTurno DEF vars, SemQuietos
  <2>4. CASE Paso
    BY <2>1, <2>2, <2>4, TurnoPaso
  <2> QED BY <2>3, <2>4
<1>3. Turno => UnoSinDesalojo
  BY UnoDelTurno DEF UnoSinDesalojo, SinDesalojo
<1> HIDE DEF Turno
<1> QED BY <1>1, <1>2, <1>3, PTL DEF Spec, SinTratos

\* The recursion of Elegidos, as a sequence of partial results.
LEMMA ElegidosPasos ==
  ASSUME NEW l, Len(l) \in Nat, NEW I
  PROVE  \E h : /\ h[0] = <<>> /\ h[Len(l)] = Elegidos(l, I)
                /\ \A k \in 1..Len(l) : h[k] = IF k \in I THEN Append(h[k-1], l[k]) ELSE h[k-1]
<1> DEFINE N == Len(l)
           Existe(n) == \E h : EsElegidos(l, I, n, h)
<1>1. Existe(N)
  <2> DEFINE Hay == {n \in Nat : Existe(n)}
  <2>1. Existe(0)
    <3> DEFINE g == [k \in 0..0 |-> <<>>]
    <3>1. EsElegidos(l, I, 0, g)
      BY DEF EsElegidos, PasoElegidos
    <3> QED BY <3>1
  <2>2. ASSUME NEW n \in Hay PROVE n + 1 \in Hay
    <3>1. PICK h : EsElegidos(l, I, n, h)
      OBVIOUS
    <3>2. n \in Nat
      OBVIOUS
    <3>3. Existe(n + 1)
      BY <3>1, <3>2, ElegidosUnoMas
    <3> QED BY <3>3
  <2> HIDE DEF Existe
  <2>3. Hay = Nat
    <3>1. Hay \in SUBSET Nat /\ 0 \in Hay
      BY <2>1
    <3> HIDE DEF Hay
    <3> QED BY <2>2, <3>1, InduccionNat
  <2> QED BY <2>3
<1> DEFINE hasta == CHOOSE h : h = [k \in 0..N |-> PasoElegidos(l, I, h, k)]
<1>2. hasta = [k \in 0..N |-> PasoElegidos(l, I, hasta, k)]
  BY <1>1 DEF EsElegidos
<1>3. Elegidos(l, I) = hasta[N]
  BY DEF Elegidos, PasoElegidos
<1> HIDE DEF hasta
<1>4. hasta[0] = <<>>
  BY <1>2 DEF PasoElegidos
<1>5. ASSUME NEW k \in 1..N
      PROVE  hasta[k] = IF k \in I THEN Append(hasta[k-1], l[k]) ELSE hasta[k-1]
  <2>1. k \in 0..N /\ k # 0
    OBVIOUS
  <2> QED BY <1>2, <2>1 DEF PasoElegidos
<1> QED BY <1>3, <1>4, <1>5

-----------------------------------------------------------------------------
(* How many pokemons a list counts *)

\* The recursion of get_cantidad_pokemon, one step of it.
PasoSuma(l, h, k) == IF k = 0 THEN 0 ELSE h[k-1] + l[k].cantidad

EsSuma(l, n, h) == h = [k \in 0..n |-> PasoSuma(l, h, k)]

LEMMA SumaUnoMas ==
  ASSUME NEW l, NEW n \in Nat, NEW h, EsSuma(l, n, h)
  PROVE  \E g : EsSuma(l, n + 1, g)
<1>0. h = [k \in 0..n |-> PasoSuma(l, h, k)]
  BY DEF EsSuma
<1> DEFINE g == [k \in 0..(n + 1) |-> IF k = n + 1 THEN PasoSuma(l, h, k) ELSE h[k]]
<1>1. ASSUME NEW k \in 0..(n + 1) PROVE g[k] = PasoSuma(l, g, k)
  <2>1. k = 0 \/ (k - 1 \in 0..(n + 1) /\ k - 1 # n + 1 /\ k - 1 \in 0..n)
    OBVIOUS
  <2>2. k = 0 \/ g[k - 1] = h[k - 1]
    BY <2>1
  <2>3. k \in 0..n \/ k = n + 1
    OBVIOUS
  <2>4. g[k] = PasoSuma(l, h, k)
    BY <1>0, <2>3
  <2> HIDE DEF g
  <2> QED BY <2>2, <2>4 DEF PasoSuma
<1>2. g = [k \in 0..(n + 1) |-> PasoSuma(l, g, k)]
  <2>1. g = [k \in 0..(n + 1) |-> g[k]]
    OBVIOUS
  <2> HIDE DEF g
  <2> QED BY <1>1, <2>1
<1>3. EsSuma(l, n + 1, g)
  BY <1>2 DEF EsSuma
<1> HIDE DEF g
<1> QED BY <1>3

\* h sums the counts of l.
Parciales(l, h) ==
  h[0] = 0 /\ \A k \in 1..Len(l) : h[k-1] \in Nat /\ h[k] = h[k-1] + l[k].cantidad /\ h[k] \in Nat

LEMMA CantidadPasos ==
  ASSUME NEW l \in Listado
  PROVE  \E h : Parciales(l, h) /\ h[Len(l)] = get_cantidad_pokemon(l) /\ h[Len(l)] \in Nat
<1> DEFINE N == Len(l)
           Existe(n) == \E h : EsSuma(l, n, h)
<1>0. N \in Nat /\ \A k \in 1..N : l[k].cantidad \in Nat
  BY ElementoTipo DEF Listado
<1>1. Existe(N)
  <2> DEFINE Hay == {n \in Nat : Existe(n)}
  <2>1. Existe(0)
    <3> DEFINE g == [k \in 0..0 |-> 0]
    <3>1. EsSuma(l, 0, g)
      BY DEF EsSuma, PasoSuma
    <3> QED BY <3>1
  <2>2. ASSUME NEW n \in Hay PROVE n + 1 \in Hay
    <3>1. PICK h : EsSuma(l, n, h)
      OBVIOUS
    <3>2. n \in Nat
      OBVIOUS
    <3>3. Existe(n + 1)
      BY <3>1, <3>2, SumaUnoMas
    <3> QED BY <3>3
  <2> HIDE DEF Existe
  <2>3. Hay = Nat
    <3>1. Hay \in SUBSET Nat /\ 0 \in Hay
      BY <2>1
    <3> HIDE DEF Hay
    <3> QED BY <2>2, <3>1, InduccionNat
  <2> QED BY <1>0, <2>3
<1> DEFINE hasta == CHOOSE h : h = [k \in 0..N |-> PasoSuma(l, h, k)]
<1>2. hasta = [k \in 0..N |-> PasoSuma(l, hasta, k)]
  BY <1>1 DEF EsSuma
<1>3. get_cantidad_pokemon(l) = hasta[N]
  BY DEF get_cantidad_pokemon, PasoSuma
<1> HIDE DEF hasta
<1>4. hasta[0] = 0
  BY <1>0, <1>2 DEF PasoSuma
<1>5. \A k \in 1..N : hasta[k] = hasta[k-1] + l[k].cantidad
  <2> SUFFICES ASSUME NEW k \in 1..N PROVE hasta[k] = hasta[k-1] + l[k].cantidad
    OBVIOUS
  <2>1. k \in 0..N /\ k # 0
    BY <1>0
  <2> QED BY <1>2, <2>1 DEF PasoSuma
<1> DEFINE Bien == {k \in Nat : k <= N => hasta[k] \in Nat}
<1>6. Bien = Nat
  <2>1. ASSUME NEW k \in Bien PROVE k + 1 \in Bien
    <3> SUFFICES ASSUME k + 1 <= N PROVE hasta[k + 1] \in Nat
      OBVIOUS
    <3>1. k + 1 \in 1..N /\ (k + 1) - 1 = k /\ hasta[k] \in Nat
      BY <1>0
    <3> QED BY <1>0, <1>5, <3>1
  <2>2. Bien \in SUBSET Nat /\ 0 \in Bien
    BY <1>4
  <2> HIDE DEF Bien
  <2> QED BY <2>1, <2>2, InduccionNat
<1>7. \A k \in 0..N : hasta[k] \in Nat
  BY <1>0, <1>6
<1>8. Parciales(l, hasta)
  <2> SUFFICES ASSUME NEW k \in 1..N PROVE hasta[k-1] \in Nat /\ hasta[k] \in Nat
    BY <1>4, <1>5 DEF Parciales
  <2>1. k - 1 \in 0..N /\ k \in 0..N
    BY <1>0
  <2> QED BY <1>7, <2>1
<1> QED BY <1>0, <1>3, <1>7, <1>8

\* Whatever sums the counts one by one ends in the count of the list.
LEMMA CantidadUnica ==
  ASSUME NEW l \in Listado, NEW h, Parciales(l, h)
  PROVE  h[Len(l)] = get_cantidad_pokemon(l)
<1>1. PICK g : Parciales(l, g) /\ g[Len(l)] = get_cantidad_pokemon(l)
  BY CantidadPasos
<1>2. Len(l) \in Nat
  BY DEF Listado
<1> DEFINE Bien == {k \in Nat : k <= Len(l) => h[k] = g[k]}
<1>3. ASSUME NEW k \in Bien PROVE k + 1 \in Bien
  <2> SUFFICES ASSUME k + 1 <= Len(l) PROVE h[k + 1] = g[k + 1]
    OBVIOUS
  <2>1. k + 1 \in 1..Len(l) /\ (k + 1) - 1 = k /\ h[k] = g[k]
    BY <1>2
  <2> QED BY <1>1, <2>1 DEF Parciales
<1>4. Bien \in SUBSET Nat /\ 0 \in Bien
  BY <1>1 DEF Parciales
<1>5. Bien = Nat
  <2> HIDE DEF Bien
  <2> QED BY <1>3, <1>4, InduccionNat
<1> QED BY <1>1, <1>2, <1>5

LEMMA CantidadAgregar ==
  ASSUME NEW l \in Listado, NEW x \in t_pokemon
  PROVE  /\ get_cantidad_pokemon(l) \in Nat
         /\ get_cantidad_pokemon(Append(l, x)) = get_cantidad_pokemon(l) + x.cantidad
<1> DEFINE N == Len(l)
           m == Append(l, x)
<1>1. PICK h : Parciales(l, h) /\ h[N] = get_cantidad_pokemon(l) /\ h[N] \in Nat
  BY CantidadPasos
<1>2. /\ N \in Nat /\ m \in Listado /\ Len(m) = N + 1 /\ m[N + 1] = x
      /\ \A k \in 1..N : m[k] = l[k]
  BY DEF Listado
<1>3. x.cantidad \in Nat
  BY DEF t_pokemon
<1> HIDE DEF m, N
<1> DEFINE g == [k \in 0..(N + 1) |-> IF k = N + 1 THEN h[N] + x.cantidad ELSE h[k]]
<1>4. Parciales(m, g)
  <2>1. g[0] = 0
    BY <1>1, <1>2 DEF Parciales
  <2>2. ASSUME NEW k \in 1..(N + 1)
        PROVE  g[k-1] \in Nat /\ g[k] = g[k-1] + m[k].cantidad /\ g[k] \in Nat
    <3>1. CASE k = N + 1
      <4>1. g[k] = h[N] + x.cantidad /\ g[k-1] = h[N]
        BY <1>2, <3>1
      <4> QED BY <1>1, <1>2, <1>3, <3>1, <4>1
    <3>2. CASE k \in 1..N
      <4>1. g[k] = h[k] /\ g[k-1] = h[k-1] /\ m[k] = l[k]
        BY <1>2, <3>2
      <4> QED BY <1>1, <3>2, <4>1 DEF Parciales, N
    <3> QED BY <1>2, <3>1, <3>2
  <2> QED BY <1>2, <2>1, <2>2 DEF Parciales
<1>5. g[Len(m)] = get_cantidad_pokemon(m) /\ g[N + 1] = h[N] + x.cantidad
  <2>1. g[N + 1] = h[N] + x.cantidad
    BY <1>2
  <2> HIDE DEF g
  <2> QED BY <1>2, <1>4, <2>1, CantidadUnica
<1> QED BY <1>1, <1>2, <1>5 DEF m

\* Every element after the first of its name counts one.
Sueltos(l) ==
  \A i, j \in DOMAIN l : (i < j /\ l[i].nombre = l[j].nombre) => l[j].cantidad = 1

\* Summarising never counts more, as every element after the first of its
\* name then counts one; and counts the same if it did already.
LEMMA CantidadSumarizar ==
  ASSUME NEW l \in Listado
  PROVE  /\ get_cantidad_pokemon(sumarizar_pokemones(l)) <= get_cantidad_pokemon(l)
         /\ Sueltos(l) => get_cantidad_pokemon(sumarizar_pokemones(l)) = get_cantidad_pokemon(l)
         /\ Sueltos(sumarizar_pokemones(l))
<1> DEFINE N == Len(l)
           Suma == [i \in DOMAIN l |-> [nombre   |-> l[i].nombre,
                                        cantidad |-> CantidadSumarizada(l, l[i].nombre)]]
           Primeros == {i \in DOMAIN l : \A j \in 1..(i - 1) : l[j].nombre # l[i].nombre}
           \* The elements after the first k whose name is among them.
           Repetidos(k) == {j \in (k + 1)..N : \E i \in 1..k : l[i].nombre = l[j].nombre}
           R(k) == Cardinality(Repetidos(k))
<1>1. N \in Nat /\ DOMAIN l = 1..N /\ \A i \in 1..N : l[i].cantidad \in Nat \ {0} /\ l[i].nombre \in Nombres
  BY ElementoTipo DEF Listado
<1>2. PICK S : Parciales(l, S) /\ S[N] = get_cantidad_pokemon(l)
  BY CantidadPasos
<1>3. sumarizar_pokemones(l) = Elegidos(Suma, Primeros) /\ Len(Suma) = N
  BY <1>1 DEF sumarizar_pokemones
<1>4. PICK E : /\ E[0] = <<>> /\ E[N] = sumarizar_pokemones(l)
               /\ \A k \in 1..N : E[k] = IF k \in Primeros THEN Append(E[k-1], Suma[k]) ELSE E[k-1]
  <2> HIDE DEF Suma, Primeros
  <2> QED BY <1>1, <1>3, ElegidosPasos
<1>5. \A k \in 0..N : Repetidos(k) \in SUBSET (1..N) /\ IsFiniteSet(Repetidos(k)) /\ R(k) \in Nat
  <2> SUFFICES ASSUME NEW k \in 0..N
      PROVE  Repetidos(k) \in SUBSET (1..N) /\ IsFiniteSet(Repetidos(k)) /\ R(k) \in Nat
    OBVIOUS
  <2>1. Repetidos(k) \in SUBSET (1..N)
    BY <1>1
  <2> HIDE DEF Repetidos
  <2>2. IsFiniteSet(1..N)
    BY <1>1, FS_Interval
  <2>3. IsFiniteSet(Repetidos(k))
    BY <2>1, <2>2, FS_Subset
  <2> QED BY <2>1, <2>3, FS_CardinalityType
<1>6. ASSUME NEW k \in 1..N, k \in Primeros
      PROVE  /\ Suma[k] \in t_pokemon
             /\ Suma[k].cantidad + R(k-1) = l[k].cantidad + R(k)
  <2> DEFINE P == Posiciones(l[k].nombre, l)
             Resto == P \ {k}
  <2>1. P = {i \in 1..N : l[i].nombre = l[k].nombre}
    BY <1>1 DEF Posiciones
  <2>2. k \in P /\ \A i \in P : k <= i
    BY <1>1, <1>6, <2>1
  <2>3. P \in SUBSET Nat /\ P # {} /\ IsFiniteSet(P) /\ Cardinality(P) \in Nat
    BY <2>1, <2>2, PosicionesTipo
  <2>4. Min(P) = k
    <3>1. Min(P) \in P /\ \A i \in P : Min(P) <= i
      BY <2>3, MinDeNaturales
    <3> HIDE DEF P
    <3>2. Min(P) <= k /\ k <= Min(P) /\ Min(P) \in Nat /\ k \in Nat
      BY <1>1, <2>2, <2>3, <3>1
    <3> QED BY <3>2
  <2>5. Suma[k] = [nombre |-> l[k].nombre, cantidad |-> l[k].cantidad + Cardinality(P) - 1]
    BY <1>1, <2>4 DEF CantidadSumarizada
  <2>6. Cardinality(P) = Cardinality(Resto) + 1 /\ IsFiniteSet(Resto) /\ Cardinality(Resto) \in Nat
    <3> HIDE DEF P
    <3>1. IsFiniteSet(Resto) /\ Cardinality(Resto) = Cardinality(P) - 1
      BY <2>2, <2>3, FS_RemoveElement
    <3> HIDE DEF Resto
    <3>2. Cardinality(Resto) \in Nat
      BY <3>1, FS_CardinalityType
    <3> QED BY <2>3, <3>1, <3>2
  <2>7. Suma[k] \in t_pokemon /\ Suma[k].cantidad = l[k].cantidad + Cardinality(Resto)
    <3>1. l[k].cantidad \in Nat \ {0} /\ l[k].nombre \in Nombres
      BY <1>1
    <3> HIDE DEF Resto, P, Suma
    <3>2. l[k].cantidad + Cardinality(P) - 1 = l[k].cantidad + Cardinality(Resto)
      BY <2>6, <3>1
    <3>3. l[k].cantidad + Cardinality(Resto) \in Nat \ {0}
      BY <2>6, <3>1
    <3> QED BY <2>5, <3>1, <3>2, <3>3 DEF t_pokemon
  <2>8. Repetidos(k) = Repetidos(k-1) \cup Resto /\ Repetidos(k-1) \cap Resto = {}
    <3>1. ASSUME NEW j \in Resto PROVE j \in Repetidos(k) /\ j \notin Repetidos(k-1)
      <4>1. j \in (k + 1)..N /\ l[j].nombre = l[k].nombre
        BY <1>1, <2>1, <2>2
      <4>2. \A i \in 1..(k - 1) : l[i].nombre # l[k].nombre
        BY <1>6
      <4> QED BY <1>1, <4>1, <4>2
    <3>2. ASSUME NEW j \in Repetidos(k-1) PROVE j \in Repetidos(k)
      <4>1. j \in k..N /\ \E i \in 1..(k - 1) : l[i].nombre = l[j].nombre
        BY <1>1
      <4>2. j # k
        BY <1>6, <4>1
      <4> QED BY <1>1, <4>1, <4>2
    <3>3. ASSUME NEW j \in Repetidos(k), j \notin Resto PROVE j \in Repetidos(k-1)
      <4>1. j \in (k + 1)..N
        BY <1>1
      <4>2. l[j].nombre # l[k].nombre
        BY <1>1, <2>1, <3>3, <4>1
      <4>3. PICK i \in 1..k : l[i].nombre = l[j].nombre
        OBVIOUS
      <4>4. i \in 1..(k - 1)
        BY <1>1, <4>2, <4>3
      <4> QED BY <1>1, <4>1, <4>3, <4>4
    <3> HIDE DEF Repetidos, Resto
    <3> QED BY <3>1, <3>2, <3>3
  <2>9. R(k) = R(k-1) + Cardinality(Resto)
    <3>1. k - 1 \in 0..N
      BY <1>1
    <3>2. IsFiniteSet(Repetidos(k-1)) /\ R(k-1) \in Nat
      BY <1>5, <3>1
    <3> HIDE DEF Repetidos, Resto
    <3>3. Cardinality(Repetidos(k-1) \cup Resto) =
            Cardinality(Repetidos(k-1)) + Cardinality(Resto) - Cardinality(Repetidos(k-1) \cap Resto)
      BY <2>6, <3>2, FS_Union
    <3>4. Cardinality(Repetidos(k-1) \cap Resto) = 0
      BY <2>8, FS_EmptySet
    <3> QED BY <2>6, <2>8, <3>2, <3>3, <3>4
  <2>10. k - 1 \in 0..N /\ k \in 0..N /\ l[k].cantidad \in Nat
    BY <1>1
  <2>11. R(k-1) \in Nat /\ R(k) \in Nat
    BY <1>5, <2>10
  <2> HIDE DEF R, Resto, Suma
  <2> QED BY <2>6, <2>7, <2>9, <2>10, <2>11
<1>7. ASSUME NEW k \in 1..N, k \notin Primeros
      PROVE  R(k-1) = R(k) + 1
  <2>1. PICK i \in 1..(k - 1) : l[i].nombre = l[k].nombre
    BY <1>1, <1>7
  <2>2. k \in Repetidos(k-1)
    BY <1>1, <2>1
  <2>3. Repetidos(k) = Repetidos(k-1) \ {k}
    <3>1. ASSUME NEW j \in Repetidos(k) PROVE j \in Repetidos(k-1) /\ j # k
      <4>1. j \in (k + 1)..N
        BY <1>1
      <4>2. PICK h \in 1..k : l[h].nombre = l[j].nombre
        OBVIOUS
      <4>3. \E g \in 1..(k - 1) : l[g].nombre = l[j].nombre
        <5>1. CASE h = k
          BY <2>1, <4>2, <5>1
        <5>2. CASE h # k
          BY <4>2, <5>2
        <5> QED BY <5>1, <5>2
      <4> QED BY <1>1, <4>1, <4>3
    <3>2. ASSUME NEW j \in Repetidos(k-1), j # k PROVE j \in Repetidos(k)
      <4>1. j \in (k + 1)..N
        BY <1>1, <3>2
      <4>2. \E h \in 1..k : l[h].nombre = l[j].nombre
        BY <1>1
      <4> QED BY <4>1, <4>2
    <3> HIDE DEF Repetidos
    <3> QED BY <3>1, <3>2
  <2>4. k - 1 \in 0..N /\ k \in 0..N
    BY <1>1
  <2>5. IsFiniteSet(Repetidos(k-1)) /\ R(k-1) \in Nat /\ R(k) \in Nat
    BY <1>5, <2>4
  <2> HIDE DEF Repetidos
  <2>6. Cardinality(Repetidos(k-1) \ {k}) = Cardinality(Repetidos(k-1)) - 1
    BY <2>2, <2>5, FS_RemoveElement
  <2> QED BY <2>3, <2>5, <2>6
<1>8. R(0) = 0 /\ R(N) = 0
  <2>1. Repetidos(0) = {} /\ Repetidos(N) = {}
    BY <1>1
  <2> HIDE DEF Repetidos
  <2> QED BY <2>1, FS_EmptySet
<1> DEFINE Q(k) == get_cantidad_pokemon(E[k])
           Unicos(k) ==
             /\ \A i, j \in DOMAIN E[k] : i < j => E[k][i].nombre # E[k][j].nombre
             /\ \A i \in DOMAIN E[k] : \E j \in 1..k : E[k][i].nombre = l[j].nombre
           Bien == {k \in Nat : k <= N => /\ E[k] \in Listado /\ Q(k) \in Nat /\ Q(k) <= S[k] + R(k)
                                          /\ Sueltos(l) => Q(k) = S[k] + R(k)
                                          /\ Unicos(k)}
<1>9. 0 \in Bien
  <2>1. <<>> \in Listado /\ Len(<<>>) = 0
    BY DEF Listado
  <2>2. PICK h : Parciales(<<>>, h) /\ h[Len(<<>>)] = get_cantidad_pokemon(<<>>)
    BY <2>1, CantidadPasos
  <2>3. get_cantidad_pokemon(<<>>) = 0
    BY <2>1, <2>2 DEF Parciales
  <2>4. S[0] = 0
    BY <1>2 DEF Parciales
  <2> HIDE DEF R
  <2>5. DOMAIN E[0] = {}
    BY <1>4
  <2> QED BY <1>4, <1>8, <2>1, <2>3, <2>4, <2>5
<1>10. ASSUME NEW k \in Bien PROVE k + 1 \in Bien
  <2> SUFFICES ASSUME k + 1 <= N
      PROVE  /\ E[k + 1] \in Listado /\ Q(k + 1) \in Nat /\ Q(k + 1) <= S[k + 1] + R(k + 1)
             /\ Sueltos(l) => Q(k + 1) = S[k + 1] + R(k + 1)
             /\ Unicos(k + 1)
    OBVIOUS
  <2>1. /\ k \in 0..N /\ k + 1 \in 1..N /\ k + 1 \in 0..N /\ (k + 1) - 1 = k
        /\ E[k] \in Listado /\ Q(k) \in Nat /\ Q(k) <= S[k] + R(k)
        /\ Sueltos(l) => Q(k) = S[k] + R(k)
    <3>1. N \in Nat /\ k \in Nat
      BY <1>1, <1>10
    <3>2. k <= N /\ k \in 0..N /\ k + 1 \in 1..N /\ k + 1 \in 0..N /\ (k + 1) - 1 = k
      <4> HIDE DEF N, Bien
      <4> QED BY <3>1
    <3>3. k \in Bien => (k <= N => /\ E[k] \in Listado /\ Q(k) \in Nat /\ Q(k) <= S[k] + R(k)
                                   /\ Sueltos(l) => Q(k) = S[k] + R(k))
      <4> HIDE DEF N, Q, R, Unicos
      <4> QED OBVIOUS
    <3> HIDE DEF N, Bien, Q, R, Unicos
    <3> QED BY <1>10, <3>2, <3>3
  <2>u. Unicos(k)
    <3>1. k <= N
      BY <2>1
    <3>2. k \in Bien => (k <= N => Unicos(k))
      <4> HIDE DEF Q, R, Unicos
      <4> QED OBVIOUS
    <3> HIDE DEF Bien, Unicos
    <3> QED BY <1>10, <3>1, <3>2
  <2>2. R(k) \in Nat /\ R(k + 1) \in Nat
    BY <1>5, <2>1
  <2>3. S[k] \in Nat /\ S[k + 1] = S[k] + l[k + 1].cantidad /\ l[k + 1].cantidad \in Nat \ {0}
    <3>1. l[k + 1].cantidad \in Nat \ {0}
      BY <1>1, <2>1
    <3>2. S[(k + 1) - 1] \in Nat /\ S[k + 1] = S[(k + 1) - 1] + l[k + 1].cantidad
      BY <1>2, <2>1 DEF Parciales
    <3> QED BY <2>1, <3>1, <3>2
  <2>4. CASE k + 1 \in Primeros
    <3>1. Suma[k + 1] \in t_pokemon /\ Suma[k + 1].cantidad + R((k + 1) - 1) = l[k + 1].cantidad + R(k + 1)
      BY <1>6, <2>1, <2>4
    <3> HIDE DEF Suma, R, Primeros
    <3>2. E[k + 1] = Append(E[k], Suma[k + 1])
      BY <1>4, <2>1, <2>4
    <3>3. Q(k + 1) = Q(k) + Suma[k + 1].cantidad
      BY <2>1, <3>1, <3>2, CantidadAgregar
    <3>4. E[k + 1] \in Listado
      BY <2>1, <3>1, <3>2 DEF Listado
    <3>5. Suma[k + 1].cantidad \in Nat
      BY <3>1 DEF t_pokemon
    <3>6. Suma[k + 1].cantidad + R(k) = l[k + 1].cantidad + R(k + 1)
      BY <2>1, <3>1
    <3> HIDE DEF Q
    <3>7. /\ Q(k) + Suma[k + 1].cantidad <= S[k] + l[k + 1].cantidad + R(k + 1)
          /\ Sueltos(l) => Q(k) + Suma[k + 1].cantidad = S[k] + l[k + 1].cantidad + R(k + 1)
      <4>1. PICK q \in Nat, r \in Nat, v \in Nat, a \in Nat, c \in Nat, w \in Nat :
              /\ q = Q(k) /\ r = R(k) /\ v = R(k + 1) /\ a = l[k + 1].cantidad
              /\ c = Suma[k + 1].cantidad /\ w = S[k]
        BY <2>1, <2>2, <2>3, <3>5
      <4>2. q <= w + r /\ c + r = a + v
        BY <2>1, <3>6, <4>1
      <4>3. Sueltos(l) => q = w + r
        BY <2>1, <4>1
      <4>4. q + c <= w + a + v
        BY <4>2
      <4>5. q = w + r => q + c = w + a + v
        BY <4>2
      <4> QED BY <4>1, <4>3, <4>4, <4>5
    <3>8. Q(k + 1) \in Nat
      BY <2>1, <3>3, <3>5
    <3>9. Unicos(k + 1)
      <4> DEFINE x == Suma[k + 1]
      <4>1. x.nombre = l[k + 1].nombre
        BY <1>1, <2>1 DEF Suma
      <4>2. \A j \in 1..k : l[j].nombre # x.nombre
        BY <2>1, <2>4, <4>1 DEF Primeros
      <4> HIDE DEF x
      <4>3. /\ E[k] \in Seq(t_pokemon) /\ x \in t_pokemon /\ E[k + 1] = Append(E[k], x)
        BY <2>1, <3>1, <3>2 DEF Listado, x
      <4>4. /\ DOMAIN E[k + 1] = DOMAIN E[k] \cup {Len(E[k]) + 1} /\ DOMAIN E[k] = 1..Len(E[k])
            /\ \A i \in DOMAIN E[k] : E[k + 1][i] = E[k][i]
            /\ E[k + 1][Len(E[k]) + 1] = x /\ Len(E[k]) \in Nat
        BY <4>3
      <4>5. \A i \in DOMAIN E[k] : E[k][i].nombre # x.nombre
        BY <2>u, <4>2
      <4>6. ASSUME NEW i \in DOMAIN E[k + 1], NEW j \in DOMAIN E[k + 1], i < j
            PROVE  E[k + 1][i].nombre # E[k + 1][j].nombre
        <5>1. i \in DOMAIN E[k]
          BY <4>4, <4>6
        <5>2. CASE j \in DOMAIN E[k]
          BY <2>u, <4>4, <4>6, <5>1, <5>2
        <5>3. CASE j = Len(E[k]) + 1
          BY <4>4, <4>5, <5>1, <5>3
        <5> QED BY <4>4, <5>2, <5>3
      <4>7. ASSUME NEW i \in DOMAIN E[k + 1]
            PROVE  \E j \in 1..(k + 1) : E[k + 1][i].nombre = l[j].nombre
        <5>1. CASE i \in DOMAIN E[k]
          <6>1. PICK j \in 1..k : E[k][i].nombre = l[j].nombre
            BY <2>u, <5>1
          <6>2. j \in 1..(k + 1)
            BY <2>1
          <6> QED BY <4>4, <5>1, <6>1, <6>2
        <5>2. CASE i = Len(E[k]) + 1
          BY <2>1, <4>1, <4>4, <5>2
        <5> QED BY <4>4, <5>1, <5>2
      <4> QED BY <4>6, <4>7
    <3> HIDE DEF Unicos
    <3> QED BY <2>3, <3>3, <3>4, <3>7, <3>8, <3>9
  <2>5. CASE k + 1 \notin Primeros
    <3>1. R((k + 1) - 1) = R(k + 1) + 1
      BY <1>7, <2>1, <2>5
    <3> HIDE DEF R, Primeros
    <3>2. E[k + 1] = E[k]
      BY <1>4, <2>1, <2>5
    <3>3. R(k) = R(k + 1) + 1
      BY <2>1, <3>1
    <3>4. Q(k + 1) = Q(k)
      BY <3>2
    <3>5. Sueltos(l) => l[k + 1].cantidad = 1
      <4>1. PICK i \in 1..k : l[i].nombre = l[k + 1].nombre
        BY <1>1, <2>1, <2>5 DEF Primeros
      <4> QED BY <1>1, <2>1, <4>1 DEF Sueltos
    <3>6. Unicos(k + 1)
      BY <2>1, <2>u, <3>2
    <3> HIDE DEF Q, Unicos
    <3>7. /\ Q(k) <= S[k] + l[k + 1].cantidad + R(k + 1)
          /\ Sueltos(l) => Q(k) = S[k] + l[k + 1].cantidad + R(k + 1)
      <4>1. PICK q \in Nat, r \in Nat, v \in Nat, a \in Nat, w \in Nat :
              /\ q = Q(k) /\ r = R(k) /\ v = R(k + 1) /\ a = l[k + 1].cantidad /\ w = S[k]
        BY <2>1, <2>2, <2>3
      <4>2. q <= w + r /\ r = v + 1 /\ a >= 1 /\ (Sueltos(l) => q = w + r /\ a = 1)
        BY <2>1, <2>3, <3>3, <3>5, <4>1
      <4>3. q <= w + a + v /\ (q = w + r /\ a = 1 => q = w + a + v)
        BY <4>2
      <4> QED BY <4>1, <4>2, <4>3
    <3> QED BY <2>1, <2>3, <3>2, <3>4, <3>6, <3>7
  <2> QED BY <2>4, <2>5
<1>11. Bien = Nat
  <2>1. Bien \in SUBSET Nat
    OBVIOUS
  <2> HIDE DEF Bien
  <2> QED BY <1>9, <1>10, <2>1, InduccionNat
<1>12. Q(N) \in Nat /\ Q(N) <= S[N] + R(N) /\ (Sueltos(l) => Q(N) = S[N] + R(N)) /\ Unicos(N)
  <2>1. N \in Bien
    <3> HIDE DEF Bien
    <3> QED BY <1>1, <1>11
  <2> HIDE DEF Q, R, Unicos
  <2> QED BY <1>1, <2>1
<1>13. S[N] \in Nat
  BY <1>2, CantidadAgregar, CantidadPasos
<1>14. Sueltos(E[N])
  BY <1>12 DEF Sueltos
<1> HIDE DEF R
<1> QED BY <1>2, <1>4, <1>8, <1>12, <1>13, <1>14

-----------------------------------------------------------------------------
(* What most steps leave alone: the lists, but for being summarised, the    *)
(* destination of who is BLOCKED, and the CATCH that wait                   *)

\* f keeps its list, but for summarising it, and begins no capture.
Conserva(f) ==
  /\ ent'[f].pokemones \in {ent[f].pokemones, sumarizar_pokemones(ent[f].pokemones)}
  /\ ent'[f].pc = "capturar" => ent[f].pc = "capturar"

\* Who is BLOCKED after the step was so before, and was sent nowhere else.
MismoDestino(f) ==
  ent'[f].estado = "BLOCKED" => ent[f].estado = "BLOCKED" /\ ent'[f].destino = ent[f].destino

Quieta ==
  /\ config' = config /\ MismosCatch
  /\ \A f \in Entrenador : Pendientes(f)' \subseteq Pendientes(f) /\ Conserva(f) /\ MismoDestino(f)

\* The steps that move a pokemon, a permit to catch or a destination.
Captura ==
  \/ \E e \in Entrenador : \/ Llegar(e) \/ SalirDeExec(e) \/ EnviarCatch(e) \/ CapturarSinBroker(e)
                           \/ ProponerIntercambio(e)
  \/ \E c \in DOMAIN catches : recibidor_mensajes_caught(c)

LEMMA SinCatchQuieta ==
  ASSUME config' = config, catches' = catches,
         \A f \in Entrenador : ent'[f] = ent[f] \/ (Conserva(f) /\ MismoDestino(f))
  PROVE  Quieta
<1>1. MismosCatch /\ \A f : Pendientes(f)' \subseteq Pendientes(f)
  BY PendientesIguales DEF MismosCatch
<1> QED BY <1>1 DEF Quieta, Conserva, MismoDestino

LEMMA HiloEntrenadorQuieta ==
  ASSUME IInv, EnTurno, SinDesalojo, NEW e \in Entrenador, HiloEntrenador(e),
         ~Captura, ~Intercambiar(e)
  PROVE  Quieta
<1>0. Tipos
  BY DEF IInv
<1>1. CASE SinDestino(e) \/ IntercambioNulo(e)
  BY <1>1, SinCatchQuieta DEF SinDestino, IntercambioNulo, Segfault
<1>2. ~PedirReplanificacion(e) /\ ~SeguirODejar(e)
  BY DEF PedirReplanificacion, SeguirODejar, EnTurno, SinDesalojo
<1>3. CASE CumplirObjetivo(e) \/ VolverAEsperar(e) \/ Evaluar(e)
  <2>1. config' = config /\ catches' = catches
    BY <1>3 DEF CumplirObjetivo, VolverAEsperar, Evaluar, capturaVars
  <2>2. ASSUME NEW f \in Entrenador PROVE ent'[f] = ent[f] \/ (Conserva(f) /\ MismoDestino(f))
    <3> DEFINE l == sumarizar_pokemones(ent[e].pokemones)
    <3>1. \/ ent' = [ent EXCEPT ![e].pokemones = l, ![e].estado = "EXIT", ![e].pc = "fin"]
          \/ ent' = [ent EXCEPT ![e].pokemones = l, ![e].pc = "esperar"]
          \/ ent' = [ent EXCEPT ![e].pokemones = l, ![e].pc = "vuelta"]
      BY <1>3 DEF CumplirObjetivo, VolverAEsperar, Evaluar
    <3> HIDE DEF l
    <3>2. f # e => ent'[f] = ent[f]
      BY <1>0, <3>1, EntDe
    <3>3. /\ ent'[e].pokemones = l /\ ent'[e].pc \in {"fin", "esperar", "vuelta"}
          /\ ent'[e].destino = ent[e].destino /\ ent'[e].estado \in {"EXIT", ent[e].estado}
      BY <1>0, <3>1, EntDe DEF Ficha
    <3> QED BY <3>2, <3>3 DEF Conserva, MismoDestino, l
  <2> QED BY <2>1, <2>2, SinCatchQuieta
<1>4. CASE Despertar(e) \/ ejecuta(e) \/ TerminarQuantum(e) \/ EsperarCaught(e)
  <2>1. config' = config /\ catches' = catches
    BY <1>4 DEF Despertar, ejecuta, TerminarQuantum, EsperarCaught, capturaVars
  <2>2. ASSUME NEW f \in Entrenador PROVE ent'[f] = ent[f] \/ (Conserva(f) /\ MismoDestino(f))
    <3>1. f # e => ent'[f] = ent[f]
      BY <1>0, <1>4, EntDe DEF Despertar, ejecuta, TerminarQuantum, EsperarCaught
    <3>2. /\ ent'[e].pokemones = ent[e].pokemones /\ ent'[e].pc \in {ent[e].pc, "vuelta", "mover", "evaluar"}
          /\ ent'[e].destino = ent[e].destino /\ ent'[e].estado \in {"READY", ent[e].estado}
      BY <1>0, <1>4, EntDe DEF Despertar, ejecuta, TerminarQuantum, EsperarCaught, Ficha
    <3> QED BY <3>1, <3>2 DEF Conserva, MismoDestino
  <2> QED BY <2>1, <2>2, SinCatchQuieta
<1>5. CASE RegistrarCatch(e)
  <2>1. config' = config /\ MismosCatch /\ \A f : Pendientes(f)' = Pendientes(f)
    BY <1>5, RegistrarCatchEfecto DEF RegistrarCatch
  <2>2. ASSUME NEW f \in Entrenador PROVE Conserva(f) /\ MismoDestino(f)
    BY <1>0, <1>5, EntDe DEF RegistrarCatch, Ficha, Conserva, MismoDestino
  <2> QED BY <2>1, <2>2 DEF Quieta
<1> QED BY <1>1, <1>2, <1>3, <1>4, <1>5 DEF HiloEntrenador, Captura

\* Every step but an exchange is one or the other.
LEMMA PasoQuieto ==
  ASSUME IInv, EnTurno, SinDesalojo, [Next]_vars,
         \A e \in Entrenador : ~Intercambiar(e)
  PROVE  Quieta \/ Captura
<1> SUFFICES ASSUME ~Captura PROVE Quieta
  OBVIOUS
<1>0. Tipos
  BY DEF IInv
<1>1. ASSUME NEW e \in Entrenador, HiloEntrenador(e) PROVE Quieta
  BY <1>1, HiloEntrenadorQuieta
<1>2. CASE Envio
  <2>1. \A f \in Entrenador : ent'[f] = ent[f] \/ (Conserva(f) /\ MismoDestino(f))
    BY <1>2 DEF Envio, Enviado, Conserva, MismoDestino
  <2> QED BY <1>2, <2>1, SinCatchQuieta DEF Envio
<1>3. CASE Mandados
  BY <1>0, <1>2, <1>3, MandadosEfecto
<1>4. CASE Segfault
  BY <1>2, <1>4, SegfaultEfecto
<1>5. CASE HiloPlanificador
  <2>1. CASE TomarItem
    BY <1>3, <2>1 DEF Mandados
  <2>2. CASE EstimarSinDestino
    BY <1>4, <2>2 DEF EstimarSinDestino
  <2>3. CASE planificar_fifo \/ planificar_rr \/ \E i \in DOMAIN cola_ready : planificar_sjfsd(i)
    <3>1. PICK e \in Entrenador : Despachado(e)
      BY <1>0, <2>3, planificarEfecto
    <3>2. \A f \in Entrenador : ent'[f] = ent[f] \/ (Conserva(f) /\ MismoDestino(f))
      BY <3>1 DEF Despachado, SoloCambia, Conserva, MismoDestino
    <3> QED BY <3>1, <3>2, SinCatchQuieta DEF Despachado
  <2> QED BY <1>5, <2>1, <2>2, <2>3 DEF HiloPlanificador
<1>6. CASE HiloReplanificarSjfcd
  BY <1>4, <1>6 DEF HiloReplanificarSjfcd, SeguirEjecutando, Desalojar, CompararSinCola, EnTurno
<1>7. ASSUME NEW c \in DOMAIN catches, HiloCaught(c) PROVE Quieta
  <2>1. ASSUME NEW atrapado \in BOOLEAN, Responder(c, atrapado) PROVE Quieta
    <3>1. config' = config /\ ent' = ent
      BY <2>1 DEF Responder
    <3>2. MismosCatch /\ \A f : Pendientes(f)' \subseteq Pendientes(f)
      BY <1>0, <2>1, ResponderEfecto
    <3> QED BY <3>1, <3>2 DEF Quieta, Conserva, MismoDestino
  <2> QED BY <1>4, <1>7, <2>1 DEF HiloCaught, CaughtSinDestino, Captura
<1>8. ASSUME NEW t \in Entrenador \cup {Detector},
             DetectarNada(t) \/ resolver_deadlock(t) \/ Detectar(t)
      PROVE  Quieta
  <2>1. CASE Miradas
    <3>1. \A f \in Entrenador : Conserva(f) /\ MismoDestino(f)
      BY <2>1 DEF Miradas, Mirado, Conserva, MismoDestino
    <3> QED BY <2>1, <3>1, SinCatchQuieta DEF Miradas
  <2> QED BY <1>0, <1>4, <1>8, <2>1, DetectarNadaEfecto, resolver_deadlockEfecto, DetectarEfecto
<1>9. ASSUME NEW e \in Entrenador, PerderAck(e) PROVE Quieta
  <2>1. config' = config /\ catches' = catches
    BY <1>9 DEF PerderAck
  <2>2. ASSUME NEW f \in Entrenador PROVE ent'[f] = ent[f] \/ (Conserva(f) /\ MismoDestino(f))
    BY <1>0, <1>9, EntDe DEF PerderAck, Ficha, Conserva, MismoDestino
  <2> QED BY <2>1, <2>2, SinCatchQuieta
<1>10. CASE UNCHANGED vars
  BY <1>10, SinCatchQuieta DEF vars
<1>11. CASE Hilos
  BY <1>1, <1>3, <1>5, <1>6, <1>7, <1>8, <1>11 DEF Hilos, Mandados
<1> QED BY <1>8, <1>9, <1>10, <1>11 DEF Next, Falla, Captura

-----------------------------------------------------------------------------
(* Room: what a trainer has, and what it may still get                       *)

\* What e has, has sent for or is about to send for.
Carga(e) ==
  get_cantidad_pokemon(ent[e].pokemones) + Enviada(e) + (IF ent[e].pc = "capturar" THEN 1 ELSE 0)

\* Nobody is loaded with more than it wants: the invariant behind CupoRespetado.
EnCupo == \A e \in Entrenador : Carga(e) <= get_cantidad_pokemon(config.objetivo[e])

LEMMA CupoTipo ==
  ASSUME Tipos, NEW e \in Entrenador
  PROVE  /\ get_cantidad_pokemon(ent[e].pokemones) \in Nat /\ Enviada(e) \in {0, 1} /\ Carga(e) \in Nat
         /\ get_cantidad_pokemon(config.objetivo[e]) \in Nat
<1>1. ent[e].pokemones \in Listado /\ config.objetivo[e] \in Listado
  BY FichaDe, EscenarioTipo DEF Tipos, Entrenador
<1>2. /\ get_cantidad_pokemon(ent[e].pokemones) \in Nat
      /\ get_cantidad_pokemon(config.objetivo[e]) \in Nat
  BY <1>1, CantidadPasos
<1>3. Enviada(e) \in {0, 1}
  BY DEF Enviada
<1> QED BY <1>2, <1>3 DEF Carga

\* The load of one trainer, from what a step does to it.
LEMMA CargaIgual ==
  ASSUME Tipos, NEW f \in Entrenador, ent'[f] = ent[f], Pendientes(f)' = Pendientes(f)
  PROVE  Carga(f)' = Carga(f)
BY DEF Carga, Enviada

LEMMA QuietaCupo ==
  ASSUME Tipos, Tipos', EnCupo, Quieta
  PROVE  EnCupo'
<1>1. config' = config /\ Entrenador' = Entrenador
  BY DEF Quieta, Entrenador
<1> SUFFICES ASSUME NEW f \in Entrenador PROVE Carga(f)' <= get_cantidad_pokemon(config.objetivo[f])
  BY <1>1 DEF EnCupo
<1>2. Pendientes(f)' \subseteq Pendientes(f) /\ Conserva(f)
  BY DEF Quieta
<1> DEFINE antes == get_cantidad_pokemon(ent[f].pokemones)
           luego == get_cantidad_pokemon(ent'[f].pokemones)
<1>3. luego <= antes /\ antes \in Nat /\ luego \in Nat
  <2>1. ent[f].pokemones \in Listado /\ sumarizar_pokemones(ent[f].pokemones) \in Listado
    BY FichaDe, SumarizarTipo
  <2>2. antes \in Nat /\ get_cantidad_pokemon(sumarizar_pokemones(ent[f].pokemones)) \in Nat
    BY <2>1, CantidadPasos
  <2>3. get_cantidad_pokemon(sumarizar_pokemones(ent[f].pokemones)) <= antes
    BY <2>1, CantidadSumarizar
  <2> QED BY <1>2, <2>2, <2>3 DEF Conserva
<1>4. Enviada(f)' <= Enviada(f) /\ Enviada(f) \in Nat /\ Enviada(f)' \in Nat
  BY <1>2 DEF Enviada
<1> DEFINE sale == IF ent[f].pc = "capturar" THEN 1 ELSE 0
           saldra == IF ent'[f].pc = "capturar" THEN 1 ELSE 0
<1>5. saldra <= sale /\ sale \in Nat /\ saldra \in Nat
  BY <1>2 DEF Conserva
<1>6. Carga(f)' = luego + Enviada(f)' + saldra /\ Carga(f) = antes + Enviada(f) + sale
  BY DEF Carga
<1>7. Carga(f) <= get_cantidad_pokemon(config.objetivo[f]) /\ get_cantidad_pokemon(config.objetivo[f]) \in Nat
  BY CupoTipo DEF EnCupo
<1> HIDE DEF antes, luego, sale, saldra
<1>8. Carga(f)' <= Carga(f) /\ Carga(f)' \in Nat /\ Carga(f) \in Nat
  BY <1>3, <1>4, <1>5, <1>6
<1> QED BY <1>7, <1>8

\* A trainer that moves or has arrived waits for no answer.
LEMMA EnCaminoNadaPendiente ==
  ASSUME Tipos, EnTurno, NEW e \in Entrenador, ent[e].pc \in {"mover", "llego"}
  PROVE  Pendientes(e) = {} /\ Enviada(e) = 0
<1>1. CuentaTipo
  BY PermisosNat
<1>2. Credito(e) = ent[e].semaforo + Enviada(e)
  BY <1>1 DEF Credito, Deuda, CuentaTipo
<1>3. Permisos(e) + sem.en_exec <= 1
  BY DEF EnTurno
<1>4. Permisos(e) = (IF Credito(e) > 0 THEN Credito(e) ELSE 0) + 1
  BY DEF Permisos
<1> QED BY <1>1, <1>2, <1>3, <1>4 DEF CuentaTipo, Enviada

\* The load of all the trainers, when only one changes.
LEMMA CupoDeUno ==
  ASSUME Tipos, EnCupo, config' = config, NEW e \in Entrenador, SoloCambia(e),
         \A f \in Entrenador \ {e} : Pendientes(f)' = Pendientes(f),
         Carga(e)' <= get_cantidad_pokemon(config.objetivo[e])
  PROVE  EnCupo'
<1>1. Entrenador' = Entrenador
  BY DEF Entrenador
<1>2. \A f \in Entrenador \ {e} : Carga(f)' = Carga(f)
  BY CargaIgual DEF SoloCambia
<1> QED BY <1>1, <1>2 DEF EnCupo

\* A trainer sets off to capture only where puede_capturar_pokemones has seen
\* room, and the room is still there when the answer comes.
LEMMA CapturaCupo ==
  ASSUME Tipos, Tipos', EnTurno, EnCupo, Captura
  PROVE  EnCupo'
<1>1. ASSUME NEW e \in Entrenador, Llegar(e) \/ ProponerIntercambio(e) PROVE EnCupo'
  <2>1. config' = config /\ Entrenador' = Entrenador /\ \A f : Pendientes(f)' = Pendientes(f)
    BY <1>1, PendientesIguales DEF Llegar, ProponerIntercambio, capturaVars, Entrenador
  <2>2. \A f \in Entrenador : ent'[f].pokemones = ent[f].pokemones
                              /\ (ent'[f].pc = "capturar" => ent[f].pc = "capturar")
    <3>1. CASE Llegar(e)
      BY <3>1, EntDe DEF Llegar, Ficha
    <3>2. CASE ProponerIntercambio(e)
      <4> DEFINE g == get_entrenador_intercambio(e)
                 nada == Ofrecido(e, g) = <<>> \/ ent[e].destino = Nulo
                 lugar == IF nada THEN "detectar" ELSE "ciclos"
                 trato == IF nada THEN SinTrato
                          ELSE [con |-> g, queme_sirve |-> ent[e].destino.nombre,
                                quele_sirve |-> Ofrecido(e, g)[1].nombre]
                 destino == IF Ofrecido(e, g) = <<>> THEN Nulo
                            ELSE get_pokemon_team(Ofrecido(e, g)[1].nombre, 0, ent[e].posicion)
      <4>1. /\ lugar \in {"detectar", "ciclos"}
            /\ ent' = [ent EXCEPT ![e].pc = lugar, ![e].trato = trato, ![g].ocupado = TRUE,
                                  ![g].destino = destino]
        BY <3>2 DEF ProponerIntercambio
      <4> HIDE DEF g, lugar, trato, destino
      <4> QED BY <4>1, EntDe DEF Ficha
    <3> QED BY <1>1, <3>1, <3>2
  <2>3. \A f \in Entrenador : Carga(f)' <= Carga(f) /\ Carga(f)' \in Nat
    <3> SUFFICES ASSUME NEW f \in Entrenador PROVE Carga(f)' <= Carga(f) /\ Carga(f)' \in Nat
      OBVIOUS
    <3>1. Enviada(f)' = Enviada(f)
      BY <2>1 DEF Enviada
    <3>2. get_cantidad_pokemon(ent[f].pokemones) \in Nat /\ Enviada(f) \in {0, 1}
      BY CupoTipo
    <3>3. get_cantidad_pokemon(ent'[f].pokemones) = get_cantidad_pokemon(ent[f].pokemones)
      BY <2>2
    <3> QED BY <2>2, <3>1, <3>2, <3>3 DEF Carga
  <2>4. \A f \in Entrenador : Carga(f) \in Nat /\ get_cantidad_pokemon(config.objetivo[f]) \in Nat
    BY CupoTipo
  <2>6. ASSUME NEW f \in Entrenador PROVE Carga(f)' <= get_cantidad_pokemon(config.objetivo[f])
    <3>1. Carga(f) <= get_cantidad_pokemon(config.objetivo[f])
      BY DEF EnCupo
    <3> QED BY <2>3, <2>4, <3>1
  <2> QED BY <2>1, <2>6 DEF EnCupo
<1>2. ASSUME NEW e \in Entrenador, SalirDeExec(e) PROVE EnCupo'
  <2>1. config' = config /\ \A f : Pendientes(f)' = Pendientes(f)
    BY <1>2, PendientesIguales DEF SalirDeExec, capturaVars
  <2>2. /\ ent[e].pc = "llego" /\ SoloCambia(e) /\ ent'[e].pokemones = ent[e].pokemones
        /\ ent'[e].pc = IF PuedeCapturar(e) THEN "capturar" ELSE "intercambiar"
    BY <1>2, EntDe DEF Ficha, SalirDeExec, SoloCambia
  <2>3. Enviada(e) = 0 /\ Enviada(e)' = 0
    BY <2>1, <2>2, EnCaminoNadaPendiente DEF Enviada
  <2>4. PuedeCapturar(e) <=> get_cantidad_pokemon(ent[e].pokemones) < get_cantidad_pokemon(config.objetivo[e])
    BY DEF PuedeCapturar, puede_capturar_pokemones
  <2>5. /\ get_cantidad_pokemon(ent[e].pokemones) \in Nat /\ get_cantidad_pokemon(config.objetivo[e]) \in Nat
        /\ Carga(e) <= get_cantidad_pokemon(config.objetivo[e])
    BY CupoTipo DEF EnCupo
  <2>6. Carga(e) = get_cantidad_pokemon(ent[e].pokemones)
    BY <2>2, <2>3, <2>5 DEF Carga
  <2>7. Carga(e)' <= get_cantidad_pokemon(config.objetivo[e])
    BY <2>2, <2>3, <2>4, <2>5, <2>6 DEF Carga
  <2> QED BY <2>1, <2>2, <2>7, CupoDeUno
<1>3. ASSUME NEW e \in Entrenador, EnviarCatch(e) PROVE EnCupo'
  <2>1. PICK n : /\ Pendientes(e)' = Pendientes(e) \cup {n}
                 /\ \A f \in Entrenador \ {e} : Pendientes(f)' = Pendientes(f)
    BY <1>3, EnviarCatchEfecto
  <2>2. /\ ent[e].pc = "capturar" /\ SoloCambia(e) /\ ent'[e].pokemones = ent[e].pokemones
        /\ ent'[e].pc = "registrar" /\ config' = config
    BY <1>3, EntDe DEF Ficha, EnviarCatch, SoloCambia
  <2>3. Enviada(e) = 0 /\ Enviada(e)' = 1
    BY <2>1, <2>2 DEF EnTurno, Enviada
  <2>4. /\ get_cantidad_pokemon(ent[e].pokemones) \in Nat
        /\ Carga(e) <= get_cantidad_pokemon(config.objetivo[e])
    BY CupoTipo DEF EnCupo
  <2>5. Carga(e)' = Carga(e)
    BY <2>2, <2>3, <2>4 DEF Carga
  <2> QED BY <2>1, <2>2, <2>4, <2>5, CupoDeUno
<1>4. ASSUME NEW e \in Entrenador, CapturarSinBroker(e) PROVE EnCupo'
  <2> DEFINE n == ent[e].destino.nombre
  <2>1. config' = config /\ \A f : Pendientes(f)' = Pendientes(f)
    BY <1>4, PendientesIguales DEF CapturarSinBroker
  <2>2. n \in Nombres
    BY <1>4, FichaDe DEF CapturarSinBroker
  <2>3. /\ ent[e].pc = "capturar"
        /\ ent' = [ent EXCEPT ![e].pokemones = Append(@, get_pokemon(n)), ![e].destino = Nulo,
                              ![e].ocupado = FALSE, ![e].estimado = TRUE, ![e].pc = "evaluar"]
    BY <1>4 DEF CapturarSinBroker
  <2> HIDE DEF n
  <2>4. /\ SoloCambia(e) /\ ent'[e].pokemones = Append(ent[e].pokemones, get_pokemon(n))
        /\ ent'[e].pc = "evaluar"
    BY <2>3, EntDe DEF Ficha, SoloCambia
  <2>5. get_cantidad_pokemon(ent'[e].pokemones) = get_cantidad_pokemon(ent[e].pokemones) + 1
    <3>1. get_pokemon(n) \in t_pokemon /\ get_pokemon(n).cantidad = 1
      BY <2>2 DEF get_pokemon, t_pokemon
    <3>2. ent[e].pokemones \in Listado
      BY FichaDe
    <3> QED BY <2>4, <3>1, <3>2, CantidadAgregar
  <2>6. Enviada(e)' = Enviada(e)
    BY <2>1 DEF Enviada
  <2>7. /\ get_cantidad_pokemon(ent[e].pokemones) \in Nat /\ Enviada(e) \in {0, 1}
        /\ Carga(e) <= get_cantidad_pokemon(config.objetivo[e])
    BY CupoTipo DEF EnCupo
  <2>8. Carga(e)' = Carga(e)
    BY <2>3, <2>4, <2>5, <2>6, <2>7 DEF Carga
  <2> QED BY <2>1, <2>4, <2>7, <2>8, CupoDeUno
<1>5. ASSUME NEW c \in DOMAIN catches, recibidor_mensajes_caught(c) PROVE EnCupo'
  <2>0. PICK e \in Entrenador : e = catches[c].entrenador
    BY CatchesDe
  <2>1. /\ c \in Pendientes(e) /\ Pendientes(e)' = Pendientes(e) \ {c}
        /\ \A f \in Entrenador \ {e} : Pendientes(f)' = Pendientes(f)
    BY <1>5, <2>0, recibidor_mensajes_caughtEfecto
  <2>2. Enviada(e) = 1 /\ Enviada(e)' = 0
    BY <2>1 DEF EnTurno, Enviada
  <2> DEFINE n == ent[e].destino.nombre
             lista == IF catches[c].estado = "atrapado" THEN Append(ent[e].pokemones, get_pokemon(n))
                      ELSE ent[e].pokemones
  <2>3. /\ config' = config
        /\ ent' = [ent EXCEPT ![e].pokemones = lista, ![e].destino = Nulo, ![e].ocupado = FALSE,
                              ![e].semaforo = @ + 1]
        /\ catches[c].estado = "atrapado" => n \in Nombres
    BY <1>5, <2>0, FichaDe DEF recibidor_mensajes_caught
  <2> HIDE DEF n, lista
  <2>4. SoloCambia(e) /\ ent'[e].pokemones = lista /\ ent'[e].pc = ent[e].pc
    BY <2>3, EntDe DEF Ficha, SoloCambia
  <2>5. /\ get_cantidad_pokemon(lista) \in Nat
        /\ get_cantidad_pokemon(lista) <= get_cantidad_pokemon(ent[e].pokemones) + 1
    <3>1. ent[e].pokemones \in Listado /\ get_cantidad_pokemon(ent[e].pokemones) \in Nat
      BY FichaDe, CupoTipo
    <3>2. CASE catches[c].estado = "atrapado"
      <4>1. get_pokemon(n) \in t_pokemon /\ get_pokemon(n).cantidad = 1
        BY <2>3, <3>2 DEF get_pokemon, t_pokemon
      <4> QED BY <3>1, <3>2, <4>1, CantidadAgregar DEF lista
    <3>3. CASE catches[c].estado # "atrapado"
      BY <3>1, <3>3 DEF lista
    <3> QED BY <3>2, <3>3
  <2>6. /\ get_cantidad_pokemon(ent[e].pokemones) \in Nat /\ get_cantidad_pokemon(config.objetivo[e]) \in Nat
        /\ Carga(e) <= get_cantidad_pokemon(config.objetivo[e])
    BY CupoTipo DEF EnCupo
  <2>7. Carga(e)' <= get_cantidad_pokemon(config.objetivo[e])
    BY <2>2, <2>4, <2>5, <2>6 DEF Carga
  <2> QED BY <2>1, <2>3, <2>4, <2>7, CupoDeUno
<1> QED BY <1>1, <1>2, <1>3, <1>4, <1>5 DEF Captura

LEMMA CupoPaso ==
  ASSUME IInv, IInv', EnTurno, EnCupo, SinDesalojo, [Next]_vars,
         \A e \in Entrenador : ~Intercambiar(e)
  PROVE  EnCupo'
<1>1. Tipos /\ Tipos'
  BY DEF IInv
<1> QED BY <1>1, PasoQuieto, QuietaCupo, CapturaCupo

-----------------------------------------------------------------------------
(* What a CAUGHT credits                                                     *)

\* A trainer that is BLOCKED is where it sent its CATCH from.
EnDestinoDelCatch(e) ==
  \A c \in Pendientes(e) :
    ent[e].estado = "BLOCKED" => ent[e].destino # Nulo /\ ent[e].destino.nombre = catches[c].nombre

\* The invariant behind CapturaFiel.
Fieles == \A e \in Entrenador : EnDestinoDelCatch(e)

LEMMA FielSigue ==
  ASSUME NEW f \in Entrenador, MismosCatch, Pendientes(f)' \subseteq Pendientes(f), MismoDestino(f),
         EnDestinoDelCatch(f)
  PROVE  EnDestinoDelCatch(f)'
<1> SUFFICES ASSUME NEW c \in Pendientes(f)', ent'[f].estado = "BLOCKED"
    PROVE  ent'[f].destino # Nulo /\ ent'[f].destino.nombre = catches'[c].nombre
  BY DEF EnDestinoDelCatch
<1>1. c \in Pendientes(f) /\ catches'[c].nombre = catches[c].nombre
  BY DEF MismosCatch, Pendientes
<1> QED BY <1>1 DEF MismoDestino, EnDestinoDelCatch

\* Only trainer e changes, and it waits for no answer.
LEMMA FielesDeUno ==
  ASSUME Fieles, config' = config, MismosCatch, NEW e \in Entrenador, SoloCambia(e),
         \A f \in Entrenador \ {e} : Pendientes(f)' = Pendientes(f), Pendientes(e)' = {}
  PROVE  Fieles'
<1>1. Entrenador' = Entrenador
  BY DEF Entrenador
<1>2. ASSUME NEW f \in Entrenador, f # e PROVE EnDestinoDelCatch(f)'
  BY <1>2, FielSigue DEF Fieles, SoloCambia, MismoDestino
<1>3. EnDestinoDelCatch(e)'
  BY DEF EnDestinoDelCatch
<1> QED BY <1>1, <1>2, <1>3 DEF Fieles

\* Whoever sends a BLOCKED trainer elsewhere makes it READY first.
LEMMA FielesPaso ==
  ASSUME IInv, IInv', EnTurno, Fieles, SinDesalojo, [Next]_vars,
         \A e \in Entrenador : ~Intercambiar(e) /\ ~ProponerIntercambio(e)
  PROVE  Fieles'
<1>0. Tipos
  BY DEF IInv
<1>1. CASE Quieta
  BY <1>1, FielSigue DEF Quieta, Fieles, Entrenador
<1>2. ASSUME NEW e \in Entrenador, Llegar(e) \/ CapturarSinBroker(e) PROVE Fieles'
  <2>1. config' = config /\ MismosCatch /\ \A f : Pendientes(f)' = Pendientes(f)
    BY <1>2, PendientesIguales DEF Llegar, CapturarSinBroker, capturaVars, MismosCatch
  <2>2. SoloCambia(e)
    BY <1>0, <1>2, EntDe DEF Llegar, CapturarSinBroker, SoloCambia
  <2>3. Pendientes(e) = {}
    BY <1>0, <1>2, EnCaminoNadaPendiente DEF Llegar, CapturarSinBroker, EnTurno
  <2> QED BY <2>1, <2>2, <2>3, FielesDeUno
<1>3. ASSUME NEW e \in Entrenador, SalirDeExec(e) PROVE Fieles'
  <2>1. config' = config /\ MismosCatch /\ \A f : Pendientes(f)' = Pendientes(f)
    BY <1>3, PendientesIguales DEF SalirDeExec, capturaVars, MismosCatch
  <2>2. \A f \in Entrenador : MismoDestino(f)
    BY <1>0, <1>3, EntDe DEF SalirDeExec, Ficha, MismoDestino
  <2> QED BY <2>1, <2>2, FielSigue DEF Fieles, Entrenador
<1>4. ASSUME NEW e \in Entrenador, EnviarCatch(e) PROVE Fieles'
  <2>1. PICK n :
           /\ n \notin DOMAIN catches /\ DOMAIN catches' = DOMAIN catches \cup {n}
           /\ \A c \in DOMAIN catches : catches'[c] = catches[c]
           /\ catches'[n].nombre = ent[e].destino.nombre
           /\ Pendientes(e)' = Pendientes(e) \cup {n}
           /\ \A f \in Entrenador \ {e} : Pendientes(f)' = Pendientes(f)
    BY <1>0, <1>4, EnviarCatchEfecto
  <2>2. /\ ent[e].pc = "capturar" /\ SoloCambia(e) /\ config' = config /\ Pendientes(e) = {}
        /\ ent[e].destino # Nulo /\ ent'[e].destino = ent[e].destino
    BY <1>0, <1>4, EntDe DEF Ficha, EnviarCatch, SoloCambia, EnTurno
  <2>3. MismosCatch
    BY <2>1 DEF MismosCatch
  <2>4. EnDestinoDelCatch(e)'
    BY <2>1, <2>2 DEF EnDestinoDelCatch
  <2>5. ASSUME NEW f \in Entrenador, f # e PROVE EnDestinoDelCatch(f)'
    BY <2>1, <2>2, <2>3, <2>5, FielSigue DEF Fieles, SoloCambia, MismoDestino
  <2>6. Entrenador' = Entrenador
    BY <2>2 DEF Entrenador
  <2> QED BY <2>4, <2>5, <2>6 DEF Fieles
<1>5. ASSUME NEW c \in DOMAIN catches, recibidor_mensajes_caught(c) PROVE Fieles'
  <2>0. PICK e \in Entrenador : e = catches[c].entrenador
    BY <1>0, CatchesDe
  <2>1. /\ MismosCatch /\ c \in Pendientes(e) /\ Pendientes(e)' = Pendientes(e) \ {c}
        /\ \A f \in Entrenador \ {e} : Pendientes(f)' = Pendientes(f)
    BY <1>0, <1>5, <2>0, recibidor_mensajes_caughtEfecto
  <2>2. Pendientes(e)' = {}
    BY <2>1 DEF EnTurno
  <2>3. config' = config
    BY <1>5 DEF recibidor_mensajes_caught
  <2>4. SoloCambia(e)
    BY <1>0, <1>5, <2>0, EntDe DEF recibidor_mensajes_caught, SoloCambia
  <2> QED BY <2>1, <2>2, <2>3, <2>4, FielesDeUno
<1> QED BY <1>1, <1>2, <1>3, <1>4, <1>5, PasoQuieto DEF Captura

\* Only recibidor_mensajes_caught credits a CATCH.
LEMMA SoloCaughtAcredita ==
  ASSUME IInv, [Next]_vars, NEW c \in DOMAIN catches,
         catches[c].estado = "atrapado", catches'[c].estado = "acreditado"
  PROVE  recibidor_mensajes_caught(c)
<1>0. Tipos
  BY DEF IInv
<1>1. catches' # catches
  OBVIOUS
<1>2. ~Segfault
  BY <1>1 DEF Segfault
<1>3. ASSUME NEW e \in Entrenador, HiloEntrenador(e) PROVE FALSE
  <2>1. CASE CumplirObjetivo(e) \/ VolverAEsperar(e) \/ Despertar(e) \/ ejecuta(e) \/ TerminarQuantum(e)
    BY <1>1, <2>1 DEF CumplirObjetivo, VolverAEsperar, Despertar, ejecuta, TerminarQuantum, capturaVars
  <2>2. CASE PedirReplanificacion(e) \/ SeguirODejar(e) \/ Llegar(e) \/ SalirDeExec(e)
    BY <1>1, <2>2 DEF PedirReplanificacion, SeguirODejar, Llegar, SalirDeExec, capturaVars
  <2>3. CASE EsperarCaught(e) \/ Evaluar(e) \/ ProponerIntercambio(e)
    BY <1>1, <2>3 DEF EsperarCaught, Evaluar, ProponerIntercambio, capturaVars
  <2>4. CASE SinDestino(e) \/ IntercambioNulo(e) \/ Intercambiar(e)
    BY <1>1, <1>2, <2>4 DEF SinDestino, IntercambioNulo, Intercambiar, RecibirPokemon, QuitarAlOtro,
              EntregarPokemon, QuitarLoEntregado, LiberarEntrenador, LiberarAlOtro, intercambioVars,
              capturaVars
  <2>5. CASE EnviarCatch(e)
    BY <1>0, <2>5, EnviarCatchEfecto
  <2>6. CASE RegistrarCatch(e)
    BY <2>6, RegistrarCatchEfecto
  <2> QED BY <1>3, <2>1, <2>2, <2>3, <2>4, <2>5, <2>6 DEF HiloEntrenador
<1>4. ~(HiloPlanificador \/ HiloReplanificarSjfcd \/ HiloReplanificar)
  BY <1>1, <1>2
     DEF HiloPlanificador, TomarItem, planificar_fifo, planificar_rr, planificar_sjfsd, EstimarSinDestino, Sacar,
         HiloReplanificarSjfcd, SeguirEjecutando, Desalojar, CompararSinCola, HiloReplanificar,
         hilo_replanificar, ReplanificarSinInicializar, replanificar_entrenador, capturaVars
<1>5. ~\E m \in HiloMensaje : HiloDeMensaje(m)
  BY <1>1, <1>2
     DEF HiloDeMensaje, ElegirAppeared, AsignarAppeared, ValidarLocalized, ElegirLocalized, PosicionNula,
         AsignarLocalized, capturaVars
<1>6. ASSUME NEW d \in DOMAIN catches, HiloCaught(d), ~recibidor_mensajes_caught(c) PROVE FALSE
  <2>1. CASE \E atrapado \in BOOLEAN : Responder(d, atrapado)
    <3>1. PICK atrapado \in BOOLEAN : Responder(d, atrapado)
      BY <2>1
    <3>2. catches'[c].estado = catches[c].estado
            \/ catches'[c].estado \in {"descartado", "atrapado", "escapado"}
      BY <1>0, <3>1, ResponderEfecto
    <3> QED BY <3>2
  <2>2. CASE recibidor_mensajes_caught(d)
    <3>1. d # c
      BY <1>6, <2>2
    <3>2. \A i \in DOMAIN catches \ {d} : catches'[i].estado = catches[i].estado
      BY <1>0, <2>2, recibidor_mensajes_caughtEfecto
    <3> QED BY <3>1, <3>2
  <2> QED BY <1>2, <1>6, <2>1, <2>2 DEF HiloCaught, CaughtSinDestino
<1>7. ~\E t \in Entrenador \cup {Detector} : DetectarNada(t) \/ resolver_deadlock(t) \/ Detectar(t)
  BY <1>1, <1>2 DEF DetectarNada, resolver_deadlock, Detectar, capturaVars
<1>8. ~(AvisarDetector \/ hilo_exit \/ Falla \/ UNCHANGED vars)
  BY <1>1 DEF AvisarDetector, hilo_exit, Falla, CapturarSinBroker, PerderAck, vars, capturaVars
<1> QED BY <1>3, <1>4, <1>5, <1>6, <1>7, <1>8 DEF Next, Hilos

\* No exchange is begun, nor made.
SinEncuentros == [][\A e \in Entrenador : ~ProponerIntercambio(e) /\ ~Intercambiar(e)]_vars

\* Nobody starts with more than it wants.
NadieEmpiezaPasado ==
  \A e \in Entrenador :
    get_cantidad_pokemon(config.pokemones[e]) <= get_cantidad_pokemon(config.objetivo[e])

LEMMA CupoInicial ==
  ASSUME Init, NadieEmpiezaPasado
  PROVE  EnCupo
<1> SUFFICES ASSUME NEW e \in Entrenador PROVE Carga(e) <= get_cantidad_pokemon(config.objetivo[e])
  BY DEF EnCupo
<1> DEFINE l == config.pokemones[e]
<1>1. l \in Listado /\ config.objetivo[e] \in Listado
  BY EscenarioTipo DEF Init, Entrenador
<1>2. ent[e].pc = "vuelta" /\ ent[e].pokemones = sumarizar_pokemones(l)
  BY DEF Init
<1>3. DOMAIN catches = {}
  BY DEF Init
<1>4. Enviada(e) = 0
  BY <1>3 DEF Enviada, Pendientes
<1>5. get_cantidad_pokemon(l) <= get_cantidad_pokemon(config.objetivo[e])
  BY DEF NadieEmpiezaPasado
<1> HIDE DEF l
<1>6. /\ get_cantidad_pokemon(sumarizar_pokemones(l)) <= get_cantidad_pokemon(l)
      /\ get_cantidad_pokemon(sumarizar_pokemones(l)) \in Nat /\ get_cantidad_pokemon(l) \in Nat
      /\ get_cantidad_pokemon(config.objetivo[e]) \in Nat
  BY <1>1, SumarizarTipo, CantidadSumarizar, CantidadPasos
<1> QED BY <1>2, <1>4, <1>5, <1>6 DEF Carga

LEMMA CupoDeLaCarga ==
  ASSUME IInv, SinDesalojo => EnCupo
  PROVE  CupoRespetado
<1> SUFFICES ASSUME SinDesalojo, NEW e \in Entrenador \ tratados
    PROVE  get_cantidad_pokemon(ent[e].pokemones) <= get_cantidad_pokemon(config.objetivo[e])
  BY DEF CupoRespetado, SinDesalojo
<1>1. Carga(e) <= get_cantidad_pokemon(config.objetivo[e])
  BY DEF EnCupo
<1>2. /\ get_cantidad_pokemon(ent[e].pokemones) \in Nat /\ Enviada(e) \in {0, 1}
      /\ get_cantidad_pokemon(config.objetivo[e]) \in Nat
  BY CupoTipo DEF IInv
<1> QED BY <1>1, <1>2 DEF Carga

\* SalirDeExec, generar_y_enviar_catch and hilo_suscriptor_caught: if nobody
\* starts with too many, nobody catches more than it wants until two trainers
\* have exchanged, though room is only looked at on arrival and the answer
\* may come much later.
THEOREM CupoRespetadoSiempre == (Spec /\ SinTratos /\ NadieEmpiezaPasado) => []CupoRespetado
<1> DEFINE Turno == IInv /\ (SinDesalojo => EnTurno /\ EnCupo)
           Paso == \A e \in Entrenador : ~Intercambiar(e)
<1>1. Init /\ NadieEmpiezaPasado => Turno
  BY IInvInicial, EnTurnoInicial, CupoInicial
<1>2. Turno /\ [Next]_vars /\ [Paso]_vars => Turno'
  <2> SUFFICES ASSUME Turno, [Next]_vars, [Paso]_vars PROVE Turno'
    OBVIOUS
  <2>1. IInv'
    BY IInvPaso
  <2>2. Tipos /\ Tipos' /\ SinDesalojo' = SinDesalojo
    BY <2>1, MismoEquipo DEF IInv, SinDesalojo, algoritmo
  <2>3. CASE UNCHANGED vars
    <3>1. SinDesalojo => EnTurno'
      BY <2>1, <2>2, <2>3, QuietoEsEnvio, EnvioTurno DEF vars, SemQuietos
    <3>2. Quieta
      BY <2>3, SinCatchQuieta DEF vars
    <3> QED BY <2>1, <2>2, <3>1, <3>2, QuietaCupo
  <2>4. CASE Paso
    BY <2>1, <2>2, <2>4, TurnoPaso, CupoPaso
  <2> QED BY <2>3, <2>4
<1>3. Turno => CupoRespetado
  BY CupoDeLaCarga
<1> HIDE DEF Turno
<1> QED BY <1>1, <1>2, <1>3, PTL DEF Spec, SinTratos

LEMMA FielesInicial ==
  ASSUME Init
  PROVE  Fieles
<1>1. DOMAIN catches = {}
  BY DEF Init
<1> QED BY <1>1 DEF Fieles, EnDestinoDelCatch, Pendientes

\* One credit, in a state that the invariant allows.
LEMMA CreditoFiel ==
  ASSUME IInv, SinDesalojo, Fieles, [Next]_vars, NEW c \in DOMAIN catches,
         ent[catches[c].entrenador].estado = "BLOCKED",
         catches[c].estado = "atrapado", catches'[c].estado = "acreditado"
  PROVE  Last(ent'[catches[c].entrenador].pokemones).nombre = catches[c].nombre
<1>0. Tipos
  BY DEF IInv
<1>1. PICK e \in Entrenador : e = catches[c].entrenador
  BY <1>0, CatchesDe
<1>2. recibidor_mensajes_caught(c)
  BY SoloCaughtAcredita
<1> DEFINE n == ent[e].destino.nombre
           l == ent[e].pokemones
<1>3. n = catches[c].nombre
  BY <1>1 DEF Fieles, EnDestinoDelCatch, Pendientes
<1>4. ent' = [ent EXCEPT ![e].pokemones = Append(@, get_pokemon(n)), ![e].destino = Nulo,
                         ![e].ocupado = FALSE, ![e].semaforo = @ + 1]
  BY <1>1, <1>2 DEF recibidor_mensajes_caught
<1>5. l \in Listado
  BY <1>0, FichaDe
<1> HIDE DEF n
<1>6. ent'[e].pokemones = Append(l, get_pokemon(n))
  BY <1>0, <1>4, EntDe DEF Ficha
<1> HIDE DEF l
<1>7. Last(Append(l, get_pokemon(n))) = get_pokemon(n)
  BY <1>5 DEF Last, Listado
<1> QED BY <1>1, <1>3, <1>6, <1>7 DEF get_pokemon

\* hilo_suscriptor_caught credits the pokemon of the destination the trainer
\* has then, not that of the CATCH: they are the same for a trainer that is
\* still BLOCKED, while nobody has met to exchange.
THEOREM CapturaFielSiempre == (Spec /\ SinEncuentros) => CapturaFiel
<1> DEFINE Turno == IInv /\ (SinDesalojo => EnTurno /\ Fieles)
           Paso == \A e \in Entrenador : ~ProponerIntercambio(e) /\ ~Intercambiar(e)
           Credito1 ==
             \A c \in DOMAIN catches :
               (/\ algoritmo # "SJF-CD" /\ catches[c].entrenador \notin tratados
                /\ ent[catches[c].entrenador].estado = "BLOCKED"
                /\ catches[c].estado = "atrapado" /\ catches'[c].estado = "acreditado") =>
                 Last(ent'[catches[c].entrenador].pokemones).nombre = catches[c].nombre
<1>1. Init => Turno
  BY IInvInicial, EnTurnoInicial, FielesInicial
<1>2. Turno /\ [Next]_vars /\ [Paso]_vars => Turno'
  <2> SUFFICES ASSUME Turno, [Next]_vars, [Paso]_vars PROVE Turno'
    OBVIOUS
  <2>1. IInv'
    BY IInvPaso
  <2>2. Tipos /\ Tipos' /\ SinDesalojo' = SinDesalojo
    BY <2>1, MismoEquipo DEF IInv, SinDesalojo, algoritmo
  <2>3. CASE UNCHANGED vars
    <3>1. SinDesalojo => EnTurno'
      BY <2>1, <2>2, <2>3, QuietoEsEnvio, EnvioTurno DEF vars, SemQuietos
    <3>2. Quieta
      BY <2>3, SinCatchQuieta DEF vars
    <3>3. Fieles => Fieles'
      BY <3>2, FielSigue DEF Quieta, Fieles, Entrenador
    <3> QED BY <2>1, <2>2, <3>1, <3>3
  <2>4. CASE Paso
    BY <2>1, <2>2, <2>4, TurnoPaso, FielesPaso
  <2> QED BY <2>3, <2>4
<1>3. Turno /\ [Next]_vars => [Credito1]_vars
  <2> SUFFICES ASSUME Turno, [Next]_vars PROVE Credito1
    OBVIOUS
  <2> QED BY CreditoFiel DEF SinDesalojo
<1> HIDE DEF Turno
<1> QED BY <1>1, <1>2, <1>3, PTL DEF Spec, SinEncuentros, CapturaFiel

=============================================================================
