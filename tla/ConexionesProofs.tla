-------------------------- MODULE ConexionesProofs --------------------------
(***************************************************************************)
(* Conexiones for every set of clients, every scenario and any number of   *)
(* crashes and reconnections: what is on its way in each connection, and   *)
(* the proofs that every subscriber is served by its own thread and that   *)
(* every message arrives as it was published.                              *)
(***************************************************************************)
EXTENDS Conexiones, Lemas

-----------------------------------------------------------------------------
(* Bytes *)

Valor == op_code \cup Int \cup DOMAIN Largo
Byte == Valor \X Int \X Int
Flujo == Seq(Byte)

\* From the byte after the first d, s holds the n bytes of v.
Contiene(s, d, v, n) == d + n <= Len(s) /\ \A k \in 1..n : s[d + k] = <<v, k, n>>

LEMMA BytesEnFlujo ==
  ASSUME NEW v \in Valor, NEW n \in Nat
  PROVE  Bytes(v, n) \in Flujo /\ Len(Bytes(v, n)) = n /\ Contiene(Bytes(v, n), 0, v, n)
<1> DEFINE b == Bytes(v, n)
<1>1. b \in [1..n -> Byte]
  BY DEF Bytes, Byte
<1>2. b \in Flujo
  BY <1>1 DEF Flujo
<1>3. Len(b) = n
  BY <1>1, <1>2, LenProperties DEF Flujo
<1>4. \A k \in 1..n : b[0 + k] = <<v, k, n>>
  BY DEF Bytes
<1> QED BY <1>2, <1>3, <1>4 DEF Contiene

\* c is a and then b: it contains what each contains.
Juntos(c, a, b) ==
  /\ c \in Flujo /\ Len(c) = Len(a) + Len(b)
  /\ \A d, n \in Nat : \A v : Contiene(a, d, v, n) => Contiene(c, d, v, n)
  /\ \A d, e, n \in Nat : \A v :
       Contiene(b, d, v, n) /\ e = Len(a) + d => Contiene(c, e, v, n)

LEMMA Concatenados ==
  ASSUME NEW a \in Flujo, NEW b \in Flujo
  PROVE  Juntos(a \o b, a, b)
<1> DEFINE c == a \o b
<1>1. /\ c \in Flujo /\ Len(c) = Len(a) + Len(b)
      /\ \A k \in 1..Len(a) : c[k] = a[k]
      /\ \A k \in 1..Len(b) : c[Len(a) + k] = b[k]
  BY ConcatPuntual DEF Flujo
<1>2. Len(a) \in Nat /\ Len(b) \in Nat
  BY LenProperties DEF Flujo
<1> HIDE DEF c
<1>3. ASSUME NEW d \in Nat, NEW n \in Nat, NEW v, Contiene(a, d, v, n)
      PROVE  Contiene(c, d, v, n)
  <2>1. d + n <= Len(a) /\ \A k \in 1..n : a[d + k] = <<v, k, n>>
    BY <1>3 DEF Contiene
  <2>2. ASSUME NEW k \in 1..n PROVE c[d + k] = <<v, k, n>>
    <3>1. d + k \in 1..Len(a)
      BY <1>2, <2>1
    <3>2. c[d + k] = a[d + k]
      BY <1>1, <3>1
    <3> QED BY <2>1, <3>2
  <2>3. d + n <= Len(c)
    BY <1>1, <1>2, <2>1
  <2> QED BY <2>2, <2>3 DEF Contiene
<1>4. ASSUME NEW d \in Nat, NEW e \in Nat, NEW n \in Nat, NEW v,
             Contiene(b, d, v, n), e = Len(a) + d
      PROVE  Contiene(c, e, v, n)
  <2>1. d + n <= Len(b) /\ \A k \in 1..n : b[d + k] = <<v, k, n>>
    BY <1>4 DEF Contiene
  <2>2. ASSUME NEW k \in 1..n PROVE c[e + k] = <<v, k, n>>
    <3>1. d + k \in 1..Len(b) /\ e + k = Len(a) + (d + k)
      BY <1>2, <1>4, <2>1
    <3>2. c[Len(a) + (d + k)] = b[d + k]
      BY <1>1, <3>1
    <3> QED BY <2>1, <3>1, <3>2
  <2>3. e + n <= Len(c)
    BY <1>1, <1>2, <1>4, <2>1
  <2> QED BY <2>2, <2>3 DEF Contiene
<1> QED BY <1>1, <1>3, <1>4 DEF Juntos, c

LEMMA LeerLoEscrito ==
  ASSUME NEW s \in Flujo, NEW d \in Nat, NEW n \in Nat \ {0}, NEW v, Contiene(s, d, v, n)
  PROVE  Leer(s, d, n) = v
<1>1. Len(s) \in Nat
  BY LenProperties DEF Flujo
<1>2. d + n <= Len(s) /\ \A k \in 1..n : s[d + k] = <<v, k, n>>
  BY DEF Contiene
<1>3. n \in 1..(Len(s) - d) /\ 1 \in 1..n
  BY <1>1, <1>2
<1>4. Entera(s, d, n)
  <2>1. ASSUME NEW k \in 1..n PROVE s[d + k][2] = k /\ s[d + k][3] = n
    <3>1. s[d + k] = <<v, k, n>>
      BY <1>2
    <3> QED BY <3>1
  <2> QED BY <2>1 DEF Entera
<1>5. s[d + 1][1] = v
  BY <1>2, <1>3
<1> QED BY <1>3, <1>4, <1>5 DEF Leer

LEMMA RestoDeConcat ==
  ASSUME NEW a \in Flujo, NEW b \in Flujo
  PROVE  Resto(a \o b, Len(a)) = b /\ Resto(a, Len(a)) = <<>>
<1> DEFINE c == a \o b
           r == SubSeq(c, Len(a) + 1, Len(c))
<1>1. /\ c \in Flujo /\ Len(c) = Len(a) + Len(b)
      /\ \A k \in 1..Len(b) : c[Len(a) + k] = b[k]
  BY ConcatPuntual DEF Flujo
<1>2. Len(a) \in Nat /\ Len(b) \in Nat /\ b \in [1..Len(b) -> Byte]
  BY LenProperties DEF Flujo
<1> HIDE DEF c
<1>3. \A k \in (Len(a) + 1)..Len(c) : c[k] \in Byte
  BY <1>1, <1>2, LenProperties DEF Flujo
<1>4. /\ r \in Seq(Byte)
      /\ Len(r) = IF Len(a) + 1 <= Len(c) THEN Len(c) - (Len(a) + 1) + 1 ELSE 0
      /\ \A i \in 1..(Len(c) - (Len(a) + 1) + 1) : r[i] = c[(Len(a) + 1) + i - 1]
  BY <1>1, <1>2, <1>3, SubSeqProperties
<1> HIDE DEF r
<1>5. Len(r) = Len(b)
  BY <1>1, <1>2, <1>4
<1>6. ASSUME NEW i \in 1..Len(r) PROVE r[i] = b[i]
  <2>1. i \in 1..Len(b) /\ i \in 1..(Len(c) - (Len(a) + 1) + 1) /\ (Len(a) + 1) + i - 1 = Len(a) + i
    BY <1>1, <1>2, <1>5
  <2> QED BY <1>1, <1>4, <2>1
<1>7. r = b
  BY <1>4, <1>5, <1>6, SeqEqual DEF Flujo
<1>8. Resto(a, Len(a)) = <<>>
  BY <1>2, SubSeqEmpty DEF Resto
<1> QED BY <1>7, <1>8 DEF Resto, r, c

-----------------------------------------------------------------------------
(* Packets *)

LEMMA DeEntero ==
  ASSUME NEW v \in Valor
  PROVE  Entero(v) \in Flujo /\ Len(Entero(v)) = 4 /\ Contiene(Entero(v), 0, v, 4)
BY BytesEnFlujo DEF Entero, INT32

\* A header, with what follows it.
LEMMA DeEncabezado ==
  ASSUME NEW op \in op_code, NEW size \in Int, NEW id \in Int, NEW r \in Flujo
  PROVE  LET p == Encabezado(op, size, id) \o r
         IN  /\ p \in Flujo /\ HayEncabezado(p) /\ Operacion(p) = op /\ Identificador(p) = id
             /\ Resto(p, ENCABEZADO) = r
             /\ Encabezado(op, size, id) \in Flujo /\ Len(Encabezado(op, size, id)) = ENCABEZADO
<1> DEFINE a == Entero(op)  b == Entero(size)  c == Entero(id)  e == Encabezado(op, size, id)
           p == e \o r
<1>1. op \in Valor /\ size \in Valor /\ id \in Valor
  BY DEF Valor
<1>2. /\ a \in Flujo /\ Len(a) = 4 /\ Contiene(a, 0, op, 4)
      /\ b \in Flujo /\ Len(b) = 4
      /\ c \in Flujo /\ Len(c) = 4 /\ Contiene(c, 0, id, 4)
  BY <1>1, DeEntero
<1>3. e = (a \o b) \o c
  BY <1>2 DEF Encabezado
<1> HIDE DEF a, b, c, e, p
<1>n. 0 \in Nat /\ 4 \in Nat /\ 8 \in Nat /\ 8 = 8 + 0
  OBVIOUS
<1>4. a \o b \in Flujo /\ Len(a \o b) = 8 /\ Contiene(a \o b, 0, op, 4)
  <2>1. Juntos(a \o b, a, b)
    BY <1>2, Concatenados
  <2> QED BY <1>2, <1>n, <2>1 DEF Juntos
<1>5. e \in Flujo /\ Len(e) = 12 /\ Contiene(e, 0, op, 4) /\ Contiene(e, 8, id, 4)
  <2>1. Juntos(e, a \o b, c)
    BY <1>2, <1>3, <1>4, Concatenados
  <2> QED BY <1>2, <1>4, <1>n, <2>1 DEF Juntos
<1>6. p \in Flujo /\ Len(p) = 12 + Len(r) /\ Contiene(p, 0, op, 4) /\ Contiene(p, 8, id, 4)
  <2>1. Juntos(p, e, r)
    BY <1>5, Concatenados DEF p
  <2> QED BY <1>5, <1>n, <2>1 DEF Juntos
<1>7. Resto(p, Len(e)) = r
  BY <1>5, RestoDeConcat DEF p
<1>8. Len(r) \in Nat
  BY LenProperties DEF Flujo
<1>9. Operacion(p) = op /\ Identificador(p) = id
  BY <1>6, LeerLoEscrito DEF Operacion, Identificador, LeerEntero, INT32
<1>10. HayEncabezado(p)
  BY <1>6, <1>8 DEF HayEncabezado, ENCABEZADO, INT32
<1> QED BY <1>5, <1>6, <1>7, <1>9, <1>10 DEF p, e, ENCABEZADO, INT32

-----------------------------------------------------------------------------
(* What passes through a connection *)

\* What a message becomes in whoever reads it.
Llegado(m) == IF m.op = "LOCALIZED_POKEMON"
              THEN [m EXCEPT !.listaPosiciones = RepetirUltima(@)] ELSE m

\* The payload of a message.
Contenido(m) ==
  CASE m.op = "NEW_POKEMON"       -> serializar_paquete_new(m)
    [] m.op = "APPEARED_POKEMON"  -> serializar_paquete_appeared(m)
    [] m.op = "CATCH_POKEMON"     -> serializar_paquete_catch(m)
    [] m.op = "GET_POKEMON"       -> serializar_paquete_get(m)
    [] m.op = "LOCALIZED_POKEMON" -> serializar_paquete_localized(m)
    [] m.op = "CAUGHT_POKEMON"    -> serializar_paquete_caught(m)


-----------------------------------------------------------------------------
(* Payloads *)

EmpiezaCon(s, p) == Contiene(s, 0, size_Nombre(p), 4) /\ Contiene(s, 4, p, size_Nombre(p))
TienePosicion(s, d, q) == Contiene(s, d, q[1], 4) /\ Contiene(s, d + 4, q[2], 4)

LEMMA DePokemon ==
  ASSUME NEW p \in DOMAIN Largo
  PROVE  /\ Pokemon(p) \in Flujo /\ Len(Pokemon(p)) = 4 + size_Nombre(p)
         /\ EmpiezaCon(Pokemon(p), p) /\ size_Nombre(p) \in Nat \ {0}
<1> DEFINE n == size_Nombre(p)  a == Entero(n)  b == Bytes(p, n)
<1>1. n \in Nat \ {0}
  BY EscenariosValidos DEF size_Nombre
<1>2. n \in Valor /\ p \in Valor
  BY <1>1 DEF Valor
<1> HIDE DEF n
<1>3. /\ a \in Flujo /\ Len(a) = 4 /\ Contiene(a, 0, n, 4)
      /\ b \in Flujo /\ Len(b) = n /\ Contiene(b, 0, p, n)
  BY <1>1, <1>2, DeEntero, BytesEnFlujo
<1> HIDE DEF a, b
<1>4. Juntos(a \o b, a, b)
  BY <1>3, Concatenados
<1>5. /\ a \o b \in Flujo /\ Len(a \o b) = 4 + n
      /\ Contiene(a \o b, 0, n, 4) /\ Contiene(a \o b, 4, p, n)
  BY <1>1, <1>3, <1>4 DEF Juntos
<1> QED BY <1>1, <1>5 DEF Pokemon, EmpiezaCon, n, a, b

LEMMA LeerElPokemon ==
  ASSUME NEW s \in Flujo, NEW p \in DOMAIN Largo, EmpiezaCon(s, p)
  PROVE  Leidos(s) = 4 + size_Nombre(p) /\ LeerPokemon(s) = p
<1>1. size_Nombre(p) \in Nat \ {0}
  BY DePokemon
<1>2. Contiene(s, 0, size_Nombre(p), 4) /\ Contiene(s, 4, p, size_Nombre(p))
  BY DEF EmpiezaCon
<1>3. LeerEntero(s, 0) = size_Nombre(p)
  BY <1>2, LeerLoEscrito DEF LeerEntero, INT32
<1>4. Leer(s, 4, size_Nombre(p)) = p
  BY <1>1, <1>2, LeerLoEscrito
<1> QED BY <1>3, <1>4 DEF Leidos, LeerPokemon, INT32

LEMMA DePosicion ==
  ASSUME NEW q \in Posiciones
  PROVE  Posicion(q) \in Flujo /\ Len(Posicion(q)) = 8 /\ TienePosicion(Posicion(q), 0, q)
<1> DEFINE a == Entero(q[1])  b == Entero(q[2])
<1>1. q[1] \in Valor /\ q[2] \in Valor
  BY DEF Posiciones, Valor
<1>2. /\ a \in Flujo /\ Len(a) = 4 /\ Contiene(a, 0, q[1], 4)
      /\ b \in Flujo /\ Len(b) = 4 /\ Contiene(b, 0, q[2], 4)
  BY <1>1, DeEntero
<1> HIDE DEF a, b
<1>3. Juntos(a \o b, a, b)
  BY <1>2, Concatenados
<1>4. /\ a \o b \in Flujo /\ Len(a \o b) = 8
      /\ Contiene(a \o b, 0, q[1], 4) /\ Contiene(a \o b, 4, q[2], 4)
  BY <1>2, <1>3 DEF Juntos
<1> QED BY <1>4 DEF Posicion, TienePosicion, a, b

LEMMA LeerLaPosicion ==
  ASSUME NEW s \in Flujo, NEW d \in Nat, NEW q \in Posiciones, TienePosicion(s, d, q)
  PROVE  LeerPosicion(s, d) = q
<1>1. Contiene(s, d, q[1], 4) /\ Contiene(s, d + 4, q[2], 4) /\ d + 4 \in Nat
  BY DEF TienePosicion
<1>2. Leer(s, d, 4) = q[1] /\ Leer(s, d + 4, 4) = q[2]
  BY <1>1, LeerLoEscrito
<1>3. q = <<q[1], q[2]>>
  BY DEF Posiciones
<1> QED BY <1>2, <1>3 DEF LeerPosicion, LeerEntero, INT32

\* A name and what follows it.
LEMMA TrasElNombre ==
  ASSUME NEW p \in DOMAIN Largo, NEW r \in Flujo
  PROVE  LET c == Pokemon(p) \o r
         IN  /\ c \in Flujo /\ Len(c) = 4 + size_Nombre(p) + Len(r)
             /\ LeerPokemon(c) = p /\ Leidos(c) = 4 + size_Nombre(p)
             /\ Juntos(c, Pokemon(p), r) /\ EmpiezaCon(c, p)
<1> DEFINE a == Pokemon(p)  c == a \o r
<1>1. /\ a \in Flujo /\ Len(a) = 4 + size_Nombre(p)
      /\ EmpiezaCon(a, p) /\ size_Nombre(p) \in Nat \ {0}
  BY DePokemon
<1> HIDE DEF a
<1>2. Juntos(c, a, r)
  BY <1>1, Concatenados
<1> HIDE DEF c
<1>3. c \in Flujo /\ Len(c) = 4 + size_Nombre(p) + Len(r) /\ EmpiezaCon(c, p)
  BY <1>1, <1>2 DEF Juntos, EmpiezaCon
<1>4. LeerPokemon(c) = p /\ Leidos(c) = 4 + size_Nombre(p)
  BY <1>3, LeerElPokemon
<1> QED BY <1>2, <1>3, <1>4 DEF c, a

\* Who reads a payload takes it whole and has the message it was made of.
SeLee(m, c, tam, leido) ==
  /\ c \in Flujo /\ Len(c) = tam /\ tam \in Nat
  /\ leido = [mensaje |-> Llegado(m), leidos |-> Len(c)]

LEMMA ViajeDeNew ==
  ASSUME NEW m \in Mensaje, m.op = "NEW_POKEMON"
  PROVE  SeLee(m, serializar_paquete_new(m), tamanio_new(m),
               deserializar_paquete_new(serializar_paquete_new(m)))
<1> DEFINE p == m.pokemon  q == m.posicion  d == 4 + size_Nombre(p)
           e == Entero(m.cant)  r == Posicion(q) \o e
           b == Pokemon(p) \o Posicion(q)  c == b \o e
<1>1. /\ m = [op |-> "NEW_POKEMON", pokemon |-> p, posicion |-> q, cant |-> m.cant]
      /\ p \in DOMAIN Largo /\ q \in Posiciones /\ m.cant \in Int
  BY DEF Mensaje
<1>2. /\ Posicion(q) \in Flujo /\ Len(Posicion(q)) = 8 /\ TienePosicion(Posicion(q), 0, q)
      /\ size_Nombre(p) \in Nat /\ d \in Nat
  BY <1>1, DePosicion, DePokemon
<1>3. e \in Flujo /\ Len(e) = 4 /\ Contiene(e, 0, m.cant, 4)
  BY <1>1, DeEntero DEF Valor
<1> HIDE DEF p, q
<1>4. /\ b \in Flujo /\ Len(b) = d + 8 /\ EmpiezaCon(b, p) /\ Juntos(b, Pokemon(p), Posicion(q))
  BY <1>1, <1>2, TrasElNombre
<1>5. Len(Pokemon(p)) = d
  BY <1>1, DePokemon
<1>6. TienePosicion(b, d, q)
  BY <1>2, <1>4, <1>5 DEF Juntos, TienePosicion
<1> HIDE DEF b, e
<1>7. Juntos(c, b, e)
  BY <1>3, <1>4, Concatenados
<1> HIDE DEF c, d
<1>8. /\ c \in Flujo /\ Len(c) = d + 12 /\ EmpiezaCon(c, p) /\ TienePosicion(c, d, q)
      /\ Contiene(c, d + 8, m.cant, 4)
  <2>1. c \in Flujo /\ Len(c) = d + 12
    BY <1>2, <1>3, <1>4, <1>7 DEF Juntos
  <2>2. EmpiezaCon(c, p)
    BY <1>2, <1>4, <1>7 DEF Juntos, EmpiezaCon
  <2>3. TienePosicion(c, d, q)
    BY <1>2, <1>6, <1>7 DEF Juntos, TienePosicion
  <2>4. d + 8 \in Nat /\ d + 8 = Len(b) + 0
    BY <1>2, <1>4
  <2>5. Contiene(c, d + 8, m.cant, 4)
    BY <1>3, <1>7, <2>4 DEF Juntos
  <2> QED BY <2>1, <2>2, <2>3, <2>5
<1>9. Leidos(c) = d /\ LeerPokemon(c) = p /\ LeerPosicion(c, d) = q
  BY <1>1, <1>2, <1>8, LeerElPokemon, LeerLaPosicion DEF d
<1>10. LeerEntero(c, d + 8) = m.cant
  BY <1>2, <1>8, LeerLoEscrito DEF LeerEntero, INT32
<1>11. deserializar_paquete_new(c) = [mensaje |-> m, leidos |-> d + 12]
  BY <1>1, <1>2, <1>9, <1>10 DEF deserializar_paquete_new, Lectura, POSICION, INT32
<1>12. tamanio_new(m) = d + 12
  BY <1>2 DEF tamanio_new, POSICION, INT32, d, p
<1>13. c = serializar_paquete_new(m)
  BY DEF c, b, e, serializar_paquete_new, p, q
<1> QED BY <1>2, <1>8, <1>11, <1>12, <1>13 DEF SeLee, Llegado

LEMMA ViajeConPosicion ==
  ASSUME NEW m \in Mensaje, m.op \in {"APPEARED_POKEMON", "CATCH_POKEMON"}
  PROVE  LET c == Pokemon(m.pokemon) \o Posicion(m.posicion)
         IN  /\ m.op = "APPEARED_POKEMON" =>
                  SeLee(m, c, tamanio_appeared(m), deserializar_paquete_appeared(c))
             /\ m.op = "CATCH_POKEMON" =>
                  SeLee(m, c, tamanio_catch(m), deserializar_paquete_catch(c))
<1> DEFINE p == m.pokemon  q == m.posicion  d == 4 + size_Nombre(p)
           c == Pokemon(p) \o Posicion(q)
<1>1. /\ m = [op |-> m.op, pokemon |-> p, posicion |-> q]
      /\ p \in DOMAIN Largo /\ q \in Posiciones
  BY DEF Mensaje
<1>2. /\ Posicion(q) \in Flujo /\ Len(Posicion(q)) = 8 /\ TienePosicion(Posicion(q), 0, q)
      /\ size_Nombre(p) \in Nat /\ d \in Nat /\ Len(Pokemon(p)) = d
  BY <1>1, DePosicion, DePokemon
<1> HIDE DEF p, q
<1>3. /\ c \in Flujo /\ Len(c) = d + 8 /\ LeerPokemon(c) = p /\ Leidos(c) = d
      /\ Juntos(c, Pokemon(p), Posicion(q))
  BY <1>1, <1>2, TrasElNombre
<1>4. TienePosicion(c, d, q)
  BY <1>2, <1>3 DEF Juntos, TienePosicion
<1> HIDE DEF c, d
<1>5. LeerPosicion(c, d) = q
  BY <1>1, <1>2, <1>3, <1>4, LeerLaPosicion
<1>6. /\ tamanio_appeared(m) = d + 8 /\ tamanio_catch(m) = d + 8
  BY <1>2 DEF tamanio_appeared, tamanio_catch, tamanio_pokemon, POSICION, INT32, d, p
<1>7. /\ m.op = "APPEARED_POKEMON" =>
           deserializar_paquete_appeared(c) = [mensaje |-> m, leidos |-> d + 8]
      /\ m.op = "CATCH_POKEMON" =>
           deserializar_paquete_catch(c) = [mensaje |-> m, leidos |-> d + 8]
  BY <1>1, <1>3, <1>5
     DEF deserializar_paquete_appeared, deserializar_paquete_catch, Lectura, POSICION
<1> QED BY <1>2, <1>3, <1>6, <1>7 DEF SeLee, Llegado, c, p, q

LEMMA ViajeDeGet ==
  ASSUME NEW m \in Mensaje, m.op = "GET_POKEMON"
  PROVE  SeLee(m, serializar_paquete_get(m), tamanio_get(m),
               deserializar_paquete_get(serializar_paquete_get(m)))
<1> DEFINE p == m.pokemon  c == Pokemon(p)
<1>1. m = [op |-> "GET_POKEMON", pokemon |-> p] /\ p \in DOMAIN Largo
  BY DEF Mensaje
<1>2. c \in Flujo /\ Len(c) = 4 + size_Nombre(p) /\ EmpiezaCon(c, p) /\ size_Nombre(p) \in Nat
  BY <1>1, DePokemon
<1>3. Leidos(c) = 4 + size_Nombre(p) /\ LeerPokemon(c) = p
  BY <1>1, <1>2, LeerElPokemon
<1>4. tamanio_get(m) = 4 + size_Nombre(p)
  BY <1>2 DEF tamanio_get, tamanio_pokemon, INT32
<1> QED BY <1>1, <1>2, <1>3, <1>4
        DEF SeLee, Llegado, serializar_paquete_get, deserializar_paquete_get, Lectura

LEMMA ViajeDeCaught ==
  ASSUME NEW m \in Mensaje, m.op = "CAUGHT_POKEMON"
  PROVE  SeLee(m, serializar_paquete_caught(m), tamanio_caught(m),
               deserializar_paquete_caught(serializar_paquete_caught(m)))
<1> DEFINE v == m.fueAtrapado  c == Entero(v)
<1>1. m = [op |-> "CAUGHT_POKEMON", fueAtrapado |-> v] /\ v \in {0, 1}
  BY DEF Mensaje
<1>2. c \in Flujo /\ Len(c) = 4 /\ Contiene(c, 0, v, 4)
  BY <1>1, DeEntero DEF Valor
<1>3. LeerEntero(c, 0) = v
  BY <1>2, LeerLoEscrito DEF LeerEntero, INT32
<1> QED BY <1>1, <1>2, <1>3
        DEF SeLee, Llegado, serializar_paquete_caught, deserializar_paquete_caught, Lectura,
            tamanio_caught, INT32

\* The k-th byte of a sequence of positions is in the position it belongs to.
LEMMA DeSeguidas ==
  ASSUME NEW l \in Seq(Posiciones)
  PROVE  /\ Seguidas(l) \in Flujo /\ Len(Seguidas(l)) = 8 * Len(l) /\ Len(l) \in Nat
         /\ \A i \in 1..Len(l) : TienePosicion(Seguidas(l), 8 * (i - 1), l[i])
<1> DEFINE s == Seguidas(l)  n == Len(l)
<1>1. n \in Nat /\ \A i \in 1..n : l[i] \in Posiciones
  BY LenProperties, ElementOfSeq
<1> HIDE DEF n
<1>2. ASSUME NEW q \in Posiciones, NEW j \in 1..8 PROVE Posicion(q)[j] \in Byte
  BY DePosicion, ElementOfSeq DEF Flujo
<1>3. ASSUME NEW k \in 1..(8 * n)
      PROVE  1 + ((k - 1) \div 8) \in 1..n /\ 1 + ((k - 1) % 8) \in 1..8
  BY <1>1
<1>4. s = [k \in 1..(8 * n) |-> Posicion(l[1 + ((k - 1) \div 8)])[1 + ((k - 1) % 8)]]
  BY DEF Seguidas, POSICION, n
<1> HIDE DEF s
<1>5. s \in [1..(8 * n) -> Byte]
  <2>1. ASSUME NEW k \in 1..(8 * n)
        PROVE  Posicion(l[1 + ((k - 1) \div 8)])[1 + ((k - 1) % 8)] \in Byte
    BY <1>1, <1>2, <1>3
  <2> QED BY <1>4, <2>1
<1>6. 8 * n \in Nat
  BY <1>1
<1>7. s \in Flujo
  BY <1>5, <1>6 DEF Flujo
<1>8. Len(s) = 8 * n
  BY <1>5, <1>6, <1>7, LenProperties DEF Flujo
<1>9. ASSUME NEW i \in 1..n PROVE TienePosicion(s, 8 * (i - 1), l[i])
  <2> DEFINE q == l[i]  d == 8 * (i - 1)  t == Posicion(q)
  <2>1. /\ q \in Posiciones /\ t \in Flujo /\ Len(t) = 8
        /\ Contiene(t, 0, q[1], 4) /\ Contiene(t, 4, q[2], 4)
    BY <1>1, DePosicion DEF TienePosicion
  <2> HIDE DEF t, q
  <2>2. ASSUME NEW j \in 1..8 PROVE s[d + j] = t[j]
    <3>1. /\ d + j \in 1..(8 * n)
          /\ 1 + (((d + j) - 1) \div 8) = i /\ 1 + (((d + j) - 1) % 8) = j
      BY <1>1
    <3> QED BY <1>4, <3>1 DEF t, q
  <2>3. d \in Nat /\ d + 8 <= 8 * n
    BY <1>1
  <2> HIDE DEF d
  <2>4. ASSUME NEW j \in 1..4 PROVE s[d + j] = <<q[1], j, 4>>
    <3>1. t[0 + j] = <<q[1], j, 4>> /\ j \in 1..8 /\ 0 + j = j
      BY <2>1 DEF Contiene
    <3> QED BY <2>2, <3>1
  <2>5. ASSUME NEW j \in 1..4 PROVE s[(d + 4) + j] = <<q[2], j, 4>>
    <3>1. t[4 + j] = <<q[2], j, 4>> /\ 4 + j \in 1..8 /\ (d + 4) + j = d + (4 + j)
      BY <2>1, <2>3 DEF Contiene
    <3> QED BY <2>2, <3>1
  <2>6. d + 4 <= Len(s) /\ (d + 4) + 4 <= Len(s)
    BY <1>1, <1>8, <2>3
  <2>7. Contiene(s, d, q[1], 4) /\ Contiene(s, d + 4, q[2], 4)
    BY <2>4, <2>5, <2>6 DEF Contiene
  <2> QED BY <2>7 DEF TienePosicion, d, q
<1> QED BY <1>1, <1>7, <1>8, <1>9 DEF s, n

LEMMA ViajeDeLocalized ==
  ASSUME NEW m \in Mensaje, m.op = "LOCALIZED_POKEMON"
  PROVE  SeLee(m, serializar_paquete_localized(m), tamanio_localized(m),
               deserializar_paquete_localized(serializar_paquete_localized(m)))
<1> DEFINE p == m.pokemon  l == m.listaPosiciones  n == Len(l)  d == 4 + size_Nombre(p)
           e == Entero(n)  t == Seguidas(l)  b == Pokemon(p) \o e  c == b \o t
<1>1. /\ m = [op |-> "LOCALIZED_POKEMON", pokemon |-> p, listaPosiciones |-> l]
      /\ p \in DOMAIN Largo /\ l \in Seq(Posiciones)
  BY DEF Mensaje
<1>2. /\ t \in Flujo /\ Len(t) = 8 * n /\ n \in Nat
      /\ \A i \in 1..n : TienePosicion(t, 8 * (i - 1), l[i])
  BY <1>1, DeSeguidas
<1>3. DOMAIN l = 1..n /\ \A i \in 1..n : l[i] \in Posiciones
  BY <1>1, LenProperties, ElementOfSeq
<1> HIDE DEF p, l, n
<1>4. e \in Flujo /\ Len(e) = 4 /\ Contiene(e, 0, n, 4)
  BY <1>2, DeEntero DEF Valor
<1>5. size_Nombre(p) \in Nat /\ d \in Nat /\ Len(Pokemon(p)) = d
  BY <1>1, DePokemon
<1>6. b \in Flujo /\ Len(b) = d + 4 /\ EmpiezaCon(b, p) /\ Juntos(b, Pokemon(p), e)
  BY <1>1, <1>4, <1>5, TrasElNombre
<1>7. Contiene(b, d, n, 4)
  BY <1>4, <1>5, <1>6 DEF Juntos
<1> HIDE DEF b, e, t
<1>8. Juntos(c, b, t)
  BY <1>2, <1>6, Concatenados
<1> HIDE DEF c, d
<1>9. c \in Flujo /\ Len(c) = d + 4 + 8 * n
  BY <1>2, <1>5, <1>6, <1>8 DEF Juntos
<1>10. EmpiezaCon(c, p) /\ Contiene(c, d, n, 4)
  BY <1>5, <1>6, <1>7, <1>8 DEF Juntos, EmpiezaCon
<1>11. Leidos(c) = d /\ LeerPokemon(c) = p
  BY <1>1, <1>9, <1>10, LeerElPokemon DEF d
<1>12. LeerEntero(c, d) = n
  BY <1>5, <1>9, <1>10, LeerLoEscrito DEF LeerEntero, INT32
<1>13. ASSUME NEW i \in 1..n PROVE LeerPosicion(c, d + 4 + 8 * (i - 1)) = l[i]
  <2> DEFINE j == 8 * (i - 1)  q == l[i]
  <2>1. j \in Nat /\ j + 4 \in Nat /\ (d + 4) + j \in Nat /\ (d + 4) + j + 4 \in Nat
    BY <1>2, <1>5
  <2>2. Contiene(t, j, q[1], 4) /\ Contiene(t, j + 4, q[2], 4)
    BY <1>2 DEF TienePosicion
  <2> HIDE DEF j, q
  <2>3. /\ (d + 4) + j = Len(b) + j /\ (d + 4) + j + 4 = Len(b) + (j + 4)
    BY <1>5, <1>6, <2>1
  <2>4. Contiene(c, (d + 4) + j, q[1], 4)
    BY <1>8, <2>1, <2>2, <2>3 DEF Juntos
  <2>5. Contiene(c, (d + 4) + j + 4, q[2], 4)
    BY <1>8, <2>1, <2>2, <2>3 DEF Juntos
  <2>6. TienePosicion(c, (d + 4) + j, q)
    BY <2>4, <2>5 DEF TienePosicion
  <2>7. q \in Posiciones
    BY <1>3 DEF q
  <2>8. LeerPosicion(c, (d + 4) + j) = q
    BY <1>9, <2>1, <2>6, <2>7, LeerLaPosicion
  <2> QED BY <2>8 DEF j, q
<1> DEFINE leidas == [i \in 1..n |-> LeerPosicion(c, d + 4 + 8 * (i - 1))]
<1>14. leidas = l
  <2>1. leidas = [i \in 1..n |-> l[i]]
    BY <1>13
  <2>2. l = [i \in 1..n |-> l[i]]
    BY <1>1, <1>3, LenProperties DEF n
  <2> QED BY <2>1, <2>2
<1>15. deserializar_paquete_localized(c) =
         [mensaje |-> [op |-> "LOCALIZED_POKEMON", pokemon |-> p,
                       listaPosiciones |-> RepetirUltima(leidas)],
          leidos |-> d + 4 + 8 * n]
  BY <1>11, <1>12 DEF deserializar_paquete_localized, Lectura, POSICION, INT32
<1> HIDE DEF leidas
<1>16. Llegado(m) = [op |-> "LOCALIZED_POKEMON", pokemon |-> p, listaPosiciones |-> RepetirUltima(l)]
  BY <1>1 DEF Llegado
<1>17. tamanio_localized(m) = d + 4 + 8 * n
  BY <1>2, <1>5 DEF tamanio_localized, tamanio_pokemon, POSICION, INT32, d, p, n, l
<1>18. c = serializar_paquete_localized(m)
  BY DEF c, b, e, t, serializar_paquete_localized, p, l, n
<1>19. d + 4 + 8 * n \in Nat
  BY <1>2, <1>5
<1> QED BY <1>9, <1>14, <1>15, <1>16, <1>17, <1>18, <1>19 DEF SeLee

-----------------------------------------------------------------------------
(* What each end reads of what the other sends *)

EsPaquete(p, op, id, r) ==
  /\ p \in Flujo /\ HayEncabezado(p) /\ Operacion(p) = op /\ Identificador(p) = id
  /\ Resto(p, ENCABEZADO) = r /\ r \in Flujo
  /\ Resto(p, ENCABEZADO + Len(r)) = <<>> /\ Resto(r, Len(r)) = <<>>

LEMMA Vacio == <<>> \in Flujo /\ ~HayEncabezado(<<>>) /\ \A s \in Flujo : <<>> \o s = s /\ s \o <<>> = s
<1>1. <<>> \in Flujo /\ Len(<<>>) = 0
  BY EmptySeq DEF Flujo
<1>2. ~HayEncabezado(<<>>)
  BY <1>1 DEF HayEncabezado, ENCABEZADO, INT32
<1>3. \A s \in Flujo : <<>> \o s = s /\ s \o <<>> = s
  BY ConcatEmptySeq DEF Flujo
<1> QED BY <1>1, <1>2, <1>3

\* Every byte announced is written: none is sent that was not.
LEMMA EnviarEntero ==
  ASSUME NEW s \in Flujo
  PROVE  Enviar(s, Len(s)) = s
<1>1. DOMAIN s = 1..Len(s) /\ s = [i \in 1..Len(s) |-> s[i]] /\ Len(s) \in Nat
  BY LenProperties DEF Flujo
<1>2. \A i \in 1..Len(s) : i <= Len(s)
  BY <1>1
<1> QED BY <1>1, <1>2 DEF Enviar

LEMMA ConEncabezado ==
  ASSUME NEW op \in op_code, NEW size \in Int, NEW id \in Int, NEW r \in Flujo
  PROVE  LET p == Encabezado(op, size, id) \o r
         IN  EsPaquete(p, op, id, r) /\ Len(p) = ENCABEZADO + Len(r)
<1> DEFINE e == Encabezado(op, size, id)  p == e \o r
<1>1. /\ p \in Flujo /\ HayEncabezado(p) /\ Operacion(p) = op /\ Identificador(p) = id
      /\ Resto(p, ENCABEZADO) = r /\ e \in Flujo /\ Len(e) = ENCABEZADO
  BY DeEncabezado
<1> HIDE DEF e
<1>2. Len(p) = ENCABEZADO + Len(r)
  BY <1>1, ConcatPuntual DEF Flujo
<1> HIDE DEF p
<1>3. Resto(p, Len(p)) = <<>> /\ Resto(r, Len(r)) = <<>>
  BY <1>1, RestoDeConcat
<1> QED BY <1>1, <1>2, <1>3 DEF EsPaquete, p, e

LEMMA DePaquete ==
  ASSUME NEW op \in op_code, NEW id \in Int, NEW r \in Flujo
  PROVE  EsPaquete(Paquete(op, Len(r), id, r), op, id, r)
<1> DEFINE p == Encabezado(op, Len(r), id) \o r
<1>1. Len(r) \in Int
  BY LenProperties DEF Flujo
<1>2. EsPaquete(p, op, id, r) /\ Len(p) = ENCABEZADO + Len(r)
  BY <1>1, ConEncabezado
<1>3. Enviar(p, Len(p)) = p
  BY <1>2, EnviarEntero DEF EsPaquete
<1>4. Paquete(op, Len(r), id, r) = p
  BY <1>2, <1>3 DEF Paquete
<1> QED BY <1>2, <1>4

\* The packets without a payload.
LEMMA SinCarga ==
  ASSUME NEW op \in op_code, NEW id \in Int
  PROVE  EsPaquete(Encabezado(op, 8, id), op, id, <<>>)
<1>1. <<>> \in Flujo /\ 8 \in Int
  BY Vacio
<1>2. PICK r \in Flujo : r = <<>>
  BY <1>1
<1>3. /\ EsPaquete(Encabezado(op, 8, id) \o r, op, id, r)
      /\ Encabezado(op, 8, id) \in Flujo
  BY <1>1, ConEncabezado, DeEncabezado
<1>4. Encabezado(op, 8, id) \o r = Encabezado(op, 8, id)
  BY <1>2, <1>3, Vacio
<1> QED BY <1>2, <1>3, <1>4

LEMMA DeConfirmacion ==
  /\ EsPaquete(enviar_ACK(0), "ACK", 0, <<>>)
  /\ \A s \in Flujo : EsPaquete(enviar_ACK(0) \o s, "ACK", 0, s)
<1>1. "ACK" \in op_code /\ 0 \in Int /\ 8 \in Int
  BY DEF op_code
<1>2. EsPaquete(enviar_ACK(0), "ACK", 0, <<>>)
  BY <1>1, SinCarga DEF enviar_ACK
<1>3. ASSUME NEW s \in Flujo PROVE EsPaquete(enviar_ACK(0) \o s, "ACK", 0, s)
  BY <1>1, ConEncabezado DEF enviar_ACK
<1> QED BY <1>2, <1>3

LEMMA DeHandshake ==
  ASSUME NEW id \in Int
  PROVE  EsPaquete(enviar_handshake(id), "HANDSHAKE", id, <<>>)
<1>1. "HANDSHAKE" \in op_code
  BY DEF op_code
<1> QED BY <1>1, SinCarga DEF enviar_handshake

LEMMA DeSuscripcion ==
  ASSUME NEW op \in Cola
  PROVE  EsPaquete(enviar_suscripcion(op), op, 0, <<>>) /\ op \in op_code
<1>1. op \in op_code
  BY DEF Cola, suscripcion, op_code
<1> QED BY <1>1, SinCarga DEF enviar_suscripcion

\* A message goes as its header and its payload, and who reads the payload in the
\* order of its kind takes it whole.
LEMMA Viaje ==
  ASSUME NEW m \in Mensaje, NEW id \in Int
  PROVE  /\ EsPaquete(EnviarMensaje(m, id), m.op, id, Contenido(m))
         /\ deserializar(m.op, Contenido(m)) = [mensaje |-> Llegado(m), leidos |-> Len(Contenido(m))]
<1> DEFINE Bien(c, tam, leido) ==
             /\ EnviarMensaje(m, id) = Paquete(m.op, tam, id, c)
             /\ Contenido(m) = c /\ deserializar(m.op, c) = leido /\ SeLee(m, c, tam, leido)
<1>1. /\ m.op \in op_code
      /\ m.op \in {"NEW_POKEMON", "APPEARED_POKEMON", "CATCH_POKEMON", "GET_POKEMON",
                   "LOCALIZED_POKEMON", "CAUGHT_POKEMON"}
  BY DEF Mensaje, op_code
<1>2. \E c, tam, leido : Bien(c, tam, leido)
  <2>1. CASE m.op = "NEW_POKEMON"
    <3>1. Bien(serializar_paquete_new(m), tamanio_new(m),
               deserializar_paquete_new(serializar_paquete_new(m)))
      BY <2>1, ViajeDeNew DEF EnviarMensaje, Contenido, deserializar, enviar_new_pokemon
    <3> HIDE DEF Bien
    <3> QED BY <3>1
  <2>2. CASE m.op = "APPEARED_POKEMON"
    <3>1. Bien(serializar_paquete_appeared(m), tamanio_appeared(m),
               deserializar_paquete_appeared(serializar_paquete_appeared(m)))
      BY <2>2, ViajeConPosicion DEF EnviarMensaje, Contenido, deserializar, enviar_appeared_pokemon,
                                    serializar_paquete_appeared
    <3> HIDE DEF Bien
    <3> QED BY <3>1
  <2>3. CASE m.op = "CATCH_POKEMON"
    <3>1. Bien(serializar_paquete_catch(m), tamanio_catch(m),
               deserializar_paquete_catch(serializar_paquete_catch(m)))
      BY <2>3, ViajeConPosicion DEF EnviarMensaje, Contenido, deserializar, enviar_catch_pokemon,
                                    serializar_paquete_catch
    <3> HIDE DEF Bien
    <3> QED BY <3>1
  <2>4. CASE m.op = "GET_POKEMON"
    <3>1. Bien(serializar_paquete_get(m), tamanio_get(m),
               deserializar_paquete_get(serializar_paquete_get(m)))
      BY <2>4, ViajeDeGet DEF EnviarMensaje, Contenido, deserializar, enviar_get_pokemon
    <3> HIDE DEF Bien
    <3> QED BY <3>1
  <2>5. CASE m.op = "LOCALIZED_POKEMON"
    <3>1. Bien(serializar_paquete_localized(m), tamanio_localized(m),
               deserializar_paquete_localized(serializar_paquete_localized(m)))
      BY <2>5, ViajeDeLocalized DEF EnviarMensaje, Contenido, deserializar, enviar_localized_pokemon
    <3> HIDE DEF Bien
    <3> QED BY <3>1
  <2>6. CASE m.op = "CAUGHT_POKEMON"
    <3> DEFINE v == m.fueAtrapado
    <3>1. v \in {0, 1}
      BY <2>6 DEF Mensaje
    <3>2. fueAtrapado(itoa(v)) = v
      BY <3>1 DEF fueAtrapado, itoa
    <3>3. EnviarMensaje(m, id) = Paquete(m.op, tamanio_caught(m), id, serializar_paquete_caught(m))
      BY <2>6, <3>2 DEF EnviarMensaje, enviar_caught_pokemon, tamanio_caught, serializar_paquete_caught
    <3>4. Bien(serializar_paquete_caught(m), tamanio_caught(m),
               deserializar_paquete_caught(serializar_paquete_caught(m)))
      BY <2>6, <3>3, ViajeDeCaught DEF Contenido, deserializar
    <3> HIDE DEF Bien
    <3> QED BY <3>4
  <2> HIDE DEF Bien
  <2> QED BY <1>1, <2>1, <2>2, <2>3, <2>4, <2>5, <2>6
<1>3. PICK c, tam, leido : Bien(c, tam, leido)
  BY <1>2
<1>4. /\ EnviarMensaje(m, id) = Paquete(m.op, Len(c), id, c) /\ c \in Flujo
      /\ Contenido(m) = c /\ deserializar(m.op, c) = [mensaje |-> Llegado(m), leidos |-> Len(c)]
  BY <1>3 DEF SeLee
<1> HIDE DEF Bien
<1> QED BY <1>1, <1>4, DePaquete

LEMMA LlegadoEsMensaje ==
  ASSUME NEW m \in Mensaje
  PROVE  /\ Llegado(m) \in Mensaje /\ Llegado(m).op = m.op /\ Llegado(Llegado(m)) = Llegado(m)
         /\ (m.op = "LOCALIZED_POKEMON" => Len(m.listaPosiciones) <= 1) => Llegado(m) = m
<1>1. CASE m.op # "LOCALIZED_POKEMON"
  BY <1>1 DEF Llegado
<1>2. CASE m.op = "LOCALIZED_POKEMON"
  <2> DEFINE p == m.pokemon  l == m.listaPosiciones  n == Len(l)  r == RepetirUltima(l)
  <2>1. /\ m = [op |-> "LOCALIZED_POKEMON", pokemon |-> p, listaPosiciones |-> l]
        /\ p \in DOMAIN Largo /\ l \in Seq(Posiciones)
    BY <1>2 DEF Mensaje
  <2>2. DOMAIN l = 1..n /\ n \in Nat /\ l = [i \in 1..n |-> l[i]] /\ \A i \in 1..n : l[i] \in Posiciones
    BY <2>1, LenProperties, ElementOfSeq
  <2> HIDE DEF p, l, n
  <2>3. r = [i \in 1..n |-> l[n]]
    BY <2>2 DEF RepetirUltima, n
  <2> HIDE DEF r
  <2>4. n \in 1..n \/ 1..n = {}
    BY <2>2
  <2>5. r \in Seq(Posiciones)
    <3>1. r \in [1..n -> Posiciones]
      BY <2>2, <2>3, <2>4
    <3> QED BY <2>2, <3>1
  <2>6. Len(r) = n /\ DOMAIN r = 1..n
    BY <2>2, <2>3, <2>5, LenProperties
  <2>7. RepetirUltima(r) = r
    <3>1. RepetirUltima(r) = [i \in 1..n |-> r[n]]
      BY <2>6 DEF RepetirUltima
    <3>2. \A i \in 1..n : r[n] = l[n]
      BY <2>3, <2>4
    <3> QED BY <2>3, <3>1, <3>2
  <2>8. Llegado(m) = [op |-> "LOCALIZED_POKEMON", pokemon |-> p, listaPosiciones |-> r]
    BY <1>2, <2>1 DEF Llegado, r, l
  <2>9. Llegado(m) \in Mensaje
    BY <2>1, <2>5, <2>8 DEF Mensaje
  <2>10. Llegado(Llegado(m)) = Llegado(m)
    BY <2>7, <2>8 DEF Llegado
  <2>11. ASSUME n <= 1 PROVE r = l
    <3>1. \A i \in 1..n : i = n
      BY <2>2, <2>11
    <3> QED BY <2>2, <2>3, <3>1
  <2>12. Len(m.listaPosiciones) <= 1 => Llegado(m) = m
    BY <2>1, <2>8, <2>11 DEF n, l
  <2> QED BY <1>2, <2>8, <2>9, <2>10, <2>12
<1> QED BY <1>1, <1>2
-----------------------------------------------------------------------------
(* Who is at each end *)

\* What a client sends, and what the Broker should know of it afterwards.
Confirmacion == enviar_ACK(0)
Saludo(c) == enviar_handshake(perfil[c].id_proceso)
OperacionDe(c) == IF c \in Publicadores THEN perfil[c].mensaje.op ELSE perfil[c].operacion
IdDe(c) == IF c \in Publicadores THEN perfil[c].id_mensaje ELSE 0
CargaDe(c) == IF c \in Publicadores THEN Contenido(perfil[c].mensaje) ELSE <<>>
Datos(k) == [con |-> k, id_proceso |-> perfil[k[1]].id_proceso,
             operacion |-> OperacionDe(k[1]), id_mensaje |-> IdDe(k[1])]

\* The publishers of the queue of c, and what the Broker sends of each.
DeSuCola(c) == {p \in Publicadores : suscripcion[perfil[p].mensaje.op] = perfil[c].operacion}
Entrega(p) == EnviarMensaje(Llegado(perfil[p].mensaje), perfil[p].id_mensaje)

\* An entry of list_mensajes is what p published.
Publicado(m, p) ==
  /\ p \in Publicadores
  /\ m.con[1] = p
  /\ m.mensaje = Llegado(perfil[p].mensaje) /\ m.operacion = perfil[p].mensaje.op
  /\ m.id_mensaje_correlativo = perfil[p].id_mensaje /\ m.process_id = perfil[p].id_proceso

-----------------------------------------------------------------------------
(* Where a connection is: in its client and in the Broker *)

Paso(k) == IF k[2] = cliente[k[1]].intento /\ cliente[k[1]].paso \notin {"conectar", "fin"}
           THEN cliente[k[1]].paso ELSE "no"

EnCola(k) == k \in ToSet(aceptar)
EnPrincipal(k) == principal.paso # "accept" /\ principal.con = k
Lugar(k) == IF EnCola(k) THEN "cola" ELSE IF EnPrincipal(k) THEN principal.paso ELSE hilo[k].paso

\* The queue, main and the thread hold a connection one after the other, and none of
\* them one that is still to come.
EnUnLugar(k) ==
  /\ EnCola(k) \/ EnPrincipal(k) => hilo[k] = SinHilo
  /\ EnCola(k) => ~EnPrincipal(k)
  /\ k[2] > cliente[k[1]].intento => ~EnCola(k) /\ ~EnPrincipal(k) /\ hilo[k] = SinHilo

\* What main, the structures and the thread say of a connection is what its client is.
DatosFieles(k) ==
  LET h == hilo[k]
  IN  /\ EnPrincipal(k) /\ principal.paso \in {"operacion", "crear"} =>
           principal.id_proceso = perfil[k[1]].id_proceso
      /\ EnPrincipal(k) /\ principal.paso = "crear" => Estructura = Datos(k)
      /\ h.paso = "suscribir" => /\ mutex_list_suscriptores /\ estructura_suscriptor = Datos(k)
                                 /\ k[1] \notin Publicadores
      /\ h.paso = "mensaje" => /\ mutex_estructura_mensajes /\ estructura_mensaje = Datos(k)
                               /\ k[1] \in Publicadores
      /\ h.paso \in {"no", "suscribir", "mensaje", "fin"} => h = [SinHilo EXCEPT !.paso = h.paso]
      /\ h.paso \in {"ack", "atender", "espera", "recibir", "responder"} =>
           /\ h.con = k /\ h.id_proceso = perfil[k[1]].id_proceso
           /\ h.operacion = OperacionDe(k[1]) /\ h.id_mensaje = IdDe(k[1])
      /\ h.paso \in {"ack", "atender", "espera"} =>
           /\ k[1] \notin Publicadores
           /\ [id |-> perfil[k[1]].id_proceso, op_code |-> perfil[k[1]].operacion] \in list_suscriptores
      /\ h.paso = "espera" => /\ h.mensaje \in list_mensajes
                              /\ suscripcion[h.mensaje.operacion] = perfil[k[1]].operacion
      /\ h.paso \in {"recibir", "responder"} => k[1] \in Publicadores

\* What is on its way, by the place of the connection in the Broker: p is the step of
\* the client in it ("no" if it is not its connection any more), x the connection.
PorSaludar(c, p, x) ==
  \/ p = "handshake" /\ x.aBroker = <<>> /\ x.aCliente = <<>>
  \/ p = "ack_handshake" /\ x.aBroker = Saludo(c) /\ x.aCliente = <<>>
  \/ p = "no" /\ x.aBroker \in {<<>>, Saludo(c)}

PorPedir(c, p, x) ==
  \/ p = "ack_handshake" /\ x.aBroker = <<>> /\ x.aCliente = Confirmacion
  \/ p = "ack_pedido" /\ x.aBroker = Pedido(c) /\ x.aCliente = <<>>
  \/ p = "no" /\ x.aBroker \in {<<>>, Pedido(c)}

SinResponder(p, x, carga) ==
  /\ x.aBroker = carga
  /\ p = "no" \/ (p = "ack_pedido" /\ x.aCliente = <<>>)

Atendida(p, x) ==
  /\ x.aBroker = <<>>
  /\ \/ p = "no"
     \/ p = "ack_pedido" /\ x.aCliente = Confirmacion
     \/ p = "escuchar" /\ x.aCliente = <<>>

EnEspera(c, p, x, m) ==
  LET envio == EnviarMensaje(m.mensaje, m.id_mensaje_correlativo)
      leido == <<c, m.mensaje, m.id_mensaje_correlativo>> \in recibido
  IN  \/ p = "no" /\ x.aBroker = <<>>
      \/ p = "no" /\ x.aBroker = Confirmacion /\ leido
      \/ p = "ack_pedido" /\ x.aBroker = <<>> /\ x.aCliente = Confirmacion \o envio
      \/ p = "escuchar" /\ x.aBroker = <<>> /\ x.aCliente = envio
      \/ p = "escuchar" /\ x.aBroker = Confirmacion /\ x.aCliente = <<>> /\ leido

\* No one holds it in the Broker: if it is open there, the client has left it.
Suelta(c, p, x) ==
  \/ p = "no"
  \/ /\ ~x.broker
     /\ \/ p = "handshake" /\ x.aCliente = <<>>
        \/ p = "ack_handshake" /\ x.aCliente \in {<<>>, Confirmacion}
        \/ /\ p = "ack_pedido"
           /\ \/ x.aCliente \in {<<>>, Confirmacion}
              \/ c \notin Publicadores /\ \E e \in DeSuCola(c) : x.aCliente = Confirmacion \o Entrega(e)
        \/ /\ p = "escuchar" /\ c \notin Publicadores
           /\ \/ x.aCliente = <<>>
              \/ \E e \in DeSuCola(c) : x.aCliente = Entrega(e)

EnCamino(k) ==
  LET l == Lugar(k)  c == k[1]  p == Paso(k)  x == conexion[k]
  IN  /\ x.cliente <=> p # "no"
      /\ l \notin {"no", "fin"} => x.broker
      /\ l \in {"cola", "handshake"} => PorSaludar(c, p, x)
      /\ l = "operacion" => PorPedir(c, p, x)
      /\ l \in {"crear", "mensaje", "recibir"} => SinResponder(p, x, CargaDe(c))
      /\ l \in {"suscribir", "ack", "responder"} => SinResponder(p, x, <<>>)
      /\ l = "atender" => Atendida(p, x)
      /\ l = "espera" => EnEspera(c, p, x, hilo[k].mensaje)
      /\ l \in {"no", "fin"} => Suelta(c, p, x)

-----------------------------------------------------------------------------
(* The inductive invariant *)

Entrada == [con : ConexionPosible, operacion : op_code, mensaje : Mensaje,
            id_mensaje_correlativo : Nat, process_id : Nat]
Llenada == [con : ConexionPosible \cup {Nada}, id_proceso : Nat, operacion : op_code,
            id_mensaje : Nat]

Hilo ==
  [paso : {"no", "suscribir", "ack", "atender", "espera", "mensaje", "recibir", "responder", "fin"},
   con : ConexionPosible \cup {Nada}, id_proceso : Nat, operacion : op_code,
   id_mensaje : Nat, mensaje : Entrada \cup {Nada}]
Principal == [paso : {"accept", "handshake", "operacion", "crear"},
              con : ConexionPosible \cup {Nada},
              id_proceso : Nat, operacion : op_code, id_mensaje : Nat]
Cable == [cliente : BOOLEAN, broker : BOOLEAN, aBroker : Flujo, aCliente : Flujo, rst : BOOLEAN]

Tipos ==
  /\ escenario \in Escenarios
  /\ aceptar \in Seq(Conexion)
  /\ principal \in Principal
  /\ estructura_suscriptor \in Llenada /\ estructura_mensaje \in Llenada
  /\ hilo \in [Conexion -> Hilo]
  /\ list_mensajes \subseteq Entrada
  /\ cliente \in [Cliente ->
       [paso : {"conectar", "handshake", "ack_handshake", "ack_pedido", "escuchar", "fin"},
        intento : Nat, corriendo : BOOLEAN]]
  /\ conexion \in [Conexion -> Cable]

\* A connection waits for accept once, and main and the clients that are connected have
\* one that exists.
Ordenado ==
  /\ SinRepetidos(aceptar)
  /\ principal.paso # "accept" => principal.con \in Conexion
  /\ \A c \in Cliente : cliente[c].paso \notin {"conectar", "fin"} => Mia(c) \in Conexion

Listas ==
  /\ \A m \in list_mensajes : \E p \in Publicadores : Publicado(m, p)
  /\ \A r \in recibido : \E c \in Cliente : \E p \in DeSuCola(c) :
       r = <<c, Llegado(perfil[p].mensaje), perfil[p].id_mensaje>>
  /\ \A r \in recibieron :
       \E l \in recibido : l[2] = r[1].mensaje /\ perfil[l[1]].id_proceso = r[2]

Bien(k) == EnUnLugar(k) /\ DatosFieles(k) /\ EnCamino(k)

Invariante == Tipos /\ Ordenado /\ Listas /\ \A k \in Conexion : Bien(k)

-----------------------------------------------------------------------------
(* What is known of a client *)

LEMMA DeCliente ==
  ASSUME escenario \in Escenarios, NEW c \in Cliente
  PROVE  /\ perfil[c].id_proceso \in Nat
         /\ c \in Publicadores => /\ perfil[c].mensaje \in Mensaje /\ perfil[c].id_mensaje \in Nat
                                  /\ c \notin Suscriptores /\ c \notin GameBoys
         /\ c \notin Publicadores => perfil[c].operacion \in Cola
         /\ c \in GameBoys => perfil[c].operacion # "SUSCRIPCION_LOCALIZED"
         /\ c \in Suscriptores \/ c \in GameBoys \/ c \in Publicadores
         /\ c \in Suscriptores => c \notin GameBoys
<1>1. perfil[c] \in Perfil
  BY EscenariosValidos DEF Cliente, perfil
<1> QED BY <1>1 DEF Perfil, Publicadores, Suscriptores, GameBoys

LEMMA DeSuPedido ==
  ASSUME escenario \in Escenarios, NEW c \in Cliente
  PROVE  /\ EsPaquete(Saludo(c), "HANDSHAKE", perfil[c].id_proceso, <<>>)
         /\ EsPaquete(Pedido(c), OperacionDe(c), IdDe(c), CargaDe(c))
         /\ OperacionDe(c) \in op_code /\ IdDe(c) \in Nat
         /\ c \in Publicadores => OperacionDe(c) \in DOMAIN suscripcion /\ ~EsSuscripcion(OperacionDe(c))
         /\ c \notin Publicadores => OperacionDe(c) \notin DOMAIN suscripcion /\ EsSuscripcion(OperacionDe(c))
<1>1. EsPaquete(Saludo(c), "HANDSHAKE", perfil[c].id_proceso, <<>>)
  BY DeCliente, DeHandshake DEF Saludo
<1>2. CASE c \in Publicadores
  <2> DEFINE m == perfil[c].mensaje  id == perfil[c].id_mensaje
  <2>1. m \in Mensaje /\ id \in Nat /\ id \in Int
    BY <1>2, DeCliente
  <2>2. /\ OperacionDe(c) = m.op /\ IdDe(c) = id /\ CargaDe(c) = Contenido(m)
        /\ Pedido(c) = EnviarMensaje(m, id)
    BY <1>2 DEF OperacionDe, IdDe, CargaDe, Pedido
  <2> HIDE DEF m, id
  <2>3. EsPaquete(Pedido(c), m.op, id, Contenido(m))
    BY <2>1, <2>2, Viaje
  <2>4. m.op \in op_code /\ m.op \in DOMAIN suscripcion /\ ~EsSuscripcion(m.op)
    BY <2>1 DEF Mensaje, op_code, suscripcion, EsSuscripcion
  <2> QED BY <1>1, <1>2, <2>1, <2>2, <2>3, <2>4
<1>3. CASE c \notin Publicadores
  <2> DEFINE op == perfil[c].operacion
  <2>1. op \in Cola
    BY <1>3, DeCliente
  <2>2. /\ OperacionDe(c) = op /\ IdDe(c) = 0 /\ CargaDe(c) = <<>>
        /\ Pedido(c) = enviar_suscripcion(op)
    BY <1>3 DEF OperacionDe, IdDe, CargaDe, Pedido
  <2> HIDE DEF op
  <2>3. EsPaquete(Pedido(c), op, 0, <<>>) /\ op \in op_code
    BY <2>1, <2>2, DeSuscripcion
  <2>4. op \notin DOMAIN suscripcion /\ EsSuscripcion(op)
    BY <2>1 DEF Cola, suscripcion, EsSuscripcion
  <2> QED BY <1>1, <1>3, <2>2, <2>3, <2>4
<1> QED BY <1>2, <1>3

LEMMA DeEntrega ==
  ASSUME escenario \in Escenarios, NEW p \in Publicadores
  PROVE  LET m == Llegado(perfil[p].mensaje)
         IN  /\ m \in Mensaje /\ m.op = perfil[p].mensaje.op
             /\ EsPaquete(Entrega(p), m.op, perfil[p].id_mensaje, Contenido(m))
             /\ deserializar(m.op, Contenido(m)) = [mensaje |-> m, leidos |-> Len(Contenido(m))]
<1>1. perfil[p].mensaje \in Mensaje /\ perfil[p].id_mensaje \in Int
  BY DeCliente DEF Publicadores
<1> DEFINE m == Llegado(perfil[p].mensaje)
<1>2. m \in Mensaje /\ m.op = perfil[p].mensaje.op /\ Llegado(m) = m
  BY <1>1, LlegadoEsMensaje
<1> HIDE DEF m
<1>3. /\ EsPaquete(EnviarMensaje(m, perfil[p].id_mensaje), m.op, perfil[p].id_mensaje, Contenido(m))
      /\ deserializar(m.op, Contenido(m)) = [mensaje |-> Llegado(m), leidos |-> Len(Contenido(m))]
  BY <1>1, <1>2, Viaje
<1> QED BY <1>2, <1>3 DEF m, Entrega

\* What the client is does not change.
LEMMA MismoEscenario ==
  ASSUME escenario' = escenario
  PROVE  /\ perfil' = perfil /\ Cliente' = Cliente /\ Conexion' = Conexion
         /\ Publicadores' = Publicadores
         /\ \A c : /\ Saludo(c)' = Saludo(c) /\ Pedido(c)' = Pedido(c)
                  /\ OperacionDe(c)' = OperacionDe(c) /\ IdDe(c)' = IdDe(c)
                  /\ CargaDe(c)' = CargaDe(c) /\ DeSuCola(c)' = DeSuCola(c)
                  /\ Entrega(c)' = Entrega(c)
         /\ \A k : Datos(k)' = Datos(k)
BY DEF perfil, Cliente, Conexion, Publicadores, Saludo, Pedido, OperacionDe, IdDe, CargaDe,
       DeSuCola, Entrega, Datos

LEMMA ConexionEsPosible ==
  ASSUME escenario \in Escenarios, NEW k \in Conexion
  PROVE  k \in ConexionPosible /\ k[1] \in Cliente /\ k[2] \in Nat /\ k = <<k[1], k[2]>>
BY EscenariosValidos DEF Conexion, ConexionPosible, Cliente, perfil

-----------------------------------------------------------------------------
(* A step leaves alone every connection but one *)

Crecen == /\ list_suscriptores \subseteq list_suscriptores'
          /\ list_mensajes \subseteq list_mensajes' /\ recibido \subseteq recibido'

Igual(k) ==
  /\ conexion'[k] = conexion[k] /\ hilo'[k] = hilo[k] /\ Paso(k)' = Paso(k)
  /\ k[2] > cliente'[k[1]].intento => k[2] > cliente[k[1]].intento
  /\ EnCola(k)' <=> EnCola(k)
  /\ EnPrincipal(k)' <=> EnPrincipal(k)
  /\ EnPrincipal(k) => principal' = principal
  /\ hilo[k].paso = "suscribir" =>
       mutex_list_suscriptores' /\ estructura_suscriptor' = estructura_suscriptor
  /\ hilo[k].paso = "mensaje" =>
       mutex_estructura_mensajes' /\ estructura_mensaje' = estructura_mensaje

LEMMA Intacta ==
  ASSUME escenario' = escenario, Crecen, NEW k, Bien(k), Igual(k)
  PROVE  Bien(k)'
<1>1. Lugar(k)' = Lugar(k)
  BY DEF Igual, Lugar
<1>2. EnUnLugar(k)'
  BY DEF EnUnLugar, Igual, Bien
<1>3. DatosFieles(k)'
  BY MismoEscenario DEF DatosFieles, Igual, Bien, Crecen, Estructura
<1>4. EnCamino(k)'
  BY <1>1, MismoEscenario DEF EnCamino, Igual, Bien, Crecen, PorSaludar, PorPedir, SinResponder,
                              Atendida, EnEspera, Suelta
<1> QED BY <1>2, <1>3, <1>4 DEF Bien

LEMMA Reunir ==
  ASSUME Invariante, escenario' = escenario, Crecen, NEW k0 \in Conexion, Bien(k0)',
         \A k \in Conexion : k # k0 => Igual(k),
         Tipos', Ordenado', Listas'
  PROVE  Invariante'
<1>1. ASSUME NEW k \in Conexion PROVE Bien(k)'
  <2>1. CASE k = k0
    BY <2>1
  <2>2. CASE k # k0
    <3>1. Bien(k) /\ Igual(k)
      BY <2>2 DEF Invariante
    <3> QED BY <3>1, Intacta
  <2> QED BY <2>1, <2>2
<1>2. Conexion' = Conexion
  BY MismoEscenario
<1> QED BY <1>1, <1>2 DEF Invariante

-----------------------------------------------------------------------------
(* The threads of the Broker *)

LEMMA DondeEsta ==
  ASSUME Invariante, NEW k \in Conexion
  PROVE  /\ hilo[k].paso \notin {"no", "fin"} =>
              ~EnCola(k) /\ ~EnPrincipal(k) /\ Lugar(k) = hilo[k].paso
         /\ EnPrincipal(k) => ~EnCola(k) /\ Lugar(k) = principal.paso /\ hilo[k] = SinHilo
         /\ EnCola(k) => ~EnPrincipal(k) /\ Lugar(k) = "cola" /\ hilo[k] = SinHilo
         /\ hilo[k].paso \notin {"no", "fin"} \/ EnCola(k) \/ EnPrincipal(k) =>
              k[2] <= cliente[k[1]].intento
<1>1. EnUnLugar(k)
  BY DEF Invariante, Bien
<1>2. cliente[k[1]].intento \in Nat /\ k[2] \in Nat
  BY ConexionEsPosible DEF Invariante, Tipos
<1>3. SinHilo.paso = "no"
  BY DEF SinHilo
<1> QED BY <1>1, <1>2, <1>3 DEF EnUnLugar, Lugar

\* A thread changes its own connection, its locals and, with the mutex, the lists.
LEMMA PasoDeHilo ==
  ASSUME Invariante, NEW k0 \in Conexion, NEW h \in Hilo, NEW y \in Cable,
         hilo[k0].paso \notin {"no", "fin"},
         UNCHANGED <<escenario, cliente, aceptar, principal, recibido, estructura_suscriptor,
                     estructura_mensaje>>,
         Crecen, list_mensajes' \subseteq Entrada,
         hilo' = [hilo EXCEPT ![k0] = h], conexion' = [conexion EXCEPT ![k0] = y],
         hilo[k0].paso # "suscribir" => UNCHANGED mutex_list_suscriptores,
         hilo[k0].paso # "mensaje" => UNCHANGED mutex_estructura_mensajes,
         Listas', DatosFieles(k0)', EnCamino(k0)'
  PROVE  Invariante'
<1>1. /\ \A k : /\ Paso(k)' = Paso(k) /\ (EnCola(k)' <=> EnCola(k))
                /\ (EnPrincipal(k)' <=> EnPrincipal(k))
  BY DEF Paso, EnCola, EnPrincipal
<1>2. DOMAIN hilo = Conexion /\ DOMAIN conexion = Conexion
  BY DEF Invariante, Tipos
<1>3. ~EnCola(k0) /\ ~EnPrincipal(k0) /\ k0[2] <= cliente[k0[1]].intento
  BY DondeEsta
<1>4. EnUnLugar(k0)'
  <2>1. ~(k0[2] > cliente[k0[1]].intento)
    BY <1>3, ConexionEsPosible DEF Invariante, Tipos
  <2> QED BY <1>1, <1>3, <2>1 DEF EnUnLugar
<1>5. ASSUME NEW k \in Conexion, k # k0 PROVE Igual(k)
  <2>1. conexion'[k] = conexion[k] /\ hilo'[k] = hilo[k] /\ DatosFieles(k) /\ DatosFieles(k0)
    BY <1>2, <1>5 DEF Invariante, Bien
  <2>2. hilo[k].paso = "suscribir" => hilo[k0].paso # "suscribir"
    BY <1>5, <2>1 DEF DatosFieles, Datos
  <2>3. hilo[k].paso = "mensaje" => hilo[k0].paso # "mensaje"
    BY <1>5, <2>1 DEF DatosFieles, Datos
  <2> QED BY <1>1, <2>1, <2>2, <2>3 DEF Igual, DatosFieles
<1>6. Ordenado'
  BY MismoEscenario DEF Invariante, Ordenado, Mia
<1>7. Tipos'
  BY MismoEscenario DEF Invariante, Tipos
<1> QED BY <1>4, <1>5, <1>6, <1>7, Reunir DEF Bien

\* Before and after a step of a thread that keeps to the client its connection has.
LEMMA DelHilo ==
  ASSUME Invariante, NEW k \in Conexion, hilo[k].paso \notin {"no", "fin"}
  PROVE  /\ hilo[k] \in Hilo /\ conexion[k] \in Cable /\ k[1] \in Cliente
         /\ DatosFieles(k) /\ EnCamino(k) /\ Lugar(k) = hilo[k].paso
         /\ escenario \in Escenarios /\ k \in ConexionPosible
BY DondeEsta, ConexionEsPosible DEF Invariante, Tipos, Bien

LEMMA LugarDespues ==
  ASSUME Invariante, NEW k \in Conexion, hilo[k].paso \notin {"no", "fin"},
         UNCHANGED <<aceptar, principal, cliente>>
  PROVE  Lugar(k)' = hilo'[k].paso /\ Paso(k)' = Paso(k) /\ ~EnPrincipal(k)'
<1>1. ~EnCola(k) /\ ~EnPrincipal(k)
  BY DondeEsta
<1>2. /\ Paso(k)' = Paso(k) /\ (EnCola(k)' <=> EnCola(k)) /\ (EnPrincipal(k)' <=> EnPrincipal(k))
  BY DEF Paso, EnCola, EnPrincipal
<1> QED BY <1>1, <1>2 DEF Lugar

LEMMA AlSuscribir ==
  ASSUME Invariante, NEW k \in Conexion, manejoSuscripcion(k)
  PROVE  Invariante'
<1> DEFINE e == estructura_suscriptor  h == Copiar(e, "ack")  y == conexion[k]
<1>1. /\ hilo[k].paso = "suscribir" /\ hilo' = [hilo EXCEPT ![k] = h]
      /\ UNCHANGED <<escenario, cliente, aceptar, principal, recibido, estructura_suscriptor,
                     estructura_mensaje>>
      /\ UNCHANGED <<conexion, mutex_estructura_mensajes, list_mensajes, recibieron>>
      /\ list_suscriptores' = list_suscriptores \cup
           {[id |-> e.id_proceso, op_code |-> e.operacion]}
  BY DEF manejoSuscripcion, EnHilo, clienteVars
<1>2. /\ y \in Cable /\ k[1] \in Cliente /\ DatosFieles(k) /\ EnCamino(k)
      /\ Lugar(k) = "suscribir"
  BY <1>1, DelHilo
<1>3. e = Datos(k) /\ k[1] \notin Publicadores /\ e \in Llenada /\ list_mensajes \subseteq Entrada
  BY <1>1, <1>2 DEF DatosFieles, Invariante, Tipos
<1>4. h \in Hilo /\ h.paso = "ack" /\ h.con = e.con /\ h.id_proceso = e.id_proceso
      /\ h.operacion = e.operacion /\ h.id_mensaje = e.id_mensaje
  BY <1>3 DEF Copiar, Hilo, Llenada
<1>5. hilo'[k] = h /\ conexion' = [conexion EXCEPT ![k] = y] /\ conexion'[k] = y
  BY <1>1 DEF Invariante, Tipos
<1> HIDE DEF h, e, y
<1>6. Lugar(k)' = "ack" /\ Paso(k)' = Paso(k) /\ ~EnPrincipal(k)'
  BY <1>1, <1>4, <1>5, LugarDespues
<1>7. DatosFieles(k)'
  <2>1. /\ e.con = k /\ e.id_proceso = perfil[k[1]].id_proceso
        /\ e.operacion = OperacionDe(k[1]) /\ e.id_mensaje = IdDe(k[1])
        /\ OperacionDe(k[1]) = perfil[k[1]].operacion
    BY <1>3 DEF Datos, OperacionDe
  <2> QED BY <1>1, <1>3, <1>4, <1>5, <1>6, <2>1, MismoEscenario DEF DatosFieles
<1>8. EnCamino(k)'
  BY <1>1, <1>2, <1>5, <1>6, MismoEscenario DEF EnCamino, SinResponder, y
<1>9. Crecen /\ Listas'
  BY <1>1, MismoEscenario DEF Crecen, Listas, Invariante, Publicado
<1>10. list_mensajes' \subseteq Entrada
  BY <1>1, <1>3
<1> QED BY <1>1, <1>2, <1>4, <1>5, <1>7, <1>8, <1>9, <1>10, PasoDeHilo

LEMMA DeSockets ==
  ASSUME NEW x \in Cable, NEW b \in Flujo
  PROVE  /\ LET y == AlCliente(x, b)
            IN  /\ y \in Cable /\ y.cliente = x.cliente /\ y.broker = x.broker /\ y.aBroker = x.aBroker
                /\ y.aCliente = IF x.cliente THEN x.aCliente \o b ELSE x.aCliente
         /\ LET y == AlBroker(x, b)
            IN  /\ y \in Cable /\ y.cliente = x.cliente /\ y.broker = x.broker
                /\ y.aCliente = x.aCliente
                /\ y.aBroker = IF x.broker THEN x.aBroker \o b ELSE x.aBroker
<1>1. x.aCliente \o b \in Flujo /\ x.aBroker \o b \in Flujo
  BY ConcatPuntual DEF Cable, Flujo
<1> QED BY <1>1 DEF AlCliente, AlBroker, Cable

LEMMA DeLecturas ==
  ASSUME NEW x \in Cable, NEW n
  PROVE  /\ LET y == LeerDelCliente(x, n)
            IN  /\ Resto(x.aBroker, n) \in Flujo => y \in Cable
                /\ y.cliente = x.cliente /\ y.broker = x.broker /\ y.aCliente = x.aCliente
                /\ y.aBroker = Resto(x.aBroker, n)
         /\ LET y == LeerDelBroker(x, n)
            IN  /\ Resto(x.aCliente, n) \in Flujo => y \in Cable
                /\ y.cliente = x.cliente /\ y.broker = x.broker /\ y.aBroker = x.aBroker
                /\ y.aCliente = Resto(x.aCliente, n)
BY DEF LeerDelCliente, LeerDelBroker, Cable

LEMMA DeCierres ==
  ASSUME NEW x \in Cable
  PROVE  /\ LET y == CierraCliente(x)
            IN  /\ y \in Cable /\ y.cliente = FALSE /\ y.broker = x.broker
                /\ x.broker => y.aBroker = x.aBroker
         /\ LET y == CierraBroker(x)
            IN  /\ y \in Cable /\ y.broker = FALSE /\ y.cliente = x.cliente
                /\ x.cliente => y.aCliente = x.aCliente
<1>1. SinUsar \in Cable /\ <<>> \in Flujo
  BY Vacio DEF SinUsar, Cable
<1> QED BY <1>1 DEF CierraCliente, CierraBroker, Cable, SinUsar

LEMMA MismasListas ==
  ASSUME Invariante, UNCHANGED <<escenario, list_mensajes, recibieron, recibido>>
  PROVE  Listas' /\ list_mensajes' \subseteq Entrada
BY MismoEscenario DEF Listas, Invariante, Publicado, Tipos

LEMMA AlConfirmar ==
  ASSUME Invariante, NEW k \in Conexion, ConfirmarSuscripcion(k)
  PROVE  Invariante'
<1> DEFINE h == [hilo[k] EXCEPT !.paso = "atender"]  x == conexion[k]
           y == AlCliente(x, Confirmacion)
<1>1. /\ hilo[k].paso = "ack"
      /\ UNCHANGED <<escenario, cliente, aceptar, principal, recibido, estructura_suscriptor,
                     estructura_mensaje>>
      /\ UNCHANGED <<mutex_list_suscriptores, mutex_estructura_mensajes, list_suscriptores,
                     list_mensajes, recibieron>>
  BY DEF ConfirmarSuscripcion, EnHilo, clienteVars
<1>2. /\ x \in Cable /\ hilo[k] \in Hilo /\ DatosFieles(k) /\ EnCamino(k) /\ Lugar(k) = "ack"
  BY <1>1, DelHilo
<1>3. hilo[k].con = k
  BY <1>1, <1>2 DEF DatosFieles
<1>4. h \in Hilo
  BY <1>2 DEF Hilo
<1>5. /\ hilo' = [hilo EXCEPT ![k] = h] /\ hilo'[k] = h
      /\ conexion' = [conexion EXCEPT ![k] = y] /\ conexion'[k] = y
  BY <1>3 DEF ConfirmarSuscripcion, Confirmacion, Invariante, Tipos
<1>6. /\ y \in Cable /\ y.cliente = x.cliente /\ y.broker = x.broker /\ y.aBroker = x.aBroker
      /\ y.aCliente = IF x.cliente THEN x.aCliente \o Confirmacion ELSE x.aCliente
      /\ <<>> \o Confirmacion = Confirmacion
  BY <1>2, DeSockets, DeConfirmacion, Vacio DEF EsPaquete, Confirmacion
<1> HIDE DEF y
<1>7. Lugar(k)' = "atender" /\ Paso(k)' = Paso(k) /\ ~EnPrincipal(k)'
  BY <1>1, <1>2, <1>5, LugarDespues DEF Hilo
<1>8. DatosFieles(k)'
  BY <1>1, <1>2, <1>5, <1>7, MismoEscenario DEF DatosFieles, Hilo
<1>9. EnCamino(k)'
  BY <1>1, <1>2, <1>5, <1>6, <1>7, MismoEscenario DEF EnCamino, SinResponder, Atendida, Confirmacion
<1>10. Crecen /\ Listas' /\ list_mensajes' \subseteq Entrada
  BY <1>1, MismasListas DEF Crecen
<1> HIDE DEF h, x
<1> QED BY <1>1, <1>4, <1>5, <1>6, <1>8, <1>9, <1>10, PasoDeHilo

LEMMA AlEnviar ==
  ASSUME Invariante, NEW k \in Conexion, EnviarASuscriptor(k)
  PROVE  Invariante'
<1>1. /\ hilo[k].paso = "atender"
      /\ UNCHANGED <<escenario, cliente, aceptar, principal, recibido, estructura_suscriptor,
                     estructura_mensaje>>
      /\ UNCHANGED <<mutex_list_suscriptores, mutex_estructura_mensajes, list_suscriptores,
                     list_mensajes, recibieron>>
  BY DEF EnviarASuscriptor, EnHilo, clienteVars
<1>2. /\ conexion[k] \in Cable /\ hilo[k] \in Hilo /\ DatosFieles(k) /\ EnCamino(k)
      /\ Lugar(k) = "atender" /\ escenario \in Escenarios
  BY <1>1, DelHilo
<1>3. /\ hilo[k].con = k /\ k[1] \notin Publicadores
      /\ hilo[k].operacion = perfil[k[1]].operacion
  BY <1>1, <1>2 DEF DatosFieles, OperacionDe
<1>4. PICK m \in PorEnviar(k) :
        /\ conexion' = [conexion EXCEPT
             ![k] = AlCliente(@, EnviarMensaje(m.mensaje, m.id_mensaje_correlativo))]
        /\ hilo' = [hilo EXCEPT ![k].paso = "espera", ![k].mensaje = m]
  BY <1>3 DEF EnviarASuscriptor
<1>5. /\ m \in list_mensajes /\ m \in Entrada
      /\ suscripcion[m.operacion] = perfil[k[1]].operacion
  BY <1>3, <1>4 DEF PorEnviar, Invariante, Tipos
<1> DEFINE h == [hilo[k] EXCEPT !.paso = "espera", !.mensaje = m]  x == conexion[k]
           envio == EnviarMensaje(m.mensaje, m.id_mensaje_correlativo)  y == AlCliente(x, envio)
<1>6. envio \in Flujo
  <2>1. m.mensaje \in Mensaje /\ m.id_mensaje_correlativo \in Int
    BY <1>5 DEF Entrada
  <2> QED BY <2>1, Viaje DEF EsPaquete
<1>7. h \in Hilo /\ h.paso = "espera" /\ h.mensaje = m
  BY <1>2, <1>5 DEF Hilo
<1>8. /\ hilo' = [hilo EXCEPT ![k] = h] /\ hilo'[k] = h
      /\ conexion' = [conexion EXCEPT ![k] = y] /\ conexion'[k] = y
  BY <1>4 DEF Invariante, Tipos
<1> HIDE DEF envio
<1>9. /\ y \in Cable /\ y.cliente = x.cliente /\ y.broker = x.broker /\ y.aBroker = x.aBroker
      /\ y.aCliente = IF x.cliente THEN x.aCliente \o envio ELSE x.aCliente
      /\ <<>> \o envio = envio
  BY <1>2, <1>6, DeSockets, Vacio
<1> HIDE DEF y
<1>10. Lugar(k)' = "espera" /\ Paso(k)' = Paso(k) /\ ~EnPrincipal(k)'
  BY <1>1, <1>7, <1>8, LugarDespues
<1>11. DatosFieles(k)'
  BY <1>1, <1>2, <1>5, <1>8, <1>10, MismoEscenario DEF DatosFieles, Hilo
<1>12. EnCamino(k)'
  <2>1. /\ x.broker /\ x.aBroker = <<>> /\ (x.cliente <=> Paso(k) # "no")
        /\ \/ Paso(k) = "no"
           \/ Paso(k) = "ack_pedido" /\ x.aCliente = Confirmacion
           \/ Paso(k) = "escuchar" /\ x.aCliente = <<>>
    BY <1>2 DEF EnCamino, Atendida
  <2>2. /\ y.broker /\ y.aBroker = <<>> /\ (y.cliente <=> Paso(k) # "no")
        /\ \/ Paso(k) = "no"
           \/ Paso(k) = "ack_pedido" /\ y.aCliente = Confirmacion \o envio
           \/ Paso(k) = "escuchar" /\ y.aCliente = envio
    BY <1>9, <2>1
  <2>3. hilo'[k].mensaje = m /\ conexion'[k] = y /\ Confirmacion' = Confirmacion
    BY <1>7, <1>8 DEF Confirmacion
  <2> HIDE DEF x
  <2> QED BY <1>10, <2>2, <2>3 DEF EnCamino, EnEspera, envio
<1>13. Crecen /\ Listas' /\ list_mensajes' \subseteq Entrada
  BY <1>1, MismasListas DEF Crecen
<1> HIDE DEF h, x
<1> QED BY <1>1, <1>7, <1>8, <1>9, <1>11, <1>12, <1>13, PasoDeHilo

\* What the thread reads while it waits is the ACK of what it sent.
LEMMA AlRecibirACK ==
  ASSUME Invariante, NEW k \in Conexion, RecibirACK(k)
  PROVE  Invariante'
<1> DEFINE m == hilo[k].mensaje  x == conexion[k]
           h == [hilo[k] EXCEPT !.paso = "atender", !.mensaje = Nada]
           y == LeerDelCliente(x, ENCABEZADO)
<1>1. /\ hilo[k].paso = "espera" /\ hilo' = [hilo EXCEPT ![k].paso = "atender", ![k].mensaje = Nada]
      /\ UNCHANGED <<escenario, cliente, aceptar, principal, recibido, estructura_suscriptor,
                     estructura_mensaje>>
      /\ UNCHANGED <<mutex_list_suscriptores, mutex_estructura_mensajes, list_suscriptores,
                     list_mensajes>>
  BY DEF RecibirACK, EnHilo, clienteVars
<1>2. /\ x \in Cable /\ hilo[k] \in Hilo /\ DatosFieles(k) /\ EnCamino(k) /\ k[1] \in Cliente
      /\ Lugar(k) = "espera" /\ escenario \in Escenarios
  BY <1>1, DelHilo
<1>3. hilo[k].con = k /\ hilo[k].id_proceso = perfil[k[1]].id_proceso
  BY <1>1, <1>2 DEF DatosFieles
<1>4. HayEncabezado(x.aBroker)
  BY <1>3 DEF RecibirACK
<1>5. /\ x.aBroker = Confirmacion
      /\ <<k[1], m.mensaje, m.id_mensaje_correlativo>> \in recibido
      /\ Paso(k) = "no" \/ (Paso(k) = "escuchar" /\ x.aCliente = <<>>)
  BY <1>2, <1>4, Vacio DEF EnCamino, EnEspera
<1>6. Operacion(x.aBroker) = "ACK" /\ Resto(x.aBroker, ENCABEZADO) = <<>>
  BY <1>5, DeConfirmacion DEF EsPaquete, Confirmacion
<1>7. /\ recibieron' = recibieron \cup {<<m, hilo[k].id_proceso>>}
      /\ conexion' = [conexion EXCEPT ![k] = y] /\ conexion'[k] = y
  BY <1>3, <1>6 DEF RecibirACK, Invariante, Tipos
<1>8. /\ y \in Cable /\ y.cliente = x.cliente /\ y.broker = x.broker /\ y.aCliente = x.aCliente
      /\ y.aBroker = <<>>
  BY <1>2, <1>6, DeLecturas, Vacio
<1>9. h \in Hilo /\ h.paso = "atender"
  BY <1>2 DEF Hilo
<1>10. hilo' = [hilo EXCEPT ![k] = h] /\ hilo'[k] = h
  BY <1>1 DEF Invariante, Tipos
<1> HIDE DEF y
<1>11. Lugar(k)' = "atender" /\ Paso(k)' = Paso(k) /\ ~EnPrincipal(k)'
  BY <1>1, <1>9, <1>10, LugarDespues
<1>12. DatosFieles(k)'
  BY <1>1, <1>2, <1>10, <1>11, MismoEscenario DEF DatosFieles, Hilo
<1>13. EnCamino(k)'
  BY <1>1, <1>2, <1>5, <1>7, <1>8, <1>11, MismoEscenario DEF EnCamino, Atendida, EnEspera
<1>14. list_mensajes' \subseteq Entrada /\ Crecen
  BY <1>1 DEF Crecen, Invariante, Tipos
<1>15. Listas'
  <2> DEFINE l == <<k[1], m.mensaje, m.id_mensaje_correlativo>>
  <2>1. l \in recibido' /\ l[2] = m.mensaje /\ perfil[l[1]].id_proceso = hilo[k].id_proceso
    BY <1>1, <1>3, <1>5
  <2>2. /\ \A a \in list_mensajes' : \E p \in Publicadores : Publicado(a, p)
        /\ \A r \in recibido' : \E c \in Cliente : \E p \in DeSuCola(c) :
             r = <<c, Llegado(perfil[p].mensaje), perfil[p].id_mensaje>>
        /\ \A r \in recibieron :
             \E a \in recibido' : a[2] = r[1].mensaje /\ perfil[a[1]].id_proceso = r[2]
    BY <1>1 DEF Listas, Invariante
  <2> HIDE DEF l, m
  <2>3. \A r \in recibieron' :
          \E a \in recibido' : a[2] = r[1].mensaje /\ perfil[a[1]].id_proceso = r[2]
    BY <1>7, <2>1, <2>2
  <2> QED BY <1>1, <2>2, <2>3, MismoEscenario DEF Listas, Publicado
<1> HIDE DEF h, x
<1> QED BY <1>1, <1>7, <1>8, <1>9, <1>10, <1>12, <1>13, <1>14, <1>15, PasoDeHilo

LEMMA AlDesconectarse ==
  ASSUME Invariante, NEW k \in Conexion, SeDesconecto(k)
  PROVE  Invariante'
<1> DEFINE x == conexion[k]  h == [SinHilo EXCEPT !.paso = "fin"]  y == CierraBroker(x)
<1>1. /\ hilo[k].paso = "espera" /\ hilo' = [hilo EXCEPT ![k] = h]
      /\ UNCHANGED <<escenario, cliente, aceptar, principal, recibido, estructura_suscriptor,
                     estructura_mensaje>>
      /\ UNCHANGED <<mutex_list_suscriptores, mutex_estructura_mensajes, list_suscriptores,
                     list_mensajes, recibieron>>
  BY DEF SeDesconecto, EnHilo, clienteVars
<1>2. /\ x \in Cable /\ hilo[k] \in Hilo /\ DatosFieles(k) /\ EnCamino(k) /\ Lugar(k) = "espera"
  BY <1>1, DelHilo
<1>3. hilo[k].con = k
  BY <1>1, <1>2 DEF DatosFieles
<1>4. ~x.cliente /\ conexion' = [conexion EXCEPT ![k] = y]
  BY <1>3 DEF SeDesconecto, Colgado
<1>5. Paso(k) = "no"
  BY <1>2, <1>4 DEF EnCamino
<1>6. y \in Cable /\ y.cliente = x.cliente /\ y.broker = FALSE
  BY <1>2, DeCierres
<1>7. h \in Hilo /\ h.paso = "fin"
  BY DEF Hilo, SinHilo, op_code
<1>8. hilo'[k] = h /\ conexion'[k] = y
  BY <1>1, <1>4 DEF Invariante, Tipos
<1> HIDE DEF y
<1>9. Lugar(k)' = "fin" /\ Paso(k)' = "no" /\ ~EnPrincipal(k)'
  BY <1>1, <1>5, <1>7, <1>8, LugarDespues
<1>10. DatosFieles(k)'
  BY <1>1, <1>8, <1>9, MismoEscenario DEF DatosFieles, SinHilo
<1>11. EnCamino(k)'
  BY <1>1, <1>4, <1>6, <1>8, <1>9 DEF EnCamino, Suelta
<1>12. Crecen /\ Listas' /\ list_mensajes' \subseteq Entrada
  BY <1>1, MismasListas DEF Crecen
<1> HIDE DEF h, x
<1> QED BY <1>1, <1>4, <1>6, <1>7, <1>10, <1>11, <1>12, PasoDeHilo

LEMMA AlAtenderMensaje ==
  ASSUME Invariante, NEW k \in Conexion, manejoMensaje(k)
  PROVE  Invariante'
<1> DEFINE e == estructura_mensaje  h == Copiar(e, "recibir")  y == conexion[k]
<1>1. /\ hilo[k].paso = "mensaje" /\ hilo' = [hilo EXCEPT ![k] = h]
      /\ UNCHANGED <<escenario, cliente, aceptar, principal, recibido, estructura_suscriptor,
                     estructura_mensaje>>
      /\ UNCHANGED <<conexion, mutex_list_suscriptores, list_suscriptores, list_mensajes, recibieron>>
  BY DEF manejoMensaje, EnHilo, clienteVars
<1>2. y \in Cable /\ DatosFieles(k) /\ EnCamino(k) /\ Lugar(k) = "mensaje"
  BY <1>1, DelHilo
<1>3. e = Datos(k) /\ k[1] \in Publicadores /\ e \in Llenada
  BY <1>1, <1>2 DEF DatosFieles, Invariante, Tipos
<1>4. h \in Hilo /\ h.paso = "recibir" /\ h.con = e.con /\ h.id_proceso = e.id_proceso
      /\ h.operacion = e.operacion /\ h.id_mensaje = e.id_mensaje
  BY <1>3 DEF Copiar, Hilo, Llenada
<1>5. hilo'[k] = h /\ conexion' = [conexion EXCEPT ![k] = y] /\ conexion'[k] = y
  BY <1>1 DEF Invariante, Tipos
<1> HIDE DEF h, e, y
<1>6. Lugar(k)' = "recibir" /\ Paso(k)' = Paso(k) /\ ~EnPrincipal(k)'
  BY <1>1, <1>4, <1>5, LugarDespues
<1>7. DatosFieles(k)'
  <2>1. /\ e.con = k /\ e.id_proceso = perfil[k[1]].id_proceso
        /\ e.operacion = OperacionDe(k[1]) /\ e.id_mensaje = IdDe(k[1])
    BY <1>3 DEF Datos
  <2> QED BY <1>1, <1>3, <1>4, <1>5, <1>6, <2>1, MismoEscenario DEF DatosFieles
<1>8. EnCamino(k)'
  BY <1>1, <1>2, <1>5, <1>6, MismoEscenario DEF EnCamino, SinResponder, y
<1>9. Crecen /\ Listas' /\ list_mensajes' \subseteq Entrada
  BY <1>1, MismasListas DEF Crecen
<1> QED BY <1>1, <1>2, <1>4, <1>5, <1>7, <1>8, <1>9, PasoDeHilo

\* The thread reads the whole payload of the message, in the order of its kind.
LEMMA AlRecibirMensaje ==
  ASSUME Invariante, NEW k \in Conexion, RecibirMensaje(k)
  PROVE  Invariante'
<1> DEFINE c == k[1]  m == perfil[c].mensaje  x == conexion[k]
           h == [hilo[k] EXCEPT !.paso = "responder"]
           y == LeerDelCliente(x, Len(Contenido(m)))
           nuevo == [con |-> k, operacion |-> m.op, mensaje |-> Llegado(m),
                     id_mensaje_correlativo |-> perfil[c].id_mensaje,
                     process_id |-> perfil[c].id_proceso]
<1>1. /\ hilo[k].paso = "recibir" /\ hilo' = [hilo EXCEPT ![k].paso = "responder"]
      /\ UNCHANGED <<escenario, cliente, aceptar, principal, recibido, estructura_suscriptor,
                     estructura_mensaje>>
      /\ UNCHANGED <<mutex_list_suscriptores, mutex_estructura_mensajes, list_suscriptores,
                     recibieron>>
  BY DEF RecibirMensaje, EnHilo, clienteVars
<1>2. /\ x \in Cable /\ hilo[k] \in Hilo /\ DatosFieles(k) /\ EnCamino(k) /\ c \in Cliente
      /\ Lugar(k) = "recibir" /\ escenario \in Escenarios /\ k \in ConexionPosible
  BY <1>1, DelHilo
<1>3. /\ c \in Publicadores /\ hilo[k].con = k /\ hilo[k].id_proceso = perfil[c].id_proceso
      /\ hilo[k].operacion = m.op /\ hilo[k].id_mensaje = perfil[c].id_mensaje
      /\ x.aBroker = Contenido(m)
  BY <1>1, <1>2 DEF DatosFieles, OperacionDe, IdDe, CargaDe, EnCamino, SinResponder
<1>4. m \in Mensaje /\ perfil[c].id_mensaje \in Nat /\ perfil[c].id_proceso \in Nat
  BY <1>2, <1>3, DeCliente
<1>5. /\ deserializar(m.op, Contenido(m)) = [mensaje |-> Llegado(m), leidos |-> Len(Contenido(m))]
      /\ EsPaquete(EnviarMensaje(m, 0), m.op, 0, Contenido(m))
  BY <1>4, Viaje
<1> HIDE DEF m
<1>6. /\ list_mensajes' = list_mensajes \cup {nuevo}
      /\ conexion' = [conexion EXCEPT ![k] = y] /\ conexion'[k] = y
  BY <1>3, <1>5 DEF RecibirMensaje, Invariante, Tipos
<1>7. nuevo \in Entrada
  <2>1. Llegado(m) \in Mensaje /\ m.op \in op_code
    BY <1>4, LlegadoEsMensaje DEF Mensaje, op_code
  <2> QED BY <1>2, <1>4, <2>1 DEF Entrada
<1>8. /\ y \in Cable /\ y.cliente = x.cliente /\ y.broker = x.broker /\ y.aCliente = x.aCliente
      /\ y.aBroker = <<>>
  BY <1>2, <1>3, <1>5, DeLecturas, Vacio DEF EsPaquete
<1>9. h \in Hilo /\ h.paso = "responder"
  BY <1>2 DEF Hilo
<1>10. hilo' = [hilo EXCEPT ![k] = h] /\ hilo'[k] = h
  BY <1>1 DEF Invariante, Tipos
<1>11. Publicado(nuevo, c)
  BY <1>3 DEF Publicado, m
<1> HIDE DEF y, nuevo
<1>12. Lugar(k)' = "responder" /\ Paso(k)' = Paso(k) /\ ~EnPrincipal(k)'
  BY <1>1, <1>9, <1>10, LugarDespues
<1>13. DatosFieles(k)'
  BY <1>1, <1>2, <1>3, <1>10, <1>12, MismoEscenario DEF DatosFieles, Hilo
<1>14. EnCamino(k)'
  BY <1>1, <1>2, <1>6, <1>8, <1>12, MismoEscenario DEF EnCamino, SinResponder
<1>15. Crecen /\ list_mensajes' \subseteq Entrada
  BY <1>1, <1>6, <1>7 DEF Crecen, Invariante, Tipos
<1>16. Listas'
  <2>1. \A a \in list_mensajes' : \E p \in Publicadores : Publicado(a, p)
    BY <1>3, <1>6, <1>11 DEF Listas, Invariante
  <2> QED BY <1>1, <2>1, MismoEscenario DEF Listas, Invariante, Publicado
<1> HIDE DEF h, x
<1> QED BY <1>1, <1>6, <1>8, <1>9, <1>10, <1>13, <1>14, <1>15, <1>16, PasoDeHilo

LEMMA AlResponder ==
  ASSUME Invariante, NEW k \in Conexion, ResponderACK(k)
  PROVE  Invariante'
<1> DEFINE x == conexion[k]  h == [SinHilo EXCEPT !.paso = "fin"]
           z == AlCliente(x, Confirmacion)  y == CierraBroker(z)
<1>1. /\ hilo[k].paso = "responder" /\ hilo' = [hilo EXCEPT ![k] = h]
      /\ UNCHANGED <<escenario, cliente, aceptar, principal, recibido, estructura_suscriptor,
                     estructura_mensaje>>
      /\ UNCHANGED <<mutex_list_suscriptores, mutex_estructura_mensajes, list_suscriptores,
                     list_mensajes, recibieron>>
  BY DEF ResponderACK, EnHilo, clienteVars
<1>2. /\ x \in Cable /\ hilo[k] \in Hilo /\ DatosFieles(k) /\ EnCamino(k) /\ Lugar(k) = "responder"
  BY <1>1, DelHilo
<1>3. hilo[k].con = k
  BY <1>1, <1>2 DEF DatosFieles
<1>4. /\ conexion' = [conexion EXCEPT ![k] = y] /\ conexion'[k] = y /\ hilo'[k] = h
  BY <1>1, <1>3 DEF ResponderACK, Confirmacion, Invariante, Tipos
<1>5. /\ z \in Cable /\ z.cliente = x.cliente
      /\ z.aCliente = IF x.cliente THEN x.aCliente \o Confirmacion ELSE x.aCliente
      /\ <<>> \o Confirmacion = Confirmacion
  BY <1>2, DeSockets, DeConfirmacion, Vacio DEF EsPaquete, Confirmacion
<1> HIDE DEF z
<1>6. /\ y \in Cable /\ y.cliente = x.cliente /\ y.broker = FALSE
      /\ x.cliente => y.aCliente = x.aCliente \o Confirmacion
  BY <1>5, DeCierres
<1>7. h \in Hilo /\ h.paso = "fin"
  BY DEF Hilo, SinHilo, op_code
<1> HIDE DEF y
<1>8. Lugar(k)' = "fin" /\ Paso(k)' = Paso(k) /\ ~EnPrincipal(k)'
  BY <1>1, <1>4, <1>7, LugarDespues
<1>9. DatosFieles(k)'
  BY <1>1, <1>4, <1>8, MismoEscenario DEF DatosFieles, SinHilo
<1>10. EnCamino(k)'
  BY <1>1, <1>2, <1>4, <1>5, <1>6, <1>8, MismoEscenario DEF EnCamino, SinResponder, Suelta, Confirmacion
<1>11. Crecen /\ Listas' /\ list_mensajes' \subseteq Entrada
  BY <1>1, MismasListas DEF Crecen
<1> HIDE DEF h, x
<1> QED BY <1>1, <1>4, <1>6, <1>7, <1>9, <1>10, <1>11, PasoDeHilo

-----------------------------------------------------------------------------
(* The main loop of the Broker *)

LEMMA SaleElPrimero ==
  ASSUME NEW S, NEW s \in Seq(S), s # <<>>, SinRepetidos(s)
  PROVE  /\ Head(s) \in S /\ Head(s) \in ToSet(s)
         /\ Tail(s) \in Seq(S) /\ SinRepetidos(Tail(s))
         /\ ToSet(Tail(s)) = ToSet(s) \ {Head(s)}
<1>1. Len(s) \in Nat /\ Len(s) # 0 /\ DOMAIN s = 1..Len(s)
  BY EmptySeq, LenProperties
<1>2. 1 \in 1..Len(s) /\ Head(s) = s[1]
  BY <1>1
<1>3. Head(s) \in S /\ Head(s) \in ToSet(s)
  BY <1>1, <1>2, HeadTailProperties DEF ToSet
<1>4. RemoveAt(s, 1) = Tail(s)
  <2>1. Tail(s) = SubSeq(s, 2, Len(s)) /\ Tail(s) \in Seq(S)
    BY TailIsSubSeq, HeadTailProperties
  <2>2. SubSeq(s, 1, 0) = <<>>
    BY SubSeqEmpty
  <2>3. RemoveAt(s, 1) = <<>> \o Tail(s)
    BY <2>1, <2>2 DEF RemoveAt
  <2> QED BY <2>1, <2>3, ConcatEmptySeq
<1>5. \A i \in 1..Len(s) : LET t == RemoveAt(s, i)
                          IN  /\ t \in Seq(S) /\ SinRepetidos(t)
                              /\ ToSet(t) = ToSet(s) \ {s[i]}
  BY SalirDeLaCola
<1> QED BY <1>2, <1>3, <1>4, <1>5

\* main changes its locals, the connection that it holds, and the structure of the
\* thread that it creates.
LEMMA PasoDeMain ==
  ASSUME Invariante, NEW k0 \in Conexion, NEW h \in Hilo, NEW y \in Cable,
         UNCHANGED <<escenario, cliente, recibido, recibieron, list_mensajes, list_suscriptores>>,
         hilo' = [hilo EXCEPT ![k0] = h], conexion' = [conexion EXCEPT ![k0] = y],
         \A k : k # k0 => (k \in ToSet(aceptar') <=> k \in ToSet(aceptar)),
         principal.paso = "accept" \/ principal.con = k0,
         principal'.paso = "accept" \/ principal'.con = k0,
         \/ UNCHANGED <<mutex_list_suscriptores, estructura_suscriptor>>
         \/ ~mutex_list_suscriptores,
         \/ UNCHANGED <<mutex_estructura_mensajes, estructura_mensaje>>
         \/ ~mutex_estructura_mensajes,
         aceptar' \in Seq(Conexion), SinRepetidos(aceptar'), principal' \in Principal,
         estructura_suscriptor' \in Llenada, estructura_mensaje' \in Llenada,
         Bien(k0)'
  PROVE  Invariante'
<1>1. DOMAIN hilo = Conexion /\ DOMAIN conexion = Conexion
  BY DEF Invariante, Tipos
<1>2. ASSUME NEW k \in Conexion, k # k0 PROVE Igual(k)
  <2>1. conexion'[k] = conexion[k] /\ hilo'[k] = hilo[k] /\ DatosFieles(k)
    BY <1>1, <1>2 DEF Invariante, Bien
  <2>2. ~EnPrincipal(k) /\ ~EnPrincipal(k)' /\ (EnCola(k)' <=> EnCola(k)) /\ Paso(k)' = Paso(k)
    BY <1>2 DEF EnPrincipal, EnCola, Paso
  <2> QED BY <2>1, <2>2 DEF Igual, DatosFieles
<1>3. Ordenado'
  BY MismoEscenario DEF Invariante, Ordenado, Mia
<1>4. Tipos'
  BY MismoEscenario DEF Invariante, Tipos
<1>5. Listas' /\ Crecen
  BY MismasListas DEF Crecen
<1> QED BY <1>2, <1>3, <1>4, <1>5, Reunir

\* A connection that main holds.
LEMMA EnManosDeMain ==
  ASSUME Invariante, NEW k, principal.paso # "accept", principal.con = k
  PROVE  /\ k \in Conexion /\ k[1] \in Cliente /\ conexion[k] \in Cable /\ EnPrincipal(k)
         /\ DatosFieles(k) /\ EnCamino(k) /\ EnUnLugar(k)
         /\ Lugar(k) = principal.paso /\ hilo[k] = SinHilo /\ SinHilo \in Hilo
         /\ ~EnCola(k) /\ k[2] <= cliente[k[1]].intento
         /\ escenario \in Escenarios /\ k \in ConexionPosible
<1>1. k \in Conexion /\ EnPrincipal(k)
  BY DEF Invariante, Ordenado, EnPrincipal
<1>2. SinHilo \in Hilo
  BY DEF SinHilo, Hilo, op_code
<1> QED BY <1>1, <1>2, DondeEsta, ConexionEsPosible DEF Invariante, Tipos, Bien

\* Where it is after a step of main.
LEMMA EnUnLugarDespues ==
  ASSUME Invariante, NEW k \in Conexion, ~EnCola(k)', k[2] <= cliente[k[1]].intento,
         UNCHANGED <<escenario, cliente>>, EnPrincipal(k)' => hilo'[k] = SinHilo
  PROVE  EnUnLugar(k)' /\ Paso(k)' = Paso(k)
<1>1. ~(k[2] > cliente[k[1]].intento)
  BY ConexionEsPosible DEF Invariante, Tipos
<1> QED BY <1>1 DEF EnUnLugar, Paso

LEMMA AlAceptar ==
  ASSUME Invariante, NEW k, k = Head(aceptar), recibir_cliente
  PROVE  Invariante'
<1> DEFINE h == hilo[k]  y == conexion[k]
<1>1. /\ principal.paso = "accept" /\ aceptar # <<>> /\ aceptar' = Tail(aceptar)
      /\ principal' = [principal EXCEPT !.paso = "handshake", !.con = k]
      /\ UNCHANGED <<escenario, cliente, recibido, recibieron, list_mensajes, list_suscriptores>>
      /\ UNCHANGED <<hilo, conexion, mutex_list_suscriptores, estructura_suscriptor,
                     mutex_estructura_mensajes, estructura_mensaje>>
  BY DEF recibir_cliente, EnMain, clienteVars
<1>2. /\ k \in Conexion /\ k \in ToSet(aceptar) /\ aceptar' \in Seq(Conexion)
      /\ SinRepetidos(aceptar') /\ ToSet(aceptar') = ToSet(aceptar) \ {k}
  BY <1>1, SaleElPrimero DEF Invariante, Tipos, Ordenado
<1>3. /\ EnCola(k) /\ Lugar(k) = "cola" /\ h = SinHilo /\ k[2] <= cliente[k[1]].intento
      /\ DatosFieles(k) /\ EnCamino(k) /\ h \in Hilo /\ y \in Cable /\ k \in ConexionPosible
      /\ escenario \in Escenarios
  BY <1>2, DondeEsta, ConexionEsPosible DEF EnCola, Invariante, Bien, Tipos
<1>4. /\ principal' \in Principal /\ principal'.con = k /\ principal'.paso = "handshake"
  BY <1>1, <1>3 DEF Invariante, Tipos, Principal
<1>5. hilo' = [hilo EXCEPT ![k] = h] /\ conexion' = [conexion EXCEPT ![k] = y]
  BY <1>1 DEF Invariante, Tipos
<1>6. ~EnCola(k)' /\ EnPrincipal(k)' /\ Lugar(k)' = "handshake"
  BY <1>2, <1>4 DEF EnCola, EnPrincipal, Lugar
<1>7. EnUnLugar(k)' /\ Paso(k)' = Paso(k)
  BY <1>1, <1>2, <1>3, <1>6, EnUnLugarDespues
<1>8. DatosFieles(k)'
  BY <1>1, <1>3, <1>4, MismoEscenario DEF DatosFieles, SinHilo
<1>9. EnCamino(k)'
  BY <1>1, <1>3, <1>6, <1>7, MismoEscenario DEF EnCamino, PorSaludar
<1>10. estructura_suscriptor' \in Llenada /\ estructura_mensaje' \in Llenada
  BY <1>1 DEF Invariante, Tipos
<1> HIDE DEF h, y
<1> QED BY <1>1, <1>2, <1>3, <1>4, <1>5, <1>7, <1>8, <1>9, <1>10, PasoDeMain DEF Bien

\* What comes first on a connection is the handshake of its client.
LEMMA AlRecibirHandshake ==
  ASSUME Invariante, NEW k, principal.con = k, RecibirHandshake
  PROVE  Invariante'
<1> DEFINE c == k[1]  h == hilo[k]  x == conexion[k]
           z == LeerDelCliente(x, ENCABEZADO)  y == AlCliente(z, Confirmacion)
<1>1. /\ principal.paso = "handshake" /\ HayEncabezado(x.aBroker)
      /\ UNCHANGED <<escenario, cliente, recibido, recibieron, list_mensajes, list_suscriptores>>
      /\ UNCHANGED <<aceptar, hilo, mutex_list_suscriptores, estructura_suscriptor,
                     mutex_estructura_mensajes, estructura_mensaje>>
  BY DEF RecibirHandshake, EnMain, clienteVars, Entrante
<1>2. /\ k \in Conexion /\ c \in Cliente /\ x \in Cable /\ DatosFieles(k) /\ EnCamino(k)
      /\ Lugar(k) = "handshake" /\ h = SinHilo /\ h \in Hilo /\ ~EnCola(k)
      /\ k[2] <= cliente[c].intento /\ escenario \in Escenarios /\ k \in ConexionPosible
  BY <1>1, EnManosDeMain
<1>3. /\ x.aBroker = Saludo(c) /\ x.broker /\ (x.cliente <=> Paso(k) # "no")
      /\ Paso(k) = "no" \/ (Paso(k) = "ack_handshake" /\ x.aCliente = <<>>)
  BY <1>1, <1>2, Vacio DEF EnCamino, PorSaludar
<1>4. EsPaquete(x.aBroker, "HANDSHAKE", perfil[c].id_proceso, <<>>) /\ perfil[c].id_proceso \in Nat
  BY <1>2, <1>3, DeSuPedido, DeCliente
<1>5. /\ principal' = [principal EXCEPT !.paso = "operacion", !.id_proceso = perfil[c].id_proceso]
      /\ conexion' = [conexion EXCEPT ![k] = y] /\ conexion'[k] = y
  BY <1>2, <1>4 DEF RecibirHandshake, Entrante, EsPaquete, Confirmacion, Invariante, Tipos
<1>6. /\ z \in Cable /\ Confirmacion \in Flujo /\ z.cliente = x.cliente /\ z.broker = x.broker
      /\ z.aCliente = x.aCliente /\ z.aBroker = <<>>
  BY <1>2, <1>4, DeLecturas, DeConfirmacion, Vacio DEF EsPaquete, Confirmacion
<1> HIDE DEF z
<1>7. /\ y \in Cable /\ y.cliente = x.cliente /\ y.broker = x.broker /\ y.aBroker = <<>>
      /\ y.aCliente = IF x.cliente THEN x.aCliente \o Confirmacion ELSE x.aCliente
      /\ <<>> \o Confirmacion = Confirmacion
  <2>1. /\ y \in Cable /\ y.cliente = z.cliente /\ y.broker = z.broker /\ y.aBroker = z.aBroker
        /\ y.aCliente = IF z.cliente THEN z.aCliente \o Confirmacion ELSE z.aCliente
    BY <1>6, DeSockets
  <2>2. <<>> \o Confirmacion = Confirmacion
    BY <1>6, Vacio
  <2> HIDE DEF y, x
  <2> QED BY <1>6, <2>1, <2>2
<1> HIDE DEF y
<1>8. /\ principal' \in Principal /\ principal'.con = k /\ principal'.paso = "operacion"
      /\ principal'.id_proceso = perfil[c].id_proceso
  BY <1>4, <1>5 DEF Invariante, Tipos, Principal
<1>9. hilo' = [hilo EXCEPT ![k] = h] /\ hilo'[k] = SinHilo
  BY <1>1, <1>2 DEF Invariante, Tipos
<1>10. ~EnCola(k)' /\ EnPrincipal(k)' /\ Lugar(k)' = "operacion"
  BY <1>1, <1>2, <1>8 DEF EnCola, EnPrincipal, Lugar
<1>11. EnUnLugar(k)' /\ Paso(k)' = Paso(k)
  BY <1>1, <1>2, <1>9, <1>10, EnUnLugarDespues
<1>12. DatosFieles(k)'
  BY <1>1, <1>2, <1>8, <1>9, MismoEscenario DEF DatosFieles, SinHilo
<1>13. EnCamino(k)'
  <2>1. Confirmacion' = Confirmacion
    BY DEF Confirmacion
  <2> QED BY <1>1, <1>3, <1>5, <1>7, <1>10, <1>11, <2>1, MismoEscenario DEF EnCamino, PorPedir
<1>14. /\ estructura_suscriptor' \in Llenada /\ estructura_mensaje' \in Llenada
       /\ aceptar' \in Seq(Conexion) /\ SinRepetidos(aceptar')
  BY <1>1 DEF Invariante, Tipos, Ordenado
<1> HIDE DEF h, x
<1> QED BY <1>1, <1>2, <1>5, <1>7, <1>8, <1>9, <1>11, <1>12, <1>13, <1>14, PasoDeMain DEF Bien

\* What comes then is the operation that its client asks for.
LEMMA AlRecibirOperacion ==
  ASSUME Invariante, NEW k, principal.con = k, RecibirOperacion
  PROVE  Invariante'
<1> DEFINE c == k[1]  h == hilo[k]  x == conexion[k]  y == LeerDelCliente(x, ENCABEZADO)
<1>1. /\ principal.paso = "operacion" /\ HayEncabezado(x.aBroker)
      /\ UNCHANGED <<escenario, cliente, recibido, recibieron, list_mensajes, list_suscriptores>>
      /\ UNCHANGED <<aceptar, hilo, mutex_list_suscriptores, estructura_suscriptor,
                     mutex_estructura_mensajes, estructura_mensaje>>
  BY DEF RecibirOperacion, EnMain, clienteVars, Entrante
<1>2. /\ k \in Conexion /\ c \in Cliente /\ x \in Cable /\ DatosFieles(k) /\ EnCamino(k)
      /\ Lugar(k) = "operacion" /\ h = SinHilo /\ h \in Hilo /\ ~EnCola(k) /\ EnPrincipal(k)
      /\ k[2] <= cliente[c].intento /\ escenario \in Escenarios /\ k \in ConexionPosible
  BY <1>1, EnManosDeMain
<1>3. /\ x.aBroker = Pedido(c) /\ x.broker /\ (x.cliente <=> Paso(k) # "no")
      /\ Paso(k) = "no" \/ (Paso(k) = "ack_pedido" /\ x.aCliente = <<>>)
  BY <1>1, <1>2, Vacio DEF EnCamino, PorPedir
<1>4. /\ EsPaquete(x.aBroker, OperacionDe(c), IdDe(c), CargaDe(c))
      /\ OperacionDe(c) \in op_code /\ IdDe(c) \in Nat
  BY <1>2, <1>3, DeSuPedido
<1>5. /\ principal' = [principal EXCEPT !.paso = "crear", !.operacion = OperacionDe(c),
                                        !.id_mensaje = IdDe(c)]
      /\ conexion' = [conexion EXCEPT ![k] = y] /\ conexion'[k] = y
  BY <1>2, <1>4 DEF RecibirOperacion, Entrante, EsPaquete, Invariante, Tipos
<1>6. /\ y \in Cable /\ y.cliente = x.cliente /\ y.broker = x.broker /\ y.aCliente = x.aCliente
      /\ y.aBroker = CargaDe(c)
  BY <1>2, <1>4, DeLecturas DEF EsPaquete
<1> HIDE DEF y
<1>7. /\ principal' \in Principal /\ principal'.con = k /\ principal'.paso = "crear"
      /\ principal'.id_proceso = principal.id_proceso /\ principal'.operacion = OperacionDe(c)
      /\ principal'.id_mensaje = IdDe(c)
  BY <1>4, <1>5 DEF Invariante, Tipos, Principal
<1>8. hilo' = [hilo EXCEPT ![k] = h] /\ hilo'[k] = SinHilo
  BY <1>1, <1>2 DEF Invariante, Tipos
<1>9. ~EnCola(k)' /\ EnPrincipal(k)' /\ Lugar(k)' = "crear"
  BY <1>1, <1>2, <1>7 DEF EnCola, EnPrincipal, Lugar
<1>10. EnUnLugar(k)' /\ Paso(k)' = Paso(k)
  BY <1>1, <1>2, <1>8, <1>9, EnUnLugarDespues
<1>11. DatosFieles(k)'
  <2>1. principal.id_proceso = perfil[c].id_proceso
    BY <1>1, <1>2 DEF DatosFieles
  <2>2. Estructura' = Datos(k)
    BY <1>7, <2>1 DEF Estructura, Datos
  <2> QED BY <1>1, <1>7, <1>8, <2>1, <2>2, MismoEscenario DEF DatosFieles, SinHilo
<1>12. EnCamino(k)'
  BY <1>1, <1>3, <1>5, <1>6, <1>9, <1>10, MismoEscenario DEF EnCamino, SinResponder
<1>13. /\ estructura_suscriptor' \in Llenada /\ estructura_mensaje' \in Llenada
       /\ aceptar' \in Seq(Conexion) /\ SinRepetidos(aceptar')
  BY <1>1 DEF Invariante, Tipos, Ordenado
<1> HIDE DEF h, x
<1> QED BY <1>1, <1>2, <1>5, <1>6, <1>7, <1>8, <1>10, <1>11, <1>12, <1>13, PasoDeMain DEF Bien

\* A recv fails only on a connection that its client has closed.
LEMMA AlFallar ==
  ASSUME Invariante, NEW k, principal.con = k, FalloAlRecibir
  PROVE  Invariante'
<1> DEFINE h == hilo[k]  x == conexion[k]
<1>1. /\ principal.paso \in {"handshake", "operacion"} /\ ~x.cliente /\ principal' = EnAccept
      /\ UNCHANGED <<escenario, cliente, recibido, recibieron, list_mensajes, list_suscriptores>>
      /\ UNCHANGED <<aceptar, hilo, conexion, mutex_list_suscriptores, estructura_suscriptor,
                     mutex_estructura_mensajes, estructura_mensaje>>
  BY DEF FalloAlRecibir, EnMain, clienteVars, Colgado
<1>2. /\ k \in Conexion /\ x \in Cable /\ EnCamino(k)
      /\ h = SinHilo /\ h \in Hilo /\ ~EnCola(k)
      /\ k[2] <= cliente[k[1]].intento
  BY <1>1, EnManosDeMain
<1>3. Paso(k) = "no"
  BY <1>1, <1>2 DEF EnCamino
<1>4. principal' \in Principal /\ principal'.paso = "accept"
  BY <1>1 DEF Principal, EnAccept, op_code
<1>5. hilo' = [hilo EXCEPT ![k] = h] /\ hilo'[k] = SinHilo
  BY <1>1, <1>2 DEF Invariante, Tipos
<1>6. conexion' = [conexion EXCEPT ![k] = x] /\ conexion'[k] = x
  BY <1>1, <1>2 DEF Invariante, Tipos
<1>7. ~EnCola(k)' /\ ~EnPrincipal(k)' /\ Lugar(k)' = "no"
  BY <1>1, <1>2, <1>4, <1>5 DEF EnCola, EnPrincipal, Lugar, SinHilo
<1>8. EnUnLugar(k)' /\ Paso(k)' = Paso(k)
  BY <1>1, <1>2, <1>5, <1>7, EnUnLugarDespues
<1>9. DatosFieles(k)'
  BY <1>5, <1>7 DEF DatosFieles, SinHilo
<1>10. EnCamino(k)'
  BY <1>1, <1>3, <1>6, <1>7, <1>8 DEF EnCamino, Suelta
<1>11. /\ estructura_suscriptor' \in Llenada /\ estructura_mensaje' \in Llenada
       /\ aceptar' \in Seq(Conexion) /\ SinRepetidos(aceptar')
  BY <1>1 DEF Invariante, Tipos, Ordenado
<1> HIDE DEF h, x
<1> QED BY <1>1, <1>2, <1>4, <1>5, <1>6, <1>8, <1>9, <1>10, <1>11, PasoDeMain DEF Bien

\* A thread of a queue gets a subscriber's connection, one of a message a publisher's, with
\* what was read from it.
LEMMA AlCrearHiloSuscripcion ==
  ASSUME Invariante, NEW k, principal.con = k, CrearHiloSuscripcion
  PROVE  Invariante'
<1> DEFINE c == k[1]  h == [SinHilo EXCEPT !.paso = "suscribir"]  x == conexion[k]
<1>1. /\ principal.paso = "crear" /\ EsSuscripcion(principal.operacion) /\ principal' = EnAccept
      /\ ~mutex_list_suscriptores /\ mutex_list_suscriptores'
      /\ estructura_suscriptor' = Estructura /\ hilo' = [hilo EXCEPT ![k].paso = "suscribir"]
      /\ UNCHANGED <<escenario, cliente, recibido, recibieron, list_mensajes, list_suscriptores>>
      /\ UNCHANGED <<aceptar, conexion, mutex_estructura_mensajes, estructura_mensaje>>
  BY DEF CrearHiloSuscripcion, EnMain, clienteVars
<1>2. /\ k \in Conexion /\ c \in Cliente /\ x \in Cable /\ DatosFieles(k) /\ EnCamino(k)
      /\ Lugar(k) = "crear" /\ hilo[k] = SinHilo /\ ~EnCola(k) /\ EnPrincipal(k)
      /\ k[2] <= cliente[c].intento /\ escenario \in Escenarios /\ k \in ConexionPosible
  BY <1>1, EnManosDeMain
<1>3. Estructura = Datos(k)
  BY <1>1, <1>2 DEF DatosFieles
<1>4. c \notin Publicadores /\ Datos(k) \in Llenada /\ CargaDe(c) = <<>>
  <2>1. principal.operacion = OperacionDe(c)
    BY <1>3 DEF Estructura, Datos
  <2>2. c \notin Publicadores
    BY <1>1, <1>2, <2>1, DeSuPedido
  <2>3. Datos(k) \in Llenada
    BY <1>2, DeSuPedido, DeCliente DEF Datos, Llenada
  <2> QED BY <2>2, <2>3 DEF CargaDe
<1>5. principal' \in Principal /\ principal'.paso = "accept"
  BY <1>1 DEF Principal, EnAccept, op_code
<1>6. hilo' = [hilo EXCEPT ![k] = h] /\ hilo'[k] = h /\ h \in Hilo /\ h.paso = "suscribir"
  BY <1>1, <1>2 DEF Invariante, Tipos, Hilo, SinHilo, op_code
<1>7. conexion' = [conexion EXCEPT ![k] = x] /\ conexion'[k] = x
  BY <1>1, <1>2 DEF Invariante, Tipos
<1>8. ~EnCola(k)' /\ ~EnPrincipal(k)' /\ Lugar(k)' = "suscribir"
  BY <1>1, <1>2, <1>5, <1>6 DEF EnCola, EnPrincipal, Lugar
<1>9. EnUnLugar(k)' /\ Paso(k)' = Paso(k)
  BY <1>1, <1>2, <1>8, EnUnLugarDespues
<1>10. DatosFieles(k)'
  BY <1>1, <1>3, <1>4, <1>6, <1>8, MismoEscenario DEF DatosFieles, SinHilo
<1>11. EnCamino(k)'
  BY <1>1, <1>2, <1>4, <1>7, <1>8, <1>9, MismoEscenario DEF EnCamino, SinResponder
<1>12. /\ estructura_suscriptor' \in Llenada /\ estructura_mensaje' \in Llenada
       /\ aceptar' \in Seq(Conexion) /\ SinRepetidos(aceptar')
  BY <1>1, <1>3, <1>4 DEF Invariante, Tipos, Ordenado
<1> HIDE DEF h, x
<1> QED BY <1>1, <1>2, <1>5, <1>6, <1>7, <1>8, <1>9, <1>10, <1>11, <1>12, PasoDeMain DEF Bien

LEMMA AlCrearHiloMensaje ==
  ASSUME Invariante, NEW k, principal.con = k, CrearHiloMensaje
  PROVE  Invariante'
<1> DEFINE c == k[1]  h == [SinHilo EXCEPT !.paso = "mensaje"]  x == conexion[k]
<1>1. /\ principal.paso = "crear" /\ principal.operacion \in DOMAIN suscripcion
      /\ principal' = EnAccept
      /\ ~mutex_estructura_mensajes /\ mutex_estructura_mensajes'
      /\ estructura_mensaje' = Estructura /\ hilo' = [hilo EXCEPT ![k].paso = "mensaje"]
      /\ UNCHANGED <<escenario, cliente, recibido, recibieron, list_mensajes, list_suscriptores>>
      /\ UNCHANGED <<aceptar, conexion, mutex_list_suscriptores, estructura_suscriptor>>
  BY DEF CrearHiloMensaje, EnMain, clienteVars
<1>2. /\ k \in Conexion /\ c \in Cliente /\ x \in Cable /\ DatosFieles(k) /\ EnCamino(k)
      /\ Lugar(k) = "crear" /\ hilo[k] = SinHilo /\ ~EnCola(k) /\ EnPrincipal(k)
      /\ k[2] <= cliente[c].intento /\ escenario \in Escenarios /\ k \in ConexionPosible
  BY <1>1, EnManosDeMain
<1>3. Estructura = Datos(k)
  BY <1>1, <1>2 DEF DatosFieles
<1>4. c \in Publicadores /\ Datos(k) \in Llenada
  <2>1. principal.operacion = OperacionDe(c)
    BY <1>3 DEF Estructura, Datos
  <2>2. c \in Publicadores
    BY <1>1, <1>2, <2>1, DeSuPedido
  <2>3. Datos(k) \in Llenada
    BY <1>2, DeSuPedido, DeCliente DEF Datos, Llenada
  <2> QED BY <2>2, <2>3
<1>5. principal' \in Principal /\ principal'.paso = "accept"
  BY <1>1 DEF Principal, EnAccept, op_code
<1>6. hilo' = [hilo EXCEPT ![k] = h] /\ hilo'[k] = h /\ h \in Hilo /\ h.paso = "mensaje"
  BY <1>1, <1>2 DEF Invariante, Tipos, Hilo, SinHilo, op_code
<1>7. conexion' = [conexion EXCEPT ![k] = x] /\ conexion'[k] = x
  BY <1>1, <1>2 DEF Invariante, Tipos
<1>8. ~EnCola(k)' /\ ~EnPrincipal(k)' /\ Lugar(k)' = "mensaje"
  BY <1>1, <1>2, <1>5, <1>6 DEF EnCola, EnPrincipal, Lugar
<1>9. EnUnLugar(k)' /\ Paso(k)' = Paso(k)
  BY <1>1, <1>2, <1>8, EnUnLugarDespues
<1>10. DatosFieles(k)'
  BY <1>1, <1>3, <1>4, <1>6, <1>8, MismoEscenario DEF DatosFieles, SinHilo
<1>11. EnCamino(k)'
  BY <1>1, <1>2, <1>4, <1>7, <1>8, <1>9, MismoEscenario DEF EnCamino, SinResponder
<1>12. /\ estructura_suscriptor' \in Llenada /\ estructura_mensaje' \in Llenada
       /\ aceptar' \in Seq(Conexion) /\ SinRepetidos(aceptar')
  BY <1>1, <1>3, <1>4 DEF Invariante, Tipos, Ordenado
<1> HIDE DEF h, x
<1> QED BY <1>1, <1>2, <1>5, <1>6, <1>7, <1>8, <1>9, <1>10, <1>11, <1>12, PasoDeMain DEF Bien

LEMMA AlPasoDeMain ==
  ASSUME Invariante, main
  PROVE  Invariante'
<1>1. CASE recibir_cliente
  <2>1. PICK k : k = Head(aceptar)
    OBVIOUS
  <2> QED BY <1>1, <2>1, AlAceptar
<1>2. CASE ~recibir_cliente
  <2>1. PICK k : principal.con = k
    OBVIOUS
  <2> QED BY <1>2, <2>1, AlRecibirHandshake, AlRecibirOperacion, AlFallar, AlCrearHiloSuscripcion,
             AlCrearHiloMensaje DEF main
<1> QED BY <1>1, <1>2

-----------------------------------------------------------------------------
(* Crashes and restarts of the Broker *)

\* Nothing moves on a connection: the Broker starts again, or a client that is on none.
LEMMA SinCambios ==
  ASSUME Invariante,
         UNCHANGED <<escenario, aceptar, principal, mutex_list_suscriptores, estructura_suscriptor,
                     mutex_estructura_mensajes, estructura_mensaje, hilo, list_suscriptores,
                     list_mensajes, recibieron, conexion, recibido>>,
         \A k \in Conexion : Paso(k)' = Paso(k),
         \A c \in Cliente : cliente'[c].intento = cliente[c].intento,
         Tipos', Ordenado'
  PROVE  Invariante'
<1>1. ASSUME NEW k \in Conexion PROVE Bien(k)'
  <2>1. k[1] \in Cliente
    BY ConexionEsPosible DEF Invariante, Tipos
  <2>2. Igual(k) /\ Crecen /\ Bien(k)
    BY <2>1 DEF Igual, Crecen, EnCola, EnPrincipal, Invariante, Bien, DatosFieles
  <2> QED BY <2>2, Intacta
<1>2. Listas'
  BY MismasListas
<1> QED BY <1>1, <1>2, MismoEscenario DEF Invariante

LEMMA Lugares ==
  ASSUME Invariante, NEW k \in Conexion
  PROVE  /\ Lugar(k) \in {"cola", "handshake", "operacion", "crear", "no", "suscribir", "ack",
                          "atender", "espera", "mensaje", "recibir", "responder", "fin"}
         /\ Lugar(k) \in {"atender", "espera"} => hilo[k].paso = Lugar(k)
<1>1. principal.paso \in {"accept", "handshake", "operacion", "crear"}
  BY DEF Invariante, Tipos, Principal
<1>2. hilo[k].paso \in {"no", "suscribir", "ack", "atender", "espera", "mensaje", "recibir",
                        "responder", "fin"}
  BY DEF Invariante, Tipos, Hilo
<1> QED BY <1>1, <1>2 DEF Lugar, EnPrincipal

\* What a thread has sent is a message of the queue of its subscriber.
LEMMA DeLaEspera ==
  ASSUME Invariante, NEW k \in Conexion, Lugar(k) = "espera"
  PROVE  LET m == hilo[k].mensaje
         IN  /\ k[1] \notin Publicadores /\ hilo[k].con = k
             /\ \E p \in DeSuCola(k[1]) :
                  /\ Publicado(m, p)
                  /\ EnviarMensaje(m.mensaje, m.id_mensaje_correlativo) = Entrega(p)
<1> DEFINE m == hilo[k].mensaje
<1>1. hilo[k].paso = "espera" /\ DatosFieles(k)
  BY Lugares DEF Invariante, Bien
<1>2. /\ k[1] \notin Publicadores /\ m \in list_mensajes /\ hilo[k].con = k
      /\ suscripcion[m.operacion] = perfil[k[1]].operacion
  BY <1>1 DEF DatosFieles
<1>3. PICK p \in Publicadores : Publicado(m, p)
  BY <1>2 DEF Invariante, Listas
<1> HIDE DEF m
<1>4. p \in DeSuCola(k[1])
  BY <1>2, <1>3 DEF Publicado, DeSuCola
<1>5. EnviarMensaje(m.mensaje, m.id_mensaje_correlativo) = Entrega(p)
  BY <1>3 DEF Publicado, Entrega
<1> QED BY <1>2, <1>3, <1>4, <1>5 DEF m

\* Wherever the Broker has a connection, what is left of it when it dies is what the client
\* has still to read.
LEMMA AlSoltar ==
  ASSUME Invariante, NEW k \in Conexion
  PROVE  Suelta(k[1], Paso(k), CierraBroker(conexion[k]))
<1> DEFINE c == k[1]  p == Paso(k)  x == conexion[k]  y == CierraBroker(x)
<1>1. EnCamino(k) /\ x \in Cable /\ DatosFieles(k) /\ Suelta(c, "no", y)
  BY DEF Invariante, Bien, Tipos, Suelta
<1>2. CASE p = "no"
  BY <1>2 DEF Suelta
<1>3. CASE p # "no"
  <2>1. x.cliente
    BY <1>1, <1>3 DEF EnCamino
  <2>2. y.broker = FALSE /\ y.aCliente = x.aCliente
    BY <1>1, <2>1, DeCierres
  <2> SUFFICES Suelta(c, p, y)
    OBVIOUS
  <2> HIDE DEF y
  <2>3. CASE Lugar(k) \in {"cola", "handshake"}
    BY <1>1, <1>3, <2>2, <2>3 DEF EnCamino, PorSaludar, Suelta
  <2>4. CASE Lugar(k) = "operacion"
    BY <1>1, <1>3, <2>2, <2>4 DEF EnCamino, PorPedir, Suelta
  <2>5. CASE Lugar(k) \in {"crear", "mensaje", "recibir", "suscribir", "ack", "responder"}
    BY <1>1, <1>3, <2>2, <2>5 DEF EnCamino, SinResponder, Suelta
  <2>6. CASE Lugar(k) = "atender"
    <3>1. c \notin Publicadores
      BY <1>1, <2>6, Lugares DEF DatosFieles
    <3> QED BY <1>1, <1>3, <2>2, <2>6, <3>1 DEF EnCamino, Atendida, Suelta
  <2>7. CASE Lugar(k) = "espera"
    <3> DEFINE m == hilo[k].mensaje  envio == EnviarMensaje(m.mensaje, m.id_mensaje_correlativo)
    <3>1. c \notin Publicadores /\ \E e \in DeSuCola(c) : envio = Entrega(e)
      BY <2>7, DeLaEspera
    <3>2. EnEspera(c, p, x, m)
      BY <1>1, <2>7 DEF EnCamino
    <3>3. \/ p = "ack_pedido" /\ x.aCliente = Confirmacion \o envio
          \/ p = "escuchar" /\ (x.aCliente = envio \/ x.aCliente = <<>>)
      BY <1>3, <3>2 DEF EnEspera
    <3> HIDE DEF envio, p, x
    <3> QED BY <2>2, <3>1, <3>3 DEF Suelta
  <2>8. CASE Lugar(k) \in {"no", "fin"}
    BY <1>1, <1>3, <2>2, <2>8 DEF EnCamino, Suelta
  <2> QED BY <2>3, <2>4, <2>5, <2>6, <2>7, <2>8, Lugares
<1> QED BY <1>2, <1>3

LEMMA AlMorir ==
  ASSUME Invariante, Muere
  PROVE  Invariante'
<1>1. /\ aceptar' = <<>> /\ principal' = EnAccept /\ list_suscriptores' = {}
      /\ list_mensajes' = {} /\ recibieron' = {}
      /\ estructura_suscriptor' = SinLlenar /\ estructura_mensaje' = SinLlenar
      /\ hilo' = [k \in Conexion |-> SinHilo]
      /\ conexion' = [k \in Conexion |-> CierraBroker(conexion[k])]
      /\ UNCHANGED <<escenario, cliente, recibido>>
  BY DEF Muere, clienteVars
<1>2. /\ SinHilo \in Hilo /\ SinLlenar \in Llenada /\ EnAccept \in Principal
      /\ EnAccept.paso = "accept" /\ SinHilo.paso = "no" /\ SinHilo = [SinHilo EXCEPT !.paso = "no"]
  BY DEF SinHilo, Hilo, SinLlenar, Llenada, EnAccept, Principal, op_code
<1>3. \A k \in Conexion : CierraBroker(conexion[k]) \in Cable
  BY DeCierres DEF Invariante, Tipos
<1>4. <<>> \in Seq(Conexion) /\ ToSet(<<>>) = {} /\ SinRepetidos(<<>>)
  BY EmptySeq DEF ToSet, SinRepetidos
<1>5. Tipos'
  BY <1>1, <1>2, <1>3, <1>4, MismoEscenario DEF Invariante, Tipos
<1>6. Ordenado'
  BY <1>1, <1>2, <1>4, MismoEscenario DEF Invariante, Ordenado, Mia
<1>7. Listas'
  BY <1>1, MismoEscenario DEF Invariante, Listas
<1>8. ASSUME NEW k \in Conexion PROVE Bien(k)'
  <2> DEFINE x == conexion[k]  y == CierraBroker(x)
  <2>1. hilo'[k] = SinHilo /\ conexion'[k] = y /\ x \in Cable /\ EnCamino(k)
    BY <1>1 DEF Invariante, Tipos, Bien
  <2>2. ~EnCola(k)' /\ ~EnPrincipal(k)' /\ Lugar(k)' = "no" /\ Paso(k)' = Paso(k)
    BY <1>1, <1>2, <1>4, <2>1 DEF EnCola, EnPrincipal, Lugar, Paso
  <2>3. EnUnLugar(k)' /\ DatosFieles(k)'
    BY <1>2, <2>1, <2>2 DEF EnUnLugar, DatosFieles
  <2>4. y.cliente <=> Paso(k) # "no"
    BY <2>1, DeCierres DEF EnCamino
  <2>5. Suelta(k[1], Paso(k), y)
    BY AlSoltar
  <2> HIDE DEF y
  <2>6. EnCamino(k)'
    <3>1. Confirmacion' = Confirmacion
      BY DEF Confirmacion
    <3> QED BY <1>1, <2>1, <2>2, <2>4, <2>5, <3>1, MismoEscenario DEF EnCamino, Suelta
  <2> QED BY <2>3, <2>6 DEF Bien
<1> QED BY <1>5, <1>6, <1>7, <1>8, <1>1, MismoEscenario DEF Invariante

LEMMA AlReiniciar ==
  ASSUME Invariante, Reiniciar
  PROVE  Invariante'
<1>1. UNCHANGED <<escenario, aceptar, principal, mutex_list_suscriptores, estructura_suscriptor,
                  mutex_estructura_mensajes, estructura_mensaje, hilo, list_suscriptores,
                  list_mensajes, recibieron, conexion, recibido>> /\ cliente' = cliente
  BY DEF Reiniciar, clienteVars
<1>2. Tipos' /\ Ordenado'
  BY <1>1, MismoEscenario DEF Tipos, Ordenado, Invariante, Mia
<1>3. \A k \in Conexion : Paso(k)' = Paso(k)
  BY <1>1 DEF Paso
<1> QED BY <1>1, <1>2, <1>3, SinCambios

-----------------------------------------------------------------------------
(* The clients *)

ConPaso(c, z) == cliente' = [cliente EXCEPT ![c].paso = z]

LEMMA DelCliente ==
  ASSUME Invariante, NEW c \in Cliente, NEW k, k = Mia(c),
         cliente[c].paso \notin {"conectar", "fin"}
  PROVE  /\ k \in Conexion /\ k[1] = c /\ k[2] = cliente[c].intento
         /\ conexion[k] \in Cable /\ conexion[k].cliente
         /\ Paso(k) = cliente[c].paso /\ Paso(k) # "no" /\ EnCamino(k) /\ DatosFieles(k)
         /\ escenario \in Escenarios
<1>1. k \in Conexion /\ k[1] = c /\ k[2] = cliente[c].intento
  BY DEF Invariante, Ordenado, Mia
<1>2. Paso(k) = cliente[c].paso /\ Paso(k) # "no"
  BY <1>1 DEF Paso, Invariante, Tipos
<1>3. conexion[k] \in Cable /\ EnCamino(k) /\ DatosFieles(k) /\ escenario \in Escenarios
  BY <1>1 DEF Invariante, Tipos, Bien
<1>4. conexion[k].cliente
  BY <1>2, <1>3 DEF EnCamino
<1> QED BY <1>1, <1>2, <1>3, <1>4

\* A client takes a step: where the Broker has its connection does not change.
LEMMA PasoDespues ==
  ASSUME Invariante, NEW c \in Cliente, NEW k \in Conexion, k = Mia(c), NEW z, ConPaso(c, z),
         UNCHANGED <<escenario, brokerVars>>
  PROVE  Paso(k)' = (IF z \in {"conectar", "fin"} THEN "no" ELSE z) /\ Lugar(k)' = Lugar(k)
<1>1. k[1] = c /\ k[2] = cliente[c].intento
  BY DEF Mia
<1>2. cliente'[c].paso = z /\ cliente'[c].intento = cliente[c].intento
  BY DEF ConPaso, Invariante, Tipos
<1>3. Lugar(k)' = Lugar(k)
  BY DEF Lugar, EnCola, EnPrincipal, brokerVars
<1> QED BY <1>1, <1>2, <1>3 DEF Paso

LEMMA PasoDeCliente ==
  ASSUME Invariante, NEW c \in Cliente, NEW k0, k0 = Mia(c), NEW y \in Cable,
         NEW z \in {"conectar", "ack_handshake", "ack_pedido", "escuchar", "fin"},
         cliente[c].paso \notin {"conectar", "fin"},
         UNCHANGED <<escenario, brokerVars>>, recibido \subseteq recibido',
         conexion' = [conexion EXCEPT ![k0] = y], ConPaso(c, z), EnCamino(k0)', Listas'
  PROVE  Invariante'
<1>1. k0 \in Conexion /\ k0[1] = c /\ k0[2] = cliente[c].intento
  BY DelCliente
<1>2. /\ UNCHANGED <<aceptar, principal, mutex_list_suscriptores, estructura_suscriptor>>
      /\ UNCHANGED <<mutex_estructura_mensajes, estructura_mensaje, hilo>>
      /\ UNCHANGED <<list_suscriptores, list_mensajes, recibieron>>
  BY DEF brokerVars
<1>3. \A d \in Cliente : /\ cliente'[d].intento = cliente[d].intento
                         /\ d # c => cliente'[d] = cliente[d]
  BY DEF ConPaso, Invariante, Tipos
<1>4. Crecen
  BY <1>2 DEF Crecen
<1>5. EnUnLugar(k0)' /\ DatosFieles(k0)'
  <2>1. EnUnLugar(k0) /\ DatosFieles(k0)
    BY <1>1 DEF Invariante, Bien
  <2>2. (EnCola(k0)' <=> EnCola(k0)) /\ (EnPrincipal(k0)' <=> EnPrincipal(k0))
    BY <1>2 DEF EnCola, EnPrincipal
  <2>3. EnUnLugar(k0)'
    BY <1>1, <1>2, <1>3, <2>1, <2>2 DEF EnUnLugar
  <2> QED BY <1>2, <2>1, <2>2, <2>3, MismoEscenario DEF DatosFieles, Estructura
<1>6. ASSUME NEW k \in Conexion, k # k0 PROVE Igual(k)
  <2>1. k[1] \in Cliente /\ k = <<k[1], k[2]>>
    BY ConexionEsPosible DEF Invariante, Tipos
  <2>2. k[1] = c => k[2] # cliente[c].intento
    BY <1>6, <2>1 DEF Mia
  <2>3. Paso(k)' = Paso(k)
    BY <1>3, <2>1, <2>2 DEF Paso
  <2>4. conexion'[k] = conexion[k]
    BY <1>6 DEF Invariante, Tipos
  <2>5. DatosFieles(k)
    BY DEF Invariante, Bien
  <2> QED BY <1>2, <1>3, <2>1, <2>3, <2>4, <2>5 DEF Igual, EnCola, EnPrincipal, DatosFieles
<1>7. Tipos'
  BY <1>1, <1>2, MismoEscenario DEF Invariante, Tipos, ConPaso
<1>8. Ordenado'
  BY <1>1, <1>2, <1>3, MismoEscenario DEF Invariante, Ordenado, Mia
<1> QED BY <1>1, <1>4, <1>5, <1>6, <1>7, <1>8, Reunir DEF Bien

\* A client closes its connection, or its process dies: what it sent can still be read.
LEMMA AlCerrar ==
  ASSUME Invariante, NEW k \in Conexion, Paso(k)' = "no", Lugar(k)' = Lugar(k),
         conexion'[k] = IF Paso(k) = "no" THEN conexion[k] ELSE CierraCliente(conexion[k]),
         UNCHANGED <<escenario, hilo, recibido>>
  PROVE  EnCamino(k)'
<1> DEFINE c == k[1]  x == conexion[k]  y == CierraCliente(x)
<1>1. EnCamino(k) /\ x \in Cable
  BY DEF Invariante, Bien, Tipos
<1>2. /\ y.cliente = FALSE /\ y.broker = x.broker
      /\ x.broker => y.aBroker = x.aBroker
  BY <1>1, DeCierres
<1>3. Confirmacion' = Confirmacion /\ Saludo(c)' = Saludo(c) /\ Pedido(c)' = Pedido(c)
      /\ CargaDe(c)' = CargaDe(c)
  BY MismoEscenario DEF Confirmacion
<1> HIDE DEF y
<1>4. CASE Paso(k) = "no"
  BY <1>1, <1>3, <1>4 DEF EnCamino, PorSaludar, PorPedir, SinResponder, Atendida, EnEspera, Suelta
<1>5. CASE Paso(k) # "no"
  <2>1. conexion'[k] = y
    BY <1>5 DEF y
  <2> QED BY <1>1, <1>2, <1>3, <1>5, <2>1
          DEF EnCamino, PorSaludar, PorPedir, SinResponder, Atendida, EnEspera, Suelta
<1> QED BY <1>4, <1>5

LEMMA AlCerrarUno ==
  ASSUME Invariante, NEW c \in Cliente, NEW k, k = Mia(c),
         cliente[c].paso \notin {"conectar", "fin"},
         UNCHANGED <<escenario, brokerVars, recibido>>, NEW z \in {"conectar", "fin"}, ConPaso(c, z),
         conexion' = [conexion EXCEPT ![k] = CierraCliente(@)]
  PROVE  Invariante'
<1> DEFINE y == CierraCliente(conexion[k])
<1>1. k \in Conexion /\ Paso(k) # "no" /\ conexion[k] \in Cable
  BY DelCliente
<1>2. y \in Cable
  BY <1>1, DeCierres
<1>3. Paso(k)' = "no" /\ Lugar(k)' = Lugar(k)
  BY <1>1, PasoDespues
<1>4. conexion' = [conexion EXCEPT ![k] = y] /\ conexion'[k] = y /\ UNCHANGED hilo
  BY <1>1 DEF Invariante, Tipos, brokerVars
<1>5. EnCamino(k)'
  BY <1>1, <1>3, <1>4, AlCerrar
<1>6. Listas'
  BY MismasListas DEF brokerVars
<1> HIDE DEF y
<1>7. /\ recibido \subseteq recibido' /\ UNCHANGED <<escenario, brokerVars>>
      /\ z \in {"conectar", "ack_handshake", "ack_pedido", "escuchar", "fin"}
  OBVIOUS
<1>8. CASE z = "conectar"
  BY <1>2, <1>4, <1>5, <1>6, <1>7, <1>8, PasoDeCliente
<1>9. CASE z = "fin"
  BY <1>2, <1>4, <1>5, <1>6, <1>7, <1>9, PasoDeCliente
<1> QED BY <1>8, <1>9

\* A connection is new for the Broker and for main when its client opens it.
LEMMA AlConectar ==
  ASSUME Invariante, NEW c \in Cliente, crear_conexion(c)
  PROVE  Invariante'
<1> DEFINE i == cliente[c].intento
<1>1. PICK k : k = <<c, i + 1>>
  OBVIOUS
<1>2. /\ cliente[c].paso = "conectar" /\ i < escenario.conexiones
      /\ conexion' = [conexion EXCEPT ![k] = Abierta] /\ aceptar' = Append(aceptar, k)
      /\ cliente' = [cliente EXCEPT ![c].paso = "handshake", ![c].intento = @ + 1]
      /\ UNCHANGED <<escenario, principal, mutex_list_suscriptores, estructura_suscriptor>>
      /\ UNCHANGED <<mutex_estructura_mensajes, estructura_mensaje, hilo>>
      /\ UNCHANGED <<list_suscriptores, list_mensajes, recibieron, recibido>>
  BY <1>1 DEF crear_conexion, EnCliente
<1>3. i \in Nat /\ escenario \in Escenarios
  BY DEF Invariante, Tipos
<1>4. escenario.conexiones \in Nat
  BY <1>3, EscenariosValidos
<1>5. k[1] = c /\ k[2] = i + 1 /\ k \in Conexion
  BY <1>1, <1>2, <1>3, <1>4 DEF Conexion
<1>6. /\ ~EnCola(k) /\ ~EnPrincipal(k) /\ hilo[k] = SinHilo
  BY <1>3, <1>5 DEF Invariante, Bien, EnUnLugar
<1>7. /\ aceptar' \in Seq(Conexion) /\ SinRepetidos(aceptar')
      /\ ToSet(aceptar') = ToSet(aceptar) \cup {k}
  BY <1>2, <1>5, <1>6, EntrarALaCola DEF Invariante, Tipos, Ordenado, EnCola
<1>8. /\ \A d \in Cliente : d # c => cliente'[d] = cliente[d]
      /\ cliente'[c].intento = i + 1 /\ cliente'[c].paso = "handshake"
  BY <1>2 DEF Invariante, Tipos
<1>9. Abierta \in Cable /\ Abierta.cliente /\ Abierta.broker /\ Abierta.aBroker = <<>>
      /\ Abierta.aCliente = <<>>
  BY Vacio DEF Abierta, SinUsar, Cable
<1>10. conexion'[k] = Abierta /\ hilo'[k] = SinHilo
  BY <1>2, <1>5, <1>6 DEF Invariante, Tipos
<1>11. EnCola(k)' /\ ~EnPrincipal(k)' /\ Lugar(k)' = "cola" /\ Paso(k)' = "handshake"
  BY <1>2, <1>5, <1>6, <1>7, <1>8 DEF EnCola, EnPrincipal, Lugar, Paso
<1>12. Bien(k)'
  <2>1. EnUnLugar(k)'
    BY <1>3, <1>5, <1>8, <1>10, <1>11 DEF EnUnLugar
  <2>2. DatosFieles(k)'
    BY <1>10, <1>11 DEF DatosFieles, SinHilo
  <2>3. EnCamino(k)'
    BY <1>9, <1>10, <1>11 DEF EnCamino, PorSaludar
  <2> QED BY <2>1, <2>2, <2>3 DEF Bien
<1>13. ASSUME NEW j \in Conexion, j # k PROVE Igual(j)
  <2>1. j[1] \in Cliente /\ j = <<j[1], j[2]>> /\ j[2] \in Nat
    BY <1>3, ConexionEsPosible
  <2>2. j[1] = c => j[2] # i + 1
    BY <1>1, <1>13, <2>1
  <2>3. Paso(j)' = Paso(j)
    <3>1. CASE j[1] # c
      BY <1>8, <2>1, <3>1 DEF Paso
    <3>2. CASE j[1] = c
      <4>1. Paso(j) = "no"
        BY <1>2, <3>2 DEF Paso
      <4>2. Paso(j)' = "no"
        BY <1>8, <2>2, <3>2 DEF Paso
      <4> QED BY <4>1, <4>2
    <3> QED BY <3>1, <3>2
  <2>4. conexion'[j] = conexion[j] /\ DatosFieles(j)
    BY <1>2, <1>13 DEF Invariante, Tipos, Bien
  <2>5. j[2] > cliente'[j[1]].intento => j[2] > cliente[j[1]].intento
    BY <1>3, <1>8, <2>1
  <2>6. (EnCola(j)' <=> EnCola(j)) /\ (EnPrincipal(j)' <=> EnPrincipal(j))
    BY <1>2, <1>7, <1>13 DEF EnCola, EnPrincipal
  <2> QED BY <1>2, <2>3, <2>4, <2>5, <2>6 DEF Igual, DatosFieles
<1>14. Crecen /\ Listas'
  BY <1>2, MismasListas DEF Crecen
<1>15. Tipos'
  <2>1. cliente'[c] = [cliente[c] EXCEPT !.paso = "handshake", !.intento = i + 1]
    BY <1>2 DEF Invariante, Tipos
  <2> QED BY <1>2, <1>3, <1>7, <1>9, MismoEscenario DEF Invariante, Tipos
<1>16. Ordenado'
  <2>1. \A d \in Cliente : cliente'[d].paso \notin {"conectar", "fin"} => Mia(d)' \in Conexion
    BY <1>1, <1>5, <1>8 DEF Invariante, Ordenado, Mia
  <2> QED BY <1>2, <1>7, <2>1, MismoEscenario DEF Invariante, Ordenado
<1> QED BY <1>2, <1>5, <1>12, <1>13, <1>14, <1>15, <1>16, Reunir

\* Without a Broker nothing of a connection changes.
LEMMA AlRendirse ==
  ASSUME Invariante, NEW c \in Cliente, SinBroker(c)
  PROVE  Invariante'
<1>1. /\ cliente[c].paso = "conectar" /\ cliente' = [cliente EXCEPT ![c].paso = "fin"]
      /\ UNCHANGED <<escenario, aceptar, principal, mutex_list_suscriptores, estructura_suscriptor,
                     mutex_estructura_mensajes, estructura_mensaje, hilo, list_suscriptores,
                     list_mensajes, recibieron, conexion, recibido>>
  BY DEF SinBroker, EnCliente, brokerVars
<1>2. \A d \in Cliente : /\ cliente'[d].intento = cliente[d].intento
                         /\ d # c => cliente'[d] = cliente[d]
  BY <1>1 DEF Invariante, Tipos
<1>3. cliente'[c].paso = "fin"
  BY <1>1 DEF Invariante, Tipos
<1>4. \A k \in Conexion : Paso(k)' = Paso(k)
  BY <1>1, <1>2, <1>3, ConexionEsPosible DEF Paso, Invariante, Tipos
<1>5. Tipos'
  BY <1>1, MismoEscenario DEF Invariante, Tipos
<1>6. Ordenado'
  BY <1>1, <1>2, <1>3, MismoEscenario DEF Invariante, Ordenado, Mia
<1> QED BY <1>1, <1>2, <1>4, <1>5, <1>6, SinCambios

LEMMA AlCronometrar ==
  ASSUME Invariante, NEW c \in Cliente, cronometrar(c)
  PROVE  Invariante'
<1>1. /\ cliente' = [cliente EXCEPT ![c].corriendo = FALSE]
      /\ UNCHANGED <<escenario, aceptar, principal, mutex_list_suscriptores, estructura_suscriptor,
                     mutex_estructura_mensajes, estructura_mensaje, hilo, list_suscriptores,
                     list_mensajes, recibieron, conexion, recibido>>
  BY DEF cronometrar, brokerVars
<1>2. \A d \in Cliente : /\ cliente'[d].intento = cliente[d].intento
                         /\ cliente'[d].paso = cliente[d].paso
  BY <1>1 DEF Invariante, Tipos
<1>3. \A k \in Conexion : Paso(k)' = Paso(k)
  BY <1>2, ConexionEsPosible DEF Paso, Invariante, Tipos
<1>4. Tipos'
  BY <1>1, MismoEscenario DEF Invariante, Tipos
<1>5. Ordenado'
  BY <1>1, <1>2, MismoEscenario DEF Invariante, Ordenado, Mia
<1> QED BY <1>1, <1>2, <1>3, <1>4, <1>5, SinCambios

LEMMA AlSaludar ==
  ASSUME Invariante, NEW c \in Cliente, NEW k, k = Mia(c), EnviarHandshake(c)
  PROVE  Invariante'
<1> DEFINE x == conexion[k]  y == AlBroker(x, Saludo(c))
<1>1. /\ cliente[c].paso = "handshake" /\ ConPaso(c, "ack_handshake")
      /\ conexion' = [conexion EXCEPT ![k] = y]
      /\ UNCHANGED <<escenario, brokerVars, recibido>>
  BY DEF EnviarHandshake, EnCliente, ConPaso, Saludo
<1>2. /\ k \in Conexion /\ k[1] = c /\ x \in Cable /\ x.cliente /\ Paso(k) = "handshake"
      /\ EnCamino(k) /\ escenario \in Escenarios
  BY <1>1, DelCliente
<1>3. Saludo(c) \in Flujo
  BY <1>2, DeSuPedido DEF EsPaquete
<1>4. /\ y \in Cable /\ y.cliente = x.cliente /\ y.broker = x.broker /\ y.aCliente = x.aCliente
      /\ y.aBroker = IF x.broker THEN x.aBroker \o Saludo(c) ELSE x.aBroker
  <2> HIDE DEF x
  <2>1. x \in Cable
    BY <1>2
  <2> QED BY <1>3, <2>1, DeSockets
<1>5. <<>> \o Saludo(c) = Saludo(c) /\ conexion'[k] = y
  BY <1>1, <1>2, <1>3, Vacio DEF Invariante, Tipos
<1>6. Paso(k)' = "ack_handshake" /\ Lugar(k)' = Lugar(k)
  BY <1>1, <1>2, PasoDespues
<1> HIDE DEF y
<1>7. EnCamino(k)'
  <2>1. Saludo(c)' = Saludo(c) /\ Confirmacion' = Confirmacion
    BY <1>1, MismoEscenario DEF Confirmacion
  <2> HIDE DEF x
  <2>2. /\ Lugar(k) \notin {"no", "fin"} => x.broker
        /\ Lugar(k) \in {"cola", "handshake"} => x.aBroker = <<>> /\ x.aCliente = <<>>
        /\ Lugar(k) \notin {"operacion", "crear", "mensaje", "recibir", "suscribir", "ack",
                            "responder", "atender", "espera"}
        /\ Lugar(k) \in {"no", "fin"} => ~x.broker /\ x.aCliente = <<>>
    BY <1>2 DEF EnCamino, PorSaludar, PorPedir, SinResponder, Atendida, EnEspera, Suelta, x
  <2> QED BY <1>2, <1>4, <1>5, <1>6, <2>1, <2>2 DEF EnCamino, PorSaludar, Suelta
<1>8. Listas' /\ recibido \subseteq recibido'
  BY <1>1, MismasListas DEF brokerVars
<1> HIDE DEF x
<1> QED BY <1>1, <1>4, <1>7, <1>8, PasoDeCliente

LEMMA AlPedir ==
  ASSUME Invariante, NEW c \in Cliente, NEW k, k = Mia(c), EnviarPedido(c)
  PROVE  Invariante'
<1> DEFINE x == conexion[k]  z == LeerDelBroker(x, ENCABEZADO)  y == AlBroker(z, Pedido(c))
<1>1. /\ cliente[c].paso = "ack_handshake" /\ ConPaso(c, "ack_pedido")
      /\ HayEncabezado(x.aCliente)
      /\ conexion' = [conexion EXCEPT ![k] = y]
      /\ UNCHANGED <<escenario, brokerVars, recibido>>
  BY DEF EnviarPedido, EnCliente, ConPaso, Saliente
<1>2. /\ k \in Conexion /\ k[1] = c /\ x \in Cable /\ x.cliente /\ Paso(k) = "ack_handshake"
      /\ EnCamino(k) /\ escenario \in Escenarios
  BY <1>1, DelCliente
<1>3. Pedido(c) \in Flujo /\ <<>> \o Pedido(c) = Pedido(c)
  BY <1>2, DeSuPedido, Vacio DEF EsPaquete
<1>4. /\ x.aCliente = Confirmacion
      /\ Lugar(k) \in {"operacion", "no", "fin"}
      /\ Lugar(k) = "operacion" => x.aBroker = <<>> /\ x.broker
      /\ Lugar(k) \in {"no", "fin"} => ~x.broker
  BY <1>1, <1>2, Vacio, Lugares
     DEF EnCamino, PorSaludar, PorPedir, SinResponder, Atendida, EnEspera, Suelta
<1>5. Resto(x.aCliente, ENCABEZADO) = <<>>
  BY <1>4, DeConfirmacion DEF EsPaquete, Confirmacion
<1>6. /\ z \in Cable /\ z.cliente = x.cliente /\ z.broker = x.broker /\ z.aBroker = x.aBroker
      /\ z.aCliente = <<>>
  BY <1>2, <1>5, DeLecturas, Vacio
<1> HIDE DEF z
<1>7. /\ y \in Cable /\ y.cliente = z.cliente /\ y.broker = z.broker /\ y.aCliente = z.aCliente
      /\ y.aBroker = IF z.broker THEN z.aBroker \o Pedido(c) ELSE z.aBroker
  BY <1>3, <1>6, DeSockets
<1>8. conexion'[k] = y
  BY <1>1, <1>2 DEF Invariante, Tipos
<1>9. Paso(k)' = "ack_pedido" /\ Lugar(k)' = Lugar(k)
  BY <1>1, <1>2, PasoDespues
<1> HIDE DEF x, y
<1>10. EnCamino(k)'
  <2>1. Pedido(c)' = Pedido(c)
    BY <1>1, MismoEscenario
  <2> QED BY <1>2, <1>3, <1>4, <1>6, <1>7, <1>8, <1>9, <2>1 DEF EnCamino, PorPedir, Suelta
<1>11. Listas' /\ recibido \subseteq recibido'
  BY <1>1, MismasListas DEF brokerVars
<1> QED BY <1>1, <1>7, <1>10, <1>11, PasoDeCliente

\* A subscriber that reads its ACK may have a message behind it already.
LEMMA AlSuscribirse ==
  ASSUME Invariante, NEW c \in Cliente, NEW k, k = Mia(c), RecibirRespuesta(c), c \notin Publicadores
  PROVE  Invariante'
<1> DEFINE x == conexion[k]  y == LeerDelBroker(x, ENCABEZADO)
           m == hilo[k].mensaje  envio == EnviarMensaje(m.mensaje, m.id_mensaje_correlativo)
<1>1. /\ cliente[c].paso = "ack_pedido" /\ ConPaso(c, "escuchar")
      /\ HayEncabezado(x.aCliente)
      /\ conexion' = [conexion EXCEPT ![k] = y]
      /\ UNCHANGED <<escenario, brokerVars, recibido>> /\ UNCHANGED hilo
  BY DEF RecibirRespuesta, EnCliente, ConPaso, Saliente, brokerVars
<1>2. /\ k \in Conexion /\ k[1] = c /\ x \in Cable /\ x.cliente /\ Paso(k) = "ack_pedido"
      /\ EnCamino(k) /\ escenario \in Escenarios
  BY <1>1, DelCliente
<1>3. /\ Lugar(k) \in {"atender", "espera", "no", "fin"}
      /\ Lugar(k) \in {"atender", "espera"} => x.aBroker = <<>> /\ x.broker
      /\ Lugar(k) = "atender" => x.aCliente = Confirmacion
      /\ Lugar(k) = "espera" => x.aCliente = Confirmacion \o envio
      /\ Lugar(k) \in {"no", "fin"} =>
           /\ ~x.broker
           /\ \/ x.aCliente = Confirmacion
              \/ \E e \in DeSuCola(c) : x.aCliente = Confirmacion \o Entrega(e)
  BY <1>1, <1>2, Vacio, Lugares
     DEF EnCamino, PorSaludar, PorPedir, SinResponder, Atendida, EnEspera, Suelta
<1>4. \A e \in DeSuCola(c) : Entrega(e) \in Flujo
  BY <1>2, DeEntrega DEF EsPaquete, DeSuCola
<1>5. Lugar(k) = "espera" => envio \in Flujo
  BY <1>2, <1>4, DeLaEspera
<1>6. /\ Resto(Confirmacion, ENCABEZADO) = <<>>
      /\ \A s \in Flujo : Resto(Confirmacion \o s, ENCABEZADO) = s
  BY DeConfirmacion DEF EsPaquete, Confirmacion
<1> HIDE DEF envio
<1>7. /\ Lugar(k) = "atender" => Resto(x.aCliente, ENCABEZADO) = <<>>
      /\ Lugar(k) = "espera" => Resto(x.aCliente, ENCABEZADO) = envio
      /\ Lugar(k) \in {"no", "fin"} =>
           \/ Resto(x.aCliente, ENCABEZADO) = <<>>
           \/ \E e \in DeSuCola(c) : Resto(x.aCliente, ENCABEZADO) = Entrega(e)
      /\ Resto(x.aCliente, ENCABEZADO) \in Flujo
  BY <1>3, <1>4, <1>5, <1>6, Vacio
<1>8. /\ y \in Cable /\ y.cliente = x.cliente /\ y.broker = x.broker /\ y.aBroker = x.aBroker
      /\ y.aCliente = Resto(x.aCliente, ENCABEZADO)
  BY <1>2, <1>7, DeLecturas
<1>9. conexion'[k] = y
  BY <1>1, <1>2 DEF Invariante, Tipos
<1>10. Paso(k)' = "escuchar" /\ Lugar(k)' = Lugar(k)
  BY <1>1, <1>2, PasoDespues
<1>11. envio' = envio
  BY <1>1 DEF envio
<1> HIDE DEF x, y
<1>12. EnCamino(k)'
  <2>1. Publicadores' = Publicadores /\ DeSuCola(c)' = DeSuCola(c) /\ \A e : Entrega(e)' = Entrega(e)
    BY <1>1, MismoEscenario
  <2>2. EnviarMensaje(m.mensaje, m.id_mensaje_correlativo)' = envio
    BY <1>1 DEF envio
  <2> QED BY <1>1, <1>2, <1>3, <1>7, <1>8, <1>9, <1>10, <2>1, <2>2
          DEF EnCamino, Atendida, EnEspera, Suelta
<1>13. Listas' /\ recibido \subseteq recibido'
  BY <1>1, MismasListas DEF brokerVars
<1> QED BY <1>1, <1>8, <1>12, <1>13, PasoDeCliente

LEMMA AlRecibirRespuesta ==
  ASSUME Invariante, NEW c \in Cliente, RecibirRespuesta(c)
  PROVE  Invariante'
<1>1. PICK k : k = Mia(c)
  OBVIOUS
<1>2. CASE c \in Publicadores
  <2>1. /\ cliente[c].paso = "ack_pedido" /\ ConPaso(c, "fin")
        /\ conexion' = [conexion EXCEPT ![k] = CierraCliente(@)]
        /\ UNCHANGED <<escenario, brokerVars, recibido>>
    BY <1>1, <1>2 DEF RecibirRespuesta, EnCliente, ConPaso
  <2> QED BY <1>1, <2>1, AlCerrarUno
<1>3. CASE c \notin Publicadores
  BY <1>1, <1>3, AlSuscribirse
<1> QED BY <1>2, <1>3

LEMMA AlCaer ==
  ASSUME Invariante, NEW c \in Cliente, SeCayoLaConexion(c) \/ finalizar(c)
  PROVE  Invariante'
<1>1. PICK k : k = Mia(c)
  OBVIOUS
<1>2. PICK z \in {"conectar", "fin"} :
        /\ cliente[c].paso \notin {"conectar", "fin"} /\ ConPaso(c, z)
        /\ conexion' = [conexion EXCEPT ![k] = CierraCliente(@)]
        /\ UNCHANGED <<escenario, brokerVars, recibido>>
  <2>1. CASE SeCayoLaConexion(c)
    <3> DEFINE z == IF c \in Suscriptores THEN "conectar" ELSE "fin"
    <3>1. /\ cliente[c].paso \notin {"conectar", "fin"} /\ ConPaso(c, z)
          /\ conexion' = [conexion EXCEPT ![k] = CierraCliente(@)]
          /\ UNCHANGED <<escenario, brokerVars, recibido>>
      BY <1>1, <2>1 DEF SeCayoLaConexion, EnCliente, ConPaso
    <3>2. z \in {"conectar", "fin"}
      OBVIOUS
    <3> HIDE DEF z
    <3> QED BY <3>1, <3>2
  <2>2. CASE finalizar(c)
    BY <1>1, <2>2 DEF finalizar, EnCliente, ConPaso
  <2> QED BY <2>1, <2>2
<1> QED BY <1>1, <1>2, AlCerrarUno

\* What a client that listens reads is a message of its queue, whole.
LEMMA PorLeer ==
  ASSUME Invariante, NEW c \in Cliente, NEW k, k = Mia(c), cliente[c].paso = "escuchar",
         HayEncabezado(Saliente(c))
  PROVE  /\ Lugar(k) \in {"espera", "no", "fin"} /\ c \notin Publicadores
         /\ Lugar(k) = "espera" => conexion[k].aBroker = <<>> /\ conexion[k].broker
         /\ Lugar(k) \in {"no", "fin"} => ~conexion[k].broker
         /\ \E p \in DeSuCola(c) : /\ conexion[k].aCliente = Entrega(p)
                                   /\ Lugar(k) = "espera" => Publicado(hilo[k].mensaje, p)
<1> DEFINE x == conexion[k]
<1>1. /\ k \in Conexion /\ k[1] = c /\ Paso(k) = "escuchar" /\ EnCamino(k)
      /\ HayEncabezado(x.aCliente)
  BY DelCliente DEF Saliente
<1>2. Lugar(k) \in {"espera", "no", "fin"}
  BY <1>1, Vacio, Lugares DEF EnCamino, PorSaludar, PorPedir, SinResponder, Atendida
<1>3. CASE Lugar(k) = "espera"
  <2> DEFINE m == hilo[k].mensaje  envio == EnviarMensaje(m.mensaje, m.id_mensaje_correlativo)
  <2>1. x.aBroker = <<>> /\ x.broker /\ x.aCliente = envio
    BY <1>1, <1>3, Vacio DEF EnCamino, EnEspera
  <2>2. PICK p \in DeSuCola(c) : Publicado(m, p) /\ envio = Entrega(p)
    BY <1>1, <1>3, DeLaEspera
  <2>3. c \notin Publicadores
    BY <1>1, <1>3, DeLaEspera
  <2> HIDE DEF m, envio
  <2> QED BY <1>3, <2>1, <2>2, <2>3 DEF m
<1>4. CASE Lugar(k) \in {"no", "fin"}
  <2>1. Suelta(c, "escuchar", x)
    BY <1>1, <1>4 DEF EnCamino
  <2> HIDE DEF x
  <2>2. ~x.broker /\ c \notin Publicadores /\ \E p \in DeSuCola(c) : x.aCliente = Entrega(p)
    BY <1>1, <2>1, Vacio DEF Suelta
  <2> QED BY <1>4, <2>2 DEF x
<1> QED BY <1>2, <1>3, <1>4

LEMMA AlEscuchar ==
  ASSUME Invariante, NEW c \in Cliente, NEW k, k = Mia(c), Escuchar(c)
  PROVE  Invariante'
<1> DEFINE x == conexion[k]
<1>1. /\ cliente[c].paso = "escuchar" /\ HayEncabezado(x.aCliente) /\ HayEncabezado(Saliente(c))
      /\ UNCHANGED <<escenario, brokerVars>> /\ UNCHANGED cliente
      /\ UNCHANGED <<hilo, list_mensajes, recibieron>>
  BY DEF Escuchar, EnCliente, Saliente, brokerVars
<1>2. /\ k \in Conexion /\ k[1] = c /\ x \in Cable /\ x.cliente /\ Paso(k) = "escuchar"
      /\ escenario \in Escenarios
  BY <1>1, DelCliente
<1>3. PICK p \in DeSuCola(c) : /\ x.aCliente = Entrega(p)
                               /\ Lugar(k) = "espera" => Publicado(hilo[k].mensaje, p)
  BY <1>1, PorLeer
<1>4. /\ Lugar(k) \in {"espera", "no", "fin"} /\ c \notin Publicadores
      /\ Lugar(k) = "espera" => x.aBroker = <<>> /\ x.broker
      /\ Lugar(k) \in {"no", "fin"} => ~x.broker
  BY <1>1, PorLeer
<1> DEFINE a == Llegado(perfil[p].mensaje)  n == ENCABEZADO + Len(Contenido(a))
           id == perfil[p].id_mensaje
           z == LeerDelBroker(x, n)  y == AlBroker(z, Confirmacion)
<1>5. /\ EsPaquete(x.aCliente, a.op, id, Contenido(a)) /\ a.op = perfil[p].mensaje.op
      /\ deserializar(a.op, Contenido(a)) = [mensaje |-> a, leidos |-> Len(Contenido(a))]
  BY <1>2, <1>3, DeEntrega DEF DeSuCola
<1>6. ~(c \in GameBoys /\ a.op = "LOCALIZED_POKEMON")
  BY <1>2, <1>5, DeCliente DEF DeSuCola, suscripcion
<1> HIDE DEF a, id
<1>7. /\ Operacion(x.aCliente) = a.op /\ Identificador(x.aCliente) = id
      /\ Resto(x.aCliente, ENCABEZADO) = Contenido(a) /\ Resto(x.aCliente, n) = <<>>
  BY <1>5 DEF EsPaquete
<1>8. /\ conexion' = [conexion EXCEPT ![k] = y] /\ conexion'[k] = y
      /\ recibido' = recibido \cup {<<c, a, id>>}
  <2>1. Leido(c, a.op, Contenido(a)) = [mensaje |-> a, leidos |-> Len(Contenido(a))]
    BY <1>5, <1>6 DEF Leido
  <2> QED BY <1>2, <1>7, <2>1 DEF Escuchar, Saliente, Confirmacion, Invariante, Tipos
<1> HIDE DEF n
<1>9. /\ z \in Cable /\ z.cliente = x.cliente /\ z.broker = x.broker /\ z.aBroker = x.aBroker
      /\ z.aCliente = <<>>
  BY <1>2, <1>7, DeLecturas, Vacio
<1>10. Confirmacion \in Flujo /\ <<>> \o Confirmacion = Confirmacion
  BY DeConfirmacion, Vacio DEF EsPaquete, Confirmacion
<1> HIDE DEF z
<1>11. /\ y \in Cable /\ y.cliente = z.cliente /\ y.broker = z.broker /\ y.aCliente = z.aCliente
       /\ y.aBroker = IF z.broker THEN z.aBroker \o Confirmacion ELSE z.aBroker
  BY <1>9, <1>10, DeSockets
<1>12. ConPaso(c, "escuchar")
  BY <1>1 DEF ConPaso, Invariante, Tipos
<1>13. Paso(k)' = "escuchar" /\ Lugar(k)' = Lugar(k)
  BY <1>1, <1>2, <1>12, PasoDespues
<1> HIDE DEF x, y
<1>14. EnCamino(k)'
  <2>1. Publicadores' = Publicadores /\ Confirmacion' = Confirmacion
    BY <1>1, MismoEscenario DEF Confirmacion
  <2>2. Lugar(k) = "espera" =>
          <<c, hilo[k].mensaje.mensaje, hilo[k].mensaje.id_mensaje_correlativo>> \in recibido'
    BY <1>3, <1>8 DEF Publicado, a, id
  <2> QED BY <1>1, <1>2, <1>4, <1>8, <1>9, <1>10, <1>11, <1>13, <2>1, <2>2
          DEF EnCamino, EnEspera, Suelta
<1>15. Listas'
  <2>1. \A r \in recibido' : \E d \in Cliente : \E q \in DeSuCola(d) :
          r = <<d, Llegado(perfil[q].mensaje), perfil[q].id_mensaje>>
    BY <1>3, <1>8 DEF Listas, Invariante, a, id
  <2>2. \A r \in recibieron : \E l \in recibido' : l[2] = r[1].mensaje /\ perfil[l[1]].id_proceso = r[2]
    BY <1>8 DEF Listas, Invariante
  <2> QED BY <1>1, <2>1, <2>2, MismoEscenario DEF Listas, Invariante, Publicado
<1>16. recibido \subseteq recibido'
  BY <1>8
<1> QED BY <1>1, <1>8, <1>11, <1>12, <1>14, <1>15, <1>16, PasoDeCliente

\* A process dies: the connections of all its threads close at once.
LEMMA AlMorirProceso ==
  ASSUME Invariante, NEW c \in Cliente, MuereProceso(c), UNCHANGED <<escenario, brokerVars, recibido>>
  PROVE  Invariante'
<1> DEFINE muerto(d) == d \in DelProceso(c)
<1>1. /\ UNCHANGED <<aceptar, principal, mutex_list_suscriptores, estructura_suscriptor>>
      /\ UNCHANGED <<mutex_estructura_mensajes, estructura_mensaje, hilo>>
      /\ UNCHANGED <<list_suscriptores, list_mensajes, recibieron, recibido, escenario>>
  BY DEF brokerVars
<1>2. DelProceso(c) \subseteq Cliente
  BY DEF DelProceso
<1>3. ASSUME NEW d \in Cliente
      PROVE  /\ cliente'[d].intento = cliente[d].intento
             /\ muerto(d) => cliente'[d].paso \in {"conectar", "fin"}
             /\ ~muerto(d) => cliente'[d] = cliente[d]
  <2>1. cliente[d] \in [paso : {"conectar", "handshake", "ack_handshake", "ack_pedido", "escuchar", "fin"},
                        intento : Nat, corriendo : BOOLEAN]
    BY DEF Invariante, Tipos
  <2> HIDE DEF muerto
  <2>2. cliente'[d] = IF muerto(d)
                      THEN [cliente[d] EXCEPT !.paso = IF d \in Suscriptores THEN "conectar" ELSE "fin"]
                      ELSE cliente[d]
    BY DEF MuereProceso, muerto
  <2> QED BY <2>1, <2>2
<1> HIDE DEF muerto
<1>4. ASSUME NEW k \in Conexion
      PROVE  /\ k[1] \in Cliente
             /\ Paso(k)' = IF muerto(k[1]) THEN "no" ELSE Paso(k)
             /\ conexion'[k] = IF muerto(k[1]) /\ Paso(k) # "no" THEN CierraCliente(conexion[k])
                                                              ELSE conexion[k]
  <2>1. k[1] \in Cliente /\ k = <<k[1], k[2]>>
    BY ConexionEsPosible DEF Invariante, Tipos
  <2>2. Paso(k)' = IF muerto(k[1]) THEN "no" ELSE Paso(k)
    BY <1>3, <2>1 DEF Paso
  <2>3. (\E d \in DelProceso(c) : cliente[d].paso \notin {"conectar", "fin"} /\ k = Mia(d))
          <=> muerto(k[1]) /\ Paso(k) # "no"
    <3>1. cliente[k[1]].paso # "no"
      BY <2>1 DEF Invariante, Tipos
    <3>2. \A d : k = Mia(d) <=> k[1] = d /\ k[2] = cliente[d].intento
      BY <2>1 DEF Mia
    <3> QED BY <3>1, <3>2 DEF Paso, muerto
  <2> QED BY <2>1, <2>2, <2>3 DEF MuereProceso
<1>5. ASSUME NEW k \in Conexion PROVE Bien(k)'
  <2>1. /\ (EnCola(k)' <=> EnCola(k)) /\ (EnPrincipal(k)' <=> EnPrincipal(k)) /\ Lugar(k)' = Lugar(k)
        /\ cliente'[k[1]].intento = cliente[k[1]].intento /\ Bien(k) /\ Crecen
    BY <1>1, <1>3, <1>4 DEF EnCola, EnPrincipal, Lugar, Invariante, Crecen
  <2>2. CASE muerto(k[1])
    <3>1. EnUnLugar(k)'
      BY <1>1, <2>1 DEF EnUnLugar, Bien
    <3>2. DatosFieles(k)'
      BY <1>1, <2>1, MismoEscenario DEF DatosFieles, Estructura, Bien
    <3>3. EnCamino(k)'
      BY <1>1, <1>4, <2>1, <2>2, AlCerrar
    <3> QED BY <3>1, <3>2, <3>3 DEF Bien
  <2>3. CASE ~muerto(k[1])
    <3>1. Igual(k)
      BY <1>1, <1>4, <2>1, <2>3 DEF Igual, Bien, DatosFieles
    <3> QED BY <1>1, <2>1, <3>1, Intacta
  <2> QED BY <2>2, <2>3
<1>6. Listas'
  BY <1>1, MismasListas
<1>7. Tipos'
  <2>1. \A k \in Conexion : conexion'[k] \in Cable
    BY <1>4, DeCierres DEF Invariante, Tipos
  <2>2. /\ DOMAIN conexion' = Conexion /\ DOMAIN cliente' = Cliente
        /\ conexion' = [k \in Conexion |-> conexion'[k]] /\ cliente' = [d \in Cliente |-> cliente'[d]]
    BY DEF MuereProceso
  <2>3. \A d \in Cliente : cliente'[d] \in
          [paso : {"conectar", "handshake", "ack_handshake", "ack_pedido", "escuchar", "fin"},
           intento : Nat, corriendo : BOOLEAN]
    BY DEF MuereProceso, Invariante, Tipos
  <2> QED BY <1>1, <2>1, <2>2, <2>3, MismoEscenario DEF Invariante, Tipos
<1>8. Ordenado'
  <2>1. \A d \in Cliente : cliente'[d].paso \notin {"conectar", "fin"} => Mia(d)' \in Conexion
    BY <1>3 DEF Invariante, Ordenado, Mia
  <2> QED BY <1>1, <2>1, MismoEscenario DEF Invariante, Ordenado
<1> QED BY <1>1, <1>5, <1>6, <1>7, <1>8, MismoEscenario DEF Invariante

-----------------------------------------------------------------------------
(* The invariant is inductive *)

LEMMA AlEmpezar ==
  ASSUME Init
  PROVE  Invariante
<1>1. /\ escenario \in Escenarios /\ aceptar = <<>> /\ principal = EnAccept
      /\ estructura_suscriptor = SinLlenar /\ estructura_mensaje = SinLlenar
      /\ hilo = [k \in Conexion |-> SinHilo] /\ conexion = [k \in Conexion |-> SinUsar]
      /\ list_mensajes = {} /\ recibieron = {} /\ recibido = {}
      /\ cliente = [c \in Cliente |-> [paso |-> "conectar", intento |-> 0, corriendo |-> TRUE]]
  BY DEF Init
<1>2. /\ SinHilo \in Hilo /\ SinLlenar \in Llenada /\ EnAccept \in Principal
      /\ EnAccept.paso = "accept" /\ SinHilo.paso = "no" /\ SinHilo = [SinHilo EXCEPT !.paso = "no"]
  BY DEF SinHilo, Hilo, SinLlenar, Llenada, EnAccept, Principal, op_code
<1>3. <<>> \in Seq(Conexion) /\ ToSet(<<>>) = {} /\ SinRepetidos(<<>>)
  BY EmptySeq DEF ToSet, SinRepetidos
<1>4. SinUsar \in Cable /\ ~SinUsar.cliente
  BY Vacio DEF SinUsar, Cable
<1>5. Tipos
  BY <1>1, <1>2, <1>3, <1>4 DEF Tipos
<1>6. Ordenado
  BY <1>1, <1>2, <1>3 DEF Ordenado
<1>7. Listas
  BY <1>1 DEF Listas
<1>8. ASSUME NEW k \in Conexion PROVE Bien(k)
  <2>1. k[1] \in Cliente
    BY <1>1, ConexionEsPosible
  <2>2. Paso(k) = "no" /\ ~EnCola(k) /\ ~EnPrincipal(k) /\ hilo[k] = SinHilo /\ conexion[k] = SinUsar
    BY <1>1, <1>2, <1>3, <2>1 DEF Paso, EnCola, EnPrincipal
  <2>3. Lugar(k) = "no"
    BY <1>2, <2>2 DEF Lugar
  <2> QED BY <1>2, <1>4, <2>2, <2>3 DEF Bien, EnUnLugar, DatosFieles, EnCamino, Suelta
<1> QED BY <1>5, <1>6, <1>7, <1>8 DEF Invariante

LEMMA AlPasoDeHilo ==
  ASSUME Invariante, NEW k \in Conexion, HiloSigue(k) \/ EnviarASuscriptor(k) \/ SigPipe(k)
  PROVE  Invariante'
<1>1. CASE HiloSigue(k)
  BY <1>1, AlSuscribir, AlConfirmar, AlRecibirACK, AlDesconectarse, AlAtenderMensaje,
     AlRecibirMensaje, AlResponder DEF HiloSigue
<1>2. CASE EnviarASuscriptor(k)
  BY <1>2, AlEnviar
<1>3. CASE SigPipe(k)
  BY <1>3, AlMorir DEF SigPipe
<1> QED BY <1>1, <1>2, <1>3

LEMMA AlPasoDeCliente ==
  ASSUME Invariante, NEW c \in Cliente, ClienteSigue(c) \/ Muerte(c)
  PROVE  Invariante'
<1>1. PICK k : k = Mia(c)
  OBVIOUS
<1>2. CASE HandshakePerdido(c) \/ Muerte(c)
  <2>1. MuereProceso(c) /\ UNCHANGED <<escenario, brokerVars, recibido>>
    BY <1>2 DEF HandshakePerdido, Muerte
  <2> QED BY <2>1, AlMorirProceso
<1>3. CASE crear_conexion(c) \/ SinBroker(c) \/ cronometrar(c)
  BY <1>3, AlConectar, AlRendirse, AlCronometrar
<1>4. CASE EnviarHandshake(c) \/ EnviarPedido(c) \/ Escuchar(c)
  BY <1>1, <1>4, AlSaludar, AlPedir, AlEscuchar
<1>5. CASE RecibirRespuesta(c)
  BY <1>5, AlRecibirRespuesta
<1>6. CASE SeCayoLaConexion(c) \/ finalizar(c)
  BY <1>6, AlCaer
<1> QED BY <1>2, <1>3, <1>4, <1>5, <1>6 DEF ClienteSigue

LEMMA UnPaso ==
  ASSUME Invariante, [Next]_vars
  PROVE  Invariante'
<1>1. CASE main
  BY <1>1, AlPasoDeMain
<1>2. CASE \E k \in Conexion : HiloSigue(k) \/ EnviarASuscriptor(k) \/ SigPipe(k)
  BY <1>2, AlPasoDeHilo
<1>3. CASE Caida
  BY <1>3, AlMorir DEF Caida
<1>4. CASE Reiniciar
  BY <1>4, AlReiniciar
<1>5. CASE \E c \in Cliente : ClienteSigue(c) \/ Muerte(c)
  BY <1>5, AlPasoDeCliente
<1>6. CASE PerderWriter \/ ReponerWriter \/ UNCHANGED vars
  <2>1. UNCHANGED <<escenario, aceptar, principal, mutex_list_suscriptores, estructura_suscriptor,
                    mutex_estructura_mensajes, estructura_mensaje, hilo, list_suscriptores,
                    list_mensajes, recibieron, conexion, recibido>> /\ cliente' = cliente
    BY <1>6 DEF PerderWriter, ReponerWriter, vars, brokerVars, clienteVars
  <2>2. Tipos' /\ Ordenado'
    BY <2>1, MismoEscenario DEF Tipos, Ordenado, Invariante, Mia
  <2>3. \A k \in Conexion : Paso(k)' = Paso(k)
    BY <2>1 DEF Paso
  <2> QED BY <2>1, <2>2, <2>3, SinCambios
<1> QED BY <1>1, <1>2, <1>3, <1>4, <1>5, <1>6 DEF Next

\* Whatever crashes and whoever dies, each connection is in one place of the Broker at most,
\* the locals of main, the structure that main lends to a thread and the locals of the
\* thread say of it what its client is, and what is on its way is what the step of each end
\* allows (Broker.c:26-120, :150-282, :862-887, :1029-1050, sockets.c:116-375,
\* Game-Boy.c:165-330, team.c:1368-1432).
THEOREM InvarianteSiempre == Spec => []Invariante
<1>1. Init => Invariante
  BY AlEmpezar
<1>2. Invariante /\ [Next]_vars => Invariante'
  BY UnPaso
<1> QED BY <1>1, <1>2, PTL DEF Spec

-----------------------------------------------------------------------------
(* What it gives *)

LEMMA QuienEscucha ==
  ASSUME Invariante, NEW c \in Cliente, NEW k, k = Mia(c), cliente[c].paso = "escuchar",
         conexion[k].broker
  PROVE  /\ [id |-> perfil[c].id_proceso, op_code |-> perfil[c].operacion] \in list_suscriptores
         /\ k \in Conexion /\ hilo[k].con = k /\ hilo[k].paso \in {"atender", "espera"}
<1>1. k \in Conexion /\ k[1] = c /\ Paso(k) = "escuchar" /\ EnCamino(k) /\ DatosFieles(k)
  BY DelCliente
<1>2. Lugar(k) \in {"atender", "espera"}
  BY <1>1, Lugares DEF EnCamino, PorSaludar, PorPedir, SinResponder, Suelta
<1>3. hilo[k].paso \in {"atender", "espera"}
  BY <1>1, <1>2, Lugares
<1> QED BY <1>1, <1>3 DEF DatosFieles

\* Whoever listens on a connection that the Broker holds is in list_suscriptores, and its
\* own thread serves it: the structure that main fills for the next connection never
\* reaches the thread of the last (Broker.c:56, :217).
THEOREM SuscripcionesReales == Spec => []SuscripcionReal
<1>1. Invariante => SuscripcionReal
  <2> SUFFICES ASSUME Invariante PROVE SuscripcionReal
    OBVIOUS
  <2>1. ASSUME NEW c \in Cliente, EnCliente(c, "escuchar"), conexion[Mia(c)].broker
        PROVE  /\ [id |-> perfil[c].id_proceso, op_code |-> perfil[c].operacion] \in list_suscriptores
               /\ \E k \in Conexion : hilo[k].con = Mia(c) /\ hilo[k].paso \in {"atender", "espera"}
    <3>1. PICK k : k = Mia(c)
      OBVIOUS
    <3> QED BY <2>1, <3>1, QuienEscucha DEF EnCliente
  <2>2. ASSUME NEW k \in Conexion PROVE hilo[k].con \in {Nada, k}
    <3>1. DatosFieles(k) /\ hilo[k] \in Hilo
      BY DEF Invariante, Bien, Tipos
    <3> QED BY <3>1 DEF DatosFieles, Hilo, SinHilo
  <2>3. ASSUME NEW j \in Conexion, NEW k \in Conexion, j # k, hilo[j].con = hilo[k].con
        PROVE  hilo[k].con = Nada
    BY <2>2, <2>3
  <2> QED BY <2>1, <2>3 DEF SuscripcionReal
<1> QED BY <1>1, InvarianteSiempre, PTL

\* Nobody publishes a LOCALIZED of several positions, whose payload arrives with the last of
\* them repeated.
UnaPosicion ==
  \A x \in Escenarios : \A c \in DOMAIN x.clientes :
    x.clientes[c].tipo = "publicador" /\ x.clientes[c].mensaje.op = "LOCALIZED_POKEMON"
      => Len(x.clientes[c].mensaje.listaPosiciones) <= 1

\* A message is listed, and read by the subscribers of its queue and of no other, as it was
\* published and with its correlative id, and what counts as received by a process was
\* read by one of its threads (sockets.c:116, Broker.c:862, Broker.c:267).
THEOREM MensajesFieles ==
  ASSUME UnaPosicion
  PROVE  Spec => []MensajeFiel
<1>1. Invariante => MensajeFiel
  <2> SUFFICES ASSUME Invariante PROVE MensajeFiel
    OBVIOUS
  <2>1. ASSUME NEW p \in Publicadores PROVE Llegado(perfil[p].mensaje) = perfil[p].mensaje
    <3>1. p \in Cliente /\ escenario \in Escenarios /\ perfil[p].tipo = "publicador"
      BY DEF Publicadores, Invariante, Tipos
    <3>2. perfil[p].mensaje \in Mensaje
      BY <3>1, DeCliente
    <3>3. perfil[p].mensaje.op = "LOCALIZED_POKEMON" => Len(perfil[p].mensaje.listaPosiciones) <= 1
      BY <3>1 DEF UnaPosicion, Cliente, perfil
    <3> QED BY <3>2, <3>3, LlegadoEsMensaje
  <2>2. Listas
    BY DEF Invariante
  <2>3. \A m \in list_mensajes :
          LET p == perfil[m.con[1]]
          IN  /\ m.mensaje = p.mensaje /\ m.operacion = p.mensaje.op
              /\ m.id_mensaje_correlativo = p.id_mensaje /\ m.process_id = p.id_proceso
    BY <2>1, <2>2 DEF Listas, Publicado
  <2>4. ASSUME NEW r \in recibido
        PROVE  \E p \in Publicadores :
                 /\ r[2] = perfil[p].mensaje /\ r[3] = perfil[p].id_mensaje
                 /\ suscripcion[r[2].op] = perfil[r[1]].operacion
    <3>1. PICK c \in Cliente : \E p \in DeSuCola(c) :
            r = <<c, Llegado(perfil[p].mensaje), perfil[p].id_mensaje>>
      BY <2>2 DEF Listas
    <3>2. PICK p \in DeSuCola(c) : r = <<c, Llegado(perfil[p].mensaje), perfil[p].id_mensaje>>
      BY <3>1
    <3>3. p \in Publicadores /\ suscripcion[perfil[p].mensaje.op] = perfil[c].operacion
      BY <3>2 DEF DeSuCola
    <3>4. r[1] = c /\ r[2] = perfil[p].mensaje /\ r[3] = perfil[p].id_mensaje
      BY <2>1, <3>2, <3>3
    <3> QED BY <3>3, <3>4
  <2>5. \A r \in recibieron : \E l \in recibido : l[2] = r[1].mensaje /\ perfil[l[1]].id_proceso = r[2]
    BY <2>2 DEF Listas
  <2> QED BY <2>3, <2>4, <2>5 DEF MensajeFiel
<1> QED BY <1>1, InvarianteSiempre, PTL
=============================================================================
