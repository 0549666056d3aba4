-------------------------- MODULE ParticionesLemas ---------------------------
(***************************************************************************)
(* The operators of Particiones on a list of partitions, for every list:   *)
(* what splitting, storing, evicting, joining and halving do to it, point  *)
(* by point, and which properties of the list they keep.                   *)
(***************************************************************************)
EXTENDS Particiones, Lemas

-----------------------------------------------------------------------------
(* The operations on the list of partitions, point by point *)

\* What an operation makes of a partition, before it is known to lie in the memory.
Registro ==
  [ini : Int, fin : Int, size : Int, ocupada : BOOLEAN, id : Nat,
   msg : Mensaje \cup {SinMensaje}]

\* Partition i of t becomes p and q in u.
Partida(t, u, i, p, q) ==
  /\ u \in Seq(Registro) /\ Len(u) = Len(t) + 1
  /\ \A k \in 1..(i - 1) : u[k] = t[k]
  /\ u[i] = p /\ u[i+1] = q
  /\ \A k \in (i + 1)..Len(t) : u[k+1] = t[k]

\* The free partitions j and j + 1 of t become one in u.
Unida(t, u, j) ==
  /\ u \in Seq(Registro) /\ Len(u) = Len(t) - 1
  /\ j \in 1..(Len(t) - 1) /\ ~t[j].ocupada /\ ~t[j+1].ocupada
  /\ \A k \in 1..(j - 1) : u[k] = t[k]
  /\ u[j].ini = t[j].ini /\ u[j].fin = t[j+1].fin /\ u[j].size = t[j].size + t[j+1].size
  /\ u[j].ocupada = FALSE
  /\ (u[j].msg = t[j].msg /\ u[j].id = t[j].id) \/ (u[j].msg = t[j+1].msg /\ u[j].id = t[j+1].id)
  /\ \A k \in (j + 1)..(Len(t) - 1) : u[k] = t[k+1]

\* A partition that takes the room of the one before it, or of the one after it.
LEMMA RegistroCambiado ==
  ASSUME NEW r \in Registro, NEW x \in Int, NEW y \in Int
  PROVE  /\ LET p == [r EXCEPT !.ini = x, !.size = y]
            IN  /\ p \in Registro /\ p.ini = x /\ p.fin = r.fin /\ p.size = y
                /\ p.ocupada = r.ocupada /\ p.msg = r.msg /\ p.id = r.id
         /\ LET p == [r EXCEPT !.fin = x, !.size = y]
            IN  /\ p \in Registro /\ p.ini = r.ini /\ p.fin = x /\ p.size = y
                /\ p.ocupada = r.ocupada /\ p.msg = r.msg /\ p.id = r.id
         /\ LET p == [r EXCEPT !.ini = x, !.fin = y]
            IN  /\ p \in Registro /\ p.ini = x /\ p.fin = y /\ p.size = r.size
                /\ p.ocupada = r.ocupada /\ p.msg = r.msg /\ p.id = r.id
BY DEF Registro

LEMMA RegistroUnido ==
  ASSUME NEW r \in Registro, NEW q \in Registro
  PROVE  /\ LET p == [r EXCEPT !.ini = q.ini, !.size = @ + q.size]
            IN  /\ p \in Registro /\ p.ini = q.ini /\ p.fin = r.fin
                /\ p.size = q.size + r.size /\ p.ocupada = r.ocupada
                /\ p.msg = r.msg /\ p.id = r.id
         /\ LET p == [r EXCEPT !.fin = q.fin, !.size = @ + q.size]
            IN  /\ p \in Registro /\ p.ini = r.ini /\ p.fin = q.fin
                /\ p.size = r.size + q.size /\ p.ocupada = r.ocupada
                /\ p.msg = r.msg /\ p.id = r.id
<1> DEFINE x == q.ini
           y == q.fin
           z == r.size + q.size
<1>1. x \in Int /\ y \in Int /\ z \in Int /\ z = q.size + r.size
  BY DEF Registro
<1> HIDE DEF x, y, z
<1>2. /\ LET p == [r EXCEPT !.ini = x, !.size = z]
         IN  /\ p \in Registro /\ p.ini = x /\ p.fin = r.fin /\ p.size = z
             /\ p.ocupada = r.ocupada /\ p.msg = r.msg /\ p.id = r.id
      /\ LET p == [r EXCEPT !.fin = y, !.size = z]
         IN  /\ p \in Registro /\ p.ini = r.ini /\ p.fin = y /\ p.size = z
             /\ p.ocupada = r.ocupada /\ p.msg = r.msg /\ p.id = r.id
  BY <1>1 DEF Registro
<1> QED BY <1>1, <1>2 DEF x, y, z

LEMMA ReemplazarDosPuntual ==
  ASSUME NEW t \in Seq(Registro), NEW i \in 1..Len(t), NEW p \in Registro, NEW q \in Registro
  PROVE  Partida(t, Reemplazar(t, i, <<p, q>>), i, p, q)
<1> DEFINE m == <<p, q>>
           u == Reemplazar(t, i, m)
<1>1. m \in Seq(Registro) /\ Len(m) = 2 /\ m[1] = p /\ m[2] = q
  OBVIOUS
<1> HIDE DEF m
<1>2. /\ u \in Seq(Registro) /\ Len(u) = (Len(t) - 1) + Len(m)
      /\ \A k \in 1..(i - 1) : u[k] = t[k]
      /\ \A k \in 1..Len(m) : u[(i - 1) + k] = m[k]
      /\ \A k \in (i + 1)..Len(t) : u[(k - 1) + Len(m)] = t[k]
  <2>1. m \in Seq(Registro)
    BY <1>1
  <2>2. Puesto(Registro, (SubSeq(t, 1, i - 1) \o m) \o SubSeq(t, i + 1, Len(t)), t, i, m)
    BY <2>1, EnLugarDePuntual
  <2>3. Puesto(Registro, u, t, i, m)
    BY <2>2 DEF Reemplazar
  <2> HIDE DEF u
  <2> QED BY <2>3 DEF Puesto
<1> HIDE DEF u
<1>3. Len(t) \in Nat
  BY LenProperties
<1>4. Len(u) = Len(t) + 1
  BY <1>1, <1>2, <1>3
<1>5. u[i] = p /\ u[i+1] = q
  <2>1. (i - 1) + 1 = i /\ (i - 1) + 2 = i + 1 /\ 1 \in 1..Len(m) /\ 2 \in 1..Len(m)
    BY <1>1
  <2>2. u[(i - 1) + 1] = m[1] /\ u[(i - 1) + 2] = m[2]
    BY <1>2, <2>1
  <2> QED BY <1>1, <2>1, <2>2
<1>6. ASSUME NEW k \in (i + 1)..Len(t) PROVE u[k+1] = t[k]
  <2>1. (k - 1) + Len(m) = k + 1
    BY <1>1, <1>3
  <2> QED BY <1>2, <2>1
<1> QED BY <1>2, <1>4, <1>5, <1>6 DEF Partida, u, m

LEMMA ReemplazarUnaPuntual ==
  ASSUME NEW t \in Seq(Registro), NEW i \in 1..Len(t), NEW p \in Registro
  PROVE  LET u == Reemplazar(t, i, <<p>>)
         IN  /\ u \in Seq(Registro) /\ Len(u) = Len(t)
             /\ u[i] = p
             /\ \A k \in 1..Len(t) : k # i => u[k] = t[k]
<1> DEFINE m == <<p>>
           u == Reemplazar(t, i, m)
<1>1. m \in Seq(Registro) /\ Len(m) = 1 /\ m[1] = p
  OBVIOUS
<1> HIDE DEF m
<1>2. /\ u \in Seq(Registro) /\ Len(u) = (Len(t) - 1) + Len(m)
      /\ \A k \in 1..(i - 1) : u[k] = t[k]
      /\ \A k \in 1..Len(m) : u[(i - 1) + k] = m[k]
      /\ \A k \in (i + 1)..Len(t) : u[(k - 1) + Len(m)] = t[k]
  <2>1. m \in Seq(Registro)
    BY <1>1
  <2>2. Puesto(Registro, (SubSeq(t, 1, i - 1) \o m) \o SubSeq(t, i + 1, Len(t)), t, i, m)
    BY <2>1, EnLugarDePuntual
  <2>3. Puesto(Registro, u, t, i, m)
    BY <2>2 DEF Reemplazar
  <2> HIDE DEF u
  <2> QED BY <2>3 DEF Puesto
<1> HIDE DEF u
<1>3. Len(t) \in Nat
  BY LenProperties
<1>4. Len(u) = Len(t)
  BY <1>1, <1>2, <1>3
<1>5. u[i] = p
  <2>1. (i - 1) + 1 = i /\ 1 \in 1..Len(m)
    BY <1>1
  <2>2. u[(i - 1) + 1] = m[1]
    BY <1>2, <2>1
  <2> QED BY <1>1, <2>1, <2>2
<1>6. ASSUME NEW k \in (i + 1)..Len(t) PROVE u[k] = t[k]
  <2>1. (k - 1) + Len(m) = k
    BY <1>1, <1>3
  <2> QED BY <1>2, <2>1
<1>7. ASSUME NEW k \in 1..Len(t), k # i PROVE u[k] = t[k]
  <2>1. k \in 1..(i - 1) \/ k \in (i + 1)..Len(t)
    BY <1>7
  <2> QED BY <1>2, <1>6, <2>1
<1> QED BY <1>2, <1>4, <1>5, <1>7 DEF u, m

LEMMA UnirConAnterior ==
  ASSUME NEW t \in Seq(Registro), NEW i \in 2..Len(t), AmbasLibres(t[i-1], t[i])
  PROVE  Unida(t, FusionarConAnterior(t, i), i - 1)
<1> DEFINE s == RemoveAt(t, i)
           p == [t[i] EXCEPT !.ini = t[i-1].ini, !.size = @ + t[i-1].size]
           u == Reemplazar(s, i - 1, <<p>>)
<1>1. Len(t) \in Nat /\ i \in 1..Len(t) /\ i - 1 \in 1..Len(t)
  BY LenProperties
<1>2. /\ s \in Seq(Registro) /\ Len(s) = Len(t) - 1
      /\ \A k \in 1..(i - 1) : s[k] = t[k]
      /\ \A k \in i..(Len(t) - 1) : s[k] = t[k+1]
  BY <1>1, RemoveAtPuntual
<1>3. t[i] \in Registro /\ t[i-1] \in Registro
  BY <1>1, ElementOfSeq
<1>4. /\ p \in Registro /\ p.ini = t[i-1].ini /\ p.fin = t[i].fin
      /\ p.size = t[i-1].size + t[i].size /\ p.ocupada = t[i].ocupada
      /\ p.msg = t[i].msg /\ p.id = t[i].id
  BY <1>3, RegistroUnido
<1>5. FusionarConAnterior(t, i) = u
  BY DEF FusionarConAnterior
<1> HIDE DEF s, p
<1>6. /\ u \in Seq(Registro) /\ Len(u) = Len(s)
      /\ u[i-1] = p
      /\ \A k \in 1..Len(s) : k # i - 1 => u[k] = s[k]
  <2>1. i - 1 \in 1..Len(s) /\ s \in Seq(Registro) /\ p \in Registro
    BY <1>1, <1>2, <1>4
  <2> QED BY <2>1, ReemplazarUnaPuntual
<1> HIDE DEF u
<1>7. ~t[i-1].ocupada /\ ~t[i].ocupada /\ u[i-1].ocupada = FALSE
  BY <1>3, <1>4, <1>6 DEF AmbasLibres, Registro
<1>8. \A k \in 1..(i - 2) : u[k] = t[k]
  BY <1>1, <1>2, <1>6
<1>9. \A k \in i..(Len(t) - 1) : u[k] = t[k+1]
  BY <1>1, <1>2, <1>6
<1>10. i - 1 \in 1..(Len(t) - 1) /\ (i - 1) + 1 = i /\ (i - 1) - 1 = i - 2
  BY <1>1
<1>11. Unida(t, u, i - 1)
  BY <1>2, <1>4, <1>6, <1>7, <1>8, <1>9, <1>10 DEF Unida
<1> QED BY <1>5, <1>11

LEMMA UnirConSiguiente ==
  ASSUME NEW t \in Seq(Registro), NEW i \in 1..(Len(t) - 1), AmbasLibres(t[i], t[i+1])
  PROVE  Unida(t, FusionarConSiguiente(t, i), i)
<1> DEFINE s == RemoveAt(t, i + 1)
           p == [t[i] EXCEPT !.fin = t[i+1].fin, !.size = @ + t[i+1].size]
           u == Reemplazar(s, i, <<p>>)
<1>1. Len(t) \in Nat /\ i \in 1..Len(t) /\ i + 1 \in 1..Len(t)
  BY LenProperties
<1>2. /\ s \in Seq(Registro) /\ Len(s) = Len(t) - 1
      /\ \A k \in 1..i : s[k] = t[k]
      /\ \A k \in (i + 1)..(Len(t) - 1) : s[k] = t[k+1]
  <2>1. (i + 1) - 1 = i
    BY <1>1
  <2> QED BY <1>1, <2>1, RemoveAtPuntual
<1>3. t[i] \in Registro /\ t[i+1] \in Registro
  BY <1>1, ElementOfSeq
<1>4. /\ p \in Registro /\ p.ini = t[i].ini /\ p.fin = t[i+1].fin
      /\ p.size = t[i].size + t[i+1].size /\ p.ocupada = t[i].ocupada
      /\ p.msg = t[i].msg /\ p.id = t[i].id
  <2>1. PICK r \in Registro, q \in Registro : r = t[i] /\ q = t[i+1]
    BY <1>3
  <2>2. LET n == [r EXCEPT !.fin = q.fin, !.size = @ + q.size]
        IN  /\ n \in Registro /\ n.ini = r.ini /\ n.fin = q.fin
            /\ n.size = r.size + q.size /\ n.ocupada = r.ocupada
            /\ n.msg = r.msg /\ n.id = r.id
    BY RegistroUnido
  <2>3. p = [r EXCEPT !.fin = q.fin, !.size = @ + q.size]
    BY <2>1
  <2> HIDE DEF p
  <2> QED BY <2>1, <2>2, <2>3
<1>5. FusionarConSiguiente(t, i) = u
  BY DEF FusionarConSiguiente
<1> HIDE DEF s, p
<1>6. /\ u \in Seq(Registro) /\ Len(u) = Len(s)
      /\ u[i] = p
      /\ \A k \in 1..Len(s) : k # i => u[k] = s[k]
  <2>1. i \in 1..Len(s) /\ s \in Seq(Registro) /\ p \in Registro
    BY <1>1, <1>2, <1>4
  <2> QED BY <2>1, ReemplazarUnaPuntual
<1> HIDE DEF u
<1>7. ~t[i].ocupada /\ ~t[i+1].ocupada /\ u[i].ocupada = FALSE
  BY <1>3, <1>4, <1>6 DEF AmbasLibres, Registro
<1>8. \A k \in 1..(i - 1) : u[k] = t[k]
  BY <1>1, <1>2, <1>6
<1>9. \A k \in (i + 1)..(Len(t) - 1) : u[k] = t[k+1]
  BY <1>1, <1>2, <1>6
<1>10. Unida(t, u, i)
  BY <1>2, <1>4, <1>6, <1>7, <1>8, <1>9 DEF Unida
<1> QED BY <1>5, <1>10

\* consolidarParticion joins the partition with its left neighbour, with its
\* right one, with both or with none.
LEMMA ConsolidarPuntual ==
  ASSUME NEW t \in Seq(Registro), NEW i \in 1..Len(t)
  PROVE  LET r == consolidarParticion(t, i)
             u == FusionarConAnterior(t, i)
         IN  \/ /\ r = t
                /\ i # 1 => ~SeUnen(t[i-1], t[i])
                /\ i # Len(t) => ~SeUnen(t[i], t[i+1])
             \/ /\ i # 1 /\ SeUnen(t[i-1], t[i]) /\ Unida(t, r, i - 1)
                /\ i # Len(t) => ~SeUnen(r[i-1], t[i+1])
             \/ /\ i # Len(t) /\ SeUnen(t[i], t[i+1]) /\ Unida(t, r, i)
                /\ i # 1 => ~SeUnen(t[i-1], t[i])
             \/ /\ i # 1 /\ SeUnen(t[i-1], t[i]) /\ Unida(t, u, i - 1)
                /\ SeUnen(u[i-1], u[i]) /\ Unida(u, r, i - 1)
<1> DEFINE r == consolidarParticion(t, i)
           u == FusionarConAnterior(t, i)
           izq == i # 1 /\ SeUnen(t[i-1], t[i])
<1>1. Len(t) \in Nat
  BY LenProperties
<1>2. \A p, q : SeUnen(p, q) => AmbasLibres(p, q)
  BY DEF SeUnen, SonBuddies
<1>3. CASE ~izq
  <2>1. r = IF i # Len(t) /\ SeUnen(t[i], t[i+1]) THEN FusionarConSiguiente(t, i) ELSE t
    BY <1>3 DEF consolidarParticion
  <2>2. CASE i # Len(t) /\ SeUnen(t[i], t[i+1])
    <3>1. i \in 1..(Len(t) - 1) /\ AmbasLibres(t[i], t[i+1])
      BY <1>1, <1>2, <2>2
    <3>2. Unida(t, r, i)
      BY <2>1, <2>2, <3>1, UnirConSiguiente
    <3> QED BY <1>3, <2>2, <3>2
  <2>3. CASE ~(i # Len(t) /\ SeUnen(t[i], t[i+1]))
    BY <1>3, <2>1, <2>3
  <2> QED BY <2>2, <2>3
<1>4. CASE izq
  <2>1. i \in 2..Len(t) /\ AmbasLibres(t[i-1], t[i])
    BY <1>2, <1>4
  <2>2. Unida(t, u, i - 1)
    BY <2>1, UnirConAnterior
  <2>3. r = IF i - 1 # Len(u) /\ SeUnen(u[i-1], u[(i-1)+1])
            THEN FusionarConSiguiente(u, i - 1) ELSE u
    BY <1>4 DEF consolidarParticion
  <2> HIDE DEF u, r
  <2>4. u \in Seq(Registro) /\ Len(u) = Len(t) - 1 /\ (i - 1) + 1 = i
    BY <2>2 DEF Unida
  <2>5. CASE i - 1 # Len(u) /\ SeUnen(u[i-1], u[(i-1)+1])
    <3>1. i - 1 \in 1..(Len(u) - 1) /\ AmbasLibres(u[i-1], u[(i-1)+1])
      BY <1>1, <1>2, <2>1, <2>4, <2>5
    <3>2. Unida(u, r, i - 1)
      BY <2>3, <2>4, <2>5, <3>1, UnirConSiguiente
    <3> QED BY <1>4, <2>2, <2>4, <2>5, <3>2 DEF u, r
  <2>6. CASE ~(i - 1 # Len(u) /\ SeUnen(u[i-1], u[(i-1)+1]))
    <3>1. r = u
      BY <2>3, <2>6
    <3>2. i # Len(t) => u[i] = t[i+1]
      BY <1>1, <2>1, <2>2 DEF Unida
    <3>3. i # Len(t) => ~SeUnen(r[i-1], t[i+1])
      BY <1>1, <2>4, <2>6, <3>1, <3>2
    <3> QED BY <1>4, <2>2, <3>1, <3>3 DEF u, r
  <2> QED BY <2>5, <2>6
<1> QED BY <1>3, <1>4

-----------------------------------------------------------------------------
(* What each operation does to the properties of a list of partitions *)

\* The partitions of t follow one another from the start of the memory.
Cortada(t) ==
  /\ \A k \in DOMAIN t :
       0 <= t[k].ini /\ 0 < t[k].size /\ t[k].fin < TAMANO_MEMORIA
       /\ t[k].fin = t[k].ini + t[k].size - 1
  /\ \A k \in 1..(Len(t) - 1) : t[k+1].ini = t[k].fin + 1
  /\ \A j, k \in DOMAIN t : j < k => t[j].fin < t[k].ini
  /\ t # <<>> => t[1].ini = 0

\* ... and reach its end.
LlegaAlFinal(t) == t # <<>> /\ t[Len(t)].fin = TAMANO_MEMORIA - 1

\* A partition is occupied if and only if it has a message.
Marcada(t) == \A k \in DOMAIN t : t[k].ocupada <=> t[k].msg # SinMensaje

\* A message is in one partition only.
Distintas(t) == \A j, k \in Ocupadas(t) : t[j].msg = t[k].msg => j = k

\* The ids handed out so far bound those of the partitions.
IdsHasta(t, n) == \A k \in DOMAIN t : t[k].id <= n

Llenas(t) == {t[k] : k \in Ocupadas(t)}

LEMMA MedidaDeLaUnion ==
  ASSUME NEW p \in Registro, NEW q \in Registro,
         p.fin = p.ini + p.size - 1, q.ini = p.fin + 1, q.fin = q.ini + q.size - 1
  PROVE  q.fin = p.ini + (p.size + q.size) - 1
BY DEF Registro

LEMMA UnidaCortada ==
  ASSUME NEW t \in Seq(Registro), NEW u, NEW j, Unida(t, u, j), Cortada(t)
  PROVE  Cortada(u) /\ (LlegaAlFinal(t) => LlegaAlFinal(u))
<1>0. Len(t) \in Nat /\ Len(u) = Len(t) - 1 /\ j \in 1..(Len(t) - 1)
  BY LenProperties DEF Unida
<1>1. /\ Len(t) \in Nat /\ DOMAIN t = 1..Len(t) /\ DOMAIN u = 1..(Len(t) - 1)
      /\ Len(u) = Len(t) - 1 /\ u \in Seq(Registro)
      /\ j \in 1..(Len(t) - 1)
  BY LenProperties DEF Unida
<1>2. \A k \in 1..Len(t) : t[k].ini \in Int /\ t[k].fin \in Int /\ t[k].size \in Int
  <2>1. \A k \in 1..Len(t) : t[k] \in Registro
    BY ElementOfSeq
  <2> QED BY <2>1 DEF Registro
<1>3. \A k \in 1..Len(u) :
        /\ k \in 1..Len(t) /\ k + 1 \in 1..Len(t)
        /\ k < j => u[k] = t[k]
        /\ k > j => u[k] = t[k+1]
  <2>1. /\ \A k \in 1..(j - 1) : u[k] = t[k]
        /\ \A k \in (j + 1)..(Len(t) - 1) : u[k] = t[k+1]
    BY DEF Unida
  <2>2. ASSUME NEW k \in 1..Len(u)
        PROVE  /\ k \in 1..Len(t) /\ k + 1 \in 1..Len(t)
               /\ k < j => k \in 1..(j - 1)
               /\ k > j => k \in (j + 1)..(Len(t) - 1)
    BY <1>0
  <2> QED BY <2>1, <2>2
<1>4. /\ u[j].ini = t[j].ini /\ u[j].fin = t[j+1].fin /\ u[j].size = t[j].size + t[j+1].size
      /\ j \in 1..Len(u) /\ j \in 1..Len(t) /\ j + 1 \in 1..Len(t)
  BY <1>1 DEF Unida
<1>5. \A k \in 1..Len(t) :
        /\ 0 <= t[k].ini /\ 0 < t[k].size /\ t[k].fin < TAMANO_MEMORIA
        /\ t[k].fin = t[k].ini + t[k].size - 1
  BY <1>1 DEF Cortada
<1>6. t[j+1].ini = t[j].fin + 1
  BY <1>1 DEF Cortada
<1>7. ASSUME NEW k \in DOMAIN u
      PROVE  0 <= u[k].ini /\ 0 < u[k].size /\ u[k].fin < TAMANO_MEMORIA
             /\ u[k].fin = u[k].ini + u[k].size - 1
  <2>1. CASE k < j
    BY <1>1, <1>3, <1>5, <2>1
  <2>2. CASE k = j
    <3>1. /\ t[j].ini \in Int /\ t[j].fin \in Int /\ t[j].size \in Int
          /\ t[j+1].ini \in Int /\ t[j+1].fin \in Int /\ t[j+1].size \in Int
      BY <1>2, <1>4
    <3>2. /\ 0 <= t[j].ini /\ 0 < t[j].size /\ t[j].fin = t[j].ini + t[j].size - 1
          /\ 0 < t[j+1].size /\ t[j+1].fin < TAMANO_MEMORIA
          /\ t[j+1].fin = t[j+1].ini + t[j+1].size - 1
      BY <1>4, <1>5
    <3>3. u[k].ini = t[j].ini /\ u[k].fin = t[j+1].fin /\ u[k].size = t[j].size + t[j+1].size
      BY <1>4, <2>2
    <3>4. 0 <= u[k].ini /\ u[k].fin < TAMANO_MEMORIA
      BY <3>2, <3>3
    <3>5. 0 < u[k].size
      BY <3>1, <3>2, <3>3
    <3>6. u[k].fin = u[k].ini + u[k].size - 1
      <4>1. t[j] \in Registro /\ t[j+1] \in Registro
        BY <1>4, ElementOfSeq
      <4>2. t[j+1].fin = t[j].ini + (t[j].size + t[j+1].size) - 1
        BY <1>6, <3>2, <4>1, MedidaDeLaUnion
      <4> QED BY <3>3, <4>2
    <3> QED BY <3>4, <3>5, <3>6
  <2>3. CASE k > j
    <3>1. u[k] = t[k+1] /\ k + 1 \in 1..Len(t)
      BY <1>1, <1>3, <2>3
    <3> QED BY <1>5, <3>1
  <2> QED BY <1>1, <2>1, <2>2, <2>3
<1>8. ASSUME NEW k \in 1..(Len(u) - 1) PROVE u[k+1].ini = u[k].fin + 1
  <2>1. /\ k \in 1..Len(u) /\ k + 1 \in 1..Len(u)
        /\ k \in 1..(Len(t) - 1) /\ k + 1 \in 1..(Len(t) - 1)
    BY <1>1
  <2>2. t[k+1].ini = t[k].fin + 1 /\ t[(k+1)+1].ini = t[k+1].fin + 1
    BY <2>1 DEF Cortada
  <2>3. CASE k + 1 < j
    BY <1>1, <1>3, <2>1, <2>2, <2>3
  <2>4. CASE k + 1 = j
    BY <1>1, <1>3, <1>4, <2>1, <2>2, <2>4
  <2>5. CASE k = j
    BY <1>1, <1>3, <1>4, <2>1, <2>2, <2>5
  <2>6. CASE k > j
    <3>1. u[k] = t[k+1] /\ u[k+1] = t[(k+1)+1]
      BY <1>1, <1>3, <2>1, <2>6
    <3> QED BY <2>2, <3>1
  <2> QED BY <1>1, <2>3, <2>4, <2>5, <2>6
<1>9. ASSUME NEW h \in DOMAIN u, NEW k \in DOMAIN u, h < k PROVE u[h].fin < u[k].ini
  <2>1. \A a, b \in 1..Len(t) : a < b => t[a].fin < t[b].ini
    BY <1>1 DEF Cortada
  <2>2. CASE k < j
    <3>1. u[h] = t[h] /\ u[k] = t[k] /\ h \in 1..Len(t) /\ k \in 1..Len(t)
      BY <1>1, <1>3, <1>9, <2>2
    <3> QED BY <1>9, <2>1, <3>1
  <2>3. CASE k = j
    <3>1. u[h] = t[h] /\ h \in 1..Len(t) /\ h < j
      BY <1>1, <1>3, <1>9, <2>3
    <3> QED BY <1>4, <2>1, <2>3, <3>1
  <2>4. CASE k > j
    <3>1. u[k] = t[k+1] /\ k + 1 \in 1..Len(t)
      BY <1>1, <1>3, <2>4
    <3>2. CASE h < j
      <4>1. u[h] = t[h] /\ h \in 1..Len(t) /\ h < k + 1
        BY <1>1, <1>3, <1>9, <3>2
      <4> QED BY <2>1, <3>1, <4>1
    <3>3. CASE h = j
      <4>1. u[h].fin = t[h+1].fin /\ h + 1 \in 1..Len(t) /\ h + 1 < k + 1
        BY <1>1, <1>4, <1>9, <3>3
      <4> QED BY <2>1, <3>1, <4>1
    <3>4. CASE h > j
      <4>1. u[h] = t[h+1] /\ h + 1 \in 1..Len(t) /\ h + 1 < k + 1
        BY <1>1, <1>3, <1>9, <3>4
      <4> QED BY <2>1, <3>1, <4>1
    <3> QED BY <1>1, <3>2, <3>3, <3>4
  <2> QED BY <1>1, <2>2, <2>3, <2>4
<1>10. u[1].ini = 0
  <2>1. t[1].ini = 0
    BY <1>1 DEF Cortada
  <2>2. CASE j = 1
    BY <1>4, <2>1, <2>2
  <2>3. CASE j > 1
    BY <1>1, <1>3, <2>1, <2>3
  <2> QED BY <1>1, <2>2, <2>3
<1>11. u # <<>> /\ u[Len(u)].fin = t[Len(t)].fin
  <2>1. u # <<>> /\ Len(u) \in 1..Len(u) /\ Len(u) + 1 = Len(t)
    BY <1>1
  <2>2. CASE j = Len(u)
    BY <1>4, <2>1, <2>2
  <2>3. CASE Len(u) > j
    <3>1. u[Len(u)] = t[Len(u)+1]
      BY <1>3, <2>1, <2>3
    <3> QED BY <2>1, <3>1
  <2>4. Len(u) = j \/ Len(u) > j
    BY <1>0
  <2> QED BY <2>1, <2>2, <2>3, <2>4
<1> QED BY <1>7, <1>8, <1>9, <1>10, <1>11 DEF Cortada, LlegaAlFinal

\* The occupied partitions of t and u are the same, perhaps at other places.
MismasLlenas(t, u) ==
  /\ Llenas(u) = Llenas(t)
  /\ Distintas(t) => Distintas(u)
  /\ Marcada(t) => Marcada(u)

LEMMA UnidaMismasLlenas ==
  ASSUME NEW t \in Seq(Registro), NEW u, NEW j, Unida(t, u, j)
  PROVE  MismasLlenas(t, u) /\ \A n : IdsHasta(t, n) => IdsHasta(u, n)
<1>1. Len(t) \in Nat /\ j \in 1..(Len(t) - 1)
  BY LenProperties DEF Unida
<1>2. DOMAIN t = 1..Len(t) /\ DOMAIN u = 1..(Len(t) - 1)
  BY LenProperties DEF Unida
<1>3. \A k \in 1..(j - 1) : u[k] = t[k]
  BY DEF Unida
<1>4. \A k \in (j + 1)..(Len(t) - 1) : u[k] = t[k+1]
  BY DEF Unida
<1>5. ~t[j].ocupada /\ ~t[j+1].ocupada /\ ~u[j].ocupada
  BY DEF Unida
<1>6. ASSUME NEW k \in Ocupadas(u)
      PROVE  \/ k \in 1..(j - 1) /\ k \in Ocupadas(t) /\ u[k] = t[k]
             \/ k \in (j + 1)..(Len(t) - 1) /\ k + 1 \in Ocupadas(t) /\ u[k] = t[k+1]
  <2>1. k \in 1..(Len(t) - 1) /\ k # j /\ u[k].ocupada
    BY <1>2, <1>5 DEF Ocupadas
  <2>2. CASE k < j
    <3>1. k \in 1..(j - 1) /\ k \in 1..Len(t)
      BY <1>1, <2>1, <2>2
    <3> QED BY <1>2, <1>3, <2>1, <3>1 DEF Ocupadas
  <2>3. CASE k > j
    <3>1. k \in (j + 1)..(Len(t) - 1) /\ k + 1 \in 1..Len(t)
      BY <1>1, <2>1, <2>3
    <3>2. u[k] = t[k+1]
      BY <1>4, <3>1
    <3> QED BY <1>2, <2>1, <3>1, <3>2 DEF Ocupadas
  <2> QED BY <1>1, <2>1, <2>2, <2>3
<1>7. ASSUME NEW k \in Ocupadas(t)
      PROVE  \E h \in Ocupadas(u) : u[h] = t[k]
  <2>1. k \in 1..Len(t) /\ k # j /\ k # j + 1 /\ t[k].ocupada
    BY <1>2, <1>5 DEF Ocupadas
  <2>2. CASE k < j
    <3>1. k \in 1..(j - 1) /\ k \in 1..(Len(t) - 1)
      BY <1>1, <2>1, <2>2
    <3> QED BY <1>2, <1>3, <2>1, <3>1 DEF Ocupadas
  <2>3. CASE k > j
    <3>1. k - 1 \in (j + 1)..(Len(t) - 1) /\ (k - 1) + 1 = k /\ k - 1 \in 1..(Len(t) - 1)
      BY <1>1, <2>1, <2>3
    <3>2. u[k-1] = t[k]
      BY <1>4, <3>1
    <3> QED BY <1>2, <2>1, <3>1, <3>2 DEF Ocupadas
  <2> QED BY <1>1, <2>1, <2>2, <2>3
<1>8. Llenas(u) = Llenas(t)
  BY <1>6, <1>7 DEF Llenas
<1>9. ASSUME Distintas(t), NEW h \in Ocupadas(u), NEW k \in Ocupadas(u), u[h].msg = u[k].msg
      PROVE  h = k
  <2>1. \A a, b \in Ocupadas(t) : t[a].msg = t[b].msg => a = b
    BY <1>9 DEF Distintas
  <2>2. CASE h \in 1..(j - 1) /\ h \in Ocupadas(t) /\ u[h] = t[h]
    <3>1. CASE k \in 1..(j - 1) /\ k \in Ocupadas(t) /\ u[k] = t[k]
      BY <1>9, <2>1, <2>2, <3>1
    <3>2. CASE k \in (j + 1)..(Len(t) - 1) /\ k + 1 \in Ocupadas(t) /\ u[k] = t[k+1]
      <4>1. h = k + 1
        BY <1>9, <2>1, <2>2, <3>2
      <4> QED BY <1>1, <2>2, <3>2, <4>1
    <3> QED BY <1>6, <3>1, <3>2
  <2>3. CASE h \in (j + 1)..(Len(t) - 1) /\ h + 1 \in Ocupadas(t) /\ u[h] = t[h+1]
    <3>1. CASE k \in 1..(j - 1) /\ k \in Ocupadas(t) /\ u[k] = t[k]
      <4>1. h + 1 = k
        BY <1>9, <2>1, <2>3, <3>1
      <4> QED BY <1>1, <2>3, <3>1, <4>1
    <3>2. CASE k \in (j + 1)..(Len(t) - 1) /\ k + 1 \in Ocupadas(t) /\ u[k] = t[k+1]
      <4>1. h + 1 = k + 1
        BY <1>9, <2>1, <2>3, <3>2
      <4> QED BY <1>1, <2>3, <3>2, <4>1
    <3> QED BY <1>6, <3>1, <3>2
  <2> QED BY <1>6, <2>2, <2>3
<1>10. ASSUME NEW k \in DOMAIN u
       PROVE  \/ \E h \in DOMAIN t : u[k] = t[h]
              \/ /\ ~u[k].ocupada
                 /\ \E h \in DOMAIN t : ~t[h].ocupada /\ u[k].msg = t[h].msg /\ u[k].id = t[h].id
  <2>1. CASE k < j
    <3>1. k \in 1..(j - 1) /\ k \in 1..Len(t)
      BY <1>1, <1>2, <2>1
    <3> QED BY <1>2, <1>3, <3>1
  <2>2. CASE k = j
    <3>1. \/ u[j].msg = t[j].msg /\ u[j].id = t[j].id
          \/ u[j].msg = t[j+1].msg /\ u[j].id = t[j+1].id
      BY DEF Unida
    <3>2. j \in 1..Len(t) /\ j + 1 \in 1..Len(t)
      BY <1>1
    <3> QED BY <1>2, <1>5, <2>2, <3>1, <3>2
  <2>3. CASE k > j
    <3>1. k \in (j + 1)..(Len(t) - 1) /\ k + 1 \in 1..Len(t)
      BY <1>1, <1>2, <2>3
    <3>2. u[k] = t[k+1]
      BY <1>4, <3>1
    <3> QED BY <1>2, <3>1, <3>2
  <2> QED BY <1>1, <1>2, <2>1, <2>2, <2>3
<1>11. Marcada(t) => Marcada(u)
  BY <1>10 DEF Marcada
<1>12. \A n : IdsHasta(t, n) => IdsHasta(u, n)
  BY <1>10 DEF IdsHasta
<1>13. Distintas(t) => Distintas(u)
  BY <1>9 DEF Distintas
<1> QED BY <1>8, <1>11, <1>12, <1>13 DEF MismasLlenas

LEMMA PartidaMismasLlenas ==
  ASSUME NEW t \in Seq(Registro), NEW u, NEW i \in 1..Len(t), NEW p, NEW q,
         Partida(t, u, i, p, q), ~t[i].ocupada, ~p.ocupada, ~q.ocupada
  PROVE  /\ Llenas(u) = Llenas(t)
         /\ Distintas(t) => Distintas(u)
         /\ Marcada(t) /\ p.msg = SinMensaje /\ q.msg = SinMensaje => Marcada(u)
         /\ \A n : IdsHasta(t, n) /\ p.id <= n /\ q.id <= n => IdsHasta(u, n)
<1>1. Len(t) \in Nat /\ i \in 1..Len(t)
  BY LenProperties
<1>2. DOMAIN t = 1..Len(t) /\ DOMAIN u = 1..(Len(t) + 1)
  BY LenProperties DEF Partida
<1>3. \A k \in 1..(i - 1) : u[k] = t[k]
  BY DEF Partida
<1>4. \A k \in (i + 1)..Len(t) : u[k+1] = t[k]
  BY DEF Partida
<1>5. u[i] = p /\ u[i+1] = q
  BY DEF Partida
<1>6. ASSUME NEW k \in DOMAIN u
      PROVE  \/ k \in 1..(i - 1) /\ k \in 1..Len(t) /\ u[k] = t[k]
             \/ k = i /\ u[k] = p
             \/ k = i + 1 /\ u[k] = q
             \/ k - 1 \in (i + 1)..Len(t) /\ k - 1 \in 1..Len(t) /\ u[k] = t[k-1]
  <2>1. CASE k < i
    <3>1. k \in 1..(i - 1) /\ k \in 1..Len(t)
      BY <1>1, <1>2, <2>1
    <3> QED BY <1>3, <3>1
  <2>2. CASE k > i + 1
    <3>1. k - 1 \in (i + 1)..Len(t) /\ k - 1 \in 1..Len(t) /\ (k - 1) + 1 = k
      BY <1>1, <1>2, <2>2
    <3>2. u[(k-1)+1] = t[k-1]
      BY <1>4, <3>1
    <3> QED BY <3>1, <3>2
  <2>3. k < i \/ k = i \/ k = i + 1 \/ k > i + 1
    BY <1>1, <1>2
  <2> QED BY <1>5, <2>1, <2>2, <2>3
<1>7. ASSUME NEW k \in Ocupadas(u)
      PROVE  \/ k \in 1..(i - 1) /\ k \in Ocupadas(t) /\ u[k] = t[k]
             \/ k - 1 \in (i + 1)..Len(t) /\ k - 1 \in Ocupadas(t) /\ u[k] = t[k-1]
  <2>1. k \in DOMAIN u /\ u[k].ocupada
    BY DEF Ocupadas
  <2> QED BY <1>2, <1>6, <2>1 DEF Ocupadas
<1>8. ASSUME NEW k \in Ocupadas(t)
      PROVE  \E h \in Ocupadas(u) : u[h] = t[k]
  <2>1. k \in 1..Len(t) /\ k # i /\ t[k].ocupada
    BY <1>2 DEF Ocupadas
  <2>2. CASE k < i
    <3>1. k \in 1..(i - 1) /\ k \in 1..(Len(t) + 1)
      BY <1>1, <2>1, <2>2
    <3> QED BY <1>2, <1>3, <2>1, <3>1 DEF Ocupadas
  <2>3. CASE k > i
    <3>1. k \in (i + 1)..Len(t) /\ k + 1 \in 1..(Len(t) + 1)
      BY <1>1, <2>1, <2>3
    <3>2. u[k+1] = t[k]
      BY <1>4, <3>1
    <3> QED BY <1>2, <2>1, <3>1, <3>2 DEF Ocupadas
  <2> QED BY <1>1, <2>1, <2>2, <2>3
<1>9. Llenas(u) = Llenas(t)
  BY <1>7, <1>8 DEF Llenas
<1>10. ASSUME Distintas(t), NEW h \in Ocupadas(u), NEW k \in Ocupadas(u), u[h].msg = u[k].msg
       PROVE  h = k
  <2>1. \A a, b \in Ocupadas(t) : t[a].msg = t[b].msg => a = b
    BY <1>10 DEF Distintas
  <2>2. h \in 1..(Len(t) + 1) /\ k \in 1..(Len(t) + 1)
    BY <1>2 DEF Ocupadas
  <2>3. CASE h \in 1..(i - 1) /\ h \in Ocupadas(t) /\ u[h] = t[h]
    <3>1. CASE k \in 1..(i - 1) /\ k \in Ocupadas(t) /\ u[k] = t[k]
      BY <1>10, <2>1, <2>3, <3>1
    <3>2. CASE k - 1 \in (i + 1)..Len(t) /\ k - 1 \in Ocupadas(t) /\ u[k] = t[k-1]
      <4>1. h = k - 1
        BY <1>10, <2>1, <2>3, <3>2
      <4> QED BY <1>1, <2>2, <2>3, <3>2, <4>1
    <3> QED BY <1>7, <3>1, <3>2
  <2>4. CASE h - 1 \in (i + 1)..Len(t) /\ h - 1 \in Ocupadas(t) /\ u[h] = t[h-1]
    <3>1. CASE k \in 1..(i - 1) /\ k \in Ocupadas(t) /\ u[k] = t[k]
      <4>1. h - 1 = k
        BY <1>10, <2>1, <2>4, <3>1
      <4> QED BY <1>1, <2>2, <2>4, <3>1, <4>1
    <3>2. CASE k - 1 \in (i + 1)..Len(t) /\ k - 1 \in Ocupadas(t) /\ u[k] = t[k-1]
      <4>1. h - 1 = k - 1
        BY <1>10, <2>1, <2>4, <3>2
      <4> QED BY <2>2, <4>1
    <3> QED BY <1>7, <3>1, <3>2
  <2> QED BY <1>7, <2>3, <2>4
<1>11. Distintas(t) => Distintas(u)
  BY <1>10 DEF Distintas
<1>12. ASSUME NEW k \in DOMAIN u
       PROVE  u[k] = p \/ u[k] = q \/ \E h \in DOMAIN t : u[k] = t[h]
  BY <1>2, <1>6
<1>13. ASSUME Marcada(t), p.msg = SinMensaje, q.msg = SinMensaje PROVE Marcada(u)
  BY <1>12, <1>13 DEF Marcada
<1>14. ASSUME NEW n, IdsHasta(t, n), p.id <= n, q.id <= n PROVE IdsHasta(u, n)
  BY <1>12, <1>14 DEF IdsHasta
<1> QED BY <1>9, <1>11, <1>13, <1>14

LEMMA PartidaCortada ==
  ASSUME NEW t \in Seq(Registro), NEW u, NEW i \in 1..Len(t),
         NEW p \in Registro, NEW q \in Registro,
         Partida(t, u, i, p, q), Cortada(t),
         p.ini = t[i].ini, 0 < p.size, p.fin = p.ini + p.size - 1,
         q.ini = p.fin + 1, 0 < q.size, q.fin = q.ini + q.size - 1, q.fin = t[i].fin
  PROVE  Cortada(u) /\ (LlegaAlFinal(t) => LlegaAlFinal(u))
<1>0. Len(t) \in Nat /\ i \in 1..Len(t) /\ Len(u) = Len(t) + 1
  BY LenProperties DEF Partida
<1>1. DOMAIN t = 1..Len(t) /\ DOMAIN u = 1..(Len(t) + 1)
  BY LenProperties DEF Partida
<1>2. \A k \in 1..(i - 1) : u[k] = t[k]
  BY DEF Partida
<1>3. \A k \in (i + 1)..Len(t) : u[k+1] = t[k]
  BY DEF Partida
<1>4. u[i] = p /\ u[i+1] = q
  BY DEF Partida
<1>5. \A k \in 1..Len(t) :
        /\ t[k] \in Registro
        /\ 0 <= t[k].ini /\ 0 < t[k].size /\ t[k].fin < TAMANO_MEMORIA
        /\ t[k].fin = t[k].ini + t[k].size - 1
  BY <1>1, ElementOfSeq DEF Cortada
<1>6. \A k \in 1..(Len(t) - 1) : t[k+1].ini = t[k].fin + 1
  BY DEF Cortada
<1>7. \A a, b \in 1..Len(t) : a < b => t[a].fin < t[b].ini
  BY <1>1 DEF Cortada
<1>8. t[1].ini = 0
  BY <1>0 DEF Cortada
<1>9. TAMANO_MEMORIA \in Nat
  BY ConstantesValidas
\* The borders of the two parts.
<1>10. /\ 0 <= p.ini /\ p.fin < TAMANO_MEMORIA
       /\ 0 <= q.ini /\ q.fin < TAMANO_MEMORIA
       /\ p.ini <= p.fin /\ p.fin < q.ini /\ q.ini <= q.fin
  <2>1. /\ p.ini \in Int /\ p.fin \in Int /\ p.size \in Int
        /\ q.ini \in Int /\ q.fin \in Int /\ q.size \in Int
    BY DEF Registro
  <2>2. 0 <= p.ini /\ q.fin < TAMANO_MEMORIA
    BY <1>5
  <2>3. p.ini <= p.fin /\ p.fin < q.ini /\ q.ini <= q.fin
    BY <2>1
  <2> QED BY <1>9, <2>1, <2>2, <2>3
<1>11. ASSUME NEW k \in 1..(Len(t) + 1)
       PROVE  \/ k \in 1..(i - 1) /\ k \in 1..Len(t) /\ u[k] = t[k]
              \/ k = i /\ u[k] = p
              \/ k = i + 1 /\ u[k] = q
              \/ k - 1 \in (i + 1)..Len(t) /\ k - 1 \in 1..Len(t) /\ u[k] = t[k-1]
  <2>1. CASE k < i
    <3>1. k \in 1..(i - 1) /\ k \in 1..Len(t)
      BY <1>0, <2>1
    <3> QED BY <1>2, <3>1
  <2>2. CASE k > i + 1
    <3>1. k - 1 \in (i + 1)..Len(t) /\ k - 1 \in 1..Len(t) /\ (k - 1) + 1 = k
      BY <1>0, <2>2
    <3>2. u[(k-1)+1] = t[k-1]
      BY <1>3, <3>1
    <3> QED BY <3>1, <3>2
  <2>3. k < i \/ k = i \/ k = i + 1 \/ k > i + 1
    BY <1>0
  <2> QED BY <1>4, <2>1, <2>2, <2>3
<1>12. ASSUME NEW k \in DOMAIN u
       PROVE  0 <= u[k].ini /\ 0 < u[k].size /\ u[k].fin < TAMANO_MEMORIA
              /\ u[k].fin = u[k].ini + u[k].size - 1
  <2>1. CASE k \in 1..Len(t) /\ u[k] = t[k]
    BY <1>5, <2>1
  <2>2. CASE k - 1 \in 1..Len(t) /\ u[k] = t[k-1]
    BY <1>5, <2>2
  <2>3. CASE u[k] = p
    BY <1>10, <2>3
  <2>4. CASE u[k] = q
    BY <1>10, <2>4
  <2> QED BY <1>1, <1>11, <2>1, <2>2, <2>3, <2>4
<1>13. ASSUME NEW k \in 1..Len(t) PROVE u[k+1].ini = u[k].fin + 1
  <2>1. CASE k + 1 < i
    <3>1. k \in 1..(i - 1) /\ k + 1 \in 1..(i - 1) /\ k \in 1..(Len(t) - 1)
      BY <1>0, <2>1
    <3>2. u[k] = t[k] /\ u[k+1] = t[k+1]
      BY <1>2, <3>1
    <3> QED BY <1>6, <3>1, <3>2
  <2>2. CASE k + 1 = i
    <3>1. k \in 1..(i - 1) /\ k \in 1..(Len(t) - 1)
      BY <1>0, <2>2
    <3>2. u[k] = t[k] /\ u[k+1] = p /\ t[k+1] = t[i]
      BY <1>2, <1>4, <2>2, <3>1
    <3> QED BY <1>6, <3>1, <3>2
  <2>3. CASE k = i
    BY <1>4, <2>3
  <2>4. CASE k = i + 1
    <3>1. i \in 1..(Len(t) - 1) /\ k \in (i + 1)..Len(t)
      BY <1>0, <2>4
    <3>2. u[k] = q /\ u[k+1] = t[k] /\ t[k] = t[i+1]
      BY <1>3, <1>4, <2>4, <3>1
    <3> QED BY <1>6, <3>1, <3>2
  <2>5. CASE k > i + 1
    <3>1. /\ k \in (i + 1)..Len(t) /\ k - 1 \in (i + 1)..Len(t) /\ (k - 1) + 1 = k
          /\ k - 1 \in 1..(Len(t) - 1)
      BY <1>0, <2>5
    <3>2. u[k+1] = t[k] /\ u[(k-1)+1] = t[k-1]
      BY <1>3, <3>1
    <3>3. t[(k-1)+1].ini = t[k-1].fin + 1
      BY <1>6, <3>1
    <3> QED BY <3>1, <3>2, <3>3
  <2> QED BY <1>0, <2>1, <2>2, <2>3, <2>4, <2>5
<1>14. ASSUME NEW h \in DOMAIN u, NEW k \in DOMAIN u, h < k PROVE u[h].fin < u[k].ini
  <2>0. h \in 1..(Len(t) + 1) /\ k \in 1..(Len(t) + 1)
    BY <1>1
  <2>1. CASE k \in 1..(i - 1) /\ k \in 1..Len(t) /\ u[k] = t[k]
    <3>1. h \in 1..(i - 1) /\ h \in 1..Len(t)
      BY <1>0, <1>14, <2>0, <2>1
    <3>2. u[h] = t[h]
      BY <1>2, <3>1
    <3> QED BY <1>7, <1>14, <2>1, <3>1, <3>2
  <2>2. CASE k = i /\ u[k] = p
    <3>1. h \in 1..(i - 1) /\ h \in 1..Len(t)
      BY <1>0, <1>14, <2>0, <2>2
    <3>2. u[h] = t[h]
      BY <1>2, <3>1
    <3>3. t[h].fin < t[i].ini
      BY <1>7, <1>14, <2>2, <3>1
    <3> QED BY <2>2, <3>2, <3>3
  <2>3. CASE k = i + 1 /\ u[k] = q
    <3>1. CASE h < i
      <4>1. h \in 1..(i - 1) /\ h \in 1..Len(t)
        BY <1>0, <2>0, <3>1
      <4>2. u[h] = t[h] /\ t[h].fin < t[i].ini
        BY <1>2, <1>7, <3>1, <4>1
      <4>3. t[h].fin \in Int /\ p.ini \in Int /\ p.fin \in Int /\ q.ini \in Int
        BY <1>5, <4>1 DEF Registro
      <4> QED BY <1>10, <2>3, <4>2, <4>3
    <3>2. CASE h = i
      BY <1>4, <1>10, <2>3, <3>2
    <3> QED BY <1>0, <1>14, <2>0, <2>3, <3>1, <3>2
  <2>4. CASE k - 1 \in (i + 1)..Len(t) /\ k - 1 \in 1..Len(t) /\ u[k] = t[k-1]
    <3>1. CASE h \in 1..(i - 1) /\ h \in 1..Len(t) /\ u[h] = t[h]
      <4>1. h < k - 1
        BY <1>0, <2>0, <2>4, <3>1
      <4> QED BY <1>7, <2>4, <3>1, <4>1
    <3>2. CASE h \in {i, i + 1}
      <4>1. u[h].fin <= t[i].fin
        <5>1. p.fin \in Int /\ q.fin \in Int /\ q.ini \in Int
          BY DEF Registro
        <5>2. p.fin <= q.fin
          BY <1>10, <5>1
        <5> QED BY <1>4, <3>2, <5>1, <5>2
      <4>2. t[i].fin < t[k-1].ini
        <5>1. i < k - 1
          BY <1>0, <2>0, <2>4
        <5> QED BY <1>7, <2>4, <5>1
      <4>3. u[h].fin \in Int /\ t[i].fin \in Int /\ t[k-1].ini \in Int
        <5>1. u[h] \in Registro
          BY <1>4, <3>2
        <5> QED BY <1>5, <2>4, <5>1 DEF Registro
      <4> QED BY <2>4, <4>1, <4>2, <4>3
    <3>3. CASE h - 1 \in (i + 1)..Len(t) /\ h - 1 \in 1..Len(t) /\ u[h] = t[h-1]
      <4>1. h - 1 < k - 1
        BY <1>14, <2>0
      <4> QED BY <1>7, <2>4, <3>3, <4>1
    <3> QED BY <1>11, <2>0, <3>1, <3>2, <3>3
  <2> QED BY <1>11, <2>0, <2>1, <2>2, <2>3, <2>4
<1>15. u[1].ini = 0
  <2>1. CASE i = 1
    BY <1>4, <1>8, <2>1
  <2>2. CASE i > 1
    <3>1. 1 \in 1..(i - 1)
      BY <1>0, <2>2
    <3> QED BY <1>2, <1>8, <3>1
  <2> QED BY <1>0, <2>1, <2>2
<1>16. u # <<>> /\ u[Len(u)].fin = t[Len(t)].fin
  <2>1. u # <<>>
    BY <1>0, <1>1
  <2>2. CASE i = Len(t)
    BY <1>0, <1>4, <2>2
  <2>3. CASE i < Len(t)
    <3>1. Len(t) \in (i + 1)..Len(t)
      BY <1>0, <2>3
    <3> QED BY <1>0, <1>3, <2>1, <3>1
  <2>4. i = Len(t) \/ i < Len(t)
    BY <1>0
  <2> QED BY <2>1, <2>2, <2>3, <2>4
<1>17. Len(u) - 1 = Len(t)
  BY <1>0
<1> QED BY <1>12, <1>13, <1>14, <1>15, <1>16, <1>17 DEF Cortada, LlegaAlFinal

\* Partition i of t becomes p, at the same place of the memory.
LEMMA CambiadaPuntual ==
  ASSUME NEW t \in Seq(Registro), NEW i \in 1..Len(t), NEW p \in Registro,
         p.ini = t[i].ini, p.fin = t[i].fin, p.size = t[i].size
  PROVE  LET u == [t EXCEPT ![i] = p]
         IN  /\ u \in Seq(Registro) /\ Len(u) = Len(t) /\ DOMAIN u = DOMAIN t
             /\ u[i] = p /\ \A k \in DOMAIN t : k # i => u[k] = t[k]
             /\ Cortada(t) => Cortada(u)
             /\ LlegaAlFinal(t) => LlegaAlFinal(u)
             /\ Marcada(t) /\ (p.ocupada <=> p.msg # SinMensaje) => Marcada(u)
             /\ \A m, n : IdsHasta(t, m) /\ m \in Nat /\ n \in Nat /\ m <= n /\ p.id <= n
                            => IdsHasta(u, n)
<1> DEFINE u == [t EXCEPT ![i] = p]
<1>1. u \in Seq(Registro) /\ Len(u) = Len(t) /\ \A k \in 1..Len(t) : u[k] = IF k = i THEN p ELSE t[k]
  BY ExceptSeq
<1>2. Len(t) \in Nat /\ DOMAIN t = 1..Len(t) /\ DOMAIN u = 1..Len(t)
  BY <1>1, LenProperties
<1> HIDE DEF u
<1>3. u[i] = p /\ \A k \in DOMAIN t : k # i => u[k] = t[k]
  BY <1>1, <1>2
<1>4. \A k \in 1..Len(t) : u[k].ini = t[k].ini /\ u[k].fin = t[k].fin /\ u[k].size = t[k].size
  BY <1>2, <1>3
<1>5. Cortada(t) => Cortada(u)
  <2> SUFFICES ASSUME Cortada(t) PROVE Cortada(u)
    OBVIOUS
  <2>1. ASSUME NEW k \in DOMAIN u
        PROVE  0 <= u[k].ini /\ 0 < u[k].size /\ u[k].fin < TAMANO_MEMORIA
               /\ u[k].fin = u[k].ini + u[k].size - 1
    BY <1>2, <1>4 DEF Cortada
  <2>2. ASSUME NEW k \in 1..(Len(u) - 1) PROVE u[k+1].ini = u[k].fin + 1
    <3>1. k \in 1..Len(t) /\ k + 1 \in 1..Len(t) /\ k \in 1..(Len(t) - 1)
      BY <1>1, <1>2
    <3> QED BY <1>4, <3>1 DEF Cortada
  <2>3. ASSUME NEW h \in DOMAIN u, NEW k \in DOMAIN u, h < k PROVE u[h].fin < u[k].ini
    BY <1>2, <1>4, <2>3 DEF Cortada
  <2>4. u[1].ini = 0
    BY <1>2, <1>4 DEF Cortada
  <2> QED BY <2>1, <2>2, <2>3, <2>4 DEF Cortada
<1>6. LlegaAlFinal(t) => LlegaAlFinal(u)
  <2>1. u # <<>> /\ Len(t) \in 1..Len(t) /\ Len(u) = Len(t)
    BY <1>1, <1>2
  <2> QED BY <1>4, <2>1 DEF LlegaAlFinal
<1>7. Marcada(t) /\ (p.ocupada <=> p.msg # SinMensaje) => Marcada(u)
  BY <1>2, <1>3 DEF Marcada
<1>8. ASSUME NEW m \in Nat, NEW n \in Nat, IdsHasta(t, m), m <= n, p.id <= n
      PROVE  IdsHasta(u, n)
  <2>1. ASSUME NEW k \in DOMAIN u PROVE u[k].id <= n
    <3>1. CASE k = i
      BY <1>3, <1>8, <3>1
    <3>2. CASE k # i
      <4>1. u[k] = t[k] /\ t[k].id <= m
        BY <1>2, <1>3, <1>8, <3>2 DEF IdsHasta
      <4>2. t[k].id \in Nat
        <5>1. t[k] \in Registro
          BY <1>2, ElementOfSeq
        <5> QED BY <5>1 DEF Registro
      <4> QED BY <1>8, <4>1, <4>2
    <3> QED BY <3>1, <3>2
  <2> QED BY <2>1 DEF IdsHasta
<1> QED BY <1>1, <1>2, <1>3, <1>5, <1>6, <1>7, <1>8 DEF u

LEMMA LlenasAlCambiar ==
  ASSUME NEW t \in Seq(Registro), NEW u, NEW i \in 1..Len(t), DOMAIN u = DOMAIN t,
         \A k \in DOMAIN t : k # i => u[k] = t[k]
  PROVE  \* a message comes into a free partition
         /\ ~t[i].ocupada /\ u[i].ocupada =>
              /\ Llenas(u) = Llenas(t) \cup {u[i]}
              /\ Distintas(t) /\ (\A p \in Llenas(t) : p.msg # u[i].msg) => Distintas(u)
         \* a partition is freed
         /\ t[i].ocupada /\ ~u[i].ocupada /\ Distintas(t) =>
              Llenas(u) = Llenas(t) \ {t[i]} /\ Distintas(u)
         \* the message stays
         /\ t[i].ocupada /\ u[i].ocupada /\ u[i].msg = t[i].msg /\ Distintas(t) =>
              Llenas(u) = (Llenas(t) \ {t[i]}) \cup {u[i]} /\ Distintas(u)
<1>1. i \in DOMAIN t
  BY LenProperties
<1>2. Ocupadas(u) \ {i} = Ocupadas(t) \ {i}
  BY DEF Ocupadas
<1>3. \A k \in Ocupadas(t) \ {i} : u[k] = t[k]
  BY DEF Ocupadas
<1>4. ASSUME ~t[i].ocupada, u[i].ocupada
      PROVE  /\ Llenas(u) = Llenas(t) \cup {u[i]}
             /\ Distintas(t) /\ (\A p \in Llenas(t) : p.msg # u[i].msg) => Distintas(u)
  <2>1. i \in Ocupadas(u) /\ i \notin Ocupadas(t)
    BY <1>1, <1>4 DEF Ocupadas
  <2>2. Llenas(u) = Llenas(t) \cup {u[i]}
    BY <1>2, <1>3, <2>1 DEF Llenas
  <2>3. ASSUME Distintas(t), \A p \in Llenas(t) : p.msg # u[i].msg PROVE Distintas(u)
    <3>1. \A k \in Ocupadas(t) : t[k].msg # u[i].msg
      BY <2>3 DEF Llenas
    <3> QED BY <1>2, <1>3, <2>1, <2>3, <3>1 DEF Distintas
  <2> QED BY <2>2, <2>3
<1>5. ASSUME t[i].ocupada, ~u[i].ocupada, Distintas(t)
      PROVE  Llenas(u) = Llenas(t) \ {t[i]} /\ Distintas(u)
  <2>1. i \notin Ocupadas(u) /\ i \in Ocupadas(t)
    BY <1>1, <1>5 DEF Ocupadas
  <2>2. \A k \in Ocupadas(t) : t[k] = t[i] => k = i
    BY <1>5, <2>1 DEF Distintas
  <2>3. Llenas(u) = Llenas(t) \ {t[i]}
    BY <1>2, <1>3, <2>1, <2>2 DEF Llenas
  <2>4. Distintas(u)
    BY <1>2, <1>3, <1>5, <2>1 DEF Distintas
  <2> QED BY <2>3, <2>4
<1>6. ASSUME t[i].ocupada, u[i].ocupada, u[i].msg = t[i].msg, Distintas(t)
      PROVE  Llenas(u) = (Llenas(t) \ {t[i]}) \cup {u[i]} /\ Distintas(u)
  <2>1. i \in Ocupadas(u) /\ i \in Ocupadas(t)
    BY <1>1, <1>6 DEF Ocupadas
  <2>2. \A k \in Ocupadas(t) : t[k] = t[i] => k = i
    BY <1>6, <2>1 DEF Distintas
  <2>3. Llenas(u) = (Llenas(t) \ {t[i]}) \cup {u[i]}
    BY <1>2, <1>3, <2>1, <2>2 DEF Llenas
  <2>4. Distintas(u)
    BY <1>2, <1>3, <1>6, <2>1 DEF Distintas
  <2> QED BY <2>3, <2>4
<1> QED BY <1>4, <1>5, <1>6

-----------------------------------------------------------------------------
(* Neighbouring free partitions *)

SinVecinasLibres(t) == \A k \in 1..(Len(t) - 1) : t[k].ocupada \/ t[k+1].ocupada

\* Only partition i may have a free neighbour.
SinVecinasSalvo(t, i) ==
  \A k \in 1..(Len(t) - 1) : k # i - 1 /\ k # i => t[k].ocupada \/ t[k+1].ocupada

\* The compacted list: first the occupied partitions.
OcupadasPrimero(t) == \A j, k \in DOMAIN t : j < k /\ t[k].ocupada => t[j].ocupada

HayLibre(t) == \E k \in DOMAIN t : ~t[k].ocupada

LEMMA UnidaPorIzquierda ==
  ASSUME NEW t \in Seq(Registro), NEW u, NEW i \in 2..Len(t),
         Unida(t, u, i - 1), SinVecinasSalvo(t, i)
  PROVE  /\ SinVecinasSalvo(u, i - 1)
         /\ i - 1 # 1 => u[i-2].ocupada
<1>1. Len(t) \in Nat /\ Len(u) = Len(t) - 1 /\ i \in 2..Len(t)
  BY LenProperties DEF Unida
<1>2. \A k \in 1..(i - 2) : u[k] = t[k]
  <2>1. (i - 1) - 1 = i - 2
    BY <1>1
  <2> QED BY <2>1 DEF Unida
<1>3. \A k \in i..(Len(t) - 1) : u[k] = t[k+1]
  <2>1. (i - 1) + 1 = i
    BY <1>1
  <2> QED BY <2>1 DEF Unida
<1>4. ~t[i-1].ocupada
  BY DEF Unida
<1>5. \A k \in 1..(Len(t) - 1) : k # i - 1 /\ k # i => t[k].ocupada \/ t[k+1].ocupada
  BY DEF SinVecinasSalvo
<1>6. i - 1 # 1 => u[i-2].ocupada
  <2> SUFFICES ASSUME i - 1 # 1 PROVE u[i-2].ocupada
    OBVIOUS
  <2>1. i - 2 \in 1..(i - 2) /\ i - 2 \in 1..(Len(t) - 1) /\ (i - 2) + 1 = i - 1
        /\ i - 2 # i - 1 /\ i - 2 # i
    BY <1>1
  <2>2. t[i-2].ocupada \/ t[(i-2)+1].ocupada
    BY <1>5, <2>1
  <2> QED BY <1>2, <1>4, <2>1, <2>2
<1>7. ASSUME NEW k \in 1..(Len(u) - 1), k # (i - 1) - 1, k # i - 1
      PROVE  u[k].ocupada \/ u[k+1].ocupada
  <2>1. CASE k < i - 2
    <3>1. k \in 1..(i - 2) /\ k + 1 \in 1..(i - 2) /\ k \in 1..(Len(t) - 1)
          /\ k # i - 1 /\ k # i
      BY <1>1, <2>1
    <3>2. u[k] = t[k] /\ u[k+1] = t[k+1]
      BY <1>2, <3>1
    <3> QED BY <1>5, <3>1, <3>2
  <2>2. CASE k > i - 1
    <3>1. k \in i..(Len(t) - 1) /\ k + 1 \in i..(Len(t) - 1) /\ k + 1 \in 1..(Len(t) - 1)
          /\ k + 1 # i - 1 /\ k + 1 # i
      BY <1>1, <2>2
    <3>2. u[k] = t[k+1] /\ u[k+1] = t[(k+1)+1]
      BY <1>3, <3>1
    <3>3. t[k+1].ocupada \/ t[(k+1)+1].ocupada
      BY <1>5, <3>1
    <3> QED BY <3>2, <3>3
  <2>3. k < i - 2 \/ k > i - 1
    BY <1>1, <1>7
  <2> QED BY <2>1, <2>2, <2>3
<1> QED BY <1>6, <1>7 DEF SinVecinasSalvo

LEMMA UnidaPorDerecha ==
  ASSUME NEW t \in Seq(Registro), NEW u, NEW i \in 1..(Len(t) - 1),
         Unida(t, u, i), SinVecinasSalvo(t, i)
  PROVE  /\ SinVecinasSalvo(u, i)
         /\ i # Len(u) => u[i+1].ocupada
         /\ i # 1 => u[i-1] = t[i-1]
<1>1. Len(t) \in Nat /\ Len(u) = Len(t) - 1 /\ i \in 1..(Len(t) - 1)
  BY LenProperties DEF Unida
<1>2. \A k \in 1..(i - 1) : u[k] = t[k]
  BY DEF Unida
<1>3. \A k \in (i + 1)..(Len(t) - 1) : u[k] = t[k+1]
  BY DEF Unida
<1>4. ~t[i+1].ocupada
  BY DEF Unida
<1>5. \A k \in 1..(Len(t) - 1) : k # i - 1 /\ k # i => t[k].ocupada \/ t[k+1].ocupada
  BY DEF SinVecinasSalvo
<1>6. ASSUME i # Len(u) PROVE u[i+1].ocupada
  <2>1. i + 1 \in (i + 1)..(Len(t) - 1) /\ i + 1 \in 1..(Len(t) - 1) /\ i + 1 # i - 1 /\ i + 1 # i
    BY <1>1, <1>6
  <2>2. t[i+1].ocupada \/ t[(i+1)+1].ocupada
    BY <1>5, <2>1
  <2>3. u[i+1] = t[(i+1)+1]
    BY <1>3, <2>1
  <2> QED BY <1>4, <2>2, <2>3
<1>7. ASSUME i # 1 PROVE u[i-1] = t[i-1]
  <2>1. i - 1 \in 1..(i - 1)
    BY <1>1, <1>7
  <2> QED BY <1>2, <2>1
<1>8. ASSUME NEW k \in 1..(Len(u) - 1), k # i - 1, k # i
      PROVE  u[k].ocupada \/ u[k+1].ocupada
  <2>1. CASE k < i - 1
    <3>1. k \in 1..(i - 1) /\ k + 1 \in 1..(i - 1) /\ k \in 1..(Len(t) - 1)
      BY <1>1, <2>1
    <3>2. u[k] = t[k] /\ u[k+1] = t[k+1]
      BY <1>2, <3>1
    <3> QED BY <1>5, <1>8, <3>1, <3>2
  <2>2. CASE k > i
    <3>1. k \in (i + 1)..(Len(t) - 1) /\ k + 1 \in (i + 1)..(Len(t) - 1)
          /\ k + 1 \in 1..(Len(t) - 1) /\ k + 1 # i - 1 /\ k + 1 # i
      BY <1>1, <2>2
    <3>2. u[k] = t[k+1] /\ u[k+1] = t[(k+1)+1]
      BY <1>3, <3>1
    <3>3. t[k+1].ocupada \/ t[(k+1)+1].ocupada
      BY <1>5, <3>1
    <3> QED BY <3>2, <3>3
  <2>3. k < i - 1 \/ k > i
    BY <1>1, <1>8
  <2> QED BY <2>1, <2>2, <2>3
<1> QED BY <1>6, <1>7, <1>8 DEF SinVecinasSalvo

\* Under dynamic partitions consolidarParticion leaves its partition without
\* a free neighbour.
LEMMA ConsolidarSeparaLibres ==
  ASSUME NEW t \in Seq(Registro), NEW i \in 1..Len(t), ~t[i].ocupada,
         SinVecinasSalvo(t, i), ALGORITMO_MEMORIA # "BS"
  PROVE  SinVecinasLibres(consolidarParticion(t, i))
<1> DEFINE r == consolidarParticion(t, i)
           u == FusionarConAnterior(t, i)
<1>1. \A p, q : SeUnen(p, q) <=> ~p.ocupada /\ ~q.ocupada
  BY DEF SeUnen, AmbasLibres
<1>2. Len(t) \in Nat /\ i \in 1..Len(t)
  BY LenProperties
<1>3. \/ /\ r = t
         /\ i # 1 => ~SeUnen(t[i-1], t[i])
         /\ i # Len(t) => ~SeUnen(t[i], t[i+1])
      \/ /\ i # 1 /\ SeUnen(t[i-1], t[i]) /\ Unida(t, r, i - 1)
         /\ i # Len(t) => ~SeUnen(r[i-1], t[i+1])
      \/ /\ i # Len(t) /\ SeUnen(t[i], t[i+1]) /\ Unida(t, r, i)
         /\ i # 1 => ~SeUnen(t[i-1], t[i])
      \/ /\ i # 1 /\ SeUnen(t[i-1], t[i]) /\ Unida(t, u, i - 1)
         /\ SeUnen(u[i-1], u[i]) /\ Unida(u, r, i - 1)
  BY ConsolidarPuntual
<1> HIDE DEF r, u
<1>4. CASE /\ r = t
           /\ i # 1 => ~SeUnen(t[i-1], t[i])
           /\ i # Len(t) => ~SeUnen(t[i], t[i+1])
  <2>1. ASSUME NEW k \in 1..(Len(t) - 1) PROVE t[k].ocupada \/ t[k+1].ocupada
    <3>1. CASE k = i - 1
      <4>1. i # 1 /\ k + 1 = i
        BY <1>2, <3>1
      <4> QED BY <1>1, <1>4, <3>1, <4>1
    <3>2. CASE k = i
      <4>1. i # Len(t)
        BY <1>2, <3>2
      <4> QED BY <1>1, <1>4, <3>2, <4>1
    <3>3. CASE k # i - 1 /\ k # i
      BY <3>3 DEF SinVecinasSalvo
    <3> QED BY <3>1, <3>2, <3>3
  <2> QED BY <1>4, <2>1 DEF SinVecinasLibres, r
<1>5. CASE /\ i # 1 /\ SeUnen(t[i-1], t[i]) /\ Unida(t, r, i - 1)
           /\ i # Len(t) => ~SeUnen(r[i-1], t[i+1])
  <2>1. i \in 2..Len(t)
    BY <1>2, <1>5
  <2>2. SinVecinasSalvo(r, i - 1) /\ (i - 1 # 1 => r[i-2].ocupada)
    BY <1>5, <2>1, UnidaPorIzquierda
  <2>3. /\ Len(r) = Len(t) - 1 /\ ~r[i-1].ocupada
        /\ i # Len(t) => r[i] = t[i+1]
    <3>1. Len(r) = Len(t) - 1 /\ ~r[i-1].ocupada
      BY <1>5 DEF Unida
    <3>2. \A k \in ((i - 1) + 1)..(Len(t) - 1) : r[k] = t[k+1]
      BY <1>5 DEF Unida
    <3>3. i # Len(t) => i \in ((i - 1) + 1)..(Len(t) - 1)
      BY <1>2
    <3> QED BY <3>1, <3>2, <3>3
  <2>4. ASSUME NEW k \in 1..(Len(r) - 1) PROVE r[k].ocupada \/ r[k+1].ocupada
    <3>1. CASE k = i - 2
      BY <1>2, <2>2, <2>3, <3>1
    <3>2. CASE k = i - 1
      <4>1. i # Len(t) /\ k + 1 = i
        BY <1>2, <2>3, <3>2
      <4> QED BY <1>1, <1>5, <2>3, <3>2, <4>1
    <3>3. CASE k # i - 2 /\ k # i - 1
      <4>1. (i - 1) - 1 = i - 2
        BY <1>2
      <4> QED BY <2>2, <3>3, <4>1 DEF SinVecinasSalvo
    <3> QED BY <3>1, <3>2, <3>3
  <2> QED BY <2>4 DEF SinVecinasLibres, r
<1>6. CASE /\ i # Len(t) /\ SeUnen(t[i], t[i+1]) /\ Unida(t, r, i)
           /\ i # 1 => ~SeUnen(t[i-1], t[i])
  <2>1. i \in 1..(Len(t) - 1)
    BY <1>2, <1>6
  <2>2. /\ SinVecinasSalvo(r, i)
        /\ i # Len(r) => r[i+1].ocupada
        /\ i # 1 => r[i-1] = t[i-1]
    BY <1>6, <2>1, UnidaPorDerecha
  <2>3. i # 1 => r[i-1].ocupada
    BY <1>1, <1>6, <2>2
  <2>4. Len(r) \in Nat
    BY <1>2, <1>6 DEF Unida
  <2>5. ASSUME NEW k \in 1..(Len(r) - 1) PROVE r[k].ocupada \/ r[k+1].ocupada
    <3>1. CASE k = i - 1
      BY <1>2, <2>3, <3>1
    <3>2. CASE k = i
      <4>1. i # Len(r)
        BY <1>2, <2>4, <3>2
      <4> QED BY <2>2, <3>2, <4>1
    <3>3. CASE k # i - 1 /\ k # i
      BY <2>2, <3>3 DEF SinVecinasSalvo
    <3> QED BY <3>1, <3>2, <3>3
  <2> QED BY <2>5 DEF SinVecinasLibres, r
<1>7. CASE /\ i # 1 /\ SeUnen(t[i-1], t[i]) /\ Unida(t, u, i - 1)
           /\ SeUnen(u[i-1], u[i]) /\ Unida(u, r, i - 1)
  <2>1. i \in 2..Len(t)
    BY <1>2, <1>7
  <2>2. SinVecinasSalvo(u, i - 1) /\ (i - 1 # 1 => u[i-2].ocupada)
    BY <1>7, <2>1, UnidaPorIzquierda
  <2>3. u \in Seq(Registro) /\ i - 1 \in 1..(Len(u) - 1)
    BY <1>7 DEF Unida
  <2>4. /\ SinVecinasSalvo(r, i - 1)
        /\ i - 1 # Len(r) => r[(i-1)+1].ocupada
        /\ i - 1 # 1 => r[(i-1)-1] = u[(i-1)-1]
    BY <1>7, <2>2, <2>3, UnidaPorDerecha
  <2>5. (i - 1) - 1 = i - 2 /\ (i - 1) + 1 = i
    BY <1>2
  <2>6. Len(r) \in Nat
    <3>1. Len(u) \in Nat /\ Len(r) = Len(u) - 1 /\ Len(u) > 0
      BY <1>2, <1>7, <2>3, LenProperties DEF Unida
    <3> QED BY <3>1
  <2>7. ASSUME NEW k \in 1..(Len(r) - 1) PROVE r[k].ocupada \/ r[k+1].ocupada
    <3>1. CASE k = i - 2
      <4>1. i - 1 # 1
        BY <1>2, <3>1
      <4> QED BY <2>2, <2>4, <2>5, <3>1, <4>1
    <3>2. CASE k = i - 1
      <4>1. i - 1 # Len(r)
        BY <1>2, <2>6, <3>2
      <4> QED BY <2>4, <3>2, <4>1
    <3>3. CASE k # i - 2 /\ k # i - 1
      BY <2>4, <2>5, <3>3 DEF SinVecinasSalvo
    <3> QED BY <3>1, <3>2, <3>3
  <2> QED BY <2>7 DEF SinVecinasLibres, r
<1> QED BY <1>3, <1>4, <1>5, <1>6, <1>7

\* Joining takes nothing from the list but the borders between free partitions.
LEMMA ConsolidarConserva ==
  ASSUME NEW t \in Seq(Registro), NEW i \in 1..Len(t)
  PROVE  LET r == consolidarParticion(t, i)
         IN  /\ r \in Seq(Registro)
             /\ Cortada(t) => Cortada(r) /\ (LlegaAlFinal(t) => LlegaAlFinal(r))
             /\ MismasLlenas(t, r)
             /\ \A n : IdsHasta(t, n) => IdsHasta(r, n)
             /\ ~t[i].ocupada => HayLibre(r)
<1> DEFINE r == consolidarParticion(t, i)
           u == FusionarConAnterior(t, i)
<1>1. Len(t) \in Nat /\ i \in DOMAIN t
  BY LenProperties
<1>2. r = t \/ (\E j : Unida(t, r, j)) \/ (\E j, k : Unida(t, u, j) /\ Unida(u, r, k))
  BY ConsolidarPuntual
<1> HIDE DEF r, u
<1>3. CASE r = t
  <2>1. MismasLlenas(t, t)
    BY DEF MismasLlenas
  <2> QED BY <1>1, <1>3, <2>1 DEF HayLibre, r
<1>4. ASSUME NEW x \in Seq(Registro), NEW y, NEW j, Unida(x, y, j)
      PROVE  /\ y \in Seq(Registro)
             /\ Cortada(x) => Cortada(y) /\ (LlegaAlFinal(x) => LlegaAlFinal(y))
             /\ MismasLlenas(x, y)
             /\ \A n : IdsHasta(x, n) => IdsHasta(y, n)
             /\ HayLibre(y)
  <2>1. y \in Seq(Registro)
    BY <1>4 DEF Unida
  <2>2. Cortada(x) => Cortada(y) /\ (LlegaAlFinal(x) => LlegaAlFinal(y))
    BY <1>4, UnidaCortada
  <2>3. MismasLlenas(x, y) /\ \A n : IdsHasta(x, n) => IdsHasta(y, n)
    BY <1>4, UnidaMismasLlenas
  <2>4. HayLibre(y)
    <3>1. Len(x) \in Nat /\ Len(y) = Len(x) - 1 /\ j \in 1..(Len(x) - 1) /\ ~y[j].ocupada
      BY <1>4, LenProperties DEF Unida
    <3>2. j \in DOMAIN y
      BY <2>1, <3>1, LenProperties
    <3> QED BY <3>1, <3>2 DEF HayLibre
  <2> QED BY <2>1, <2>2, <2>3, <2>4
<1>5. CASE \E j : Unida(t, r, j)
  BY <1>4, <1>5 DEF r
<1>6. CASE \E j, k : Unida(t, u, j) /\ Unida(u, r, k)
  <2>1. PICK j, k : Unida(t, u, j) /\ Unida(u, r, k)
    BY <1>6
  <2>2. /\ u \in Seq(Registro)
        /\ Cortada(t) => Cortada(u) /\ (LlegaAlFinal(t) => LlegaAlFinal(u))
        /\ MismasLlenas(t, u)
        /\ \A n : IdsHasta(t, n) => IdsHasta(u, n)
    BY <1>4, <2>1
  <2>3. /\ r \in Seq(Registro)
        /\ Cortada(u) => Cortada(r) /\ (LlegaAlFinal(u) => LlegaAlFinal(r))
        /\ MismasLlenas(u, r)
        /\ \A n : IdsHasta(u, n) => IdsHasta(r, n)
        /\ HayLibre(r)
    BY <1>4, <2>1, <2>2
  <2>4. MismasLlenas(t, r)
    BY <2>2, <2>3 DEF MismasLlenas
  <2> QED BY <2>2, <2>3, <2>4 DEF r
<1> QED BY <1>2, <1>3, <1>5, <1>6

\* The first free partition of a compacted list is joined with the next.
LEMMA ConsolidarPrimeraLibre ==
  ASSUME NEW t \in Seq(Registro), NEW i \in 1..(Len(t) - 1), ~t[i].ocupada,
         \A k \in 1..(i - 1) : t[k].ocupada,
         OcupadasPrimero(t), ALGORITMO_MEMORIA # "BS"
  PROVE  OcupadasPrimero(consolidarParticion(t, i))
<1> DEFINE r == consolidarParticion(t, i)
           u == FusionarConAnterior(t, i)
<1>1. \A p, q : SeUnen(p, q) <=> ~p.ocupada /\ ~q.ocupada
  BY DEF SeUnen, AmbasLibres
<1>2. Len(t) \in Nat /\ i \in 1..(Len(t) - 1)
  BY LenProperties
<1>3. DOMAIN t = 1..Len(t)
  BY LenProperties
<1>4. i \in 1..Len(t) /\ i + 1 \in 1..Len(t) /\ i # Len(t) /\ i < i + 1
  BY <1>2
<1>5. ~t[i+1].ocupada
  BY <1>3, <1>4 DEF OcupadasPrimero
<1>6. i # 1 => ~SeUnen(t[i-1], t[i])
  <2>1. i # 1 => i - 1 \in 1..(i - 1)
    BY <1>2
  <2> QED BY <1>1, <2>1
<1>7. SeUnen(t[i], t[i+1])
  BY <1>1, <1>5
<1>8. Unida(t, r, i)
  BY <1>4, <1>6, <1>7, ConsolidarPuntual
<1> HIDE DEF r
<1>9. /\ DOMAIN r = 1..(Len(t) - 1) /\ ~r[i].ocupada
      /\ \A k \in 1..(i - 1) : r[k] = t[k]
      /\ \A k \in (i + 1)..(Len(t) - 1) : r[k] = t[k+1]
  BY <1>8, LenProperties DEF Unida
<1>10. ASSUME NEW k \in 1..(Len(t) - 1), r[k].ocupada PROVE k < i
  <2>1. ASSUME k > i PROVE FALSE
    <3>1. k \in (i + 1)..(Len(t) - 1) /\ k + 1 \in 1..Len(t) /\ i < k + 1
      BY <1>2, <2>1
    <3>2. t[k+1].ocupada
      BY <1>9, <1>10, <3>1
    <3> QED BY <1>3, <1>4, <3>1, <3>2 DEF OcupadasPrimero
  <2>2. k # i
    BY <1>9, <1>10
  <2> QED BY <1>2, <2>1, <2>2
<1>11. ASSUME NEW j \in 1..(Len(t) - 1), NEW k \in 1..(Len(t) - 1), j < k, r[k].ocupada
       PROVE  r[j].ocupada
  <2>1. k < i
    BY <1>10, <1>11
  <2>2. j \in 1..(i - 1)
    BY <1>2, <1>11, <2>1
  <2> QED BY <1>9, <2>2
<1>12. \A j, k \in DOMAIN r : j < k /\ r[k].ocupada => r[j].ocupada
  BY <1>9, <1>11
<1> QED BY <1>12 DEF OcupadasPrimero, r

-----------------------------------------------------------------------------
(* The choice of a partition *)

LEMMA PrimeraCandidata ==
  ASSUME NEW t \in Seq(Registro), NEW n, Candidatas(t, n) # {}
  PROVE  /\ getParticionFirstFit(t, n) \in Candidatas(t, n)
         /\ \A k \in Candidatas(t, n) : getParticionFirstFit(t, n) <= k
<1>1. Candidatas(t, n) \in SUBSET Nat
  BY LenProperties DEF Candidatas
<1> QED BY <1>1, MinDeNaturales DEF getParticionFirstFit

\* Those that best fit take: the smallest candidates.
Ajustadas(t, n) == {i \in Candidatas(t, n) : \A j \in Candidatas(t, n) : t[i].size <= t[j].size}

LEMMA MejorCandidata ==
  ASSUME NEW t \in Seq(Registro), NEW n, Candidatas(t, n) # {}, Cortada(t)
  PROVE  /\ getParticionBestFit(t, n) \in Ajustadas(t, n)
         /\ \A k \in Ajustadas(t, n) : getParticionBestFit(t, n) <= k
<1>1. Candidatas(t, n) \in SUBSET Nat /\ Candidatas(t, n) \subseteq 1..Len(t) /\ DOMAIN t = 1..Len(t)
  BY LenProperties DEF Candidatas
<1> DEFINE T == {t[k].size : k \in Candidatas(t, n)}
<1>2. T \in SUBSET Nat /\ T # {}
  <2>1. ASSUME NEW k \in Candidatas(t, n) PROVE t[k].size \in Nat
    <3>1. t[k] \in Registro /\ 0 < t[k].size
      BY <1>1, ElementOfSeq DEF Cortada
    <3> QED BY <3>1 DEF Registro
  <2> QED BY <2>1
<1>3. PICK k \in Candidatas(t, n) : \A j \in Candidatas(t, n) : t[k].size <= t[j].size
  <2>1. Min(T) \in T /\ \A x \in T : Min(T) <= x
    BY <1>2, MinDeNaturales
  <2>2. PICK k \in Candidatas(t, n) : t[k].size = Min(T)
    BY <2>1
  <2>3. \A j \in Candidatas(t, n) : t[j].size \in T
    OBVIOUS
  <2> QED BY <2>1, <2>2, <2>3
<1>4. Ajustadas(t, n) # {} /\ Ajustadas(t, n) \in SUBSET Nat
  BY <1>1, <1>3 DEF Ajustadas
<1> QED BY <1>4, MinDeNaturales DEF getParticionBestFit, Ajustadas

LEMMA LibreElegida ==
  ASSUME NEW t \in Seq(Registro), NEW n, Candidatas(t, n) # {}, Cortada(t)
  PROVE  getParticionLibre(t, n) \in Candidatas(t, n)
BY PrimeraCandidata, MejorCandidata DEF getParticionLibre, Ajustadas

\* After the split the algorithm finds again the partition it has just split.
LEMMA LibreTrasPartir ==
  ASSUME NEW t \in Seq(Registro), NEW u \in Seq(Registro), NEW n \in Int, NEW i, NEW p, NEW q,
         Candidatas(t, n) # {}, Cortada(t), Cortada(u),
         i = getParticionLibre(t, n), Partida(t, u, i, p, q),
         t[i].size # n, ~p.ocupada, p.size = n
  PROVE  getParticionLibre(u, n) = i
<1>1. i \in Candidatas(t, n)
  BY LibreElegida
<1>2. DOMAIN t = 1..Len(t) /\ Len(t) \in Nat /\ DOMAIN u = 1..(Len(t) + 1) /\ i \in 1..Len(t)
  BY <1>1, LenProperties DEF Partida, Candidatas
<1>3. u[i] = p /\ \A k \in 1..(i - 1) : u[k] = t[k]
  BY DEF Partida
<1>4. i \in Candidatas(u, n)
  <2>1. i \in DOMAIN u
    BY <1>2
  <2> QED BY <1>3, <2>1 DEF Candidatas, particionCandidata
<1>5. ASSUME NEW k \in Candidatas(u, n), k < i PROVE k \in Candidatas(t, n) /\ u[k] = t[k]
  <2>1. k \in 1..(i - 1) /\ k \in 1..Len(t)
    BY <1>2, <1>5 DEF Candidatas
  <2> QED BY <1>2, <1>3, <2>1 DEF Candidatas
<1>6. Candidatas(u, n) \in SUBSET Nat /\ Candidatas(t, n) \in SUBSET Nat
  BY LenProperties DEF Candidatas
<1>7. CASE ALGORITMO_PARTICION_LIBRE = "FF"
  <2>1. i \in Nat /\ \A k \in Candidatas(t, n) : i <= k
    BY <1>2, <1>7, PrimeraCandidata DEF getParticionLibre
  <2>2. \A k \in Candidatas(u, n) : i <= k
    BY <1>5, <1>6, <2>1
  <2>3. getParticionFirstFit(u, n) \in Candidatas(u, n)
        /\ \A k \in Candidatas(u, n) : getParticionFirstFit(u, n) <= k
    BY <1>4, PrimeraCandidata
  <2>4. getParticionFirstFit(u, n) = i
    BY <1>4, <1>6, <2>1, <2>2, <2>3
  <2> QED BY <1>7, <2>4 DEF getParticionLibre
<1>8. CASE ALGORITMO_PARTICION_LIBRE # "FF"
  <2>1. i \in Ajustadas(t, n) /\ \A k \in Ajustadas(t, n) : i <= k
    BY <1>8, MejorCandidata DEF getParticionLibre
  <2>2. \A k \in Candidatas(u, n) : n <= u[k].size
    BY DEF Candidatas, particionCandidata
  <2>3. i \in Ajustadas(u, n)
    BY <1>3, <1>4, <2>2 DEF Ajustadas
  <2>4. getParticionBestFit(u, n) \in Ajustadas(u, n)
        /\ getParticionBestFit(u, n) <= i
    BY <1>4, <2>3, MejorCandidata
  <2> DEFINE k == getParticionBestFit(u, n)
  <2> HIDE DEF k
  <2>5. k \in Ajustadas(u, n) /\ k <= i
    BY <2>4 DEF k
  <2>6. k \in Nat /\ k \in Candidatas(u, n)
    BY <1>6, <2>5 DEF Ajustadas
  <2>7. ASSUME k < i PROVE FALSE
    <3>1. k \in Candidatas(t, n) /\ u[k] = t[k]
      BY <1>5, <2>6, <2>7
    <3>2. u[k].size <= n
      BY <1>3, <1>4, <2>5 DEF Ajustadas
    <3>3. t[i].size <= t[k].size /\ n <= t[i].size
      BY <1>1, <2>1, <3>1 DEF Ajustadas, Candidatas, particionCandidata
    <3>4. t[i] \in Registro /\ t[k] \in Registro
      BY <1>2, <3>1, ElementOfSeq DEF Candidatas
    <3>5. t[i].size \in Int /\ t[k].size \in Int
      BY <3>4 DEF Registro
    <3> QED BY <3>1, <3>2, <3>3, <3>5
  <2>8. k = i
    BY <1>2, <2>5, <2>6, <2>7
  <2> QED BY <1>8, <2>8 DEF getParticionLibre, k
<1> QED BY <1>7, <1>8

LEMMA MenorIdDefinido ==
  ASSUME NEW t \in Seq(Registro), Ocupadas(t) # {}
  PROVE  /\ LaDeMenorId(t) \in Ocupadas(t)
         /\ \A j \in Ocupadas(t) : t[LaDeMenorId(t)].id <= t[j].id
         /\ \A i \in Ocupadas(t) :
              (\A j \in Ocupadas(t) : t[i].id <= t[j].id) => LaDeMenorId(t) <= i
<1>1. Ocupadas(t) \in SUBSET Nat /\ Ocupadas(t) \subseteq 1..Len(t)
  BY LenProperties DEF Ocupadas
<1> DEFINE T == {t[k].id : k \in Ocupadas(t)}
           P == {i \in Ocupadas(t) : \A j \in Ocupadas(t) : t[i].id <= t[j].id}
<1>2. T \in SUBSET Nat /\ T # {}
  <2>1. ASSUME NEW k \in Ocupadas(t) PROVE t[k].id \in Nat
    <3>1. t[k] \in Registro
      BY <1>1, ElementOfSeq
    <3> QED BY <3>1 DEF Registro
  <2> QED BY <2>1
<1>3. PICK k \in Ocupadas(t) : \A j \in Ocupadas(t) : t[k].id <= t[j].id
  <2>1. Min(T) \in T /\ \A x \in T : Min(T) <= x
    BY <1>2, MinDeNaturales
  <2>2. PICK k \in Ocupadas(t) : t[k].id = Min(T)
    BY <2>1
  <2>3. \A j \in Ocupadas(t) : t[j].id \in T
    OBVIOUS
  <2> QED BY <2>1, <2>2, <2>3
<1>4. P # {} /\ P \in SUBSET Nat
  BY <1>1, <1>3
<1>5. LaDeMenorId(t) = Min(P)
  BY DEF LaDeMenorId
<1>6. Min(P) \in P /\ \A i \in P : Min(P) <= i
  BY <1>4, MinDeNaturales
<1> QED BY <1>5, <1>6

-----------------------------------------------------------------------------
(* Powers of two, and the room a message takes *)

\* g holds the powers of two up to n.
PotenciasHasta(g, n) == g[0] = 1 /\ \A k \in 1..n : g[k] = 2 * g[k-1]

LEMMA PotenciasUnicas ==
  ASSUME NEW g, NEW h, NEW m \in Nat, NEW n \in Nat,
         PotenciasHasta(g, m), PotenciasHasta(h, n)
  PROVE  \A k \in Nat : k <= m /\ k <= n => g[k] = h[k]
<1> DEFINE S == {k \in Nat : k <= m /\ k <= n => g[k] = h[k]}
<1>1. 0 \in S
  BY DEF PotenciasHasta
<1>2. ASSUME NEW k \in S PROVE k + 1 \in S
  <2> SUFFICES ASSUME k + 1 <= m, k + 1 <= n PROVE g[k+1] = h[k+1]
    BY <1>2
  <2>1. k \in Nat /\ k <= m /\ k <= n /\ k + 1 \in 1..m /\ k + 1 \in 1..n /\ (k + 1) - 1 = k
    OBVIOUS
  <2>2. g[k+1] = 2 * g[k] /\ h[k+1] = 2 * h[k]
    BY <2>1 DEF PotenciasHasta
  <2>3. g[k] = h[k]
    BY <1>2, <2>1
  <2> QED BY <2>2, <2>3
<1>3. S = Nat
  <2>1. S \in SUBSET Nat
    OBVIOUS
  <2> HIDE DEF S
  <2> QED BY <1>1, <1>2, <2>1, InduccionNat
<1> QED BY <1>3

LEMMA PotenciasExisten ==
  ASSUME NEW n \in Nat
  PROVE  \E g \in [Nat -> Nat] : PotenciasHasta(g, n)
<1> DEFINE S == {k \in Nat : \E g \in [Nat -> Nat] : PotenciasHasta(g, k)}
<1>1. 0 \in S
  <2>1. [k \in Nat |-> 1] \in [Nat -> Nat] /\ PotenciasHasta([k \in Nat |-> 1], 0)
    BY DEF PotenciasHasta
  <2> QED BY <2>1
<1>2. ASSUME NEW k \in S PROVE k + 1 \in S
  <2>1. PICK g \in [Nat -> Nat] : PotenciasHasta(g, k)
    BY <1>2
  <2> DEFINE h == [g EXCEPT ![k+1] = 2 * g[k]]
  <2>2. k \in Nat /\ k + 1 \in Nat /\ g[k] \in Nat /\ 2 * g[k] \in Nat
    OBVIOUS
  <2>3. h \in [Nat -> Nat] /\ h[k+1] = 2 * g[k] /\ \A j \in Nat : j # k + 1 => h[j] = g[j]
    BY <2>2
  <2> HIDE DEF h
  <2>4. h[0] = 1
    BY <2>1, <2>2, <2>3 DEF PotenciasHasta
  <2>5. ASSUME NEW j \in 1..(k + 1) PROVE h[j] = 2 * h[j-1]
    <3>1. j - 1 \in Nat /\ j - 1 # k + 1
      BY <2>2
    <3>2. CASE j = k + 1
      <4>1. j - 1 = k
        BY <2>2, <3>2
      <4> QED BY <2>3, <3>1, <3>2, <4>1
    <3>3. CASE j # k + 1
      <4>1. j \in 1..k
        BY <2>2, <3>3
      <4>2. g[j] = 2 * g[j-1]
        BY <2>1, <4>1 DEF PotenciasHasta
      <4> QED BY <2>3, <3>1, <3>3, <4>2
    <3> QED BY <3>2, <3>3
  <2>6. PotenciasHasta(h, k + 1)
    BY <2>4, <2>5 DEF PotenciasHasta
  <2> QED BY <2>2, <2>3, <2>6
<1>3. S = Nat
  <2>1. S \in SUBSET Nat
    OBVIOUS
  <2> HIDE DEF S
  <2> QED BY <1>1, <1>2, <2>1, InduccionNat
<1> QED BY <1>3

\* potencia is what its recursive definition says.
LEMMA PotenciaDefinida ==
  potencia = [k \in Nat |-> IF k = 0 THEN 1 ELSE 2 * potencia[k-1]]
<1> DEFINE G(n) == CHOOSE g \in [Nat -> Nat] : PotenciasHasta(g, n)
           F == [n \in Nat |-> G(n)[n]]
<1>1. ASSUME NEW n \in Nat PROVE G(n) \in [Nat -> Nat] /\ PotenciasHasta(G(n), n)
  BY PotenciasExisten
<1> HIDE DEF G
<1>2. F[0] = 1
  BY <1>1 DEF PotenciasHasta
<1>3. ASSUME NEW n \in Nat, n # 0 PROVE F[n] = 2 * F[n-1]
  <2>1. n - 1 \in Nat /\ n - 1 <= n /\ n \in 1..n
    BY <1>3
  <2>2. G(n)[n] = 2 * G(n)[n-1]
    BY <1>1, <2>1 DEF PotenciasHasta
  <2>3. G(n)[n-1] = G(n-1)[n-1]
    <3>1. PotenciasHasta(G(n), n) /\ PotenciasHasta(G(n-1), n - 1)
      BY <1>1, <2>1
    <3> QED BY <2>1, <3>1, PotenciasUnicas
  <2> QED BY <2>1, <2>2, <2>3
<1>4. F = [k \in Nat |-> IF k = 0 THEN 1 ELSE 2 * F[k-1]]
  BY <1>2, <1>3
<1> HIDE DEF F
<1> QED BY <1>4 DEF potencia

LEMMA Potencias ==
  /\ potencia \in [Nat -> Nat \ {0}] /\ potencia[0] = 1
  /\ \A k \in Nat : potencia[k+1] = 2 * potencia[k] /\ k < potencia[k]
<1>1. potencia[0] = 1 /\ \A k \in Nat : potencia[k+1] = 2 * potencia[k]
  <2>1. potencia[0] = 1
    BY PotenciaDefinida
  <2>2. ASSUME NEW k \in Nat PROVE potencia[k+1] = 2 * potencia[k]
    <3>1. k + 1 \in Nat /\ k + 1 # 0 /\ (k + 1) - 1 = k
      OBVIOUS
    <3> QED BY <3>1, PotenciaDefinida
  <2> QED BY <2>1, <2>2
<1> DEFINE S == {k \in Nat : potencia[k] \in Nat /\ k < potencia[k]}
<1>2. 0 \in S
  BY <1>1
<1>3. ASSUME NEW k \in S PROVE k + 1 \in S
  <2>1. potencia[k+1] = 2 * potencia[k] /\ potencia[k] \in Nat /\ k < potencia[k]
    BY <1>1
  <2> QED BY <2>1
<1>4. S = Nat
  <2>1. S \in SUBSET Nat
    OBVIOUS
  <2> HIDE DEF S
  <2> QED BY <1>2, <1>3, <2>1, InduccionNat
<1>5. \A k \in Nat : potencia[k] \in Nat \ {0} /\ k < potencia[k]
  BY <1>4
<1>6. potencia \in [Nat -> Nat \ {0}]
  <2>1. potencia = [k \in Nat |-> potencia[k]]
    BY PotenciaDefinida
  <2> QED BY <1>5, <2>1
<1> QED BY <1>1, <1>5, <1>6

\* The smallest power of two with room for n.
LEMMA TamanioMinimoAlcanza ==
  ASSUME NEW n \in Nat
  PROVE  /\ tamanioMinimo(n) \in Nat /\ n <= tamanioMinimo(n)
         /\ \E k \in Nat : tamanioMinimo(n) = potencia[k]
<1> DEFINE T == {p \in {potencia[k] : k \in 0..n} : p >= n}
<1>1. \A k \in 0..n : potencia[k] \in Nat
  BY Potencias
<1>2. potencia[n] >= n /\ n \in 0..n
  <2>1. potencia[n] \in Nat /\ n < potencia[n]
    BY Potencias
  <2> QED BY <2>1
<1>3. T \in SUBSET Nat /\ T # {}
  BY <1>1, <1>2
<1>4. Min(T) \in T /\ \A p \in T : Min(T) <= p
  BY <1>3, MinDeNaturales
<1>5. \E p \in {potencia[k] : k \in 0..n} :
        p >= n /\ \A k \in 0..n : potencia[k] >= n => p <= potencia[k]
  BY <1>4
<1>6. tamanioMinimo(n) \in {potencia[k] : k \in 0..n} /\ tamanioMinimo(n) >= n
  BY <1>5 DEF tamanioMinimo
<1> QED BY <1>1, <1>6

LEMMA TamanioPedidoAlcanza ==
  ASSUME NEW n \in Nat, config \in Configuraciones
  PROVE  /\ TamanioPedido(n) \in Nat
         /\ n <= TamanioPedido(n) /\ TAMANO_MINIMO_PARTICION <= TamanioPedido(n)
<1> DEFINE x == IF ALGORITMO_MEMORIA = "BS" THEN tamanioMinimo(n) ELSE n
<1>1. x \in Nat /\ n <= x
  BY TamanioMinimoAlcanza
<1>2. TAMANO_MINIMO_PARTICION \in Nat
  BY ConstantesValidas DEF TAMANO_MINIMO_PARTICION
<1>3. TamanioPedido(n) = IF x < TAMANO_MINIMO_PARTICION THEN TAMANO_MINIMO_PARTICION ELSE x
  BY DEF TamanioPedido, AlMenosElMinimo
<1> HIDE DEF x
<1> QED BY <1>1, <1>2, <1>3

-----------------------------------------------------------------------------
(* Buddies *)

\* The size is a power of two, and the partition begins at a multiple of it.
EsBuddy(p) ==
  \E k \in Nat, a \in Nat : p.size = potencia[k] /\ p.ini = a * p.size

Alineada(t) == \A k \in DOMAIN t : EsBuddy(t[k])

LEMMA Multiplos ==
  ASSUME NEW a \in Nat, NEW s \in Nat \ {0}
  PROVE  /\ (a * s) \div s = a /\ (a * s) % s = 0
         /\ a * (2 * s) = (2 * a) * s /\ a * (2 * s) + s = (2 * a + 1) * s
         /\ (2 * s) \div 2 = s
         /\ a % 2 = 0 => \E b \in Nat : a * s = b * (2 * s)
<1>1. ASSUME a % 2 = 0 PROVE \E b \in Nat : a * s = b * (2 * s)
  <2>1. a = 2 * (a \div 2) /\ a \div 2 \in Nat
    BY <1>1
  <2>2. PICK b \in Nat : a = 2 * b
    BY <2>1
  <2> QED BY <2>2
<1>2. (a * s) \div s = a
  OBVIOUS
<1>3. (a * s) % s = 0
  OBVIOUS
<1>4. a * (2 * s) = (2 * a) * s /\ a * (2 * s) + s = (2 * a + 1) * s
  OBVIOUS
<1>5. (2 * s) \div 2 = s
  OBVIOUS
<1> QED BY <1>1, <1>2, <1>3, <1>4, <1>5

\* A buddy that is not of the least size is cut into two buddies.
LEMMA MitadEntera ==
  ASSUME NEW r \in Registro, NEW n \in Nat \ {0}, EsBuddy(r), n <= r.size, r.size # n
  PROVE  LET m == r.size \div 2
         IN  /\ m \in Nat \ {0} /\ r.size = m + m
             /\ \E k \in Nat, a \in Nat :
                  m = potencia[k] /\ r.ini = (2 * a) * m /\ r.ini + m = (2 * a + 1) * m
<1>1. PICK k \in Nat, a \in Nat : r.size = potencia[k] /\ r.ini = a * r.size
  BY DEF EsBuddy
<1>2. k # 0
  <2>1. r.size \in Int
    BY DEF Registro
  <2>2. r.size # 1
    BY <2>1
  <2> QED BY <1>1, <2>2, Potencias
<1> DEFINE s == potencia[k-1]
<1>3. k - 1 \in Nat /\ (k - 1) + 1 = k
  BY <1>2
<1>4. s \in Nat \ {0} /\ potencia[k] = 2 * s
  <2>1. potencia[(k-1)+1] = 2 * potencia[k-1] /\ potencia[k-1] \in Nat \ {0}
    BY <1>3, Potencias
  <2> QED BY <1>3, <2>1
<1> HIDE DEF s
<1> DEFINE m == r.size \div 2
<1>5. m = s
  BY <1>1, <1>4, Multiplos
<1>6. r.ini = (2 * a) * s /\ r.ini + s = (2 * a + 1) * s
  BY <1>1, <1>4, Multiplos
<1> HIDE DEF m
<1>7. r.size = m + m
  BY <1>1, <1>4, <1>5
<1>8. m = potencia[k-1]
  BY <1>5 DEF s
<1> QED BY <1>3, <1>4, <1>5, <1>6, <1>7, <1>8 DEF m

LEMMA MitadDeBuddy ==
  ASSUME NEW r \in Registro, NEW n \in Nat \ {0}, EsBuddy(r), n <= r.size, r.size # n,
         NEW m, m = r.size \div 2, NEW p, p.ini = r.ini, p.size = m,
         NEW q, q.ini = r.ini + m, q.size = m
  PROVE  EsBuddy(p) /\ EsBuddy(q)
<1>1. PICK k \in Nat, a \in Nat :
        m = potencia[k] /\ r.ini = (2 * a) * m /\ r.ini + m = (2 * a + 1) * m
  BY MitadEntera
<1>2. 2 * a \in Nat /\ 2 * a + 1 \in Nat
  OBVIOUS
<1>3. EsBuddy(p)
  BY <1>1, <1>2 DEF EsBuddy
<1>4. EsBuddy(q)
  BY <1>1, <1>2 DEF EsBuddy
<1> QED BY <1>3, <1>4

\* Two buddies that consolidarParticionBS joins are one buddy.
LEMMA UnionDeBuddies ==
  ASSUME NEW p \in Registro, NEW q \in Registro, EsBuddy(p), SonBuddies(p, q),
         p.fin = p.ini + p.size - 1, q.ini = p.fin + 1,
         NEW r, r.ini = p.ini, r.size = p.size + q.size
  PROVE  EsBuddy(r)
<1>1. PICK k \in Nat, a \in Nat : p.size = potencia[k] /\ p.ini = a * p.size
  BY DEF EsBuddy
<1> DEFINE s == potencia[k]
<1>2. s \in Nat \ {0} /\ potencia[k+1] = 2 * s
  BY Potencias
<1> HIDE DEF s
<1>3. p.size = s /\ q.size = s /\ p.ini = a * s
  BY <1>1 DEF SonBuddies, s
<1>4. a * s \in Int
  BY <1>2
<1>5. q.ini = a * s + s
  <2>1. p.fin = a * s + s - 1
    BY <1>3
  <2> QED BY <1>2, <1>4, <2>1
<1>6. q.ini = XorTamanio(a * s, s)
  BY <1>3 DEF SonBuddies
<1>7. (a * s) \div s = a
  BY <1>2, Multiplos
<1>8. a % 2 = 0
  <2>1. q.ini = IF a % 2 = 0 THEN a * s + s ELSE a * s - s
    BY <1>6, <1>7 DEF XorTamanio
  <2>2. a * s + s # a * s - s
    BY <1>2, <1>4
  <2> QED BY <1>5, <2>1, <2>2
<1>9. PICK b \in Nat : a * s = b * (2 * s)
  BY <1>2, <1>8, Multiplos
<1>10. r.size = potencia[k+1] /\ r.ini = b * r.size
  <2>1. r.size = 2 * s
    BY <1>2, <1>3
  <2> QED BY <1>2, <1>3, <1>9, <2>1
<1>11. k + 1 \in Nat
  OBVIOUS
<1> QED BY <1>10, <1>11 DEF EsBuddy

LEMMA UnidaAlineada ==
  ASSUME NEW t \in Seq(Registro), NEW u, NEW j, Unida(t, u, j), Cortada(t), Alineada(t),
         SonBuddies(t[j], t[j+1])
  PROVE  Alineada(u)
<1>1. Len(t) \in Nat /\ j \in 1..(Len(t) - 1)
  BY LenProperties DEF Unida
<1>2. DOMAIN t = 1..Len(t) /\ DOMAIN u = 1..(Len(t) - 1)
  BY LenProperties DEF Unida
<1>3. j \in 1..Len(t) /\ j + 1 \in 1..Len(t)
  BY <1>1
<1>4. EsBuddy(u[j])
  <2>1. t[j] \in Registro /\ t[j+1] \in Registro
    BY <1>3, ElementOfSeq
  <2>2. EsBuddy(t[j]) /\ t[j].fin = t[j].ini + t[j].size - 1
    BY <1>2, <1>3 DEF Cortada, Alineada
  <2>3. t[j+1].ini = t[j].fin + 1
    BY <1>1 DEF Cortada
  <2>4. u[j].ini = t[j].ini /\ u[j].size = t[j].size + t[j+1].size
    BY DEF Unida
  <2> QED BY <2>1, <2>2, <2>3, <2>4, UnionDeBuddies
<1>5. ASSUME NEW k \in DOMAIN u PROVE EsBuddy(u[k])
  <2>1. CASE k < j
    <3>1. k \in 1..(j - 1) /\ k \in 1..Len(t)
      BY <1>1, <1>2, <2>1
    <3>2. u[k] = t[k]
      BY <3>1 DEF Unida
    <3> QED BY <1>2, <3>1, <3>2 DEF Alineada
  <2>2. CASE k > j
    <3>1. k \in (j + 1)..(Len(t) - 1) /\ k + 1 \in 1..Len(t)
      BY <1>1, <1>2, <2>2
    <3>2. u[k] = t[k+1]
      BY <3>1 DEF Unida
    <3> QED BY <1>2, <3>1, <3>2 DEF Alineada
  <2>3. k < j \/ k = j \/ k > j
    BY <1>1, <1>2
  <2> QED BY <1>4, <2>1, <2>2, <2>3
<1> QED BY <1>5 DEF Alineada

LEMMA ConsolidarAlineada ==
  ASSUME NEW t \in Seq(Registro), NEW i \in 1..Len(t), Cortada(t), Alineada(t),
         ALGORITMO_MEMORIA = "BS"
  PROVE  Alineada(consolidarParticion(t, i))
<1> DEFINE r == consolidarParticion(t, i)
           u == FusionarConAnterior(t, i)
<1>1. \A p, q : SeUnen(p, q) <=> SonBuddies(p, q)
  BY DEF SeUnen
<1>2. Len(t) \in Nat
  BY LenProperties
<1>3. (i - 1) + 1 = i
  BY <1>2
<1>4. \/ r = t
      \/ SeUnen(t[i-1], t[i]) /\ Unida(t, r, i - 1)
      \/ SeUnen(t[i], t[i+1]) /\ Unida(t, r, i)
      \/ /\ SeUnen(t[i-1], t[i]) /\ Unida(t, u, i - 1)
         /\ SeUnen(u[i-1], u[i]) /\ Unida(u, r, i - 1)
  BY ConsolidarPuntual
<1> HIDE DEF r, u
<1>5. CASE r = t
  BY <1>5 DEF r
<1>6. CASE SeUnen(t[i-1], t[i]) /\ Unida(t, r, i - 1)
  BY <1>1, <1>3, <1>6, UnidaAlineada DEF r
<1>7. CASE SeUnen(t[i], t[i+1]) /\ Unida(t, r, i)
  BY <1>1, <1>7, UnidaAlineada DEF r
<1>8. CASE /\ SeUnen(t[i-1], t[i]) /\ Unida(t, u, i - 1)
           /\ SeUnen(u[i-1], u[i]) /\ Unida(u, r, i - 1)
  <2>1. Alineada(u)
    BY <1>1, <1>3, <1>8, UnidaAlineada
  <2>2. Cortada(u)
    BY <1>8, UnidaCortada
  <2>3. u \in Seq(Registro)
    BY <1>8 DEF Unida
  <2> QED BY <1>1, <1>3, <1>8, <2>1, <2>2, <2>3, UnidaAlineada DEF r
<1> QED BY <1>4, <1>5, <1>6, <1>7, <1>8

LEMMA PartidaAlineada ==
  ASSUME NEW t \in Seq(Registro), NEW u, NEW i \in 1..Len(t), NEW p, NEW q,
         Partida(t, u, i, p, q), Alineada(t), EsBuddy(p), EsBuddy(q)
  PROVE  Alineada(u)
<1>1. Len(t) \in Nat /\ i \in 1..Len(t)
  BY LenProperties
<1>2. DOMAIN t = 1..Len(t) /\ DOMAIN u = 1..(Len(t) + 1)
  BY LenProperties DEF Partida
<1>3. ASSUME NEW k \in DOMAIN u PROVE EsBuddy(u[k])
  <2>1. CASE k < i
    <3>1. k \in 1..(i - 1) /\ k \in 1..Len(t)
      BY <1>1, <1>2, <2>1
    <3>2. u[k] = t[k]
      BY <3>1 DEF Partida
    <3> QED BY <1>2, <3>1, <3>2 DEF Alineada
  <2>2. CASE k > i + 1
    <3>1. k - 1 \in (i + 1)..Len(t) /\ k - 1 \in 1..Len(t) /\ (k - 1) + 1 = k
      BY <1>1, <1>2, <2>2
    <3>2. u[(k-1)+1] = t[k-1]
      BY <3>1 DEF Partida
    <3> QED BY <1>2, <3>1, <3>2 DEF Alineada
  <2>3. u[i] = p /\ u[i+1] = q
    BY DEF Partida
  <2>4. k < i \/ k = i \/ k = i + 1 \/ k > i + 1
    BY <1>1, <1>2
  <2> QED BY <2>1, <2>2, <2>3, <2>4
<1> QED BY <1>3 DEF Alineada

\* A power of two greater than another is at least twice as large.
LEMMA PotenciasSeparadas ==
  ASSUME NEW j \in Nat, NEW k \in Nat, potencia[j] < potencia[k]
  PROVE  2 * potencia[j] <= potencia[k]
<1> DEFINE Q(i, e) == potencia[i] <= potencia[e] /\ (i # e => 2 * potencia[i] <= potencia[e])
           S == {e \in Nat : \A i \in 0..e : Q(i, e)}
<1>1. \A i \in Nat : potencia[i] \in Nat
  BY Potencias
<1>2. 0 \in S
  BY <1>1
<1>3. ASSUME NEW e \in S PROVE e + 1 \in S
  <2>1. e \in Nat /\ potencia[e+1] = 2 * potencia[e] /\ potencia[e] \in Nat
    BY <1>1, Potencias
  <2>2. ASSUME NEW i \in 0..(e + 1)
        PROVE  Q(i, e + 1)
    <3>1. CASE i = e + 1
      BY <1>1, <2>1, <3>1
    <3>2. CASE i # e + 1
      <4>1. i \in 0..e /\ i \in Nat
        BY <2>1, <3>2
      <4>2. Q(i, e)
        <5> HIDE DEF Q
        <5> QED BY <4>1
      <4>3. potencia[i] <= potencia[e] /\ potencia[i] \in Nat
        BY <1>1, <4>1, <4>2
      <4> QED BY <2>1, <4>3
    <3> QED BY <3>1, <3>2
  <2>3. e + 1 \in Nat
    BY <2>1
  <2> HIDE DEF Q
  <2> QED BY <2>2, <2>3
<1>4. S = Nat
  <2>1. S \in SUBSET Nat
    OBVIOUS
  <2> HIDE DEF S
  <2> QED BY <1>2, <1>3, <2>1, InduccionNat
<1>8. ASSUME NEW e \in Nat, NEW i \in 0..e PROVE Q(i, e)
  <2> HIDE DEF Q
  <2> QED BY <1>4
<1>5. potencia[j] \in Nat /\ potencia[k] \in Nat
  BY <1>1
<1>6. CASE k <= j
  <2>1. k \in 0..j
    BY <1>6
  <2>2. potencia[k] <= potencia[j]
    BY <1>8, <2>1
  <2> QED BY <1>5, <2>2
<1>7. CASE ~(k <= j)
  <2>1. j \in 0..k /\ j # k
    BY <1>7
  <2> QED BY <1>8, <2>1
<1> QED BY <1>6, <1>7

\* Under the buddy system a message asks for a power of two.
LEMMA PedidoEsPotencia ==
  ASSUME NEW n \in Nat, config \in Configuraciones, ALGORITMO_MEMORIA = "BS"
  PROVE  \E k \in Nat : TamanioPedido(n) = potencia[k]
<1>1. \E k \in Nat : tamanioMinimo(n) = potencia[k]
  BY TamanioMinimoAlcanza
<1>2. \E k \in Nat : TAMANO_MINIMO_PARTICION = potencia[k]
  <2>1. config.minimo \in Nat /\ EsPotenciaDeDos(config.minimo)
    BY ConstantesValidas, PotenciasParaBuddySystem DEF ALGORITMO_MEMORIA
  <2> QED BY <2>1 DEF EsPotenciaDeDos, TAMANO_MINIMO_PARTICION
<1>3. TamanioPedido(n) = tamanioMinimo(n) \/ TamanioPedido(n) = TAMANO_MINIMO_PARTICION
  BY DEF TamanioPedido, AlMenosElMinimo
<1> QED BY <1>1, <1>2, <1>3

-----------------------------------------------------------------------------
(* Setting apart and putting back *)

\* Partition p is put back after those of t.
LEMMA AgregarPuntual ==
  ASSUME NEW t \in Seq(Registro), NEW p \in Registro
  PROVE  LET u == Append(t, p)
         IN  /\ u \in Seq(Registro) /\ Last(u) = p /\ u # <<>>
             /\ Llenas(u) = Llenas(t) \cup (IF p.ocupada THEN {p} ELSE {})
             /\ Distintas(t) /\ (p.ocupada => \A q \in Llenas(t) : q.msg # p.msg) => Distintas(u)
             /\ Marcada(t) /\ (p.ocupada <=> p.msg # SinMensaje) => Marcada(u)
             /\ \A n : IdsHasta(t, n) /\ p.id <= n => IdsHasta(u, n)
             /\ HayLibre(u) <=> HayLibre(t) \/ ~p.ocupada
             /\ OcupadasPrimero(t) /\ (p.ocupada => ~HayLibre(t)) => OcupadasPrimero(u)
<1> DEFINE u == Append(t, p)
           n == Len(t) + 1
<1>1. /\ u \in Seq(Registro) /\ Len(u) = n
      /\ \A k \in 1..Len(t) : u[k] = t[k]
      /\ u[n] = p
  BY AppendProperties
<1> HIDE DEF u
<1>2. Len(t) \in Nat /\ n = Len(t) + 1
  BY LenProperties
<1>3. DOMAIN t = 1..Len(t) /\ DOMAIN u = 1..n
  BY <1>1, LenProperties
<1>4. \A k \in 1..n : k \in 1..Len(t) \/ k = n
  BY <1>2
<1>5. \A k \in 1..Len(t) : k \in 1..n /\ k < n
  BY <1>2
<1>6. n \in 1..n
  BY <1>2
<1>7. \A j \in 1..n, k \in 1..n : j < k => j \in 1..Len(t)
  BY <1>2
<1> HIDE DEF n
<1>8. Last(u) = p /\ u # <<>>
  <2>1. u # <<>>
    BY <1>3, <1>6, EmptySeq
  <2> QED BY <1>1, <2>1 DEF Last
<1>9. Llenas(u) = Llenas(t) \cup (IF p.ocupada THEN {p} ELSE {})
  <2>1. \A x \in Llenas(u) : x \in Llenas(t) \/ (p.ocupada /\ x = p)
    BY <1>1, <1>3, <1>4 DEF Llenas, Ocupadas
  <2>2. \A x \in Llenas(t) : x \in Llenas(u)
    BY <1>1, <1>3, <1>5 DEF Llenas, Ocupadas
  <2>3. p.ocupada => p \in Llenas(u)
    BY <1>1, <1>3, <1>6 DEF Llenas, Ocupadas
  <2> QED BY <2>1, <2>2, <2>3
<1>10. Distintas(t) /\ (p.ocupada => \A q \in Llenas(t) : q.msg # p.msg) => Distintas(u)
  <2> SUFFICES ASSUME Distintas(t), p.ocupada => \A q \in Llenas(t) : q.msg # p.msg,
                      NEW j \in Ocupadas(u), NEW k \in Ocupadas(u), u[j].msg = u[k].msg
               PROVE  j = k
    BY DEF Distintas
  <2>1. /\ j \in 1..n /\ u[j].ocupada /\ k \in 1..n /\ u[k].ocupada
    BY <1>3 DEF Ocupadas
  <2>2. \A x \in 1..Len(t) : u[x].ocupada => x \in Ocupadas(t) /\ u[x] = t[x] /\ t[x] \in Llenas(t)
    BY <1>1, <1>3 DEF Ocupadas, Llenas
  <2>3. CASE j \in 1..Len(t) /\ k \in 1..Len(t)
    BY <2>1, <2>2, <2>3 DEF Distintas
  <2>4. CASE j = n /\ k \in 1..Len(t)
    BY <1>1, <2>1, <2>2, <2>4
  <2>5. CASE k = n /\ j \in 1..Len(t)
    BY <1>1, <2>1, <2>2, <2>5
  <2> QED BY <1>4, <2>1, <2>3, <2>4, <2>5
<1>11. Marcada(t) /\ (p.ocupada <=> p.msg # SinMensaje) => Marcada(u)
  BY <1>1, <1>3, <1>4 DEF Marcada
<1>12. \A m : IdsHasta(t, m) /\ p.id <= m => IdsHasta(u, m)
  BY <1>1, <1>3, <1>4 DEF IdsHasta
<1>13. HayLibre(u) <=> HayLibre(t) \/ ~p.ocupada
  BY <1>1, <1>3, <1>4, <1>5, <1>6 DEF HayLibre
<1>14. OcupadasPrimero(t) /\ (p.ocupada => ~HayLibre(t)) => OcupadasPrimero(u)
  <2> SUFFICES ASSUME OcupadasPrimero(t), p.ocupada => ~HayLibre(t),
                      NEW j \in 1..n, NEW k \in 1..n, j < k, u[k].ocupada
               PROVE  u[j].ocupada
    BY <1>3 DEF OcupadasPrimero
  <2>1. j \in 1..Len(t) /\ u[j] = t[j]
    BY <1>1, <1>7
  <2>2. CASE k \in 1..Len(t)
    BY <1>1, <1>3, <2>1, <2>2 DEF OcupadasPrimero
  <2>3. CASE k = n
    BY <1>1, <1>3, <2>1, <2>3 DEF HayLibre
  <2> QED BY <1>4, <2>2, <2>3
<1> QED BY <1>1, <1>8, <1>9, <1>10, <1>11, <1>12, <1>13, <1>14 DEF u

\* ... and lies after them.
LEMMA AgregarCortada ==
  ASSUME NEW t \in Seq(Registro), NEW p \in Registro, Cortada(t),
         t = <<>> => p.ini = 0, t # <<>> => p.ini = Last(t).fin + 1,
         0 < p.size, p.fin = p.ini + p.size - 1, p.fin < TAMANO_MEMORIA
  PROVE  Cortada(Append(t, p))
<1> DEFINE u == Append(t, p)
           n == Len(t) + 1
<1>1. /\ u \in Seq(Registro) /\ Len(u) = n
      /\ \A k \in 1..Len(t) : u[k] = t[k]
      /\ u[n] = p
  BY AppendProperties
<1> HIDE DEF u
<1>2. Len(t) \in Nat
  BY LenProperties
<1>3. DOMAIN t = 1..Len(t) /\ DOMAIN u = 1..n
  BY <1>1, LenProperties
<1>4. \A k \in 1..n : k \in 1..Len(t) \/ k = n
  BY <1>2
<1>5. ASSUME NEW k \in 1..Len(t)
      PROVE  /\ t[k].ini \in Int /\ t[k].fin \in Int /\ t[k].size \in Int
             /\ 0 <= t[k].ini /\ 0 < t[k].size /\ t[k].fin = t[k].ini + t[k].size - 1
  <2>1. t[k] \in Registro
    BY ElementOfSeq
  <2> QED BY <1>3, <2>1 DEF Registro, Cortada
<1>6. t # <<>> => Len(t) \in 1..Len(t) /\ Last(t) = t[Len(t)]
  <2>1. t # <<>> => Len(t) # 0
    BY EmptySeq
  <2> QED BY <1>2, <2>1 DEF Last
<1>7. p.ini \in Int /\ p.fin \in Int /\ p.size \in Int /\ 0 <= p.ini
  <2>1. p.ini \in Int /\ p.fin \in Int /\ p.size \in Int
    BY DEF Registro
  <2>2. CASE t = <<>>
    BY <2>1, <2>2
  <2>3. CASE t # <<>>
    <3> DEFINE e == t[Len(t)]
    <3>1. e.ini \in Int /\ e.fin \in Int /\ e.size \in Int
          /\ 0 <= e.ini /\ 0 < e.size /\ e.fin = e.ini + e.size - 1 /\ p.ini = e.fin + 1
      BY <1>5, <1>6, <2>3
    <3> HIDE DEF e
    <3> QED BY <2>1, <3>1
  <2> QED BY <2>1, <2>2, <2>3
<1>8. ASSUME NEW k \in 1..Len(t) PROVE t[k].fin < p.ini
  <2>1. t # <<>> /\ Len(t) \in 1..Len(t)
    BY <1>2, <1>6, EmptySeq
  <2>2. t[k].fin <= t[Len(t)].fin
    <3>1. CASE k = Len(t)
      BY <1>5, <3>1
    <3>2. CASE k # Len(t)
      <4>1. k < Len(t)
        BY <1>2, <3>2
      <4>2. t[k].fin < t[Len(t)].ini
        BY <1>3, <2>1, <4>1 DEF Cortada
      <4> DEFINE e == t[Len(t)]
                 f == t[k]
      <4>3. e.ini \in Int /\ e.fin \in Int /\ e.size \in Int
            /\ 0 < e.size /\ e.fin = e.ini + e.size - 1 /\ f.fin \in Int /\ f.fin < e.ini
        BY <1>5, <2>1, <4>2
      <4> HIDE DEF e, f
      <4>4. f.fin <= e.fin
        BY <4>3
      <4> QED BY <4>4 DEF e, f
    <3> QED BY <3>1, <3>2
  <2>3. p.ini = t[Len(t)].fin + 1 /\ t[Len(t)].fin \in Int /\ t[k].fin \in Int
    BY <1>5, <1>6, <2>1
  <2> QED BY <2>2, <2>3
<1>9. ASSUME NEW k \in 1..n
      PROVE  0 <= u[k].ini /\ 0 < u[k].size /\ u[k].fin < TAMANO_MEMORIA
             /\ u[k].fin = u[k].ini + u[k].size - 1
  <2>1. CASE k = n
    BY <1>1, <1>7, <2>1
  <2>2. CASE k \in 1..Len(t)
    BY <1>1, <1>3, <2>2 DEF Cortada
  <2> QED BY <1>4, <2>1, <2>2
<1>10. ASSUME NEW k \in 1..(n - 1) PROVE u[k+1].ini = u[k].fin + 1
  <2>1. k \in 1..Len(t)
    BY <1>2
  <2>2. CASE k = Len(t)
    <3>1. k + 1 = n /\ t # <<>>
      BY <1>2, <2>1, <2>2, EmptySeq
    <3>2. u[k] = t[Len(t)]
      BY <1>1, <2>1, <2>2
    <3> QED BY <1>1, <1>6, <3>1, <3>2
  <2>3. CASE k # Len(t)
    <3>1. k \in 1..(Len(t) - 1) /\ k + 1 \in 1..Len(t)
      BY <1>2, <2>1, <2>3
    <3>2. t[k+1].ini = t[k].fin + 1
      BY <3>1 DEF Cortada
    <3> QED BY <1>1, <2>1, <3>1, <3>2
  <2> QED BY <2>2, <2>3
<1>11. ASSUME NEW j \in 1..n, NEW k \in 1..n, j < k PROVE u[j].fin < u[k].ini
  <2>1. j \in 1..Len(t)
    BY <1>2, <1>11
  <2>2. CASE k = n
    BY <1>1, <1>8, <2>1, <2>2
  <2>3. CASE k \in 1..Len(t)
    <3>1. t[j].fin < t[k].ini
      BY <1>3, <1>11, <2>1, <2>3 DEF Cortada
    <3> QED BY <1>1, <2>1, <2>3, <3>1
  <2> QED BY <1>4, <2>2, <2>3
<1>12. u[1].ini = 0
  <2>1. CASE t = <<>>
    <3>1. n = 1
      BY <2>1, EmptySeq
    <3> QED BY <1>1, <2>1, <3>1
  <2>2. CASE t # <<>>
    <3>1. 1 \in 1..Len(t)
      BY <1>2, <1>6, <2>2
    <3> QED BY <1>1, <2>2, <3>1 DEF Cortada
  <2> QED BY <2>1, <2>2
<1> HIDE DEF n
<1>13. \A k \in 1..(Len(u) - 1) : u[k+1].ini = u[k].fin + 1
  BY <1>1, <1>10
<1> QED BY <1>3, <1>9, <1>11, <1>12, <1>13 DEF Cortada, u

\* Partition i is taken out of t.
LEMMA QuitarPuntual ==
  ASSUME NEW t \in Seq(Registro), NEW i \in 1..Len(t)
  PROVE  LET u == RemoveAt(t, i)
         IN  /\ u \in Seq(Registro)
             /\ ~t[i].ocupada => Llenas(u) = Llenas(t)
             /\ t[i].ocupada /\ Distintas(t) => Llenas(u) = Llenas(t) \ {t[i]}
             /\ Distintas(t) => Distintas(u)
             /\ Marcada(t) => Marcada(u)
             /\ \A n : IdsHasta(t, n) => IdsHasta(u, n)
             /\ HayLibre(t) /\ t[i].ocupada => HayLibre(u)
             /\ Ocupadas(u) # {} => Ocupadas(t) # {}
<1> DEFINE u == RemoveAt(t, i)
           n == Len(t) - 1
<1>1. u \in Seq(Registro) /\ Len(u) = n
  BY RemoveAtPuntual
<1>2. PICK g \in [1..n -> 1..Len(t)] :
        /\ \A k \in 1..n : u[k] = t[g[k]] /\ g[k] # i
        /\ \A j, k \in 1..n : g[j] = g[k] => j = k
        /\ \A k \in 1..Len(t) : k # i => \E j \in 1..n : g[j] = k
  <2>1. PICK g : VieneDe(u, t, i, g)
    BY RemoveAtPorLugares
  <2>2. n = Len(t) - 1
    OBVIOUS
  <2> HIDE DEF u, n
  <2>3. /\ g \in [1..n -> 1..Len(t)]
        /\ \A k \in 1..n : u[k] = t[g[k]] /\ g[k] # i
        /\ \A j, k \in 1..n : g[j] = g[k] => j = k
        /\ \A k \in 1..Len(t) : k # i => \E j \in 1..n : g[j] = k
    BY <2>1, <2>2 DEF VieneDe
  <2> QED BY <2>3
<1> HIDE DEF u
<1>3. DOMAIN t = 1..Len(t) /\ DOMAIN u = 1..n /\ i \in 1..Len(t)
  BY <1>1, LenProperties
<1> HIDE DEF n
<1>4. \A k \in 1..n : g[k] \in 1..Len(t)
  BY <1>2
<1>5. \A k \in Ocupadas(u) : k \in 1..n /\ g[k] \in Ocupadas(t) /\ u[k] = t[g[k]] /\ g[k] # i
  BY <1>2, <1>3, <1>4 DEF Ocupadas
<1>6. \A k \in Ocupadas(t) : k # i => \E j \in Ocupadas(u) : g[j] = k /\ u[j] = t[k]
  BY <1>2, <1>3 DEF Ocupadas
<1>7. ~t[i].ocupada => Llenas(u) = Llenas(t)
  <2>1. ~t[i].ocupada => i \notin Ocupadas(t)
    BY DEF Ocupadas
  <2> QED BY <1>5, <1>6, <2>1 DEF Llenas
<1>8. t[i].ocupada /\ Distintas(t) => Llenas(u) = Llenas(t) \ {t[i]}
  <2> SUFFICES ASSUME t[i].ocupada, Distintas(t) PROVE Llenas(u) = Llenas(t) \ {t[i]}
    OBVIOUS
  <2>1. i \in Ocupadas(t)
    BY <1>3 DEF Ocupadas
  <2>2. \A x \in Llenas(u) : x \in Llenas(t) /\ x # t[i]
    BY <1>5, <2>1 DEF Llenas, Distintas
  <2>3. \A x \in Llenas(t) : x # t[i] => x \in Llenas(u)
    BY <1>6 DEF Llenas
  <2> QED BY <2>2, <2>3
<1>9. Distintas(t) => Distintas(u)
  BY <1>2, <1>5 DEF Distintas
<1>10. Marcada(t) => Marcada(u)
  BY <1>2, <1>3, <1>4 DEF Marcada
<1>11. \A m : IdsHasta(t, m) => IdsHasta(u, m)
  BY <1>2, <1>3, <1>4 DEF IdsHasta
<1>12. HayLibre(t) /\ t[i].ocupada => HayLibre(u)
  <2> SUFFICES ASSUME t[i].ocupada, NEW k \in 1..Len(t), ~t[k].ocupada PROVE HayLibre(u)
    BY <1>3 DEF HayLibre
  <2>1. k # i
    OBVIOUS
  <2> QED BY <1>2, <1>3, <2>1 DEF HayLibre
<1>13. Ocupadas(u) # {} => Ocupadas(t) # {}
  BY <1>5
<1> QED BY <1>1, <1>7, <1>8, <1>9, <1>10, <1>11, <1>12, <1>13 DEF u

\* The partitions of t, put one after the other from byte x, end where the
\* memory does: after the first k of them, f[k] is the first free byte.
Reparto(t, x, f) ==
  /\ f \in [0..Len(t) -> 0..TAMANO_MEMORIA]
  /\ f[0] = x /\ f[Len(t)] = TAMANO_MEMORIA
  /\ \A k \in 1..Len(t) : f[k] = f[k-1] + t[k].size
  /\ \A j, k \in 0..Len(t) : j < k => f[j] + t[k].size <= f[k]

Cabe(t, x) == \E f : Reparto(t, x, f)

\* What has just been taken out of the memory fits in it.
LEMMA CabeLaListaEntera ==
  ASSUME NEW t \in Seq(Registro), Cortada(t), LlegaAlFinal(t)
  PROVE  Cabe(t, 0)
<1> DEFINE n == Len(t)
           f == [k \in 0..n |-> IF k = 0 THEN 0 ELSE t[k].fin + 1]
<1>1. n \in Nat /\ DOMAIN t = 1..n /\ TAMANO_MEMORIA \in Nat
  BY LenProperties, ConstantesValidas
<1>2. n # 0 /\ t[n].fin = TAMANO_MEMORIA - 1 /\ t[1].ini = 0
  <2>1. t # <<>> /\ t[Len(t)].fin = TAMANO_MEMORIA - 1
    BY DEF LlegaAlFinal
  <2>2. t[1].ini = 0
    BY <2>1 DEF Cortada
  <2>3. n # 0
    BY <2>1, EmptySeq
  <2> QED BY <2>1, <2>2, <2>3
<1> HIDE DEF f
<1>3. ASSUME NEW k \in 1..n
      PROVE  /\ t[k].ini \in Int /\ t[k].fin \in Int /\ t[k].size \in Int
             /\ t[k].fin + 1 = t[k].ini + t[k].size
             /\ t[k].fin + 1 \in 0..TAMANO_MEMORIA
             /\ 0 <= t[k].ini /\ 0 < t[k].size /\ t[k].fin < TAMANO_MEMORIA
             /\ t[k].fin = t[k].ini + t[k].size - 1
  <2>1. t[k] \in Registro
    BY ElementOfSeq
  <2>2. t[k].ini \in Int /\ t[k].fin \in Int /\ t[k].size \in Int
    BY <2>1 DEF Registro
  <2>3. /\ 0 <= t[k].ini /\ 0 < t[k].size /\ t[k].fin < TAMANO_MEMORIA
        /\ t[k].fin = t[k].ini + t[k].size - 1
    BY <1>1 DEF Cortada
  <2> DEFINE a == t[k].ini
             b == t[k].fin
             c == t[k].size
  <2>4. a \in Int /\ b \in Int /\ c \in Int /\ 0 <= a /\ 0 < c /\ b < TAMANO_MEMORIA
        /\ b = a + c - 1
    BY <2>2, <2>3
  <2> HIDE DEF a, b, c
  <2>5. b + 1 = a + c /\ b + 1 \in 0..TAMANO_MEMORIA
    BY <1>1, <2>4
  <2> QED BY <2>4, <2>5 DEF a, b, c
<1>4. f[0] = 0 /\ \A k \in 1..n : f[k] = t[k].fin + 1
  BY <1>1 DEF f
<1>5. f \in [0..n -> 0..TAMANO_MEMORIA]
  <2>1. \A k \in 1..n : t[k].fin + 1 \in 0..TAMANO_MEMORIA
    BY <1>3
  <2> HIDE DEF n
  <2>2. ASSUME NEW k \in 0..n PROVE f[k] \in 0..TAMANO_MEMORIA
    <3>1. CASE k = 0
      BY <1>1, <1>4, <3>1
    <3>2. CASE k # 0
      <4>1. k \in 1..n
        BY <1>1, <3>2
      <4> QED BY <1>4, <2>1, <4>1
    <3> QED BY <3>1, <3>2
  <2> QED BY <2>2 DEF f
<1>6. f[n] = TAMANO_MEMORIA
  <2>1. n \in 1..n
    BY <1>1, <1>2
  <2> QED BY <1>1, <1>2, <1>4, <2>1
<1>7. ASSUME NEW k \in 1..n PROVE f[k] = f[k-1] + t[k].size
  <2>1. CASE k = 1
    <3>1. f[k] = t[k].fin + 1 /\ f[k-1] = 0 /\ t[k].ini = 0
      BY <1>2, <1>4, <2>1
    <3> QED BY <1>3, <3>1
  <2>2. CASE k # 1
    <3>1. k - 1 \in 1..n /\ k - 1 \in 1..(n - 1) /\ (k - 1) + 1 = k
      BY <1>1, <2>2
    <3>2. t[k].ini = t[k-1].fin + 1
      BY <3>1 DEF Cortada
    <3>3. f[k] = t[k].fin + 1 /\ f[k-1] = t[k].ini
      BY <1>4, <3>1, <3>2
    <3> QED BY <1>3, <3>3
  <2> QED BY <2>1, <2>2
<1>8. ASSUME NEW j \in 0..n, NEW k \in 0..n, j < k PROVE f[j] + t[k].size <= f[k]
  <2>1. k \in 1..n
    BY <1>1, <1>8
  <2>2. f[k] = t[k].ini + t[k].size
    <3>1. f[k] = t[k].fin + 1
      BY <1>4, <2>1
    <3>2. t[k].fin + 1 = t[k].ini + t[k].size
      BY <1>3, <2>1
    <3> QED BY <3>1, <3>2
  <2>3. f[j] <= t[k].ini /\ f[j] \in Int
    <3>1. CASE j = 0
      BY <1>3, <1>4, <2>1, <3>1
    <3>2. CASE j # 0
      <4>1. j \in 1..n
        BY <1>1, <3>2
      <4>2. t[j].fin < t[k].ini
        BY <1>1, <1>8, <2>1, <4>1 DEF Cortada
      <4> QED BY <1>3, <1>4, <2>1, <4>1, <4>2
    <3> QED BY <3>1, <3>2
  <2> QED BY <1>3, <2>1, <2>2, <2>3
<1>9. Reparto(t, 0, f)
  BY <1>4, <1>5, <1>6, <1>7, <1>8 DEF Reparto
<1> QED BY <1>9 DEF Cabe

\* Whichever of them goes first, the others fit in what it leaves.
LEMMA CabeElResto ==
  ASSUME NEW t \in Seq(Registro), NEW i \in 1..Len(t), NEW x, Cabe(t, x),
         0 < t[i].size, NEW y, y = x + t[i].size
  PROVE  x \in Nat /\ y \in Nat /\ y <= TAMANO_MEMORIA /\ Cabe(RemoveAt(t, i), y)
<1> DEFINE n == Len(t)
           s == t[i].size
           u == RemoveAt(t, i)
<1>1. PICK f : Reparto(t, x, f)
  BY DEF Cabe
<1> DEFINE g == [k \in 0..(n - 1) |-> IF k < i THEN f[k] + s ELSE f[k+1]]
<1>2. n \in Nat /\ i \in 1..n /\ TAMANO_MEMORIA \in Nat
  BY LenProperties, ConstantesValidas
<1>3. /\ Len(u) = n - 1 /\ u \in Seq(Registro)
      /\ \A k \in 1..(i - 1) : u[k] = t[k]
      /\ \A k \in i..(n - 1) : u[k] = t[k+1]
  BY RemoveAtPuntual
<1>4. \A k \in 1..n : t[k].size \in Int
  <2>1. ASSUME NEW k \in 1..n PROVE t[k].size \in Int
    <3>1. t[k] \in Registro
      BY ElementOfSeq
    <3> QED BY <3>1 DEF Registro
  <2> QED BY <2>1
<1>5. /\ \A k \in 0..n : f[k] \in 0..TAMANO_MEMORIA
      /\ f[0] = x /\ f[n] = TAMANO_MEMORIA
      /\ \A k \in 1..n : f[k] = f[k-1] + t[k].size
      /\ \A j, k \in 0..n : j < k => f[j] + t[k].size <= f[k]
  BY <1>1 DEF Reparto
<1>6. s \in Int /\ 0 < s /\ y = x + s /\ s = t[i].size
  BY <1>2, <1>4
<1> HIDE DEF n, s, u
<1>7. \A k \in 0..(n - 1) : (k < i => g[k] = f[k] + s) /\ (~(k < i) => g[k] = f[k+1])
  OBVIOUS
<1>8. ASSUME NEW k \in 0..(n - 1) PROVE g[k] \in 0..TAMANO_MEMORIA
  <2>1. CASE k < i
    <3>1. k \in 0..n /\ i \in 0..n
      BY <1>2
    <3>2. f[k] + s <= f[i] /\ f[i] \in 0..TAMANO_MEMORIA /\ f[k] \in 0..TAMANO_MEMORIA
      BY <1>5, <1>6, <2>1, <3>1
    <3>3. g[k] = f[k] + s
      BY <1>7, <2>1
    <3> QED BY <1>2, <1>6, <3>2, <3>3
  <2>2. CASE ~(k < i)
    <3>1. k + 1 \in 0..n
      BY <1>2
    <3> QED BY <1>5, <1>7, <2>2, <3>1
  <2> QED BY <2>1, <2>2
<1>9. g \in [0..(n - 1) -> 0..TAMANO_MEMORIA]
  BY <1>8
<1> HIDE DEF g
<1>10. g[0] = y
  <2>1. 0 \in 0..(n - 1) /\ 0 < i
    BY <1>2
  <2> QED BY <1>5, <1>6, <1>7, <2>1
<1>11. g[n - 1] = TAMANO_MEMORIA
  <2>1. n - 1 \in 0..(n - 1) /\ (n - 1) + 1 = n
    BY <1>2
  <2>2. CASE i = n
    <3>1. n - 1 < i
      BY <1>2, <2>2
    <3>2. f[i] = f[i-1] + s /\ f[i] = TAMANO_MEMORIA
      BY <1>2, <1>5, <1>6, <2>2
    <3> QED BY <1>7, <2>1, <2>2, <3>1, <3>2
  <2>3. CASE i # n
    <3>1. ~(n - 1 < i)
      BY <1>2, <2>3
    <3> QED BY <1>5, <1>7, <2>1, <3>1
  <2> QED BY <2>2, <2>3
<1>12. ASSUME NEW k \in 1..(n - 1) PROVE g[k] = g[k-1] + u[k].size
  <2>1. k \in 0..(n - 1) /\ k - 1 \in 0..(n - 1) /\ k \in 1..n /\ k + 1 \in 1..n
        /\ (k + 1) - 1 = k /\ (k - 1) + 1 = k /\ k \in 0..n /\ k - 1 \in 0..n
    BY <1>2
  <2>2. CASE k < i
    <3>1. k \in 1..(i - 1) /\ k - 1 < i
      BY <1>2, <2>2
    <3>2. g[k] = f[k] + s /\ g[k-1] = f[k-1] + s /\ u[k] = t[k]
      BY <1>3, <1>7, <2>1, <2>2, <3>1
    <3>3. f[k] = f[k-1] + t[k].size /\ f[k] \in Int /\ f[k-1] \in Int /\ t[k].size \in Int
      BY <1>4, <1>5, <2>1
    <3> QED BY <1>6, <3>2, <3>3
  <2>3. CASE k = i
    <3>1. k \in i..(n - 1) /\ ~(k < i) /\ k - 1 < i
      BY <1>2, <2>3
    <3>2. g[k] = f[k+1] /\ g[k-1] = f[k-1] + s /\ u[k] = t[k+1]
      BY <1>3, <1>7, <2>1, <3>1
    <3>3. f[k+1] = f[k] + t[k+1].size /\ f[k] = f[k-1] + s
      BY <1>5, <1>6, <2>1, <2>3
    <3> QED BY <3>2, <3>3
  <2>4. CASE i < k
    <3>1. k \in i..(n - 1) /\ ~(k < i) /\ ~(k - 1 < i)
      BY <1>2, <2>4
    <3>2. g[k] = f[k+1] /\ g[k-1] = f[k] /\ u[k] = t[k+1]
      BY <1>3, <1>7, <2>1, <3>1
    <3>3. f[k+1] = f[k] + t[k+1].size
      BY <1>5, <2>1
    <3> QED BY <3>2, <3>3
  <2> QED BY <1>2, <2>2, <2>3, <2>4
<1>13. ASSUME NEW j \in 0..(n - 1), NEW k \in 0..(n - 1), j < k
       PROVE  g[j] + u[k].size <= g[k]
  <2>1. j \in 0..n /\ j + 1 \in 0..n /\ k \in 0..n /\ k + 1 \in 0..n /\ k \in 1..n /\ k + 1 \in 1..n
        /\ i \in 0..n /\ j < k + 1 /\ j + 1 < k + 1
    BY <1>2, <1>13
  <2>2. CASE k < i
    <3>1. k \in 1..(i - 1) /\ j < i
      BY <1>2, <1>13, <2>1, <2>2
    <3>2. g[k] = f[k] + s /\ g[j] = f[j] + s /\ u[k] = t[k]
      BY <1>3, <1>7, <2>2, <3>1
    <3>3. f[j] + t[k].size <= f[k] /\ f[k] \in Int /\ f[j] \in Int /\ t[k].size \in Int
      BY <1>4, <1>5, <1>13, <2>1
    <3> QED BY <1>6, <3>2, <3>3
  <2>3. CASE ~(k < i) /\ ~(j < i)
    <3>1. k \in i..(n - 1)
      BY <1>2, <2>3
    <3>2. g[k] = f[k+1] /\ g[j] = f[j+1] /\ u[k] = t[k+1]
      BY <1>3, <1>7, <2>3, <3>1
    <3>3. f[j+1] + t[k+1].size <= f[k+1]
      BY <1>5, <2>1
    <3> QED BY <3>2, <3>3
  <2>4. CASE ~(k < i) /\ j < i
    <3>1. k \in i..(n - 1) /\ i < k + 1
      BY <1>2, <2>4
    <3>2. g[k] = f[k+1] /\ g[j] = f[j] + s /\ u[k] = t[k+1]
      BY <1>3, <1>7, <2>4, <3>1
    <3>5. \A b, c \in 0..n : b < c => f[b] + t[c].size <= f[c]
      BY <1>5
    <3>6. f[j] + t[i].size <= f[i]
      BY <2>1, <2>4, <3>5
    <3>7. f[i] + t[k+1].size <= f[k+1]
      BY <2>1, <3>1, <3>5
    <3>3. f[j] + s <= f[i] /\ f[i] + t[k+1].size <= f[k+1]
      BY <1>6, <3>6, <3>7
    <3>4. f[j] \in Int /\ f[i] \in Int /\ f[k+1] \in Int
      BY <1>2, <1>5, <2>1
    <3>8. t[k+1].size \in Int
      BY <1>4, <2>1
    <3> DEFINE a == f[j]
               b == f[i]
               c == f[k+1]
               d == t[k+1].size
    <3>9. a \in Int /\ b \in Int /\ c \in Int /\ d \in Int /\ a + s <= b /\ b + d <= c
      BY <3>3, <3>4, <3>8
    <3>10. g[k] = c /\ g[j] = a + s /\ u[k].size = d
      BY <3>2
    <3> HIDE DEF a, b, c, d
    <3>11. (a + s) + d <= c
      BY <1>6, <3>9
    <3> QED BY <3>10, <3>11
  <2> QED BY <2>2, <2>3, <2>4
<1>14. Reparto(u, y, g)
  BY <1>3, <1>9, <1>10, <1>11, <1>12, <1>13 DEF Reparto
<1>15. x \in Nat /\ y \in Nat /\ y <= TAMANO_MEMORIA
  <2>1. 0 \in 0..(n - 1) /\ 0 \in 0..n
    BY <1>2
  <2>2. g[0] \in 0..TAMANO_MEMORIA /\ f[0] \in 0..TAMANO_MEMORIA
    BY <1>5, <1>8, <2>1
  <2> QED BY <1>2, <1>5, <1>10, <2>2
<1> QED BY <1>14, <1>15 DEF Cabe, u
=============================================================================
