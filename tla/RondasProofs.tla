----------------------------- MODULE RondasProofs -----------------------------
(***************************************************************************)
(* Proofs about Rondas: when each trainer has one pokemon and wants one,   *)
(* and those who wait wait for each other in one circle, the detection     *)
(* finds the circle, however the trainers are numbered and however many    *)
(* they are, and its exchanges leave nobody waiting.                       *)
(***************************************************************************)
EXTENDS Rondas, Lemas

-----------------------------------------------------------------------------
(* Functions defined step by step *)

\* h begins in x and follows F up to n.
Sigue(h, x, F, n) == h[0] = x /\ \A k \in 1..n : h[k] = F[<<k, h[k-1]>>]

LEMMA SigueUnico ==
  ASSUME NEW x, NEW F, NEW n \in Nat, NEW g, NEW h, Sigue(g, x, F, n), Sigue(h, x, F, n)
  PROVE  \A k \in 0..n : g[k] = h[k]
<1> DEFINE Bien == {k \in Nat : k <= n => g[k] = h[k]}
<1>1. 0 \in Bien
  BY DEF Sigue
<1>2. ASSUME NEW k \in Bien PROVE k + 1 \in Bien
  <2> SUFFICES ASSUME k + 1 <= n PROVE g[k+1] = h[k+1]
    OBVIOUS
  <2>1. g[k] = h[k] /\ k + 1 \in 1..n /\ (k + 1) - 1 = k
    OBVIOUS
  <2> QED BY <2>1 DEF Sigue
<1>3. Bien = Nat
  <2>1. Bien \in SUBSET Nat
    OBVIOUS
  <2> HIDE DEF Bien
  <2> QED BY <1>1, <1>2, <2>1, InduccionNat
<1> QED BY <1>3

\* Each value is made from the one before: there is such a function.
LEMMA Iterada ==
  ASSUME NEW S, NEW x \in S, NEW n \in Nat, NEW F \in [(1..n) \X S -> S]
  PROVE  \E h \in [0..n -> S] : Sigue(h, x, F, n)
<1> DEFINE Hay == {k \in Nat : k <= n => \E h \in [0..k -> S] : Sigue(h, x, F, k)}
<1>1. 0 \in Hay
  <2> DEFINE h == [k \in 0..0 |-> x]
  <2>1. h \in [0..0 -> S] /\ h[0] = x
    OBVIOUS
  <2> HIDE DEF h
  <2>2. Sigue(h, x, F, 0)
    BY <2>1 DEF Sigue
  <2> QED BY <2>1, <2>2
<1>2. ASSUME NEW k \in Hay PROVE k + 1 \in Hay
  <2> SUFFICES ASSUME k + 1 <= n PROVE \E h \in [0..(k + 1) -> S] : Sigue(h, x, F, k + 1)
    OBVIOUS
  <2>1. k \in Nat /\ k + 1 \in 1..n
    OBVIOUS
  <2>2. PICK g \in [0..k -> S] : Sigue(g, x, F, k)
    OBVIOUS
  <2> HIDE DEF Hay
  <2> DEFINE v == F[<<k + 1, g[k]>>]
             h == [j \in 0..(k + 1) |-> IF j = k + 1 THEN v ELSE g[j]]
  <2>3. v \in S
    BY <2>1
  <2>4. /\ h \in [0..(k + 1) -> S] /\ h[k + 1] = v /\ h[0] = g[0]
        /\ \A j \in 0..k : h[j] = g[j]
    <3> HIDE DEF v
    <3> QED BY <2>1, <2>3
  <2> HIDE DEF h
  <2>5. ASSUME NEW j \in 1..(k + 1) PROVE h[j] = F[<<j, h[j-1]>>]
    <3>1. CASE j = k + 1
      <4>1. j - 1 = k /\ k \in 0..k
        BY <2>1, <3>1
      <4> QED BY <2>4, <3>1, <4>1
    <3>2. CASE j # k + 1
      <4>1. j \in 1..k /\ j \in 0..k /\ j - 1 \in 0..k
        BY <2>1, <3>2
      <4> QED BY <2>2, <2>4, <4>1 DEF Sigue
    <3> QED BY <3>1, <3>2
  <2>6. Sigue(h, x, F, k + 1)
    BY <2>2, <2>4, <2>5 DEF Sigue
  <2> QED BY <2>4, <2>6
<1>3. Hay = Nat
  <2>1. Hay \in SUBSET Nat
    OBVIOUS
  <2> HIDE DEF Hay
  <2> QED BY <1>1, <1>2, <2>1, InduccionNat
<1> QED BY <1>3
-----------------------------------------------------------------------------
(* Elegidos keeps the elements it is asked for, and their number *)

\* The partial results of Elegidos.
LEMMA ElegidosPasos ==
  ASSUME NEW l, Len(l) \in Nat, NEW I
  PROVE  \E h : /\ h[0] = <<>> /\ h[Len(l)] = Elegidos(l, I)
                /\ \A k \in 1..Len(l) : h[k] = IF k \in I THEN Append(h[k-1], l[k]) ELSE h[k-1]
<1> DEFINE N == Len(l)
           S == {l[i] : i \in 1..N}
           F == [p \in (1..N) \X Seq(S) |-> IF p[1] \in I THEN Append(p[2], l[p[1]]) ELSE p[2]]
           Paso(h) == [k \in 0..N |-> IF k = 0 THEN <<>>
                                      ELSE IF k \in I THEN Append(h[k-1], l[k]) ELSE h[k-1]]
<1>1. F \in [(1..N) \X Seq(S) -> Seq(S)]
  <2>1. \A k \in 1..N, s \in Seq(S) : Append(s, l[k]) \in Seq(S)
    <3>1. \A k \in 1..N : l[k] \in S
      OBVIOUS
    <3> HIDE DEF S, N
    <3> QED BY <3>1
  <2> HIDE DEF S, N
  <2> QED BY <2>1
<1>2. <<>> \in Seq(S)
  OBVIOUS
<1>v. \A k \in 1..N, s \in Seq(S) : F[<<k, s>>] = IF k \in I THEN Append(s, l[k]) ELSE s
  <2> HIDE DEF S, N
  <2> QED OBVIOUS
<1> HIDE DEF F, S
<1>3. PICK g \in [0..N -> Seq(S)] : Sigue(g, <<>>, F, N)
  BY <1>1, <1>2, Iterada
<1>4. \A k \in 1..N : g[k] = IF k \in I THEN Append(g[k-1], l[k]) ELSE g[k-1]
  <2> SUFFICES ASSUME NEW k \in 1..N PROVE g[k] = IF k \in I THEN Append(g[k-1], l[k]) ELSE g[k-1]
    OBVIOUS
  <2>0. k - 1 \in 0..N /\ N \in Nat
    OBVIOUS
  <2> HIDE DEF N
  <2>1. g[k-1] \in Seq(S) /\ g[k] = F[<<k, g[k-1]>>]
    BY <1>3, <2>0 DEF Sigue
  <2> QED BY <1>v, <2>1
<1>5. g = Paso(g)
  <2>1. g = [k \in 0..N |-> g[k]]
    OBVIOUS
  <2>2. \A k \in 0..N : g[k] = IF k = 0 THEN <<>>
                               ELSE IF k \in I THEN Append(g[k-1], l[k]) ELSE g[k-1]
    <3>1. g[0] = <<>>
      BY <1>3 DEF Sigue
    <3> SUFFICES ASSUME NEW k \in 0..N, k # 0
        PROVE  g[k] = IF k \in I THEN Append(g[k-1], l[k]) ELSE g[k-1]
      BY <3>1
    <3>2. k \in 1..N
      OBVIOUS
    <3> QED BY <1>4, <3>2
  <2> QED BY <2>1, <2>2
<1> DEFINE hasta == CHOOSE h : h = Paso(h)
<1>6. hasta = Paso(hasta)
  <2> HIDE DEF Paso
  <2> QED BY <1>5
<1>7. Elegidos(l, I) = hasta[N]
  BY DEF Elegidos
<1> HIDE DEF hasta
<1>8. hasta[0] = <<>>
  BY <1>6
<1>9. ASSUME NEW k \in 1..N
      PROVE  hasta[k] = IF k \in I THEN Append(hasta[k-1], l[k]) ELSE hasta[k-1]
  <2>1. k \in 0..N /\ k # 0
    OBVIOUS
  <2> QED BY <1>6, <2>1
<1> QED BY <1>7, <1>8, <1>9

\* m is a list of the elements of l at the places I, each once: u says which.
Elige(m, l, I, u) ==
  /\ Len(m) \in Nat /\ u \in [1..Len(m) -> I]
  /\ \A j \in 1..Len(m) : m[j] = l[u[j]]
  /\ \A i, j \in 1..Len(m) : u[i] = u[j] => i = j
  /\ \A i \in I : \E j \in 1..Len(m) : u[j] = i

LEMMA ElegidosSon ==
  ASSUME NEW l, Len(l) \in Nat, NEW I \in SUBSET (1..Len(l))
  PROVE  /\ Elegidos(l, I) \in Seq({l[i] : i \in 1..Len(l)})
         /\ Len(Elegidos(l, I)) \in 0..Len(l)
         /\ \E u : Elige(Elegidos(l, I), l, I, u)
<1> DEFINE N == Len(l)
           S == {l[i] : i \in 1..N}
<1>1. PICK h : /\ h[0] = <<>> /\ h[N] = Elegidos(l, I)
               /\ \A k \in 1..N : h[k] = IF k \in I THEN Append(h[k-1], l[k]) ELSE h[k-1]
  BY ElegidosPasos
<1> DEFINE Hay(k) == /\ h[k] \in Seq(S) /\ Len(h[k]) <= k
                     /\ \E u : Elige(h[k], l, I \cap (1..k), u)
           Bien == {k \in Nat : k <= N => Hay(k)}
<1>2. 0 \in Bien
  <2> SUFFICES Hay(0)
    <3> HIDE DEF Hay
    <3> QED OBVIOUS
  <2>1. h[0] \in Seq(S) /\ Len(h[0]) = 0 /\ I \cap (1..0) = {}
    BY <1>1
  <2> DEFINE u == [j \in {} |-> 0]
  <2>2. Elige(h[0], l, I \cap (1..0), u)
    BY <2>1 DEF Elige
  <2> HIDE DEF u
  <2> QED BY <2>1, <2>2
<1>3. ASSUME NEW k \in Bien PROVE k + 1 \in Bien
  <2> SUFFICES ASSUME k + 1 <= N PROVE Hay(k + 1)
    <3> HIDE DEF Hay
    <3> QED OBVIOUS
  <2>1. k \in Nat /\ k + 1 \in 1..N /\ (k + 1) - 1 = k /\ k <= N
    OBVIOUS
  <2>h. Hay(k)
    <3> HIDE DEF Hay
    <3> QED BY <2>1
  <2>2. h[k] \in Seq(S) /\ Len(h[k]) <= k
    BY <2>h
  <2>3. PICK u : Elige(h[k], l, I \cap (1..k), u)
    BY <2>h
  <2> HIDE DEF Bien
  <2>4. h[k + 1] = IF k + 1 \in I THEN Append(h[k], l[k + 1]) ELSE h[k]
    BY <1>1, <2>1
  <2>5. CASE k + 1 \notin I
    <3>1. I \cap (1..(k + 1)) = I \cap (1..k)
      BY <2>1, <2>5
    <3>2. h[k + 1] = h[k] /\ Len(h[k]) <= k + 1
      <4>1. Len(h[k]) \in Nat
        BY <2>3 DEF Elige
      <4>2. h[k + 1] = h[k]
        BY <2>4, <2>5
      <4>3. PICK a \in Nat : a = Len(h[k])
        BY <4>1
      <4>4. a <= k + 1
        <5>1. a <= k
          BY <2>2, <4>3
        <5> QED BY <2>1, <5>1
      <4> QED BY <4>2, <4>3, <4>4
    <3>3. h[k + 1] \in Seq(S) /\ \E w : Elige(h[k + 1], l, I \cap (1..(k + 1)), w)
      <4> HIDE DEF S
      <4> QED BY <2>2, <2>3, <3>1, <3>2
    <3>4. Len(h[k + 1]) <= k + 1
      BY <3>2
    <3> HIDE DEF S
    <3> QED BY <3>3, <3>4
  <2>6. CASE k + 1 \in I
    <3> DEFINE M == Len(h[k])
               v == [j \in 1..(M + 1) |-> IF j = M + 1 THEN k + 1 ELSE u[j]]
               m == h[k + 1]
    <3>1. M \in Nat /\ M <= k
      BY <2>2
    <3>2. l[k + 1] \in S
      BY <2>1
    <3>3. /\ m \in Seq(S) /\ Len(m) = M + 1 /\ m[M + 1] = l[k + 1]
          /\ \A j \in 1..M : m[j] = h[k][j]
      <4> HIDE DEF S
      <4> QED BY <2>2, <2>4, <2>6, <3>2
    <3>4. /\ u \in [1..M -> I \cap (1..k)] /\ \A j \in 1..M : h[k][j] = l[u[j]]
          /\ \A i, j \in 1..M : u[i] = u[j] => i = j
          /\ \A i \in I \cap (1..k) : \E j \in 1..M : u[j] = i
      BY <2>3 DEF Elige
    <3> HIDE DEF M, m
    <3>5. /\ v[M + 1] = k + 1 /\ \A j \in 1..M : v[j] = u[j]
          /\ v \in [1..(M + 1) -> I \cap (1..(k + 1))]
      <4>1. k + 1 \in I \cap (1..(k + 1)) /\ I \cap (1..k) \subseteq I \cap (1..(k + 1))
        BY <2>1, <2>6
      <4> QED BY <3>1, <3>4, <4>1
    <3> HIDE DEF v
    <3>6. \A j \in 1..(M + 1) : m[j] = l[v[j]]
      <4> SUFFICES ASSUME NEW j \in 1..(M + 1) PROVE m[j] = l[v[j]]
        OBVIOUS
      <4>1. j = M + 1 \/ j \in 1..M
        BY <3>1
      <4> QED BY <3>3, <3>4, <3>5, <4>1
    <3>7. \A i, j \in 1..(M + 1) : v[i] = v[j] => i = j
      <4> SUFFICES ASSUME NEW i \in 1..(M + 1), NEW j \in 1..(M + 1), v[i] = v[j] PROVE i = j
        OBVIOUS
      <4>1. (i = M + 1 \/ i \in 1..M) /\ (j = M + 1 \/ j \in 1..M)
        BY <3>1
      <4>2. \A x \in 1..M : v[x] \in 1..k
        BY <3>4, <3>5
      <4>3. \A x \in 1..M : v[x] # k + 1
        BY <2>1, <4>2
      <4> QED BY <3>4, <3>5, <4>1, <4>3
    <3>8. \A i \in I \cap (1..(k + 1)) : \E j \in 1..(M + 1) : v[j] = i
      <4> SUFFICES ASSUME NEW i \in I \cap (1..(k + 1)) PROVE \E j \in 1..(M + 1) : v[j] = i
        OBVIOUS
      <4>1. i = k + 1 \/ i \in I \cap (1..k)
        BY <2>1
      <4>2. M + 1 \in 1..(M + 1) /\ 1..M \subseteq 1..(M + 1)
        BY <3>1
      <4> QED BY <3>4, <3>5, <4>1, <4>2
    <3>9. Elige(m, l, I \cap (1..(k + 1)), v)
      BY <3>1, <3>3, <3>5, <3>6, <3>7, <3>8 DEF Elige
    <3>10. m \in Seq(S) /\ Len(m) <= k + 1
      BY <2>1, <3>1, <3>3
    <3> QED BY <3>9, <3>10 DEF m
  <2> QED BY <2>5, <2>6
<1>4. Bien = Nat
  <2>1. Bien \in SUBSET Nat
    OBVIOUS
  <2> HIDE DEF Bien
  <2> QED BY <1>2, <1>3, <2>1, InduccionNat
<1>5. N \in Bien /\ I \cap (1..N) = I
  BY <1>4
<1>6. Hay(N)
  <2> HIDE DEF Hay
  <2> QED BY <1>5
<1>7. h[N] \in Seq(S) /\ Len(h[N]) <= N /\ \E u : Elige(h[N], l, I, u)
  BY <1>5, <1>6
<1>8. Len(h[N]) \in 0..N
  <2>1. Len(h[N]) \in Nat /\ Len(h[N]) <= N
    BY <1>7 DEF Elige
  <2> HIDE DEF N
  <2> QED BY <2>1
<1> HIDE DEF Hay, S
<1> QED BY <1>1, <1>7, <1>8 DEF S

\* A list of the numbers of 1..m, each once, has m of them.
Numera(u, a, m) ==
  /\ u \in [1..a -> 1..m] /\ \A i, j \in 1..a : u[i] = u[j] => i = j
  /\ \A i \in 1..m : \E j \in 1..a : u[j] = i

LEMMA MismoLargo ==
  ASSUME NEW a \in Nat, NEW m \in Nat, NEW u, Numera(u, a, m)
  PROVE  a = m
<1>1. IsFiniteSet(1..a) /\ Cardinality(1..a) = a /\ IsFiniteSet(1..m) /\ Cardinality(1..m) = m
  BY FS_Interval
<1>2. u \in Bijection(1..a, 1..m)
  BY DEF Numera, Bijection, Injection, Surjection, IsInjective
<1>3. ExistsBijection(1..a, 1..m)
  BY <1>2 DEF ExistsBijection
<1> QED BY <1>1, <1>3, FS_Bijection
-----------------------------------------------------------------------------
(* Walking round a circle *)

\* s goes through the rows 1..m in one circle: nothing smaller is closed.
Circulo(s, m) ==
  /\ s \in [1..m -> 1..m]
  /\ \A i, j \in 1..m : s[i] = s[j] => i = j
  /\ \A X \in SUBSET (1..m) : X # {} /\ (\A i \in X : s[i] \in X) => X = 1..m

\* h goes from row i to the next one, m times.
Vuelta(h, s, i, m) ==
  /\ h \in [0..m -> 1..m] /\ h[0] = i
  /\ \A k \in 1..m : h[k] = s[h[k-1]]

\* It is back for the first time after going through all the rows.
LEMMA VueltaEntera ==
  ASSUME NEW m \in Nat, NEW s, Circulo(s, m), NEW i \in 1..m, NEW h, Vuelta(h, s, i, m)
  PROVE  /\ h[m] = i /\ \A k \in 1..(m - 1) : h[k] # i
         /\ {h[k] : k \in 0..(m - 1)} = 1..m
<1>1. /\ h \in [0..m -> 1..m] /\ h[0] = i /\ \A k \in 1..m : h[k] = s[h[k-1]]
      /\ s \in [1..m -> 1..m] /\ \A a, b \in 1..m : s[a] = s[b] => a = b
      /\ m >= 1 /\ \A k \in 0..m : h[k] \in 1..m
  <2>1. h \in [0..m -> 1..m] /\ h[0] = i /\ \A k \in 1..m : h[k] = s[h[k-1]]
    BY DEF Vuelta
  <2>2. s \in [1..m -> 1..m] /\ \A a, b \in 1..m : s[a] = s[b] => a = b
    BY DEF Circulo
  <2>3. m >= 1
    OBVIOUS
  <2>4. \A k \in 0..m : h[k] \in 1..m
    BY <2>1
  <2> QED BY <2>1, <2>2, <2>3, <2>4
<1>2. ASSUME NEW k \in 1..m, h[k] = i
      PROVE  {h[j] : j \in 0..(k - 1)} = 1..m
  <2> DEFINE X == {h[j] : j \in 0..(k - 1)}
  <2>0. 0..(k - 1) \subseteq 0..m /\ 0 \in 0..(k - 1)
    OBVIOUS
  <2>1. X \in SUBSET (1..m) /\ i \in X
    <3>1. \A j \in 0..(k - 1) : h[j] \in 1..m
      BY <1>1, <2>0
    <3>2. h[0] = i /\ 0 \in 0..(k - 1)
      BY <1>1, <2>0
    <3> QED BY <3>1, <3>2
  <2>2. ASSUME NEW a \in X PROVE s[a] \in X
    <3>1. PICK j \in 0..(k - 1) : a = h[j]
      BY <2>2
    <3>2. j + 1 \in 1..m /\ (j + 1) - 1 = j
      OBVIOUS
    <3>3. s[a] = h[j + 1]
      BY <1>1, <3>1, <3>2
    <3>4. CASE j = k - 1
      <4>1. j + 1 = k
        BY <3>4
      <4> QED BY <1>2, <2>1, <3>3, <4>1
    <3>5. CASE j # k - 1
      <4>1. j + 1 \in 0..(k - 1)
        BY <3>5
      <4> QED BY <3>3, <4>1
    <3> QED BY <3>4, <3>5
  <2> HIDE DEF X
  <2> QED BY <2>1, <2>2 DEF Circulo, X
<1>3. ASSUME NEW k \in 1..m, h[k] = i PROVE k = m
  <2> DEFINE g == [j \in 0..(k - 1) |-> h[j]]
  <2>1. g \in Surjection(0..(k - 1), 1..m)
    <3>0. 0..(k - 1) \subseteq 0..m
      OBVIOUS
    <3>1. g \in [0..(k - 1) -> 1..m]
      BY <1>1, <3>0
    <3>2. \A t \in 1..m : \E j \in 0..(k - 1) : g[j] = t
      <4> SUFFICES ASSUME NEW t \in 1..m PROVE \E j \in 0..(k - 1) : g[j] = t
        OBVIOUS
      <4>1. t \in {h[j] : j \in 0..(k - 1)}
        BY <1>2, <1>3
      <4> QED BY <4>1
    <3> HIDE DEF g
    <3> QED BY <3>1, <3>2 DEF Surjection
  <2>2. /\ IsFiniteSet(0..(k - 1)) /\ Cardinality(0..(k - 1)) = k
        /\ Cardinality(1..m) = m
    <3>1. (k - 1) - 0 + 1 = k /\ ~(0 > k - 1) /\ k - 1 \in Int /\ 0 \in Int
      OBVIOUS
    <3>2. m - 1 + 1 = m /\ ~(1 > m) /\ m \in Int /\ 1 \in Int
      BY <1>1
    <3>3. IsFiniteSet(0..(k - 1)) /\ Cardinality(0..(k - 1)) = (k - 1) - 0 + 1
      BY <3>1, FS_Interval
    <3>4. Cardinality(1..m) = m - 1 + 1
      BY <3>2, FS_Interval
    <3> QED BY <3>1, <3>2, <3>3, <3>4
  <2> HIDE DEF g
  <2>3. m <= k
    BY <2>1, <2>2, FS_Surjection
  <2> QED BY <2>3
\* Two of the m + 1 rows are the same; so are those as many steps before.
<1>4. PICK a \in 0..m, b \in 0..m : a < b /\ h[a] = h[b]
  <2>1. /\ IsFiniteSet(0..m) /\ Cardinality(0..m) = m + 1
        /\ IsFiniteSet(1..m) /\ Cardinality(1..m) = m
    <3>1. m - 0 + 1 = m + 1 /\ ~(0 > m) /\ m \in Int /\ 0 \in Int /\ m - 1 + 1 = m /\ ~(1 > m) /\ 1 \in Int
      BY <1>1
    <3>2. IsFiniteSet(0..m) /\ Cardinality(0..m) = m - 0 + 1
      BY <3>1, FS_Interval
    <3>3. IsFiniteSet(1..m) /\ Cardinality(1..m) = m - 1 + 1
      BY <3>1, FS_Interval
    <3> QED BY <3>1, <3>2, <3>3
  <2>2. Cardinality(1..m) < Cardinality(0..m)
    BY <2>1
  <2>3. PICK x \in 0..m, y \in 0..m : x # y /\ h[x] = h[y]
    <3>1. h \in [0..m -> 1..m]
      BY <1>1
    <3> QED BY <2>1, <2>2, <3>1, FS_PigeonHole
  <2>4. x < y \/ y < x
    BY <2>3
  <2> QED BY <2>3, <2>4
<1> DEFINE Bien == {k \in Nat : k <= a => h[a - k] = h[b - k]}
<1>5. Bien = Nat
  <2>1. 0 \in Bien
    BY <1>4
  <2>2. ASSUME NEW k \in Bien PROVE k + 1 \in Bien
    <3> SUFFICES ASSUME k + 1 <= a PROVE h[a - (k + 1)] = h[b - (k + 1)]
      OBVIOUS
    <3>1. h[a - k] = h[b - k]
      OBVIOUS
    <3>2. /\ a - k \in 1..m /\ b - k \in 1..m /\ (a - k) - 1 = a - (k + 1) /\ (b - k) - 1 = b - (k + 1)
          /\ a - (k + 1) \in 0..m /\ b - (k + 1) \in 0..m
      BY <1>4
    <3> QED BY <1>1, <3>1, <3>2
  <2>3. Bien \in SUBSET Nat
    OBVIOUS
  <2> HIDE DEF Bien
  <2> QED BY <2>1, <2>2, <2>3, InduccionNat
<1>6. h[b - a] = i /\ b - a \in 1..m
  <2>0. a \in Nat /\ a - a = 0 /\ a <= a /\ b - a \in 1..m
    BY <1>4
  <2>1. a \in Bien /\ a - a = 0 /\ a <= a /\ b - a \in 1..m
    <3> HIDE DEF Bien
    <3> QED BY <1>5, <2>0
  <2>2. h[a - a] = h[b - a]
    BY <2>1
  <2> HIDE DEF Bien
  <2> QED BY <1>1, <2>1, <2>2
<1>7. h[m] = i
  BY <1>3, <1>6
<1>8. \A k \in 1..(m - 1) : h[k] # i
  <2> SUFFICES ASSUME NEW k \in 1..(m - 1), h[k] = i PROVE FALSE
    OBVIOUS
  <2>1. k \in 1..m
    OBVIOUS
  <2>2. k = m
    BY <1>3, <2>1
  <2> QED BY <2>2
<1>9. m \in 1..m
  BY <1>1
<1> QED BY <1>2, <1>7, <1>8, <1>9

LEMMA Division ==
  ASSUME NEW f \in Nat \ {0}, NEW q \in Nat, NEW r \in 0..(f - 1)
  PROVE  (q * f + r) \div f = q /\ (q * f + r) % f = r
<1> DEFINE k == q * f + r
           d == k \div f
           e == k % f
<1>0. q * f \in Nat /\ k \in Nat
  OBVIOUS
<1>1. d \in Int /\ e \in 0..(f - 1) /\ k = f * d + e
  OBVIOUS
<1>2. f * d + e = q * f + r
  BY <1>1
<1> HIDE DEF k, d, e
<1>3. d = q
  <2>1. CASE d > q
    <3>1. PICK z \in Nat : d = q + 1 + z
      <4>1. d - q - 1 \in Nat /\ d = q + 1 + (d - q - 1)
        BY <1>1, <2>1
      <4> QED BY <4>1
    <3>2. f * d = f * q + f + f * z
      BY <1>1, <3>1
    <3>3. f * z >= 0
      BY <3>1
    <3>4. PICK a \in Nat, b \in Nat : a = f * q /\ b = f * z
      BY <3>1
    <3>5. f * d = a + f + b /\ q * f = a
      BY <3>2, <3>4
    <3> QED BY <1>1, <1>2, <3>4, <3>5
  <2>2. CASE d < q
    <3>1. PICK z \in Nat : q = d + 1 + z
      <4>1. q - d - 1 \in Nat /\ q = d + 1 + (q - d - 1)
        BY <1>1, <2>2
      <4> QED BY <4>1
    <3>2. f * q = f * d + f + f * z
      BY <1>1, <3>1
    <3>4. PICK a \in Int, b \in Nat : a = f * d /\ b = f * z
      BY <1>1, <3>1
    <3>5. f * q = a + f + b /\ q * f = f * q
      BY <3>2, <3>4
    <3> QED BY <1>1, <1>2, <3>4, <3>5
  <2> QED BY <1>1, <2>1, <2>2
<1>4. e = r
  <2>1. PICK a \in Nat : a = q * f /\ a = f * d
    BY <1>0, <1>3
  <2> QED BY <1>1, <1>2, <2>1
<1> QED BY <1>3, <1>4 DEF d, e, k
-----------------------------------------------------------------------------
(* The rows of a circle *)

\* Each trainer of dl is joined to the next one of the circle and to no other.
Anillo(dl, s) ==
  /\ Len(dl) \in Nat /\ Len(dl) > 1 /\ DOMAIN dl = 1..Len(dl) /\ Circulo(s, Len(dl))
  /\ \A i, j \in 1..Len(dl) : estan_unidos(dl[i], dl[j]) <=> j = s[i]

LEMMA OtroSigue ==
  ASSUME NEW dl, NEW s, Anillo(dl, s), NEW i \in 1..Len(dl)
  PROVE  s[i] \in 1..Len(dl) /\ s[i] # i
<1> DEFINE m == Len(dl)
<1>1. /\ m \in Nat /\ m > 1 /\ s \in [1..m -> 1..m]
      /\ \A X \in SUBSET (1..m) : X # {} /\ (\A a \in X : s[a] \in X) => X = 1..m
  BY DEF Anillo, Circulo
<1> HIDE DEF m
<1>2. ASSUME s[i] = i PROVE FALSE
  <2> DEFINE X == {i}
  <2>1. X \in SUBSET (1..m) /\ X # {} /\ \A a \in X : s[a] \in X
    <3>1. \A a \in {i} : a = i
      OBVIOUS
    <3>2. \A a \in {i} : s[a] \in {i}
      BY <1>2, <3>1
    <3>3. i \in 1..m
      BY DEF m
    <3> QED BY <3>2, <3>3
  <2>2. X = 1..m
    <3> HIDE DEF X
    <3> QED BY <1>1, <2>1, Zenon
  <2>3. 1 \in X /\ 2 \in X
    <3> HIDE DEF X
    <3>1. 1 \in 1..m /\ 2 \in 1..m
      BY <1>1
    <3> QED BY <2>2, <3>1
  <2>4. 1 = i /\ 2 = i
    BY <2>3
  <2> QED BY <2>4
<1> QED BY <1>1, <1>2 DEF m

\* The column of a row is the cell of the same row, as far as the matrix goes.
LEMMA CeldaDentro ==
  ASSUME NEW dl, NEW s, Anillo(dl, s), NEW i \in 1..Len(dl), NEW j \in 1..Len(dl), i # j,
         NEW basura
  PROVE  Celda(dl, i, j, basura) <=> j = s[i]
<1> DEFINE f == Len(dl)
           k == (i - 1) * f + j - 1
<1>1. f \in Nat \ {0} /\ i - 1 \in Nat /\ j - 1 \in 0..(f - 1)
  BY DEF Anillo
<1>2. k = (i - 1) * f + (j - 1)
  <2>1. PICK a \in Nat : a = (i - 1) * f
    BY <1>1
  <2> QED BY <1>1, <2>1
<1>3. k \div f = i - 1 /\ k % f = j - 1
  <2> HIDE DEF k, f
  <2> QED BY <1>1, <1>2, Division
<1>4. (k \div f) + 1 = i /\ (k % f) + 1 = j /\ ~(i > f)
  <2> HIDE DEF k
  <2> QED BY <1>1, <1>3
<1>5. estan_unidos(dl[i], dl[j]) <=> j = s[i]
  BY DEF Anillo
<1> HIDE DEF f, k
<1>6. Celda(dl, i, j, basura) <=> (i # j /\ estan_unidos(dl[i], dl[j]))
  BY <1>4 DEF Celda, f, k
<1> QED BY <1>5, <1>6

LEMMA SiguienteEs ==
  ASSUME NEW dl, NEW s, Anillo(dl, s), NEW n \in Nat, Len(dl) <= n,
         NEW fila \in 1..Len(dl), NEW basura
  PROVE  Siguiente(dl, n, fila, basura) = s[fila]
<1> DEFINE U == Unos(dl, n, fila, basura)
           m == Len(dl)
<1>1. m \in Nat /\ s[fila] \in 1..m /\ s[fila] # fila /\ fila \in 1..m
  BY OtroSigue DEF Anillo
<1>2. ASSUME NEW j \in 1..m, j # fila PROVE j \in U <=> j = s[fila]
  <2>1. Celda(dl, fila, j, basura) <=> j = s[fila]
    BY <1>2, CeldaDentro
  <2>2. j \in 1..n
    BY <1>1
  <2> QED BY <1>2, <2>1, <2>2 DEF Unos
<1>3. s[fila] \in U
  BY <1>1, <1>2
<1>4. U \in SUBSET (1..n) /\ fila \notin U
  BY DEF Unos
<1> HIDE DEF U
<1>5. \A j \in U : j >= s[fila]
  <2> SUFFICES ASSUME NEW j \in U, j < s[fila] PROVE FALSE
    <3> PICK a \in Nat : a = s[fila]
      BY <1>1
    <3>1. U \subseteq Nat
      BY <1>4
    <3> QED BY <3>1
  <2> PICK a \in Nat : a = s[fila]
    BY <1>1
  <2>1. j \in 1..m /\ j # fila
    BY <1>1, <1>4
  <2>2. j = s[fila]
    BY <1>2, <2>1
  <2> QED BY <2>2
<1>6. Min(U) = s[fila]
  <2>1. s[fila] \in Nat /\ U \subseteq Nat
    BY <1>1, <1>4
  <2>2. \A y \in U : (\A z \in U : y <= z) => y = s[fila]
    BY <1>3, <1>5, <2>1
  <2>3. s[fila] \in U /\ \A z \in U : s[fila] <= z
    BY <1>3, <1>5, <2>1
  <2> QED BY <2>2, <2>3 DEF Min
<1>7. U # {} /\ fila # 0
  BY <1>1, <1>3
<1> QED BY <1>6, <1>7 DEF Siguiente, PrimerUno, U
-----------------------------------------------------------------------------
(* The search finds the circle *)

\* The walk from row i follows the circle to its end.
LEMMA RecorreLaVuelta ==
  ASSUME NEW dl, NEW s, Anillo(dl, s), NEW n \in Nat, Len(dl) <= n,
         NEW i \in 1..Len(dl), NEW basura
  PROVE  \E h : /\ Vuelta(h, s, i, Len(dl))
                /\ recorrer_fila_DL(dl, n, i, 0, basura) = [k \in 1..(Len(dl) + 1) |-> h[k-1]]
<1> DEFINE m == Len(dl)
           F == [p \in (1..m) \X (1..m) |-> s[p[2]]]
           Paso(h) == [k \in 0..m |-> IF k = 0 THEN i ELSE Siguiente(dl, n, h[k-1], basura)]
           fila == CHOOSE h : h = Paso(h)
<1>1. m \in Nat /\ m > 1 /\ s \in [1..m -> 1..m]
  BY DEF Anillo, Circulo
<1>2. \A x \in 1..m : Siguiente(dl, n, x, basura) = s[x]
  BY SiguienteEs
<1>f. F \in [(1..m) \X (1..m) -> 1..m] /\ \A k \in 1..m, x \in 1..m : F[<<k, x>>] = s[x]
  <2> HIDE DEF m
  <2> QED BY <1>1
<1> HIDE DEF F
<1>3. PICK g \in [0..m -> 1..m] : Sigue(g, i, F, m)
  BY <1>1, <1>f, Iterada
<1>4. g = Paso(g)
  <2> HIDE DEF m
  <2>1. g = [k \in 0..m |-> g[k]]
    OBVIOUS
  <2>2. \A k \in 0..m : g[k] = IF k = 0 THEN i ELSE Siguiente(dl, n, g[k-1], basura)
    <3> SUFFICES ASSUME NEW k \in 0..m
        PROVE  g[k] = IF k = 0 THEN i ELSE Siguiente(dl, n, g[k-1], basura)
      OBVIOUS
    <3>1. CASE k = 0
      BY <1>3, <3>1 DEF Sigue
    <3>2. CASE k # 0
      <4>1. k \in 1..m /\ k - 1 \in 0..m
        BY <1>1, <3>2
      <4>2. g[k] = F[<<k, g[k-1]>>] /\ g[k-1] \in 1..m
        BY <1>3, <4>1 DEF Sigue
      <4>3. g[k] = s[g[k-1]]
        BY <1>f, <4>1, <4>2
      <4>4. Siguiente(dl, n, g[k-1], basura) = s[g[k-1]]
        BY <1>2, <4>2
      <4> QED BY <3>2, <4>3, <4>4
    <3> QED BY <3>1, <3>2
  <2> QED BY <2>1, <2>2
<1>5. fila = Paso(fila)
  <2> HIDE DEF Paso
  <2> QED BY <1>4
<1>6. /\ DOMAIN fila = 0..m /\ fila[0] = i
      /\ \A k \in 1..m : fila[k] = Siguiente(dl, n, fila[k-1], basura)
  <2> HIDE DEF fila, m
  <2>1. fila[0] = i
    BY <1>1, <1>5
  <2>2. ASSUME NEW k \in 1..m PROVE fila[k] = Siguiente(dl, n, fila[k-1], basura)
    <3>1. k \in 0..m /\ k # 0
      BY <1>1
    <3> QED BY <1>5, <3>1
  <2>3. DOMAIN fila = 0..m
    BY <1>5
  <2> QED BY <2>1, <2>2, <2>3
<1>7. \A k \in 0..m : fila[k] \in 1..m
  <2> HIDE DEF fila
  <2> DEFINE Bien == {k \in Nat : k <= m => fila[k] \in 1..m}
  <2>1. 0 \in Bien
    BY <1>6
  <2>2. ASSUME NEW k \in Bien PROVE k + 1 \in Bien
    <3> SUFFICES ASSUME k + 1 <= m PROVE fila[k + 1] \in 1..m
      OBVIOUS
    <3>1. k + 1 \in 1..m /\ (k + 1) - 1 = k /\ fila[k] \in 1..m
      BY <1>1
    <3>2. fila[k + 1] = s[fila[k]]
      BY <1>2, <1>6, <3>1
    <3> QED BY <1>1, <3>1, <3>2
  <2>3. Bien = Nat
    <3>1. Bien \in SUBSET Nat
      OBVIOUS
    <3> HIDE DEF Bien
    <3> QED BY <2>1, <2>2, <3>1, InduccionNat
  <2> QED BY <1>1, <2>3
<1>8. Vuelta(fila, s, i, m)
  <2> HIDE DEF fila
  <2>1. fila \in [0..m -> 1..m]
    <3>1. fila = [k \in 0..m |-> fila[k]]
      <4> HIDE DEF m
      <4> QED BY <1>5
    <3> QED BY <1>7, <3>1
  <2>2. \A k \in 1..m : fila[k] = s[fila[k-1]]
    <3> SUFFICES ASSUME NEW k \in 1..m PROVE fila[k] = s[fila[k-1]]
      OBVIOUS
    <3>1. k - 1 \in 0..m
      BY <1>1
    <3> QED BY <1>2, <1>6, <1>7, <3>1
  <2> QED BY <1>6, <2>1, <2>2 DEF Vuelta
<1> DEFINE termina == {k \in 1..m : fila[k] \in {0, i} \/ 0 + k >= m}
           ultima  == Min(termina)
<1>9. termina = {m}
  <2> HIDE DEF fila
  <2>1. /\ fila[m] = i /\ \A k \in 1..(m - 1) : fila[k] # i
    BY <1>1, <1>8, VueltaEntera DEF Anillo
  <2>2. m \in termina
    BY <1>1, <2>1
  <2>3. \A k \in termina : k = m
    <3> SUFFICES ASSUME NEW k \in termina, k # m PROVE FALSE
      OBVIOUS
    <3>1. k \in 1..(m - 1) /\ k \in 0..m /\ ~(0 + k >= m)
      BY <1>1
    <3>2. fila[k] # i /\ fila[k] # 0
      BY <1>7, <2>1, <3>1
    <3> QED BY <3>1, <3>2
  <2> HIDE DEF termina
  <2> QED BY <2>2, <2>3
<1>10. ultima = m
  <2>1. \A x \in {m} : (\A y \in {m} : x <= y) => x = m
    OBVIOUS
  <2> HIDE DEF termina, m
  <2> QED BY <1>1, <1>9, <2>1 DEF Min
<1>11. fila[m] # 0
  <2> HIDE DEF fila
  <2>1. m \in 0..m
    BY <1>1
  <2> QED BY <1>1, <1>7, <2>1
<1>12. recorrer_fila_DL(dl, n, i, 0, basura)
         = [k \in 1..(IF fila[ultima] = 0 THEN ultima ELSE ultima + 1) |-> fila[k-1]]
  BY DEF recorrer_fila_DL
<1> HIDE DEF fila, ultima, termina
<1>13. recorrer_fila_DL(dl, n, i, 0, basura) = [k \in 1..(m + 1) |-> fila[k-1]]
  BY <1>10, <1>11, <1>12
<1> QED BY <1>8, <1>13

\* It is back in row i, after going through every row.
LEMMA RecorreEs ==
  ASSUME NEW dl, NEW s, Anillo(dl, s), NEW n \in Nat, Len(dl) <= n,
         NEW i \in 1..Len(dl), NEW basura, NEW filas,
         filas = recorrer_fila_DL(dl, n, i, 0, basura)
  PROVE  Len(filas) > 1 /\ Last(filas) = i /\ ToSet(Front(filas)) = 1..Len(dl)
<1> DEFINE m == Len(dl)
<1>1. m \in Nat /\ m > 1
  BY DEF Anillo
<1>2. PICK h : Vuelta(h, s, i, m) /\ filas = [k \in 1..(m + 1) |-> h[k-1]]
  BY RecorreLaVuelta
<1>3. /\ h \in [0..m -> 1..m] /\ h[m] = i
      /\ {h[k] : k \in 0..(m - 1)} = 1..m
  <2>1. Circulo(s, m)
    BY DEF Anillo
  <2>2. h \in [0..m -> 1..m]
    BY <1>2 DEF Vuelta
  <2> HIDE DEF m
  <2>3. h[m] = i /\ {h[k] : k \in 0..(m - 1)} = 1..m
    <3>1. i \in 1..m
      BY DEF m
    <3> QED BY <1>1, <1>2, <2>1, <3>1, VueltaEntera
  <2> QED BY <2>2, <2>3
<1> HIDE DEF m
<1>4. filas \in Seq(1..m) /\ Len(filas) = m + 1
  <2>1. \A k \in 1..(m + 1) : h[k-1] \in 1..m
    <3> SUFFICES ASSUME NEW k \in 1..(m + 1) PROVE h[k-1] \in 1..m
      OBVIOUS
    <3>1. k - 1 \in 0..m
      BY <1>1
    <3> QED BY <1>3, <3>1
  <2> DEFINE r == m + 1
  <2>2. r \in Nat /\ filas = [k \in 1..r |-> h[k-1]]
    BY <1>1, <1>2
  <2>4. \A k \in 1..r : h[k-1] \in 1..m
    BY <2>1
  <2> HIDE DEF r
  <2>5. filas \in [1..r -> 1..m]
    BY <2>2, <2>4
  <2>3. filas \in Seq(1..m) /\ Len(filas) = r
    <3>1. r \in Nat
      BY <2>2
    <3>2. filas \in Seq(1..m)
      BY <2>5, <3>1, SeqDef
    <3>3. DOMAIN filas = 1..r
      BY <2>5
    <3> QED BY <3>1, <3>2, <3>3, LenProperties
  <2> USE DEF r
  <2> QED BY <2>3
<1>5. Last(filas) = i
  <2>1. m + 1 \in 1..(m + 1) /\ (m + 1) - 1 = m
    BY <1>1
  <2>2. filas[m + 1] = h[m]
    BY <1>2, <2>1
  <2> QED BY <1>3, <1>4, <2>2 DEF Last
<1>6. Front(filas) \in Seq(1..m) /\ Len(Front(filas)) = m /\ \A k \in 1..m : Front(filas)[k] = filas[k]
  <2>1. (m + 1) - 1 = m /\ m \in 0..Len(filas) /\ \A k \in 1..m : k \in 1..Len(filas)
    BY <1>1, <1>4
  <2>2. Front(filas) = SubSeq(filas, 1, m)
    BY <1>4, <2>1 DEF Front
  <2>3. /\ SubSeq(filas, 1, m) \in Seq(1..m) /\ Len(SubSeq(filas, 1, m)) = m
        /\ \A k \in 1..m : SubSeq(filas, 1, m)[k] = filas[k]
    BY <1>1, <1>4, <2>1
  <2> QED BY <2>2, <2>3
<1>7. ToSet(Front(filas)) = 1..m
  <2>1. DOMAIN Front(filas) = 1..m
    BY <1>6
  <2>2. ASSUME NEW x \in 1..m PROVE \E k \in 1..m : Front(filas)[k] = x
    <3>1. PICK k \in 0..(m - 1) : h[k] = x
      BY <1>3
    <3>2. k + 1 \in 1..m /\ k + 1 \in 1..(m + 1) /\ (k + 1) - 1 = k
      BY <1>1
    <3>3. filas[k + 1] = x
      BY <1>2, <3>1, <3>2
    <3> QED BY <1>6, <3>2, <3>3
  <2>3. \A k \in 1..m : Front(filas)[k] \in 1..m
    BY <1>6
  <2> QED BY <2>1, <2>2, <2>3 DEF ToSet
<1>8. Len(filas) > 1
  BY <1>1, <1>4
<1> QED BY <1>5, <1>7, <1>8 DEF m

\* A list of the numbers of 1..m, each once.
Listados(c, m) ==
  /\ Len(c) = m /\ \A j \in 1..m : c[j] \in 1..m
  /\ \A i, j \in 1..m : c[i] = c[j] => i = j
  /\ \A i \in 1..m : \E j \in 1..m : c[j] = i

LEMMA OrdenadosSon ==
  ASSUME NEW m \in Nat, NEW n \in Nat, m <= n
  PROVE  Listados(Ordenados(1..m, n), m)
<1> DEFINE l == [i \in 1..n |-> i]
           c == Ordenados(1..m, n)
<1>1. Len(l) = n /\ \A i \in 1..n : l[i] = i
  OBVIOUS
<1>2. 1..m \in SUBSET (1..n)
  OBVIOUS
<1>3. c = Elegidos(l, 1..m)
  BY DEF Ordenados
<1> HIDE DEF l, c
<1>4. PICK u : Elige(c, l, 1..m, u)
  BY <1>1, <1>2, <1>3, ElegidosSon
<1> DEFINE a == Len(c)
<1>5. /\ a \in Nat /\ u \in [1..a -> 1..m] /\ \A j \in 1..a : c[j] = l[u[j]]
      /\ \A i, j \in 1..a : u[i] = u[j] => i = j
      /\ \A i \in 1..m : \E j \in 1..a : u[j] = i
  BY <1>4 DEF Elige
<1> HIDE DEF a
<1>6. a = m
  <2>1. a \in Nat /\ u \in [1..a -> 1..m]
    BY <1>5
  <2>2. /\ \A i, j \in 1..a : u[i] = u[j] => i = j
        /\ \A i \in 1..m : \E j \in 1..a : u[j] = i
    BY <1>5
  <2>3. Numera(u, a, m)
    BY <2>1, <2>2 DEF Numera
  <2> QED BY <2>1, <2>3, MismoLargo
<1>7. \A j \in 1..m : u[j] \in 1..m /\ c[j] = u[j]
  <2>1. \A j \in 1..m : u[j] \in 1..m /\ c[j] = l[u[j]]
    BY <1>5, <1>6
  <2> QED BY <1>1, <1>2, <2>1
<1> QED BY <1>5, <1>6, <1>7 DEF Listados, a, c

\* The search from every row finds the whole circle, once.
LEMMA BuscarElCiclo ==
  ASSUME NEW dl, NEW s, Anillo(dl, s), NEW n \in Nat, Len(dl) <= n, NEW basura
  PROVE  buscar_deadlocks(dl, n, 0, basura)
           = [intentos |-> 0, procesos |-> {}, encontrados |-> <<Ordenados(1..Len(dl), n)>>,
              nulo |-> FALSE]
<1> DEFINE m == Len(dl)
           c == Ordenados(1..m, n)
           r0 == [intentos |-> 0, procesos |-> {}, encontrados |-> <<>>, nulo |-> FALSE]
           r1 == [intentos |-> 0, procesos |-> {}, encontrados |-> <<c>>, nulo |-> FALSE]
           Tras(antes, i) ==
             LET filas    == recorrer_fila_DL(dl, n, i, antes.intentos, basura)
                 ciclo    == Len(filas) > 1 /\ Last(filas) = i
                 procesos == antes.procesos \cup ToSet(Front(filas))
                 nuevo    == ciclo /\ Ordenados(procesos \cup {i}, n) \notin ToSet(antes.encontrados)
             IN  [intentos    |-> IF ciclo THEN 0 ELSE antes.intentos + Len(filas) - 1,
                  procesos    |-> IF ciclo THEN {} ELSE procesos,
                  encontrados |-> IF nuevo THEN Append(antes.encontrados, Ordenados(procesos \cup {i}, n))
                                           ELSE antes.encontrados,
                  nulo        |-> antes.nulo \/ (nuevo /\ ~(procesos \subseteq DOMAIN dl))]
           Paso(h) == [i \in 0..m |-> IF i = 0 THEN r0 ELSE Tras(h[i-1], i)]
           hasta == CHOOSE h : h = Paso(h)
           g == [i \in 0..m |-> IF i = 0 THEN r0 ELSE r1]
<1>1. m \in Nat /\ m > 1 /\ DOMAIN dl = 1..m
  BY DEF Anillo
<1>2. ASSUME NEW i \in 1..m, NEW antes \in {r0, r1} PROVE Tras(antes, i) = r1
  <2> DEFINE filas == recorrer_fila_DL(dl, n, i, antes.intentos, basura)
             ciclo == Len(filas) > 1 /\ Last(filas) = i
             procesos == antes.procesos \cup ToSet(Front(filas))
             nuevo == ciclo /\ Ordenados(procesos \cup {i}, n) \notin ToSet(antes.encontrados)
  <2>1. antes.intentos = 0 /\ antes.procesos = {} /\ antes.nulo = FALSE
    OBVIOUS
  <2>2. filas = recorrer_fila_DL(dl, n, i, 0, basura)
    BY <2>1
  <2> HIDE DEF filas
  <2>3. Len(filas) > 1 /\ Last(filas) = i /\ ToSet(Front(filas)) = 1..m
    BY <2>2, RecorreEs
  <2>4. ciclo /\ procesos = 1..m /\ procesos \cup {i} = 1..m /\ procesos \subseteq DOMAIN dl
    BY <1>1, <2>1, <2>3
  <2>5. Ordenados(procesos \cup {i}, n) = c
    BY <2>4
  <2>6. Tras(antes, i) = [intentos |-> IF ciclo THEN 0 ELSE antes.intentos + Len(filas) - 1,
                  procesos    |-> IF ciclo THEN {} ELSE procesos,
                  encontrados |-> IF nuevo THEN Append(antes.encontrados, Ordenados(procesos \cup {i}, n))
                                           ELSE antes.encontrados,
                  nulo        |-> antes.nulo \/ (nuevo /\ ~(procesos \subseteq DOMAIN dl))]
    BY DEF filas
  <2> HIDE DEF ciclo, procesos, Tras, c
  <2>7. nuevo <=> c \notin ToSet(antes.encontrados)
    BY <2>4, <2>5
  <2>8. Tras(antes, i) = [intentos |-> 0, procesos |-> {},
                  encontrados |-> IF nuevo THEN Append(antes.encontrados, c) ELSE antes.encontrados,
                  nulo        |-> FALSE]
    <3> HIDE DEF nuevo
    <3> QED BY <2>1, <2>4, <2>5, <2>6
  <2> HIDE DEF nuevo
  <2>9. (IF nuevo THEN Append(antes.encontrados, c) ELSE antes.encontrados) = <<c>>
    <3>1. CASE antes = r0
      <4>1. antes.encontrados = <<>> /\ ToSet(<<>>) = {}
        BY <3>1 DEF ToSet
      <4> QED BY <2>7, <4>1
    <3>2. CASE antes = r1
      <4>1. antes.encontrados = <<c>> /\ c \in ToSet(<<c>>)
        BY <3>2 DEF ToSet
      <4> QED BY <2>7, <4>1
    <3> QED BY <3>1, <3>2
  <2> QED BY <2>8, <2>9
<1>3. g = Paso(g)
  <2> HIDE DEF r0, r1, Tras, m
  <2>1. \A i \in 0..m : g[i] = IF i = 0 THEN r0 ELSE Tras(g[i-1], i)
    <3> SUFFICES ASSUME NEW i \in 0..m, i # 0 PROVE g[i] = Tras(g[i-1], i)
      BY <1>1
    <3>1. i \in 1..m /\ i - 1 \in 0..m
      BY <1>1
    <3>2. g[i] = r1 /\ g[i-1] \in {r0, r1}
      BY <3>1
    <3> QED BY <1>2, <3>1, <3>2
  <2>2. g = [i \in 0..m |-> g[i]]
    OBVIOUS
  <2> HIDE DEF g
  <2> QED BY <2>1, <2>2
<1>4. hasta = Paso(hasta)
  <2> HIDE DEF Paso, g
  <2> QED BY <1>3
<1>5. buscar_deadlocks(dl, n, 0, basura) = hasta[m]
  BY DEF buscar_deadlocks
<1> HIDE DEF hasta, r0, r1, Tras, m, g
<1>6. /\ hasta[0] = r0
      /\ \A i \in 1..m : hasta[i] = Tras(hasta[i-1], i)
  <2>1. hasta[0] = r0
    BY <1>1, <1>4
  <2>2. ASSUME NEW i \in 1..m PROVE hasta[i] = Tras(hasta[i-1], i)
    <3>1. i \in 0..m /\ i # 0
      BY <1>1
    <3> QED BY <1>4, <3>1
  <2> QED BY <2>1, <2>2
<1> DEFINE Bien == {k \in Nat : k + 1 <= m => hasta[k + 1] = r1}
<1>7. 0 \in Bien
  <2>1. 1 \in 1..m /\ 1 - 1 = 0
    BY <1>1
  <2> QED BY <1>2, <1>6, <2>1
<1>8. ASSUME NEW k \in Bien PROVE k + 1 \in Bien
  <2> SUFFICES ASSUME (k + 1) + 1 <= m PROVE hasta[(k + 1) + 1] = r1
    OBVIOUS
  <2>1. (k + 1) + 1 \in 1..m /\ ((k + 1) + 1) - 1 = k + 1 /\ hasta[k + 1] = r1
    BY <1>1
  <2> QED BY <1>2, <1>6, <2>1
<1>9. hasta[m] = r1
  <2>1. Bien = Nat
    <3>1. Bien \in SUBSET Nat
      OBVIOUS
    <3> HIDE DEF Bien
    <3> QED BY <1>7, <1>8, <3>1, InduccionNat
  <2>2. m - 1 \in Nat /\ (m - 1) + 1 = m /\ m <= m
    BY <1>1
  <2>3. m - 1 \in Bien
    <3> HIDE DEF Bien
    <3> QED BY <2>1, <2>2
  <2> QED BY <2>2, <2>3
<1> QED BY <1>5, <1>9 DEF r1, m

\* Its lowest row and the row that one waits for are chosen.
LEMMA ElegirElTrato ==
  ASSUME NEW dl, NEW s, Anillo(dl, s), NEW n \in Nat, Len(dl) <= n
  PROVE  \E a \in 1..Len(dl) :
           elegir_intercambio(dl, <<Ordenados(1..Len(dl), n)>>) = [e1 |-> a, e2 |-> s[a]]
<1> DEFINE m == Len(dl)
           c == Ordenados(1..m, n)
           a == c[1]
           unidos == {k \in 2..m : estan_unidos(dl[a], dl[c[k]])}
<1>1. m \in Nat /\ m > 1
  BY DEF Anillo
<1>2. Listados(c, m)
  BY <1>1, OrdenadosSon
<1> HIDE DEF c
<1>3. a \in 1..m /\ s[a] \in 1..m /\ s[a] # a
  <2>1. 1 \in 1..m
    BY <1>1
  <2>2. a \in 1..m
    BY <1>2, <2>1 DEF Listados
  <2> HIDE DEF a
  <2> QED BY <2>2, OtroSigue
<1>4. PICK k \in 1..m : c[k] = s[a]
  BY <1>2, <1>3 DEF Listados
<1>5. k \in 2..m
  <2>1. k # 1
    BY <1>3, <1>4
  <2> QED BY <1>1, <2>1
<1>6. \A j \in 2..m : estan_unidos(dl[a], dl[c[j]]) <=> c[j] = s[a]
  <2> SUFFICES ASSUME NEW j \in 2..m PROVE estan_unidos(dl[a], dl[c[j]]) <=> c[j] = s[a]
    OBVIOUS
  <2>1. j \in 1..m
    BY <1>1
  <2>2. c[j] \in 1..m
    BY <1>2, <2>1 DEF Listados
  <2> HIDE DEF a
  <2> QED BY <1>3, <2>2 DEF Anillo
<1>7. unidos = {k}
  <2>1. \A j \in 2..m : c[j] = c[k] => j = k
    <3>1. \A j \in 2..m : j \in 1..m
      BY <1>1
    <3> QED BY <1>2, <3>1 DEF Listados
  <2> HIDE DEF a, m
  <2> QED BY <1>4, <1>5, <1>6, <2>1
<1>8. Max(unidos) = k
  <2>1. \A x \in {k} : (\A y \in {k} : x >= y) => x = k
    OBVIOUS
  <2>2. k \in {k} /\ \A y \in {k} : k >= y
    OBVIOUS
  <2> HIDE DEF unidos
  <2> QED BY <1>7, <2>1, <2>2 DEF Max
<1>9. Len(c) = m /\ ~(m < m)
  BY <1>1, <1>2 DEF Listados
<1>10. /\ <<c>>[1] = c /\ <<c>> # <<>>
  OBVIOUS
<1>11. elegir_intercambio(dl, <<c>>) = [e1 |-> c[1], e2 |-> c[Max(unidos)]]
  <2>1. unidos # {}
    BY <1>7
  <2> HIDE DEF c
  <2> QED BY <1>9, <1>10, <2>1 DEF elegir_intercambio
<1> HIDE DEF unidos
<1>12. elegir_intercambio(dl, <<c>>) = [e1 |-> a, e2 |-> s[a]]
  BY <1>4, <1>8, <1>11
<1> QED BY <1>3, <1>12 DEF c, m
-----------------------------------------------------------------------------
(* Lists of one pokemon *)

Un(n) == <<get_pokemon(n)>>

LEMMA UnEs ==
  ASSUME NEW n
  PROVE  /\ Len(Un(n)) = 1 /\ DOMAIN Un(n) = {1} /\ Un(n)[1] = get_pokemon(n) /\ Un(n) # <<>>
         /\ get_pokemon(n).nombre = n /\ get_pokemon(n).cantidad = 1
  BY DEF Un, get_pokemon

LEMMA PosicionesDeUn ==
  ASSUME NEW n, NEW k
  PROVE  Posiciones(k, Un(n)) = IF k = n THEN {1} ELSE {}
<1>1. Posiciones(k, Un(n)) = {i \in {1} : Un(n)[i].nombre = k}
  BY UnEs DEF Posiciones
<1>2. \A i \in {1} : Un(n)[i].nombre = n
  BY UnEs
<1> QED BY <1>1, <1>2

LEMMA MinDeUno == Min({1}) = 1
<1>1. \A x \in {1} : (\A y \in {1} : x <= y) => x = 1
  OBVIOUS
<1>2. 1 \in {1} /\ \A y \in {1} : 1 <= y
  OBVIOUS
<1> QED BY <1>1, <1>2 DEF Min

LEMMA ElegidosDeUno ==
  ASSUME NEW x, NEW I
  PROVE  Elegidos(<<x>>, I) = IF 1 \in I THEN <<x>> ELSE <<>>
<1> DEFINE l == <<x>>
<1>0. Len(l) = 1 /\ Len(l) \in Nat /\ l[1] = x
  OBVIOUS
<1> HIDE DEF l
<1>1. PICK h : /\ h[0] = <<>> /\ h[Len(l)] = Elegidos(l, I)
               /\ \A k \in 1..Len(l) : h[k] = IF k \in I THEN Append(h[k-1], l[k]) ELSE h[k-1]
  BY <1>0, ElegidosPasos
<1>2. h[1] = Elegidos(l, I) /\ 1 \in 1..1 /\ 1 - 1 = 0
  BY <1>0, <1>1
<1>3. h[1] = IF 1 \in I THEN Append(h[0], l[1]) ELSE h[0]
  BY <1>0, <1>1, <1>2
<1>4. Append(<<>>, x) = <<x>>
  OBVIOUS
<1>5. Elegidos(l, I) = IF 1 \in I THEN <<x>> ELSE <<>>
  BY <1>0, <1>1, <1>2, <1>3, <1>4
<1> QED BY <1>5 DEF l

LEMMA SumarizarUn ==
  ASSUME NEW n
  PROVE  sumarizar_pokemones(Un(n)) = Un(n)
<1> DEFINE l == Un(n)
           r == [i \in DOMAIN l |-> [nombre |-> l[i].nombre,
                                     cantidad |-> CantidadSumarizada(l, l[i].nombre)]]
           I == {i \in DOMAIN l : \A j \in 1..(i - 1) : l[j].nombre # l[i].nombre}
<1>1. DOMAIN l = {1} /\ l[1].nombre = n /\ l[1].cantidad = 1
  BY UnEs
<1>2. Posiciones(n, l) = {1}
  BY PosicionesDeUn
<1> HIDE DEF l
<1>3. CantidadSumarizada(l, n) = 1
  <2>1. IsFiniteSet({1}) /\ Cardinality({1}) = 1
    BY FS_Singleton
  <2> QED BY <1>1, <1>2, <2>1, MinDeUno DEF CantidadSumarizada
<1>4. r = <<get_pokemon(n)>>
  <2>1. r = [i \in {1} |-> [nombre |-> n, cantidad |-> 1]]
    BY <1>1, <1>3
  <2>2. {1} = 1..1
    OBVIOUS
  <2>3. <<get_pokemon(n)>> = [i \in 1..1 |-> get_pokemon(n)]
    OBVIOUS
  <2> QED BY <2>1, <2>2, <2>3 DEF get_pokemon
<1>5. 1 \in I
  BY <1>1
<1> HIDE DEF r, I
<1>6. Elegidos(r, I) = <<get_pokemon(n)>>
  BY <1>4, <1>5, ElegidosDeUno
<1>7. sumarizar_pokemones(l) = Elegidos(r, I)
  BY DEF sumarizar_pokemones, r, I
<1> QED BY <1>6, <1>7 DEF l, Un

LEMMA CantidadDeUn ==
  ASSUME NEW n, NEW k
  PROVE  get_cantidad_by_nombre_pokemon(k, Un(n)) = IF k = n THEN 1 ELSE 0
  BY PosicionesDeUn, MinDeUno, UnEs DEF get_cantidad_by_nombre_pokemon

LEMMA TotalDeUn ==
  ASSUME NEW n
  PROVE  get_cantidad_pokemon(Un(n)) = 1
<1> DEFINE l == Un(n)
           Paso(h) == [k \in 0..Len(l) |-> IF k = 0 THEN 0 ELSE h[k-1] + l[k].cantidad]
           hasta == CHOOSE h : h = Paso(h)
           g == [k \in 0..1 |-> k]
<1>1. Len(l) = 1 /\ l[1].cantidad = 1
  BY UnEs
<1> HIDE DEF l
<1>2. g = Paso(g)
  <2>1. \A k \in 0..1 : k = IF k = 0 THEN 0 ELSE g[k-1] + l[k].cantidad
    <3> SUFFICES ASSUME NEW k \in 0..1, k # 0 PROVE k = g[k-1] + l[k].cantidad
      OBVIOUS
    <3>1. k = 1 /\ k - 1 = 0 /\ 0 \in 0..1
      OBVIOUS
    <3>2. g[0] = 0
      BY <3>1
    <3> QED BY <1>1, <3>1, <3>2
  <2> QED BY <1>1, <2>1
<1>3. hasta = Paso(hasta)
  <2> HIDE DEF Paso, g
  <2> QED BY <1>2
<1>4. get_cantidad_pokemon(l) = hasta[Len(l)]
  BY DEF get_cantidad_pokemon
<1> HIDE DEF hasta
<1>5. hasta[0] = 0
  BY <1>1, <1>3
<1>6. hasta[1] = hasta[0] + 1
  <2>1. 1 \in 0..Len(l) /\ 1 - 1 = 0
    BY <1>1
  <2> QED BY <1>1, <1>3, <2>1
<1> QED BY <1>1, <1>4, <1>5, <1>6 DEF l

LEMMA CumplioUn ==
  ASSUME NEW t, NEW q
  PROVE  /\ cumplio_objetivo(sumarizar_pokemones(Un(t)), Un(q)) <=> t = q
         /\ ~puede_capturar_pokemones(Un(t), Un(q))
<1>1. ~puede_capturar_pokemones(Un(t), Un(q))
  BY TotalDeUn DEF puede_capturar_pokemones
<1>2. cumplio_objetivo(Un(t), Un(q)) <=> t = q
  BY UnEs, CantidadDeUn DEF cumplio_objetivo
<1> QED BY <1>1, <1>2, SumarizarUn

\* It has one to spare and one to get, unless it is the one it wants.
LEMMA CopiaDeUn ==
  ASSUME NEW id, NEW t, NEW q, t # q
  PROVE  /\ pokemones_de_mas(Un(t), Un(q)) = Un(t)
         /\ copia_DL(id, Un(t), Un(q)) = [id |-> id, pokemones |-> Un(t), objetivo |-> Un(q)]
<1>1. pokemones_de_mas(Un(t), Un(q)) = Un(t)
  <2> DEFINE I == {i \in DOMAIN Un(t) : Un(t)[i].cantidad
                     > get_cantidad_by_nombre_pokemon(Un(t)[i].nombre, Un(q))}
  <2>1. 1 \in I
    BY UnEs, CantidadDeUn
  <2> HIDE DEF I
  <2>2. Elegidos(Un(t), I) = Un(t)
    BY <2>1, ElegidosDeUno DEF Un
  <2> QED BY <2>2 DEF pokemones_de_mas, I
<1>2. objetivos_pendientes(Un(t), Un(q)) = Un(q)
  <2> DEFINE I == {i \in DOMAIN Un(q) : Un(q)[i].cantidad
                     > get_cantidad_by_nombre_pokemon(Un(q)[i].nombre, Un(t))}
  <2>1. 1 \in I
    BY UnEs, CantidadDeUn
  <2> HIDE DEF I
  <2>2. Elegidos(Un(q), I) = Un(q)
    BY <2>1, ElegidosDeUno DEF Un
  <2> QED BY <2>2 DEF objetivos_pendientes, I
<1> QED BY <1>1, <1>2, SumarizarUn DEF copia_DL

LEMMA SirveUn ==
  ASSUME NEW t, NEW q
  PROVE  pokemon_que_sirve(Un(q), Un(t)) = IF q = t THEN Un(t) ELSE <<>>
<1> DEFINE utiles == {i \in DOMAIN Un(q) : Posiciones(Un(q)[i].nombre, Un(t)) # {}}
<1>1. \A i \in DOMAIN Un(q) : i = 1 /\ Un(q)[i].nombre = q
  BY UnEs
<1>2. utiles = IF q = t THEN {1} ELSE {}
  <2>1. DOMAIN Un(q) = {1}
    BY UnEs
  <2>2. \A i \in DOMAIN Un(q) : Posiciones(Un(q)[i].nombre, Un(t)) = IF q = t THEN {1} ELSE {}
    BY <1>1, PosicionesDeUn
  <2>3. utiles = {i \in {1} : q = t}
    BY <2>1, <2>2
  <2> HIDE DEF utiles
  <2> QED BY <2>3
<1> HIDE DEF utiles
<1>3. pokemon_que_sirve(Un(q), Un(t)) =
        IF utiles = {} THEN <<>> ELSE <<Un(t)[Min(Posiciones(Un(q)[Min(utiles)].nombre, Un(t)))]>>
  BY DEF pokemon_que_sirve, utiles
<1>4. CASE q # t
  BY <1>2, <1>3, <1>4
<1>5. CASE q = t
  <2>1. Min(utiles) = 1 /\ utiles # {}
    BY <1>2, <1>5, MinDeUno
  <2>2. Posiciones(Un(q)[1].nombre, Un(t)) = {1}
    BY <1>5, UnEs, PosicionesDeUn
  <2>3. pokemon_que_sirve(Un(q), Un(t)) = <<Un(t)[1]>>
    BY <1>3, <2>1, <2>2, MinDeUno
  <2> QED BY <1>5, <2>3, UnEs DEF Un
<1> QED BY <1>4, <1>5

LEMMA OfrecidoUn ==
  ASSUME NEW t, NEW q, t # q, NEW r
  PROVE  pokemon_ofrecido(Un(t), Un(q), Un(r)) = Un(t)
<1>1. pokemones_de_mas(Un(t), Un(q)) = Un(t)
  BY CopiaDeUn
<1>2. pokemon_que_sirve(Un(r), Un(t)) \in {Un(t), <<>>}
  BY SirveUn
<1> QED BY <1>1, <1>2 DEF pokemon_ofrecido, pokemon_que_sirve_intercambio

LEMMA Pareja ==
  ASSUME NEW x, NEW y
  PROVE  /\ Append(<<x>>, y) = <<x, y>> /\ <<x, y>> \in Seq({x, y}) /\ Len(<<x, y>>) = 2
         /\ <<x, y>>[1] = x /\ <<x, y>>[2] = y
<1>1. Len(<<x, y>>) = 2 /\ <<x, y>>[1] = x /\ <<x, y>>[2] = y
  OBVIOUS
<1>2. <<x, y>> \in Seq({x, y})
  OBVIOUS
<1>3. Append(<<x>>, y) = <<x, y>>
  <2>1. <<x>> \in Seq({x, y})
    OBVIOUS
  <2>2. /\ Append(<<x>>, y) \in Seq({x, y}) /\ Len(Append(<<x>>, y)) = 2
        /\ Append(<<x>>, y)[1] = x /\ Append(<<x>>, y)[2] = y
    OBVIOUS
  <2>3. \A k \in 1..2 : k = 1 \/ k = 2
    OBVIOUS
  <2>4. \A k \in 1..2 : Append(<<x>>, y)[k] = <<x, y>>[k]
    BY <1>1, <2>2, <2>3
  <2> QED BY <1>1, <1>2, <2>2, <2>4, SeqEqual
<1> QED BY <1>1, <1>2, <1>3

\* Each is left with what the other had.
LEMMA IntercambiadasUn ==
  ASSUME NEW a, NEW b
  PROVE  Intercambiadas(Un(a), Un(b), b, a, a) = <<Un(b), Un(a)>>
<1> DEFINE par == <<get_pokemon(a), get_pokemon(b)>>
<1>1. Dar(Un(b), Un(a), b) = <<<<>>, par>>
  <2>1. get_cantidad_by_nombre_pokemon(b, Un(b)) = 1 /\ Posiciones(b, Un(b)) = {1}
    BY CantidadDeUn, PosicionesDeUn
  <2>2. RemoveAt(Un(b), 1) = <<>>
    BY DEF Un, RemoveAt
  <2>3. remove_pokemon_by_nombre(b, Un(b)) = <<>>
    BY <2>1, <2>2, MinDeUno, UnEs DEF remove_pokemon_by_nombre
  <2>4. Append(Un(a), [nombre |-> b, cantidad |-> 1]) = par
    <3>1. [nombre |-> b, cantidad |-> 1] = get_pokemon(b)
      BY DEF get_pokemon
    <3>2. Append(<<get_pokemon(a)>>, get_pokemon(b)) = par
      BY Pareja
    <3> QED BY <3>1, <3>2 DEF Un
  <2> HIDE DEF par
  <2> QED BY <2>1, <2>3, <2>4 DEF Dar, Entregado
<1>2. Dar(par, <<>>, a) = <<Un(b), Un(a)>>
  <2>0. /\ Len(par) = 2 /\ DOMAIN par = 1..2
        /\ par[1].nombre = a /\ par[1].cantidad = 1
    BY DEF get_pokemon
  <2>1. 1 \in Posiciones(a, par) /\ Posiciones(a, par) \subseteq 1..2
    <3> HIDE DEF par
    <3> QED BY <2>0 DEF Posiciones
  <2>2. Min(Posiciones(a, par)) = 1
    <3> DEFINE P == Posiciones(a, par)
    <3> HIDE DEF P
    <3>1. \A x \in P : (\A y \in P : x <= y) => x = 1
      BY <2>1 DEF P
    <3>2. 1 \in P /\ \A y \in P : 1 <= y
      BY <2>1 DEF P
    <3>3. Min(P) = 1
      BY <3>1, <3>2 DEF Min
    <3> QED BY <3>3 DEF P
  <2>3. get_cantidad_by_nombre_pokemon(a, par) = 1
    <3> HIDE DEF par
    <3> QED BY <2>0, <2>1, <2>2 DEF get_cantidad_by_nombre_pokemon
  <2>4. RemoveAt(par, 1) = Un(b)
    <3> DEFINE r == RemoveAt(par, 1)
               S == {get_pokemon(a), get_pokemon(b)}
    <3>1. par \in Seq(S) /\ Len(par) = 2 /\ par[2] = get_pokemon(b)
      BY Pareja
    <3> HIDE DEF par, S
    <3>2. r \in Seq(S) /\ Len(r) = Len(par) - 1 /\ \A k \in 1..(Len(par) - 1) : r[k] = par[k+1]
      <4>1. 1 \in 1..Len(par)
        BY <3>1
      <4> QED BY <3>1, <4>1, RemoveAtPuntual
    <3> HIDE DEF r
    <3>3. r \in Seq(S) /\ Len(r) = 1 /\ r[1] = get_pokemon(b)
      BY <3>1, <3>2
    <3>4. r = <<get_pokemon(b)>>
      BY <3>3
    <3> QED BY <3>4 DEF r, Un
  <2>5. remove_pokemon_by_nombre(a, par) = Un(b)
    <3> HIDE DEF par
    <3> QED BY <2>0, <2>1, <2>2, <2>4 DEF remove_pokemon_by_nombre
  <2>6. Append(<<>>, [nombre |-> a, cantidad |-> 1]) = Un(a)
    BY DEF Un, get_pokemon
  <2> HIDE DEF par
  <2> QED BY <2>3, <2>5, <2>6 DEF Dar, Entregado
<1> HIDE DEF par
<1> QED BY <1>1, <1>2 DEF Intercambiadas
-----------------------------------------------------------------------------
(* Rounds of one pokemon each *)

\* Of n trainers, e has t[e] and wants q[e].
Faltos(t, q, n) == {e \in 1..n : t[e] # q[e]}

\* Nobody else has or wants the same, somebody has what each wants, and those
\* who have not what they want wait for each other in one circle.
UnaRonda(t, q, n) ==
  /\ n \in Nat
  /\ \A e, f \in 1..n : t[e] = t[f] => e = f
  /\ \A e, f \in 1..n : q[e] = q[f] => e = f
  /\ \A e \in 1..n : \E f \in 1..n : t[f] = q[e]
  /\ \A X \in SUBSET Faltos(t, q, n) :
       X # {} /\ (\A e \in X, f \in 1..n : t[f] = q[e] => f \in X) => X = Faltos(t, q, n)

\* Whoever has what a waiting trainer wants is waiting too.
LEMMA TambienEspera ==
  ASSUME NEW t, NEW q, NEW n, UnaRonda(t, q, n), NEW e \in Faltos(t, q, n)
  PROVE  \E f \in Faltos(t, q, n) : f # e /\ t[f] = q[e]
<1>1. e \in 1..n /\ t[e] # q[e]
  BY DEF Faltos
<1>2. PICK f \in 1..n : t[f] = q[e]
  BY <1>1 DEF UnaRonda
<1>3. f # e
  BY <1>1, <1>2
<1>4. t[f] # q[f]
  <2> SUFFICES ASSUME t[f] = q[f] PROVE FALSE
    OBVIOUS
  <2>1. q[f] = q[e]
    BY <1>2
  <2> QED BY <1>1, <1>3, <2>1 DEF UnaRonda
<1> QED BY <1>2, <1>3, <1>4 DEF Faltos

\* What the detection copies: trainer u[j] in row j, which waits for row s[j].
Filas(dl, u, s, t, q, n) ==
  LET m == Len(dl)
  IN  /\ m \in 0..n /\ DOMAIN dl = 1..m
      /\ u \in [1..m -> Faltos(t, q, n)]
      /\ \A i, j \in 1..m : u[i] = u[j] => i = j
      /\ \A e \in Faltos(t, q, n) : \E j \in 1..m : u[j] = e
      /\ \A j \in 1..m : dl[j] = [id |-> u[j], pokemones |-> Un(t[u[j]]), objetivo |-> Un(q[u[j]])]
      /\ s \in [1..m -> 1..m] /\ \A j \in 1..m : t[u[s[j]]] = q[u[j]]

LEMMA FilasDeLaRonda ==
  ASSUME NEW t, NEW q, NEW n, UnaRonda(t, q, n), NEW dl,
         dl = Elegidos([e \in 1..n |-> copia_DL(e, Un(t[e]), Un(q[e]))], Faltos(t, q, n))
  PROVE  \E u, s : Filas(dl, u, s, t, q, n)
<1> DEFINE l == [e \in 1..n |-> copia_DL(e, Un(t[e]), Un(q[e]))]
           F == Faltos(t, q, n)
           m == Len(dl)
<1>0. n \in Nat
  BY DEF UnaRonda
<1>1. Len(l) = n /\ \A e \in 1..n : l[e] = copia_DL(e, Un(t[e]), Un(q[e]))
  BY <1>0
<1>2. F \in SUBSET (1..n) /\ \A e \in F : t[e] # q[e]
  BY DEF Faltos
<1>3. dl = Elegidos(l, F)
  OBVIOUS
<1> HIDE DEF l, F
<1>4. /\ dl \in Seq({l[i] : i \in 1..n}) /\ m \in 0..n
      /\ \E u : Elige(dl, l, F, u)
  BY <1>0, <1>1, <1>2, <1>3, ElegidosSon
<1>5. PICK u : Elige(dl, l, F, u)
  BY <1>4
<1>6. DOMAIN dl = 1..m
  BY <1>4
<1> HIDE DEF m
<1>7. /\ u \in [1..m -> F] /\ \A j \in 1..m : dl[j] = l[u[j]]
      /\ \A i, j \in 1..m : u[i] = u[j] => i = j
      /\ \A e \in F : \E j \in 1..m : u[j] = e
  BY <1>5 DEF Elige, m
<1>8. ASSUME NEW j \in 1..m
      PROVE  dl[j] = [id |-> u[j], pokemones |-> Un(t[u[j]]), objetivo |-> Un(q[u[j]])]
  <2>1. u[j] \in F /\ u[j] \in 1..n /\ t[u[j]] # q[u[j]]
    BY <1>2, <1>7
  <2>2. dl[j] = copia_DL(u[j], Un(t[u[j]]), Un(q[u[j]]))
    BY <1>1, <1>7, <2>1
  <2> QED BY <2>1, <2>2, CopiaDeUn
<1>9. ASSUME NEW j \in 1..m PROVE \E k \in 1..m : t[u[k]] = q[u[j]]
  <2>1. u[j] \in F
    BY <1>7
  <2>2. PICK f \in F : t[f] = q[u[j]]
    BY <2>1, TambienEspera DEF F
  <2> QED BY <1>7, <2>2
<1> DEFINE s == [j \in 1..m |-> CHOOSE k \in 1..m : t[u[k]] = q[u[j]]]
<1>10. s \in [1..m -> 1..m] /\ \A j \in 1..m : t[u[s[j]]] = q[u[j]]
  <2>1. \A j \in 1..m : s[j] \in 1..m /\ t[u[s[j]]] = q[u[j]]
    BY <1>9
  <2>2. s = [j \in 1..m |-> s[j]]
    OBVIOUS
  <2> HIDE DEF s
  <2> QED BY <2>1, <2>2
<1> HIDE DEF s
<1>11. Filas(dl, u, s, t, q, n)
  BY <1>4, <1>6, <1>7, <1>8, <1>10 DEF Filas, m, F
<1> QED BY <1>11

\* The rows are one circle, in whatever order.
LEMMA FilasEnCirculo ==
  ASSUME NEW t, NEW q, NEW n, UnaRonda(t, q, n), NEW dl, NEW u, NEW s,
         Filas(dl, u, s, t, q, n), Len(dl) > 1
  PROVE  Anillo(dl, s)
<1> DEFINE m == Len(dl)
           F == Faltos(t, q, n)
<1>1. /\ m \in 0..n /\ DOMAIN dl = 1..m
      /\ u \in [1..m -> F]
      /\ \A i, j \in 1..m : u[i] = u[j] => i = j
      /\ \A e \in F : \E j \in 1..m : u[j] = e
      /\ \A j \in 1..m : dl[j] = [id |-> u[j], pokemones |-> Un(t[u[j]]), objetivo |-> Un(q[u[j]])]
      /\ s \in [1..m -> 1..m] /\ \A j \in 1..m : t[u[s[j]]] = q[u[j]]
  BY DEF Filas
<1>2. /\ F \subseteq 1..n /\ n \in Nat
      /\ \A e, f \in 1..n : t[e] = t[f] => e = f
      /\ \A e, f \in 1..n : q[e] = q[f] => e = f
  BY DEF UnaRonda, Faltos
<1>3. \A X \in SUBSET F :
        X # {} /\ (\A e \in X, f \in 1..n : t[f] = q[e] => f \in X) => X = F
  BY DEF UnaRonda
<1>u. \A j \in 1..m : u[j] \in F /\ u[j] \in 1..n
  BY <1>1, <1>2
<1> HIDE DEF F
<1>4. ASSUME NEW i \in 1..m, NEW j \in 1..m
      PROVE  estan_unidos(dl[i], dl[j]) <=> j = s[i]
  <2>1. estan_unidos(dl[i], dl[j]) <=> pokemon_que_sirve(Un(q[u[i]]), Un(t[u[j]])) # <<>>
    <3>1. dl[i].objetivo = Un(q[u[i]]) /\ dl[j].pokemones = Un(t[u[j]])
      BY <1>1
    <3> QED BY <3>1 DEF estan_unidos
  <2>2. estan_unidos(dl[i], dl[j]) <=> q[u[i]] = t[u[j]]
    BY <2>1, SirveUn, UnEs
  <2>3. s[i] \in 1..m /\ q[u[i]] = t[u[s[i]]]
    BY <1>1
  <2>4. t[u[s[i]]] = t[u[j]] <=> u[s[i]] = u[j]
    BY <1>2, <1>u, <2>3
  <2>5. u[s[i]] = u[j] <=> s[i] = j
    BY <1>1, <2>3
  <2> QED BY <2>2, <2>3, <2>4, <2>5
<1>5. \A i, j \in 1..m : s[i] = s[j] => i = j
  <2> SUFFICES ASSUME NEW i \in 1..m, NEW j \in 1..m, s[i] = s[j] PROVE i = j
    OBVIOUS
  <2>1. q[u[i]] = q[u[j]]
    BY <1>1
  <2>2. u[i] = u[j]
    BY <1>2, <1>u, <2>1
  <2> QED BY <1>1, <2>2
<1>6. ASSUME NEW X \in SUBSET (1..m), X # {}, \A i \in X : s[i] \in X
      PROVE  X = 1..m
  <2> DEFINE Y == {u[i] : i \in X}
  <2>1. Y \in SUBSET F /\ Y # {}
    <3>1. \A i \in X : u[i] \in F
      BY <1>u
    <3>2. PICK i \in X : TRUE
      BY <1>6
    <3> QED BY <3>1, <3>2
  <2>2. ASSUME NEW e \in Y, NEW f \in 1..n, t[f] = q[e] PROVE f \in Y
    <3>1. PICK i \in X : e = u[i]
      OBVIOUS
    <3>2. i \in 1..m /\ s[i] \in X /\ s[i] \in 1..m /\ t[u[s[i]]] = q[u[i]]
      BY <1>1, <1>6
    <3>3. t[f] = t[u[s[i]]] /\ u[s[i]] \in 1..n
      BY <1>u, <2>2, <3>1, <3>2
    <3>4. f = u[s[i]]
      BY <1>2, <3>3
    <3> QED BY <3>2, <3>4
  <2>3. Y = F
    <3> HIDE DEF Y
    <3> QED BY <1>3, <2>1, <2>2
  <2>4. ASSUME NEW j \in 1..m PROVE j \in X
    <3>1. u[j] \in Y
      BY <1>u, <2>3
    <3>2. PICK i \in X : u[j] = u[i]
      BY <3>1
    <3>3. i \in 1..m
      OBVIOUS
    <3> QED BY <1>1, <3>2, <3>3
  <2> QED BY <2>4
<1>7. Circulo(s, m)
  <2>1. \A X \in SUBSET (1..m) : X # {} /\ (\A i \in X : s[i] \in X) => X = 1..m
    BY <1>6
  <2>2. s \in [1..m -> 1..m]
    BY <1>1
  <2> HIDE DEF m
  <2> QED BY <1>5, <2>1, <2>2 DEF Circulo
<1>8. m \in Nat /\ m > 1 /\ DOMAIN dl = 1..m
  BY <1>1, <1>2
<1> QED BY <1>4, <1>7, <1>8 DEF Anillo

\* What each has when x has taken what y had and y what x had.
Cambiados(t, x, y) == [t EXCEPT ![x] = t[y], ![y] = t[x]]

\* x leaves the circle and y takes its place in it, or leaves too.
LEMMA RondaMenor ==
  ASSUME NEW n, NEW t, DOMAIN t = 1..n, NEW q, UnaRonda(t, q, n),
         NEW x \in Faltos(t, q, n), NEW y \in Faltos(t, q, n), x # y, t[y] = q[x]
  PROVE  UnaRonda(Cambiados(t, x, y), q, n)
<1> DEFINE r == Cambiados(t, x, y)
           F == Faltos(t, q, n)
           G == Faltos(r, q, n)
<1>1. /\ n \in Nat
      /\ \A e, f \in 1..n : t[e] = t[f] => e = f
      /\ \A e, f \in 1..n : q[e] = q[f] => e = f
      /\ \A e \in 1..n : \E f \in 1..n : t[f] = q[e]
  BY DEF UnaRonda
<1>2. \A X \in SUBSET F :
        X # {} /\ (\A e \in X, f \in 1..n : t[f] = q[e] => f \in X) => X = F
  BY DEF UnaRonda
<1>3. /\ x \in 1..n /\ y \in 1..n /\ x \in F /\ y \in F
      /\ t[x] # q[x] /\ t[y] # q[y]
  BY DEF Faltos
<1>4. r[x] = t[y] /\ r[y] = t[x] /\ \A e \in 1..n : e # x /\ e # y => r[e] = t[e]
  BY <1>3 DEF Cambiados
<1>f. /\ \A e \in 1..n : e \in F <=> t[e] # q[e]
      /\ \A e \in 1..n : e \in G <=> r[e] # q[e]
      /\ F \subseteq 1..n /\ G \subseteq 1..n
  BY DEF Faltos
<1> HIDE DEF r, F, G
<1>5. \A e, f \in 1..n : r[e] = r[f] => e = f
  <2> DEFINE p(e) == IF e = x THEN y ELSE IF e = y THEN x ELSE e
  <2>1. \A e \in 1..n : p(e) \in 1..n /\ r[e] = t[p(e)]
    BY <1>3, <1>4
  <2>2. \A e, f \in 1..n : p(e) = p(f) => e = f
    BY <1>3
  <2> HIDE DEF p
  <2> SUFFICES ASSUME NEW e \in 1..n, NEW f \in 1..n, r[e] = r[f] PROVE e = f
    OBVIOUS
  <2>3. t[p(e)] = t[p(f)] /\ p(e) \in 1..n /\ p(f) \in 1..n
    BY <2>1
  <2>4. p(e) = p(f)
    BY <1>1, <2>3
  <2> QED BY <2>2, <2>4
<1>6. \A e \in 1..n : \E f \in 1..n : r[f] = q[e]
  <2> SUFFICES ASSUME NEW e \in 1..n PROVE \E f \in 1..n : r[f] = q[e]
    OBVIOUS
  <2>1. PICK f \in 1..n : t[f] = q[e]
    BY <1>1
  <2>2. CASE f = x
    BY <1>3, <1>4, <2>1, <2>2
  <2>3. CASE f = y
    BY <1>3, <1>4, <2>1, <2>3
  <2>4. CASE f # x /\ f # y
    BY <1>4, <2>1, <2>4
  <2> QED BY <2>2, <2>3, <2>4
<1>7. x \notin G /\ G \subseteq F
  <2>1. x \notin G
    BY <1>3, <1>4, <1>f
  <2>2. ASSUME NEW e \in G PROVE e \in F
    <3>1. e \in 1..n /\ r[e] # q[e] /\ e # x
      BY <1>f, <2>1
    <3>2. CASE e = y
      BY <1>3, <3>2
    <3>3. CASE e # y
      BY <1>4, <1>f, <3>1, <3>3
    <3> QED BY <3>2, <3>3
  <2> QED BY <2>1, <2>2
<1>8. ASSUME NEW X \in SUBSET G, X # {},
             \A e \in X, f \in 1..n : r[f] = q[e] => f \in X
      PROVE  X = G
  <2>0. x \notin X /\ X \subseteq 1..n /\ X \subseteq F
    BY <1>7, <1>f
  <2>1. CASE y \in X
    <3> DEFINE Z == X \cup {x}
    <3>1. Z \in SUBSET F /\ Z # {}
      BY <1>3, <2>0
    <3>2. ASSUME NEW e \in Z, NEW f \in 1..n, t[f] = q[e] PROVE f \in Z
      <4>1. CASE e = x
        <5>1. f = y
          BY <1>1, <1>3, <3>2, <4>1
        <5> QED BY <2>1, <5>1
      <4>2. CASE e # x /\ f # x /\ f # y
        <5>1. e \in X /\ r[f] = q[e]
          BY <1>4, <3>2, <4>2
        <5> QED BY <1>8, <5>1
      <4>3. CASE f = x \/ f = y
        BY <2>1, <4>3
      <4> QED BY <4>1, <4>2, <4>3
    <3>3. Z = F
      <4> HIDE DEF Z
      <4> QED BY <1>2, <3>1, <3>2
    <3> QED BY <1>7, <3>3
  <2>2. CASE y \notin X
    <3>1. ASSUME NEW e \in X, NEW f \in 1..n, t[f] = q[e] PROVE f \in X
      <4>0. e \in 1..n /\ e # x
        BY <2>0
      <4>1. CASE f = x
        <5>1. r[y] = q[e]
          BY <1>4, <3>1, <4>1
        <5>2. y \in X
          BY <1>3, <1>8, <5>1
        <5> QED BY <2>2, <5>2
      <4>2. CASE f = y
        <5>1. q[x] = q[e]
          BY <3>1, <4>2
        <5> QED BY <1>1, <1>3, <4>0, <5>1
      <4>3. CASE f # x /\ f # y
        <5>1. r[f] = q[e]
          BY <1>4, <3>1, <4>3
        <5> QED BY <1>8, <5>1
      <4> QED BY <4>1, <4>2, <4>3
    <3>2. X = F
      <4>1. X \in SUBSET F
        BY <2>0
      <4> QED BY <1>2, <1>8, <3>1, <4>1
    <3> QED BY <1>3, <2>0, <3>2
  <2> QED BY <2>1, <2>2
<1>9. \A X \in SUBSET G :
        X # {} /\ (\A e \in X, f \in 1..n : r[f] = q[e] => f \in X) => X = G
  BY <1>8
<1> QED BY <1>1, <1>5, <1>6, <1>9 DEF UnaRonda, r, G
-----------------------------------------------------------------------------
(* The resolution *)

\* Trainer e has one of t[e] and wants one of q[e].
DeUno(listas, objetivos, t, q, n) ==
  /\ listas = [e \in 1..n |-> Un(t[e])] /\ objetivos = [e \in 1..n |-> Un(q[e])]
  /\ DOMAIN t = 1..n /\ UnaRonda(t, q, n)

EnRonda ==
  /\ \E n, t, q : DeUno(pokemones, equipo.objetivo, t, q, n)
  /\ intentos = 0 /\ segfault = FALSE

LEMMA EnRondaDL ==
  ASSUME NEW n, NEW t, NEW q, DeUno(pokemones, equipo.objetivo, t, q, n)
  PROVE  /\ n \in Nat /\ Entrenador = 1..n /\ Len(equipo.objetivo) = n
         /\ \A e \in 1..n : objetivo(e) = Un(q[e]) /\ pokemones[e] = Un(t[e])
         /\ \A e \in 1..n : Cumplio(e) <=> t[e] = q[e]
         /\ entrenadores_DL =
              Elegidos([e \in 1..n |-> copia_DL(e, Un(t[e]), Un(q[e]))], Faltos(t, q, n))
<1>1. n \in Nat
  BY DEF DeUno, UnaRonda
<1>2. Entrenador = 1..n /\ Len(equipo.objetivo) = n
  BY <1>1 DEF DeUno, Entrenador
<1>3. \A e \in 1..n : objetivo(e) = Un(q[e]) /\ pokemones[e] = Un(t[e])
  BY DEF DeUno, objetivo
<1>4. \A e \in 1..n : Cumplio(e) <=> t[e] = q[e]
  BY <1>3, CumplioUn DEF Cumplio
<1>5. \A e \in 1..n : ~puede_capturar_pokemones(pokemones[e], objetivo(e))
  BY <1>3, CumplioUn
<1> DEFINE l == [e \in Entrenador |-> copia_DL(e, pokemones[e], objetivo(e))]
           I == {e \in Entrenador :
                   ~Cumplio(e) /\ ~puede_capturar_pokemones(pokemones[e], objetivo(e))}
<1>6. l = [e \in 1..n |-> copia_DL(e, Un(t[e]), Un(q[e]))]
  BY <1>2, <1>3
<1>7. I = Faltos(t, q, n)
  BY <1>2, <1>4, <1>5 DEF Faltos
<1>8. entrenadores_DL = Elegidos(l, I)
  BY DEF entrenadores_DL
<1> HIDE DEF l, I
<1> QED BY <1>1, <1>2, <1>3, <1>4, <1>6, <1>7, <1>8

\* Two trainers exchange: the first gets what it wants.
LEMMA EnRondaTrato ==
  ASSUME NEW n, NEW t, NEW q, DeUno(pokemones, equipo.objetivo, t, q, n),
         NEW x \in Faltos(t, q, n), NEW y \in Faltos(t, q, n), x # y, t[y] = q[x],
         Intercambiar(x, y, t[y]), equipo' = equipo
  PROVE  DeUno(pokemones', equipo'.objetivo, Cambiados(t, x, y), q, n)
<1> DEFINE r == Cambiados(t, x, y)
           ofrecido == pokemon_ofrecido(pokemones[x], objetivo(x), objetivo(y))
           dados == Intercambiadas(pokemones[x], pokemones[y], t[y], ofrecido[1].nombre, ofrecido[1].nombre)
<1>1. /\ n \in Nat /\ Entrenador = 1..n
      /\ \A e \in 1..n : objetivo(e) = Un(q[e]) /\ pokemones[e] = Un(t[e])
  BY EnRondaDL
<1>2. x \in 1..n /\ y \in 1..n /\ t[x] # q[x]
  BY DEF Faltos
<1>3. DOMAIN t = 1..n /\ UnaRonda(t, q, n)
  BY DEF DeUno
<1>4. ofrecido = Un(t[x])
  BY <1>1, <1>2, OfrecidoUn
<1>5. dados = <<Un(t[y]), Un(t[x])>>
  <2> HIDE DEF ofrecido
  <2>1. ofrecido[1].nombre = t[x]
    BY <1>4, UnEs
  <2> QED BY <1>1, <1>2, <2>1, IntercambiadasUn
<1>6. pokemones' = [e \in Entrenador |->
        sumarizar_pokemones(IF e = x THEN dados[1] ELSE IF e = y THEN dados[2] ELSE pokemones[e])]
  BY DEF Intercambiar
<1> HIDE DEF ofrecido, dados
<1>7. DOMAIN r = 1..n /\ r[x] = t[y] /\ r[y] = t[x] /\ \A e \in 1..n : e # x /\ e # y => r[e] = t[e]
  BY <1>2, <1>3 DEF Cambiados
<1> HIDE DEF r
<1>8. ASSUME NEW e \in 1..n
      PROVE  sumarizar_pokemones(IF e = x THEN dados[1] ELSE IF e = y THEN dados[2] ELSE pokemones[e])
               = Un(r[e])
  <2>1. dados[1] = Un(t[y]) /\ dados[2] = Un(t[x])
    BY <1>5
  <2>2. (IF e = x THEN dados[1] ELSE IF e = y THEN dados[2] ELSE pokemones[e]) = Un(r[e])
    BY <1>1, <1>7, <2>1
  <2> QED BY <2>2, SumarizarUn
<1>9. pokemones' = [e \in 1..n |-> Un(r[e])]
  BY <1>1, <1>6, <1>8
<1>10. UnaRonda(r, q, n)
  BY <1>3, RondaMenor DEF r
<1>11. equipo'.objetivo = [e \in 1..n |-> Un(q[e])]
  BY DEF DeUno
<1> QED BY <1>7, <1>9, <1>10, <1>11 DEF DeUno, r

\* x takes what it wants from y.
Trato(n, t, q, x, y) ==
  /\ DeUno(pokemones, equipo.objetivo, t, q, n)
  /\ x \in Faltos(t, q, n) /\ y \in Faltos(t, q, n) /\ x # y /\ t[y] = q[x]
  /\ DeUno(pokemones', equipo'.objetivo, Cambiados(t, x, y), q, n)
  /\ equipo' = equipo /\ intentos' = 0 /\ segfault' = FALSE

\* The detection always comes to an exchange.
LEMMA ResolverEs ==
  ASSUME EnRonda, Resolver
  PROVE  \E n, t, q, x, y : Trato(n, t, q, x, y)
<1>1. PICK n, t, q : DeUno(pokemones, equipo.objetivo, t, q, n)
  BY DEF EnRonda
<1> DEFINE dl == entrenadores_DL
           m == Len(dl)
<1>2. /\ n \in Nat /\ Len(equipo.objetivo) = n /\ UnaRonda(t, q, n)
      /\ dl = Elegidos([e \in 1..n |-> copia_DL(e, Un(t[e]), Un(q[e]))], Faltos(t, q, n))
  BY <1>1, EnRondaDL DEF DeUno
<1>3. m > 1 /\ intentos = 0
  BY DEF Resolver, EnRonda
<1>4. PICK basura \in BOOLEAN :
        LET b  == buscar_deadlocks(dl, Len(equipo.objetivo), intentos, basura)
            x  == elegir_intercambio(dl, b.encontrados)
        IN  IF b.nulo \/ x = SinIntercambio
            THEN segfault' = TRUE /\ UNCHANGED <<equipo, pokemones, intentos>>
            ELSE /\ Intercambiar(dl[x.e1].id, dl[x.e2].id,
                      pokemon_que_sirve(dl[x.e1].objetivo, dl[x.e2].pokemones)[1].nombre)
                 /\ intentos' = b.intentos
                 /\ UNCHANGED <<equipo, segfault>>
  BY DEF Resolver
<1> HIDE DEF dl
<1>5. PICK u, s : Filas(dl, u, s, t, q, n)
  BY <1>2, FilasDeLaRonda
<1>6. Anillo(dl, s)
  BY <1>2, <1>3, <1>5, FilasEnCirculo
<1>7. m <= n /\ m \in Nat
  BY <1>2, <1>5 DEF Filas
<1> DEFINE b == buscar_deadlocks(dl, n, 0, basura)
           c == Ordenados(1..m, n)
           w == elegir_intercambio(dl, <<c>>)
<1>8. b.nulo = FALSE /\ b.intentos = 0 /\ b.encontrados = <<c>>
  <2>1. b = [intentos |-> 0, procesos |-> {}, encontrados |-> <<c>>, nulo |-> FALSE]
    BY <1>2, <1>6, <1>7, BuscarElCiclo
  <2> HIDE DEF b, c
  <2> QED BY <2>1
<1>9. PICK a \in 1..m : w = [e1 |-> a, e2 |-> s[a]]
  <2>1. n \in Nat /\ Len(dl) <= n
    BY <1>2, <1>7
  <2> HIDE DEF b, c, w, m
  <2>2. \E a \in 1..Len(dl) :
           elegir_intercambio(dl, <<Ordenados(1..Len(dl), n)>>) = [e1 |-> a, e2 |-> s[a]]
    BY <1>6, <2>1, ElegirElTrato
  <2> QED BY <2>2 DEF c, w, m
<1> HIDE DEF b, c, w, m
<1>10. w.e1 = a /\ w.e2 = s[a] /\ w # SinIntercambio
  <2>1. a # 0
    OBVIOUS
  <2> QED BY <1>9, <2>1 DEF SinIntercambio
<1>11. /\ Intercambiar(dl[a].id, dl[s[a]].id,
            pokemon_que_sirve(dl[a].objetivo, dl[s[a]].pokemones)[1].nombre)
       /\ intentos' = 0 /\ equipo' = equipo /\ segfault' = segfault
  <2>1. LET x == elegir_intercambio(dl, b.encontrados)
        IN  IF b.nulo \/ x = SinIntercambio
            THEN segfault' = TRUE /\ UNCHANGED <<equipo, pokemones, intentos>>
            ELSE /\ Intercambiar(dl[x.e1].id, dl[x.e2].id,
                      pokemon_que_sirve(dl[x.e1].objetivo, dl[x.e2].pokemones)[1].nombre)
                 /\ intentos' = b.intentos
                 /\ UNCHANGED <<equipo, segfault>>
    BY <1>2, <1>3, <1>4 DEF b
  <2>2. elegir_intercambio(dl, b.encontrados) = w
    BY <1>8 DEF w
  <2>3. /\ Intercambiar(dl[w.e1].id, dl[w.e2].id,
              pokemon_que_sirve(dl[w.e1].objetivo, dl[w.e2].pokemones)[1].nombre)
        /\ intentos' = b.intentos /\ UNCHANGED <<equipo, segfault>>
    BY <1>8, <1>10, <2>1, <2>2
  <2> QED BY <1>8, <1>10, <2>3
<1> DEFINE x == u[a]
           y == u[s[a]]
<1>12. /\ x \in Faltos(t, q, n) /\ y \in Faltos(t, q, n) /\ t[y] = q[x] /\ x # y
       /\ dl[a].id = x /\ dl[a].objetivo = Un(q[x])
       /\ dl[s[a]].id = y /\ dl[s[a]].pokemones = Un(t[y])
  <2>1. s[a] \in 1..m /\ s[a] # a
    BY <1>6, OtroSigue DEF m
  <2> QED BY <1>5, <2>1 DEF Filas, m
<1> HIDE DEF x, y
<1>13. pokemon_que_sirve(dl[a].objetivo, dl[s[a]].pokemones)[1].nombre = t[y]
  BY <1>12, SirveUn, UnEs
<1>14. Intercambiar(x, y, t[y])
  BY <1>11, <1>12, <1>13
<1>15. DeUno(pokemones', equipo'.objetivo, Cambiados(t, x, y), q, n)
  BY <1>1, <1>11, <1>12, <1>14, EnRondaTrato
<1> QED BY <1>1, <1>11, <1>12, <1>15 DEF EnRonda, Trato

LEMMA EnRondaPaso ==
  ASSUME EnRonda, [Next]_vars
  PROVE  EnRonda'
<1>1. CASE UNCHANGED vars
  BY <1>1 DEF EnRonda, vars
<1>2. CASE Resolver
  BY <1>2, ResolverEs DEF Trato, EnRonda
<1> QED BY <1>1, <1>2 DEF Next

LEMMA EnRondaResuelta ==
  ASSUME EnRonda
  PROVE  RondaResuelta
<1>1. PICK n, t, q : DeUno(pokemones, equipo.objetivo, t, q, n)
  BY DEF EnRonda
<1> DEFINE dl == entrenadores_DL
           F == Faltos(t, q, n)
<1>2. /\ n \in Nat /\ Entrenador = 1..n /\ UnaRonda(t, q, n)
      /\ \A e \in 1..n : Cumplio(e) <=> t[e] = q[e]
      /\ dl = Elegidos([e \in 1..n |-> copia_DL(e, Un(t[e]), Un(q[e]))], F)
  <2>1. UnaRonda(t, q, n)
    BY <1>1 DEF DeUno
  <2> HIDE DEF dl, F
  <2> QED BY <1>1, <2>1, EnRondaDL DEF dl, F
<1> HIDE DEF dl
<1>3. PICK u, s : Filas(dl, u, s, t, q, n)
  BY <1>2, FilasDeLaRonda
<1>4. ASSUME Len(dl) <= 1, NEW e \in 1..n, t[e] # q[e] PROVE FALSE
  <2>1. e \in F
    BY <1>4 DEF Faltos
  <2>2. PICK f \in F : f # e
    BY <1>2, <2>1, TambienEspera
  <2>3. PICK i \in 1..Len(dl), j \in 1..Len(dl) : u[i] = e /\ u[j] = f
    <3>1. \A g \in F : \E k \in 1..Len(dl) : u[k] = g
      BY <1>3 DEF Filas
    <3> HIDE DEF F
    <3> QED BY <2>1, <3>1
  <2>4. Len(dl) \in Nat
    BY <1>2, <1>3 DEF Filas
  <2>5. i = 1 /\ j = 1
    BY <1>4, <2>4
  <2> QED BY <2>2, <2>3, <2>5
<1>5. ~segfault
  BY DEF EnRonda
<1> QED BY <1>2, <1>4, <1>5 DEF RondaResuelta, dl
-----------------------------------------------------------------------------
\* What the team of the configuration has and wants, by name.
Nombres(listas) == [e \in DOMAIN listas |-> listas[e][1].nombre]

\* The configurations in which each trainer has one pokemon and wants one.
RondasDeUno ==
  \A r \in Equipos :
    DeUno(r.pokemones, r.objetivo, Nombres(r.pokemones), Nombres(r.objetivo), Len(r.objetivo))

\* RondaResuelta, for any number of trainers.
THEOREM RondaResueltaSiempre == (Spec /\ RondasDeUno) => []RondaResuelta
<1>1. RondasDeUno /\ Init => EnRonda
  BY DEF RondasDeUno, Init, EnRonda
<1>2. EnRonda /\ [Next]_vars => EnRonda'
  BY EnRondaPaso
<1>3. EnRonda => RondaResuelta
  BY EnRondaResuelta
<1> QED BY <1>1, <1>2, <1>3, PTL DEF Spec
-----------------------------------------------------------------------------
(* Sums of ones *)

Uno(s) == CHOOSE x \in s : TRUE

\* The elements of s that are in I, one by one.
LEMMA ContarUnoMas ==
  ASSUME NEW S, IsFiniteSet(S), NEW I, NEW s \in SUBSET S, s # {}
  PROVE  /\ Uno(s) \in s /\ s \ {Uno(s)} \in SUBSET S
         /\ Cardinality(s) \in Nat /\ Cardinality(s \ {Uno(s)}) = Cardinality(s) - 1
         /\ Cardinality((s \ {Uno(s)}) \cap I) \in Nat
         /\ Cardinality(s \cap I) =
              Cardinality((s \ {Uno(s)}) \cap I) + (IF Uno(s) \in I THEN 1 ELSE 0)
<1> DEFINE u == Uno(s)
           r == s \ {u}
<1>1. u \in s
  BY DEF Uno
<1> HIDE DEF u
<1>2. IsFiniteSet(s) /\ Cardinality(s) \in Nat
  BY FS_Subset, FS_CardinalityType
<1>3. Cardinality(r) = Cardinality(s) - 1 /\ IsFiniteSet(r)
  BY <1>1, <1>2, FS_RemoveElement
<1>4. IsFiniteSet(r \cap I) /\ Cardinality(r \cap I) \in Nat
  <2>1. r \cap I \subseteq r
    OBVIOUS
  <2> QED BY <1>3, <2>1, FS_Subset, FS_CardinalityType
<1> DEFINE d == IF u \in I THEN 1 ELSE 0
<1>5. ASSUME u \in I PROVE Cardinality(s \cap I) = Cardinality(r \cap I) + d
  <2>1. s \cap I = (r \cap I) \cup {u} /\ u \notin r \cap I
    BY <1>1, <1>5
  <2>2. Cardinality((r \cap I) \cup {u}) = Cardinality(r \cap I) + 1
    BY <1>4, <2>1, FS_AddElement
  <2> QED BY <1>5, <2>1, <2>2
<1>6. ASSUME u \notin I PROVE Cardinality(s \cap I) = Cardinality(r \cap I) + d
  <2>1. s \cap I = r \cap I
    BY <1>1, <1>6
  <2>2. d = 0
    BY <1>6
  <2>3. Cardinality(r \cap I) = Cardinality(r \cap I) + 0
    BY <1>4
  <2> QED BY <2>1, <2>2, <2>3
<1>7. Cardinality(s \cap I) = Cardinality(r \cap I) + d
  BY <1>5, <1>6
<1> QED BY <1>1, <1>2, <1>3, <1>4, <1>7 DEF u

\* A sum of one for each element of I and nothing for the others.
Sumadas(S, I, v, h) ==
  /\ h[{}] = 0 /\ \A e \in S : v[e] = IF e \in I THEN 1 ELSE 0
  /\ \A s \in SUBSET S : s # {} => h[s] = h[s \ {Uno(s)}] + v[Uno(s)]

LEMMA SumaDeUnos ==
  ASSUME NEW S, IsFiniteSet(S), NEW I \in SUBSET S, NEW v, NEW h, Sumadas(S, I, v, h)
  PROVE  h[S] = Cardinality(I)
<1>0. /\ h[{}] = 0 /\ \A e \in S : v[e] = IF e \in I THEN 1 ELSE 0
      /\ \A s \in SUBSET S : s # {} => h[s] = h[s \ {Uno(s)}] + v[Uno(s)]
  BY DEF Sumadas
<1> DEFINE Hay(k) == \A s \in SUBSET S : Cardinality(s) = k => h[s] = Cardinality(s \cap I)
           Bien == {k \in Nat : Hay(k)}
<1>1. Hay(0)
  <2> SUFFICES ASSUME NEW s \in SUBSET S, Cardinality(s) = 0 PROVE h[s] = Cardinality(s \cap I)
    OBVIOUS
  <2>1. IsFiniteSet(s)
    BY FS_Subset
  <2>2. s = {} /\ s \cap I = {}
    BY <2>1, FS_EmptySet
  <2>3. Cardinality({}) = 0
    BY FS_EmptySet
  <2> QED BY <1>0, <2>2, <2>3
<1>2. ASSUME NEW k \in Nat, Hay(k) PROVE Hay(k + 1)
  <2> SUFFICES ASSUME NEW s \in SUBSET S, Cardinality(s) = k + 1
      PROVE  h[s] = Cardinality(s \cap I)
    OBVIOUS
  <2>1. s # {}
    <3>1. Cardinality({}) = 0 /\ k + 1 # 0
      BY FS_EmptySet
    <3> QED BY <3>1
  <2> DEFINE r == s \ {Uno(s)}
  <2>2. /\ Uno(s) \in s /\ r \in SUBSET S /\ Cardinality(r) = Cardinality(s) - 1
        /\ Cardinality(r \cap I) \in Nat
        /\ Cardinality(s \cap I) = Cardinality(r \cap I) + (IF Uno(s) \in I THEN 1 ELSE 0)
    BY <2>1, ContarUnoMas
  <2>3. h[s] = h[r] + v[Uno(s)]
    BY <1>0, <2>1
  <2> HIDE DEF r
  <2>4. Cardinality(r) = k
    BY <2>2
  <2>5. h[r] = Cardinality(r \cap I)
    BY <1>2, <2>2, <2>4
  <2>6. v[Uno(s)] = IF Uno(s) \in I THEN 1 ELSE 0
    BY <1>0, <2>2
  <2> QED BY <2>2, <2>3, <2>5, <2>6
<1> HIDE DEF Hay
<1>3. Bien = Nat
  <2>1. Bien \in SUBSET Nat /\ 0 \in Bien
    BY <1>1
  <2>2. ASSUME NEW k \in Bien PROVE k + 1 \in Bien
    BY <1>2
  <2> HIDE DEF Bien
  <2> QED BY <2>1, <2>2, InduccionNat
<1>4. Hay(Cardinality(S))
  <2>1. Cardinality(S) \in Nat
    BY FS_CardinalityType
  <2>2. Cardinality(S) \in Bien
    BY <1>3, <2>1
  <2> QED BY <2>2
<1>5. h[S] = Cardinality(S \cap I)
  BY <1>4 DEF Hay
<1>6. S \cap I = I
  OBVIOUS
<1> QED BY <1>5, <1>6

\* The function that a sum over the subsets of S chooses.
SumaEn(S, v, h) == [s \in SUBSET S |-> IF s = {} THEN 0 ELSE h[s \ {Uno(s)}] + v[Uno(s)]]

LEMMA HaySuma ==
  ASSUME NEW S, IsFiniteSet(S), NEW I \in SUBSET S, NEW v,
         \A e \in S : v[e] = IF e \in I THEN 1 ELSE 0
  PROVE  \E h : h = SumaEn(S, v, h)
<1> DEFINE h == [s \in SUBSET S |-> Cardinality(s \cap I)]
<1>1. ASSUME NEW s \in SUBSET S
      PROVE  h[s] = IF s = {} THEN 0 ELSE h[s \ {Uno(s)}] + v[Uno(s)]
  <2>1. CASE s = {}
    <3>1. s \cap I = {}
      BY <2>1
    <3>2. Cardinality({}) = 0
      BY FS_EmptySet
    <3> QED BY <2>1, <3>1, <3>2
  <2>2. CASE s # {}
    <3> DEFINE r == s \ {Uno(s)}
    <3>1. /\ Uno(s) \in s /\ r \in SUBSET S
          /\ Cardinality(s \cap I) = Cardinality(r \cap I) + (IF Uno(s) \in I THEN 1 ELSE 0)
      BY <2>2, ContarUnoMas
    <3> HIDE DEF r
    <3>2. h[s] = Cardinality(s \cap I) /\ h[r] = Cardinality(r \cap I)
      BY <3>1
    <3>3. v[Uno(s)] = IF Uno(s) \in I THEN 1 ELSE 0
      BY <3>1
    <3> HIDE DEF h
    <3> QED BY <2>2, <3>1, <3>2, <3>3 DEF r
  <2> QED BY <2>1, <2>2
<1>2. h = [s \in SUBSET S |-> h[s]]
  OBVIOUS
<1> HIDE DEF h
<1>3. h = SumaEn(S, v, h)
  BY <1>1, <1>2 DEF SumaEn
<1> QED BY <1>3

LEMMA MaxDeDos == Max({0, 0}) = 0 /\ Max({0, 1}) = 1
<1>1. \A x \in {0, 0} : (\A y \in {0, 0} : x >= y) => x = 0
  OBVIOUS
<1>2. 0 \in {0, 0} /\ \A y \in {0, 0} : 0 >= y
  OBVIOUS
<1>3. \A x \in {0, 1} : (\A y \in {0, 1} : x >= y) => x = 1
  OBVIOUS
<1>4. 1 \in {0, 1} /\ \A y \in {0, 1} : 1 >= y
  OBVIOUS
<1>5. Max({0, 0}) = 0
  BY <1>1, <1>2 DEF Max
<1>6. Max({0, 1}) = 1
  BY <1>3, <1>4 DEF Max
<1> QED BY <1>5, <1>6

LEMMA SumaElegida ==
  ASSUME NEW S, IsFiniteSet(S), NEW I \in SUBSET S, NEW v,
         \A e \in S : v[e] = IF e \in I THEN 1 ELSE 0, NEW h, h = SumaEn(S, v, h)
  PROVE  h[S] = Cardinality(I)
<1>1. h = [s \in SUBSET S |-> IF s = {} THEN 0 ELSE h[s \ {Uno(s)}] + v[Uno(s)]]
  BY DEF SumaEn
<1>2. h[{}] = 0
  BY <1>1
<1>3. \A s \in SUBSET S : s # {} => h[s] = h[s \ {Uno(s)}] + v[Uno(s)]
  BY <1>1
<1>4. Sumadas(S, I, v, h)
  BY <1>2, <1>3 DEF Sumadas
<1> QED BY <1>4, SumaDeUnos

\* One fold of Faltan, and one of CantidadDe.
FaltaDe(e, listas) ==
  FoldSet(LAMBDA o, s : s + Max({0, o.cantidad - get_cantidad_by_nombre_pokemon(o.nombre, listas[e])}),
                 0, ToSet(objetivo(e)))

CantidadEn(r, l) == FoldSet(LAMBDA i, s : s + l[i].cantidad, 0, Posiciones(r, l))

\* One pokemon is missing, or none.
LEMMA FaltaDeUno ==
  ASSUME NEW listas, NEW e, NEW k, NEW p, objetivo(e) = Un(p), listas[e] = Un(k)
  PROVE  FaltaDe(e, listas) = IF k = p THEN 0 ELSE 1
<1> DEFINE S == ToSet(objetivo(e))
           I == {x \in {get_pokemon(p)} : k # p}
           F(x) == Max({0, x.cantidad - get_cantidad_by_nombre_pokemon(x.nombre, listas[e])})
           v == [x \in S |-> F(x)]
           P(h) == [s \in SUBSET S |-> IF s = {} THEN 0 ELSE h[s \ {Uno(s)}] + F(Uno(s))]
           iter == CHOOSE h : h = P(h)
<1>1. S = {get_pokemon(p)}
  <2>1. DOMAIN Un(p) = {1} /\ Un(p)[1] = get_pokemon(p)
    BY UnEs
  <2> QED BY <2>1 DEF ToSet
<1>2. IsFiniteSet(S) /\ I \in SUBSET S
  BY <1>1, FS_Singleton
<1>3. \A x \in S : F(x) = IF x \in I THEN 1 ELSE 0
  <2>1. get_pokemon(p).nombre = p /\ get_pokemon(p).cantidad = 1
    BY UnEs
  <2>2. get_cantidad_by_nombre_pokemon(p, listas[e]) = IF p = k THEN 1 ELSE 0
    BY CantidadDeUn
  <2>3. F(get_pokemon(p)) = Max({0, IF p = k THEN 0 ELSE 1})
    BY <2>1, <2>2
  <2>4. Max({0, 0}) = 0 /\ Max({0, 1}) = 1
    BY MaxDeDos
  <2> HIDE DEF F
  <2> QED BY <1>1, <2>3, <2>4
<1>4. FaltaDe(e, listas) = iter[S]
  BY DEF FaltaDe, FoldSet, MapThenFoldSet, Uno
<1> HIDE DEF F, S, I
<1>5. ASSUME NEW h PROVE P(h) = SumaEn(S, v, h)
  <2>1. \A s \in SUBSET S : s # {} => v[Uno(s)] = F(Uno(s))
    BY DEF Uno
  <2> HIDE DEF v
  <2> QED BY <2>1 DEF SumaEn
<1>6. \A x \in S : v[x] = IF x \in I THEN 1 ELSE 0
  BY <1>3
<1> HIDE DEF v
<1>7. \E h : h = P(h)
  <2>1. PICK h : h = SumaEn(S, v, h)
    BY <1>2, <1>6, HaySuma
  <2> HIDE DEF P
  <2> QED BY <1>5, <2>1
<1>8. iter = P(iter)
  <2> HIDE DEF P
  <2> QED BY <1>7
<1>9. iter = SumaEn(S, v, iter)
  <2> HIDE DEF P, iter
  <2> QED BY <1>5, <1>8
<1> HIDE DEF iter, P
<1>10. iter[S] = Cardinality(I)
  BY <1>2, <1>6, <1>9, SumaElegida
<1>11. Cardinality(I) = IF k = p THEN 0 ELSE 1
  <2>0. Cardinality({get_pokemon(p)}) = 1 /\ Cardinality({}) = 0
    BY FS_Singleton, FS_EmptySet
  <2>1. CASE k # p
    <3>1. I = {get_pokemon(p)}
      BY <2>1 DEF I
    <3> QED BY <2>0, <2>1, <3>1
  <2>2. CASE ~(k # p)
    <3>1. I = {}
      BY <2>2 DEF I
    <3> QED BY <2>0, <2>2, <3>1
  <2> QED BY <2>1, <2>2
<1> QED BY <1>4, <1>10, <1>11

\* As many are missing as trainers wait.
LEMMA FaltanSon ==
  ASSUME NEW listas, NEW t, NEW q, NEW n \in Nat, Entrenador = 1..n,
         \A e \in 1..n : objetivo(e) = Un(q[e]) /\ listas[e] = Un(t[e])
  PROVE  Faltan(listas) = Cardinality(Faltos(t, q, n))
<1> DEFINE S == Entrenador
           I == Faltos(t, q, n)
           F(x) == FaltaDe(x, listas)
           v == [x \in S |-> F(x)]
           P(h) == [s \in SUBSET S |-> IF s = {} THEN 0 ELSE h[s \ {Uno(s)}] + F(Uno(s))]
           iter == CHOOSE h : h = P(h)
<1>2. IsFiniteSet(S) /\ I \in SUBSET S
  BY FS_Interval DEF Faltos
<1>3. \A x \in S : F(x) = IF x \in I THEN 1 ELSE 0
  <2> SUFFICES ASSUME NEW x \in 1..n PROVE F(x) = IF x \in I THEN 1 ELSE 0
    OBVIOUS
  <2>1. F(x) = IF t[x] = q[x] THEN 0 ELSE 1
    BY FaltaDeUno
  <2>3. x \in I <=> t[x] # q[x]
    BY DEF Faltos
  <2> HIDE DEF F, I
  <2> QED BY <2>1, <2>3
<1>4. Faltan(listas) = iter[S]
  BY DEF Faltan, FaltaDe, FoldSet, MapThenFoldSet, Uno
<1> HIDE DEF F, S, I
<1>5. ASSUME NEW h PROVE P(h) = SumaEn(S, v, h)
  <2>1. \A s \in SUBSET S : s # {} => v[Uno(s)] = F(Uno(s))
    BY DEF Uno
  <2> HIDE DEF v
  <2> QED BY <2>1 DEF SumaEn
<1>6. \A x \in S : v[x] = IF x \in I THEN 1 ELSE 0
  BY <1>3
<1> HIDE DEF v
<1>7. \E h : h = P(h)
  <2>1. PICK h : h = SumaEn(S, v, h)
    BY <1>2, <1>6, HaySuma
  <2> HIDE DEF P
  <2> QED BY <1>5, <2>1
<1>8. iter = P(iter)
  <2> HIDE DEF P
  <2> QED BY <1>7
<1>9. iter = SumaEn(S, v, iter)
  <2> HIDE DEF P, iter
  <2> QED BY <1>5, <1>8
<1> HIDE DEF iter, P
<1>10. iter[S] = Cardinality(I)
  BY <1>2, <1>6, <1>9, SumaElegida
<1> QED BY <1>4, <1>10 DEF I

LEMMA CantidadDeUno ==
  ASSUME NEW k, NEW r
  PROVE  CantidadEn(r, Un(k)) = IF k = r THEN 1 ELSE 0
<1> DEFINE S == Posiciones(r, Un(k))
           I == {i \in {1} : r = k}
           F(x) == Un(k)[x].cantidad
           v == [x \in S |-> F(x)]
           P(h) == [s \in SUBSET S |-> IF s = {} THEN 0 ELSE h[s \ {Uno(s)}] + F(Uno(s))]
           iter == CHOOSE h : h = P(h)
<1>1. S = I
  BY PosicionesDeUn
<1>2. IsFiniteSet(S) /\ I \in SUBSET S
  <2>1. I \subseteq {1}
    OBVIOUS
  <2> QED BY <1>1, <2>1, FS_Singleton, FS_Subset
<1>3. \A x \in S : F(x) = IF x \in I THEN 1 ELSE 0
  <2>1. \A x \in I : x = 1
    OBVIOUS
  <2>2. F(1) = 1
    BY UnEs
  <2> HIDE DEF F, I, S
  <2> QED BY <1>1, <2>1, <2>2
<1>4. CantidadEn(r, Un(k)) = iter[S]
  BY DEF CantidadEn, FoldSet, MapThenFoldSet, Uno
<1> HIDE DEF F, S, I
<1>5. ASSUME NEW h PROVE P(h) = SumaEn(S, v, h)
  <2>1. \A s \in SUBSET S : s # {} => v[Uno(s)] = F(Uno(s))
    BY DEF Uno
  <2> HIDE DEF v
  <2> QED BY <2>1 DEF SumaEn
<1>6. \A x \in S : v[x] = IF x \in I THEN 1 ELSE 0
  BY <1>3
<1> HIDE DEF v
<1>7. \E h : h = P(h)
  <2>1. PICK h : h = SumaEn(S, v, h)
    BY <1>2, <1>6, HaySuma
  <2> HIDE DEF P
  <2> QED BY <1>5, <2>1
<1>8. iter = P(iter)
  <2> HIDE DEF P
  <2> QED BY <1>7
<1>9. iter = SumaEn(S, v, iter)
  <2> HIDE DEF P, iter
  <2> QED BY <1>5, <1>8
<1> HIDE DEF iter, P
<1>10. iter[S] = Cardinality(I)
  BY <1>2, <1>6, <1>9, SumaElegida
<1>11. Cardinality(I) = IF k = r THEN 1 ELSE 0
  <2>0. Cardinality({1}) = 1 /\ Cardinality({}) = 0
    BY FS_Singleton, FS_EmptySet
  <2>1. CASE r = k
    <3>1. I = {1}
      BY <2>1 DEF I
    <3> QED BY <2>0, <2>1, <3>1
  <2>2. CASE ~(r = k)
    <3>1. I = {}
      BY <2>2 DEF I
    <3> QED BY <2>0, <2>2, <3>1
  <2> QED BY <2>1, <2>2
<1> QED BY <1>4, <1>10, <1>11

\* As many of species r as trainers that have one.
LEMMA CantidadesSon ==
  ASSUME NEW listas, NEW t, NEW n \in Nat, DOMAIN listas = 1..n,
         \A e \in 1..n : listas[e] = Un(t[e]), NEW r
  PROVE  CantidadDe(r, listas) = Cardinality({e \in 1..n : t[e] = r})
<1> DEFINE S == DOMAIN listas
           I == {e \in 1..n : t[e] = r}
           F(x) == CantidadEn(r, listas[x])
           v == [x \in S |-> F(x)]
           P(h) == [s \in SUBSET S |-> IF s = {} THEN 0 ELSE h[s \ {Uno(s)}] + F(Uno(s))]
           iter == CHOOSE h : h = P(h)
<1>2. IsFiniteSet(S) /\ I \in SUBSET S
  BY FS_Interval
<1>3. \A x \in S : F(x) = IF x \in I THEN 1 ELSE 0
  <2> SUFFICES ASSUME NEW x \in 1..n PROVE F(x) = IF x \in I THEN 1 ELSE 0
    OBVIOUS
  <2>1. F(x) = IF t[x] = r THEN 1 ELSE 0
    BY CantidadDeUno
  <2>3. x \in I <=> t[x] = r
    OBVIOUS
  <2> HIDE DEF F, I
  <2> QED BY <2>1, <2>3
<1>4. CantidadDe(r, listas) = iter[S]
  BY DEF CantidadDe, CantidadEn, FoldSet, MapThenFoldSet, Uno
<1> HIDE DEF F, S, I
<1>5. ASSUME NEW h PROVE P(h) = SumaEn(S, v, h)
  <2>1. \A s \in SUBSET S : s # {} => v[Uno(s)] = F(Uno(s))
    BY DEF Uno
  <2> HIDE DEF v
  <2> QED BY <2>1 DEF SumaEn
<1>6. \A x \in S : v[x] = IF x \in I THEN 1 ELSE 0
  BY <1>3
<1> HIDE DEF v
<1>7. \E h : h = P(h)
  <2>1. PICK h : h = SumaEn(S, v, h)
    BY <1>2, <1>6, HaySuma
  <2> HIDE DEF P
  <2> QED BY <1>5, <2>1
<1>8. iter = P(iter)
  <2> HIDE DEF P
  <2> QED BY <1>7
<1>9. iter = SumaEn(S, v, iter)
  <2> HIDE DEF P, iter
  <2> QED BY <1>5, <1>8
<1> HIDE DEF iter, P
<1>10. iter[S] = Cardinality(I)
  BY <1>2, <1>6, <1>9, SumaElegida
<1> QED BY <1>4, <1>10 DEF I
-----------------------------------------------------------------------------
(* The exchange is fair *)

LEMMA TratoCuenta ==
  ASSUME NEW n, NEW t, NEW q, NEW x, NEW y, Trato(n, t, q, x, y)
  PROVE  /\ Faltan(pokemones') < Faltan(pokemones)
         /\ \A r : CantidadDe(r, pokemones') = CantidadDe(r, pokemones)
<1> DEFINE w == Cambiados(t, x, y)
           F == Faltos(t, q, n)
           G == Faltos(w, q, n)
           A(r) == {e \in 1..n : t[e] = r}
           B(r) == {e \in 1..n : w[e] = r}
<1>1. /\ n \in Nat /\ Entrenador = 1..n
      /\ \A e \in 1..n : objetivo(e) = Un(q[e]) /\ pokemones[e] = Un(t[e])
  BY EnRondaDL DEF Trato
<1>2. /\ pokemones = [e \in 1..n |-> Un(t[e])] /\ pokemones' = [e \in 1..n |-> Un(w[e])]
      /\ DOMAIN t = 1..n /\ UnaRonda(t, q, n) /\ UnaRonda(w, q, n)
      /\ x \in F /\ y \in F /\ x # y /\ t[y] = q[x]
  BY DEF Trato, DeUno
<1>3. /\ x \in 1..n /\ y \in 1..n /\ t[x] # q[x] /\ t[y] # q[y]
      /\ F \subseteq 1..n /\ G \subseteq 1..n
  BY <1>2 DEF Faltos
<1>4. w[x] = t[y] /\ w[y] = t[x] /\ \A e \in 1..n : e # x /\ e # y => w[e] = t[e]
  BY <1>2, <1>3 DEF Cambiados
<1>f. /\ \A e \in 1..n : e \in F <=> t[e] # q[e]
      /\ \A e \in 1..n : e \in G <=> w[e] # q[e]
  BY DEF Faltos
<1> HIDE DEF w, F, G
<1>5. Faltan(pokemones) = Cardinality(F)
  BY <1>1, FaltanSon DEF F
<1>6. Faltan(pokemones') = Cardinality(G)
  <2>1. \A e \in 1..n : objetivo(e) = Un(q[e]) /\ pokemones'[e] = Un(w[e])
    BY <1>1, <1>2
  <2> QED BY <1>1, <2>1, FaltanSon DEF G
<1>7. Cardinality(G) < Cardinality(F)
  <2>1. x \notin G
    BY <1>2, <1>3, <1>4, <1>f
  <2>2. ASSUME NEW e \in G PROVE e \in F
    <3>1. e \in 1..n /\ w[e] # q[e] /\ e # x
      BY <1>3, <1>f, <2>1
    <3>2. CASE e = y
      BY <1>2, <3>2
    <3>3. CASE e # y
      BY <1>4, <1>f, <3>1, <3>3
    <3> QED BY <3>2, <3>3
  <2>3. IsFiniteSet(1..n)
    BY <1>1, FS_Interval
  <2>4. IsFiniteSet(F) /\ IsFiniteSet(G)
    BY <1>3, <2>3, FS_Subset
  <2>5. G \subseteq F \ {x}
    BY <2>1, <2>2
  <2>6. /\ IsFiniteSet(F \ {x}) /\ Cardinality(F \ {x}) = Cardinality(F) - 1
    BY <1>2, <2>4, FS_RemoveElement
  <2>7. Cardinality(G) <= Cardinality(F \ {x})
    BY <2>5, <2>6, FS_Subset
  <2>8. Cardinality(F) \in Nat /\ Cardinality(G) \in Nat
    BY <2>4, FS_CardinalityType
  <2> QED BY <2>6, <2>7, <2>8
<1>8. ASSUME NEW r PROVE CantidadDe(r, pokemones') = CantidadDe(r, pokemones)
  <2>1. CantidadDe(r, pokemones) = Cardinality(A(r))
    <3>1. DOMAIN pokemones = 1..n
      BY <1>2
    <3> QED BY <1>1, <3>1, CantidadesSon
  <2>2. CantidadDe(r, pokemones') = Cardinality(B(r))
    <3>1. DOMAIN pokemones' = 1..n /\ \A e \in 1..n : pokemones'[e] = Un(w[e])
      BY <1>2
    <3> QED BY <1>1, <3>1, CantidadesSon
  <2> DEFINE p == [e \in A(r) |-> IF e = x THEN y ELSE IF e = y THEN x ELSE e]
  <2>3. p \in Bijection(A(r), B(r))
    <3>1. \A e \in A(r) : p[e] \in B(r)
      BY <1>3, <1>4
    <3>2. \A e, f \in A(r) : p[e] = p[f] => e = f
      BY <1>2
    <3>3. ASSUME NEW g \in B(r) PROVE \E e \in A(r) : p[e] = g
      <4>1. CASE g = x
        <5>1. y \in A(r) /\ p[y] = x
          BY <1>2, <1>3, <1>4, <4>1
        <5> QED BY <4>1, <5>1
      <4>2. CASE g = y
        <5>1. x \in A(r) /\ p[x] = y
          BY <1>2, <1>3, <1>4, <4>2
        <5> QED BY <4>2, <5>1
      <4>3. CASE g # x /\ g # y
        <5>1. g \in A(r) /\ p[g] = g
          BY <1>4, <4>3
        <5> QED BY <5>1
      <4> QED BY <4>1, <4>2, <4>3
    <3>4. p \in [A(r) -> B(r)]
      <4>1. p = [e \in A(r) |-> p[e]]
        OBVIOUS
      <4> HIDE DEF p, A, B
      <4> QED BY <3>1, <4>1
    <3> HIDE DEF p, A, B
    <3> QED BY <3>2, <3>3, <3>4 DEF Bijection, Injection, Surjection, IsInjective
  <2>4. IsFiniteSet(A(r))
    <3>1. IsFiniteSet(1..n) /\ A(r) \subseteq 1..n
      BY <1>1, FS_Interval
    <3> QED BY <3>1, FS_Subset
  <2>5. Cardinality(B(r)) = Cardinality(A(r))
    <3> HIDE DEF A, B, p
    <3>1. ExistsBijection(A(r), B(r))
      BY <2>3 DEF ExistsBijection
    <3> QED BY <2>4, <3>1, FS_Bijection
  <2> QED BY <2>1, <2>2, <2>5
<1> QED BY <1>5, <1>6, <1>7, <1>8

\* TratoJusto, for any number of trainers.
THEOREM TratoJustoSiempre == (Spec /\ RondasDeUno) => TratoJusto
<1> DEFINE Justo == ~segfault' => /\ Faltan(pokemones') < Faltan(pokemones)
                                  /\ \A n \in Especies : CantidadDe(n, pokemones') = CantidadDe(n, pokemones)
<1>1. RondasDeUno /\ Init => EnRonda
  BY DEF RondasDeUno, Init, EnRonda
<1>2. EnRonda /\ [Next]_vars => EnRonda'
  BY EnRondaPaso
<1>3. EnRonda /\ [Next]_vars => [Justo]_vars
  <2> SUFFICES ASSUME EnRonda, Resolver PROVE Justo
    BY DEF Next
  <2>1. PICK n, t, q, x, y : Trato(n, t, q, x, y)
    BY ResolverEs
  <2> QED BY <2>1, TratoCuenta
<1> QED BY <1>1, <1>2, <1>3, PTL DEF Spec, TratoJusto
=============================================================================
