------------------------------- MODULE Lemas -------------------------------
(***************************************************************************)
(* Facts about numbers and sequences that several proofs use.              *)
(***************************************************************************)
EXTENDS Integers, SequencesExt, SequenceTheorems, FiniteSetTheorems, WellFoundedInduction,
        TLAPS

\* Induction, for a set: what holds of 0 and is inherited by the successor
\* holds of every natural number.
LEMMA InduccionNat ==
  ASSUME NEW S \in SUBSET Nat, 0 \in S, \A n \in S : n + 1 \in S
  PROVE  S = Nat
<1> SUFFICES ASSUME Nat \ S # {} PROVE FALSE
  OBVIOUS
<1>1. PICK x \in Nat \ S : \A y \in Nat \ S : ~(<<y, x>> \in OpToRel(<, Nat))
  <2>1. Nat \ S \subseteq Nat
    OBVIOUS
  <2> HIDE DEF OpToRel
  <2> QED BY <2>1, NatLessThanWellFounded, WFMin
<1>2. \A y \in Nat \ S : ~(y < x)
  BY <1>1 DEF OpToRel
<1>3. x # 0
  OBVIOUS
<1>4. x - 1 \in Nat /\ x - 1 < x
  BY <1>3
<1> QED BY <1>2, <1>4

\* Every set of natural numbers that is not empty has a minimum.
LEMMA MinDeNaturales ==
  ASSUME NEW S \in SUBSET Nat, S # {}
  PROVE  Min(S) \in S /\ \A y \in S : Min(S) <= y
<1>1. PICK x \in S : \A y \in S : ~(<<y, x>> \in OpToRel(<, Nat))
  <2>1. S \subseteq Nat
    OBVIOUS
  <2> HIDE DEF OpToRel
  <2> QED BY <2>1, NatLessThanWellFounded, WFMin
<1>2. \A y \in S : y \in Nat /\ ~(y < x)
  BY <1>1 DEF OpToRel
<1>3. x \in S /\ \A y \in S : x <= y
  BY <1>2
<1> QED BY <1>3 DEF Min

-----------------------------------------------------------------------------
(* Sequences, point by point *)

\* Concatenation, with the elements of each side at their new places.
LEMMA ConcatPuntual ==
  ASSUME NEW S, NEW a \in Seq(S), NEW b \in Seq(S)
  PROVE  /\ a \o b \in Seq(S) /\ Len(a \o b) = Len(a) + Len(b)
         /\ \A k \in 1..Len(a) : (a \o b)[k] = a[k]
         /\ \A k \in 1..Len(b) : (a \o b)[Len(a) + k] = b[k]
<1>1. /\ a \o b \in Seq(S) /\ Len(a \o b) = Len(a) + Len(b)
      /\ \A k \in 1..(Len(a) + Len(b)) :
           (a \o b)[k] = IF k <= Len(a) THEN a[k] ELSE b[k - Len(a)]
  BY ConcatProperties
<1>2. Len(a) \in Nat /\ Len(b) \in Nat
  BY LenProperties
<1>3. ASSUME NEW k \in 1..Len(a) PROVE (a \o b)[k] = a[k]
  BY <1>1, <1>2
<1>4. ASSUME NEW k \in 1..Len(b) PROVE (a \o b)[Len(a) + k] = b[k]
  <2>1. Len(a) + k \in 1..(Len(a) + Len(b)) /\ ~(Len(a) + k <= Len(a))
        /\ (Len(a) + k) - Len(a) = k
    BY <1>2
  <2> QED BY <1>1, <2>1
<1> QED BY <1>1, <1>3, <1>4

\* What comes before place i, and what comes after it.
LEMMA PartesPuntual ==
  ASSUME NEW S, NEW s \in Seq(S), NEW i \in 1..Len(s)
  PROVE  /\ SubSeq(s, 1, i - 1) \in Seq(S) /\ Len(SubSeq(s, 1, i - 1)) = i - 1
         /\ \A k \in 1..(i - 1) : SubSeq(s, 1, i - 1)[k] = s[k]
         /\ SubSeq(s, i + 1, Len(s)) \in Seq(S) /\ Len(SubSeq(s, i + 1, Len(s))) = Len(s) - i
         /\ \A k \in 1..(Len(s) - i) : SubSeq(s, i + 1, Len(s))[k] = s[i + k]
<1>1. \A k \in 1..(i - 1) : k \in 1..Len(s) /\ s[k] \in S
  BY LenProperties
<1>2. \A k \in (i + 1)..Len(s) : k \in 1..Len(s) /\ s[k] \in S
  BY LenProperties
<1>3. /\ SubSeq(s, 1, i - 1) \in Seq(S) /\ Len(SubSeq(s, 1, i - 1)) = i - 1
      /\ \A k \in 1..(i - 1) : SubSeq(s, 1, i - 1)[k] = s[k]
  BY <1>1, SubSeqProperties
<1>4. /\ SubSeq(s, i + 1, Len(s)) \in Seq(S) /\ Len(SubSeq(s, i + 1, Len(s))) = Len(s) - i
      /\ \A k \in 1..(Len(s) - i) : SubSeq(s, i + 1, Len(s))[k] = s[i + k]
  BY <1>2, SubSeqProperties, LenProperties
<1> QED BY <1>3, <1>4

\* s without its element i.
LEMMA RemoveAtPuntual ==
  ASSUME NEW S, NEW s \in Seq(S), NEW i \in 1..Len(s)
  PROVE  /\ RemoveAt(s, i) \in Seq(S)
         /\ Len(RemoveAt(s, i)) = Len(s) - 1
         /\ \A k \in 1..(i - 1) : RemoveAt(s, i)[k] = s[k]
         /\ \A k \in i..(Len(s) - 1) : RemoveAt(s, i)[k] = s[k+1]
<1> DEFINE a == SubSeq(s, 1, i - 1)
           b == SubSeq(s, i + 1, Len(s))
<1>1. /\ a \in Seq(S) /\ Len(a) = i - 1 /\ \A k \in 1..(i - 1) : a[k] = s[k]
      /\ b \in Seq(S) /\ Len(b) = Len(s) - i /\ \A k \in 1..(Len(s) - i) : b[k] = s[i + k]
  BY PartesPuntual
<1>2. RemoveAt(s, i) = a \o b
  BY DEF RemoveAt
<1>0. a \in Seq(S) /\ b \in Seq(S)
  BY <1>1
<1> HIDE DEF a, b
<1>3. /\ a \o b \in Seq(S) /\ Len(a \o b) = Len(a) + Len(b)
      /\ \A k \in 1..Len(a) : (a \o b)[k] = a[k]
      /\ \A k \in 1..Len(b) : (a \o b)[Len(a) + k] = b[k]
  BY <1>0, ConcatPuntual
<1>4. Len(s) \in Nat
  BY LenProperties
<1>5. ASSUME NEW k \in i..(Len(s) - 1) PROVE (a \o b)[k] = s[k+1]
  <2>1. /\ k - (i - 1) \in 1..(Len(s) - i)
        /\ (i - 1) + (k - (i - 1)) = k /\ i + (k - (i - 1)) = k + 1
    BY <1>4
  <2>2. (a \o b)[(i - 1) + (k - (i - 1))] = b[k - (i - 1)]
    BY <1>1, <1>3, <2>1
  <2>3. b[k - (i - 1)] = s[i + (k - (i - 1))]
    BY <1>1, <2>1
  <2> QED BY <2>1, <2>2, <2>3
<1> QED BY <1>1, <1>2, <1>3, <1>4, <1>5

\* u is s with m in the place of its element i.
Puesto(S, u, s, i, m) ==
  /\ u \in Seq(S) /\ Len(u) = (Len(s) - 1) + Len(m)
  /\ \A k \in 1..(i - 1) : u[k] = s[k]
  /\ \A k \in 1..Len(m) : u[(i - 1) + k] = m[k]
  /\ \A k \in (i + 1)..Len(s) : u[(k - 1) + Len(m)] = s[k]

LEMMA EnLugarDePuntual ==
  ASSUME NEW S, NEW s \in Seq(S), NEW i \in 1..Len(s), NEW m \in Seq(S)
  PROVE  Puesto(S, (SubSeq(s, 1, i - 1) \o m) \o SubSeq(s, i + 1, Len(s)), s, i, m)
<1> DEFINE a == SubSeq(s, 1, i - 1)
           b == SubSeq(s, i + 1, Len(s))
<1>1. /\ a \in Seq(S) /\ Len(a) = i - 1 /\ \A k \in 1..(i - 1) : a[k] = s[k]
      /\ b \in Seq(S) /\ Len(b) = Len(s) - i /\ \A k \in 1..(Len(s) - i) : b[k] = s[i + k]
  BY PartesPuntual
<1>0. a \in Seq(S) /\ b \in Seq(S)
  BY <1>1
<1> HIDE DEF a, b
<1>2. /\ a \o m \in Seq(S) /\ Len(a \o m) = Len(a) + Len(m)
      /\ \A k \in 1..Len(a) : (a \o m)[k] = a[k]
      /\ \A k \in 1..Len(m) : (a \o m)[Len(a) + k] = m[k]
  BY <1>0, ConcatPuntual
<1> DEFINE c == a \o m
<1> HIDE DEF c
<1>3. c \in Seq(S) /\ Len(c) = (i - 1) + Len(m)
  BY <1>1, <1>2 DEF c
<1>10. c \in Seq(S)
  BY <1>3
<1>4. /\ c \o b \in Seq(S) /\ Len(c \o b) = Len(c) + Len(b)
      /\ \A k \in 1..Len(c) : (c \o b)[k] = c[k]
      /\ \A k \in 1..Len(b) : (c \o b)[Len(c) + k] = b[k]
  BY <1>0, <1>10, ConcatPuntual
<1>5. Len(s) \in Nat /\ Len(m) \in Nat
  BY LenProperties
<1>6. ASSUME NEW k \in 1..(i - 1) PROVE (c \o b)[k] = s[k]
  <2>1. k \in 1..Len(a) /\ k \in 1..Len(c)
    BY <1>1, <1>3, <1>5
  <2>2. c[k] = s[k]
    BY <1>1, <1>2, <2>1 DEF c
  <2> QED BY <1>4, <2>1, <2>2
<1>7. ASSUME NEW k \in 1..Len(m) PROVE (c \o b)[(i - 1) + k] = m[k]
  <2>1. (i - 1) + k \in 1..Len(c)
    BY <1>3, <1>5
  <2>2. c[(i - 1) + k] = m[k]
    BY <1>1, <1>2 DEF c
  <2> QED BY <1>4, <2>1, <2>2
<1>8. ASSUME NEW k \in (i + 1)..Len(s) PROVE (c \o b)[(k - 1) + Len(m)] = s[k]
  <2>1. /\ k - i \in 1..(Len(s) - i) /\ i + (k - i) = k
        /\ ((i - 1) + Len(m)) + (k - i) = (k - 1) + Len(m)
    BY <1>5
  <2>2. (c \o b)[Len(c) + (k - i)] = b[k - i] /\ b[k - i] = s[k]
    BY <1>1, <1>4, <2>1
  <2> QED BY <1>3, <2>1, <2>2
<1>9. Len(c \o b) = (Len(s) - 1) + Len(m)
  BY <1>1, <1>3, <1>4, <1>5
<1>11. Puesto(S, c \o b, s, i, m)
  BY <1>4, <1>6, <1>7, <1>8, <1>9 DEF Puesto
<1> QED BY <1>11 DEF a, b, c

-----------------------------------------------------------------------------
(* Queues: sequences that hold an element once *)

SinRepetidos(s) == \A i, j \in DOMAIN s : s[i] = s[j] => i = j

\* a is somewhere before b.
Antes(s, a, b) == \E i, j \in DOMAIN s : i < j /\ s[i] = a /\ s[j] = b

\* An element leaves the queue: the others keep their order.
LEMMA SalirDeLaCola ==
  ASSUME NEW S, NEW s \in Seq(S), NEW i \in 1..Len(s), SinRepetidos(s)
  PROVE  LET r == RemoveAt(s, i)
         IN  /\ r \in Seq(S) /\ Len(r) = Len(s) - 1
             /\ ToSet(r) = ToSet(s) \ {s[i]}
             /\ SinRepetidos(r)
             /\ \A a, b : Antes(r, a, b) => Antes(s, a, b)
<1> DEFINE r == RemoveAt(s, i)
           g(k) == IF k < i THEN k ELSE k + 1
<1>1. /\ r \in Seq(S) /\ Len(r) = Len(s) - 1
      /\ \A k \in 1..(i - 1) : r[k] = s[k]
      /\ \A k \in i..(Len(s) - 1) : r[k] = s[k+1]
  BY RemoveAtPuntual
<1> HIDE DEF r
<1>2. Len(s) \in Nat /\ i \in 1..Len(s)
  BY LenProperties
<1>3. DOMAIN s = 1..Len(s) /\ DOMAIN r = 1..(Len(s) - 1)
  BY <1>1, LenProperties
<1>4. \A k \in 1..(Len(s) - 1) : g(k) \in 1..Len(s) /\ g(k) # i
  BY <1>2
<1>5. ASSUME NEW k \in 1..(Len(s) - 1) PROVE r[k] = s[g(k)]
  <2>1. k \in 1..(i - 1) \/ k \in i..(Len(s) - 1)
    BY <1>2
  <2>2. CASE k \in 1..(i - 1)
    <3>1. k < i
      BY <1>2, <2>2
    <3> QED BY <1>1, <2>2, <3>1
  <2>3. CASE k \in i..(Len(s) - 1)
    <3>1. ~(k < i)
      BY <1>2, <2>3
    <3> QED BY <1>1, <2>3, <3>1
  <2> QED BY <2>1, <2>2, <2>3
<1>6. \A j, k \in 1..(Len(s) - 1) : /\ j < k => g(j) < g(k)
                                    /\ g(j) = g(k) => j = k
  BY <1>2
<1>7. ASSUME NEW k \in 1..Len(s), k # i PROVE \E j \in 1..(Len(s) - 1) : g(j) = k
  <2>1. CASE k < i
    <3>1. k \in 1..(Len(s) - 1) /\ g(k) = k
      BY <1>2, <2>1
    <3> QED BY <3>1
  <2>2. CASE k > i
    <3>1. k - 1 \in 1..(Len(s) - 1) /\ g(k - 1) = k
      BY <1>2, <2>2
    <3> QED BY <3>1
  <2> QED BY <1>2, <1>7, <2>1, <2>2
<1> HIDE DEF g
<1>8. ToSet(r) = ToSet(s) \ {s[i]}
  <2>1. ASSUME NEW x \in ToSet(r) PROVE x \in ToSet(s) /\ x # s[i]
    <3>1. PICK k \in 1..(Len(s) - 1) : x = r[k]
      BY <1>3 DEF ToSet
    <3>2. x = s[g(k)] /\ g(k) \in DOMAIN s /\ g(k) # i /\ i \in DOMAIN s
      BY <1>2, <1>3, <1>4, <1>5, <3>1
    <3> QED BY <3>2 DEF ToSet, SinRepetidos
  <2>2. ASSUME NEW x \in ToSet(s), x # s[i] PROVE x \in ToSet(r)
    <3>1. PICK k \in 1..Len(s) : x = s[k]
      BY <1>3 DEF ToSet
    <3>2. PICK j \in 1..(Len(s) - 1) : g(j) = k
      BY <1>7, <2>2, <3>1
    <3> QED BY <1>3, <1>5, <3>1, <3>2 DEF ToSet
  <2> QED BY <2>1, <2>2
<1>9. SinRepetidos(r)
  <2> SUFFICES ASSUME NEW j \in 1..(Len(s) - 1), NEW k \in 1..(Len(s) - 1), r[j] = r[k]
               PROVE  j = k
    BY <1>3 DEF SinRepetidos
  <2>1. s[g(j)] = s[g(k)] /\ g(j) \in DOMAIN s /\ g(k) \in DOMAIN s
    BY <1>3, <1>4, <1>5
  <2> QED BY <1>6, <2>1 DEF SinRepetidos
<1>10. ASSUME NEW a, NEW b, Antes(r, a, b) PROVE Antes(s, a, b)
  <2>1. PICK j \in 1..(Len(s) - 1), k \in 1..(Len(s) - 1) : j < k /\ r[j] = a /\ r[k] = b
    BY <1>3, <1>10 DEF Antes
  <2>2. g(j) < g(k) /\ s[g(j)] = a /\ s[g(k)] = b /\ g(j) \in DOMAIN s /\ g(k) \in DOMAIN s
    BY <1>3, <1>4, <1>5, <1>6, <2>1
  <2> QED BY <2>2 DEF Antes
<1> QED BY <1>1, <1>8, <1>9, <1>10 DEF r

\* A new element comes to the end of the queue.
LEMMA EntrarALaCola ==
  ASSUME NEW S, NEW s \in Seq(S), NEW m \in S, SinRepetidos(s), m \notin ToSet(s)
  PROVE  LET r == Append(s, m)
         IN  /\ r \in Seq(S) /\ Len(r) = Len(s) + 1
             /\ ToSet(r) = ToSet(s) \cup {m}
             /\ SinRepetidos(r)
             /\ \A a, b : Antes(r, a, b) => Antes(s, a, b) \/ (a \in ToSet(s) /\ b = m)
<1> DEFINE r == Append(s, m)
<1>1. /\ r \in Seq(S) /\ Len(r) = Len(s) + 1
      /\ \A k \in 1..Len(s) : r[k] = s[k]
      /\ r[Len(s) + 1] = m
  BY AppendProperties
<1> HIDE DEF r
<1>2. Len(s) \in Nat
  BY LenProperties
<1>3. DOMAIN s = 1..Len(s) /\ DOMAIN r = 1..(Len(s) + 1)
  BY <1>1, LenProperties
<1>4. \A k \in 1..(Len(s) + 1) : k \in 1..Len(s) \/ k = Len(s) + 1
  BY <1>2
<1>5. \A k \in 1..Len(s) : k \in 1..(Len(s) + 1) /\ k # Len(s) + 1
  BY <1>2
<1>6. Len(s) + 1 \in 1..(Len(s) + 1)
  BY <1>2
<1>7. \A k \in 1..Len(s) : s[k] # m
  BY <1>3 DEF ToSet
<1>8. ToSet(r) = ToSet(s) \cup {m}
  <2>1. \A x \in ToSet(r) : x \in ToSet(s) \cup {m}
    BY <1>1, <1>3, <1>4 DEF ToSet
  <2>2. \A x \in ToSet(s) \cup {m} : x \in ToSet(r)
    BY <1>1, <1>3, <1>5, <1>6 DEF ToSet
  <2> QED BY <2>1, <2>2
<1>9. SinRepetidos(r)
  <2> SUFFICES ASSUME NEW j \in 1..(Len(s) + 1), NEW k \in 1..(Len(s) + 1), r[j] = r[k]
               PROVE  j = k
    BY <1>3 DEF SinRepetidos
  <2>1. CASE j \in 1..Len(s) /\ k \in 1..Len(s)
    BY <1>1, <1>3, <2>1 DEF SinRepetidos
  <2> QED BY <1>1, <1>4, <1>7, <2>1
<1>10. ASSUME NEW a, NEW b, Antes(r, a, b) PROVE Antes(s, a, b) \/ (a \in ToSet(s) /\ b = m)
  <2>1. PICK j \in 1..(Len(s) + 1), k \in 1..(Len(s) + 1) : j < k /\ r[j] = a /\ r[k] = b
    BY <1>3, <1>10 DEF Antes
  <2>2. j \in 1..Len(s)
    BY <1>2, <2>1
  <2>3. s[j] = a /\ a \in ToSet(s)
    BY <1>1, <1>3, <2>1, <2>2 DEF ToSet
  <2>4. CASE k = Len(s) + 1
    BY <1>1, <2>1, <2>3, <2>4
  <2>5. CASE k \in 1..Len(s)
    BY <1>1, <1>3, <2>1, <2>2, <2>3, <2>5 DEF Antes
  <2> QED BY <1>4, <2>4, <2>5
<1> QED BY <1>1, <1>8, <1>9, <1>10 DEF r

\* Every element but the first is behind the first.
LEMMA DetrasDelPrimero ==
  ASSUME NEW S, NEW s \in Seq(S), NEW m \in ToSet(s), m # Head(s)
  PROVE  Antes(s, Head(s), m)
<1>1. Len(s) \in Nat /\ DOMAIN s = 1..Len(s)
  BY LenProperties
<1>2. PICK k \in 1..Len(s) : s[k] = m
  BY <1>1 DEF ToSet
<1>3. Head(s) = s[1]
  BY <1>2, HeadTailProperties
<1>4. 1 \in 1..Len(s) /\ 1 < k
  <2>1. k # 1
    BY <1>2, <1>3
  <2> QED BY <1>1, <2>1
<1> QED BY <1>1, <1>2, <1>3, <1>4 DEF Antes

\* If each of the first m numbers has a number of its own among the first n,
\* m is not more than n.
LEMMA Palomar ==
  ASSUME NEW m \in Nat, NEW n \in Nat, NEW f \in [1..m -> 1..n],
         \A i, j \in 1..m : f[i] = f[j] => i = j
  PROVE  m <= n
<1>1. f \in Injection(1..m, 1..n)
  BY DEF Injection, IsInjective
<1>2. IsFiniteSet(1..n) /\ Cardinality(1..n) = n /\ Cardinality(1..m) = m
  BY FS_Interval
<1>3. Cardinality(1..m) <= Cardinality(1..n)
  BY <1>1, <1>2, FS_Injection
<1> QED BY <1>2, <1>3

\* r has the elements of s but s[i]: g says where each of them is in s.
VieneDe(r, s, i, g) ==
  /\ g \in [1..(Len(s) - 1) -> 1..Len(s)]
  /\ \A k \in 1..(Len(s) - 1) : r[k] = s[g[k]] /\ g[k] # i
  /\ \A j, k \in 1..(Len(s) - 1) : g[j] = g[k] => j = k
  /\ \A k \in 1..Len(s) : k # i => \E j \in 1..(Len(s) - 1) : g[j] = k

LEMMA RemoveAtPorLugares ==
  ASSUME NEW S, NEW s \in Seq(S), NEW i \in 1..Len(s)
  PROVE  \E g : VieneDe(RemoveAt(s, i), s, i, g)
<1> DEFINE r == RemoveAt(s, i)
           g == [k \in 1..(Len(s) - 1) |-> IF k < i THEN k ELSE k + 1]
<1>1. /\ \A k \in 1..(i - 1) : r[k] = s[k]
      /\ \A k \in i..(Len(s) - 1) : r[k] = s[k+1]
  BY RemoveAtPuntual
<1> HIDE DEF r
<1>2. Len(s) \in Nat /\ i \in 1..Len(s)
  BY LenProperties
<1>3. ASSUME NEW k \in 1..(Len(s) - 1)
      PROVE  /\ k < i => g[k] = k
             /\ ~(k < i) => g[k] = k + 1
             /\ g[k] \in 1..Len(s) /\ g[k] # i
  BY <1>2
<1>4. ASSUME NEW k \in 1..(Len(s) - 1) PROVE r[k] = s[g[k]]
  <2>1. CASE k < i
    <3>1. k \in 1..(i - 1)
      BY <1>2, <2>1
    <3> QED BY <1>1, <1>3, <2>1, <3>1
  <2>2. CASE ~(k < i)
    <3>1. k \in i..(Len(s) - 1)
      BY <1>2, <2>2
    <3> QED BY <1>1, <1>3, <2>2, <3>1
  <2> QED BY <2>1, <2>2
<1>5. ASSUME NEW j \in 1..(Len(s) - 1), NEW k \in 1..(Len(s) - 1), g[j] = g[k] PROVE j = k
  BY <1>2, <1>5
<1>6. ASSUME NEW k \in 1..Len(s), k # i PROVE \E j \in 1..(Len(s) - 1) : g[j] = k
  <2>1. CASE k < i
    <3>1. k \in 1..(Len(s) - 1)
      BY <1>2, <2>1
    <3> QED BY <1>3, <2>1, <3>1
  <2>2. CASE k > i
    <3>1. k - 1 \in 1..(Len(s) - 1) /\ ~(k - 1 < i) /\ (k - 1) + 1 = k
      BY <1>2, <2>2
    <3> QED BY <1>3, <3>1
  <2> QED BY <1>2, <1>6, <2>1, <2>2
<1>7. g \in [1..(Len(s) - 1) -> 1..Len(s)]
  BY <1>3
<1> HIDE DEF g
<1>8. VieneDe(r, s, i, g)
  BY <1>3, <1>4, <1>5, <1>6, <1>7 DEF VieneDe
<1> QED BY <1>8 DEF r

\* A queue is not longer than another that has its elements.
LEMMA NoMasLarga ==
  ASSUME NEW S, NEW c \in Seq(S), NEW d \in Seq(S), SinRepetidos(c), ToSet(c) \subseteq ToSet(d)
  PROVE  Len(c) <= Len(d)
<1> DEFINE f == [i \in 1..Len(c) |-> CHOOSE j \in 1..Len(d) : d[j] = c[i]]
<1>1. /\ DOMAIN c = 1..Len(c) /\ DOMAIN d = 1..Len(d)
      /\ Len(c) \in Nat /\ Len(d) \in Nat
  BY LenProperties
<1>2. ASSUME NEW i \in 1..Len(c) PROVE f[i] \in 1..Len(d) /\ d[f[i]] = c[i]
  <2>1. \E j \in 1..Len(d) : d[j] = c[i]
    BY <1>1 DEF ToSet
  <2> QED BY <2>1
<1>3. f \in [1..Len(c) -> 1..Len(d)]
  BY <1>2
<1> HIDE DEF f
<1>4. \A i, j \in 1..Len(c) : f[i] = f[j] => i = j
  BY <1>1, <1>2 DEF SinRepetidos
<1> QED BY <1>1, <1>3, <1>4, Palomar

\* Two queues with the same elements, never in opposite orders, are one.
LEMMA MismoOrden ==
  ASSUME NEW S, NEW c \in Seq(S), NEW d \in Seq(S), SinRepetidos(c), SinRepetidos(d),
         ToSet(c) = ToSet(d), \A a, b : Antes(c, a, b) => ~Antes(d, b, a)
  PROVE  c = d
<1> DEFINE n == Len(c)
           I == {k \in Nat : k <= n => \A j \in 1..k : c[j] = d[j]}
<1>1. Len(c) = Len(d) /\ Len(c) \in Nat
  <2>1. Len(c) <= Len(d) /\ Len(d) <= Len(c)
    BY NoMasLarga
  <2> QED BY <2>1, LenProperties
<1>2. DOMAIN c = 1..n /\ DOMAIN d = 1..n /\ n \in Nat
  BY <1>1, LenProperties
<1> HIDE DEF n
<1>3. ASSUME NEW k \in I, k + 1 <= n PROVE c[k+1] = d[k+1]
  <2>1. /\ k \in Nat /\ k + 1 \in 1..n
        /\ \A j \in 1..k : c[j] = d[j]
        /\ \A j \in 1..n : j \in 1..k \/ j = k + 1 \/ k + 1 < j
        /\ \A j \in 1..k : j \in 1..n /\ j # k + 1
    BY <1>2, <1>3
  <2> HIDE DEF I
  <2>2. PICK j \in 1..n : d[j] = c[k+1]
    BY <1>2, <2>1 DEF ToSet
  <2>3. PICK i \in 1..n : c[i] = d[k+1]
    BY <1>2, <2>1 DEF ToSet
  <2>4. j \notin 1..k
    BY <1>2, <2>1, <2>2 DEF SinRepetidos
  <2>5. i \notin 1..k
    BY <1>2, <2>1, <2>3 DEF SinRepetidos
  <2>6. ~(k + 1 < j /\ k + 1 < i)
    <3> SUFFICES ASSUME k + 1 < j, k + 1 < i PROVE FALSE
      OBVIOUS
    <3>1. Antes(d, d[k+1], c[k+1])
      BY <1>2, <2>1, <2>2 DEF Antes
    <3>2. Antes(c, c[k+1], d[k+1])
      BY <1>2, <2>1, <2>3 DEF Antes
    <3> QED BY <3>1, <3>2
  <2> QED BY <2>1, <2>2, <2>3, <2>4, <2>5, <2>6
<1>4. 0 \in I
  OBVIOUS
<1>5. ASSUME NEW k \in I PROVE k + 1 \in I
  <2>1. k \in Nat /\ k + 1 \in Nat
    OBVIOUS
  <2> SUFFICES ASSUME k + 1 <= n, NEW j \in 1..(k + 1) PROVE c[j] = d[j]
    BY <2>1
  <2>2. c[k+1] = d[k+1]
    BY <1>3
  <2>3. \A x \in 1..k : c[x] = d[x]
    BY <1>2, <2>1
  <2>4. j \in 1..k \/ j = k + 1
    BY <2>1
  <2> QED BY <2>2, <2>3, <2>4
<1>6. I = Nat
  <2>1. I \in SUBSET Nat
    OBVIOUS
  <2> HIDE DEF I
  <2> QED BY <1>4, <1>5, <2>1, InduccionNat
<1>7. \A k \in 1..n : c[k] = d[k]
  <2>1. n \in I
    BY <1>2, <1>6
  <2> QED BY <1>2, <2>1
<1> QED BY <1>1, <1>7, SeqEqual DEF n
=============================================================================
