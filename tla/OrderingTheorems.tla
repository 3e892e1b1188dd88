-------------------------- MODULE OrderingTheorems --------------------------
(***************************************************************************)
(* Facts about sorted sequences, about minima and maxima of naturals, and  *)
(* induction in the form of sets.  Orders are sets of pairs here, as the   *)
(* provers do not instantiate operators; a user gives the set of pairs his *)
(* operator describes.                                                     *)
(***************************************************************************)
EXTENDS Ordering, FiniteSetTheorems, WellFoundedInduction, TLAPS

-----------------------------------------------------------------------------
(* Induction.                                                              *)

LEMMA LeastExists ==
    ASSUME NEW T, T \subseteq Nat, T # {}
    PROVE  \E n \in T : \A m \in T : n <= m
  <1>1. IsWellFoundedOn(OpToRel(<, Nat), Nat)
    BY NatLessThanWellFounded
  <1>2. \E x \in T : \A y \in T : ~ (<<y, x>> \in OpToRel(<, Nat))
    BY <1>1, WFMin
  <1>3. \A x, y \in Nat : x < y => <<x, y>> \in OpToRel(<, Nat)
    BY Zenon DEF OpToRel
  <1>4. \E n \in T : \A m \in T : ~ (m < n)
    BY <1>2, <1>3
  <1> QED  BY <1>4

LEMMA UpTo ==
    ASSUME NEW N \in Nat, NEW G, 0 \in G, \A n \in 0 .. (N - 1) : n \in G => n + 1 \in G
    PROVE  \A n \in 0 .. N : n \in G
  <1> DEFINE T == {n \in 0 .. N : n \notin G}
  <1> SUFFICES ASSUME T # {} PROVE FALSE
    OBVIOUS
  <1>1. PICK n \in T : \A m \in T : n <= m
    <2>1. T \subseteq Nat
      OBVIOUS
    <2> HIDE DEF T
    <2> QED  BY <2>1, LeastExists
  <1>2. n \in 0 .. N /\ n \notin G /\ n # 0
    BY <1>1
  <1>3. n - 1 \in 0 .. (N - 1) /\ n - 1 \in 0 .. N /\ ~ (n <= n - 1)
    BY <1>2
  <1>4. n - 1 \notin T
    BY <1>1, <1>3
  <1>5. n - 1 \in G
    BY <1>3, <1>4
  <1>6. n - 1 + 1 \in G /\ n - 1 + 1 = n
    BY <1>2, <1>3, <1>5
  <1> QED  BY <1>2, <1>6

LEMMA GreatestExists ==
    ASSUME NEW N \in Nat, NEW T, T \subseteq 0 .. N, T # {}
    PROVE  \E n \in T : \A m \in T : m <= n
  <1> DEFINE B == {k \in Nat : \A m \in T : m <= k}
  <1>1. N \in B
    OBVIOUS
  <1>2. PICK k \in B : \A j \in B : k <= j
    BY <1>1, LeastExists
  <1>3. CASE k \in T
    BY <1>2, <1>3
  <1>4. CASE k \notin T
    <2>1. \A m \in T : m <= k - 1
      BY <1>2, <1>4
    <2>2. k - 1 \in Nat
      <3>1. PICK m \in T : TRUE
        OBVIOUS
      <3>2. m \in Nat /\ m <= k - 1 /\ k \in Nat
        BY <1>2, <2>1
      <3> QED  BY <3>2
    <2>3. k - 1 \in B /\ k \in Nat
      BY <1>2, <2>1, <2>2
    <2>4. k <= k - 1
      BY <1>2, <2>3
    <2> QED  BY <2>3, <2>4
  <1> QED  BY <1>3, <1>4

(* A recursion over 0 .. N with values in a set V: from `a`, step n goes   *)
(* by g[n].  It has a solution.                                            *)
Steps(g, a, N, V) == N \in Nat /\ a \in V /\ g \in [1 .. N -> [V -> V]]
Solves(f, g, a, N, V) ==
    /\ f \in [0 .. N -> V] /\ f[0] = a
    /\ \A n \in 1 .. N : f[n] = g[n][f[n - 1]]

LEMMA Recursion ==
    ASSUME NEW g, NEW a, NEW N, NEW V, Steps(g, a, N, V)
    PROVE  \E f : Solves(f, g, a, N, V)
  <1> DEFINE G == {k \in 0 .. N : \E f : Solves(f, g, a, k, V)}
  <1>0. N \in Nat /\ a \in V /\ g \in [1 .. N -> [V -> V]]
    BY DEF Steps
  <1>1. 0 \in G
    <2> DEFINE f == [n \in 0 .. 0 |-> a]
    <2>1. f \in [0 .. 0 -> V] /\ f[0] = a /\ 1 .. 0 = {}
      BY <1>0
    <2>2. Solves(f, g, a, 0, V)
      BY <2>1 DEF Solves
    <2> HIDE DEF f
    <2> QED  BY <1>0, <2>2
  <1>2. ASSUME NEW k \in 0 .. (N - 1), k \in G PROVE k + 1 \in G
    <2>1. PICK f : Solves(f, g, a, k, V)
      BY <1>2
    <2>2. /\ f \in [0 .. k -> V] /\ f[0] = a
          /\ \A n \in 1 .. k : f[n] = g[n][f[n - 1]]
      BY <2>1 DEF Solves
    <2> DEFINE h == [n \in 0 .. (k + 1) |-> IF n = k + 1 THEN g[n][f[n - 1]] ELSE f[n]]
    <2>3. h \in [0 .. (k + 1) -> V]
      <3>1. f[k] \in V /\ k + 1 \in 1 .. N
        BY <1>0, <2>2
      <3>2. g[k + 1][f[k]] \in V
        BY <1>0, <3>1
      <3>3. ASSUME NEW n \in 0 .. (k + 1) PROVE h[n] \in V
        <4>1. CASE n = k + 1
          <5>1. h[n] = g[k + 1][f[k]]
            BY <4>1
          <5> QED  BY <3>2, <5>1
        <4>2. CASE n # k + 1
          <5>1. n \in 0 .. k /\ h[n] = f[n]
            BY <4>2
          <5> QED  BY <2>2, <5>1
        <4> QED  BY <4>1, <4>2
      <3> QED  BY <3>3
    <2>4. h[0] = a /\ \A n \in 0 .. k : h[n] = f[n]
      BY <2>2
    <2>5. ASSUME NEW n \in 1 .. (k + 1) PROVE h[n] = g[n][h[n - 1]]
      <3>1. n - 1 \in 0 .. k /\ h[n - 1] = f[n - 1]
        BY <2>4
      <3>2. CASE n = k + 1
        <4>1. h[n] = g[n][f[n - 1]]
          BY <3>2
        <4> QED  BY <3>1, <4>1
      <3>3. CASE n # k + 1
        <4>1. n \in 1 .. k /\ h[n] = f[n]
          BY <3>3
        <4> QED  BY <2>2, <3>1, <4>1
      <3> QED  BY <3>2, <3>3
    <2> HIDE DEF h
    <2>6. Solves(h, g, a, k + 1, V)
      BY <2>3, <2>4, <2>5 DEF Solves
    <2>7. k + 1 \in 0 .. N
      BY <1>0
    <2> QED  BY <2>6, <2>7
  <1> HIDE DEF G
  <1>3. \A k \in 0 .. (N - 1) : k \in G => k + 1 \in G
    BY <1>2
  <1>4. \A k \in 0 .. N : k \in G
    BY <1>0, <1>1, <1>3, UpTo
  <1>5. N \in G
    BY <1>0, <1>4
  <1> QED  BY <1>5 DEF G

-----------------------------------------------------------------------------
(* Orders and ranks.                                                       *)

Orders(R, S) ==
    /\ \A x \in S : <<x, x>> \notin R
    /\ \A x, y, z \in S : <<x, y>> \in R /\ <<y, z>> \in R => <<x, z>> \in R
    /\ \A x, y \in S : x = y \/ <<x, y>> \in R \/ <<y, x>> \in R

Before(R, S, x) == {y \in S : <<y, x>> \in R}

LEMMA RankFacts ==
    ASSUME NEW S, IsFiniteSet(S), NEW R, Orders(R, S)
    PROVE  /\ \A x \in S : Cardinality(Before(R, S, x)) \in 0 .. (Cardinality(S) - 1)
           /\ \A x, y \in S : <<x, y>> \in R <=>
                 Cardinality(Before(R, S, x)) < Cardinality(Before(R, S, y))
           /\ \A x, y \in S : Cardinality(Before(R, S, x)) = Cardinality(Before(R, S, y)) => x = y
  <1>1. \A x \in S : Before(R, S, x) \in SUBSET S
    BY DEF Before
  <1>2. Cardinality(S) \in Nat /\ \A x \in S :
           IsFiniteSet(Before(R, S, x)) /\ Cardinality(Before(R, S, x)) \in Nat
    BY <1>1, FS_Subset, FS_CardinalityType
  <1>3. ASSUME NEW x \in S PROVE Cardinality(Before(R, S, x)) \in 0 .. (Cardinality(S) - 1)
    <2>1. Before(R, S, x) # S
      BY DEF Orders, Before
    <2>2. Cardinality(Before(R, S, x)) <= Cardinality(S) /\ Cardinality(Before(R, S, x)) # Cardinality(S)
      BY <1>1, <2>1, FS_Subset
    <2> QED  BY <1>2, <2>2
  <1>4. ASSUME NEW x \in S, NEW y \in S, <<x, y>> \in R
        PROVE  Cardinality(Before(R, S, x)) < Cardinality(Before(R, S, y))
    <2>1. Before(R, S, x) \in SUBSET Before(R, S, y) /\ Before(R, S, x) # Before(R, S, y)
      BY <1>4 DEF Orders, Before
    <2>2. /\ Cardinality(Before(R, S, x)) <= Cardinality(Before(R, S, y))
          /\ Cardinality(Before(R, S, x)) # Cardinality(Before(R, S, y))
      BY <1>2, <2>1, FS_Subset
    <2> QED  BY <1>2, <2>2
  <1>6. ASSUME NEW x \in S, NEW y \in S
        PROVE  /\ Cardinality(Before(R, S, x)) < Cardinality(Before(R, S, y)) => <<x, y>> \in R
               /\ Cardinality(Before(R, S, x)) = Cardinality(Before(R, S, y)) => x = y
    <2>1. Cardinality(Before(R, S, x)) \in Int /\ Cardinality(Before(R, S, y)) \in Int
      BY <1>2
    <2>2. CASE x = y
      BY <2>1, <2>2
    <2>3. CASE <<x, y>> \in R
      <3>1. Cardinality(Before(R, S, x)) < Cardinality(Before(R, S, y))
        BY <1>4, <2>3
      <3> QED  BY <2>1, <2>3, <3>1
    <2>4. CASE <<y, x>> \in R
      <3>1. Cardinality(Before(R, S, y)) < Cardinality(Before(R, S, x))
        BY <1>4, <2>4
      <3> QED  BY <2>1, <3>1
    <2> QED  BY <2>2, <2>3, <2>4 DEF Orders
  <1> QED  BY <1>3, <1>4, <1>6

LEMMA RankedElement ==
    ASSUME NEW S, IsFiniteSet(S), NEW R, Orders(R, S), NEW i \in 1 .. Cardinality(S)
    PROVE  \E x \in S : Cardinality(Before(R, S, x)) = i - 1
  <1> DEFINE n == Cardinality(S)
             f == [x \in S |-> Cardinality(Before(R, S, x)) + 1]
  <1>1. n \in Nat
    BY FS_CardinalityType
  <1>2. \A x \in S : f[x] \in 1 .. n
    BY <1>1, RankFacts
  <1>3. ASSUME NEW x \in S, NEW y \in S, f[x] = f[y] PROVE x = y
    <2>1. Cardinality(Before(R, S, x)) + 1 = Cardinality(Before(R, S, y)) + 1
      BY <1>3
    <2>2. /\ Cardinality(Before(R, S, x)) \in 0 .. (n - 1) /\ Cardinality(Before(R, S, y)) \in 0 .. (n - 1)
          /\ Cardinality(Before(R, S, x)) = Cardinality(Before(R, S, y)) => x = y
      BY RankFacts
    <2> QED  BY <1>1, <2>1, <2>2
  <1>4. f \in Injection(S, 1 .. n)
    <2>1. f \in [S -> 1 .. n] /\ \A x, y \in S : f[x] = f[y] => x = y
      BY <1>2, <1>3
    <2> HIDE DEF f
    <2> QED  BY <2>1 DEF Injection, IsInjective
  <1>5. IsFiniteSet(1 .. n) /\ Cardinality(1 .. n) = n
    BY <1>1, FS_Interval
  <1>6. f \in Surjection(S, 1 .. n)
    <2> HIDE DEF f
    <2> QED  BY <1>4, <1>5, FS_Injection
  <1>7. \E x \in S : f[x] = i
    BY <1>6 DEF Surjection
  <1> QED  BY <1>1, <1>7, RankFacts

(* A strictly increasing enumeration of S.                                 *)
Enumerates(s, R, S) ==
    /\ s \in [1 .. Cardinality(S) -> S]
    /\ \A x \in S : \E i \in 1 .. Cardinality(S) : s[i] = x
    /\ \A i, j \in 1 .. Cardinality(S) : i < j => <<s[i], s[j]>> \in R

LEMMA RanksEnumerate ==
    ASSUME NEW S, IsFiniteSet(S), NEW R, Orders(R, S), NEW s,
           s = [i \in 1 .. Cardinality(S) |-> s[i]],
           \A i \in 1 .. Cardinality(S) :
               s[i] \in S /\ Cardinality(Before(R, S, s[i])) = i - 1
    PROVE  Cardinality(S) \in Nat /\ Enumerates(s, R, S)
  <1> DEFINE n == Cardinality(S)
  <1>1. n \in Nat
    BY FS_CardinalityType
  <1>2. \A i \in 1 .. n : s[i] \in S /\ Cardinality(Before(R, S, s[i])) = i - 1
    OBVIOUS
  <1>3. s \in [1 .. n -> S]
    BY <1>2
  <1>4. ASSUME NEW i \in 1 .. n, NEW j \in 1 .. n, i < j PROVE <<s[i], s[j]>> \in R
    <2>1. s[i] \in S /\ s[j] \in S /\ Cardinality(Before(R, S, s[i])) < Cardinality(Before(R, S, s[j]))
      BY <1>1, <1>2, <1>4
    <2> QED  BY <2>1, RankFacts
  <1>5. ASSUME NEW x \in S PROVE \E i \in 1 .. n : s[i] = x
    <2>1. Cardinality(Before(R, S, x)) + 1 \in 1 .. n
      BY <1>1, RankFacts
    <2>2. PICK i \in 1 .. n : i = Cardinality(Before(R, S, x)) + 1
      BY <2>1
    <2>3. Cardinality(Before(R, S, s[i])) = Cardinality(Before(R, S, x))
      BY <1>1, <1>2, <2>2, RankFacts
    <2>4. s[i] = x
      BY <1>2, <2>3, RankFacts
    <2> QED  BY <2>4
  <1> QED  BY <1>1, <1>3, <1>4, <1>5 DEF Enumerates

LEMMA OneEnumeration ==
    ASSUME NEW S, NEW R, Orders(R, S), Cardinality(S) \in Nat,
           NEW s, Enumerates(s, R, S), NEW t, Enumerates(t, R, S)
    PROVE  s = t
  <1> DEFINE n == Cardinality(S)
             D == {i \in 1 .. n : s[i] # t[i]}
  <1>1. s \in [1 .. n -> S] /\ t \in [1 .. n -> S]
    BY DEF Enumerates
  <1> SUFFICES ASSUME D # {} PROVE FALSE
    BY <1>1
  <1>2. PICK i \in D : \A j \in D : i <= j
    <2>1. D \subseteq Nat
      OBVIOUS
    <2> HIDE DEF D
    <2> QED  BY <2>1, LeastExists
  <1>3. i \in 1 .. n /\ s[i] # t[i] /\ \A j \in 1 .. n : j < i => s[j] = t[j]
    BY <1>2
  <1>4. PICK k \in 1 .. n : t[k] = s[i]
    BY <1>1, <1>3 DEF Enumerates
  <1>5. PICK l \in 1 .. n : s[l] = t[i]
    BY <1>1, <1>3 DEF Enumerates
  <1>6. \A j, h \in 1 .. n : j < h => s[j] # s[h] /\ t[j] # t[h]
    BY <1>1 DEF Enumerates, Orders
  <1>7. i < k
    <2>1. k # i
      BY <1>3, <1>4
    <2>2. ~ (k < i)
      BY <1>3, <1>4, <1>6
    <2> QED  BY <1>3, <2>1, <2>2
  <1>8. i < l
    <2>1. l # i
      BY <1>3, <1>5
    <2>2. ~ (l < i)
      BY <1>3, <1>5, <1>6
    <2> QED  BY <1>3, <2>1, <2>2
  <1>9. <<t[i], s[i]>> \in R /\ <<s[i], t[i]>> \in R
    BY <1>3, <1>4, <1>5, <1>7, <1>8 DEF Enumerates
  <1>10. s[i] \in S /\ t[i] \in S
    BY <1>1, <1>3
  <1> QED  BY <1>9, <1>10 DEF Orders

-----------------------------------------------------------------------------
(* What retain leaves of a list are the entries at the places kept.        *)
Retains(r, s, P) ==
    /\ Cardinality(P) \in Nat /\ r = [n \in 1 .. Cardinality(P) |-> r[n]]
    /\ \A n \in 1 .. Cardinality(P) : \E i \in P : r[n] = s[i]
    /\ \A i \in P : \E n \in 1 .. Cardinality(P) : r[n] = s[i]

LEMMA AtPlacesFacts ==
    ASSUME NEW s, NEW N \in Nat, NEW P, P \subseteq 1 .. N
    PROVE  Retains(AtPlaces(s, P), s, P)
  <1> DEFINE c == Cardinality(P)
             R == {p \in P \X P : p[1] < p[2]}
             front(x) == {y \in P : y < x}
             at(i) == CHOOSE x \in P : Cardinality(front(x)) = i - 1
             kept == [i \in 1 .. c |-> at(i)]
  <1>1. IsFiniteSet(P) /\ c \in Nat
    <2>1. 1 \in Int /\ N \in Int
      OBVIOUS
    <2>2. IsFiniteSet(1 .. N)
      BY <2>1, FS_Interval
    <2>3. IsFiniteSet(P)
      BY <2>2, FS_Subset
    <2> QED  BY <2>3, FS_CardinalityType
  <1>2. Orders(R, P)
    BY DEF Orders
  <1>3. \A x \in P : front(x) = Before(R, P, x)
    BY DEF Before
  <1>4. AtPlaces(s, P) = [n \in 1 .. c |-> s[kept[n]]]
    BY DEF AtPlaces, InOrder
  <1>5. ASSUME NEW i \in 1 .. c
        PROVE  at(i) \in P /\ Cardinality(Before(R, P, at(i))) = i - 1
    <2>1. PICK x \in P : Cardinality(Before(R, P, x)) = i - 1
      <3> HIDE DEF R
      <3> QED  BY <1>1, <1>2, RankedElement
    <2>2. Cardinality(front(x)) = i - 1
      BY <1>3, <2>1
    <2> HIDE DEF front, R
    <2>3. at(i) \in P /\ Cardinality(front(at(i))) = i - 1
      BY <2>2
    <2> QED  BY <1>3, <2>3
  <1> HIDE DEF at, front, R
  <1>6. kept = [i \in 1 .. c |-> kept[i]] /\ \A i \in 1 .. c : kept[i] = at(i)
    OBVIOUS
  <1> HIDE DEF kept
  <1>7. \A i \in 1 .. c : kept[i] \in P /\ Cardinality(Before(R, P, kept[i])) = i - 1
    BY <1>5, <1>6
  <1>8. Enumerates(kept, R, P)
    BY <1>1, <1>2, <1>6, <1>7, RanksEnumerate
  <1>9. /\ \A i \in P : \E n \in 1 .. c : kept[n] = i
    BY <1>8 DEF Enumerates
  <1>10. \A n \in 1 .. c : AtPlaces(s, P)[n] = s[kept[n]]
    BY <1>4
  <1> QED  BY <1>1, <1>4, <1>7, <1>9, <1>10 DEF Retains

-----------------------------------------------------------------------------
LEMMA ConcatFacts ==
    ASSUME NEW m \in Nat, NEW n \in Nat,
           NEW s, s = [i \in 1 .. m |-> s[i]], NEW t, t = [i \in 1 .. n |-> t[i]]
    PROVE  /\ Len(s \o t) = m + n /\ s \o t = [i \in 1 .. (m + n) |-> (s \o t)[i]]
           /\ \A i \in 1 .. m : (s \o t)[i] = s[i]
           /\ \A i \in 1 .. n : (s \o t)[m + i] = t[i]
  <1> DEFINE U == {s[i] : i \in 1 .. m} \cup {t[i] : i \in 1 .. n}
  <1>1. s \in [1 .. m -> U] /\ t \in [1 .. n -> U]
    OBVIOUS
  <1> HIDE DEF U
  <1>2. s \in Seq(U) /\ t \in Seq(U) /\ Len(s) = m /\ Len(t) = n
    BY <1>1
  <1>3. /\ s \o t \in Seq(U) /\ Len(s \o t) = m + n
        /\ \A i \in 1 .. m : (s \o t)[i] = s[i]
        /\ \A i \in 1 .. n : (s \o t)[m + i] = t[i]
    BY <1>2
  <1> QED  BY <1>3
=============================================================================
