--------------------------- MODULE NaturalsLemmas ---------------------------
(***************************************************************************)
(* Induction over the natural numbers in a form that first-order provers   *)
(* can use: the property is a set of numbers, never an operator.           *)
(***************************************************************************)
EXTENDS Naturals, WellFoundedInduction, TLAPS

(* A set of natural numbers that is not empty has a least element. *)
LEMMA Least ==
    ASSUME NEW T \in SUBSET Nat, T # {}
    PROVE  \E n \in T : \A m \in T : n <= m
<1> DEFINE R == {ss \in Nat \X Nat : ss[1] < ss[2]}
<1>1. IsWellFoundedOn(R, Nat)
  BY NatLessThanWellFounded DEF OpToRel
<1> HIDE DEF R
<1>2. PICK x \in T : \A y \in T : ~(<<y, x>> \in R)
  BY <1>1, WFMin, Zenon
<1>3. \A y \in T : ~(y < x)
  BY <1>2 DEF R
<1> QED BY <1>3

(* Induction, with the property given as the set of the numbers that have it. *)
LEMMA Induction ==
    ASSUME NEW T, 0 \in T, \A n \in Nat : n \in T => n + 1 \in T
    PROVE  Nat \subseteq T
<1> SUFFICES ASSUME Nat \ T # {} PROVE FALSE
  OBVIOUS
<1>1. PICK n \in Nat \ T : \A m \in Nat \ T : n <= m
  BY Least
<1>2. n # 0 /\ n - 1 \in Nat /\ n - 1 \notin T
  BY <1>1
<1> QED BY <1>1, <1>2

(* The values f[0] = base, f[n + 1] = F[f[n]] define a function. *)
Orbit(g, base, F) == g = [n \in Nat |-> IF n = 0 THEN base ELSE F[g[n - 1]]]

LEMMA Iterates ==
    ASSUME NEW S, NEW base \in S, NEW F \in [S -> S]
    PROVE  \E g \in [Nat -> S] : Orbit(g, base, F)
<1> DEFINE App(k) == {a \in [0 .. k -> S] : /\ a[0] = base
                                            /\ \A i \in 1 .. k : a[i] = F[a[i - 1]]}
           T == {k \in Nat : App(k) # {}}
<1>1. Nat \subseteq T
  <2>1. [i \in 0 .. 0 |-> base] \in App(0)
    OBVIOUS
  <2>2. 0 \in T
    BY <2>1
  <2>3. ASSUME NEW k \in Nat, k \in T PROVE k + 1 \in T
    <3>1. PICK a \in App(k) : TRUE
      BY <2>3
    <3> DEFINE b == [i \in 0 .. k + 1 |-> IF i = k + 1 THEN F[a[k]] ELSE a[i]]
    <3>2. b \in App(k + 1)
      <4>1. b \in [0 .. k + 1 -> S]
        <5>1. a[k] \in S
          BY <3>1
        <5>2. F[a[k]] \in S
          BY <5>1
        <5>3. \A i \in 0 .. k + 1 : i # k + 1 => a[i] \in S
          BY <3>1
        <5> QED BY <5>2, <5>3
      <4>2. b[0] = base
        BY <3>1
      <4>3. ASSUME NEW i \in 1 .. k + 1 PROVE b[i] = F[b[i - 1]]
        BY <3>1
      <4> QED BY <4>1, <4>2, <4>3
    <3> HIDE DEF b, App
    <3> QED BY <3>2
  <2> HIDE DEF T
  <2> QED BY <2>2, <2>3, Induction
<1>2. \A k \in Nat : \E a : a \in App(k)
  BY <1>1
<1>3. ASSUME NEW j \in Nat, NEW k \in Nat, j <= k, NEW a \in App(j), NEW b \in App(k)
      PROVE  \A i \in 0 .. j : a[i] = b[i]
  <2> DEFINE E == {i \in Nat : i <= j => a[i] = b[i]}
  <2>1. 0 \in E
    OBVIOUS
  <2>2. ASSUME NEW i \in Nat, i \in E PROVE i + 1 \in E
    <3> SUFFICES ASSUME i + 1 <= j PROVE a[i + 1] = b[i + 1]
      OBVIOUS
    <3>1. i + 1 \in 1 .. j /\ i + 1 \in 1 .. k /\ (i + 1) - 1 = i
      BY <1>3
    <3>2. a[i + 1] = F[a[(i + 1) - 1]] /\ b[i + 1] = F[b[(i + 1) - 1]]
      BY <3>1, Zenon
    <3> QED BY <2>2, <3>1, <3>2
  <2>3. Nat \subseteq E
    <3> HIDE DEF E
    <3> QED BY <2>1, <2>2, Induction
  <2> QED BY <2>3
<1> DEFINE c(n) == CHOOSE a : a \in App(n)
           g == [n \in Nat |-> c(n)[n]]
<1>4. \A n \in Nat : c(n) \in App(n)
  BY <1>2, Zenon
<1>5. \A n \in Nat : g[n] = c(n)[n]
  BY Zenon
<1> HIDE DEF c, g
<1>6. \A n \in Nat : g[n] \in S
  BY <1>4, <1>5
<1>7. g[0] = base
  BY <1>4, <1>5
<1>8. ASSUME NEW n \in Nat, n # 0 PROVE g[n] = F[g[n - 1]]
  <2>1. n - 1 \in Nat /\ n - 1 <= n /\ n - 1 \in 0 .. n - 1
    BY <1>8
  <2>2. c(n)[n] = F[c(n)[n - 1]]
    BY <1>4, <1>8
  <2>3. c(n)[n - 1] = c(n - 1)[n - 1]
    <3> HIDE DEF App
    <3> QED BY <1>3, <1>4, <2>1
  <2> QED BY <1>5, <2>1, <2>2, <2>3
<1>9. g = [n \in Nat |-> IF n = 0 THEN base ELSE F[g[n - 1]]]
  <2>1. g = [n \in Nat |-> g[n]]
    BY Zenon DEF g
  <2>2. \A n \in Nat : g[n] = IF n = 0 THEN base ELSE F[g[n - 1]]
    BY <1>7, <1>8
  <2> QED BY <2>1, <2>2, Zenon
<1>10. g \in [Nat -> S]
  BY <1>6, Zenon DEF g
<1> QED BY <1>9, <1>10 DEF Orbit

(* The same up to N, where the function depends on the index as well.      *)
Steps(g, N, base, F) ==
    g = [n \in 0 .. N |-> IF n = 0 THEN base ELSE F[n][g[n - 1]]]

LEMMA StepsUpTo ==
    ASSUME NEW N \in Nat, NEW S, NEW base \in S, NEW F \in [1 .. N -> [S -> S]]
    PROVE  \E g \in [0 .. N -> S] : Steps(g, N, base, F)
<1> DEFINE App(k) == {a \in [0 .. k -> S] :
                         /\ a[0] = base
                         /\ \A i \in 1 .. k : a[i] = F[i][a[i - 1]]}
           T == {k \in Nat : k <= N => \E a : a \in App(k)}
<1>1. 0 \in T
  <2>1. [i \in 0 .. 0 |-> base] \in App(0)
    OBVIOUS
  <2> HIDE DEF App
  <2> QED BY <2>1
<1>2. ASSUME NEW k \in Nat, k \in T, k + 1 <= N PROVE \E a : a \in App(k + 1)
  <2>1. PICK a : a \in App(k)
    <3> HIDE DEF App
    <3> QED BY <1>2
  <2> DEFINE b == [i \in 0 .. k + 1 |-> IF i = k + 1 THEN F[k + 1][a[k]] ELSE a[i]]
  <2>2. b \in [0 .. k + 1 -> S]
    <3>1. a[k] \in S /\ k + 1 \in 1 .. N
      BY <2>1, <1>2
    <3>2. F[k + 1][a[k]] \in S
      BY <3>1
    <3>3. \A i \in 0 .. k + 1 : i # k + 1 => a[i] \in S
      BY <2>1
    <3> QED BY <3>2, <3>3
  <2>3. b[0] = base
    BY <2>1
  <2>4. ASSUME NEW i \in 1 .. k + 1 PROVE b[i] = F[i][b[i - 1]]
    <3>1. i - 1 \in 0 .. k + 1 /\ i - 1 # k + 1 /\ i \in 0 .. k + 1
      OBVIOUS
    <3>2. b[i - 1] = a[i - 1]
      BY <3>1
    <3>3. CASE i = k + 1
      <4>1. b[i] = F[k + 1][a[k]] /\ i - 1 = k
        BY <3>1, <3>3
      <4> HIDE DEF b
      <4> QED BY <3>2, <3>3, <4>1
    <3>4. CASE i # k + 1
      <4>1. b[i] = a[i] /\ i \in 1 .. k
        BY <3>1, <3>4
      <4>2. a[i] = F[i][a[i - 1]]
        BY <2>1, <4>1
      <4> HIDE DEF b
      <4> QED BY <3>2, <4>1, <4>2
    <3> QED BY <3>3, <3>4
  <2> WITNESS b
  <2> HIDE DEF b
  <2> QED BY <2>2, <2>3, <2>4
<1>3. Nat \subseteq T
  <2>1. \A k \in Nat : k \in T => k + 1 \in T
    <3> HIDE DEF App
    <3> QED BY <1>2
  <2> HIDE DEF T
  <2> QED BY <1>1, <2>1, Induction
<1>4. PICK g : g \in App(N)
  <2> HIDE DEF App
  <2> QED BY <1>3
<1>5. g = [n \in 0 .. N |-> IF n = 0 THEN base ELSE F[n][g[n - 1]]]
  BY <1>4
<1> QED BY <1>4, <1>5 DEF Steps

(* A function defined by recursion over a height: the value at x depends   *)
(* on the values at lower places only, so the recursion has a solution.    *)
Descends(A, V, h, F) ==
    \A u, v \in [A -> V] : \A x \in A :
        (\A y \in A : h[y] < h[x] => u[y] = v[y]) => F[u][x] = F[v][x]
Recurs(g, F) == F[g] = g

LEMMA Recursion ==
    ASSUME NEW A, NEW V, NEW h \in [A -> Nat], NEW base \in [A -> V],
           NEW F \in [[A -> V] -> [A -> V]], Descends(A, V, h, F)
    PROVE  \E g \in [A -> V] : Recurs(g, F)
<1> USE DEF Descends, Recurs
<1> DEFINE Q == [A -> V]
<1>1. PICK w \in [Nat -> Q] : w = [n \in Nat |-> IF n = 0 THEN base ELSE F[w[n - 1]]]
  <2>1. base \in Q /\ F \in [Q -> Q]
    OBVIOUS
  <2> HIDE DEF Q
  <2>2. \E w \in [Nat -> Q] : Orbit(w, base, F)
    BY <2>1, Iterates, Zenon
  <2> QED BY <2>2, Zenon DEF Orbit
<1>2. ASSUME NEW n \in Nat PROVE w[n] \in Q /\ w[n + 1] = F[w[n]]
  <2>1. n + 1 \in Nat /\ n + 1 # 0 /\ (n + 1) - 1 = n
    OBVIOUS
  <2>2. w[n + 1] = F[w[(n + 1) - 1]]
    <3> HIDE DEF Q
    <3> QED BY <1>1, <2>1
  <2> QED BY <1>1, <2>1, <2>2
<1> DEFINE g == [x \in A |-> w[h[x] + 1][x]]
           Right(n) == \A y \in A : h[y] < n => w[n][y] = g[y]
           T == {n \in Nat : \A k \in 0 .. n : Right(k)}
<1>3. ASSUME NEW x \in A, NEW u \in Q, \A y \in A : h[y] < h[x] => u[y] = g[y],
             Right(h[x])
      PROVE  F[u][x] = g[x]
  <2>1. h[x] \in Nat /\ w[h[x]] \in Q /\ w[h[x] + 1] = F[w[h[x]]]
    BY <1>2
  <2>2. \A y \in A : h[y] < h[x] => u[y] = w[h[x]][y]
    BY <1>3
  <2>3. F[u][x] = F[w[h[x]]][x]
    BY <2>1, <2>2
  <2> QED BY <2>1, <2>3
<1>4. 0 \in T
  OBVIOUS
<1>5. ASSUME NEW n \in Nat, n \in T PROVE n + 1 \in T
  <2>1. \A k \in 0 .. n : Right(k)
    BY <1>5
  <2>2. Right(n + 1)
    <3> SUFFICES ASSUME NEW x \in A, h[x] < n + 1 PROVE w[n + 1][x] = g[x]
      OBVIOUS
    <3>1. h[x] \in 0 .. n /\ n \in 0 .. n
      OBVIOUS
    <3>2. Right(h[x]) /\ Right(n)
      BY <2>1, <3>1
    <3>3. \A y \in A : h[y] < h[x] => w[n][y] = g[y]
      BY <3>1, <3>2
    <3>4. w[n] \in Q /\ w[n + 1] = F[w[n]]
      BY <1>2
    <3>5. F[w[n]][x] = g[x]
      <4> HIDE DEF g, Right, Q
      <4> QED BY <1>3, <3>2, <3>3, <3>4
    <3> QED BY <3>4, <3>5
  <2>3. \A k \in 0 .. n + 1 : k \in 0 .. n \/ k = n + 1
    OBVIOUS
  <2> HIDE DEF Right
  <2> QED BY <2>1, <2>2, <2>3
<1>6. Nat \subseteq T
  <2> HIDE DEF T
  <2> QED BY <1>4, <1>5, Induction
<1>7. \A n \in Nat : Right(n)
  <2> HIDE DEF Right
  <2>1. \A n \in Nat : n \in 0 .. n
    OBVIOUS
  <2> QED BY <1>6, <2>1
<1>8. g \in Q
  <2> SUFFICES ASSUME NEW x \in A PROVE w[h[x] + 1][x] \in V
    OBVIOUS
  <2>1. h[x] + 1 \in Nat
    OBVIOUS
  <2>2. w[h[x] + 1] \in Q
    BY <1>1, <2>1
  <2> QED BY <2>2
<1>9. \A x \in A : F[g][x] = g[x]
  <2> HIDE DEF g, Right
  <2> QED BY <1>3, <1>7, <1>8
<1>10. F[g] \in Q
  BY <1>8
<1> HIDE DEF g
<1> QED BY <1>8, <1>9, <1>10
=============================================================================
