------------------------- MODULE ObjectTypesProofs -------------------------
(***************************************************************************)
(* Proofs about ObjectTypes, for any classes and any lists of the database *)
(***************************************************************************)
EXTENDS ObjectTypes, NaturalsLemmas, TLAPS

(* The instances know the operators of StructLayout under other names.     *)
LEMMA LoopOperators ==
    /\ \A S : Loop!addSubStructs(S) = addSubStructs(S)
    /\ \A S, R : Loop!Holds(S, R) <=> Holds(S, R)
<1>1. Loop!subStructs = subStructs
  BY DEF Loop!subStructs, subStructs, Loop!StructElements, StructElements,
     Loop!isBaseType, isBaseType, Loop!findNonBaseType, findNonBaseType
<1>2. Loop!places = places
  BY DEF Loop!places, places
<1>3. \A S, p : Loop!TypeAt(S, p) = TypeAt(S, p)
  BY DEF Loop!TypeAt, TypeAt, Loop!Element, Element
<1>4. \A S, R : Loop!StandsFor(S, R) <=> StandsFor(S, R)
  BY DEF Loop!StandsFor, StandsFor, Loop!IsPrefix, IsPrefix
<1> QED BY <1>1, <1>2, <1>3, <1>4
        DEF Loop!addSubStructs, addSubStructs, Loop!Holds, Holds, Loop!Places, Places

LEMMA SearchOperators ==
    /\ \A S : Search!Places(S) = Places(S)
    /\ \A S, p : Search!TypeAt(S, p) = TypeAt(S, p)
    /\ \A E, S : Search!Accepts(E, S) <=> Accepts(E, S)
    /\ \A E, S : Search!StandsFor(E, S) <=> StandsFor(E, S)
    /\ \A S, R : Search!Unambiguous(S, R) <=> Unambiguous(S, R)
    /\ \A p, q : Search!Before(p, q) <=> Before(p, q)
<1>1. Search!places = places
  BY DEF Search!places, places
<1>2. \A S, p : Search!TypeAt(S, p) = TypeAt(S, p)
  BY DEF Search!TypeAt, TypeAt, Search!Element, Element
<1>3. \A S, R : Search!StandsFor(S, R) <=> StandsFor(S, R)
  BY DEF Search!StandsFor, StandsFor, Search!IsPrefix, IsPrefix
<1>4. \A E, S : Search!Accepts(E, S) <=> Accepts(E, S)
  BY DEF Search!Accepts, Accepts, Search!isBaseType, isBaseType,
     Search!IsLayoutPrefix, IsLayoutPrefix
<1>5. \A p, q : Search!Before(p, q) <=> Before(p, q)
  BY DEF Search!Before, Before
<1>6. \A S : Search!Places(S) = Places(S)
  BY <1>1 DEF Search!Places, Places
<1>7. \A S, R : Search!Unambiguous(S, R) <=> Unambiguous(S, R)
  BY <1>2, <1>3, <1>6 DEF Search!Unambiguous, Unambiguous, Search!IsPrefix, IsPrefix
<1> QED BY <1>2, <1>3, <1>4, <1>5, <1>6, <1>7

LEMMA ObjectOperators ==
    /\ \A S : Object!Places(S) = Places(S)
    /\ \A S, p : Object!TypeAt(S, p) = TypeAt(S, p)
    /\ \A E, S : Object!Accepts(E, S) <=> Accepts(E, S)
    /\ \A p, q : Object!Before(p, q) <=> Before(p, q)
<1>1. Object!places = places
  BY DEF Object!places, places
<1>2. \A S, p : Object!TypeAt(S, p) = TypeAt(S, p)
  BY DEF Object!TypeAt, TypeAt, Object!Element, Element
<1>3. \A E, S : Object!Accepts(E, S) <=> Accepts(E, S)
  BY DEF Object!Accepts, Accepts, Object!isBaseType, isBaseType,
     Object!IsLayoutPrefix, IsLayoutPrefix
<1>4. \A p, q : Object!Before(p, q) <=> Before(p, q)
  BY DEF Object!Before, Before
<1>5. \A S : Object!Places(S) = Places(S)
  BY <1>1 DEF Object!Places, Places
<1> QED BY <1>2, <1>3, <1>4, <1>5

-----------------------------------------------------------------------------
(* The structs on the way along a place.                                   *)
Maybe == StructType \cup {NoType}
Along(S, p, c) ==
    /\ c \in [0 .. Len(p) -> Maybe]
    /\ c[0] = S
    /\ \A n \in 1 .. Len(p) : c[n] = Element(c[n - 1], p[n])

LEMMA ElementType == \A S, n : Element(S, n) \in Maybe
BY DEF Element, Maybe

LEMMA AlongExists ==
    ASSUME NEW S \in Maybe, NEW p \in Seq(Nat)
    PROVE  \E c : Along(S, p, c) /\ TypeAt(S, p) = c[Len(p)]
<1> DEFINE N == Len(p)
           F == [n \in 1 .. N |-> [x \in Maybe |-> Element(x, p[n])]]
           Is(c) == c = [n \in 0 .. N |-> IF n = 0 THEN S ELSE Element(c[n - 1], p[n])]
<1>1. N \in Nat
  OBVIOUS
<1>2. F \in [1 .. N -> [Maybe -> Maybe]]
  BY ElementType
<1>3. PICK g \in [0 .. N -> Maybe] : Steps(g, N, S, F)
  <2> HIDE DEF F, N
  <2> QED BY <1>1, <1>2, StepsUpTo
<1>4. Is(g)
  <2>1. \A n \in 0 .. N : n # 0 => n \in 1 .. N /\ g[n - 1] \in Maybe
    <3> HIDE DEF F, N
    <3> QED BY <1>1
  <2>2. g = [n \in 0 .. N |-> IF n = 0 THEN S ELSE F[n][g[n - 1]]]
    BY <1>3, Zenon DEF Steps
  <2>3. \A n \in 0 .. N : n # 0 => F[n][g[n - 1]] = Element(g[n - 1], p[n])
    BY <2>1
  <2> HIDE DEF F, N
  <2> QED BY <2>2, <2>3
<1> DEFINE d == CHOOSE c : Is(c)
<1>5. Is(d)
  <2> HIDE DEF Is
  <2> QED BY <1>4, Zenon
<1>6. TypeAt(S, p) = d[Len(p)]
  BY Zenon DEF TypeAt
<1>7. Along(S, p, d)
  <2> HIDE DEF d
  <2>1. d[0] = S
    BY <1>1, <1>5
  <2>2. \A n \in 1 .. N : d[n] = Element(d[n - 1], p[n])
    <3>1. \A n \in 1 .. N : n \in 0 .. N /\ n # 0
      BY <1>1
    <3> HIDE DEF N
    <3> QED BY <1>5, <3>1, Zenon
  <2>3. d \in [0 .. N -> Maybe]
    <3>1. \A n \in 0 .. N : (IF n = 0 THEN S ELSE Element(d[n - 1], p[n])) \in Maybe
      BY ElementType, Zenon
    <3> HIDE DEF N
    <3> QED BY <1>5, <3>1, Zenon
  <2> QED BY <2>1, <2>2, <2>3 DEF Along
<1> QED BY <1>6, <1>7

LEMMA AlongUnique ==
    ASSUME NEW S \in Maybe, NEW p \in Seq(Nat), NEW c, Along(S, p, c)
    PROVE  TypeAt(S, p) = c[Len(p)]
<1>1. PICK d : Along(S, p, d) /\ TypeAt(S, p) = d[Len(p)]
  BY AlongExists
<1> DEFINE U == {n \in Nat : n <= Len(p) => c[n] = d[n]}
<1>2. 0 \in U
  BY <1>1 DEF Along
<1>3. ASSUME NEW n \in Nat, n \in U PROVE n + 1 \in U
  <2> SUFFICES ASSUME n + 1 <= Len(p) PROVE c[n + 1] = d[n + 1]
    OBVIOUS
  <2>1. n + 1 \in 1 .. Len(p) /\ (n + 1) - 1 = n /\ c[n] = d[n]
    BY <1>3
  <2> QED BY <1>1, <2>1 DEF Along
<1>4. Nat \subseteq U
  <2> HIDE DEF U
  <2> QED BY <1>2, <1>3, Induction
<1>5. Len(p) \in Nat
  OBVIOUS
<1> QED BY <1>1, <1>4, <1>5

LEMMA TypeAtType ==
    ASSUME NEW S \in Maybe, NEW p \in Seq(Nat)
    PROVE  TypeAt(S, p) \in Maybe
<1>1. PICK c : Along(S, p, c) /\ TypeAt(S, p) = c[Len(p)]
  BY AlongExists
<1> QED BY <1>1 DEF Along

LEMMA TypeAtEmpty == \A S \in Maybe : TypeAt(S, <<>>) = S
<1> SUFFICES ASSUME NEW S \in Maybe PROVE TypeAt(S, <<>>) = S
  OBVIOUS
<1>1. Along(S, <<>>, [n \in 0 .. 0 |-> S])
  BY DEF Along
<1> QED BY <1>1, AlongUnique

(* What a concatenation leads to.                                          *)
LEMMA TypeAtConcat ==
    ASSUME NEW S \in Maybe, NEW p \in Seq(Nat), NEW q \in Seq(Nat)
    PROVE  TypeAt(S, p \o q) = TypeAt(TypeAt(S, p), q)
<1>1. PICK c : Along(S, p, c) /\ TypeAt(S, p) = c[Len(p)]
  BY AlongExists
<1> DEFINE R == TypeAt(S, p)
<1>2. R \in Maybe
  BY TypeAtType
<1> HIDE DEF R
<1>3. PICK d : Along(R, q, d) /\ TypeAt(R, q) = d[Len(q)]
  BY <1>2, AlongExists
<1> DEFINE e == [n \in 0 .. Len(p) + Len(q) |-> IF n <= Len(p) THEN c[n] ELSE d[n - Len(p)]]
<1>4. p \o q \in Seq(Nat) /\ Len(p \o q) = Len(p) + Len(q) /\ Len(p) \in Nat /\ Len(q) \in Nat
  OBVIOUS
<1>5. e \in [0 .. Len(p) + Len(q) -> Maybe]
  <2> SUFFICES ASSUME NEW n \in 0 .. Len(p) + Len(q) PROVE e[n] \in Maybe
    OBVIOUS
  <2>1. CASE n <= Len(p)
    <3>1. n \in 0 .. Len(p) /\ e[n] = c[n]
      BY <1>4, <2>1
    <3> HIDE DEF e
    <3> QED BY <1>1, <3>1, Zenon DEF Along
  <2>2. CASE ~(n <= Len(p))
    <3>1. n - Len(p) \in 0 .. Len(q) /\ e[n] = d[n - Len(p)]
      BY <1>4, <2>2
    <3> HIDE DEF e
    <3> QED BY <1>3, <3>1, Zenon DEF Along
  <2> QED BY <2>1, <2>2
<1>6. e[0] = S
  BY <1>1, <1>4 DEF Along
<1>7. ASSUME NEW n \in 1 .. Len(p) + Len(q)
      PROVE  e[n] = Element(e[n - 1], (p \o q)[n])
  <2>1. CASE n <= Len(p)
    <3>1. n \in 1 .. Len(p) /\ (p \o q)[n] = p[n] /\ e[n] = c[n] /\ e[n - 1] = c[n - 1]
      BY <1>4, <2>1
    <3> QED BY <1>1, <3>1 DEF Along
  <2>2. CASE n = Len(p) + 1
    <3>1. 1 \in 1 .. Len(q) /\ (p \o q)[n] = q[1] /\ e[n] = d[1] /\ e[n - 1] = c[Len(p)]
      BY <1>4, <2>2
    <3>2. d[1] = Element(d[0], q[1]) /\ d[0] = R
      BY <1>3, <3>1 DEF Along
    <3> QED BY <1>1, <3>1, <3>2 DEF R
  <2>3. CASE n > Len(p) + 1
    <3>1. /\ n - Len(p) \in 1 .. Len(q) /\ (p \o q)[n] = q[n - Len(p)]
          /\ e[n] = d[n - Len(p)] /\ e[n - 1] = d[(n - Len(p)) - 1]
      BY <1>4, <2>3
    <3> QED BY <1>3, <3>1 DEF Along
  <2> QED BY <1>4, <2>1, <2>2, <2>3
<1>8. Along(S, p \o q, e)
  <2> HIDE DEF e
  <2> QED BY <1>4, <1>5, <1>6, <1>7 DEF Along
<1>9. TypeAt(S, p \o q) = e[Len(p) + Len(q)]
  <2> HIDE DEF e
  <2> QED BY <1>4, <1>8, AlongUnique
<1>10. e[Len(p) + Len(q)] = d[Len(q)]
  <2>1. CASE Len(q) = 0
    <3>1. d[0] = c[Len(p)]
      BY <1>1, <1>3 DEF Along, R
    <3> QED BY <1>4, <2>1, <3>1
  <2>2. CASE Len(q) # 0
    BY <1>4, <2>2
  <2> QED BY <2>1, <2>2
<1> QED BY <1>3, <1>9, <1>10 DEF R

(* Nothing is inside what is no struct, and heights decrease on the way.   *)
LEMMA AlongHeights ==
    ASSUME NEW S \in Maybe, NEW p \in Seq(Nat), TypeAt(S, p) \in StructType
    PROVE  S \in StructType /\ Height[TypeAt(S, p)] + Len(p) <= Height[S]
<1>1. PICK c : Along(S, p, c) /\ TypeAt(S, p) = c[Len(p)]
  BY AlongExists
<1>2. Len(p) \in Nat
  OBVIOUS
<1>3. \A U \in StructType : Height[U] \in Nat
  BY NestingAssumption
<1> DEFINE W == {n \in Nat : n <= Len(p) =>
                    LET k == Len(p) - n IN
                    c[k] \in StructType /\ Height[TypeAt(S, p)] + n <= Height[c[k]]}
<1>4. 0 \in W
  BY <1>1, <1>2, <1>3
<1>5. ASSUME NEW n \in Nat, n \in W PROVE n + 1 \in W
  <2> SUFFICES ASSUME n + 1 <= Len(p)
               PROVE  LET k == Len(p) - (n + 1) IN
                      c[k] \in StructType /\ Height[TypeAt(S, p)] + (n + 1) <= Height[c[k]]
    OBVIOUS
  <2> DEFINE k == Len(p) - n
  <2>1. k \in 1 .. Len(p) /\ Len(p) - (n + 1) = k - 1 /\ p[k] \in Nat
    BY <1>2
  <2>2. c[k] \in StructType /\ Height[TypeAt(S, p)] + n <= Height[c[k]]
    BY <1>5, <2>1
  <2> HIDE DEF k
  <2>3. c[k] = Element(c[k - 1], p[k])
    BY <1>1, <2>1 DEF Along
  <2>4. c[k - 1] \in StructType /\ c[k] \in StructElements(c[k - 1])
    BY <2>2, <2>3, StructLayoutAssumption DEF Element, StructElements
  <2>5. Height[c[k]] < Height[c[k - 1]]
    BY <2>2, <2>4, NestingAssumption, StructLayoutAssumption
  <2>6. Height[TypeAt(S, p)] + (n + 1) <= Height[c[k - 1]]
    BY <1>3, <2>2, <2>4, <2>5
  <2> QED BY <2>1, <2>4, <2>6
<1>6. Nat \subseteq W
  <2> HIDE DEF W
  <2> QED BY <1>4, <1>5, Induction
<1>7. c[Len(p) - Len(p)] = S
  BY <1>1, <1>2 DEF Along
<1> QED BY <1>2, <1>6, <1>7

(* No struct is inside itself. *)
LEMMA NotInside ==
    ASSUME NEW S \in StructType, NEW p \in Seq(Nat), TypeAt(S, p) = S
    PROVE  p = <<>>
<1>1. S \in Maybe /\ Height[S] \in Nat /\ Len(p) \in Nat
  BY NestingAssumption DEF Maybe
<1>2. Height[S] + Len(p) <= Height[S]
  BY <1>1, AlongHeights
<1>3. Len(p) = 0
  BY <1>1, <1>2
<1> QED BY <1>3

(* The equation that defines places has a solution. *)
LEMMA PlacesDef ==
    /\ places \in [StructType -> SUBSET Seq(Nat)]
    /\ \A S \in StructType :
          places[S] = UNION { {<<n - 1>>} \cup { <<n - 1>> \o p : p \in places[Elements[S][n]] } :
                              n \in { n \in DOMAIN Elements[S] : Elements[S][n] \in StructType } }
<1> DEFINE V == SUBSET Seq(Nat)
           Body(g, S) ==
               UNION { {<<n - 1>>} \cup { <<n - 1>> \o p : p \in g[Elements[S][n]] } :
                       n \in { n \in DOMAIN Elements[S] : Elements[S][n] \in StructType } }
           F == [g \in [StructType -> V] |-> [S \in StructType |-> Body(g, S)]]
           base == [S \in StructType |-> {}]
           Is(g) == g = [S \in StructType |-> Body(g, S)]
<1>1. ASSUME NEW g \in [StructType -> V], NEW S \in StructType
      PROVE  Body(g, S) \in V
  <2> SUFFICES ASSUME NEW n \in DOMAIN Elements[S], Elements[S][n] \in StructType,
                      NEW x \in {<<n - 1>>} \cup { <<n - 1>> \o p : p \in g[Elements[S][n]] }
               PROVE  x \in Seq(Nat)
    OBVIOUS
  <2>1. Elements[S] \in Seq(StructType \cup Scalar)
    BY StructLayoutAssumption
  <2>2. n - 1 \in Nat
    BY <2>1
  <2>3. <<n - 1>> \in Seq(Nat)
    BY <2>2
  <2>4. \A p \in g[Elements[S][n]] : p \in Seq(Nat)
    OBVIOUS
  <2>5. \A p \in Seq(Nat) : <<n - 1>> \o p \in Seq(Nat)
    BY <2>3
  <2> QED BY <2>3, <2>4, <2>5
<1>2. F \in [[StructType -> V] -> [StructType -> V]]
  <2> HIDE DEF Body, V
  <2> QED BY <1>1
<1>3. base \in [StructType -> V]
  OBVIOUS
<1>4. Descends(StructType, V, Height, F)
  <2> SUFFICES ASSUME NEW u \in [StructType -> V], NEW v \in [StructType -> V],
                      NEW S \in StructType,
                      \A R \in StructType : Height[R] < Height[S] => u[R] = v[R]
               PROVE  F[u][S] = F[v][S]
    BY Zenon DEF Descends
  <2>1. \A n \in DOMAIN Elements[S] :
           Elements[S][n] \in StructType => u[Elements[S][n]] = v[Elements[S][n]]
    BY StructLayoutAssumption, NestingAssumption DEF StructElements
  <2>2. Body(u, S) = Body(v, S)
    <3> HIDE DEF V
    <3> QED BY <2>1
  <2>3. F[u][S] = Body(u, S) /\ F[v][S] = Body(v, S)
    <3> HIDE DEF Body, V
    <3> QED OBVIOUS
  <2> QED BY <2>2, <2>3
<1>5. PICK g \in [StructType -> V] : Recurs(g, F)
  <2> HIDE DEF F, base, V
  <2> QED BY <1>2, <1>3, <1>4, NestingAssumption, Recursion
<1>6. Is(g)
  <2>1. F[g] = g
    BY <1>5, Zenon DEF Recurs
  <2> HIDE DEF Body, V
  <2> QED BY <2>1
<1>7. places = CHOOSE f : Is(f)
  BY Zenon DEF places
<1>8. Is(places)
  <2> HIDE DEF Is
  <2> QED BY <1>6, <1>7, Zenon
<1>9. \A S \in StructType : places[S] = Body(places, S) /\ g[S] = Body(g, S)
  <2> HIDE DEF Body
  <2> QED BY <1>6, <1>8
<1> DEFINE W == {n \in Nat : \A S \in StructType : Height[S] < n => places[S] = g[S]}
<1>10. 0 \in W
  BY NestingAssumption
<1>11. ASSUME NEW n \in Nat, n \in W PROVE n + 1 \in W
  <2> SUFFICES ASSUME NEW S \in StructType, Height[S] < n + 1
               PROVE  places[S] = g[S]
    OBVIOUS
  <2>1. \A k \in DOMAIN Elements[S] :
           Elements[S][k] \in StructType => places[Elements[S][k]] = g[Elements[S][k]]
    <3> SUFFICES ASSUME NEW k \in DOMAIN Elements[S], Elements[S][k] \in StructType
                 PROVE  places[Elements[S][k]] = g[Elements[S][k]]
      OBVIOUS
    <3>1. Height[Elements[S][k]] < Height[S] /\ Height[S] \in Nat
          /\ Height[Elements[S][k]] \in Nat
      BY StructLayoutAssumption, NestingAssumption DEF StructElements
    <3>2. Height[Elements[S][k]] < n
      BY <3>1
    <3> QED BY <1>11, <3>2
  <2>2. Body(places, S) = Body(g, S)
    <3> DEFINE D == { k \in DOMAIN Elements[S] : Elements[S][k] \in StructType }
               Part(f, k) == {<<k - 1>>} \cup { <<k - 1>> \o p : p \in f[Elements[S][k]] }
    <3>1. \A k \in D : Part(places, k) = Part(g, k)
      BY <2>1
    <3> HIDE DEF D, Part
    <3>2. UNION { Part(places, k) : k \in D } = UNION { Part(g, k) : k \in D }
      BY <3>1
    <3> QED BY <3>2 DEF D, Part
  <2> QED BY <1>9, <2>2
<1>12. Nat \subseteq W
  <2> HIDE DEF W
  <2> QED BY <1>10, <1>11, Induction
<1>13. ASSUME NEW S \in StructType PROVE places[S] = g[S]
  <2>1. Height[S] \in Nat /\ Height[S] + 1 \in Nat /\ Height[S] < Height[S] + 1
    BY NestingAssumption
  <2> QED BY <1>12, <2>1
<1>14. places \in [StructType -> V]
  <2>1. places = [S \in StructType |-> places[S]]
    <3> HIDE DEF Body
    <3> QED BY <1>8
  <2> HIDE DEF V
  <2> QED BY <1>13, <2>1
<1> QED BY <1>9, <1>14

LEMMA TypeAtOne ==
    ASSUME NEW S \in Maybe, NEW n \in Nat
    PROVE  TypeAt(S, <<n>>) = Element(S, n)
<1> DEFINE c == [k \in 0 .. 1 |-> IF k = 0 THEN S ELSE Element(S, n)]
<1>1. Along(S, <<n>>, c)
  BY ElementType DEF Along
<1>2. <<n>> \in Seq(Nat) /\ Len(<<n>>) = 1 /\ c[1] = Element(S, n)
  OBVIOUS
<1> HIDE DEF c
<1> QED BY <1>1, <1>2, AlongUnique

LEMMA TypeAtAppend ==
    ASSUME NEW S \in Maybe, NEW p \in Seq(Nat), NEW n \in Nat
    PROVE  TypeAt(S, Append(p, n)) = Element(TypeAt(S, p), n)
<1>1. Append(p, n) = p \o <<n>> /\ <<n>> \in Seq(Nat)
  OBVIOUS
<1>2. TypeAt(S, p) \in Maybe
  BY TypeAtType
<1>3. TypeAt(S, p \o <<n>>) = TypeAt(TypeAt(S, p), <<n>>)
  BY <1>1, TypeAtConcat
<1>4. TypeAt(TypeAt(S, p), <<n>>) = Element(TypeAt(S, p), n)
  BY <1>2, TypeAtOne
<1> QED BY <1>1, <1>3, <1>4

LEMMA ElementIs ==
    ASSUME NEW S \in StructType, NEW k \in DOMAIN Elements[S], Elements[S][k] \in StructType
    PROVE  /\ k - 1 \in Nat /\ Element(S, k - 1) = Elements[S][k]
           /\ Elements[S][k] \in StructElements(S)
<1>1. Elements[S] \in Seq(StructType \cup Scalar)
  BY StructLayoutAssumption
<1>2. k - 1 \in Nat /\ (k - 1) + 1 = k
  BY <1>1
<1> QED BY <1>2 DEF Element, StructElements

LEMMA ElementOf ==
    ASSUME NEW S, NEW n \in Nat, Element(S, n) \in StructType
    PROVE  /\ S \in StructType /\ n + 1 \in DOMAIN Elements[S]
           /\ Elements[S][n + 1] = Element(S, n)
           /\ Element(S, n) \in StructElements(S)
BY StructLayoutAssumption DEF Element, StructElements

(* The first step of a place and the rest.                                 *)
LEMMA FirstStep ==
    ASSUME NEW p \in Seq(Nat), p # <<>>
    PROVE  \E n \in Nat, q \in Seq(Nat) : p = <<n>> \o q /\ Len(p) = Len(q) + 1
<1>1. Head(p) \in Nat /\ Tail(p) \in Seq(Nat) /\ Len(p) = Len(Tail(p)) + 1
  OBVIOUS
<1>2. p = <<Head(p)>> \o Tail(p)
  OBVIOUS
<1> QED BY <1>1, <1>2

(* The places in S are the sequences that lead to a struct.                *)
LEMMA PlacesExact ==
    ASSUME NEW S \in StructType
    PROVE  Places(S) = { p \in Seq(Nat) : p # <<>> /\ TypeAt(S, p) \in StructType }
<1> DEFINE Leads(R, p) == p # <<>> /\ TypeAt(R, p) \in StructType
           W == {n \in Nat : \A R \in StructType : \A p \in Seq(Nat) :
                    Len(p) = n => (p \in places[R] <=> Leads(R, p))}
<1> DEFINE Composed(R, p) ==
               \E k \in DOMAIN Elements[R] :
                  /\ Elements[R][k] \in StructType
                  /\ p = <<k - 1>> \/ \E q \in places[Elements[R][k]] : p = <<k - 1>> \o q
<1>1. ASSUME NEW R \in StructType, NEW p
      PROVE  p \in places[R] <=> Composed(R, p)
  <2> DEFINE D == { n \in DOMAIN Elements[R] : Elements[R][n] \in StructType }
             Part(n) == {<<n - 1>>} \cup { <<n - 1>> \o q : q \in places[Elements[R][n]] }
  <2>1. places[R] = UNION { Part(n) : n \in D }
    BY PlacesDef
  <2>2. p \in places[R] <=> \E n \in D : p \in Part(n)
    <3> HIDE DEF D, Part
    <3> QED BY <2>1
  <2>3. \A n : p \in Part(n) <=>
                  p = <<n - 1>> \/ \E q \in places[Elements[R][n]] : p = <<n - 1>> \o q
    OBVIOUS
  <2> HIDE DEF Part
  <2> QED BY <2>2, <2>3
<1>2. 0 \in W
  <2> SUFFICES ASSUME NEW R \in StructType, NEW p \in Seq(Nat), Len(p) = 0, p \in places[R]
               PROVE  FALSE
    OBVIOUS
  <2>1. PICK k \in DOMAIN Elements[R] :
           /\ Elements[R][k] \in StructType
           /\ p = <<k - 1>> \/ \E q \in places[Elements[R][k]] : p = <<k - 1>> \o q
    BY <1>1
  <2>2. k - 1 \in Nat
    BY <2>1, ElementIs
  <2>3. \A q \in places[Elements[R][k]] : q \in Seq(Nat)
    BY <2>1, PlacesDef
  <2>4. \A q \in Seq(Nat) : Len(<<k - 1>> \o q) = Len(q) + 1 /\ Len(q) \in Nat
    BY <2>2
  <2>5. p # <<k - 1>>
    BY <2>2
  <2>6. PICK q \in places[Elements[R][k]] : p = <<k - 1>> \o q
    BY <2>1, <2>5
  <2>7. q \in Seq(Nat)
    BY <2>3
  <2>8. \A l \in Nat : l + 1 # 0
    OBVIOUS
  <2> HIDE DEF W
  <2> QED BY <2>4, <2>6, <2>7, <2>8, Zenon
<1>3. ASSUME NEW m \in Nat, m \in W PROVE m + 1 \in W
  <2> SUFFICES ASSUME NEW R \in StructType, NEW p \in Seq(Nat), Len(p) = m + 1
               PROVE  p \in places[R] <=> Leads(R, p)
    OBVIOUS
  <2>1. PICK n \in Nat, q \in Seq(Nat) : p = <<n>> \o q /\ Len(p) = Len(q) + 1
    <3>1. p # <<>>
      OBVIOUS
    <3> QED BY <3>1, FirstStep
  <2>2. Len(q) = m /\ p # <<>> /\ R \in Maybe
    BY <2>1 DEF Maybe
  <2> DEFINE E == Element(R, n)
  <2>3. TypeAt(R, p) = TypeAt(E, q) /\ E \in Maybe
    <3>1. <<n>> \in Seq(Nat)
      OBVIOUS
    <3>2. TypeAt(R, <<n>> \o q) = TypeAt(TypeAt(R, <<n>>), q)
      BY <3>1, <2>2, TypeAtConcat
    <3>3. TypeAt(R, <<n>>) = E
      BY <2>2, TypeAtOne
    <3> QED BY <2>1, <3>2, <3>3, ElementType
  <2>4. ASSUME p \in places[R] PROVE Leads(R, p)
    <3>1. PICK k \in DOMAIN Elements[R] :
             /\ Elements[R][k] \in StructType
             /\ p = <<k - 1>> \/ \E r \in places[Elements[R][k]] : p = <<k - 1>> \o r
      <4>1. Composed(R, p)
        <5> HIDE DEF Composed, W, Leads, E
        <5> QED BY <1>1, <2>4
      <4> HIDE DEF W, Leads, E
      <4> QED BY <4>1
    <3>2. k - 1 \in Nat /\ Element(R, k - 1) = Elements[R][k]
      BY <3>1, ElementIs
    <3>3. CASE p = <<k - 1>>
      BY <2>2, <3>1, <3>2, <3>3, TypeAtOne
    <3>4. ASSUME NEW r \in places[Elements[R][k]], p = <<k - 1>> \o r PROVE Leads(R, p)
      <4>1. r \in Seq(Nat)
        BY <3>1, PlacesDef
      <4>2. Len(p) = Len(r) + 1
        BY <3>2, <3>4, <4>1
      <4>3. Len(r) = m
        BY <4>1, <4>2
      <4>4. TypeAt(Elements[R][k], r) \in StructType
        BY <1>3, <3>1, <4>1, <4>3
      <4>5. <<k - 1>> \in Seq(Nat)
        BY <3>2
      <4>6. TypeAt(R, p) = TypeAt(Elements[R][k], r)
        <5>1. TypeAt(R, <<k - 1>> \o r) = TypeAt(TypeAt(R, <<k - 1>>), r)
          BY <2>2, <4>1, <4>5, TypeAtConcat
        <5>2. TypeAt(R, <<k - 1>>) = Elements[R][k]
          BY <2>2, <3>2, TypeAtOne
        <5> QED BY <3>4, <5>1, <5>2
      <4> QED BY <2>2, <4>4, <4>6
    <3> QED BY <3>1, <3>3, <3>4
  <2>5. ASSUME Leads(R, p) PROVE p \in places[R]
    <3>1. E \in StructType
      <4> HIDE DEF E
      <4> QED BY <2>3, <2>5, AlongHeights
    <3>2. n + 1 \in DOMAIN Elements[R] /\ Elements[R][n + 1] = E
      BY <3>1, ElementOf
    <3>3. (n + 1) - 1 = n
      OBVIOUS
    <3>4. CASE q = <<>>
      <4>1. p = <<n>>
        BY <2>1, <3>4
      <4> QED BY <1>1, <3>1, <3>2, <3>3, <4>1
    <3>5. CASE q # <<>>
      <4>1. q \in places[E]
        <5>1. Leads(E, q)
          BY <2>3, <2>5, <3>5
        <5> HIDE DEF E, Leads
        <5> QED BY <1>3, <2>2, <3>1, <5>1
      <4>2. p = <<(n + 1) - 1>> \o q
        BY <2>1, <3>3
      <4> HIDE DEF E
      <4> QED BY <1>1, <3>1, <3>2, <4>1, <4>2
    <3> QED BY <3>4, <3>5
  <2> QED BY <2>4, <2>5
<1>4. Nat \subseteq W
  <2> HIDE DEF W
  <2> QED BY <1>2, <1>3, Induction
<1>5. \A p \in Seq(Nat) : p \in places[S] <=> Leads(S, p)
  <2> SUFFICES ASSUME NEW p \in Seq(Nat) PROVE p \in places[S] <=> Leads(S, p)
    OBVIOUS
  <2>1. Len(p) \in Nat
    OBVIOUS
  <2> HIDE DEF Leads
  <2> QED BY <1>4, <2>1
<1>6. places[S] \subseteq Seq(Nat)
  BY PlacesDef
<1> QED BY <1>5, <1>6 DEF Places

(* So does the equation that defines subStructs.                           *)
Added(U) == IF isBaseType(U) THEN {findNonBaseType(U)} ELSE {}

LEMMA FoundType == \A U : findNonBaseType(U) \in Maybe
BY DEF findNonBaseType, Maybe

LEMMA SubStructsDef ==
    /\ subStructs \in [StructType -> SUBSET Maybe]
    /\ \A S \in StructType :
          subStructs[S] = UNION { {U} \cup subStructs[U] \cup Added(U) : U \in StructElements(S) }
<1> DEFINE V == SUBSET Maybe
           Part(f, U) == {U} \cup f[U] \cup Added(U)
           Body(f, S) == UNION { Part(f, U) : U \in StructElements(S) }
           F == [f \in [StructType -> V] |-> [S \in StructType |-> Body(f, S)]]
           base == [S \in StructType |-> {}]
           Is(f) == f = [S \in StructType |-> Body(f, S)]
<1>1. ASSUME NEW f \in [StructType -> V], NEW S \in StructType
      PROVE  Body(f, S) \in V
  <2>1. \A U \in StructElements(S) : Part(f, U) \subseteq Maybe
    BY FoundType DEF StructElements, Added, Maybe
  <2> HIDE DEF Part
  <2> QED BY <2>1
<1>2. F \in [[StructType -> V] -> [StructType -> V]]
  <2> HIDE DEF Body, V
  <2> QED BY <1>1
<1>3. base \in [StructType -> V]
  OBVIOUS
<1>4. ASSUME NEW u, NEW v, NEW S \in StructType,
             \A R \in StructElements(S) : u[R] = v[R]
      PROVE  Body(u, S) = Body(v, S)
  <2>1. \A U \in StructElements(S) : Part(u, U) = Part(v, U)
    BY <1>4
  <2> HIDE DEF Part
  <2> QED BY <2>1
<1>5. ASSUME NEW S \in StructType, NEW R \in StructElements(S)
      PROVE  R \in StructType /\ Height[R] < Height[S]
  BY NestingAssumption, StructLayoutAssumption DEF StructElements
<1>6. Descends(StructType, V, Height, F)
  <2> SUFFICES ASSUME NEW u \in [StructType -> V], NEW v \in [StructType -> V],
                      NEW S \in StructType,
                      \A R \in StructType : Height[R] < Height[S] => u[R] = v[R]
               PROVE  F[u][S] = F[v][S]
    BY Zenon DEF Descends
  <2>1. Body(u, S) = Body(v, S)
    <3> HIDE DEF Body, V
    <3> QED BY <1>4, <1>5
  <2>2. F[u][S] = Body(u, S) /\ F[v][S] = Body(v, S)
    <3> HIDE DEF Body, V
    <3> QED OBVIOUS
  <2> QED BY <2>1, <2>2
<1>7. PICK g \in [StructType -> V] : Recurs(g, F)
  <2> HIDE DEF F, base, V
  <2> QED BY <1>2, <1>3, <1>6, NestingAssumption, Recursion
<1>8. Is(g)
  <2>1. F[g] = g
    BY <1>7, Zenon DEF Recurs
  <2> HIDE DEF Body, V
  <2> QED BY <2>1
<1>9. subStructs = CHOOSE f : Is(f)
  BY Zenon DEF subStructs, Added
<1>10. Is(subStructs)
  <2> HIDE DEF Is
  <2> QED BY <1>8, <1>9, Zenon
<1>11. \A S \in StructType : subStructs[S] = Body(subStructs, S) /\ g[S] = Body(g, S)
  <2> HIDE DEF Body
  <2> QED BY <1>8, <1>10
<1> DEFINE W == {n \in Nat : \A S \in StructType : Height[S] < n => subStructs[S] = g[S]}
<1>12. 0 \in W
  BY NestingAssumption
<1>13. ASSUME NEW n \in Nat, n \in W PROVE n + 1 \in W
  <2> SUFFICES ASSUME NEW S \in StructType, Height[S] < n + 1
               PROVE  subStructs[S] = g[S]
    OBVIOUS
  <2>1. ASSUME NEW R \in StructElements(S) PROVE subStructs[R] = g[R]
    <3>1. R \in StructType /\ Height[R] < Height[S] /\ Height[S] \in Nat /\ Height[R] \in Nat
      BY <1>5, NestingAssumption
    <3>2. Height[R] < n
      BY <3>1
    <3> QED BY <1>13, <3>1, <3>2
  <2>2. Body(subStructs, S) = Body(g, S)
    <3> HIDE DEF Body, W
    <3> QED BY <1>4, <2>1
  <2> QED BY <1>11, <2>2
<1>14. Nat \subseteq W
  <2> HIDE DEF W
  <2> QED BY <1>12, <1>13, Induction
<1>15. ASSUME NEW S \in StructType PROVE subStructs[S] = g[S]
  <2>1. Height[S] \in Nat /\ Height[S] + 1 \in Nat /\ Height[S] < Height[S] + 1
    BY NestingAssumption
  <2> QED BY <1>14, <2>1
<1>16. subStructs \in [StructType -> V]
  <2>1. subStructs = [S \in StructType |-> subStructs[S]]
    <3> HIDE DEF Body
    <3> QED BY <1>10
  <2> HIDE DEF V
  <2> QED BY <1>15, <2>1
<1> QED BY <1>11, <1>16

(* What addSubStructs finds is lower: no type is among its own.            *)
LEMMA SubStructsLower ==
    ASSUME NEW S \in StructType, NEW U \in addSubStructs(S), U # NoType
    PROVE  U \in StructType /\ Height[U] < Height[S]
<1> DEFINE W == {n \in Nat : \A R \in StructType : Height[R] < n =>
                    \A X \in subStructs[R] \ {NoType} : Height[X] < Height[R]}
<1>1. 0 \in W
  BY NestingAssumption
<1>2. ASSUME NEW n \in Nat, n \in W PROVE n + 1 \in W
  <2> SUFFICES ASSUME NEW R \in StructType, Height[R] < n + 1,
                      NEW X \in subStructs[R] \ {NoType}
               PROVE  Height[X] < Height[R]
    OBVIOUS
  <2>1. PICK E \in StructElements(R) : X \in {E} \cup subStructs[E] \cup Added(E)
    BY SubStructsDef
  <2>2. /\ E \in StructType /\ E # NoType
        /\ \A D \in {E, findNonBaseType(E)} \ {NoType} : Height[D] < Height[R]
    BY NestingAssumption, StructLayoutAssumption DEF StructElements
  <2>3. CASE X \in subStructs[E]
    <3>1. /\ Height[E] < Height[R] /\ Height[E] \in Nat /\ Height[R] \in Nat
          /\ X \in StructType /\ Height[X] \in Nat
      BY <2>2, <2>3, NestingAssumption, SubStructsDef DEF Maybe
    <3>2. Height[E] < n
      BY <3>1
    <3>3. Height[X] < Height[E]
      BY <1>2, <2>2, <2>3, <3>2
    <3> QED BY <3>1, <3>3
  <2>4. CASE X \in {E} \cup Added(E)
    BY <2>2, <2>4 DEF Added
  <2> QED BY <2>1, <2>3, <2>4
<1>3. Nat \subseteq W
  <2> HIDE DEF W
  <2> QED BY <1>1, <1>2, Induction
<1>4. Height[S] \in Nat /\ Height[S] + 1 \in Nat /\ Height[S] < Height[S] + 1
  BY NestingAssumption
<1>5. U \in subStructs[S] \ {NoType} /\ U \in StructType
  BY SubStructsDef DEF addSubStructs, Maybe
<1> QED BY <1>3, <1>4, <1>5

(* It finds every struct inside, and the class of every base type.         *)
LEMMA SubStructsComplete ==
    ASSUME NEW S \in StructType, NEW p \in Places(S)
    PROVE  LET E == TypeAt(S, p)
           IN  E \in addSubStructs(S) /\ Added(E) \subseteq addSubStructs(S)
<1> DEFINE Has(R, E) == E \in subStructs[R] /\ Added(E) \subseteq subStructs[R]
           W == {n \in Nat : \A R \in StructType : \A q \in Seq(Nat) :
                    Len(q) = n /\ q # <<>> /\ TypeAt(R, q) \in StructType
                        => Has(R, TypeAt(R, q))}
<1>1. 0 \in W
  OBVIOUS
<1>2. ASSUME NEW m \in Nat, m \in W PROVE m + 1 \in W
  <2> SUFFICES ASSUME NEW R \in StructType, NEW r \in Seq(Nat), Len(r) = m + 1,
                      TypeAt(R, r) \in StructType
               PROVE  Has(R, TypeAt(R, r))
    OBVIOUS
  <2>1. PICK n \in Nat, q \in Seq(Nat) : r = <<n>> \o q /\ Len(r) = Len(q) + 1
    <3>1. r # <<>>
      OBVIOUS
    <3> QED BY <3>1, FirstStep
  <2>2. Len(q) = m /\ R \in Maybe /\ <<n>> \in Seq(Nat)
    BY <2>1 DEF Maybe
  <2> DEFINE E == Element(R, n)
  <2>3. TypeAt(R, r) = TypeAt(E, q) /\ E \in Maybe
    <3>1. TypeAt(R, <<n>> \o q) = TypeAt(TypeAt(R, <<n>>), q)
      BY <2>2, TypeAtConcat
    <3>2. TypeAt(R, <<n>>) = E
      BY <2>2, TypeAtOne
    <3> QED BY <2>1, <3>1, <3>2, ElementType
  <2> HIDE DEF E
  <2>4. E \in StructType
    BY <2>3, AlongHeights
  <2>5. E \in StructElements(R)
    BY <2>4, ElementOf DEF E
  <2>6. {E} \cup subStructs[E] \cup Added(E) \subseteq subStructs[R]
    BY <2>5, SubStructsDef
  <2>7. CASE q = <<>>
    <3>1. TypeAt(R, r) = E
      BY <2>3, <2>7, TypeAtEmpty
    <3> QED BY <2>6, <3>1
  <2>8. CASE q # <<>>
    <3>1. Has(E, TypeAt(E, q))
      <4> HIDE DEF Has
      <4> QED BY <1>2, <2>2, <2>3, <2>4, <2>8
    <3> QED BY <2>3, <2>6, <3>1
  <2> QED BY <2>7, <2>8
<1>3. Nat \subseteq W
  <2> HIDE DEF W
  <2> QED BY <1>1, <1>2, Induction
<1>4. p \in Seq(Nat) /\ p # <<>> /\ TypeAt(S, p) \in StructType /\ Len(p) \in Nat
  BY PlacesExact
<1>5. Has(S, TypeAt(S, p))
  <2> HIDE DEF Has
  <2> QED BY <1>3, <1>4
<1> QED BY <1>5 DEF addSubStructs

-----------------------------------------------------------------------------
(* The layout prefix of the code and that of the definitions are the same. *)
LEMMA PrefixIs ==
    ASSUME NEW E \in StructType, NEW S \in StructType
    PROVE  IsPrefix(Elements[E], Elements[S]) <=> IsLayoutPrefix(E, S)
<1> DEFINE e == Elements[E]
           s == Elements[S]
<1>1. e \in Seq(StructType \cup Scalar) /\ s \in Seq(StructType \cup Scalar)
  BY StructLayoutAssumption
<1> HIDE DEF e, s
<1>2. Len(e) \in Nat /\ Len(s) \in Nat /\ DOMAIN e = 1 .. Len(e)
  BY <1>1
<1>3. ASSUME Len(e) <= Len(s)
      PROVE  SubSeq(e, 1, Len(e)) = SubSeq(s, 1, Len(e)) <=> \A k \in 1 .. Len(e) : e[k] = s[k]
  <2>1. SubSeq(e, 1, Len(e)) = e
    BY <1>1
  <2>2. /\ Len(SubSeq(s, 1, Len(e))) = Len(e)
        /\ SubSeq(s, 1, Len(e)) \in Seq(StructType \cup Scalar)
        /\ \A k \in 1 .. Len(e) : SubSeq(s, 1, Len(e))[k] = s[k]
    BY <1>1, <1>2, <1>3
  <2> QED BY <1>1, <2>1, <2>2
<1> QED BY <1>2, <1>3 DEF IsPrefix, IsLayoutPrefix, e, s

(* A type that stands for a class is accepted for it.                      *)
LEMMA StandsAccepted ==
    ASSUME NEW E \in StructType, NEW S \in StructType, StandsFor(E, S)
    PROVE  Accepts(E, S)
<1>1. CASE E = S
  BY <1>1 DEF Accepts
<1>2. CASE E # S
  <2>1. /\ NameOf[E].base /\ NameOf[E].stem = NameOf[S].stem /\ ~NameOf[S].base
        /\ IsPrefix(Elements[E], Elements[S])
    BY <1>2 DEF StandsFor
  <2>2. isBaseType(E)
    BY <2>1, StructLayoutAssumption DEF isBaseType
  <2>3. IsLayoutPrefix(E, S)
    BY <2>1, PrefixIs
  <2> QED BY <2>2, <2>3 DEF Accepts
<1> QED BY <1>1, <1>2

LEMMA HeldAccepted ==
    ASSUME NEW S \in StructType, NEW R \in StructType, Holds(S, R), S # R
    PROVE  \E p \in Places(S) : Accepts(TypeAt(S, p), R)
<1>1. PICK p \in Places(S) : TypeAt(S, p) = R \/ StandsFor(TypeAt(S, p), R)
  BY DEF Holds
<1>2. TypeAt(S, p) \in StructType
  BY PlacesExact
<1> QED BY <1>1, <1>2, StandsAccepted DEF StandsFor

(* If an S holds an R, addSubStructs finds R in S, and not S in R.         *)
LEMMA HeldIsBelow ==
    ASSUME NEW S \in StructType, NEW R \in StructType, Holds(S, R), S # R
    PROVE  R \in addSubStructs(S) /\ S \notin addSubStructs(R)
<1>1. R \in addSubStructs(S)
  <2>1. PICK p \in Places(S) :
           LET E == TypeAt(S, p)
           IN  \/ E = R
               \/ StandsFor(E, R) /\ NameOf[E].number = 0 /\ NameOf[R].number = 0
    BY DEF Holds
  <2> DEFINE E == TypeAt(S, p)
  <2>2. E \in StructType /\ E \in addSubStructs(S) /\ Added(E) \subseteq addSubStructs(S)
    BY PlacesExact, SubStructsComplete
  <2>3. CASE E # R
    <3> HIDE DEF E
    <3>1. /\ NameOf[E].base /\ NameOf[E].stem = NameOf[R].stem /\ ~NameOf[R].base
          /\ NameOf[E].number = 0 /\ NameOf[R].number = 0
      BY <2>1, <2>3 DEF StandsFor, E
    <3>2. isBaseType(E)
      BY <2>2, <3>1, StructLayoutAssumption DEF isBaseType
    <3>3. NameOf[R] = [NameOf[E] EXCEPT !.base = FALSE]
      <4>1. /\ NameOf[R] \in [stem : STRING, base : BOOLEAN, number : Nat]
            /\ NameOf[E] \in [stem : STRING, base : BOOLEAN, number : Nat]
        BY <2>2, StructLayoutAssumption
      <4> QED BY <3>1, <4>1
    <3>4. findNonBaseType(E) = R
      <4> DEFINE found == { D \in StructType : /\ NameOf[E].number = 0
                                               /\ NameOf[D] = [NameOf[E] EXCEPT !.base = FALSE] }
      <4>1. R \in found
        BY <3>1, <3>3
      <4>2. \A D \in found : D = R
        BY <3>3, StructLayoutAssumption
      <4>3. findNonBaseType(E) = CHOOSE D \in found : TRUE
        BY <4>1 DEF findNonBaseType
      <4> HIDE DEF found
      <4> QED BY <4>1, <4>2, <4>3
    <3>5. R \in Added(E)
      BY <3>2, <3>4 DEF Added
    <3> QED BY <2>2, <3>5
  <2> QED BY <2>2, <2>3
<1>2. S # NoType /\ R # NoType
  BY StructLayoutAssumption
<1>3. Height[R] < Height[S]
  BY <1>1, <1>2, SubStructsLower
<1>4. ASSUME S \in addSubStructs(R) PROVE FALSE
  <2>1. Height[S] < Height[R]
    BY <1>2, <1>4, SubStructsLower
  <2> QED BY <1>3, <2>1, NestingAssumption
<1> QED BY <1>1, <1>4

-----------------------------------------------------------------------------
(* The order in which the search visits places.                            *)
LEMMA Order ==
    /\ \A m, n \in Nat : m # n => m < n \/ n < m
    /\ \A m, n \in Nat : m <= n /\ n <= m => m = n
    /\ \A m \in Nat : ~(m < m)
    /\ \A l, m, n \in Nat : l <= m /\ m < n /\ n <= l + 1 => m = l /\ n = l + 1
OBVIOUS

LEMMA BeforeParts ==
    ASSUME NEW p \in Seq(Nat), NEW q \in Seq(Nat)
    PROVE  /\ Len(p) < Len(q) => Before(p, q)
           /\ Before(p, q) => Len(p) <= Len(q)
           /\ Before(p, q) /\ Len(p) = Len(q) =>
                \E k \in 1 .. Len(p) : p[k] < q[k] /\ \A j \in 1 .. k - 1 : p[j] = q[j]
<1>1. Len(p) \in Nat /\ Len(q) \in Nat /\ DOMAIN p = 1 .. Len(p)
  OBVIOUS
<1>2. Len(p) < Len(q) => Before(p, q)
  BY DEF Before
<1>3. Before(p, q) => Len(p) < Len(q) \/ Len(p) = Len(q)
  BY Zenon DEF Before
<1>4. ASSUME Before(p, q), Len(p) = Len(q)
      PROVE  \E k \in 1 .. Len(p) : p[k] < q[k] /\ \A j \in 1 .. k - 1 : p[j] = q[j]
  <2>1. ~(Len(p) < Len(q))
    BY <1>1, <1>4
  <2> QED BY <1>1, <1>4, <2>1, Zenon DEF Before
<1> QED BY <1>1, <1>2, <1>3, <1>4

LEMMA BeforeTotal ==
    ASSUME NEW p \in Seq(Nat), NEW q \in Seq(Nat), p # q
    PROVE  Before(p, q) \/ Before(q, p)
<1>1. Len(p) \in Nat /\ Len(q) \in Nat /\ DOMAIN p = 1 .. Len(p) /\ DOMAIN q = 1 .. Len(q)
  OBVIOUS
<1>2. CASE Len(p) # Len(q)
  <2>1. Len(p) < Len(q) \/ Len(q) < Len(p)
    BY <1>1, <1>2, Order, Zenon
  <2> QED BY <2>1, BeforeParts
<1>3. CASE Len(p) = Len(q)
  <2> DEFINE Differ == { k \in Nat : k \in 1 .. Len(p) /\ p[k] # q[k] }
  <2>1. Differ # {}
    <3>1. p = [k \in 1 .. Len(p) |-> p[k]] /\ q = [k \in 1 .. Len(q) |-> q[k]]
      <4>1. p \in [1 .. Len(p) -> Nat] /\ q \in [1 .. Len(q) -> Nat]
        BY <1>1
      <4> QED BY <4>1, Zenon
    <3>2. ~\A k \in 1 .. Len(p) : p[k] = q[k]
      BY <1>3, <3>1, Zenon
    <3>3. 1 .. Len(p) \subseteq Nat
      BY <1>1
    <3> QED BY <3>2, <3>3, Zenon
  <2>2. PICK k \in Differ : \A j \in Differ : k <= j
    <3> Differ \in SUBSET Nat
      OBVIOUS
    <3> HIDE DEF Differ
    <3> QED BY <2>1, Least
  <2>3. \A j \in 1 .. k - 1 : p[j] = q[j]
    BY <1>1, <2>2
  <2>4. p[k] \in Nat /\ q[k] \in Nat /\ p[k] # q[k] /\ k \in DOMAIN p /\ k \in DOMAIN q
    BY <1>1, <1>3, <2>2
  <2>5. p[k] < q[k] \/ q[k] < p[k]
    BY <2>4
  <2> QED BY <1>3, <2>3, <2>4, <2>5 DEF Before
<1> QED BY <1>2, <1>3

LEMMA BeforeAsymmetric ==
    ASSUME NEW p \in Seq(Nat), NEW q \in Seq(Nat), Before(p, q), Before(q, p)
    PROVE  FALSE
<1>1. Len(p) \in Nat /\ Len(q) \in Nat /\ DOMAIN p = 1 .. Len(p) /\ DOMAIN q = 1 .. Len(q)
  OBVIOUS
<1>2. Len(p) = Len(q)
  <2>1. Len(p) <= Len(q) /\ Len(q) <= Len(p)
    BY BeforeParts
  <2> QED BY <1>1, <2>1, Order, Zenon
<1>3. PICK k \in 1 .. Len(p) : p[k] < q[k] /\ \A j \in 1 .. k - 1 : p[j] = q[j]
  BY <1>2, BeforeParts
<1>4. PICK l \in 1 .. Len(p) : q[l] < p[l] /\ \A j \in 1 .. l - 1 : q[j] = p[j]
  BY <1>2, BeforeParts
<1>5. \A m \in 1 .. Len(p) : p[m] \in Nat /\ q[m] \in Nat
  <2>1. p \in [1 .. Len(p) -> Nat] /\ q \in [1 .. Len(q) -> Nat]
    BY <1>1
  <2> QED BY <1>2, <2>1, Zenon
<1>6. CASE k = l
  BY <1>3, <1>4, <1>5, <1>6
<1>7. CASE k < l
  BY <1>1, <1>3, <1>4, <1>5, <1>7
<1>8. CASE l < k
  BY <1>1, <1>3, <1>4, <1>5, <1>8
<1> QED BY <1>6, <1>7, <1>8

LEMMA BeforeAppend ==
    ASSUME NEW p \in Seq(Nat), NEW q \in Seq(Nat), Before(p, q), NEW m \in Nat, NEW n \in Nat
    PROVE  Before(Append(p, m), Append(q, n))
<1> DEFINE a == Append(p, m)
           b == Append(q, n)
<1>1. Len(p) \in Nat /\ Len(q) \in Nat /\ DOMAIN p = 1 .. Len(p)
  OBVIOUS
<1>2. /\ Len(a) = Len(p) + 1 /\ DOMAIN a = 1 .. Len(p) + 1 /\ \A k \in 1 .. Len(p) : a[k] = p[k]
      /\ Len(b) = Len(q) + 1 /\ \A k \in 1 .. Len(q) : b[k] = q[k]
  OBVIOUS
<1> HIDE DEF a, b
<1>3. CASE Len(p) < Len(q)
  BY <1>1, <1>2, <1>3 DEF Before, a, b
<1>4. CASE Len(p) = Len(q)
  <2>1. PICK k \in 1 .. Len(p) : p[k] < q[k] /\ \A j \in 1 .. k - 1 : p[j] = q[j]
    BY <1>1, <1>4 DEF Before
  <2>2. k \in DOMAIN a /\ a[k] < b[k] /\ \A j \in 1 .. k - 1 : a[j] = b[j]
    BY <1>1, <1>2, <1>4, <2>1
  <2>3. Before(a, b)
    BY <1>2, <1>4, <2>2 DEF Before
  <2> QED BY <2>3 DEF a, b
<1> QED BY <1>1, <1>3, <1>4 DEF Before

(* p leads into the object at q.                                           *)
Below(q, p) == Len(q) < Len(p) /\ \A k \in 1 .. Len(q) : p[k] = q[k]

(* What is inside the objects after h comes after what is one step below h. *)
LEMMA BelowLater ==
    ASSUME NEW h \in Seq(Nat), NEW g \in Seq(Nat), NEW p \in Seq(Nat), NEW n \in Nat,
           Before(h, g), Below(g, p)
    PROVE  ~Before(p, Append(h, n))
<1> DEFINE a == Append(h, n)
<1> SUFFICES ASSUME Before(p, a) PROVE FALSE
  OBVIOUS
<1>1. /\ Len(h) \in Nat /\ Len(g) \in Nat /\ Len(p) \in Nat
      /\ DOMAIN h = 1 .. Len(h) /\ DOMAIN p = 1 .. Len(p)
  OBVIOUS
<1>2. a \in Seq(Nat) /\ Len(a) = Len(h) + 1 /\ \A k \in 1 .. Len(h) : a[k] = h[k]
  OBVIOUS
<1> HIDE DEF a
<1>3. Len(g) = Len(h) /\ Len(p) = Len(h) + 1
  <2>1. Len(h) <= Len(g) /\ Len(p) <= Len(h) + 1
    BY <1>2, BeforeParts
  <2>2. Len(g) < Len(p)
    BY DEF Below
  <2> QED BY <1>1, <2>1, <2>2, Order, Zenon
<1>4. PICK k \in 1 .. Len(h) : h[k] < g[k] /\ \A j \in 1 .. k - 1 : h[j] = g[j]
  BY <1>3, BeforeParts
<1>5. PICK l \in 1 .. Len(p) : p[l] < a[l] /\ \A j \in 1 .. l - 1 : p[j] = a[j]
  BY <1>2, <1>3, BeforeParts
<1>6. \A m \in 1 .. Len(h) : p[m] = g[m] /\ a[m] = h[m]
  BY <1>2, <1>3 DEF Below
<1>7. \A m \in 1 .. Len(h) : h[m] \in Nat /\ g[m] \in Nat
  <2>1. \A m \in 1 .. Len(g) : g[m] \in Nat
    OBVIOUS
  <2>2. \A m \in 1 .. Len(h) : h[m] \in Nat
    OBVIOUS
  <2> QED BY <1>3, <2>1, <2>2
<1>8. CASE k = l
  BY <1>4, <1>5, <1>6, <1>7, <1>8
<1>9. CASE k < l
  <2>1. k \in 1 .. l - 1
    BY <1>1, <1>9
  <2>2. p[k] = a[k] /\ p[k] = g[k] /\ a[k] = h[k]
    BY <1>5, <1>6, <2>1
  <2>3. h[k] < h[k] /\ h[k] \in Nat
    BY <1>4, <1>7, <2>2, Zenon
  <2> QED BY <2>3, Order, Zenon
<1>10. CASE l < k
  <2>1. l \in 1 .. Len(h) /\ l \in 1 .. k - 1
    BY <1>1, <1>10
  <2> QED BY <1>4, <1>5, <1>6, <1>7, <2>1
<1> QED BY <1>8, <1>9, <1>10

-----------------------------------------------------------------------------
(* The class loop: what it has collected of the entry at hand.             *)
ListEntry == [name : STRING, methods : Seq(MethodEntry)]
Seen == { Entry.methods[k] : k \in 1 .. i - 1 }

Collecting ==
    /\ rest \in Seq(ListEntry) /\ Entry.methods \in Seq(MethodEntry)
    /\ HasUnknownMethod \in BOOLEAN
    /\ at \in {"collect", "filter"} => T = NoType
    /\ at # "next" =>
          /\ PublicConstMethods = { ME \in Seen : ME.body = "defined" /\ ~ME.debug }
          /\ HasUnknownMethod \/ \A ME \in Seen : ME.body # "empty"
    /\ at \notin {"choose", "again"} => left = {}
    /\ at = "collect" => ~HasUnknownMethod
    /\ at = "filter" => HasUnknownMethod \/ i = Len(Entry.methods) + 1
    /\ at \in {"choose", "again", "analyze"} =>
          /\ ~HasUnknownMethod /\ i = Len(Entry.methods) + 1 /\ PublicConstMethods # {}

(* The type it has chosen so far: one that holds all the others has been   *)
(* chosen, or a method of it is still to be visited.                       *)
HoldsAll(S, methods) ==
    (\E F \in methods : F.this = S) /\ \A F \in methods : Holds(S, F.this)
HasRenamed(methods) == \E F \in methods : NameOf[F.this] = Renamed118
MostDerived(U, methods) ==
    HasRenamed(methods) \/ \A S \in StructType : HoldsAll(S, methods) => U = S

Choosing ==
    /\ T = NoType \/ \E F \in PublicConstMethods : T = F.this
    /\ at = "choose" =>
          /\ T = NoType => left = PublicConstMethods
          /\ \A S \in StructType : HoldsAll(S, PublicConstMethods) =>
                T = S \/ \E F \in left : F.this = S
    /\ at = "again" => T # NoType /\ HasRenamed(PublicConstMethods)
    /\ at = "analyze" => T # NoType /\ MostDerived(T, PublicConstMethods)

Analysing ==
    /\ analysed \subseteq MethodEntry
    /\ CurrentType # NoType => CurrentType \in ThisTypes /\ MostDerived(CurrentType, analysed)
    /\ InAnalysis => CurrentType = T

LoopInv == Loop!TypeOK /\ Collecting /\ Choosing /\ Analysing

LEMMA PublicMethodsType ==
    ASSUME NEW p \in Seq(ListEntry)
    PROVE  Loop!getPublicMethods(p) \in Seq(ListEntry)
<1> DEFINE N == Len(p)
           V == Seq(ListEntry)
           Body(s, n) == IF p[n].methods # <<>> THEN Append(s, p[n]) ELSE s
           F == [n \in 1 .. N |-> [s \in V |-> Body(s, n)]]
           Is(f) == f = [n \in 0 .. N |-> IF n = 0 THEN <<>> ELSE Body(f[n - 1], n)]
<1>1. N \in Nat /\ <<>> \in V
  OBVIOUS
<1>2. \A s \in V, n \in 1 .. N : Body(s, n) \in V
  <2>1. \A n \in 1 .. N : p[n] \in ListEntry
    OBVIOUS
  <2>2. \A s \in V, e \in ListEntry : Append(s, e) \in V
    OBVIOUS
  <2> HIDE DEF V
  <2> QED BY <2>1, <2>2
<1> HIDE DEF Body, V, N
<1>3. F \in [1 .. N -> [V -> V]]
  BY <1>2
<1>4. PICK g \in [0 .. N -> V] : Steps(g, N, <<>>, F)
  <2> HIDE DEF F
  <2> QED BY <1>1, <1>3, StepsUpTo
<1>5. Is(g)
  <2>1. \A n \in 0 .. N : n # 0 => n \in 1 .. N /\ g[n - 1] \in V
    BY <1>1
  <2>2. g = [n \in 0 .. N |-> IF n = 0 THEN <<>> ELSE F[n][g[n - 1]]]
    BY <1>4, Zenon DEF Steps
  <2>3. \A n \in 0 .. N : n # 0 => F[n][g[n - 1]] = Body(g[n - 1], n)
    BY <2>1
  <2> HIDE DEF F
  <2> QED BY <2>2, <2>3
<1> DEFINE d == CHOOSE f : Is(f)
<1>6. Is(d)
  <2> HIDE DEF Is
  <2> QED BY <1>5, Zenon
<1>7. Loop!getPublicMethods(p) = d[N]
  BY Zenon DEF Loop!getPublicMethods, Body, N
<1> HIDE DEF d
<1> DEFINE W == {n \in Nat : n <= N => d[n] \in V}
<1>8. 0 \in W
  BY <1>1, <1>6
<1>9. ASSUME NEW n \in Nat, n \in W PROVE n + 1 \in W
  <2> SUFFICES ASSUME n + 1 <= N PROVE d[n + 1] \in V
    OBVIOUS
  <2>1. n + 1 \in 1 .. N /\ (n + 1) - 1 = n /\ d[n] \in V
    BY <1>1, <1>9
  <2>2. d[n + 1] = Body(d[(n + 1) - 1], n + 1)
    <3>1. \A k \in 1 .. N : d[k] = Body(d[k - 1], k)
      BY <1>1, <1>6
    <3> HIDE DEF W, Is
    <3> QED BY <2>1, <3>1, Zenon
  <2>3. Body(d[n], n + 1) \in V
    BY <1>2, <2>1
  <2> HIDE DEF W, Is
  <2> QED BY <2>1, <2>2, <2>3
<1>10. Nat \subseteq W
  <2> HIDE DEF W
  <2> QED BY <1>8, <1>9, Induction
<1>11. d[N] \in V
  BY <1>1, <1>10
<1> QED BY <1>7, <1>11 DEF V

LEMMA LoopInit == Init => LoopInv
<1> SUFFICES ASSUME Init PROVE LoopInv
  OBVIOUS
<1>1. PICK p \in Packages : rest = Loop!getPublicMethods(p)
  BY DEF Init
<1>2. rest \in Seq(ListEntry)
  <2>1. p \in Seq(ListEntry)
    BY PackagesAssumption DEF ListEntry
  <2> QED BY <1>1, <2>1, PublicMethodsType
<1>3. /\ at = "next" /\ Entry = Loop!NoEntry /\ i = 1 /\ PublicConstMethods = {}
      /\ HasUnknownMethod = FALSE /\ left = {} /\ T = NoType /\ analysed = {}
      /\ CurrentType = NoType
  BY DEF Init, Object!Init
<1>4. Entry.methods \in Seq(MethodEntry) /\ Len(Entry.methods) = 0
  <2>1. Entry.methods = <<>>
    BY <1>3 DEF Loop!NoEntry
  <2> QED BY <2>1
<1>5. Loop!TypeOK
  BY <1>3, <1>4 DEF Loop!TypeOK
<1>6. Collecting
  BY <1>2, <1>3, <1>4 DEF Collecting
<1>7. Choosing /\ Analysing
  BY <1>3 DEF Choosing, Analysing, InAnalysis
<1> QED BY <1>5, <1>6, <1>7 DEF LoopInv

(* The methods of an entry, and those of it that have been visited.        *)
LEMMA EntryMethods ==
    ASSUME LoopInv
    PROVE  /\ Len(Entry.methods) \in Nat /\ DOMAIN Entry.methods = 1 .. Len(Entry.methods)
           /\ i \in 1 .. Len(Entry.methods) + 1
           /\ \A k \in 1 .. Len(Entry.methods) : Entry.methods[k] \in MethodEntry
           /\ Seen \subseteq { Entry.methods[k] : k \in DOMAIN Entry.methods }
           /\ PublicConstMethods \subseteq MethodEntry
<1>1. Entry.methods \in Seq(MethodEntry)
  BY DEF LoopInv, Collecting
<1>2. /\ Len(Entry.methods) \in Nat /\ DOMAIN Entry.methods = 1 .. Len(Entry.methods)
      /\ \A k \in 1 .. Len(Entry.methods) : Entry.methods[k] \in MethodEntry
  BY <1>1
<1>3. i \in 1 .. Len(Entry.methods) + 1
  BY DEF LoopInv, Loop!TypeOK
<1>4. \A k \in 1 .. i - 1 : k \in DOMAIN Entry.methods
  BY <1>2, <1>3
<1>5. Seen \subseteq { Entry.methods[k] : k \in DOMAIN Entry.methods }
  BY <1>4 DEF Seen
<1>6. PublicConstMethods \subseteq MethodEntry
  <2>1. PublicConstMethods \subseteq { Entry.methods[k] : k \in DOMAIN Entry.methods }
    BY DEF LoopInv, Loop!TypeOK
  <2> QED BY <1>2, <2>1
<1> QED BY <1>2, <1>3, <1>5, <1>6

LEMMA LoopUnchanged ==
    ASSUME LoopInv, UNCHANGED <<loopVars, CurrentType>>
    PROVE  LoopInv'
<1>1. Loop!TypeOK'
  BY DEF LoopInv, Loop!TypeOK, loopVars
<1>2. Seen' = Seen
  BY DEF Seen, loopVars
<1>3. Collecting'
  BY <1>2 DEF LoopInv, Collecting, loopVars
<1>4. Choosing'
  BY DEF LoopInv, Choosing, loopVars, HoldsAll, HasRenamed, MostDerived
<1>5. Analysing'
  BY DEF LoopInv, Analysing, loopVars, MostDerived, HoldsAll, HasRenamed, InAnalysis, ThisTypes
<1> QED BY <1>1, <1>3, <1>4, <1>5 DEF LoopInv

LEMMA NextEntryStep ==
    ASSUME LoopInv, Loop!NextEntry
    PROVE  LoopInv'
<1> USE DEF Loop!NextEntry
<1>1. rest \in Seq(ListEntry) /\ rest # <<>>
  BY DEF LoopInv, Collecting
<1>2. Head(rest) \in ListEntry /\ Tail(rest) \in Seq(ListEntry)
  BY <1>1
<1>3. Head(rest).methods \in Seq(MethodEntry) /\ Len(Head(rest).methods) \in Nat
  BY <1>2 DEF ListEntry
<1>4. left' = {}
  BY DEF LoopInv, Collecting
<1>5. Loop!TypeOK'
  BY <1>3, <1>4 DEF LoopInv, Loop!TypeOK
<1>6. Seen' = {}
  BY DEF Seen
<1>7. Collecting'
  BY <1>2, <1>3, <1>4, <1>6 DEF Collecting
<1>8. Choosing'
  BY DEF Choosing
<1>9. Analysing'
  BY DEF LoopInv, Analysing, MostDerived, HoldsAll, HasRenamed, InAnalysis, ThisTypes
<1> QED BY <1>5, <1>7, <1>8, <1>9 DEF LoopInv

(* Outside "next" and "analyze", nothing is said about the class analysed. *)
LEMMA AnalysingKept ==
    ASSUME LoopInv, UNCHANGED <<CurrentType, analysed>>, at' # "next"
    PROVE  Analysing'
BY DEF LoopInv, Analysing, MostDerived, HoldsAll, HasRenamed, InAnalysis, ThisTypes

LEMMA CollectStep ==
    ASSUME LoopInv, Loop!Collect
    PROVE  LoopInv'
<1> DEFINE ME == Entry.methods[i]
<1>1. /\ i \in 1 .. Len(Entry.methods) /\ i' = i + 1 /\ at = "collect"
      /\ HasUnknownMethod' = (ME.body = "empty")
      /\ at' = IF ME.body = "empty" THEN "filter" ELSE "collect"
      /\ PublicConstMethods' = IF ME.body = "defined" /\ ~ME.debug
                               THEN PublicConstMethods \cup {ME} ELSE PublicConstMethods
      /\ UNCHANGED <<rest, Entry, left, T, CurrentType, analysed>>
  BY EntryMethods DEF Loop!Collect
<1>2. Len(Entry.methods) \in Nat /\ DOMAIN Entry.methods = 1 .. Len(Entry.methods)
  BY EntryMethods
<1>3. /\ PublicConstMethods = { M \in Seen : M.body = "defined" /\ ~M.debug }
      /\ \A M \in Seen : M.body # "empty"
      /\ left = {} /\ T = NoType
  BY <1>1 DEF LoopInv, Collecting
<1>4. Seen' = Seen \cup {ME}
  <2>1. 1 .. i' - 1 = (1 .. i - 1) \cup {i}
    BY <1>1, <1>2
  <2> QED BY <1>1, <2>1 DEF Seen
<1> HIDE DEF ME
<1>5. PublicConstMethods' = { M \in Seen' : M.body = "defined" /\ ~M.debug }
  BY <1>1, <1>3, <1>4
<1>6. PublicConstMethods' \subseteq { Entry.methods[k] : k \in DOMAIN Entry.methods }
  BY <1>1, <1>2 DEF LoopInv, Loop!TypeOK, ME
<1>7. Loop!TypeOK'
  <2>1. i' \in 1 .. Len(Entry.methods) + 1
    BY <1>1, <1>2
  <2> QED BY <1>1, <1>3, <1>6, <2>1 DEF LoopInv, Loop!TypeOK
<1>8. Collecting'
  <2>1. HasUnknownMethod' \/ \A M \in Seen' : M.body # "empty"
    BY <1>1, <1>3, <1>4
  <2>2. rest' \in Seq(ListEntry) /\ Entry'.methods \in Seq(MethodEntry)
    BY <1>1 DEF LoopInv, Collecting
  <2> QED BY <1>1, <1>3, <1>5, <2>1, <2>2 DEF Collecting
<1>9. Choosing'
  BY <1>1, <1>3 DEF Choosing
<1>10. Analysing'
  BY <1>1, AnalysingKept
<1> QED BY <1>7, <1>8, <1>9, <1>10 DEF LoopInv

LEMMA CollectedStep ==
    ASSUME LoopInv, Loop!Collected
    PROVE  LoopInv'
<1> USE DEF Loop!Collected
<1>1. i = Len(Entry.methods) + 1
  BY EntryMethods
<1>2. Seen' = Seen
  BY DEF Seen
<1>3. Loop!TypeOK'
  BY DEF LoopInv, Loop!TypeOK
<1>4. Collecting'
  BY <1>1, <1>2 DEF LoopInv, Collecting
<1>5. Choosing'
  BY DEF LoopInv, Collecting, Choosing
<1>6. Analysing'
  BY AnalysingKept
<1> QED BY <1>3, <1>4, <1>5, <1>6 DEF LoopInv

LEMMA FilterStep ==
    ASSUME LoopInv, Loop!Filter
    PROVE  LoopInv'
<1> USE DEF Loop!Filter
<1>1. left = {} /\ T = NoType /\ T' = NoType
  BY DEF LoopInv, Collecting
<1>2. Seen' = Seen
  BY DEF Seen
<1>3. Loop!TypeOK'
  BY <1>1 DEF LoopInv, Loop!TypeOK
<1>4. CASE at' = "next"
  <2>1. Collecting'
    BY <1>1, <1>4 DEF LoopInv, Collecting
  <2>2. Choosing'
    BY <1>1, <1>4 DEF Choosing
  <2>3. Analysing'
    BY <1>1, <1>4
       DEF LoopInv, Analysing, MostDerived, HoldsAll, HasRenamed, InAnalysis, ThisTypes
  <2> QED BY <1>3, <2>1, <2>2, <2>3 DEF LoopInv
<1>5. CASE at' # "next"
  <2>1. /\ at' = "choose" /\ left' = PublicConstMethods
        /\ PublicConstMethods # {} /\ ~HasUnknownMethod
    BY <1>5 DEF Loop!NotWhole
  <2>2. Collecting'
    BY <1>1, <1>2, <2>1 DEF LoopInv, Collecting
  <2>3. Choosing'
    BY <1>1, <2>1 DEF Choosing, HoldsAll
  <2>4. Analysing'
    BY <1>5, AnalysingKept
  <2> QED BY <1>3, <2>2, <2>3, <2>4 DEF LoopInv
<1> QED BY <1>4, <1>5

LEMMA ChooseTypeStep ==
    ASSUME LoopInv, Loop!ChooseType
    PROVE  LoopInv'
<1>1. PICK F \in left : Loop!Choose(F) /\ left' = left \ {F}
  BY DEF Loop!ChooseType
<1>2. /\ at = "choose" /\ at' = "choose"
      /\ UNCHANGED <<rest, Entry, i, PublicConstMethods, HasUnknownMethod, CurrentType, analysed>>
  BY DEF Loop!ChooseType
<1>3. T' = IF T = NoType \/ T \in addSubStructs(F.this) THEN F.this ELSE T
  BY <1>1, LoopOperators DEF Loop!Choose
<1>4. left \subseteq PublicConstMethods /\ F.this \in StructType
      /\ PublicConstMethods \subseteq MethodEntry
  BY EntryMethods DEF LoopInv, Loop!TypeOK, MethodEntry
<1>5. F.this # NoType
  BY <1>4, StructLayoutAssumption
<1>6. T' # NoType /\ \E G \in PublicConstMethods : T' = G.this
  BY <1>3, <1>4, <1>5 DEF LoopInv, Choosing
<1>7. Loop!TypeOK'
  BY <1>1, <1>2, <1>3, <1>4 DEF LoopInv, Loop!TypeOK
<1>8. Seen' = Seen
  BY <1>2 DEF Seen
<1>9. Collecting'
  BY <1>2, <1>8 DEF LoopInv, Collecting
<1>10. ASSUME NEW S \in StructType, HoldsAll(S, PublicConstMethods)
       PROVE  T' = S \/ \E G \in left' : G.this = S
  <2>1. S # NoType
    BY StructLayoutAssumption
  <2>2. \A G \in PublicConstMethods : Holds(S, G.this) /\ G.this \in StructType
    BY <1>4, <1>10 DEF HoldsAll, MethodEntry
  <2>3. T = S \/ \E G \in left : G.this = S
    BY <1>2, <1>10 DEF LoopInv, Choosing
  <2>4. CASE F.this = S
    <3>1. T = NoType \/ T = S \/ T \in addSubStructs(S)
      BY <2>2, HeldIsBelow DEF LoopInv, Choosing
    <3> QED BY <1>3, <2>4, <3>1
  <2>5. CASE F.this # S /\ T = S
    BY <1>3, <1>4, <2>1, <2>2, <2>5, HeldIsBelow
  <2>6. CASE F.this # S /\ T # S
    BY <1>1, <2>3, <2>6
  <2> QED BY <2>4, <2>5, <2>6
<1>11. Choosing'
  BY <1>2, <1>6, <1>10 DEF Choosing, HoldsAll
<1>12. Analysing'
  BY <1>2, AnalysingKept
<1> QED BY <1>7, <1>9, <1>11, <1>12 DEF LoopInv

LEMMA ChosenStep ==
    ASSUME LoopInv, Loop!Chosen
    PROVE  LoopInv'
<1> USE DEF Loop!Chosen
<1>1. PublicConstMethods # {} /\ left = {}
  BY DEF LoopInv, Collecting
<1>2. T # NoType /\ \E F \in PublicConstMethods : T = F.this
  BY <1>1 DEF LoopInv, Choosing
<1>3. \A S \in StructType : HoldsAll(S, PublicConstMethods) => T = S
  BY <1>1 DEF LoopInv, Choosing
<1>4. Seen' = Seen
  BY DEF Seen
<1>5. Loop!TypeOK'
  BY <1>1, <1>2 DEF LoopInv, Loop!TypeOK
<1>6. Collecting'
  BY <1>1, <1>4 DEF LoopInv, Collecting
<1>7. Choosing'
  BY <1>2, <1>3 DEF Choosing, MostDerived, HoldsAll, HasRenamed
<1>8. Analysing'
  BY AnalysingKept
<1> QED BY <1>5, <1>6, <1>7, <1>8 DEF LoopInv

LEMMA ChooseAgainStep ==
    ASSUME LoopInv, Loop!ChooseAgain
    PROVE  LoopInv'
<1>1. /\ at = "again" /\ at' \in {"again", "analyze"}
      /\ UNCHANGED <<rest, Entry, i, PublicConstMethods, HasUnknownMethod, CurrentType, analysed>>
      /\ left' \subseteq left /\ (at' = "analyze" => left' = {})
      /\ T' = T \/ \E F \in left : T' = F.this
  BY DEF Loop!ChooseAgain
<1>2. left \subseteq PublicConstMethods /\ PublicConstMethods \subseteq MethodEntry
  BY EntryMethods DEF LoopInv, Loop!TypeOK
<1>3. \A F \in PublicConstMethods : F.this \in StructType
  BY <1>2 DEF MethodEntry
<1>4. T' # NoType /\ T' \in StructType /\ \E F \in PublicConstMethods : T' = F.this
  BY <1>1, <1>2, <1>3, StructLayoutAssumption DEF LoopInv, Choosing, Loop!TypeOK
<1>5. Seen' = Seen
  BY <1>1 DEF Seen
<1>6. Loop!TypeOK'
  BY <1>1, <1>2, <1>4 DEF LoopInv, Loop!TypeOK
<1>7. Collecting'
  BY <1>1, <1>5 DEF LoopInv, Collecting
<1>8. Choosing'
  BY <1>1, <1>4 DEF LoopInv, Choosing, MostDerived, HasRenamed
<1>9. Analysing'
  BY <1>1, AnalysingKept
<1> QED BY <1>6, <1>7, <1>8, <1>9 DEF LoopInv

LEMMA AnalyzeStep ==
    ASSUME LoopInv, Loop!Analyze
    PROVE  LoopInv'
<1> USE DEF Loop!Analyze
<1>1. T # NoType /\ T \in StructType /\ left = {} /\ MostDerived(T, PublicConstMethods)
  BY DEF LoopInv, Collecting, Choosing, Loop!TypeOK
<1>2. Loop!TypeOK'
  BY <1>1 DEF LoopInv, Loop!TypeOK
<1>3. Collecting'
  BY DEF LoopInv, Collecting
<1>4. Choosing'
  BY DEF LoopInv, Choosing
<1>5. Analysing'
  <2>1. PublicConstMethods \subseteq MethodEntry
    BY EntryMethods
  <2>2. \E F \in PublicConstMethods : T = F.this
    BY <1>1 DEF LoopInv, Choosing
  <2> QED BY <1>1, <2>1, <2>2
          DEF Analysing, MostDerived, HoldsAll, HasRenamed, InAnalysis, ThisTypes
<1> QED BY <1>2, <1>3, <1>4, <1>5 DEF LoopInv

LEMMA LoopShows == LoopInv => WholeClasses /\ MostDerivedChosen
<1> SUFFICES ASSUME LoopInv PROVE WholeClasses /\ MostDerivedChosen
  OBVIOUS
<1>1. ASSUME at = "analyze" PROVE Seen = { Entry.methods[k] : k \in DOMAIN Entry.methods }
  <2>1. i = Len(Entry.methods) + 1
    BY <1>1 DEF LoopInv, Collecting
  <2>2. 1 .. i - 1 = DOMAIN Entry.methods
    BY <2>1, EntryMethods
  <2> QED BY <2>2 DEF Seen
<1>2. \A M \in MethodEntry : M.body \in {"absent", "empty", "defined"}
  BY DEF MethodEntry
<1>3. Seen \subseteq MethodEntry
  BY EntryMethods
<1>4. ASSUME at = "analyze"
      PROVE  /\ PublicConstMethods = { M \in Seen : M.body = "defined" /\ ~M.debug }
             /\ \A M \in Seen : M.body # "empty"
  BY <1>4 DEF LoopInv, Collecting
<1>5. WholeClasses
  BY <1>1, <1>2, <1>3, <1>4 DEF WholeClasses, Loop!WholeClasses
<1>6. MostDerivedChosen
  <2> SUFFICES ASSUME at = "analyze",
                      \A F \in PublicConstMethods : NameOf[F.this] # Renamed118,
                      NEW S \in { F.this : F \in PublicConstMethods },
                      \A F \in PublicConstMethods : Holds(S, F.this)
               PROVE  T = S
    BY LoopOperators DEF MostDerivedChosen, Loop!MostDerivedChosen
  <2>1. MostDerived(T, PublicConstMethods)
    BY DEF LoopInv, Choosing
  <2>2. S \in StructType
    BY EntryMethods DEF MethodEntry
  <2> QED BY <2>1, <2>2 DEF MostDerived, HoldsAll, HasRenamed
<1> QED BY <1>5, <1>6

-----------------------------------------------------------------------------
(* The search: the queue is in the order of the places, and every place    *)
(* that would end the search is inside an object of the queue.             *)
QueueEntry == [Ty : StructType, Idx : Seq(Nat)]
Ordered(s) ==
    \A j, k \in 1 .. Len(s) : j < k =>
        /\ Before(s[j].Idx, s[k].Idx)
        /\ \A n \in Nat : Before(s[k].Idx, Append(s[j].Idx, n))
Covered(s, P) == \A p \in P : \E k \in 1 .. Len(s) : Below(s[k].Idx, p)
Fitting(S, R) ==
    { p \in Places(S) : Accepts(TypeAt(S, p), R) \/ NameOf[TypeAt(S, p)] = ABIInfo }

Searching ==
    result = "searching" =>
        /\ Q \in Seq(QueueEntry) /\ Ordered(Q) /\ Covered(Q, Fitting(from, SuperTy))
        /\ place = <<>>
SearchInv == Search!TypeOK /\ Searching /\ FindsNearest

(* What Descend puts at the end of the queue, from the first n elements.   *)
Child(E, n) == [Ty |-> Element(E.Ty, n), Idx |-> Append(E.Idx, n)]
Children(E, s, N) ==
    /\ s \in Seq(QueueEntry)
    /\ \A k \in 1 .. Len(s) :
          \E n \in 0 .. N - 1 : Element(E.Ty, n) \in StructType /\ s[k] = Child(E, n)
    /\ \A n \in 0 .. N - 1 : Element(E.Ty, n) \in StructType =>
          \E k \in 1 .. Len(s) : s[k] = Child(E, n)
    /\ \A j, k \in 1 .. Len(s) : j < k =>
          \E m, n \in Nat : m < n /\ s[j] = Child(E, m) /\ s[k] = Child(E, n)

LEMMA EnteredIs ==
    ASSUME NEW E \in QueueEntry
    PROVE  Children(E, Search!Entered(E), Len(Elements[E.Ty]))
<1> DEFINE N == Len(Elements[E.Ty])
           V == Seq(QueueEntry)
           Body(s, n) == IF Elements[E.Ty][n] \in StructType
                         THEN Append(s, [Ty |-> Elements[E.Ty][n], Idx |-> Append(E.Idx, n - 1)])
                         ELSE s
           F == [n \in 1 .. N |-> [s \in V |-> Body(s, n)]]
           Is(f) == f = [n \in 0 .. N |-> IF n = 0 THEN <<>> ELSE Body(f[n - 1], n)]
<1>1. /\ E.Ty \in StructType /\ E.Idx \in Seq(Nat) /\ Elements[E.Ty] \in Seq(StructType \cup Scalar)
      /\ N \in Nat /\ DOMAIN Elements[E.Ty] = 1 .. N /\ <<>> \in V
  BY StructLayoutAssumption DEF QueueEntry
<1>2. ASSUME NEW n \in 1 .. N
      PROVE  /\ n - 1 \in Nat /\ (n - 1) + 1 = n
             /\ Elements[E.Ty][n] \in StructType => Element(E.Ty, n - 1) = Elements[E.Ty][n]
             /\ Elements[E.Ty][n] \notin StructType => Element(E.Ty, n - 1) = NoType
  BY <1>1 DEF Element
<1>3. ASSUME NEW n \in 1 .. N, Elements[E.Ty][n] \in StructType
      PROVE  /\ [Ty |-> Elements[E.Ty][n], Idx |-> Append(E.Idx, n - 1)] = Child(E, n - 1)
             /\ Child(E, n - 1) \in QueueEntry
  <2>1. Append(E.Idx, n - 1) \in Seq(Nat)
    BY <1>1, <1>2
  <2> QED BY <1>2, <1>3, <2>1 DEF Child, QueueEntry
<1>4. \A s \in V, n \in 1 .. N : Body(s, n) \in V
  <2>1. \A s \in V, e \in QueueEntry : Append(s, e) \in V
    OBVIOUS
  <2> HIDE DEF V, N
  <2> QED BY <1>3, <2>1
<1> HIDE DEF V, N
<1>5. F \in [1 .. N -> [V -> V]]
  <2> HIDE DEF Body
  <2> QED BY <1>4
<1>6. PICK g \in [0 .. N -> V] : Steps(g, N, <<>>, F)
  <2> HIDE DEF F
  <2> QED BY <1>1, <1>5, StepsUpTo
<1>7. Is(g)
  <2>1. \A n \in 0 .. N : n # 0 => n \in 1 .. N /\ g[n - 1] \in V
    BY <1>1
  <2>2. g = [n \in 0 .. N |-> IF n = 0 THEN <<>> ELSE F[n][g[n - 1]]]
    BY <1>6, Zenon DEF Steps
  <2>3. \A n \in 0 .. N : n # 0 => F[n][g[n - 1]] = Body(g[n - 1], n)
    <3> HIDE DEF Body
    <3> QED BY <2>1
  <2> HIDE DEF F, Body
  <2> QED BY <2>2, <2>3
<1> DEFINE d == CHOOSE f : Is(f)
<1>8. Is(d)
  <2> HIDE DEF Is
  <2> QED BY <1>7, Zenon
<1>9. Search!Entered(E) = d[N]
  BY Zenon DEF Search!Entered, Search!Struct, N
<1> HIDE DEF d
<1>10. d[0] = <<>> /\ \A n \in 1 .. N : d[n] = Body(d[n - 1], n)
  <2> HIDE DEF Body
  <2> QED BY <1>1, <1>8
<1> DEFINE W == {n \in Nat : n <= N => Children(E, d[n], n)}
<1>11. 0 \in W
  <2>1. 1 .. Len(<<>>) = {} /\ 0 .. 0 - 1 = {} /\ <<>> \in Seq(QueueEntry)
    OBVIOUS
  <2>2. Children(E, <<>>, 0)
    BY <2>1, Zenon DEF Children
  <2> HIDE DEF Body
  <2> QED BY <1>10, <2>2
<1>12. ASSUME NEW n \in Nat, n \in W PROVE n + 1 \in W
  <2> SUFFICES ASSUME n + 1 <= N PROVE Children(E, d[n + 1], n + 1)
    OBVIOUS
  <2>1. n + 1 \in 1 .. N /\ (n + 1) - 1 = n /\ Children(E, d[n], n)
    BY <1>1, <1>12
  <2> DEFINE s == d[n]
  <2>2. d[n + 1] = Body(s, n + 1)
    <3>1. d[n + 1] = Body(d[(n + 1) - 1], n + 1)
      <4> HIDE DEF Body, W
      <4> QED BY <1>10, <2>1
    <3> HIDE DEF Body, W
    <3> QED BY <2>1, <3>1
  <2> HIDE DEF W
  <2>3. s \in V /\ Len(s) \in Nat
    BY <2>1 DEF Children, V
  <2>4. CASE Elements[E.Ty][n + 1] \notin StructType
    <3>1. d[n + 1] = s
      BY <2>2, <2>4
    <3>2. Element(E.Ty, n) \notin StructType
      BY <1>2, <2>1, <2>4, StructLayoutAssumption
    <3> HIDE DEF s
    <3>3. \A m \in 0 .. (n + 1) - 1 : Element(E.Ty, m) \in StructType => m \in 0 .. n - 1
      BY <3>2
    <3>4. \A m \in 0 .. n - 1 : m \in 0 .. (n + 1) - 1
      OBVIOUS
    <3>5. Children(E, s, n)
      BY <2>1 DEF s
    <3>6. Children(E, s, n + 1)
      BY <3>3, <3>4, <3>5 DEF Children
    <3> QED BY <3>1, <3>6
  <2>5. CASE Elements[E.Ty][n + 1] \in StructType
    <3> DEFINE c == Child(E, n)
    <3>1. d[n + 1] = Append(s, c)
      BY <1>3, <2>1, <2>2, <2>5
    <3>2. c \in QueueEntry /\ Element(E.Ty, n) \in StructType
      BY <1>2, <1>3, <2>1, <2>5
    <3> DEFINE t == Append(s, c)
    <3> HIDE DEF s, c
    <3>3. /\ t \in Seq(QueueEntry) /\ Len(t) = Len(s) + 1 /\ t[Len(s) + 1] = c
          /\ \A k \in 1 .. Len(s) : t[k] = s[k]
      BY <2>3, <3>2 DEF V
    <3> HIDE DEF t
    <3>4. Children(E, s, n)
      BY <2>1 DEF s
    <3>5. ASSUME NEW k \in 1 .. Len(t)
          PROVE  \E m \in 0 .. (n + 1) - 1 : Element(E.Ty, m) \in StructType /\ t[k] = Child(E, m)
      <4>1. CASE k = Len(s) + 1
        BY <3>2, <3>3, <4>1 DEF c
      <4>2. CASE k # Len(s) + 1
        <5>1. k \in 1 .. Len(s)
          BY <2>3, <3>3, <4>2
        <5>2. PICK m \in 0 .. n - 1 : Element(E.Ty, m) \in StructType /\ s[k] = Child(E, m)
          BY <3>4, <5>1 DEF Children
        <5>3. m \in 0 .. (n + 1) - 1
          OBVIOUS
        <5> QED BY <3>3, <5>1, <5>2, <5>3
      <4> QED BY <4>1, <4>2
    <3>6. ASSUME NEW m \in 0 .. (n + 1) - 1, Element(E.Ty, m) \in StructType
          PROVE  \E k \in 1 .. Len(t) : t[k] = Child(E, m)
      <4>1. CASE m = n
        <5>1. Len(s) + 1 \in 1 .. Len(t)
          BY <2>3, <3>3
        <5> QED BY <3>3, <4>1, <5>1 DEF c
      <4>2. CASE m # n
        <5>1. m \in 0 .. n - 1
          BY <4>2
        <5>2. PICK k \in 1 .. Len(s) : s[k] = Child(E, m)
          BY <3>4, <3>6, <5>1 DEF Children
        <5>3. k \in 1 .. Len(t)
          BY <2>3, <3>3
        <5> QED BY <3>3, <5>2, <5>3
      <4> QED BY <4>1, <4>2
    <3>7. ASSUME NEW j \in 1 .. Len(t), NEW k \in 1 .. Len(t), j < k
          PROVE  \E l, m \in Nat : l < m /\ t[j] = Child(E, l) /\ t[k] = Child(E, m)
      <4>1. j \in 1 .. Len(s) /\ t[j] = s[j]
        BY <2>3, <3>3, <3>7
      <4>2. CASE k = Len(s) + 1
        <5>1. PICK l \in 0 .. n - 1 : s[j] = Child(E, l)
          BY <3>4, <4>1 DEF Children
        <5>2. l \in Nat /\ n \in Nat /\ l < n
          OBVIOUS
        <5> QED BY <3>3, <4>1, <4>2, <5>1, <5>2 DEF c
      <4>3. CASE k # Len(s) + 1
        <5>1. k \in 1 .. Len(s) /\ t[k] = s[k]
          BY <2>3, <3>3, <4>3
        <5>2. PICK l, m \in Nat : l < m /\ s[j] = Child(E, l) /\ s[k] = Child(E, m)
          BY <3>4, <3>7, <4>1, <5>1 DEF Children
        <5> QED BY <4>1, <5>1, <5>2
      <4> QED BY <4>2, <4>3
    <3>8. Children(E, t, n + 1)
      BY <3>3, <3>5, <3>6, <3>7 DEF Children
    <3> QED BY <3>1, <3>8 DEF t
  <2> QED BY <2>4, <2>5
<1>13. Nat \subseteq W
  <2> HIDE DEF W
  <2> QED BY <1>11, <1>12, Induction
<1>14. Children(E, d[N], N)
  BY <1>1, <1>13
<1> QED BY <1>9, <1>14 DEF N

LEMMA AcceptableIs == Search!Acceptable = Fitting(from, SuperTy)
BY SearchOperators DEF Search!Acceptable, Fitting

LEMMA ConcatIs ==
    ASSUME NEW S, NEW p \in Seq(S), NEW q \in Seq(S)
    PROVE  /\ p \o q \in Seq(S) /\ Len(p \o q) = Len(p) + Len(q)
           /\ \A k \in 1 .. Len(p) : (p \o q)[k] = p[k]
           /\ \A k \in 1 .. Len(q) : (p \o q)[Len(p) + k] = q[k]
OBVIOUS

LEMMA AppendIs ==
    ASSUME NEW p \in Seq(Nat), NEW n \in Nat
    PROVE  /\ Append(p, n) \in Seq(Nat) /\ Append(p, n) # <<>>
           /\ Len(p) \in Nat /\ Len(Append(p, n)) = Len(p) + 1
           /\ \A k \in 1 .. Len(p) : Append(p, n)[k] = p[k]
           /\ Append(p, n)[Len(p) + 1] = n
OBVIOUS

LEMMA SameSequence ==
    ASSUME NEW p \in Seq(Nat), NEW q \in Seq(Nat), Len(p) = Len(q),
           \A k \in 1 .. Len(p) : p[k] = q[k]
    PROVE  p = q
<1>1. p \in [1 .. Len(p) -> Nat] /\ q \in [1 .. Len(q) -> Nat]
  OBVIOUS
<1>2. p = [k \in 1 .. Len(p) |-> p[k]] /\ q = [k \in 1 .. Len(q) |-> q[k]]
  BY <1>1, Zenon
<1> QED BY <1>2, Zenon

(* Any place below another is one step below it, or below one that is.     *)
LEMMA NextBelow ==
    ASSUME NEW S \in StructType, NEW p \in Places(S), NEW g \in Seq(Nat), Below(g, p)
    PROVE  \E n \in Nat :
              /\ TypeAt(S, Append(g, n)) \in StructType
              /\ p = Append(g, n) \/ Below(Append(g, n), p)
<1> DEFINE L == Len(g)
           n == p[L + 1]
           a == Append(g, n)
           r == SubSeq(p, L + 2, Len(p))
<1>1. p \in Seq(Nat) /\ TypeAt(S, p) \in StructType /\ S \in Maybe
  BY PlacesExact DEF Maybe
<1>2. L \in Nat /\ Len(p) \in Nat /\ L < Len(p) /\ L + 1 \in 1 .. Len(p)
  BY <1>1 DEF Below
<1>3. n \in Nat
  <2>1. \A k \in 1 .. Len(p) : p[k] \in Nat
    BY <1>1
  <2> HIDE DEF L
  <2> QED BY <1>2, <2>1
<1>4. \A k \in 1 .. L : p[k] = g[k]
  BY DEF Below
<1> HIDE DEF L, n
<1>5. /\ a \in Seq(Nat) /\ Len(a) = L + 1 /\ a[L + 1] = n
      /\ \A k \in 1 .. L : a[k] = g[k]
  BY <1>3 DEF L
<1>6. r \in Seq(Nat) /\ Len(r) = Len(p) - (L + 1)
      /\ \A k \in 1 .. Len(p) - (L + 1) : r[k] = p[k + (L + 1)]
  BY <1>1, <1>2
<1> HIDE DEF a, r
<1>7. \A k \in 1 .. L + 1 : a[k] = p[k]
  BY <1>2, <1>4, <1>5 DEF n
<1>8. p = a \o r
  <2>1. a \o r \in Seq(Nat) /\ Len(a \o r) = Len(p)
    <3>1. Len(a \o r) = (L + 1) + (Len(p) - (L + 1)) /\ a \o r \in Seq(Nat)
      <4>1. Len(a \o r) = Len(a) + Len(r) /\ a \o r \in Seq(Nat)
        BY <1>5, <1>6, ConcatIs
      <4> QED BY <1>5, <1>6, <4>1, Zenon
    <3>2. \A x, y \in Nat : (x + 1) + (y - (x + 1)) = y
      OBVIOUS
    <3> QED BY <1>2, <3>1, <3>2
  <2>2. ASSUME NEW k \in 1 .. Len(p) PROVE (a \o r)[k] = p[k]
    <3>1. CASE k <= L + 1
      <4>1. k \in 1 .. L + 1
        BY <1>2, <3>1
      <4>2. (a \o r)[k] = a[k]
        BY <1>5, <1>6, <4>1, ConcatIs
      <4> QED BY <1>7, <4>1, <4>2
    <3>2. CASE ~(k <= L + 1)
      <4> DEFINE m == k - (L + 1)
      <4>1. m \in 1 .. Len(p) - (L + 1) /\ m + (L + 1) = k /\ (L + 1) + m = k
        BY <1>2, <3>2
      <4> HIDE DEF m
      <4>2. (a \o r)[(L + 1) + m] = r[m]
        <5>3. a \in Seq(Nat) /\ r \in Seq(Nat)
          BY <1>5, <1>6
        <5>1. \A x \in 1 .. Len(r) : (a \o r)[Len(a) + x] = r[x]
          BY <5>3
        <5> QED BY <1>5, <1>6, <4>1, <5>1, Zenon
      <4>3. r[m] = p[m + (L + 1)]
        BY <1>6, <4>1
      <4> QED BY <4>1, <4>2, <4>3
    <3> QED BY <3>1, <3>2
  <2> QED BY <1>1, <2>1, <2>2, SameSequence
<1>9. TypeAt(S, a) \in StructType
  <2>1. TypeAt(S, a \o r) = TypeAt(TypeAt(S, a), r)
    BY <1>1, <1>5, <1>6, TypeAtConcat
  <2>2. TypeAt(S, a) \in Maybe
    BY <1>1, <1>5, TypeAtType
  <2> QED BY <1>1, <1>6, <1>8, <2>1, <2>2, AlongHeights
<1>10. CASE Len(p) = L + 1
  <2>1. p = a
    BY <1>1, <1>5, <1>7, <1>10
  <2> QED BY <1>3, <1>9, <2>1 DEF a
<1>11. CASE Len(p) # L + 1
  <2>1. Len(a) < Len(p)
    BY <1>2, <1>5, <1>11
  <2>2. Below(a, p)
    BY <1>5, <1>7, <2>1 DEF Below
  <2> QED BY <1>3, <1>9, <2>2 DEF a
<1> QED BY <1>10, <1>11

(* An element ends the search if its place is an acceptable one.           *)
LEMMA EndsIs ==
    ASSUME NEW S \in StructType, NEW E \in QueueEntry, E.Ty = TypeAt(S, E.Idx), NEW n \in Nat
    PROVE  /\ TypeAt(S, Append(E.Idx, n)) = Element(E.Ty, n)
           /\ Append(E.Idx, n) \in Fitting(S, SuperTy) <=>
                 n + 1 \in DOMAIN Elements[E.Ty] /\ Search!Ends(E, n + 1)
<1> DEFINE a == Append(E.Idx, n)
<1>1. S \in Maybe /\ E.Ty \in StructType /\ E.Idx \in Seq(Nat) /\ a \in Seq(Nat) /\ a # <<>>
  <2>1. E.Ty \in StructType /\ E.Idx \in Seq(Nat)
    BY DEF QueueEntry
  <2> QED BY <2>1, AppendIs DEF Maybe
<1>2. TypeAt(S, a) = Element(E.Ty, n)
  BY <1>1, TypeAtAppend
<1> HIDE DEF a
<1>3. a \in Places(S) <=> Element(E.Ty, n) \in StructType
  BY <1>1, <1>2, PlacesExact
<1>4. ASSUME a \in Fitting(S, SuperTy)
      PROVE  n + 1 \in DOMAIN Elements[E.Ty] /\ Search!Ends(E, n + 1)
  <2>1. /\ Element(E.Ty, n) \in StructType
        /\ Accepts(Element(E.Ty, n), SuperTy) \/ NameOf[Element(E.Ty, n)] = ABIInfo
    BY <1>2, <1>3, <1>4 DEF Fitting
  <2>2. n + 1 \in DOMAIN Elements[E.Ty] /\ Elements[E.Ty][n + 1] = Element(E.Ty, n)
    BY <2>1, ElementOf
  <2> QED BY <2>1, <2>2, SearchOperators DEF Search!Ends, Search!Struct
<1>5. ASSUME n + 1 \in DOMAIN Elements[E.Ty], Search!Ends(E, n + 1)
      PROVE  a \in Fitting(S, SuperTy)
  <2>1. /\ Elements[E.Ty][n + 1] \in StructType
        /\ Accepts(Elements[E.Ty][n + 1], SuperTy) \/ NameOf[Elements[E.Ty][n + 1]] = ABIInfo
    BY <1>5, SearchOperators DEF Search!Ends, Search!Struct
  <2>2. Element(E.Ty, n) = Elements[E.Ty][n + 1]
    <3>1. Element(E.Ty, (n + 1) - 1) = Elements[E.Ty][n + 1] /\ (n + 1) - 1 = n
      BY <1>1, <1>5, <2>1, ElementIs
    <3> QED BY <3>1
  <2> QED BY <1>2, <1>3, <2>1, <2>2 DEF Fitting
<1> QED BY <1>2, <1>4, <1>5 DEF a

(* What the queue holds during the search.                                 *)
LEMMA QueueIs ==
    ASSUME SearchInv, result = "searching"
    PROVE  /\ from \in StructType /\ SuperTy \in StructType /\ Q \in Seq(QueueEntry)
           /\ \A k \in 1 .. Len(Q) :
                 /\ Q[k] \in QueueEntry /\ Q[k].Ty = TypeAt(from, Q[k].Idx)
                 /\ Q[k].Idx \in Seq(Nat) /\ Q[k].Ty \in StructType
<1>1. Q \in Seq(QueueEntry)
  BY DEF SearchInv, Searching
<1>2. \A k \in 1 .. Len(Q) : Q[k] \in QueueEntry /\ k \in DOMAIN Q
  BY <1>1
<1>3. /\ from \in StructType /\ SuperTy \in StructType
      /\ \A k \in DOMAIN Q : Q[k].Ty = TypeAt(from, Q[k].Idx)
  BY SearchOperators DEF SearchInv, Search!TypeOK
<1> QED BY <1>1, <1>2, <1>3 DEF QueueEntry

LEMMA HitStep ==
    ASSUME SearchInv, Search!Hit
    PROVE  SearchInv'
<1> DEFINE h == Head(Q)
<1>1. PICK k \in DOMAIN Elements[h.Ty] :
         /\ Search!Ends(h, k) /\ \A j \in 1 .. k - 1 : ~Search!Ends(h, j)
         /\ place' = Append(h.Idx, k - 1)
  BY DEF Search!Hit
<1>2. /\ result = "searching" /\ result' = "found" /\ Q # <<>>
      /\ UNCHANGED <<from, SuperTy, Q>>
  BY DEF Search!Hit
<1>3. /\ from \in StructType /\ SuperTy \in StructType /\ Q \in Seq(QueueEntry)
      /\ Len(Q) \in Nat /\ Len(Q) > 0 /\ 1 \in 1 .. Len(Q) /\ h = Q[1]
  BY <1>2, QueueIs
<1>4. /\ h \in QueueEntry /\ h.Ty = TypeAt(from, h.Idx)
      /\ h.Idx \in Seq(Nat) /\ h.Ty \in StructType
  BY <1>2, <1>3, QueueIs
<1> HIDE DEF h
<1>5. k - 1 \in Nat /\ (k - 1) + 1 = k /\ DOMAIN Elements[h.Ty] = 1 .. Len(Elements[h.Ty])
  BY <1>4, StructLayoutAssumption
<1> DEFINE n == k - 1
<1>6. place' \in Fitting(from, SuperTy)
  <2>1. n \in Nat /\ n + 1 = k
    BY <1>5
  <2>2. Append(h.Idx, n) \in Fitting(from, SuperTy)
    <3> HIDE DEF n
    <3> QED BY <1>1, <1>3, <1>4, <2>1, EndsIs
  <2> QED BY <1>1, <2>2
<1> DEFINE F == Fitting(from, SuperTy)
<1>7. Search!TypeOK'
  BY <1>2, <1>3, <1>6, SearchOperators DEF SearchInv, Search!TypeOK, Fitting
<1>8. Searching'
  BY <1>2 DEF Searching
<1>9. ASSUME NEW p \in F, Before(p, place') PROVE FALSE
  <2>1. p \in Places(from) /\ p \in Seq(Nat)
    BY <1>3, PlacesExact DEF Fitting
  <2>2. PICK l \in 1 .. Len(Q) : Below(Q[l].Idx, p)
    BY <1>2 DEF SearchInv, Searching, Covered
  <2>3. Q[l].Idx \in Seq(Nat)
    BY <1>2, QueueIs
  <2> HIDE DEF n, F
  <2>4. CASE l # 1
    <3>1. Before(h.Idx, Q[l].Idx)
      <4>1. 1 < l
        BY <1>3, <2>4
      <4> QED BY <1>2, <1>3, <4>1 DEF SearchInv, Searching, Ordered
    <3> QED BY <1>1, <1>4, <1>5, <1>9, <2>1, <2>2, <2>3, <3>1, BelowLater
  <2>5. CASE l = 1
    <3>1. Below(h.Idx, p)
      BY <1>3, <2>2, <2>5
    <3>2. PICK m \in Nat : /\ TypeAt(from, Append(h.Idx, m)) \in StructType
                           /\ p = Append(h.Idx, m) \/ Below(Append(h.Idx, m), p)
      BY <1>3, <1>4, <2>1, <3>1, NextBelow
    <3>3. Len(p) <= Len(h.Idx) + 1
      <4>1. Len(place') = Len(h.Idx) + 1 /\ place' \in Seq(Nat)
        BY <1>1, <1>4, <1>5
      <4> QED BY <1>9, <2>1, <4>1, BeforeParts
    <3>4. p = Append(h.Idx, m)
      <4>1. ASSUME Below(Append(h.Idx, m), p) PROVE FALSE
        <5>1. Len(Append(h.Idx, m)) = Len(h.Idx) + 1 /\ Len(h.Idx) \in Nat /\ Len(p) \in Nat
          BY <1>4, <2>1
        <5>2. Len(h.Idx) + 1 < Len(p)
          BY <4>1, <5>1 DEF Below
        <5>3. \A x, y \in Nat : ~(x <= y + 1 /\ y + 1 < x)
          OBVIOUS
        <5> QED BY <3>3, <5>1, <5>2, <5>3, Zenon
      <4> QED BY <3>2, <4>1
    <3>5. m + 1 \in DOMAIN Elements[h.Ty] /\ Search!Ends(h, m + 1)
      BY <1>3, <1>4, <3>4, EndsIs DEF F
    <3>6. ~(m + 1 \in 1 .. k - 1)
      BY <1>1, <3>5
    <3>7. ~(m < n)
      BY <1>5, <3>6 DEF n
    <3>8. m < n
      <4>1. /\ Len(p) = Len(h.Idx) + 1 /\ Len(place') = Len(h.Idx) + 1 /\ Len(h.Idx) \in Nat
            /\ place' \in Seq(Nat)
            /\ p[Len(h.Idx) + 1] = m /\ place'[Len(h.Idx) + 1] = n
            /\ \A x \in 1 .. Len(h.Idx) : p[x] = h.Idx[x] /\ place'[x] = h.Idx[x]
        BY <1>1, <1>4, <1>5, <3>4 DEF n
      <4>2. PICK x \in 1 .. Len(p) : p[x] < place'[x]
        <5>1. Before(p, place') /\ p \in Seq(Nat) /\ place' \in Seq(Nat) /\ Len(p) = Len(place')
          BY <1>9, <2>1, <4>1
        <5> QED BY <5>1, BeforeParts, Zenon
      <4>3. CASE x \in 1 .. Len(h.Idx)
        <5>1. p[x] = h.Idx[x] /\ place'[x] = h.Idx[x]
          BY <4>1, <4>3
        <5>2. h.Idx[x] \in Nat
          BY <1>4, <4>3
        <5>3. h.Idx[x] < h.Idx[x]
          BY <4>2, <5>1
        <5> QED BY <5>2, <5>3, Order, Zenon
      <4>4. CASE x \notin 1 .. Len(h.Idx)
        <5>1. x = Len(h.Idx) + 1
          BY <4>1, <4>4
        <5> QED BY <4>1, <4>2, <5>1
      <4> QED BY <4>3, <4>4
    <3> QED BY <3>7, <3>8
  <2> QED BY <2>4, <2>5
<1>10. FindsNearest'
  <2>1. Search!Acceptable' = F
    <3>1. Search!Acceptable' = Fitting(from', SuperTy')
      BY SearchOperators DEF Search!Acceptable, Fitting
    <3> QED BY <1>2, <3>1
  <2>2. ~\E p \in F : Search!Before(p, place')
    BY <1>9, SearchOperators
  <2> HIDE DEF F
  <2> QED BY <1>2, <1>6, <2>1, <2>2 DEF FindsNearest, Search!FindsNearest, F
<1> QED BY <1>7, <1>8, <1>10 DEF SearchInv

(* The end of the queue after Descend: the places below the head, in order *)
LEMMA DescendStep ==
    ASSUME SearchInv, Search!Descend
    PROVE  SearchInv'
<1> DEFINE h == Head(Q)
           t == Tail(Q)
           s == Search!Entered(h)
           L == Len(Q) - 1
<1>1. /\ result = "searching" /\ result' = "searching" /\ Q # <<>>
      /\ \A k \in DOMAIN Elements[h.Ty] : ~Search!Ends(h, k)
      /\ Q' = t \o s
      /\ UNCHANGED <<from, SuperTy, place>>
  BY DEF Search!Descend
<1>2. /\ from \in StructType /\ SuperTy \in StructType /\ from \in Maybe
      /\ Q \in Seq(QueueEntry) /\ h = Q[1] /\ 1 \in 1 .. Len(Q) /\ L \in Nat
      /\ t \in Seq(QueueEntry) /\ Len(t) = L /\ \A k \in 1 .. L : t[k] = Q[k + 1]
      /\ \A k \in 1 .. L : k + 1 \in 1 .. Len(Q)
      /\ \A k \in 1 .. Len(Q) : k = 1 \/ (k - 1 \in 1 .. L /\ (k - 1) + 1 = k)
  BY <1>1, QueueIs DEF Maybe
<1>3. /\ h \in QueueEntry /\ h.Ty = TypeAt(from, h.Idx)
      /\ h.Idx \in Seq(Nat) /\ h.Ty \in StructType
  BY <1>1, <1>2, QueueIs
<1>4. Children(h, s, Len(Elements[h.Ty]))
  BY <1>3, EnteredIs
<1> HIDE DEF h, t, s, L
<1>5. s \in Seq(QueueEntry) /\ Len(s) \in Nat
  BY <1>4 DEF Children
<1>6. /\ Q' \in Seq(QueueEntry) /\ Len(Q') = L + Len(s)
      /\ \A k \in 1 .. L : Q'[k] = t[k]
      /\ \A k \in 1 .. Len(s) : Q'[L + k] = s[k]
  <2>3. t \in Seq(QueueEntry) /\ s \in Seq(QueueEntry)
    BY <1>2, <1>5
  <2>1. /\ t \o s \in Seq(QueueEntry) /\ Len(t \o s) = Len(t) + Len(s)
        /\ \A k \in 1 .. Len(t) : (t \o s)[k] = t[k]
        /\ \A k \in 1 .. Len(s) : (t \o s)[Len(t) + k] = s[k]
    BY <2>3
  <2> QED BY <1>1, <1>2, <2>1, Zenon
<1>7. ASSUME NEW k \in 1 .. Len(Q')
      PROVE  k \in 1 .. L \/ \E j \in 1 .. Len(s) : k = L + j
  <2>1. CASE k <= L
    BY <1>2, <1>6, <2>1
  <2>2. CASE ~(k <= L)
    <3>1. k - L \in 1 .. Len(s) /\ k = L + (k - L)
      BY <1>2, <1>5, <1>6, <2>2
    <3> QED BY <3>1
  <2> QED BY <2>1, <2>2
<1>8. ASSUME NEW n \in Nat, Element(h.Ty, n) \in StructType
      PROVE  /\ TypeAt(from, Append(h.Idx, n)) = Element(h.Ty, n)
             /\ Append(h.Idx, n) \in Places(from)
             /\ Append(h.Idx, n) \notin Fitting(from, SuperTy)
             /\ \E k \in 1 .. Len(s) : s[k].Idx = Append(h.Idx, n)
  <2>1. TypeAt(from, Append(h.Idx, n)) = Element(h.Ty, n)
    BY <1>2, <1>3, EndsIs
  <2>2. Append(h.Idx, n) \in Places(from)
    <3>1. Append(h.Idx, n) \in Seq(Nat) /\ Append(h.Idx, n) # <<>>
      BY <1>3, AppendIs
    <3>2. TypeAt(from, Append(h.Idx, n)) \in StructType
      BY <1>8, <2>1
    <3>3. Places(from) = { p \in Seq(Nat) : p # <<>> /\ TypeAt(from, p) \in StructType }
      BY <1>2, PlacesExact
    <3> QED BY <3>1, <3>2, <3>3, Zenon
  <2>3. n + 1 \in DOMAIN Elements[h.Ty] /\ n \in 0 .. Len(Elements[h.Ty]) - 1
    <3>1. n + 1 \in DOMAIN Elements[h.Ty] /\ Elements[h.Ty] \in Seq(StructType \cup Scalar)
      BY <1>3, <1>8, ElementOf, StructLayoutAssumption
    <3> QED BY <3>1
  <2>4. Append(h.Idx, n) \notin Fitting(from, SuperTy)
    BY <1>1, <1>2, <1>3, <2>3, EndsIs
  <2>5. PICK k \in 1 .. Len(s) : s[k] = Child(h, n)
    BY <1>4, <1>8, <2>3 DEF Children
  <2>6. s[k].Idx = Append(h.Idx, n)
    BY <2>5 DEF Child
  <2> QED BY <2>1, <2>2, <2>4, <2>6
<1>9. ASSUME NEW k \in 1 .. Len(s)
      PROVE  \E n \in Nat : /\ Element(h.Ty, n) \in StructType
                            /\ s[k].Ty = Element(h.Ty, n) /\ s[k].Idx = Append(h.Idx, n)
  <2>1. PICK n \in 0 .. Len(Elements[h.Ty]) - 1 :
           Element(h.Ty, n) \in StructType /\ s[k] = Child(h, n)
    BY <1>4 DEF Children
  <2>2. n \in Nat /\ s[k].Ty = Element(h.Ty, n) /\ s[k].Idx = Append(h.Idx, n)
    BY <2>1 DEF Child
  <2> QED BY <2>1, <2>2
<1>10. ASSUME NEW k \in 1 .. L
       PROVE  /\ Before(h.Idx, t[k].Idx) /\ \A n \in Nat : Before(t[k].Idx, Append(h.Idx, n))
              /\ t[k].Idx \in Seq(Nat)
  <2>1. 1 < k + 1 /\ k + 1 \in 1 .. Len(Q) /\ t[k] = Q[k + 1]
    BY <1>2
  <2> QED BY <1>1, <1>2, <2>1, QueueIs DEF SearchInv, Searching, Ordered
<1>11. Search!TypeOK'
  <2>1. ASSUME NEW k \in DOMAIN Q'
        PROVE  Q'[k].Idx \in Places(from) \cup {<<>>} /\ Q'[k].Ty = TypeAt(from, Q'[k].Idx)
    <3>1. k \in 1 .. Len(Q')
      BY <1>6
    <3>2. CASE k \in 1 .. L
      <4>1. k + 1 \in DOMAIN Q /\ Q'[k] = Q[k + 1]
        BY <1>2, <1>6, <3>2
      <4> QED BY <1>1, <4>1, SearchOperators DEF SearchInv, Search!TypeOK
    <3>3. CASE \E j \in 1 .. Len(s) : k = L + j
      <4>1. PICK j \in 1 .. Len(s) : k = L + j
        BY <3>3
      <4>2. PICK n \in Nat : /\ Element(h.Ty, n) \in StructType
                             /\ s[j].Ty = Element(h.Ty, n) /\ s[j].Idx = Append(h.Idx, n)
        BY <1>9
      <4>3. Q'[k] = s[j]
        BY <1>6, <4>1
      <4> QED BY <1>8, <4>2, <4>3
    <3> QED BY <1>7, <3>1, <3>2, <3>3
  <2> QED BY <1>1, <2>1, SearchOperators DEF SearchInv, Search!TypeOK
<1>12. ASSUME NEW j \in 1 .. Len(Q'), NEW k \in 1 .. Len(Q'), j < k
       PROVE  /\ Before(Q'[j].Idx, Q'[k].Idx)
              /\ \A n \in Nat : Before(Q'[k].Idx, Append(Q'[j].Idx, n))
  <2>1. CASE j \in 1 .. L /\ k \in 1 .. L
    <3>1. /\ j + 1 < k + 1 /\ j + 1 \in 1 .. Len(Q) /\ k + 1 \in 1 .. Len(Q)
          /\ Q'[j] = Q[j + 1] /\ Q'[k] = Q[k + 1]
      BY <1>2, <1>6, <1>12, <2>1
    <3> QED BY <1>1, <3>1 DEF SearchInv, Searching, Ordered
  <2>2. CASE j \in 1 .. L /\ \E l \in 1 .. Len(s) : k = L + l
    <3>1. PICK l \in 1 .. Len(s) : k = L + l
      BY <2>2
    <3>2. PICK n \in Nat : s[l].Idx = Append(h.Idx, n)
      BY <1>9
    <3>3. Q'[j].Idx = t[j].Idx /\ Q'[k].Idx = Append(h.Idx, n)
      BY <1>6, <2>2, <3>1, <3>2
    <3>4. Before(t[j].Idx, Append(h.Idx, n))
      BY <1>10, <2>2
    <3>5. \A m \in Nat : Before(Append(h.Idx, n), Append(t[j].Idx, m))
      BY <1>3, <1>10, <2>2, BeforeAppend
    <3> QED BY <3>3, <3>4, <3>5
  <2>3. CASE \E l \in 1 .. Len(s) : j = L + l
    <3>1. PICK x \in 1 .. Len(s) : j = L + x
      BY <2>3
    <3>2. PICK y \in 1 .. Len(s) : k = L + y
      <4>1. k \notin 1 .. L
        BY <1>2, <1>12, <3>1
      <4> QED BY <1>7, <4>1
    <3>3. x < y
      BY <1>2, <1>12, <3>1, <3>2
    <3>4. PICK m, n \in Nat : m < n /\ s[x] = Child(h, m) /\ s[y] = Child(h, n)
      BY <1>4, <3>3 DEF Children
    <3> DEFINE a == Append(h.Idx, m)
               b == Append(h.Idx, n)
    <3>5. Q'[j].Idx = a /\ Q'[k].Idx = b
      <4>1. Q'[j] = s[x] /\ Q'[k] = s[y]
        BY <1>6, <3>1, <3>2, Zenon
      <4> QED BY <3>4, <4>1 DEF Child
    <3>6. /\ a \in Seq(Nat) /\ b \in Seq(Nat) /\ Len(h.Idx) \in Nat
          /\ Len(a) = Len(h.Idx) + 1 /\ Len(b) = Len(h.Idx) + 1
          /\ a[Len(h.Idx) + 1] = m /\ b[Len(h.Idx) + 1] = n
          /\ \A z \in 1 .. Len(h.Idx) : a[z] = b[z]
      BY <1>3, AppendIs
    <3> HIDE DEF a, b
    <3>7. Before(a, b)
      <4>1. Len(h.Idx) + 1 \in DOMAIN a /\ (Len(h.Idx) + 1) - 1 = Len(h.Idx)
        BY <3>6
      <4> QED BY <3>4, <3>6, <4>1 DEF Before
    <3>8. ASSUME NEW l \in Nat PROVE Before(b, Append(a, l))
      <4>1. Append(a, l) \in Seq(Nat) /\ Len(Append(a, l)) = Len(a) + 1
        BY <3>6, AppendIs
      <4>2. Len(b) < Len(a) + 1
        BY <3>6
      <4> QED BY <3>6, <4>1, <4>2, BeforeParts
    <3> QED BY <3>5, <3>7, <3>8
  <2> QED BY <1>7, <2>1, <2>2, <2>3
<1>13. ASSUME NEW p \in Fitting(from, SuperTy)
       PROVE  \E k \in 1 .. Len(Q') : Below(Q'[k].Idx, p)
  <2>1. PICK l \in 1 .. Len(Q) : Below(Q[l].Idx, p)
    BY <1>1 DEF SearchInv, Searching, Covered
  <2>2. CASE l # 1
    <3>1. l - 1 \in 1 .. L /\ Q'[l - 1] = Q[l]
      BY <1>2, <1>6, <2>2
    <3>2. l - 1 \in 1 .. Len(Q')
      BY <1>2, <1>5, <1>6, <3>1
    <3> QED BY <2>1, <3>1, <3>2
  <2>3. CASE l = 1
    <3>1. Below(h.Idx, p) /\ p \in Places(from)
      BY <1>2, <2>1, <2>3 DEF Fitting
    <3>2. PICK n \in Nat : /\ TypeAt(from, Append(h.Idx, n)) \in StructType
                           /\ p = Append(h.Idx, n) \/ Below(Append(h.Idx, n), p)
      BY <1>2, <1>3, <3>1, NextBelow
    <3>3. Element(h.Ty, n) \in StructType
      BY <1>2, <1>3, <3>2, EndsIs
    <3>4. Below(Append(h.Idx, n), p)
      BY <1>8, <1>13, <3>2, <3>3
    <3>5. PICK k \in 1 .. Len(s) : s[k].Idx = Append(h.Idx, n)
      BY <1>8, <3>3
    <3>6. L + k \in 1 .. Len(Q') /\ Q'[L + k] = s[k]
      BY <1>2, <1>5, <1>6
    <3> QED BY <3>4, <3>5, <3>6
  <2> QED BY <2>2, <2>3
<1>14. Searching'
  <2>1. Ordered(Q')
    BY <1>12 DEF Ordered
  <2>2. Covered(Q', Fitting(from, SuperTy))
    BY <1>13 DEF Covered
  <2> QED BY <1>1, <1>6, <2>1, <2>2 DEF SearchInv, Searching
<1>15. FindsNearest'
  BY <1>1 DEF FindsNearest, Search!FindsNearest
<1> QED BY <1>11, <1>14, <1>15 DEF SearchInv

LEMMA ExhaustedStep ==
    ASSUME SearchInv, Search!Exhausted
    PROVE  SearchInv'
<1>1. /\ result = "searching" /\ Q = <<>> /\ result' = "unreachable"
      /\ UNCHANGED <<from, SuperTy, Q, place>>
  BY DEF Search!Exhausted
<1>2. Search!TypeOK'
  BY <1>1 DEF SearchInv, Search!TypeOK
<1>3. Fitting(from, SuperTy) = {}
  BY <1>1 DEF SearchInv, Searching, Covered
<1>4. Search!Acceptable' = Fitting(from', SuperTy')
  BY SearchOperators DEF Search!Acceptable, Fitting
<1>5. FindsNearest'
  BY <1>1, <1>3, <1>4 DEF FindsNearest, Search!FindsNearest
<1> QED BY <1>1, <1>2, <1>5 DEF SearchInv, Searching

LEMMA CallStep ==
    ASSUME SearchInv, NEW U \in StructType, NEW S \in StructType, Search!Call(U, S)
    PROVE  SearchInv'
<1>1. /\ from' = U /\ SuperTy' = S /\ Q' = <<[Ty |-> U, Idx |-> <<>>]>>
      /\ result' = "searching" /\ place' = <<>>
  BY DEF Search!Call
<1>2. /\ Q' \in Seq(QueueEntry) /\ Len(Q') = 1 /\ DOMAIN Q' = 1 .. 1
      /\ Q'[1].Ty = U /\ Q'[1].Idx = <<>>
  <2>1. [Ty |-> U, Idx |-> <<>>] \in QueueEntry
    BY DEF QueueEntry
  <2> QED BY <1>1, <2>1
<1>3. TypeAt(U, <<>>) = U
  BY TypeAtEmpty DEF Maybe
<1>4. Search!TypeOK'
  BY <1>1, <1>2, <1>3, SearchOperators DEF Search!TypeOK
<1>5. Ordered(Q')
  BY <1>2 DEF Ordered
<1>6. Covered(Q', Fitting(U, S))
  <2> SUFFICES ASSUME NEW p \in Fitting(U, S) PROVE Below(<<>>, p)
    BY <1>2 DEF Covered
  <2>1. p \in Seq(Nat) /\ p # <<>>
    BY PlacesExact DEF Fitting
  <2>2. Len(<<>>) = 0 /\ 0 < Len(p) /\ 1 .. 0 = {}
    BY <2>1
  <2> QED BY <2>2 DEF Below
<1>7. FindsNearest'
  BY <1>1 DEF FindsNearest, Search!FindsNearest
<1> QED BY <1>1, <1>2, <1>4, <1>5, <1>6, <1>7 DEF SearchInv, Searching

LEMMA SearchIdle ==
    ASSUME from = NoType, SuperTy = NoType, Q = <<>>, result = "idle", place = <<>>
    PROVE  SearchInv
BY DEF SearchInv, Search!TypeOK, Searching, FindsNearest, Search!FindsNearest

LEMMA SearchUnchanged ==
    ASSUME SearchInv, UNCHANGED searchVars
    PROVE  SearchInv'
<1> USE DEF searchVars
<1>1. Search!TypeOK'
  BY DEF SearchInv, Search!TypeOK
<1>2. Searching'
  BY DEF SearchInv, Searching
<1>3. FindsNearest'
  BY DEF SearchInv, FindsNearest, Search!FindsNearest, Search!Acceptable
<1> QED BY <1>1, <1>2, <1>3 DEF SearchInv

(* What the search has found stands for the class, if layouts tell.        *)
LEMMA SearchShows == SearchInv => RightSubobject
<1> SUFFICES ASSUME SearchInv, result = "found", NameOf[TypeAt(from, place)] # ABIInfo,
                    Unambiguous(from, SuperTy)
             PROVE  StandsFor(TypeAt(from, place), SuperTy)
  BY SearchOperators DEF RightSubobject, Search!RightSubobject
<1> DEFINE E == TypeAt(from, place)
<1>1. place \in Fitting(from, SuperTy)
  BY AcceptableIs DEF SearchInv, FindsNearest, Search!FindsNearest
<1>2. from \in StructType /\ SuperTy \in StructType
  BY DEF SearchInv, Search!TypeOK
<1>3. place \in Places(from) /\ E \in StructType /\ Accepts(E, SuperTy)
  BY <1>1, <1>2, PlacesExact DEF Fitting
<1>4. CASE E = SuperTy
  BY <1>4 DEF StandsFor
<1>5. CASE E # SuperTy
  <2>1. NameOf[E].base /\ IsLayoutPrefix(E, SuperTy)
    <3> HIDE DEF E
    <3> QED BY <1>3, <1>5 DEF Accepts, isBaseType
  <2>2. IsPrefix(Elements[E], Elements[SuperTy])
    BY <1>2, <1>3, <2>1, PrefixIs
  <2> QED BY <1>3, <2>1, <2>2 DEF Unambiguous
<1> QED BY <1>4, <1>5

-----------------------------------------------------------------------------
(* The object: what is known to be part of something is part of the whole. *)
Parts ==
    /\ CurrentType = NoType => method = NoType /\ ~unreachable
    /\ CurrentType # NoType =>
          /\ \A p \in DOMAIN SubStruct : SubStruct[p] = <<>>
          /\ this = <<>> \/ this \in DOMAIN SubStruct

(* `this' points to the place that the search of the whole object finds.   *)
First(S, R, p) == p \in Fitting(S, R) /\ ~\E q \in Fitting(S, R) : Before(q, p)
Located ==
    method # NoType /\ ~unreachable /\ NameOf[TypeAt(CurrentType, this)] # ABIInfo =>
        IF method = CurrentType THEN this = <<>> ELSE First(CurrentType, method, this)

(* The search under way is for the class of a method in the whole object.  *)
Asked ==
    result # "idle" =>
        /\ InAnalysis /\ ~unreachable
        /\ from = CurrentType /\ SuperTy \in ThisTypes /\ SuperTy # CurrentType
        /\ method # NoType => TypeAt(CurrentType, this) # SuperTy

ObjectInv == Object!TypeOK /\ Parts /\ Located /\ Asked /\ AlwaysFound

LEMMA FitsIs ==
    ASSUME NEW S, NEW R
    PROVE  /\ Object!Fits(S, R) = Fitting(S, R)
           /\ Object!getSupertypeIndices(S, R) =
                 CHOOSE p \in Fitting(S, R) : ~\E q \in Fitting(S, R) : Before(q, p)
<1>1. Object!Fits(S, R) = Fitting(S, R)
  BY ObjectOperators DEF Object!Fits, Fitting
<1>2. Object!getSupertypeIndices(S, R) =
         CHOOSE p \in Fitting(S, R) : ~\E q \in Fitting(S, R) : Object!Before(q, p)
  BY <1>1 DEF Object!getSupertypeIndices
<1> QED BY <1>1, <1>2, ObjectOperators

LEMMA FirstIs ==
    ASSUME NEW S \in StructType, NEW R, NEW p, First(S, R, p)
    PROVE  /\ Object!getSupertypeIndices(S, R) = p
           /\ p \in Places(S) /\ p \in Seq(Nat) /\ p # <<>>
<1> DEFINE c == CHOOSE x \in Fitting(S, R) : ~\E q \in Fitting(S, R) : Before(q, x)
<1>1. p \in Fitting(S, R) /\ ~\E q \in Fitting(S, R) : Before(q, p)
  BY DEF First
<1>2. c \in Fitting(S, R) /\ ~\E q \in Fitting(S, R) : Before(q, c)
  BY <1>1, Zenon
<1> HIDE DEF c
<1>3. \A x \in Fitting(S, R) : x \in Places(S) /\ x \in Seq(Nat) /\ x # <<>>
  BY PlacesExact DEF Fitting
<1>4. c = p
  BY <1>1, <1>2, <1>3, BeforeTotal, Zenon
<1>5. Object!getSupertypeIndices(S, R) = c
  BY FitsIs DEF c
<1> QED BY <1>1, <1>3, <1>4, <1>5

LEMMA WholeIs ==
    ASSUME ObjectInv, CurrentType # NoType
    PROVE  /\ CurrentType \in StructType /\ TypeAt(CurrentType, <<>>) = CurrentType
           /\ this \in Seq(Nat) /\ Object!Whole(this) = <<>>
           /\ Object!Holder = CurrentType /\ Object!DispatchType = CurrentType
           /\ \A S : Object!Searches(S) <=>
                 S # CurrentType /\ (method # NoType => TypeAt(CurrentType, this) # S)
<1>1. CurrentType \in StructType
  BY DEF ObjectInv, Object!TypeOK
<1>2. TypeAt(CurrentType, <<>>) = CurrentType
  BY <1>1, TypeAtEmpty DEF Maybe
<1>3. this \in Places(CurrentType) \cup {<<>>} /\ DOMAIN SubStruct \subseteq Places(CurrentType)
  BY <1>1, ObjectOperators DEF ObjectInv, Object!TypeOK
<1>4. this \in Seq(Nat)
  <2>1. \A p \in Places(CurrentType) : p \in Seq(Nat)
    BY <1>1, PlacesExact
  <2>2. <<>> \in Seq(Nat)
    OBVIOUS
  <2> QED BY <1>3, <2>1, <2>2
<1>5. Object!Whole(this) = <<>>
  BY DEF ObjectInv, Parts, Object!Whole
<1>6. Object!Holder = CurrentType /\ Object!DispatchType = CurrentType
  BY <1>2, <1>5, ObjectOperators DEF Object!Holder, Object!DispatchType
<1>7. \A S : Object!Searches(S) <=>
                S # CurrentType /\ (method # NoType => TypeAt(CurrentType, this) # S)
  BY <1>6, ObjectOperators DEF Object!Searches
<1> QED BY <1>1, <1>2, <1>4, <1>5, <1>6, <1>7

(* What a hand-off does, in terms of the whole object.                     *)
Stays(S) == method # NoType /\ TypeAt(CurrentType, this) = S
            /\ UNCHANGED <<this, SubStruct, unreachable>>
ToWhole(S) == S = CurrentType /\ this' = <<>> /\ UNCHANGED <<SubStruct, unreachable>>
Lost(S) == /\ S # CurrentType /\ (method # NoType => TypeAt(CurrentType, this) # S)
           /\ Fitting(CurrentType, S) = {} /\ unreachable' = TRUE
           /\ UNCHANGED <<this, SubStruct>>
ToPart(S, p) ==
    /\ S # CurrentType /\ (method # NoType => TypeAt(CurrentType, this) # S)
    /\ Fitting(CurrentType, S) # {} /\ this' = p
    /\ SubStruct' = [q \in DOMAIN SubStruct \cup {p} |-> IF q = p THEN <<>> ELSE SubStruct[q]]
    /\ UNCHANGED unreachable

LEMMA HandOffIs ==
    ASSUME ObjectInv, NEW S \in StructType, HandOff(S), NEW p,
           Object!Searches(S) /\ Fitting(CurrentType, S) # {} => First(CurrentType, S, p)
    PROVE  /\ CurrentType \in StructType /\ CurrentType' = CurrentType /\ method' = S
           /\ ~unreachable
           /\ Stays(S) \/ ToWhole(S) \/ Lost(S) \/ ToPart(S, p)
<1>1. CurrentType # NoType /\ CurrentType' = CurrentType /\ method' = S /\ ~unreachable
  BY DEF HandOff, Object!createEmptyExceptThis, Object!changeThis, ObjectInv, Parts
<1>2. /\ CurrentType \in StructType /\ TypeAt(CurrentType, <<>>) = CurrentType
      /\ Object!Whole(this) = <<>>
      /\ Object!Searches(S) <=>
            S # CurrentType /\ (method # NoType => TypeAt(CurrentType, this) # S)
  BY <1>1, WholeIs
<1>3. /\ \A U, R : Object!TypeAt(U, R) = TypeAt(U, R)
      /\ Object!Fits(CurrentType, S) = Fitting(CurrentType, S)
  BY ObjectOperators, FitsIs
<1>4. ASSUME Object!Searches(S), Fitting(CurrentType, S) # {}
      PROVE  Object!getSupertypeIndices(CurrentType, S) = p /\ <<>> \o p = p
  <2>1. First(CurrentType, S, p)
    BY <1>4
  <2>2. Object!getSupertypeIndices(CurrentType, S) = p /\ p \in Seq(Nat)
    BY <1>2, <2>1, FirstIs
  <2> QED BY <2>2
<1>5. CASE Object!createEmptyExceptThis(S)
  <2> DEFINE gsi == Object!getSupertypeIndices(CurrentType, S)
             F == Fitting(CurrentType, S)
  <2>1. /\ method = NoType
        /\ S = CurrentType => this' = <<>> /\ UNCHANGED <<SubStruct, unreachable>>
        /\ S # CurrentType /\ F = {} => unreachable' = TRUE /\ UNCHANGED <<this, SubStruct>>
        /\ S # CurrentType /\ F # {} =>
              this' = gsi /\ Object!PartOf(this', <<>>) /\ UNCHANGED unreachable
    BY <1>3, <1>5 DEF Object!createEmptyExceptThis
  <2>2. S # CurrentType /\ F # {} => gsi = p
    BY <1>2, <1>4, <2>1
  <2> HIDE DEF gsi
  <2>3. S = CurrentType => ToWhole(S)
    BY <2>1 DEF ToWhole
  <2>4. S # CurrentType /\ F = {} => Lost(S)
    BY <2>1 DEF Lost
  <2>5. S # CurrentType /\ F # {} => ToPart(S, p)
    BY <2>1, <2>2 DEF Object!PartOf, ToPart
  <2>6. Stays(S) \/ ToWhole(S) \/ Lost(S) \/ ToPart(S, p)
    BY <2>3, <2>4, <2>5
  <2> QED BY <1>1, <1>2, <2>6
<1>6. CASE Object!changeThis(S)
  <2> DEFINE gsi == Object!getSupertypeIndices(CurrentType, S)
             F == Fitting(CurrentType, S)
             U == TypeAt(CurrentType, this)
  <2>1. /\ method # NoType
        /\ U = S => UNCHANGED <<this, SubStruct, unreachable>>
        /\ U # S /\ S = CurrentType => this' = <<>> /\ UNCHANGED <<SubStruct, unreachable>>
        /\ U # S /\ S # CurrentType /\ F = {} =>
              unreachable' = TRUE /\ UNCHANGED <<this, SubStruct>>
        /\ U # S /\ S # CurrentType /\ F # {} =>
              this' = <<>> \o gsi /\ Object!PartOf(this', <<>>) /\ UNCHANGED unreachable
    BY <1>2, <1>3, <1>6 DEF Object!changeThis
  <2>2. U # S /\ S # CurrentType /\ F # {} => <<>> \o gsi = p
    BY <1>2, <1>4, <2>1
  <2> HIDE DEF gsi
  <2>3. U = S => Stays(S)
    BY <2>1 DEF Stays
  <2>4. U # S /\ S = CurrentType => ToWhole(S)
    BY <2>1 DEF ToWhole
  <2>5. U # S /\ S # CurrentType /\ F = {} => Lost(S)
    BY <2>1 DEF Lost
  <2>6. U # S /\ S # CurrentType /\ F # {} => ToPart(S, p)
    BY <2>1, <2>2 DEF Object!PartOf, ToPart
  <2>7. Stays(S) \/ ToWhole(S) \/ Lost(S) \/ ToPart(S, p)
    BY <2>3, <2>4, <2>5, <2>6
  <2> QED BY <1>1, <1>2, <2>7
<1> QED BY <1>5, <1>6 DEF HandOff

(* The first place that is accepted for a class and leads to an S is the   *)
(* first that is accepted for S: a prefix of a prefix is a prefix.         *)
LEMMA FirstOfType ==
    ASSUME NEW C \in StructType, NEW R \in StructType, NEW S \in StructType, NEW p,
           First(C, R, p), TypeAt(C, p) = S, NameOf[S] # ABIInfo
    PROVE  First(C, S, p)
<1>1. p \in Places(C) /\ Accepts(S, R) /\ ~\E q \in Fitting(C, R) : Before(q, p)
  BY DEF First, Fitting
<1>2. p \in Fitting(C, S)
  BY <1>1 DEF Fitting, Accepts
<1>3. ASSUME NEW q \in Fitting(C, S) PROVE q \in Fitting(C, R)
  <2> DEFINE E == TypeAt(C, q)
  <2>1. q \in Places(C) /\ E \in StructType /\ (Accepts(E, S) \/ NameOf[E] = ABIInfo)
    BY <1>3, PlacesExact DEF Fitting
  <2> HIDE DEF E
  <2>2. Accepts(E, S) => Accepts(E, R)
    <3>1. CASE E = S
      BY <1>1, <3>1
    <3>2. CASE S = R
      BY <3>2
    <3>3. ASSUME isBaseType(E), IsLayoutPrefix(E, S), IsLayoutPrefix(S, R)
          PROVE  Accepts(E, R)
      <4>1. /\ Len(Elements[E]) \in Nat /\ Len(Elements[S]) \in Nat /\ Len(Elements[R]) \in Nat
            /\ DOMAIN Elements[E] = 1 .. Len(Elements[E])
            /\ DOMAIN Elements[S] = 1 .. Len(Elements[S])
        BY <2>1, StructLayoutAssumption
      <4>2. /\ Len(Elements[E]) <= Len(Elements[S]) /\ Len(Elements[S]) <= Len(Elements[R])
            /\ \A k \in DOMAIN Elements[E] : Elements[E][k] = Elements[S][k]
            /\ \A k \in DOMAIN Elements[S] : Elements[S][k] = Elements[R][k]
        BY <3>3 DEF IsLayoutPrefix
      <4>3. Len(Elements[E]) <= Len(Elements[R])
        BY <4>1, <4>2
      <4>4. \A k \in DOMAIN Elements[E] : k \in DOMAIN Elements[S]
        BY <4>1, <4>2
      <4>5. IsLayoutPrefix(E, R)
        BY <4>2, <4>3, <4>4 DEF IsLayoutPrefix
      <4> QED BY <3>3, <4>5 DEF Accepts
    <3> QED BY <1>1, <3>1, <3>2, <3>3 DEF Accepts
  <2> QED BY <2>1, <2>2 DEF Fitting, E
<1> QED BY <1>1, <1>2, <1>3 DEF First

LEMMA HandedOff ==
    ASSUME ObjectInv, NEW S \in StructType, HandOff(S), NEW p,
           Object!Searches(S) /\ Fitting(CurrentType, S) # {} => First(CurrentType, S, p)
    PROVE  Object!TypeOK' /\ Parts' /\ Located'
<1> DEFINE C == CurrentType
           P == Places(C) \cup {<<>>}
<1>1. /\ C \in StructType /\ CurrentType' = C /\ C # NoType /\ method' = S
      /\ ~unreachable
      /\ Stays(S) \/ ToWhole(S) \/ Lost(S) \/ ToPart(S, p)
  BY HandOffIs, StructLayoutAssumption
<1>2. TypeAt(C, <<>>) = C
  BY <1>1, WholeIs
<1>3. /\ this \in P /\ DOMAIN SubStruct \subseteq P \ {<<>>}
      /\ \A q \in DOMAIN SubStruct : SubStruct[q] = <<>>
      /\ this = <<>> \/ this \in DOMAIN SubStruct
      /\ method \in StructType \cup {NoType} /\ unreachable \in BOOLEAN
  BY <1>1, ObjectOperators DEF ObjectInv, Object!TypeOK, Parts
<1>4. ASSUME this' \in P, DOMAIN SubStruct' \subseteq P \ {<<>>},
             \A q \in DOMAIN SubStruct' : SubStruct'[q] = <<>>,
             this' = <<>> \/ this' \in DOMAIN SubStruct', unreachable' \in BOOLEAN
      PROVE  Object!TypeOK' /\ Parts'
  <2>1. <<>> \in P
    OBVIOUS
  <2>2. Object!TypeOK'
    BY <1>1, <1>4, <2>1, ObjectOperators DEF Object!TypeOK
  <2>3. Parts'
    BY <1>1, <1>4 DEF Parts
  <2> QED BY <2>2, <2>3
<1>5. CASE Stays(S)
  <2>1. /\ method # NoType /\ TypeAt(C, this) = S /\ this' = this
        /\ SubStruct' = SubStruct /\ unreachable' = unreachable
    BY <1>5 DEF Stays
  <2>2. Located'
    <3> SUFFICES ASSUME NameOf[S] # ABIInfo
                 PROVE  IF S = C THEN this = <<>> ELSE First(C, S, this)
      <4> HIDE DEF P
      <4> QED BY <1>1, <2>1 DEF Located, First, Fitting
    <3>1. IF method = C THEN this = <<>> ELSE First(C, method, this)
      BY <1>1, <2>1 DEF ObjectInv, Located
    <3>2. CASE method = C
      BY <1>2, <2>1, <3>1, <3>2
    <3>3. CASE method # C
      <4>1. First(C, method, this) /\ method \in StructType
        BY <1>3, <2>1, <3>1, <3>3
      <4>2. this \in Seq(Nat) /\ this # <<>>
        BY <1>1, <4>1, FirstIs
      <4>3. S # C
        BY <1>1, <2>1, <4>2, NotInside
      <4> QED BY <1>1, <2>1, <4>1, <4>3, FirstOfType
    <3> QED BY <3>2, <3>3
  <2> QED BY <1>1, <1>3, <1>4, <2>1, <2>2
<1>6. CASE ToWhole(S)
  <2>1. S = C /\ this' = <<>> /\ SubStruct' = SubStruct /\ unreachable' = unreachable
    BY <1>6 DEF ToWhole
  <2>2. Located'
    BY <1>1, <2>1 DEF Located
  <2> QED BY <1>1, <1>3, <1>4, <2>1, <2>2
<1>7. CASE Lost(S)
  <2>1. unreachable' = TRUE /\ this' = this /\ SubStruct' = SubStruct
    BY <1>7 DEF Lost
  <2>2. Located'
    BY <2>1 DEF Located
  <2> QED BY <1>3, <1>4, <2>1, <2>2
<1>8. CASE ToPart(S, p)
  <2>1. /\ S # C /\ (method # NoType => TypeAt(C, this) # S)
        /\ Fitting(C, S) # {} /\ this' = p /\ unreachable' = unreachable
        /\ SubStruct' = [q \in DOMAIN SubStruct \cup {p} |-> IF q = p THEN <<>> ELSE SubStruct[q]]
    BY <1>8 DEF ToPart
  <2>2. Object!Searches(S)
    BY <1>1, <2>1, WholeIs
  <2>3. First(C, S, p)
    BY <2>1, <2>2
  <2>4. p \in P \ {<<>>}
    BY <1>1, <2>3, FirstIs
  <2>5. Located'
    BY <1>1, <2>1, <2>3 DEF Located, First, Fitting
  <2> QED BY <1>1, <1>3, <1>4, <2>1, <2>4, <2>5
<1> QED BY <1>1, <1>5, <1>6, <1>7, <1>8

LEMMA ObjectUnchanged ==
    ASSUME ObjectInv, UNCHANGED objectVars
    PROVE  Object!TypeOK' /\ Parts' /\ Located'
<1> USE DEF objectVars
<1>1. Object!TypeOK'
  BY DEF ObjectInv, Object!TypeOK
<1>2. Parts'
  BY DEF ObjectInv, Parts
<1>3. Located'
  BY DEF ObjectInv, Located, First, Fitting
<1> QED BY <1>1, <1>2, <1>3

LEMMA BeginStep ==
    ASSUME ObjectInv, NEW S \in StructType, Object!Begin(S)
    PROVE  Object!TypeOK' /\ Parts' /\ Located' /\ ~unreachable'
<1>1. /\ CurrentType' = S /\ method' = NoType /\ this' = <<>> /\ ~unreachable
      /\ SubStruct' = [p \in {} |-> <<>>] /\ unreachable' = unreachable
  BY DEF Object!Begin
<1>2. DOMAIN SubStruct' = {}
  BY <1>1
<1>3. Object!TypeOK'
  BY <1>1, <1>2 DEF Object!TypeOK, ObjectInv
<1>4. Parts'
  BY <1>1, <1>2 DEF Parts
<1>5. Located'
  BY <1>1 DEF Located
<1> QED BY <1>1, <1>3, <1>4, <1>5

LEMMA ObjectShows == ObjectInv => DispatchesAsWhole /\ PathIndependent
<1> SUFFICES ASSUME ObjectInv, method # NoType, ~unreachable
             PROVE  /\ Object!DispatchType = CurrentType
                    /\ NameOf[TypeAt(CurrentType, this)] # ABIInfo =>
                          this = IF method = CurrentType THEN <<>>
                                 ELSE Object!getSupertypeIndices(CurrentType, method)
  BY ObjectOperators DEF DispatchesAsWhole, Object!DispatchesAsWhole,
                         PathIndependent, Object!PathIndependent
<1>1. CurrentType # NoType
  BY DEF ObjectInv, Parts
<1>2. CurrentType \in StructType /\ Object!DispatchType = CurrentType
  BY <1>1, WholeIs
<1>3. ASSUME NameOf[TypeAt(CurrentType, this)] # ABIInfo, method # CurrentType
      PROVE  Object!getSupertypeIndices(CurrentType, method) = this
  <2>1. First(CurrentType, method, this)
    BY <1>3 DEF ObjectInv, Located
  <2> QED BY <1>2, <2>1, FirstIs
<1> QED BY <1>2, <1>3 DEF ObjectInv, Located

-----------------------------------------------------------------------------
(* The three together.                                                     *)
IndInv == LoopInv /\ SearchInv /\ ObjectInv

LEMMA InvInit == Init => IndInv
<1> SUFFICES ASSUME Init PROVE IndInv
  OBVIOUS
<1>1. LoopInv
  BY LoopInit
<1>2. SearchInv
  BY SearchIdle DEF Init, Search!Init
<1>3. /\ CurrentType = NoType /\ method = NoType /\ this = <<>> /\ unreachable = FALSE
      /\ result = "idle"
  BY DEF Init, Object!Init, Search!Init
<1>4. ObjectInv
  BY <1>3 DEF ObjectInv, Object!TypeOK, Parts, Located, Asked, AlwaysFound
<1> QED BY <1>1, <1>2, <1>4 DEF IndInv

(* The steps of the loop while no class is being analysed.                 *)
LEMMA SelectKeeps ==
    ASSUME IndInv, result = "idle", ~unreachable, UNCHANGED <<objectVars, searchVars>>
    PROVE  SearchInv' /\ ObjectInv'
<1>1. SearchInv'
  BY SearchUnchanged DEF IndInv
<1>2. Object!TypeOK' /\ Parts' /\ Located'
  BY ObjectUnchanged DEF IndInv
<1>3. Asked' /\ AlwaysFound'
  BY DEF Asked, AlwaysFound, objectVars, searchVars
<1> QED BY <1>1, <1>2, <1>3 DEF ObjectInv

LEMMA SelectStep ==
    ASSUME IndInv,
           \/ Select(Loop!NextEntry) \/ Select(Loop!Collect) \/ Select(Loop!Collected)
           \/ Select(Loop!Filter) \/ Select(Loop!ChooseType) \/ Select(Loop!Chosen)
           \/ Select(Loop!ChooseAgain)
    PROVE  IndInv'
<1>1. SearchInv' /\ ObjectInv'
  BY SelectKeeps DEF Select
<1>2. LoopInv
  BY DEF IndInv
<1>3. LoopInv'
  BY <1>2, NextEntryStep, CollectStep, CollectedStep, FilterStep, ChooseTypeStep,
     ChosenStep, ChooseAgainStep DEF Select
<1> QED BY <1>1, <1>3 DEF IndInv

LEMMA AnalyzeKeeps ==
    ASSUME IndInv, Analyze
    PROVE  IndInv'
<1>1. /\ Loop!Analyze /\ Object!Begin(T) /\ result = "idle" /\ UNCHANGED searchVars
  BY DEF Analyze
<1>2. LoopInv'
  BY <1>1, AnalyzeStep DEF IndInv
<1>3. T \in StructType
  BY <1>1 DEF IndInv, LoopInv, Loop!TypeOK, Loop!Analyze
<1>4. SearchInv'
  BY <1>1, SearchUnchanged DEF IndInv
<1>5. Object!TypeOK' /\ Parts' /\ Located' /\ ~unreachable'
  BY <1>1, <1>3, BeginStep DEF IndInv
<1>6. Asked' /\ AlwaysFound'
  BY <1>1, <1>5 DEF Asked, AlwaysFound, searchVars
<1> QED BY <1>2, <1>4, <1>5, <1>6 DEF IndInv, ObjectInv

(* The classes of the methods at hand are struct types.                    *)
LEMMA ThisTypesAre == IndInv => ThisTypes \subseteq StructType
BY DEF IndInv, LoopInv, Analysing, ThisTypes, MethodEntry

LEMMA HandOverStep ==
    ASSUME IndInv, HandOver
    PROVE  IndInv'
<1>1. PICK S \in ThisTypes : ~Object!Searches(S) /\ HandOff(S)
  BY DEF HandOver
<1>2. InAnalysis /\ result = "idle" /\ UNCHANGED <<loopVars, searchVars>>
  BY DEF HandOver
<1>3. S \in StructType /\ ObjectInv
  BY ThisTypesAre DEF IndInv
<1>4. Object!Searches(S) /\ Fitting(CurrentType, S) # {} => First(CurrentType, S, <<>>)
  BY <1>1
<1>5. /\ CurrentType \in StructType /\ CurrentType' = CurrentType /\ ~unreachable
      /\ Stays(S) \/ ToWhole(S) \/ Lost(S) \/ ToPart(S, <<>>)
  BY <1>1, <1>3, <1>4, HandOffIs
<1>6. Object!TypeOK' /\ Parts' /\ Located'
  BY <1>1, <1>3, <1>4, HandedOff
<1>7. LoopInv'
  BY <1>2, <1>5, LoopUnchanged DEF IndInv
<1>8. SearchInv'
  BY <1>2, SearchUnchanged DEF IndInv
<1>9. unreachable' = unreachable
  <2>1. ~Lost(S)
    <3>1. CurrentType # NoType
      BY <1>5, StructLayoutAssumption
    <3> QED BY <1>1, <1>3, <3>1, WholeIs DEF Lost
  <2> QED BY <1>5, <2>1 DEF Stays, ToWhole, ToPart
<1>10. Asked' /\ AlwaysFound'
  BY <1>2, <1>5, <1>9 DEF Asked, AlwaysFound, searchVars
<1> QED BY <1>6, <1>7, <1>8, <1>10 DEF IndInv, ObjectInv

LEMMA CallKeeps ==
    ASSUME IndInv, Call
    PROVE  IndInv'
<1>1. PICK S \in ThisTypes : Object!Searches(S) /\ Search!Call(Object!Holder, S)
  BY DEF Call
<1>2. InAnalysis /\ ~unreachable /\ UNCHANGED <<loopVars, objectVars>>
  BY DEF Call
<1>3. S \in StructType
  BY ThisTypesAre
<1>4. CurrentType = T /\ CurrentType # NoType
  BY <1>2 DEF IndInv, LoopInv, Analysing, InAnalysis
<1>5. /\ CurrentType \in StructType /\ Object!Holder = CurrentType
      /\ S # CurrentType /\ (method # NoType => TypeAt(CurrentType, this) # S)
  BY <1>1, <1>4, WholeIs DEF IndInv
<1>6. Search!Call(CurrentType, S)
  BY <1>1, <1>5
<1>7. SearchInv'
  BY <1>3, <1>5, <1>6, CallStep DEF IndInv
<1>8. LoopInv'
  BY <1>2, LoopUnchanged DEF IndInv, objectVars
<1>9. Object!TypeOK' /\ Parts' /\ Located'
  BY <1>2, ObjectUnchanged DEF IndInv
<1>10. from' = CurrentType /\ SuperTy' = S
  BY <1>6 DEF Search!Call
<1>11. Asked'
  BY <1>1, <1>2, <1>5, <1>10 DEF Asked, InAnalysis, ThisTypes, loopVars, objectVars
<1>12. AlwaysFound'
  BY <1>2 DEF AlwaysFound, objectVars
<1> QED BY <1>7, <1>8, <1>9, <1>11, <1>12 DEF IndInv, ObjectInv

LEMMA SearchKeeps ==
    ASSUME IndInv, SearchStep
    PROVE  IndInv'
<1>1. Search!Step /\ UNCHANGED <<loopVars, objectVars>>
  BY DEF SearchStep
<1>2. SearchInv'
  BY <1>1, HitStep, DescendStep, ExhaustedStep DEF IndInv, Search!Step
<1>3. LoopInv'
  BY <1>1, LoopUnchanged DEF IndInv, objectVars
<1>4. Object!TypeOK' /\ Parts' /\ Located'
  BY <1>1, ObjectUnchanged DEF IndInv
<1>5. result = "searching" /\ from' = from /\ SuperTy' = SuperTy
  BY <1>1 DEF Search!Step, Search!Hit, Search!Descend, Search!Exhausted
<1>6. Asked'
  BY <1>1, <1>5 DEF IndInv, ObjectInv, Asked, InAnalysis, ThisTypes, loopVars, objectVars
<1>7. AlwaysFound'
  BY <1>1 DEF IndInv, ObjectInv, AlwaysFound, ThisTypes, loopVars, objectVars
<1> QED BY <1>2, <1>3, <1>4, <1>6, <1>7 DEF IndInv, ObjectInv

(* The search has found the place of the class in the whole object; it has *)
(* found none only if no type among those of the methods holds all others. *)
LEMMA ReturnKeeps ==
    ASSUME IndInv, Return
    PROVE  IndInv'
<1>1. Search!Return /\ HandOff(SuperTy) /\ UNCHANGED loopVars
  BY DEF Return
<1>2. /\ result \in {"found", "unreachable"} /\ from' = NoType /\ SuperTy' = NoType
      /\ Q' = <<>> /\ result' = "idle" /\ place' = <<>>
  BY <1>1 DEF Search!Return
<1>3. /\ InAnalysis /\ ~unreachable /\ from = CurrentType
      /\ SuperTy \in ThisTypes /\ SuperTy # CurrentType
  BY <1>2 DEF IndInv, ObjectInv, Asked
<1>4. SuperTy \in StructType /\ ObjectInv
  BY <1>3, ThisTypesAre DEF IndInv
<1>5. /\ result = "found" => First(CurrentType, SuperTy, place)
      /\ result = "unreachable" => Fitting(CurrentType, SuperTy) = {}
  BY <1>3, AcceptableIs, SearchOperators DEF IndInv, SearchInv, FindsNearest,
     Search!FindsNearest, First
<1>6. Object!Searches(SuperTy) /\ Fitting(CurrentType, SuperTy) # {}
         => First(CurrentType, SuperTy, place)
  BY <1>2, <1>5
<1>7. /\ CurrentType \in StructType /\ CurrentType' = CurrentType
      /\ Stays(SuperTy) \/ ToWhole(SuperTy) \/ Lost(SuperTy) \/ ToPart(SuperTy, place)
  BY <1>1, <1>4, <1>6, HandOffIs
<1>8. Object!TypeOK' /\ Parts' /\ Located'
  BY <1>1, <1>4, <1>6, HandedOff
<1>9. LoopInv'
  BY <1>1, <1>7, LoopUnchanged DEF IndInv
<1>10. SearchInv'
  BY <1>2 DEF SearchInv, Search!TypeOK, Searching, FindsNearest, Search!FindsNearest
<1>11. Asked'
  BY <1>2 DEF Asked
<1>12. AlwaysFound'
  <2> SUFFICES ASSUME unreachable', ~HasRenamed(analysed),
                      NEW S \in ThisTypes, \A R \in ThisTypes : Holds(S, R)
               PROVE  FALSE
    BY <1>1 DEF AlwaysFound, HasRenamed, ThisTypes, loopVars
  <2>1. Fitting(CurrentType, SuperTy) = {}
    BY <1>3, <1>7 DEF Stays, ToWhole, Lost, ToPart
  <2>2. MostDerived(CurrentType, analysed)
    BY <1>7, StructLayoutAssumption DEF IndInv, LoopInv, Analysing
  <2>3. S \in StructType
    BY ThisTypesAre
  <2>4. CurrentType = S
    BY <2>2, <2>3 DEF MostDerived, HoldsAll, ThisTypes
  <2>5. Holds(CurrentType, SuperTy)
    BY <1>3, <2>4
  <2>6. PICK p \in Places(CurrentType) : Accepts(TypeAt(CurrentType, p), SuperTy)
    BY <1>3, <1>4, <1>7, <2>5, HeldAccepted
  <2> QED BY <2>1, <2>6 DEF Fitting
<1> QED BY <1>8, <1>9, <1>10, <1>11, <1>12 DEF IndInv, ObjectInv

LEMMA InvStep == IndInv /\ [Next]_vars => IndInv'
<1> SUFFICES ASSUME IndInv, [Next]_vars PROVE IndInv'
  OBVIOUS
<1>1. CASE UNCHANGED vars
  <2>1. UNCHANGED <<loopVars, objectVars, searchVars>>
    BY <1>1 DEF vars
  <2>2. LoopInv'
    BY <2>1, LoopUnchanged DEF IndInv, objectVars
  <2>3. SearchInv'
    BY <2>1, SearchUnchanged DEF IndInv
  <2>4. Object!TypeOK' /\ Parts' /\ Located'
    BY <2>1, ObjectUnchanged DEF IndInv
  <2>5. Asked' /\ AlwaysFound'
    BY <2>1 DEF IndInv, ObjectInv, Asked, AlwaysFound, InAnalysis, ThisTypes,
       loopVars, objectVars, searchVars
  <2> QED BY <2>2, <2>3, <2>4, <2>5 DEF IndInv, ObjectInv
<1>2. CASE Done
  BY <1>1, <1>2 DEF Done
<1> QED BY <1>1, <1>2, SelectStep, AnalyzeKeeps, HandOverStep, CallKeeps, SearchKeeps,
           ReturnKeeps DEF Next

(* What holds between steps of the class loop, of the object and of the    *)
(* search, from the order of the queue to the parts of the object.         *)
THEOREM Invariant == Spec => []IndInv
<1>1. Init => IndInv
  BY InvInit
<1>2. IndInv /\ [Next]_vars => IndInv'
  BY InvStep
<1> QED BY <1>1, <1>2, PTL DEF Spec

(* The variables of the class loop, of the search and of the object have   *)
(* their types in every state: places lead to structs inside the object    *)
(* (lines 136 to 369, ClassQuery.cpp 915 to 955).                          *)
THEOREM TypesHold == Spec => []TypeOK
<1>1. IndInv => TypeOK
  BY DEF IndInv, LoopInv, SearchInv, ObjectInv, TypeOK
<1> QED BY <1>1, Invariant, PTL

(* Whatever the lists of the database hold, a class is analysed with all   *)
(* the methods the module has of it, but the DebugStrings, and only if     *)
(* each of them has a body (lines 144 to 313).                             *)
THEOREM ClassesWhole == Spec => []WholeClasses
<1>1. IndInv => WholeClasses
  BY LoopShows DEF IndInv
<1> QED BY <1>1, Invariant, PTL

(* For any classes and in any order of the methods, the object analysed is *)
(* of the type that holds the classes of all of them (lines 320 to 336).   *)
THEOREM ChoosesMostDerived == Spec => []MostDerivedChosen
<1>1. IndInv => MostDerivedChosen
  BY LoopShows DEF IndInv
<1> QED BY <1>1, Invariant, PTL

(* Breadth first, the search of ClassQuery returns the nearest and then    *)
(* the leftmost place it accepts, and nothing only if there is none.       *)
THEOREM SearchFindsNearest == Spec => []FindsNearest
<1>1. IndInv => FindsNearest
  BY DEF IndInv, SearchInv
<1> QED BY <1>1, Invariant, PTL

(* That place is the base class itself, if the layouts of the other base   *)
(* types inside the object tell them apart (ClassQuery.cpp, line 938).     *)
THEOREM FindsRightSubobject == Spec => []RightSubobject
<1>1. IndInv => RightSubobject
  BY SearchShows DEF IndInv
<1> QED BY <1>1, Invariant, PTL

(* What the search has found is where ThisObject takes the class to be:    *)
(* the hand-off after it is one to that place, or finds no place either.   *)
THEOREM SearchAgrees ==
    Spec => []( /\ result = "found" => Object!getSupertypeIndices(from, SuperTy) = place
                /\ result = "unreachable" => Object!Fits(from, SuperTy) = {} )
<1>1. ASSUME IndInv, result = "found"
      PROVE  Object!getSupertypeIndices(from, SuperTy) = place
  <2>1. First(from, SuperTy, place)
    BY <1>1, AcceptableIs, SearchOperators
       DEF IndInv, SearchInv, FindsNearest, Search!FindsNearest, First
  <2>2. from \in StructType
    BY <1>1 DEF IndInv, SearchInv, Search!TypeOK
  <2> QED BY <2>1, <2>2, FirstIs
<1>2. ASSUME IndInv, result = "unreachable" PROVE Object!Fits(from, SuperTy) = {}
  BY <1>2, AcceptableIs, FitsIs DEF IndInv, SearchInv, FindsNearest, Search!FindsNearest
<1>3. IndInv => /\ result = "found" => Object!getSupertypeIndices(from, SuperTy) = place
                /\ result = "unreachable" => Object!Fits(from, SuperTy) = {}
  BY <1>1, <1>2
<1> QED BY <1>3, Invariant, PTL

(* Virtual calls on `this' are those of the class at hand in every method, *)
(* after any sequence of hand-offs (Graph.h, changeThis).                  *)
THEOREM CallsAreWhole == Spec => []DispatchesAsWhole
<1>1. IndInv => DispatchesAsWhole
  BY ObjectShows DEF IndInv
<1> QED BY <1>1, Invariant, PTL

(* Where `this' points depends on the class of the method alone, not on    *)
(* the hand-offs before, but for the class that ends every search.         *)
THEOREM PathsAgree == Spec => []PathIndependent
<1>1. IndInv => PathIndependent
  BY ObjectShows DEF IndInv
<1> QED BY <1>1, Invariant, PTL

(* If the class of one of the methods holds those of all the others, the   *)
(* llvm_unreachable of getSupertypeIndices is not reached.                 *)
THEOREM SupertypesFound == Spec => []AlwaysFound
<1>1. IndInv => AlwaysFound
  BY DEF IndInv, ObjectInv
<1> QED BY <1>1, Invariant, PTL
=============================================================================
