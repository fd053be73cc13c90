------------------------- MODULE ClassTablesProofs -------------------------
(***************************************************************************)
(* Proofs about ClassTables for any module: any hierarchy, the cyclic ones *)
(* among them, any methods, any virtual slots and any number of struct     *)
(* types of a class.  The walk over the supertypes of a type goes level by *)
(* level, so that the first class found to define a slot is a nearest one, *)
(* and it ends with all the ancestors.                                     *)
(***************************************************************************)
EXTENDS ClassTables, NaturalsLemmas, TLAPS

(* A type has a debug type, some struct type stands for that, and the one  *)
(* that stands for a debug type has no other.                              *)
PairInv ==
    /\ \A T \in Types \cup IgnoredTypes :
          /\ TypeToDebugType[T] \in DebugType
          /\ DebugTypeToType[TypeToDebugType[T]] # NoType
          /\ isIgnoredType(M.spelled[T]) <=> T \in IgnoredTypes
    /\ \A D \in DebugType : DebugTypeToType[D] # NoType =>
          /\ DebugTypeToType[D] \in Types \cup IgnoredTypes
          /\ TypeToDebugType[DebugTypeToType[D]] = D

(* The walks begin when all functions have been seen, each type has one,   *)
(* and its tables are empty before.                                        *)
PhaseInv ==
    /\ Populating => current = NoType /\ done = {}
    /\ current \notin done
    /\ \A T \in Type \ done : T # current =>
          Supertypes[T] = {} /\ VTables[T] = NoMethods

Walking == current # NoType
Start == TypeToDebugType[current]
Met == Visited \cup ToSet(Queue)

(* What is met is an ancestor, and so are its bases once it is visited.    *)
MetInv == Walking =>
    /\ Start \in Visited \/ Queue = <<Start>>
    /\ Met \subseteq Ancestors(Start)
    /\ \A D \in Visited : ToSet(DirectSupertypes[D]) \subseteq Met

(* The queue holds what is left of level n, up to place j, and then what   *)
(* is known of the next level.                                             *)
AtLevel(n, j) ==
    /\ \A i \in DOMAIN Queue :
          Queue[i] \in IF i <= j THEN Within[n][Start] ELSE Within[n + 1][Start]
    /\ Visited \subseteq Within[n][Start]
    /\ Within[n][Start] \subseteq Visited \cup {Queue[i] : i \in 1 .. j}
    /\ \A m \in Nat : m < n => Within[m][Start] \subseteq Visited
LevelInv == Walking => \E n \in Nat : \E j \in 0 .. Len(Queue) : AtLevel(n, j)

Covered(methods, F) ==
    F \in methods \/ \E G \in methods : isSameFunctionNameAndParams(F, G)
Defines(D, i) == /\ DebugTypeToType[D] # NoType
                 /\ DirectVirtualMethods[DebugTypeToType[D]][i] # NoFunction
Nearest(D, i) == \A m \in Nat : \A E \in Within[m][Start] :
                    Defines(E, i) => D \in Within[m][Start]

(* The tables of the type hold what the visited classes give.              *)
SupersInv == Walking => Supertypes[current] = TypesFor(Met \ {Start})
MethodsInv == Walking =>
    \A D \in Visited : DebugTypeToType[D] # NoType =>
        \A F \in ToSet(DirectPublicConstMethods[DebugTypeToType[D]]) :
            Covered(PublicConstMethods[current], F)
SlotsInv == Walking =>
    \A i \in Slot :
        \/ /\ \A D \in Visited : ~Defines(D, i)
           /\ VTables[current][i] = NoFunction
        \/ \E D \in Visited :
              /\ Defines(D, i)
              /\ VTables[current][i] = DirectVirtualMethods[DebugTypeToType[D]][i]
              /\ Nearest(D, i)

IndInv == /\ M \in Modules
          /\ TypeOK
          /\ PairInv
          /\ PhaseInv
          /\ MetInv
          /\ LevelInv
          /\ SupersInv
          /\ MethodsInv
          /\ SlotsInv
          /\ SupertypesExact
          /\ DispatchesToNearest
-----------------------------------------------------------------------------

(* Lemmas about sequences and the operators of the model.                  *)
LEMMA MembersType ==
    ASSUME NEW S, NEW q \in Seq(S)
    PROVE  ToSet(q) \subseteq S
BY DEF ToSet

LEMMA TailMembers ==
    ASSUME NEW S, NEW q \in Seq(S), q # <<>>
    PROVE  /\ Tail(q) \in Seq(S) /\ Head(q) \in S
           /\ ToSet(q) = {Head(q)} \cup ToSet(Tail(q))
<1>1. Len(q) \in Nat /\ Len(q) > 0 /\ DOMAIN q = 1 .. Len(q) /\ Head(q) = q[1]
  OBVIOUS
<1>2. Tail(q) \in Seq(S) /\ Len(Tail(q)) = Len(q) - 1 /\ Head(q) \in S
  OBVIOUS
<1>3. \A i \in 1 .. Len(q) - 1 : Tail(q)[i] = q[i + 1]
  OBVIOUS
<1>4. \A x \in ToSet(q) : x = Head(q) \/ x \in ToSet(Tail(q))
  <2>1. SUFFICES ASSUME NEW i \in 1 .. Len(q), i # 1 PROVE q[i] \in ToSet(Tail(q))
    BY <1>1 DEF ToSet
  <2>2. i - 1 \in DOMAIN Tail(q) /\ Tail(q)[i - 1] = q[i]
    BY <1>1, <1>2, <1>3, <2>1
  <2> QED BY <2>2 DEF ToSet
<1>5. \A x \in ToSet(Tail(q)) : x \in ToSet(q)
  <2>1. SUFFICES ASSUME NEW i \in 1 .. Len(q) - 1 PROVE Tail(q)[i] \in ToSet(q)
    BY <1>2 DEF ToSet
  <2>2. i + 1 \in DOMAIN q /\ Tail(q)[i] = q[i + 1]
    BY <1>1, <1>3, <2>1
  <2> QED BY <2>2 DEF ToSet
<1>6. Head(q) \in ToSet(q)
  BY <1>1 DEF ToSet
<1> QED BY <1>2, <1>4, <1>5, <1>6

LEMMA ConcatAt ==
    ASSUME NEW S, NEW q \in Seq(S), NEW r \in Seq(S)
    PROVE  /\ Len(q \o r) = Len(q) + Len(r)
           /\ DOMAIN (q \o r) = 1 .. Len(q) + Len(r)
           /\ \A i \in 1 .. Len(q) + Len(r) :
                 (q \o r)[i] = IF i <= Len(q) THEN q[i] ELSE r[i - Len(q)]
OBVIOUS

LEMMA ConcatMembers ==
    ASSUME NEW S, NEW q \in Seq(S), NEW r \in Seq(S)
    PROVE  q \o r \in Seq(S) /\ ToSet(q \o r) = ToSet(q) \cup ToSet(r)
<1>1. /\ q \o r \in Seq(S) /\ Len(q \o r) = Len(q) + Len(r)
      /\ Len(q) \in Nat /\ Len(r) \in Nat
      /\ DOMAIN q = 1 .. Len(q) /\ DOMAIN r = 1 .. Len(r)
      /\ DOMAIN (q \o r) = 1 .. Len(q) + Len(r)
  OBVIOUS
<1>2. \A i \in 1 .. Len(q) + Len(r) :
          (q \o r)[i] = IF i <= Len(q) THEN q[i] ELSE r[i - Len(q)]
  OBVIOUS
<1>3. \A x \in ToSet(q \o r) : x \in ToSet(q) \cup ToSet(r)
  <2>1. SUFFICES ASSUME NEW i \in 1 .. Len(q) + Len(r)
                 PROVE  (q \o r)[i] \in ToSet(q) \cup ToSet(r)
    BY <1>1 DEF ToSet
  <2>2. i <= Len(q) => i \in DOMAIN q
    BY <1>1
  <2>3. ~(i <= Len(q)) => i - Len(q) \in DOMAIN r
    BY <1>1
  <2> QED BY <1>2, <2>2, <2>3 DEF ToSet
<1>4. \A x \in ToSet(q) : x \in ToSet(q \o r)
  <2>1. SUFFICES ASSUME NEW i \in 1 .. Len(q) PROVE q[i] \in ToSet(q \o r)
    BY <1>1 DEF ToSet
  <2>2. i \in DOMAIN (q \o r) /\ (q \o r)[i] = q[i]
    BY <1>1, <1>2
  <2> QED BY <2>2 DEF ToSet
<1>5. \A x \in ToSet(r) : x \in ToSet(q \o r)
  <2>1. SUFFICES ASSUME NEW i \in 1 .. Len(r) PROVE r[i] \in ToSet(q \o r)
    BY <1>1 DEF ToSet
  <2>2. i + Len(q) \in DOMAIN (q \o r) /\ (q \o r)[i + Len(q)] = r[i]
    BY <1>1, <1>2
  <2> QED BY <2>2 DEF ToSet
<1> QED BY <1>1, <1>3, <1>4, <1>5

LEMMA AppendMembers ==
    ASSUME NEW S, NEW q \in Seq(S), NEW x \in S
    PROVE  Append(q, x) \in Seq(S) /\ ToSet(Append(q, x)) = ToSet(q) \cup {x}
<1>1. /\ Append(q, x) \in Seq(S) /\ Len(Append(q, x)) = Len(q) + 1
      /\ Len(q) \in Nat /\ DOMAIN q = 1 .. Len(q)
      /\ DOMAIN Append(q, x) = 1 .. Len(q) + 1
  OBVIOUS
<1>2. /\ \A i \in 1 .. Len(q) : Append(q, x)[i] = q[i]
      /\ Append(q, x)[Len(q) + 1] = x
  OBVIOUS
<1>3. \A i \in 1 .. Len(q) + 1 : i # Len(q) + 1 => i \in 1 .. Len(q)
  BY <1>1
<1>4. Len(q) + 1 \in 1 .. Len(q) + 1 /\ 1 .. Len(q) \subseteq 1 .. Len(q) + 1
  BY <1>1
<1> QED BY <1>1, <1>2, <1>3, <1>4 DEF ToSet

(* The bases of a definition are debug types of the module.                *)
LEMMA BasesType ==
    ASSUME NEW S, NEW elements, elements \in Seq(Range(elements)),
           \A i \in DOMAIN elements : IsBase(elements[i]) => elements[i].base \in S
    PROVE  Bases(elements) \in Seq(S)
<1> DEFINE L == Len(elements)
           B == {i \in 1 .. L : IsBase(elements[i])}
           T == {n \in 0 .. L : n = L \/ n + 1 \notin B}
<1>1. L \in Nat /\ DOMAIN elements = 1 .. L
  OBVIOUS
<1> HIDE DEF L, B
<1>2. PICK n \in T : \A m \in T : n <= m
  <2>1. L \in T
    BY <1>1
  <2>2. T \in SUBSET Nat
    BY <1>1
  <2> HIDE DEF T
  <2> QED BY <2>1, <2>2, Least
<1>3. 1 .. n \subseteq B
  <2> SUFFICES ASSUME NEW i \in 1 .. n, i \notin B PROVE FALSE
    OBVIOUS
  <2>1. i - 1 \in 0 .. L /\ (i - 1) + 1 = i /\ ~(n <= i - 1)
    BY <1>1, <1>2
  <2> QED BY <1>2, <2>1
<1> DEFINE Wanted(k) == /\ \A i \in 1 .. k : IsBase(elements[i])
                        /\ k < L => ~IsBase(elements[k + 1])
           c == CHOOSE k \in 0 .. L : Wanted(k)
<1>4. n \in 0 .. L /\ Wanted(n)
  <2>1. n \in 0 .. L /\ \A i \in 1 .. n : IsBase(elements[i])
    BY <1>2, <1>3 DEF B
  <2>2. n < L => n + 1 \in 1 .. L /\ n + 1 \notin B
    BY <1>1, <1>2
  <2>3. n < L => ~IsBase(elements[n + 1])
    BY <2>2 DEF B
  <2> QED BY <2>1, <2>3
<1>5. c \in 0 .. L /\ Wanted(c)
  <2> HIDE DEF Wanted
  <2> QED BY <1>4, Zenon
<1>6. Bases(elements) = [i \in 1 .. c |-> elements[i].base]
  BY Zenon DEF Bases, L
<1> HIDE DEF c
<1>7. \A i \in 1 .. c : i \in DOMAIN elements /\ IsBase(elements[i])
  <2>1. \A i \in 1 .. c : i \in 1 .. L
    BY <1>1, <1>5
  <2> QED BY <1>1, <1>5, <2>1
<1>8. \A i \in 1 .. c : elements[i].base \in S
  BY <1>7
<1>9. c \in Nat
  <2> HIDE DEF Wanted
  <2> QED BY <1>1, <1>5
<1> QED BY <1>6, <1>8, <1>9

(* Unvisited keeps the bases of D that have not been seen.                 *)
LEMMA UnvisitedProps ==
    ASSUME NEW S, NEW D, NEW seen, DirectSupertypes[D] \in Seq(S)
    PROVE  /\ Unvisited(D, seen) \in Seq(S)
           /\ ToSet(Unvisited(D, seen)) = ToSet(DirectSupertypes[D]) \ seen
<1> DEFINE supers == DirectSupertypes[D]
           N == Len(supers)
           F == [i \in 1 .. N |-> [q \in Seq(S) |->
                    IF supers[i] \in seen THEN q ELSE Append(q, supers[i])]]
<1>1. N \in Nat /\ DOMAIN supers = 1 .. N /\ \A i \in 1 .. N : supers[i] \in S
  OBVIOUS
<1>2. F \in [1 .. N -> [Seq(S) -> Seq(S)]]
  <2> SUFFICES ASSUME NEW i \in 1 .. N, NEW q \in Seq(S)
               PROVE  Append(q, supers[i]) \in Seq(S)
    OBVIOUS
  <2> HIDE DEF supers
  <2> QED BY <1>1
<1>3. <<>> \in Seq(S)
  OBVIOUS
<1>4. \E g \in [0 .. N -> Seq(S)] : Steps(g, N, <<>>, F)
  <2> HIDE DEF F, N, supers
  <2> QED BY <1>1, <1>2, <1>3, StepsUpTo
<1> DEFINE Solves(g) ==
        g = [n \in 0 .. N |-> IF n = 0 THEN <<>>
                              ELSE IF supers[n] \in seen THEN g[n - 1]
                              ELSE Append(g[n - 1], supers[n])]
<1>5. \E g : Solves(g) /\ g \in [0 .. N -> Seq(S)]
  <2>1. PICK g \in [0 .. N -> Seq(S)] :
            g = [n \in 0 .. N |-> IF n = 0 THEN <<>> ELSE F[n][g[n - 1]]]
    BY <1>4 DEF Steps
  <2>2. ASSUME NEW n \in 0 .. N, n # 0
        PROVE  F[n][g[n - 1]] = IF supers[n] \in seen THEN g[n - 1]
                                    ELSE Append(g[n - 1], supers[n])
    <3>1. n \in 1 .. N /\ n - 1 \in 0 .. N
      BY <1>1, <2>2
    <3>2. g[n - 1] \in Seq(S)
      BY <2>1, <3>1
    <3> QED BY <3>1, <3>2
  <2> HIDE DEF F, N, supers
  <2>3. \A n \in 0 .. N : n # 0 =>
           F[n][g[n - 1]] = IF supers[n] \in seen THEN g[n - 1]
                                ELSE Append(g[n - 1], supers[n])
    BY <2>2, Zenon
  <2>4. [n \in 0 .. N |-> IF n = 0 THEN <<>> ELSE F[n][g[n - 1]]]
          = [n \in 0 .. N |-> IF n = 0 THEN <<>>
                              ELSE IF supers[n] \in seen THEN g[n - 1]
                              ELSE Append(g[n - 1], supers[n])]
    BY <2>3, Zenon
  <2> QED BY <2>1, <2>4
<1> DEFINE among == CHOOSE g : Solves(g)
<1>6. Solves(among)
  <2> HIDE DEF Solves
  <2> QED BY <1>5, Zenon
<1>7. Unvisited(D, seen) = among[N]
  BY Zenon DEF Unvisited
<1> HIDE DEF among
<1> DEFINE Got(n) == /\ among[n] \in Seq(S)
                      /\ ToSet(among[n]) = {supers[i] : i \in 1 .. n} \ seen
           T == {n \in Nat : n <= N => Got(n)}
<1>8. 0 \in T
  <2>1. among[0] = <<>>
    BY <1>6, <1>1
  <2>2. ToSet(<<>>) = {} /\ {supers[i] : i \in 1 .. 0} = {}
    BY DEF ToSet
  <2> HIDE DEF supers
  <2> QED BY <1>3, <2>1, <2>2
<1>9. ASSUME NEW n \in Nat, n \in T, n + 1 <= N PROVE Got(n + 1)
  <2>1. n + 1 \in 0 .. N /\ n + 1 \in 1 .. N /\ (n + 1) - 1 = n /\ n <= N /\ n + 1 # 0
    BY <1>1, <1>9
  <2>2. among[n + 1] = IF supers[n + 1] \in seen THEN among[n]
                       ELSE Append(among[n], supers[n + 1])
    <3> HIDE DEF supers, N
    <3> QED BY <1>6, <2>1
  <2>3. supers[n + 1] \in S
    BY <1>1, <2>1
  <2>4. Got(n)
    BY <1>9, <2>1
  <2>5. {supers[i] : i \in 1 .. n + 1} = {supers[i] : i \in 1 .. n} \cup {supers[n + 1]}
    <3>1. 1 .. n + 1 = (1 .. n) \cup {n + 1}
      OBVIOUS
    <3> HIDE DEF supers
    <3> QED BY <3>1
  <2> HIDE DEF supers, N
  <2>6. CASE supers[n + 1] \in seen
    BY <2>2, <2>4, <2>5, <2>6
  <2>7. CASE supers[n + 1] \notin seen
    <3>1. Append(among[n], supers[n + 1]) \in Seq(S)
      BY <2>3, <2>4, AppendMembers
    <3>2. ToSet(Append(among[n], supers[n + 1])) = ToSet(among[n]) \cup {supers[n + 1]}
      BY <2>3, <2>4, AppendMembers
    <3> QED BY <2>2, <2>4, <2>5, <2>7, <3>1, <3>2
  <2> QED BY <2>6, <2>7
<1>10. Nat \subseteq T
  <2>1. \A n \in Nat : n \in T => n + 1 \in T
    <3> HIDE DEF Got, N
    <3> QED BY <1>1, <1>9
  <2> HIDE DEF T
  <2> QED BY <1>8, <2>1, Induction
<1>11. Got(N)
  <2> HIDE DEF Got, N
  <2>1. N \in Nat /\ N <= N
    BY <1>1
  <2> QED BY <1>10, <2>1
<1>12. {supers[i] : i \in 1 .. N} = ToSet(supers)
  BY <1>1 DEF ToSet
<1> QED BY <1>7, <1>11, <1>12

LEMMA AddProps ==
    ASSUME NEW methods, NEW F
    PROVE  /\ methods \subseteq AddVisible(methods, F)
           /\ AddVisible(methods, F) \subseteq methods \cup {F}
           /\ Covered(AddVisible(methods, F), F)
           /\ Covered(methods, F) => AddVisible(methods, F) = methods
BY Zenon DEF AddVisible, Covered

(* Visible adds the methods of the class one after the other.              *)
Adds(after, methods, fs) ==
    /\ after[0] = methods
    /\ \A n \in Nat : n + 1 <= Len(fs) =>
          after[n + 1] = AddVisible(after[n], fs[n + 1])
    /\ after[Len(fs)] = Visible(methods, fs)

LEMMA VisibleSteps ==
    ASSUME NEW S, NEW methods \in SUBSET S, NEW fs \in Seq(S)
    PROVE  \E after : Adds(after, methods, fs)
<1> DEFINE N == Len(fs)
           Q == SUBSET S
           Add == [i \in 1 .. N |-> [q \in Q |-> AddVisible(q, fs[i])]]
           Solves(g) == g = [n \in 0 .. N |-> IF n = 0 THEN methods
                                              ELSE AddVisible(g[n - 1], fs[n])]
<1>1. N \in Nat /\ DOMAIN fs = 1 .. N /\ \A i \in 1 .. N : fs[i] \in S
  OBVIOUS
<1>2. Add \in [1 .. N -> [Q -> Q]]
  <2> SUFFICES ASSUME NEW i \in 1 .. N, NEW q \in Q PROVE AddVisible(q, fs[i]) \in Q
    OBVIOUS
  <2> QED BY <1>1, AddProps
<1>3. PICK g \in [0 .. N -> Q] : Steps(g, N, methods, Add)
  <2> HIDE DEF Add, N
  <2> QED BY <1>1, <1>2, StepsUpTo
<1>4. Solves(g)
  <2>1. g = [n \in 0 .. N |-> IF n = 0 THEN methods ELSE Add[n][g[n - 1]]]
    BY <1>3, Zenon DEF Steps
  <2>2. ASSUME NEW n \in 0 .. N, n # 0 PROVE Add[n][g[n - 1]] = AddVisible(g[n - 1], fs[n])
    <3>1. n \in 1 .. N /\ n - 1 \in 0 .. N
      BY <1>1, <2>2
    <3>2. g[n - 1] \in Q
      BY <1>3, <3>1
    <3> QED BY <3>1, <3>2
  <2> HIDE DEF Add, N
  <2> QED BY <2>1, <2>2, Zenon
<1> DEFINE after == CHOOSE h : Solves(h)
<1>5. Solves(after)
  <2> HIDE DEF Solves
  <2> QED BY <1>4, Zenon
<1>6. Visible(methods, fs) = after[N]
  BY Zenon DEF Visible
<1>7. after[0] = methods
  BY <1>1, <1>5
<1>8. ASSUME NEW n \in Nat, n + 1 <= N
      PROVE  after[n + 1] = AddVisible(after[n], fs[n + 1])
  <2>1. n + 1 \in 0 .. N /\ (n + 1) - 1 = n /\ n + 1 # 0
    BY <1>1, <1>8
  <2> HIDE DEF after, N
  <2> QED BY <1>5, <2>1
<1> HIDE DEF after
<1>9. Adds(after, methods, fs)
  BY <1>6, <1>7, <1>8, Zenon DEF Adds
<1> QED BY <1>9

(* Visible adds methods of the class only, each of them is there or has an *)
(* equal there, and nothing is added if that was so before.                *)
LEMMA VisibleProps ==
    ASSUME NEW S, NEW methods \in SUBSET S, NEW fs \in Seq(S)
    PROVE  /\ methods \subseteq Visible(methods, fs)
           /\ Visible(methods, fs) \subseteq S
           /\ \A F \in ToSet(fs) : Covered(Visible(methods, fs), F)
           /\ (\A F \in ToSet(fs) : Covered(methods, F)) => Visible(methods, fs) = methods
<1> DEFINE N == Len(fs)
<1>1. N \in Nat /\ DOMAIN fs = 1 .. N /\ \A i \in 1 .. N : fs[i] \in S
  OBVIOUS
<1>2. PICK after : Adds(after, methods, fs)
  BY VisibleSteps
<1>3. Visible(methods, fs) = after[N]
  BY <1>2 DEF Adds
<1>4. after[0] = methods
  BY <1>2 DEF Adds
<1>5. ASSUME NEW n \in Nat, n + 1 <= N
      PROVE  /\ n + 1 \in 1 .. N
             /\ after[n + 1] = AddVisible(after[n], fs[n + 1])
  <2>1. n + 1 \in 1 .. N
    BY <1>1, <1>5
  <2> QED BY <1>2, <1>5, <2>1 DEF Adds
<1> DEFINE Good(n) == /\ methods \subseteq after[n]
                      /\ after[n] \subseteq S
                      /\ \A i \in 1 .. n : Covered(after[n], fs[i])
                      /\ (\A i \in 1 .. N : Covered(methods, fs[i])) => after[n] = methods
           T == {n \in Nat : n <= N => Good(n)}
<1>6. 0 \in T
  BY <1>4
<1>7. ASSUME NEW n \in Nat, n \in T, n + 1 <= N PROVE Good(n + 1)
  <2>1. Good(n)
    BY <1>1, <1>7
  <2>2. /\ n + 1 \in 1 .. N
        /\ after[n + 1] = AddVisible(after[n], fs[n + 1])
    BY <1>5, <1>7
  <2>3. fs[n + 1] \in S
    BY <1>1, <2>2
  <2>4. after[n] \subseteq after[n + 1]
    BY <2>2, AddProps
  <2>5. after[n + 1] \subseteq S
    BY <2>1, <2>2, <2>3, AddProps
  <2>6. ASSUME NEW i \in 1 .. n + 1 PROVE Covered(after[n + 1], fs[i])
    <3>1. CASE i = n + 1
      BY <2>2, <3>1, AddProps
    <3>2. CASE i # n + 1
      <4>1. i \in 1 .. n
        BY <3>2
      <4>2. Covered(after[n], fs[i])
        BY <2>1, <4>1
      <4> QED BY <2>4, <4>2, Zenon DEF Covered
    <3> QED BY <3>1, <3>2
  <2>7. (\A i \in 1 .. N : Covered(methods, fs[i])) => after[n + 1] = methods
    <3> HAVE \A i \in 1 .. N : Covered(methods, fs[i])
    <3>1. after[n] = methods /\ Covered(methods, fs[n + 1])
      BY <2>1, <2>2
    <3> QED BY <2>2, <3>1, AddProps
  <2> HIDE DEF N
  <2> QED BY <2>1, <2>4, <2>5, <2>6, <2>7
<1>8. Nat \subseteq T
  <2>1. \A n \in Nat : n \in T => n + 1 \in T
    <3> HIDE DEF Good, N
    <3> QED BY <1>1, <1>7
  <2> HIDE DEF T
  <2> QED BY <1>6, <2>1, Induction
<1>9. Good(N)
  <2> HIDE DEF Good, N
  <2>1. N \in Nat /\ N <= N
    BY <1>1
  <2> QED BY <1>8, <2>1
<1>10. \A F \in ToSet(fs) : \E i \in 1 .. N : F = fs[i]
  BY <1>1 DEF ToSet
<1>11. \A i \in 1 .. N : fs[i] \in ToSet(fs)
  BY <1>1 DEF ToSet
<1> HIDE DEF N
<1> QED BY <1>3, <1>9, <1>10, <1>11

(* A component is a leaf, or has a part on the left, or one on each side.  *)
Comp == M.components
Inner(c) == c # Null /\ c.type \notin Named \cup Valued
Forked(c) == Inner(c) /\ c.type \notin Unary

LEMMA Trees ==
    ASSUME M \in Modules
    PROVE  /\ M.height \in [Comp -> Nat]
           /\ \A c \in Comp : Inner(c) => c.left \in Comp /\ M.height[c.left] < M.height[c]
           /\ \A c \in Comp : Forked(c) => c.right \in Comp /\ M.height[c.right] < M.height[c]
           /\ \A c, d \in Comp : c # Null /\ d # Null /\ SameParts(c, d) => c = d
<1>1. TreesOK(Comp, M.height)
  BY ClassTablesAssumption DEF ModuleOK, Comp
<1> QED BY <1>1, Zenon DEF TreesOK, Inner, Forked

(* The recursion of isSameDemangleComponents ends at the leaves of the     *)
(* trees.                                                                  *)
LEMMA SameSolves ==
    ASSUME M \in Modules
    PROVE  \A c, d \in Comp :
              isSameDemangleComponents[c][d] <=>
                 IF c = Null \/ d = Null THEN c = d
                 ELSE /\ c.type = d.type
                      /\ c.type \in Named => c.len = d.len /\ c.value # d.value
                      /\ c.type \in Valued => c.value = d.value
                      /\ Inner(c) => isSameDemangleComponents[c.left][d.left]
                      /\ Forked(c) => isSameDemangleComponents[c.right][d.right]
<1> DEFINE V == [Comp -> BOOLEAN]
           Q == [Comp -> V]
           Same(f, c, d) ==
              IF c = Null \/ d = Null THEN c = d
              ELSE /\ c.type = d.type
                   /\ CASE c.type \in Unary -> f[c.left][d.left]
                        [] c.type \in Named -> c.len = d.len /\ c.value # d.value
                        [] c.type \in Valued -> c.value = d.value
                        [] OTHER -> /\ f[c.left][d.left]
                                    /\ f[c.right][d.right]
           Step(f) == [c \in Comp |-> [d \in Comp |-> Same(f, c, d)]]
           F == [f \in Q |-> Step(f)]
<1>1. isSameDemangleComponents = CHOOSE f : f = Step(f)
  BY Zenon DEF isSameDemangleComponents, Comp
<1>2. ASSUME NEW f, NEW c \in Comp, NEW d \in Comp
      PROVE  /\ Same(f, c, d) \in BOOLEAN
             /\ Same(f, c, d) <=>
                  IF c = Null \/ d = Null THEN c = d
                  ELSE /\ c.type = d.type
                       /\ c.type \in Named => c.len = d.len /\ c.value # d.value
                       /\ c.type \in Valued => c.value = d.value
                       /\ Inner(c) => f[c.left][d.left]
                       /\ Forked(c) => f[c.right][d.right]
  <2>1. CASE c = Null \/ d = Null
    BY <2>1
  <2>2. CASE c # Null /\ d # Null /\ c.type = d.type
    BY <2>2 DEF Inner, Forked, Unary, Named, Valued
  <2>3. CASE c # Null /\ d # Null /\ c.type # d.type
    BY <2>3
  <2> QED BY <2>1, <2>2, <2>3
<1> HIDE DEF Same
<1>3. \A f \in Q : Step(f) \in Q
  BY <1>2
<1>4. F \in [Q -> Q]
  <2> HIDE DEF Step, Q
  <2> QED BY <1>3
<1>5. ASSUME NEW u \in Q, NEW v \in Q, NEW c \in Comp,
             \A y \in Comp : M.height[y] < M.height[c] => u[y] = v[y]
      PROVE  F[u][c] = F[v][c]
  <2>1. ASSUME NEW d \in Comp PROVE Same(u, c, d) = Same(v, c, d)
    <3>1. /\ Inner(c) => u[c.left] = v[c.left]
          /\ Forked(c) => u[c.right] = v[c.right]
      BY <1>5, Trees
    <3>2. Same(u, c, d) <=> Same(v, c, d)
      BY <1>2, <3>1
    <3> QED BY <1>2, <3>2
  <2>2. F[u] = Step(u) /\ F[v] = Step(v)
    OBVIOUS
  <2> QED BY <2>1, <2>2
<1>6. PICK g \in Q : F[g] = g
  <2>1. [c \in Comp |-> [d \in Comp |-> FALSE]] \in Q
    OBVIOUS
  <2>2. PICK h \in [Comp -> Nat] : h = M.height
    BY Trees
  <2>3. Descends(Comp, V, h, F)
    <3> HIDE DEF F, V
    <3> QED BY <1>5, <2>2 DEF Descends
  <2>4. F \in [[Comp -> V] -> [Comp -> V]]
    BY <1>4, Zenon
  <2>5. \E g \in [Comp -> V] : Recurs(g, F)
    <3> HIDE DEF F, V
    <3> QED BY <2>1, <2>3, <2>4, Recursion
  <2> QED BY <2>5, Zenon DEF Recurs
<1>7. g = Step(g)
  BY <1>6
<1>8. isSameDemangleComponents = Step(isSameDemangleComponents)
  <2> HIDE DEF Step
  <2> QED BY <1>1, <1>7
<1>9. PICK s : s = isSameDemangleComponents
  OBVIOUS
<1>10. \A c, d \in Comp : s[c][d] = Same(s, c, d)
  <2>1. s = Step(s)
    BY <1>8, <1>9, Zenon
  <2> QED BY <2>1
<1> QED BY <1>2, <1>9, <1>10

(* The same of Builtin. *)
LEMMA BuiltinSolves ==
    ASSUME M \in Modules
    PROVE  \A c \in Comp :
              Builtin[c] => \/ c = Null
                            \/ c # Null /\ c.type = "BUILTIN_TYPE"
                            \/ Inner(c) /\ c.type \in Unary /\ Builtin[c.left]
                            \/ Forked(c) /\ Builtin[c.left] /\ Builtin[c.right]
<1> DEFINE Q == [Comp -> BOOLEAN]
           Body(f, c) ==
               \/ c = Null
               \/ c.type = "BUILTIN_TYPE"
               \/ c.type \in Unary /\ f[c.left]
               \/ /\ c.type \in {"FUNCTION_TYPE", "ARGLIST"}
                  /\ f[c.left] /\ f[c.right]
           Step(f) == [c \in Comp |-> Body(f, c)]
           F == [f \in Q |-> Step(f)]
<1>1. Builtin = CHOOSE f : f = Step(f)
  BY Zenon DEF Builtin, Comp
<1>2. ASSUME NEW f, NEW c \in Comp
      PROVE  /\ Body(f, c) \in BOOLEAN
             /\ Body(f, c) => \/ c = Null
                              \/ c # Null /\ c.type = "BUILTIN_TYPE"
                              \/ Inner(c) /\ c.type \in Unary /\ f[c.left]
                              \/ Forked(c) /\ f[c.left] /\ f[c.right]
  BY DEF Inner, Forked, Unary, Named, Valued
<1>3. ASSUME NEW u \in Q, NEW v \in Q, NEW c \in Comp,
             \A y \in Comp : M.height[y] < M.height[c] => u[y] = v[y]
      PROVE  Body(u, c) = Body(v, c)
  <2>1. /\ Inner(c) => u[c.left] = v[c.left]
        /\ Forked(c) => u[c.right] = v[c.right]
    BY <1>3, Trees
  <2>2. Body(u, c) <=> Body(v, c)
    BY <2>1 DEF Inner, Forked, Unary, Named, Valued
  <2> QED BY <1>2, <2>2
<1> HIDE DEF Body
<1>4. \A f \in Q : Step(f) \in Q
  BY <1>2
<1>5. F \in [Q -> Q]
  <2> HIDE DEF Step, Q
  <2> QED BY <1>4
<1>6. PICK g \in Q : F[g] = g
  <2>1. [c \in Comp |-> FALSE] \in Q
    OBVIOUS
  <2>2. PICK h \in [Comp -> Nat] : h = M.height
    BY Trees
  <2>3. Descends(Comp, BOOLEAN, h, F)
    BY <1>3, <2>2 DEF Descends
  <2>4. F \in [[Comp -> BOOLEAN] -> [Comp -> BOOLEAN]]
    BY <1>5, Zenon
  <2>5. \E g \in [Comp -> BOOLEAN] : Recurs(g, F)
    <3> HIDE DEF F
    <3> QED BY <2>1, <2>3, <2>4, Recursion
  <2> QED BY <2>5, Zenon DEF Recurs
<1>7. g = Step(g)
  BY <1>6
<1>8. Builtin = Step(Builtin)
  <2> HIDE DEF Step
  <2> QED BY <1>1, <1>7
<1>9. PICK b : b = Builtin
  OBVIOUS
<1>10. \A c \in Comp : b[c] = Body(b, c)
  <2>1. b = Step(b)
    BY <1>8, <1>9, Zenon
  <2> QED BY <2>1
<1> QED BY <1>2, <1>9, <1>10

(* Signatures of builtin types are found to be the same when they are.     *)
LEMMA SameBuiltin ==
    ASSUME M \in Modules, NEW c \in Comp, NEW d \in Comp, Builtin[c]
    PROVE  isSameDemangleComponents[c][d] <=> c = d
<1> DEFINE Right(x) == \A y \in Comp : Builtin[x] =>
                           (isSameDemangleComponents[x][y] <=> x = y)
           T == {n \in Nat : \A x \in Comp : M.height[x] < n => Right(x)}
<1>1. \A x \in Comp : M.height[x] \in Nat
  BY Trees
<1>2. 0 \in T
  BY <1>1
<1>3. ASSUME NEW n \in Nat, n \in T PROVE n + 1 \in T
  <2> SUFFICES ASSUME NEW x \in Comp, M.height[x] < n + 1, NEW y \in Comp, Builtin[x]
               PROVE  isSameDemangleComponents[x][y] <=> x = y
    OBVIOUS
  <2>1. \A z \in Comp : M.height[z] < M.height[x] => Right(z)
    <3> HIDE DEF Right
    <3>1. \A z \in Comp : M.height[z] < M.height[x] => M.height[z] < n
      BY <1>1
    <3> QED BY <1>3, <3>1
  <2>2. CASE x = Null \/ y = Null
    BY <2>2, SameSolves
  <2>3. CASE x # Null /\ y # Null /\ x.type # y.type
    BY <2>3, SameSolves
  <2>4. CASE x # Null /\ y # Null /\ x.type = y.type
    <3>1. \/ x.type = "BUILTIN_TYPE"
          \/ Inner(x) /\ x.type \in Unary /\ Builtin[x.left]
          \/ Forked(x) /\ Builtin[x.left] /\ Builtin[x.right]
      BY <2>4, BuiltinSolves
    <3>2. isSameDemangleComponents[x][y] <=>
             /\ x.type \in Named => x.len = y.len /\ x.value # y.value
             /\ x.type \in Valued => x.value = y.value
             /\ Inner(x) => isSameDemangleComponents[x.left][y.left]
             /\ Forked(x) => isSameDemangleComponents[x.right][y.right]
      BY <2>4, SameSolves
    <3>3. x.type \notin Named
      BY <3>1 DEF Inner, Forked, Named
    <3>4. Inner(x) => (isSameDemangleComponents[x.left][y.left] <=> x.left = y.left)
      <4> HAVE Inner(x)
      <4>1. x.left \in Comp /\ M.height[x.left] < M.height[x] /\ y.left \in Comp
        BY <2>4, Trees DEF Inner
      <4>2. Builtin[x.left]
        BY <3>1 DEF Inner, Valued
      <4> QED BY <2>1, <4>1, <4>2
    <3>5. Forked(x) => (isSameDemangleComponents[x.right][y.right] <=> x.right = y.right)
      <4> HAVE Forked(x)
      <4>1. x.right \in Comp /\ M.height[x.right] < M.height[x] /\ y.right \in Comp
        BY <2>4, Trees DEF Inner, Forked
      <4>2. Builtin[x.right]
        BY <3>1 DEF Inner, Forked, Valued
      <4> QED BY <2>1, <4>1, <4>2
    <3>6. isSameDemangleComponents[x][y] <=> SameParts(x, y)
      BY <2>4, <3>2, <3>3, <3>4, <3>5 DEF SameParts, Inner, Forked
    <3>7. SameParts(x, y) <=> x = y
      BY <2>4, Trees DEF SameParts
    <3> QED BY <3>6, <3>7
  <2> QED BY <2>2, <2>3, <2>4
<1>4. Nat \subseteq T
  <2> HIDE DEF T
  <2> QED BY <1>2, <1>3, Induction
<1>5. M.height[c] + 1 \in T
  BY <1>1, <1>4
<1> QED BY <1>1, <1>5

(* For plain signatures, to be found the same is to override each other.   *)
ConstFunction == {F \in Function : IsConst(M.fn[F])}

LEMMA PlainCompare ==
    ASSUME M \in Modules, NEW F \in ConstFunction, NEW G \in ConstFunction, Plain(F)
    PROVE  /\ isSameFunctionNameAndParams(F, G) => Overrides(G, F)
           /\ Overrides(G, F) => /\ isSameFunctionNameAndParams(F, G)
                                 /\ isSameFunctionNameAndParams(G, F)
<1> DEFINE f == M.fn[F]
           g == M.fn[G]
<1>1. /\ F \in Function /\ G \in Function /\ IsConst(f) /\ IsConst(g)
      /\ f.params \in Comp /\ g.params \in Comp
  BY ClassTablesAssumption, Zenon DEF ModuleOK, Function, Comp, ConstFunction
<1>2. Builtin[f.params] /\ (FunctionName(g) = FunctionName(f) => g.name = f.name)
  BY <1>1, Zenon DEF Plain
<1>3. isSameDemangleComponents[f.params][g.params] <=> f.params = g.params
  BY <1>1, <1>2, SameBuiltin
<1>4. g.params = f.params => isSameDemangleComponents[g.params][f.params]
  BY <1>1, <1>2, SameBuiltin
<1>5. g.name = f.name => FunctionName(g) = FunctionName(f)
  BY DEF FunctionName
<1>6. /\ isSameFunctionNameAndParams(F, G) <=>
            /\ IsConst(f) = IsConst(g) /\ FunctionName(f) = FunctionName(g)
            /\ isSameDemangleComponents[f.params][g.params]
      /\ isSameFunctionNameAndParams(G, F) <=>
            /\ IsConst(g) = IsConst(f) /\ FunctionName(g) = FunctionName(f)
            /\ isSameDemangleComponents[g.params][f.params]
      /\ Overrides(G, F) <=> /\ g.name = f.name /\ g.params = f.params
                             /\ IsConst(g) = IsConst(f)
  BY DEF isSameFunctionNameAndParams, Overrides
<1>7. IsConst(f) = IsConst(g)
  BY <1>1 DEF IsConst
<1> HIDE DEF f, g
<1> QED BY <1>2, <1>3, <1>4, <1>5, <1>6, <1>7

(* No method of a set is there twice: none with a plain signature is       *)
(* overridden by another one, and adding the methods of a class leaves it  *)
(* so.                                                                     *)
Apart(methods) == \A F, G \in methods : Plain(F) /\ Overrides(G, F) => G = F

LEMMA AddApart ==
    ASSUME M \in Modules, NEW methods \in SUBSET ConstFunction, NEW F \in ConstFunction,
           Apart(methods)
    PROVE  Apart(AddVisible(methods, F))
<1>1. CASE \E G \in methods : isSameFunctionNameAndParams(F, G)
  BY <1>1 DEF AddVisible
<1>2. CASE \A G \in methods : ~isSameFunctionNameAndParams(F, G)
  <2>1. AddVisible(methods, F) = methods \cup {F}
    BY <1>2, Zenon DEF AddVisible
  <2>2. ASSUME NEW X \in methods, Plain(F), Overrides(X, F) PROVE FALSE
    BY <1>2, <2>2, PlainCompare
  <2>3. ASSUME NEW X \in methods, Plain(X), Overrides(F, X) PROVE FALSE
    BY <1>2, <2>3, PlainCompare
  <2>4. ASSUME NEW X \in methods \cup {F}, NEW Y \in methods \cup {F}, Plain(X), Overrides(Y, X)
        PROVE  Y = X
    BY <2>2, <2>3, <2>4 DEF Apart
  <2> QED BY <2>1, <2>4, Zenon DEF Apart
<1> QED BY <1>1, <1>2

LEMMA VisibleApart ==
    ASSUME M \in Modules, NEW methods \in SUBSET ConstFunction, NEW fs \in Seq(ConstFunction),
           Apart(methods)
    PROVE  /\ Apart(Visible(methods, fs))
           /\ Visible(methods, fs) \subseteq methods \cup ToSet(fs)
<1> DEFINE N == Len(fs)
<1>1. N \in Nat /\ \A i \in 1 .. N : fs[i] \in ConstFunction /\ fs[i] \in ToSet(fs)
  BY DEF ToSet
<1>2. PICK after : Adds(after, methods, fs)
  BY VisibleSteps
<1> DEFINE Good(q) == /\ q \subseteq ConstFunction
                      /\ Apart(q)
                      /\ q \subseteq methods \cup ToSet(fs)
           T == {n \in Nat : n <= N => Good(after[n])}
<1>3. 0 \in T
  BY <1>2 DEF Adds
<1>4. ASSUME NEW n \in Nat, n \in T PROVE n + 1 \in T
  <2> SUFFICES ASSUME n + 1 <= N PROVE Good(after[n + 1])
    OBVIOUS
  <2>1. Good(after[n])
    BY <1>1, <1>4
  <2>2. PICK F \in ConstFunction : F = fs[n + 1] /\ F \in ToSet(fs)
    BY <1>1
  <2>3. after[n + 1] = AddVisible(after[n], F)
    BY <1>2, <2>2 DEF Adds
  <2>4. AddVisible(after[n], F) \subseteq after[n] \cup {F}
    BY AddProps
  <2>5. Apart(AddVisible(after[n], F))
    BY <2>1, AddApart
  <2> QED BY <2>1, <2>2, <2>3, <2>4, <2>5
<1>5. Nat \subseteq T
  <2> HIDE DEF T
  <2> QED BY <1>3, <1>4, Induction
<1>6. Good(after[N])
  BY <1>1, <1>5
<1> QED BY <1>2, <1>6 DEF Adds

(* The recursion that defines Within has a solution: each level adds the   *)
(* bases of the one before.                                                *)
LEMMA Levels ==
    ASSUME DirectSupertypes \in [DebugType -> Seq(DebugType)]
    PROVE  /\ Within \in [Nat -> [DebugType -> SUBSET DebugType]]
           /\ \A D \in DebugType : Within[0][D] = {D}
           /\ \A n \in Nat : \A D \in DebugType :
                 Within[n + 1][D] = Within[n][D] \cup
                     UNION {ToSet(DirectSupertypes[E]) : E \in Within[n][D]}
<1> DEFINE Q == [DebugType -> SUBSET DebugType]
           Rise(w) == [D \in DebugType |-> w[D] \cup
                          UNION {ToSet(DirectSupertypes[E]) : E \in w[D]}]
           F == [w \in Q |-> Rise(w)]
           base == [D \in DebugType |-> {D}]
<1>1. base \in Q
  OBVIOUS
<1>2. \A w \in Q : Rise(w) \in Q
  <2> SUFFICES ASSUME NEW w \in Q, NEW D \in DebugType
               PROVE  w[D] \cup UNION {ToSet(DirectSupertypes[E]) : E \in w[D]}
                          \subseteq DebugType
    OBVIOUS
  <2>1. w[D] \subseteq DebugType
    OBVIOUS
  <2>2. \A E \in w[D] : ToSet(DirectSupertypes[E]) \subseteq DebugType
    BY <2>1, MembersType
  <2> QED BY <2>1, <2>2
<1>3. F \in [Q -> Q]
  <2> HIDE DEF Q, Rise
  <2> QED BY <1>2
<1> HIDE DEF Q, F, base, Rise
<1>4. PICK g \in [Nat -> Q] : g = [n \in Nat |-> IF n = 0 THEN base ELSE F[g[n - 1]]]
  BY <1>1, <1>3, Iterates DEF Orbit
<1>5. \A n \in Nat : n # 0 => F[g[n - 1]] = Rise(g[n - 1])
  <2>1. \A n \in Nat : n # 0 => n - 1 \in Nat
    OBVIOUS
  <2>2. \A n \in Nat : n # 0 => g[n - 1] \in Q
    BY <1>4, <2>1
  <2> QED BY <2>2 DEF F
<1>6. g = [n \in Nat |-> IF n = 0 THEN base ELSE Rise(g[n - 1])]
  BY <1>4, <1>5, Zenon
<1>7. Within = [n \in Nat |-> IF n = 0 THEN base ELSE Rise(Within[n - 1])]
  BY <1>6, Zenon DEF Within, base, Rise
<1>8. /\ Within[0] = base
      /\ \A n \in Nat : Within[n + 1] = Rise(Within[n])
  <2>1. ASSUME NEW n \in Nat PROVE Within[n + 1] = Rise(Within[n])
    <3>1. n + 1 \in Nat /\ n + 1 # 0 /\ (n + 1) - 1 = n
      OBVIOUS
    <3>2. Within[n + 1] = Rise(Within[(n + 1) - 1])
      BY <1>7, <3>1
    <3> QED BY <3>1, <3>2
  <2> QED BY <1>7, <2>1
<1>9. \A n \in Nat : Within[n] \in Q
  <2> DEFINE T == {n \in Nat : Within[n] \in Q}
  <2>1. 0 \in T
    BY <1>1, <1>8
  <2>2. \A n \in Nat : n \in T => n + 1 \in T
    BY <1>2, <1>8
  <2>3. Nat \subseteq T
    <3> HIDE DEF T
    <3> QED BY <2>1, <2>2, Induction
  <2> QED BY <2>3
<1>10. Within \in [Nat -> Q]
  BY <1>7, <1>9
<1>11. Q = [DebugType -> SUBSET DebugType]
  BY DEF Q
<1>12. \A D \in DebugType : Within[0][D] = {D}
  BY <1>8 DEF base
<1>13. \A n \in Nat : \A D \in DebugType :
           Within[n + 1][D] = Within[n][D] \cup
               UNION {ToSet(DirectSupertypes[E]) : E \in Within[n][D]}
  BY <1>8, Zenon DEF Rise
<1> QED BY <1>10, <1>11, <1>12, <1>13

LEMMA LevelsGrow ==
    ASSUME DirectSupertypes \in [DebugType -> Seq(DebugType)],
           NEW D \in DebugType, NEW m \in Nat, NEW n \in Nat, m <= n
    PROVE  Within[m][D] \subseteq Within[n][D]
<1> DEFINE T == {k \in Nat : m <= k => Within[m][D] \subseteq Within[k][D]}
<1>1. 0 \in T
  OBVIOUS
<1>2. ASSUME NEW k \in Nat, k \in T PROVE k + 1 \in T
  <2>1. Within[k][D] \subseteq Within[k + 1][D]
    BY Levels
  <2>2. m <= k + 1 => m <= k \/ m = k + 1
    OBVIOUS
  <2> QED BY <1>2, <2>1, <2>2
<1>3. Nat \subseteq T
  <2> HIDE DEF T
  <2> QED BY <1>1, <1>2, Induction
<1> QED BY <1>3

(* What the assumption says of the module at hand.                         *)
LEMMA ModuleFacts ==
    ASSUME M \in Modules
    PROVE  /\ M.functions \in Seq(Function)
           /\ NoType \notin Type
           /\ \A D \in DebugType : Bases(M.elements[D]) \in Seq(DebugType)
           /\ \A F \in Function :
                 /\ M.fn[F].type \in Type \cup {NoType}
                 /\ M.fn[F].debug \in DebugType
                 /\ M.fn[F].slot \in Slot \cup {NoSlot}
<1>1. ModuleOK(M)
  BY ClassTablesAssumption
<1>2. ASSUME NEW D \in DebugType PROVE Bases(M.elements[D]) \in Seq(DebugType)
  <2>1. M.elements[D] \in Seq(Range(M.elements[D]))
    BY <1>1 DEF ModuleOK, DebugType
  <2>2. \A i \in DOMAIN M.elements[D] :
           IsBase(M.elements[D][i]) => M.elements[D][i].base \in DebugType
    BY <1>1, Zenon DEF ModuleOK, DebugType, IsBase
  <2> QED BY <2>1, <2>2, BasesType
<1>3. M.functions \in Seq(Function) /\ NoType \notin Type
  BY <1>1 DEF ModuleOK, Function, Type
<1>4. ASSUME NEW F \in Function
      PROVE  /\ M.fn[F].type \in Type \cup {NoType}
             /\ M.fn[F].debug \in DebugType
             /\ M.fn[F].slot \in Slot \cup {NoSlot}
  BY <1>1, <1>4, Zenon DEF ModuleOK, Function, Type, DebugType
<1> QED BY <1>2, <1>3, <1>4

(* The function at hand, when populateDirect does not skip it.             *)
LEMMA AtHand ==
    ASSUME M \in Modules, TypeOK, Populating
    PROVE  /\ F0 \in Function
           /\ next + 1 \in 1 .. Len(M.functions) + 1
           /\ ~Skipped(M.fn[F0]) => /\ M.fn[F0].type \in Type
                                    /\ M.fn[F0].type # NoType
                                    /\ IsMethod(M.fn[F0])
                                    /\ M.fn[F0].debug \in DebugType
<1>1. M.functions \in Seq(Function)
  BY ModuleFacts
<1>2. next \in 1 .. Len(M.functions)
  BY <1>1 DEF TypeOK, Populating
<1>3. F0 \in Function
  BY <1>1, <1>2 DEF F0
<1>4. next + 1 \in 1 .. Len(M.functions) + 1
  BY <1>1, <1>2
<1>5. ~Skipped(M.fn[F0]) => M.fn[F0].type # NoType /\ IsMethod(M.fn[F0])
  BY DEF Skipped
<1> QED BY <1>3, <1>4, <1>5, ModuleFacts

(* Nothing is left to show of the walks while there is none.               *)
LEMMA NoWalk ==
    ASSUME current = NoType, done = {}
    PROVE  /\ MetInv /\ LevelInv /\ SupersInv /\ MethodsInv /\ SlotsInv
           /\ SupertypesExact /\ DispatchesToNearest
BY DEF MetInv, LevelInv, SupersInv, MethodsInv, SlotsInv, Walking,
       SupertypesExact, DispatchesToNearest

LEMMA InitInv == Init => IndInv
<1> SUFFICES ASSUME Init PROVE IndInv
  OBVIOUS
<1>1. M \in Modules
  BY DEF Init
<1>2. Len(M.functions) \in Nat
  BY <1>1, ModuleFacts
<1>3. next \in 1 .. Len(M.functions) + 1
  BY <1>2 DEF Init
<1>4. NoMethods \in [Slot -> Function \cup {NoFunction}]
  BY DEF NoMethods
<1>5. TypeOK
  BY <1>3, <1>4 DEF Init, TypeOK
<1>6. PairInv
  BY DEF Init, PairInv
<1>7. PhaseInv
  BY DEF Init, PhaseInv
<1>8. current = NoType /\ done = {}
  BY DEF Init
<1> QED BY <1>1, <1>5, <1>6, <1>7, <1>8, NoWalk DEF IndInv

-----------------------------------------------------------------------------
(* populateDirect. *)

(* A type met for the first time gets a debug type, and stands for it from *)
(* then on, whichever type has stood for it before.                        *)
LEMMA RecordPair ==
    ASSUME M \in Modules, TypeOK, PairInv, M' = M,
           NEW T \in Type, NEW D \in DebugType,
           T \notin Types, T \notin IgnoredTypes, Record(T, D),
           Types' \cup IgnoredTypes' = (Types \cup IgnoredTypes) \cup {T},
           IgnoredTypes \subseteq IgnoredTypes',
           IgnoredTypes' \subseteq IgnoredTypes \cup {T},
           isIgnoredType(M.spelled[T]) <=> T \in IgnoredTypes'
    PROVE  PairInv'
<1>1. T # NoType
  BY ModuleFacts
<1>2. /\ TypeToDebugType \in [Type -> DebugType \cup {NoDebug}]
      /\ DebugTypeToType \in [DebugType -> Type \cup {NoType}]
      /\ Types \subseteq Type /\ IgnoredTypes \subseteq Type
  BY DEF TypeOK
<1>3. /\ TypeToDebugType' = [TypeToDebugType EXCEPT ![T] = D]
      /\ DebugTypeToType' = [DebugTypeToType EXCEPT ![D] = T]
  BY DEF Record
<1>4. /\ TypeToDebugType'[T] = D /\ DebugTypeToType'[D] = T
      /\ \A U \in Type : U # T => TypeToDebugType'[U] = TypeToDebugType[U]
      /\ \A E \in DebugType : E # D => DebugTypeToType'[E] = DebugTypeToType[E]
  BY <1>2, <1>3
<1>5. ASSUME NEW U \in Types' \cup IgnoredTypes'
      PROVE  /\ TypeToDebugType'[U] \in DebugType
             /\ DebugTypeToType'[TypeToDebugType'[U]] # NoType
             /\ isIgnoredType(M.spelled[U]) <=> U \in IgnoredTypes'
  <2>1. CASE U = T
    BY <1>1, <1>4, <2>1
  <2>2. CASE U # T
    <3>1. U \in Types \cup IgnoredTypes /\ U \in Type
      BY <1>2, <2>2
    <3>2. /\ TypeToDebugType[U] \in DebugType
          /\ DebugTypeToType[TypeToDebugType[U]] # NoType
          /\ isIgnoredType(M.spelled[U]) <=> U \in IgnoredTypes
      BY <3>1 DEF PairInv
    <3>3. U \in IgnoredTypes <=> U \in IgnoredTypes'
      BY <2>2
    <3>4. DebugTypeToType'[TypeToDebugType[U]] # NoType
      BY <1>1, <1>4, <3>2
    <3> QED BY <1>4, <2>2, <3>1, <3>2, <3>3, <3>4
  <2> QED BY <2>1, <2>2
<1>6. ASSUME NEW E \in DebugType, DebugTypeToType'[E] # NoType
      PROVE  /\ DebugTypeToType'[E] \in Types' \cup IgnoredTypes'
             /\ TypeToDebugType'[DebugTypeToType'[E]] = E
  <2>1. CASE E = D
    BY <1>4, <2>1
  <2>2. CASE E # D
    <3>1. DebugTypeToType'[E] = DebugTypeToType[E]
      BY <1>4, <2>2
    <3>2. /\ DebugTypeToType[E] \in Types \cup IgnoredTypes
          /\ TypeToDebugType[DebugTypeToType[E]] = E
      BY <1>6, <3>1 DEF PairInv
    <3>3. DebugTypeToType[E] # T /\ DebugTypeToType[E] \in Type
      BY <1>2, <3>2
    <3> QED BY <1>4, <3>1, <3>2, <3>3
  <2> QED BY <2>1, <2>2
<1>7. DebugType' = DebugType
  BY DEF DebugType
<1>8. \A U : isIgnoredType(M'.spelled[U]) <=> isIgnoredType(M.spelled[U])
  OBVIOUS
<1>9. \A U \in Types' \cup IgnoredTypes' :
          /\ TypeToDebugType'[U] \in DebugType'
          /\ DebugTypeToType'[TypeToDebugType'[U]] # NoType
          /\ isIgnoredType(M'.spelled[U]) <=> U \in IgnoredTypes'
  BY <1>5, <1>7, <1>8
<1>10. \A E \in DebugType' : DebugTypeToType'[E] # NoType =>
          /\ DebugTypeToType'[E] \in Types' \cup IgnoredTypes'
          /\ TypeToDebugType'[DebugTypeToType'[E]] = E
  BY <1>6, <1>7
<1> QED BY <1>9, <1>10 DEF PairInv

(* What a step of populateDirect that records the type, or knows it, does  *)
(* to the tables that Record writes.                                       *)
LEMMA RecordType ==
    ASSUME M \in Modules, TypeOK, NEW T \in Type, NEW D \in DebugType,
           Record(T, D) \/ Known
    PROVE  /\ TypeToDebugType' \in [Type -> DebugType \cup {NoDebug}]
           /\ DebugTypeToType' \in [DebugType -> Type \cup {NoType}]
           /\ DirectSupertypes' \in [DebugType -> Seq(DebugType)]
<1>1. Bases(M.elements[D]) \in Seq(DebugType)
  BY ModuleFacts
<1>2. /\ TypeToDebugType \in [Type -> DebugType \cup {NoDebug}]
      /\ DebugTypeToType \in [DebugType -> Type \cup {NoType}]
      /\ DirectSupertypes \in [DebugType -> Seq(DebugType)]
  BY DEF TypeOK
<1>3. CASE Known
  BY <1>2, <1>3 DEF Known
<1>4. CASE Record(T, D)
  <2>1. TypeToDebugType' \in [Type -> DebugType \cup {NoDebug}]
    BY <1>2, <1>4 DEF Record
  <2>2. DebugTypeToType' \in [DebugType -> Type \cup {NoType}]
    BY <1>2, <1>4 DEF Record
  <2>3. DirectSupertypes' \in [DebugType -> Seq(DebugType)]
    BY <1>1, <1>2, <1>4 DEF Record
  <2> QED BY <2>1, <2>2, <2>3
<1> QED BY <1>3, <1>4

(* While populateDirect runs there is no walk, and none begins before the  *)
(* last function has been looked at.                                       *)
LEMMA StillPopulating ==
    ASSUME M \in Modules, PhaseInv, Populating, M' = M,
           UNCHANGED <<current, Queue, Visited, done, tables>>
    PROVE  /\ PhaseInv' /\ MetInv' /\ LevelInv' /\ SupersInv' /\ MethodsInv' /\ SlotsInv'
           /\ SupertypesExact' /\ DispatchesToNearest'
<1>1. current = NoType /\ done = {} /\ current' = NoType /\ done' = {}
  BY DEF PhaseInv
<1>2. PhaseInv'
  <2>1. \A T \in Type : Supertypes[T] = {} /\ VTables[T] = NoMethods
    BY <1>1, ModuleFacts DEF PhaseInv
  <2>2. Type' = Type /\ NoMethods' = NoMethods /\ Supertypes' = Supertypes /\ VTables' = VTables
    BY DEF Type, NoMethods, Slot, tables
  <2> QED BY <1>1, <2>1, <2>2 DEF PhaseInv
<1>3. MetInv' /\ LevelInv' /\ SupersInv' /\ MethodsInv' /\ SlotsInv'
  BY <1>1 DEF MetInv, LevelInv, SupersInv, MethodsInv, SlotsInv, Walking
<1>4. SupertypesExact' /\ DispatchesToNearest'
  BY <1>1 DEF SupertypesExact, DispatchesToNearest
<1> QED BY <1>2, <1>3, <1>4

LEMMA SkipInv == IndInv /\ SkipFunction => IndInv'
<1> SUFFICES ASSUME IndInv, SkipFunction PROVE IndInv'
  OBVIOUS
<1>1. M \in Modules /\ TypeOK /\ PairInv /\ PhaseInv /\ Populating /\ M' = M
  BY DEF IndInv, SkipFunction
<1>2. /\ next' = next + 1 /\ UNCHANGED direct
      /\ UNCHANGED <<current, Queue, Visited, done, tables>>
  BY DEF SkipFunction
<1>3. next' \in 1 .. Len(M.functions) + 1
  BY <1>1, <1>2, AtHand
<1>4. Type' = Type /\ DebugType' = DebugType /\ Function' = Function
  BY <1>1 DEF Type, DebugType, Function
<1>5. TypeOK'
  BY <1>1, <1>2, <1>3, <1>4 DEF TypeOK, direct, tables, Slot
<1>6. PairInv'
  BY <1>1, <1>2, <1>4 DEF PairInv, direct, isIgnoredType
<1>7. /\ PhaseInv' /\ MetInv' /\ LevelInv' /\ SupersInv' /\ MethodsInv' /\ SlotsInv'
      /\ SupertypesExact' /\ DispatchesToNearest'
  BY <1>1, <1>2, StillPopulating
<1> QED BY <1>1, <1>5, <1>6, <1>7 DEF IndInv

LEMMA IgnoreInv == IndInv /\ IgnoredTypeFunction => IndInv'
<1> SUFFICES ASSUME IndInv, IgnoredTypeFunction PROVE IndInv'
  OBVIOUS
<1> DEFINE f == M.fn[F0]
           T == f.type
<1>1. M \in Modules /\ TypeOK /\ PairInv /\ PhaseInv /\ Populating /\ M' = M
  BY DEF IndInv, IgnoredTypeFunction
<1>2. /\ ~Skipped(f) /\ isIgnoredType(M.spelled[T])
      /\ IgnoredTypes' = IgnoredTypes \cup {T}
      /\ IF T \in IgnoredTypes THEN Known ELSE Record(T, f.debug)
      /\ next' = next + 1
      /\ UNCHANGED <<Types, AllMethods, DirectPublicConstMethods, DirectVirtualMethods>>
      /\ UNCHANGED <<current, Queue, Visited, done, tables>>
  BY DEF IgnoredTypeFunction
<1>3. /\ F0 \in Function /\ next' \in 1 .. Len(M.functions) + 1
      /\ T \in Type /\ f.debug \in DebugType /\ IsMethod(f)
  BY <1>1, <1>2, AtHand
<1>4. Type' = Type /\ DebugType' = DebugType /\ Function' = Function
  BY <1>1 DEF Type, DebugType, Function
<1>5. T \notin Types
  BY <1>1, <1>2, <1>3 DEF PairInv, TypeOK
<1> HIDE DEF T, f
<1>6. TypeOK'
  <2>1. /\ TypeToDebugType' \in [Type -> DebugType \cup {NoDebug}]
        /\ DebugTypeToType' \in [DebugType -> Type \cup {NoType}]
        /\ DirectSupertypes' \in [DebugType -> Seq(DebugType)]
    BY <1>1, <1>2, <1>3, RecordType
  <2>2. Types' \subseteq Type \ IgnoredTypes' /\ IgnoredTypes' \subseteq Type
    BY <1>1, <1>2, <1>3, <1>5 DEF TypeOK
  <2>3. Supertypes' \in [Type -> SUBSET (Types' \cup IgnoredTypes')]
    <3>1. Supertypes \in [Type -> SUBSET (Types \cup IgnoredTypes)]
      BY <1>1 DEF TypeOK
    <3>2. SUBSET (Types \cup IgnoredTypes) \subseteq SUBSET (Types' \cup IgnoredTypes')
      BY <1>2
    <3>3. Supertypes' = Supertypes
      BY <1>2 DEF tables
    <3> QED BY <3>1, <3>2, <3>3
  <2> QED BY <1>1, <1>2, <1>3, <1>4, <2>1, <2>2, <2>3 DEF TypeOK, tables, Slot
<1>7. PairInv'
  <2>1. CASE T \in IgnoredTypes
    <3>1. IgnoredTypes' = IgnoredTypes /\ Known
      BY <1>2, <2>1
    <3> QED BY <1>1, <1>2, <1>4, <3>1 DEF PairInv, Known, isIgnoredType
  <2>2. CASE T \notin IgnoredTypes
    <3>1. Record(T, f.debug)
      BY <1>2, <2>2
    <3>2. isIgnoredType(M.spelled[T]) <=> T \in IgnoredTypes'
      BY <1>2
    <3>3. /\ Types' \cup IgnoredTypes' = (Types \cup IgnoredTypes) \cup {T}
          /\ IgnoredTypes \subseteq IgnoredTypes'
          /\ IgnoredTypes' \subseteq IgnoredTypes \cup {T}
      BY <1>2
    <3> QED BY <1>1, <1>3, <1>5, <2>2, <3>1, <3>2, <3>3, RecordPair
  <2> QED BY <2>1, <2>2
<1>8. /\ PhaseInv' /\ MetInv' /\ LevelInv' /\ SupersInv' /\ MethodsInv' /\ SlotsInv'
      /\ SupertypesExact' /\ DispatchesToNearest'
  BY <1>1, <1>2, StillPopulating
<1> QED BY <1>1, <1>6, <1>7, <1>8 DEF IndInv

LEMMA AddInv == IndInv /\ AddMethod => IndInv'
<1> SUFFICES ASSUME IndInv, AddMethod PROVE IndInv'
  OBVIOUS
<1> DEFINE f == M.fn[F0]
           T == f.type
<1>1. M \in Modules /\ TypeOK /\ PairInv /\ PhaseInv /\ Populating /\ M' = M
  BY DEF IndInv, AddMethod
<1>2. /\ ~Skipped(f) /\ ~isIgnoredType(M.spelled[T])
      /\ Types' = Types \cup {T}
      /\ IF T \in Types THEN Known ELSE Record(T, f.debug)
      /\ AllMethods' = Append(AllMethods, F0)
      /\ next' = next + 1
      /\ UNCHANGED IgnoredTypes
      /\ UNCHANGED <<current, Queue, Visited, done, tables>>
  BY DEF AddMethod
<1>3. /\ DirectPublicConstMethods' =
            IF IsConst(f) /\ isDeclarationPublic(f)
            THEN [DirectPublicConstMethods EXCEPT ![T] = Append(@, F0)]
            ELSE DirectPublicConstMethods
      /\ DirectVirtualMethods' =
            IF f.slot = NoSlot THEN DirectVirtualMethods
            ELSE [DirectVirtualMethods EXCEPT ![T][f.slot] = F0]
  BY DEF AddMethod
<1>4. /\ F0 \in Function /\ next' \in 1 .. Len(M.functions) + 1
      /\ T \in Type /\ f.debug \in DebugType /\ IsMethod(f)
      /\ f.slot \in Slot \cup {NoSlot}
  BY <1>1, <1>2, AtHand, ModuleFacts
<1>5. Type' = Type /\ DebugType' = DebugType /\ Function' = Function
  BY <1>1 DEF Type, DebugType, Function
<1>6. T \notin IgnoredTypes
  BY <1>1, <1>2, <1>4 DEF PairInv
<1> HIDE DEF T, f
<1>7. TypeOK'
  <2>1. /\ TypeToDebugType' \in [Type -> DebugType \cup {NoDebug}]
        /\ DebugTypeToType' \in [DebugType -> Type \cup {NoType}]
        /\ DirectSupertypes' \in [DebugType -> Seq(DebugType)]
    BY <1>1, <1>2, <1>4, RecordType
  <2>2. Types' \subseteq Type \ IgnoredTypes' /\ IgnoredTypes' \subseteq Type
    BY <1>1, <1>2, <1>4, <1>6 DEF TypeOK
  <2>3. Supertypes' \in [Type -> SUBSET (Types' \cup IgnoredTypes')]
    <3>1. Supertypes \in [Type -> SUBSET (Types \cup IgnoredTypes)]
      BY <1>1 DEF TypeOK
    <3>2. SUBSET (Types \cup IgnoredTypes) \subseteq SUBSET (Types' \cup IgnoredTypes')
      BY <1>2
    <3>3. Supertypes' = Supertypes
      BY <1>2 DEF tables
    <3> QED BY <3>1, <3>2, <3>3
  <2>4. DirectPublicConstMethods' \in [Type -> Seq(Function)]
    <3>1. DirectPublicConstMethods \in [Type -> Seq(Function)]
      BY <1>1 DEF TypeOK
    <3>2. Append(DirectPublicConstMethods[T], F0) \in Seq(Function)
      BY <1>4, <3>1
    <3> QED BY <1>3, <3>1, <3>2
  <2>5. DirectVirtualMethods' \in [Type -> [Slot -> Function \cup {NoFunction}]]
    <3>1. DirectVirtualMethods \in [Type -> [Slot -> Function \cup {NoFunction}]]
      BY <1>1 DEF TypeOK
    <3> QED BY <1>3, <1>4, <3>1
  <2>6. AllMethods' \in Seq(Function)
    <3>1. AllMethods \in Seq(Function)
      BY <1>1 DEF TypeOK
    <3> QED BY <1>2, <1>4, <3>1
  <2>7. current' \in Types' \cup {NoType} /\ done' \subseteq Types'
    BY <1>1, <1>2 DEF TypeOK
  <2>8. /\ Queue' \in Seq(DebugType) /\ Visited' \subseteq DebugType
        /\ PublicConstMethods' \in [Type -> SUBSET Function]
        /\ VTables' \in [Type -> [Slot -> Function \cup {NoFunction}]]
    BY <1>1, <1>2 DEF TypeOK, tables
  <2> QED BY <1>1, <1>4, <1>5, <2>1, <2>2, <2>3, <2>4, <2>5, <2>6, <2>7, <2>8 DEF TypeOK, Slot
<1>8. PairInv'
  <2>1. CASE T \in Types
    <3>1. Types' = Types /\ Known
      BY <1>2, <2>1
    <3> QED BY <1>1, <1>2, <1>5, <3>1 DEF PairInv, Known, isIgnoredType
  <2>2. CASE T \notin Types
    <3>1. Record(T, f.debug)
      BY <1>2, <2>2
    <3>2. isIgnoredType(M.spelled[T]) <=> T \in IgnoredTypes'
      BY <1>2, <1>6
    <3>3. /\ Types' \cup IgnoredTypes' = (Types \cup IgnoredTypes) \cup {T}
          /\ IgnoredTypes \subseteq IgnoredTypes'
          /\ IgnoredTypes' \subseteq IgnoredTypes \cup {T}
      BY <1>2
    <3> QED BY <1>1, <1>4, <1>6, <2>2, <3>1, <3>2, <3>3, RecordPair
  <2> QED BY <2>1, <2>2
<1>9. /\ PhaseInv' /\ MetInv' /\ LevelInv' /\ SupersInv' /\ MethodsInv' /\ SlotsInv'
      /\ SupertypesExact' /\ DispatchesToNearest'
  BY <1>1, <1>2, StillPopulating
<1> QED BY <1>1, <1>7, <1>8, <1>9 DEF IndInv

-----------------------------------------------------------------------------
(* populateNonDirect. *)

(* The walks write neither the module nor what populateDirect has found.   *)
LEMMA SameModule ==
    ASSUME M' = M, UNCHANGED direct
    PROVE  /\ Type' = Type /\ DebugType' = DebugType /\ Function' = Function
           /\ IgnoredTypes' = IgnoredTypes /\ Types' = Types
           /\ TypeToDebugType' = TypeToDebugType /\ DebugTypeToType' = DebugTypeToType
           /\ DirectSupertypes' = DirectSupertypes /\ AllMethods' = AllMethods
           /\ DirectPublicConstMethods' = DirectPublicConstMethods
           /\ DirectVirtualMethods' = DirectVirtualMethods
           /\ Within' = Within
           /\ \A D : Ancestors(D)' = Ancestors(D)
           /\ \A T : TypesAbove(T)' = TypesAbove(T)
           /\ PairInv => PairInv'
<1>1. /\ Type' = Type /\ DebugType' = DebugType /\ Function' = Function
      /\ IgnoredTypes' = IgnoredTypes /\ Types' = Types
      /\ TypeToDebugType' = TypeToDebugType /\ DebugTypeToType' = DebugTypeToType
      /\ DirectSupertypes' = DirectSupertypes /\ AllMethods' = AllMethods
      /\ DirectPublicConstMethods' = DirectPublicConstMethods
      /\ DirectVirtualMethods' = DirectVirtualMethods
  BY DEF direct, Type, DebugType, Function
<1>2. Within' = Within
  BY <1>1 DEF Within
<1>3. PairInv => PairInv'
  BY <1>1 DEF PairInv, isIgnoredType
<1>4. \A D : Ancestors(D)' = Ancestors(D)
  BY <1>1 DEF Ancestors, Closed
<1>5. \A T : TypesAbove(T)' = TypesAbove(T)
  BY <1>1, <1>4 DEF TypesAbove, TypesFor
<1> QED BY <1>1, <1>2, <1>3, <1>4, <1>5

(* The types whose walk is over keep what was found.                       *)
LEMMA DoneStay ==
    ASSUME SupertypesExact, DispatchesToNearest, M' = M, UNCHANGED direct,
           done' = done, \A T \in done : /\ Supertypes'[T] = Supertypes[T]
                                         /\ VTables'[T] = VTables[T]
    PROVE  SupertypesExact' /\ DispatchesToNearest'
<1>1. /\ DebugType' = DebugType /\ TypeToDebugType' = TypeToDebugType
      /\ DebugTypeToType' = DebugTypeToType /\ DirectSupertypes' = DirectSupertypes
      /\ DirectVirtualMethods' = DirectVirtualMethods /\ Within' = Within
  BY SameModule
<1>2. SupertypesExact'
  <2> SUFFICES ASSUME NEW T \in done, NEW D, D = TypeToDebugType[T]
               PROVE  Supertypes'[T] = TypesFor(Ancestors(D) \ {D})'
    BY <1>1 DEF SupertypesExact
  <2>1. Supertypes[T] = TypesFor(Ancestors(D) \ {D})
    BY DEF SupertypesExact
  <2>2. Ancestors(D)' = Ancestors(D)
    BY SameModule
  <2>3. TypesFor(Ancestors(D) \ {D})' = TypesFor(Ancestors(D) \ {D})
    BY <1>1, <2>2 DEF TypesFor
  <2> QED BY <2>1, <2>3
<1>3. DispatchesToNearest'
  <2>1. \A T : TypesAbove(T)' = TypesAbove(T)
    BY SameModule
  <2>2. \A T, S, R : AsNear(T, S, R)' <=> AsNear(T, S, R)
    BY <1>1 DEF AsNear
  <2> QED BY <1>1, <2>1, <2>2 DEF DispatchesToNearest, Slot
<1> QED BY <1>2, <1>3

LEMMA StartInv ==
    ASSUME IndInv, NEW T \in Types, StartType(T)
    PROVE  IndInv'
<1>1. /\ M \in Modules /\ TypeOK /\ PairInv /\ PhaseInv
      /\ SupertypesExact /\ DispatchesToNearest
  BY DEF IndInv
<1>2. /\ ~Populating /\ current = NoType /\ T \notin done
      /\ current' = T /\ Queue' = <<TypeToDebugType[T]>> /\ Visited' = {}
      /\ M' = M /\ next' = next /\ UNCHANGED direct /\ done' = done
      /\ UNCHANGED tables
  BY DEF StartType
<1>3. /\ Type' = Type /\ DebugType' = DebugType /\ Function' = Function
      /\ IgnoredTypes' = IgnoredTypes /\ Types' = Types
      /\ TypeToDebugType' = TypeToDebugType /\ DebugTypeToType' = DebugTypeToType
      /\ DirectSupertypes' = DirectSupertypes /\ AllMethods' = AllMethods
      /\ DirectPublicConstMethods' = DirectPublicConstMethods
      /\ DirectVirtualMethods' = DirectVirtualMethods
      /\ Within' = Within /\ PairInv'
  BY <1>1, <1>2, SameModule
<1>4. T \in Type /\ T # NoType /\ TypeToDebugType[T] \in DebugType
  BY <1>1, ModuleFacts DEF TypeOK, PairInv
<1>5. TypeOK'
  <2>1. Queue' \in Seq(DebugType)
    BY <1>2, <1>4
  <2> QED BY <1>1, <1>2, <1>3, <2>1 DEF TypeOK, tables, Slot
<1>6. PhaseInv'
  <2>1. Populating' = Populating /\ NoMethods' = NoMethods
    BY <1>2 DEF Populating, NoMethods, Slot
  <2>2. Supertypes' = Supertypes /\ VTables' = VTables
    BY <1>2 DEF tables
  <2>3. current' \notin done'
    BY <1>2
  <2>4. \A U \in Type' \ done' : U # current' => Supertypes'[U] = {} /\ VTables'[U] = NoMethods'
    BY <1>1, <1>2, <1>3, <2>1, <2>2, ModuleFacts DEF PhaseInv
  <2>5. ~Populating'
    BY <1>2, <2>1
  <2> QED BY <2>3, <2>4, <2>5 DEF PhaseInv
<1>7. Supertypes[T] = {} /\ VTables[T] = NoMethods
  BY <1>1, <1>2, <1>4 DEF PhaseInv
<1>8. PICK d \in DebugType : d = TypeToDebugType[T]
  BY <1>4
<1>9. Start' = d /\ Queue' = <<d>> /\ ToSet(Queue') = {d}
  BY <1>2, <1>3, <1>8 DEF Start, ToSet
<1>10. MetInv'
  <2>1. d \in Ancestors(d)'
    BY <1>3 DEF Ancestors
  <2> QED BY <1>2, <1>9, <2>1 DEF MetInv, Met
<1>11. LevelInv'
  <2>1. Within[0][d] = {d}
    BY <1>1, Levels DEF TypeOK
  <2>2. 1 \in 0 .. Len(<<d>>) /\ <<d>>[1] = d /\ DOMAIN <<d>> = {1}
    OBVIOUS
  <2>3. AtLevel(0, 1)'
    BY <1>2, <1>3, <1>9, <2>1, <2>2 DEF AtLevel
  <2>4. 0 \in Nat /\ 1 \in 0 .. Len(Queue')
    BY <1>9, <2>2
  <2> QED BY <2>3, <2>4 DEF LevelInv
<1>12. SupersInv'
  <2>1. Met' \ {Start'} = {}
    BY <1>2, <1>9 DEF Met
  <2>2. Supertypes' [current'] = {}
    BY <1>2, <1>7 DEF tables
  <2> QED BY <2>1, <2>2 DEF SupersInv, TypesFor
<1>13. MethodsInv'
  BY <1>2 DEF MethodsInv
<1>14. SlotsInv'
  <2>1. \A i \in Slot : VTables'[current'][i] = NoFunction
    BY <1>2, <1>7 DEF tables, NoMethods
  <2> QED BY <1>2, <2>1 DEF SlotsInv, Slot
<1>15. SupertypesExact' /\ DispatchesToNearest'
  BY <1>1, <1>2, DoneStay DEF tables
<1> QED BY <1>1, <1>2, <1>3, <1>5, <1>6, <1>10, <1>11, <1>12, <1>13, <1>14, <1>15 DEF IndInv

Taken == Head(Queue)
Seen == Visited \cup {Taken}
Added == Unvisited(Taken, Seen)

(* What VisitClass does to the queue and to the set of visited classes.    *)
LEMMA VisitFacts ==
    ASSUME IndInv, VisitClass
    PROVE  /\ current # NoType /\ current \in Types /\ Start \in DebugType
           /\ DirectSupertypes \in [DebugType -> Seq(DebugType)]
           /\ Queue \in Seq(DebugType) /\ Queue # <<>>
           /\ Taken \in DebugType /\ Seen \subseteq DebugType
           /\ Added \in Seq(DebugType)
           /\ ToSet(Added) = ToSet(DirectSupertypes[Taken]) \ Seen
           /\ ToSet(DirectSupertypes[Taken]) \subseteq DebugType
           /\ Tail(Queue) \in Seq(DebugType)
           /\ ToSet(Queue) = {Taken} \cup ToSet(Tail(Queue))
           /\ Visited' = Seen /\ Queue' = Tail(Queue) \o Added
           /\ Queue' \in Seq(DebugType)
           /\ ToSet(Queue') = ToSet(Tail(Queue)) \cup ToSet(Added)
           /\ Met' = Met \cup ToSet(DirectSupertypes[Taken])
           /\ Supertypes' = [Supertypes EXCEPT ![current] = @ \cup TypesOf(Added)]
           /\ current' = current /\ next' = next /\ done' = done /\ Start' = Start
           /\ M' = M /\ UNCHANGED direct
<1>1. /\ current # NoType /\ Queue # <<>> /\ M' = M /\ next' = next
      /\ UNCHANGED direct /\ current' = current /\ done' = done
  BY DEF VisitClass
<1>2. /\ Visited' = Seen /\ Queue' = Tail(Queue) \o Added
      /\ Supertypes' = [Supertypes EXCEPT ![current] = @ \cup TypesOf(Added)]
  BY DEF VisitClass, Seen, Added, Taken
<1>3. /\ current \in Types /\ Queue \in Seq(DebugType) /\ Visited \subseteq DebugType
      /\ DirectSupertypes \in [DebugType -> Seq(DebugType)]
  BY <1>1 DEF IndInv, TypeOK
<1>4. Start \in DebugType
  BY <1>3 DEF Start, IndInv, PairInv
<1>5. /\ Taken \in DebugType /\ Tail(Queue) \in Seq(DebugType)
      /\ ToSet(Queue) = {Taken} \cup ToSet(Tail(Queue))
  BY <1>1, <1>3, TailMembers DEF Taken
<1>6. DirectSupertypes[Taken] \in Seq(DebugType)
  BY <1>3, <1>5
<1>7. /\ Added \in Seq(DebugType)
      /\ ToSet(Added) = ToSet(DirectSupertypes[Taken]) \ Seen
  BY <1>6, UnvisitedProps DEF Added
<1>8. ToSet(DirectSupertypes[Taken]) \subseteq DebugType
  BY <1>6, MembersType
<1>9. /\ Queue' \in Seq(DebugType)
      /\ ToSet(Queue') = ToSet(Tail(Queue)) \cup ToSet(Added)
  <2> DEFINE tail == Tail(Queue)
  <2>1. tail \in Seq(DebugType) /\ Added \in Seq(DebugType)
    BY <1>5, <1>7
  <2>2. /\ tail \o Added \in Seq(DebugType)
        /\ ToSet(tail \o Added) = ToSet(tail) \cup ToSet(Added)
    <3> HIDE DEF tail
    <3> QED BY <2>1, ConcatMembers, Zenon
  <2> QED BY <1>2, <2>2
<1>10. Seen \subseteq DebugType
  BY <1>3, <1>5 DEF Seen
<1>11. Met' = Met \cup ToSet(DirectSupertypes[Taken])
  BY <1>2, <1>5, <1>7, <1>9 DEF Met, Seen
<1>12. Start' = Start
  BY <1>1 DEF Start, direct
<1> QED BY <1>1, <1>2, <1>3, <1>4, <1>5, <1>7, <1>8, <1>9, <1>10, <1>11, <1>12

LEMMA VisitMet ==
    ASSUME IndInv, VisitClass
    PROVE  MetInv'
<1> USE VisitFacts
<1>1. DirectSupertypes' = DirectSupertypes /\ DebugType' = DebugType
  BY SameModule
<1>2. PICK s \in DebugType : s = Start /\ s = Start'
  OBVIOUS
<1>3. /\ s \in Visited \/ Queue = <<s>>
      /\ Met \subseteq Ancestors(s)
      /\ \A D \in Visited : ToSet(DirectSupertypes[D]) \subseteq Met
  BY <1>2 DEF IndInv, MetInv, Walking
<1>4. s \in Visited'
  <2>1. Queue = <<s>> => Taken = s
    BY DEF Taken
  <2> QED BY <1>3, <2>1 DEF Seen
<1>5. Ancestors(s)' = Ancestors(s)
  <2>1. \A S : Closed(S)' <=> Closed(S)
    BY <1>1 DEF Closed
  <2> QED BY <1>1, <2>1 DEF Ancestors
<1>6. ToSet(DirectSupertypes[Taken]) \subseteq Ancestors(s)
  <2>1. Taken \in Ancestors(s)
    BY <1>3 DEF Met
  <2> QED BY <2>1 DEF Ancestors, Closed
<1>7. \A D \in Visited' : ToSet(DirectSupertypes'[D]) \subseteq Met'
  BY <1>1, <1>3 DEF Seen
<1>8. Met' \subseteq Ancestors(s)'
  BY <1>3, <1>5, <1>6
<1> QED BY <1>2, <1>4, <1>7, <1>8 DEF MetInv

(* The front moves on: when nothing of level n is left in the queue, what  *)
(* is there is all of the next level that is new.                          *)
LEMMA NextLevel ==
    ASSUME IndInv, VisitClass
    PROVE  \E n \in Nat : \E j \in 1 .. Len(Queue) : AtLevel(n, j)
<1> USE VisitFacts
<1>1. PICK n \in Nat : \E j \in 0 .. Len(Queue) : AtLevel(n, j)
  BY DEF IndInv, LevelInv, Walking
<1>2. PICK j \in 0 .. Len(Queue) : AtLevel(n, j)
  BY <1>1
<1>3. Len(Queue) \in Nat /\ Len(Queue) >= 1 /\ DOMAIN Queue = 1 .. Len(Queue)
  OBVIOUS
<1>4. CASE j \in 1 .. Len(Queue)
  BY <1>2, <1>4
<1>5. CASE j = 0
  <2> DEFINE L == Len(Queue)
  <2>1. /\ Visited \subseteq Within[n][Start] /\ Within[n][Start] \subseteq Visited
        /\ \A i \in 1 .. L : Queue[i] \in Within[n + 1][Start]
        /\ \A m \in Nat : m < n => Within[m][Start] \subseteq Visited
    <3>1. \A i \in 1 .. L : ~(i <= j)
      BY <1>3, <1>5
    <3>2. 1 .. j = {}
      BY <1>5
    <3> QED BY <1>2, <1>3, <3>1, <3>2 DEF AtLevel
  <2>2. Within[n + 1][Start] = Within[n][Start] \cup
            UNION {ToSet(DirectSupertypes[E]) : E \in Within[n][Start]}
    BY Levels
  <2>3. \A D \in Visited : ToSet(DirectSupertypes[D]) \subseteq Visited \cup ToSet(Queue)
    BY DEF IndInv, MetInv, Walking, Met
  <2>4. ToSet(Queue) = {Queue[i] : i \in 1 .. L}
    BY <1>3 DEF ToSet
  <2>5. Within[n + 1][Start] \subseteq Visited \cup {Queue[i] : i \in 1 .. L}
    BY <2>1, <2>2, <2>3, <2>4
  <2>6. \A m \in Nat : m < n + 1 => Within[m][Start] \subseteq Visited
    <3>1. \A m \in Nat : m < n + 1 => m < n \/ m = n
      OBVIOUS
    <3> QED BY <2>1, <3>1
  <2>7. Visited \subseteq Within[n + 1][Start]
    BY <2>1, <2>2
  <2>8. \A i \in DOMAIN Queue : i <= L
    BY <1>3
  <2>9. AtLevel(n + 1, L)
    <3>1. \A i \in DOMAIN Queue : Queue[i] \in Within[n + 1][Start]
      BY <1>3, <2>1
    <3> QED BY <2>5, <2>6, <2>7, <2>8, <3>1 DEF AtLevel
  <2>10. n + 1 \in Nat /\ L \in 1 .. Len(Queue)
    BY <1>3
  <2> HIDE DEF L
  <2> QED BY <2>9, <2>10
<1> QED BY <1>3, <1>4, <1>5

LEMMA VisitLevel ==
    ASSUME IndInv, VisitClass
    PROVE  LevelInv'
<1> USE VisitFacts
<1>1. PICK n \in Nat : \E j \in 1 .. Len(Queue) : AtLevel(n, j)
  BY NextLevel
<1>2. PICK j \in 1 .. Len(Queue) : AtLevel(n, j)
  BY <1>1
<1>3. Within' = Within
  BY SameModule
<1> DEFINE L == Len(Queue)
           K == Len(Added)
           W == Within[n][Start]
           X == Within[n + 1][Start]
<1>4. /\ L \in Nat /\ L >= 1 /\ K \in Nat /\ DOMAIN Queue = 1 .. L /\ DOMAIN Added = 1 .. K
      /\ Len(Tail(Queue)) = L - 1 /\ \A i \in 1 .. L - 1 : Tail(Queue)[i] = Queue[i + 1]
      /\ Taken = Queue[1]
  BY DEF Taken
<1>5. /\ Len(Queue') = (L - 1) + K /\ DOMAIN Queue' = 1 .. (L - 1) + K
      /\ \A i \in 1 .. (L - 1) + K :
            Queue'[i] = IF i <= L - 1 THEN Tail(Queue)[i] ELSE Added[i - (L - 1)]
  <2> DEFINE tail == Tail(Queue)
  <2>1. /\ tail \in Seq(DebugType) /\ Added \in Seq(DebugType) /\ Queue' = tail \o Added
        /\ Len(tail) = L - 1
    BY <1>4
  <2> HIDE DEF tail
  <2>2. /\ Len(tail \o Added) = Len(tail) + K /\ DOMAIN (tail \o Added) = 1 .. Len(tail) + K
        /\ \A i \in 1 .. Len(tail) + K :
              (tail \o Added)[i] = IF i <= Len(tail) THEN tail[i] ELSE Added[i - Len(tail)]
    <3> HIDE VisitFacts
    <3>1. tail \in Seq(DebugType) /\ Added \in Seq(DebugType)
      BY <2>1
    <3> QED BY <3>1, ConcatAt
  <2> QED BY <2>1, <2>2 DEF tail
<1>6. /\ \A i \in 1 .. L : Queue[i] \in IF i <= j THEN W ELSE X
      /\ Visited \subseteq W /\ W \subseteq Visited \cup {Queue[i] : i \in 1 .. j}
      /\ \A m \in Nat : m < n => Within[m][Start] \subseteq Visited
  BY <1>2, <1>4 DEF AtLevel
<1>7. Taken \in W
  BY <1>4, <1>6
<1>8. ToSet(DirectSupertypes[Taken]) \subseteq X
  <2>1. X = W \cup UNION {ToSet(DirectSupertypes[E]) : E \in W}
    BY Levels
  <2> HIDE DEF W, X
  <2> QED BY <1>7, <2>1
<1>8a. ToSet(Added) \subseteq X
  BY <1>8
<1>9. ASSUME NEW i \in DOMAIN Queue'
      PROVE  Queue'[i] \in IF i <= j - 1 THEN W ELSE X
  <2> HIDE VisitFacts
  <2> HIDE DEF W, X, L, K
  <2>0. i \in 1 .. (L - 1) + K
    BY <1>5
  <2>1. CASE i <= L - 1
    <3>1. i \in 1 .. L - 1 /\ i + 1 \in 1 .. L
      BY <1>4, <2>0, <2>1
    <3>2. Queue'[i] = Tail(Queue)[i] /\ Tail(Queue)[i] = Queue[i + 1]
      BY <1>4, <1>5, <2>0, <2>1, <3>1
    <3>3. i <= j - 1 <=> i + 1 <= j
      BY <1>2, <3>1
    <3> QED BY <1>6, <3>1, <3>2, <3>3
  <2>2. CASE ~(i <= L - 1)
    <3>1. Queue'[i] = Added[i - (L - 1)] /\ i - (L - 1) \in 1 .. K
      <4>1. L \in Nat /\ K \in Nat
        BY <1>4
      <4>2. i - (L - 1) \in 1 .. K
        BY <4>1, <2>0, <2>2
      <4>3. Queue'[i] = IF i <= L - 1 THEN Tail(Queue)[i] ELSE Added[i - (L - 1)]
        BY <1>5, <2>0
      <4> QED BY <2>2, <4>2, <4>3
    <3>2. Queue'[i] \in ToSet(Added)
      BY <1>4, <3>1 DEF ToSet
    <3>3. Queue'[i] \in X
      BY <1>8a, <3>2
    <3>4. L \in Nat /\ j \in 1 .. L
      BY <1>2, <1>4 DEF L
    <3>5. ~(i <= j - 1)
      BY <2>0, <2>2, <3>4
    <3> QED BY <3>3, <3>5
  <2> QED BY <2>1, <2>2
<1>10. Visited' \subseteq W
  BY <1>6, <1>7 DEF Seen
<1>11. W \subseteq Visited' \cup {Queue'[i] : i \in 1 .. j - 1}
  <2> SUFFICES ASSUME NEW E \in W, E \notin Visited'
               PROVE  E \in {Queue'[i] : i \in 1 .. j - 1}
    OBVIOUS
  <2>1. E \notin Visited /\ E # Taken
    BY DEF Seen
  <2>2. PICK i \in 1 .. j : E = Queue[i]
    BY <1>6, <2>1
  <2>3. i # 1
    BY <1>4, <2>1, <2>2
  <2>4. i - 1 \in 1 .. j - 1 /\ i - 1 \in 1 .. L - 1 /\ (i - 1) + 1 = i
    BY <1>2, <1>4, <2>2, <2>3
  <2>5. Queue'[i - 1] = Queue[i]
    <3>1. Queue'[i - 1] = Tail(Queue)[i - 1]
      BY <1>4, <1>5, <2>4
    <3>2. Tail(Queue)[i - 1] = Queue[(i - 1) + 1]
      BY <1>4, <2>4
    <3> QED BY <2>4, <3>1, <3>2
  <2> QED BY <2>2, <2>4, <2>5
<1>12. \A m \in Nat : m < n => Within[m][Start] \subseteq Visited'
  BY <1>6 DEF Seen
<1>13. j - 1 \in 0 .. Len(Queue')
  BY <1>2, <1>4, <1>5
<1>14. AtLevel(n, j - 1)'
  BY <1>3, <1>9, <1>10, <1>11, <1>12 DEF AtLevel
<1> QED BY <1>13, <1>14 DEF LevelInv

LEMMA VisitSupers ==
    ASSUME IndInv, VisitClass
    PROVE  SupersInv' /\ TypesOf(Added) \subseteq Types \cup IgnoredTypes
<1> USE VisitFacts
<1>1. DebugTypeToType' = DebugTypeToType
  BY SameModule
<1>2. Supertypes[current] = TypesFor(Met \ {Start})
  BY DEF IndInv, SupersInv, Walking
<1>3. Supertypes'[current] = Supertypes[current] \cup TypesOf(Added)
  <2>1. Supertypes \in [Type -> SUBSET (Types \cup IgnoredTypes)] /\ Types \subseteq Type
    BY DEF IndInv, TypeOK
  <2>2. current \in Type
    BY <2>1
  <2> QED BY <2>1, <2>2
<1>4. Start \in Seen
  <2>1. Start \in Visited \/ Queue = <<Start>>
    BY DEF IndInv, MetInv, Walking
  <2>2. Queue = <<Start>> => Taken = Start
    BY DEF Taken
  <2> QED BY <2>1, <2>2 DEF Seen
<1>5. Seen \subseteq Met
  BY DEF Seen, Met
<1>6. Met' \ {Start} = (Met \ {Start}) \cup ToSet(Added)
  BY <1>4, <1>5
<1>7. TypesOf(Added) = TypesFor(ToSet(Added))
  BY DEF TypesOf, TypesFor
<1>8. TypesFor((Met \ {Start}) \cup ToSet(Added)) = TypesFor(Met \ {Start}) \cup TypesFor(ToSet(Added))
  BY DEF TypesFor
<1>9. Supertypes'[current] = TypesFor(Met' \ {Start})
  BY <1>2, <1>3, <1>6, <1>7, <1>8
<1>10. SupersInv'
  BY <1>1, <1>9 DEF SupersInv, TypesFor
<1>11. TypesOf(Added) \subseteq Types \cup IgnoredTypes
  <2>1. ToSet(Added) \subseteq DebugType
    BY MembersType
  <2> QED BY <2>1 DEF TypesOf, IndInv, PairInv
<1> QED BY <1>10, <1>11

(* What VisitClass does to the tables of methods.                          *)
LEMMA VisitTables ==
    ASSUME IndInv, VisitClass
    PROVE  LET T == DebugTypeToType[Taken] IN
           /\ T = NoType => PublicConstMethods' = PublicConstMethods /\ VTables' = VTables
           /\ T # NoType =>
                 /\ T \in Type /\ DirectPublicConstMethods[T] \in Seq(Function)
                 /\ DirectVirtualMethods[T] \in [Slot -> Function \cup {NoFunction}]
                 /\ PublicConstMethods' = [PublicConstMethods EXCEPT
                       ![current] = Visible(@, DirectPublicConstMethods[T])]
                 /\ VTables' = [VTables EXCEPT
                       ![current] = VTableFrom(@, DirectVirtualMethods[T])]
           /\ current \in Type
           /\ PublicConstMethods \in [Type -> SUBSET Function]
           /\ VTables \in [Type -> [Slot -> Function \cup {NoFunction}]]
<1> DEFINE T == DebugTypeToType[Taken]
<1>1. IF T = NoType
      THEN UNCHANGED <<PublicConstMethods, VTables>>
      ELSE /\ PublicConstMethods' = [PublicConstMethods EXCEPT
                 ![current] = Visible(@, DirectPublicConstMethods[T])]
           /\ VTables' = [VTables EXCEPT ![current] = VTableFrom(@, DirectVirtualMethods[T])]
  BY DEF VisitClass, Taken
<1>2. /\ DebugTypeToType \in [DebugType -> Type \cup {NoType}]
      /\ DirectPublicConstMethods \in [Type -> Seq(Function)]
      /\ DirectVirtualMethods \in [Type -> [Slot -> Function \cup {NoFunction}]]
      /\ PublicConstMethods \in [Type -> SUBSET Function]
      /\ VTables \in [Type -> [Slot -> Function \cup {NoFunction}]]
      /\ Types \subseteq Type
  BY DEF IndInv, TypeOK
<1>3. Taken \in DebugType /\ current \in Type
  BY <1>2, VisitFacts
<1>4. T \in Type \cup {NoType}
  BY <1>2, <1>3
<1> HIDE DEF T
<1>5. T # NoType => /\ DirectPublicConstMethods[T] \in Seq(Function)
                    /\ DirectVirtualMethods[T] \in [Slot -> Function \cup {NoFunction}]
  BY <1>2, <1>4
<1> QED BY <1>1, <1>2, <1>3, <1>4, <1>5 DEF T

LEMMA VisitMethods ==
    ASSUME IndInv, VisitClass
    PROVE  MethodsInv'
<1> DEFINE T == DebugTypeToType[Taken]
           old == PublicConstMethods[current]
           new == PublicConstMethods'[current]
<1>1. /\ current' = current /\ Visited' = Seen /\ M' = M
      /\ DebugTypeToType' = DebugTypeToType
      /\ DirectPublicConstMethods' = DirectPublicConstMethods
  <2>1. M' = M /\ UNCHANGED direct
    BY VisitFacts
  <2> QED BY <2>1, VisitFacts, SameModule
<1>2. \A D \in Visited : DebugTypeToType[D] # NoType =>
          \A F \in ToSet(DirectPublicConstMethods[DebugTypeToType[D]]) : Covered(old, F)
  BY VisitFacts DEF IndInv, MethodsInv, Walking
<1>3. /\ old \subseteq new
      /\ T # NoType => \A F \in ToSet(DirectPublicConstMethods[T]) : Covered(new, F)
  <2>1. CASE T = NoType
    BY <2>1, VisitTables
  <2>2. CASE T # NoType
    <3>1. /\ DirectPublicConstMethods[T] \in Seq(Function)
          /\ current \in Type
          /\ PublicConstMethods \in [Type -> SUBSET Function]
          /\ PublicConstMethods' = [PublicConstMethods EXCEPT
                ![current] = Visible(@, DirectPublicConstMethods[T])]
      BY <2>2, VisitTables
    <3> HIDE DEF T
    <3>2. old \in SUBSET Function /\ new = Visible(old, DirectPublicConstMethods[T])
      BY <3>1
    <3> HIDE DEF old, new
    <3> QED BY <3>1, <3>2, VisibleProps
  <2> QED BY <2>1, <2>2
<1> HIDE DEF old, new
<1>4. \A F : Covered(old, F) => Covered(new, F)
  BY <1>3, Zenon DEF Covered
<1>5. ASSUME NEW D \in Seen, DebugTypeToType[D] # NoType,
             NEW F \in ToSet(DirectPublicConstMethods[DebugTypeToType[D]])
      PROVE  Covered(new, F)
  <2>1. CASE D \in Visited
    BY <1>2, <1>4, <1>5, <2>1
  <2>2. CASE D = Taken
    BY <1>3, <1>5, <2>2
  <2> QED BY <2>1, <2>2 DEF Seen
<1>6. \A S, F : Covered(S, F)' <=> Covered(S, F)
  BY <1>1 DEF Covered, isSameFunctionNameAndParams, FunctionName, IsConst,
              isSameDemangleComponents
<1>7. PICK got : got = new
  OBVIOUS
<1>8. \A D \in Seen : DebugTypeToType[D] # NoType =>
         \A F \in ToSet(DirectPublicConstMethods[DebugTypeToType[D]]) : Covered(got, F)'
  BY <1>5, <1>6, <1>7
<1>9. PublicConstMethods'[current'] = got
  BY <1>1, <1>7 DEF new
<1> QED BY <1>1, <1>8, <1>9 DEF MethodsInv

LEMMA VisitSlots ==
    ASSUME IndInv, VisitClass
    PROVE  SlotsInv'
<1> DEFINE T == DebugTypeToType[Taken]
           old == VTables[current]
           new == VTables'[current]
<1>1. /\ current' = current /\ Visited' = Seen /\ Start' = Start /\ Within' = Within
      /\ DebugTypeToType' = DebugTypeToType
      /\ DirectVirtualMethods' = DirectVirtualMethods
  <2>1. M' = M /\ UNCHANGED direct
    BY VisitFacts
  <2> QED BY <2>1, VisitFacts, SameModule
<1>2. ASSUME NEW i \in Slot
      PROVE  new[i] = IF old[i] = NoFunction /\ Defines(Taken, i)
                      THEN DirectVirtualMethods[T][i] ELSE old[i]
  <2>1. CASE T = NoType
    BY <2>1, VisitTables DEF Defines
  <2>2. CASE T # NoType
    <3>1. /\ DirectVirtualMethods[T] \in [Slot -> Function \cup {NoFunction}]
          /\ current \in Type
          /\ VTables \in [Type -> [Slot -> Function \cup {NoFunction}]]
          /\ VTables' = [VTables EXCEPT ![current] = VTableFrom(@, DirectVirtualMethods[T])]
      BY <2>2, VisitTables
    <3>2. new = VTableFrom(old, DirectVirtualMethods[T])
      <4> HIDE DEF T
      <4> QED BY <3>1
    <3>3. new[i] = IF old[i] = NoFunction THEN DirectVirtualMethods[T][i] ELSE old[i]
      <4> HIDE DEF old, new, T
      <4> QED BY <3>2 DEF VTableFrom
    <3>4. Defines(Taken, i) <=> DirectVirtualMethods[T][i] # NoFunction
      BY <2>2 DEF Defines
    <3> HIDE DEF old, new, T
    <3> QED BY <3>3, <3>4
  <2> QED BY <2>1, <2>2
<1>3. \A i \in Slot :
        \/ /\ \A D \in Visited : ~Defines(D, i)
           /\ old[i] = NoFunction
        \/ \E D \in Visited :
              /\ Defines(D, i)
              /\ old[i] = DirectVirtualMethods[DebugTypeToType[D]][i]
              /\ Nearest(D, i)
  BY VisitFacts DEF IndInv, SlotsInv, Walking
<1>4. ASSUME NEW i \in Slot, \A D \in Visited : ~Defines(D, i)
      PROVE  Nearest(Taken, i)
  <2>1. PICK n \in Nat : \E j \in 1 .. Len(Queue) : AtLevel(n, j)
    BY NextLevel
  <2>2. PICK j \in 1 .. Len(Queue) : AtLevel(n, j)
    BY <2>1
  <2>3. Taken \in Within[n][Start]
    <3>1. Queue \in Seq(DebugType) /\ Queue # <<>> /\ Taken = Queue[1]
      BY VisitFacts DEF Taken
    <3>2. 1 \in DOMAIN Queue /\ 1 <= j
      BY <3>1
    <3> QED BY <2>2, <3>1, <3>2 DEF AtLevel
  <2>4. ASSUME NEW m \in Nat, NEW E \in Within[m][Start], Defines(E, i)
        PROVE  Taken \in Within[m][Start]
    <3>1. ~(Within[m][Start] \subseteq Visited)
      BY <1>4, <2>4
    <3>2. ~(m < n)
      BY <2>2, <3>1 DEF AtLevel
    <3>3. n <= m
      BY <3>2
    <3>4. Within[n][Start] \subseteq Within[m][Start]
      BY <3>3, VisitFacts, LevelsGrow
    <3> QED BY <2>3, <3>4
  <2> QED BY <2>4, Zenon DEF Nearest
<1> HIDE DEF old, new
<1>5. ASSUME NEW i \in Slot
      PROVE  \/ /\ \A D \in Seen : ~Defines(D, i)
                /\ new[i] = NoFunction
             \/ \E D \in Seen :
                   /\ Defines(D, i)
                   /\ new[i] = DirectVirtualMethods[DebugTypeToType[D]][i]
                   /\ Nearest(D, i)
  <2>1. CASE \E D \in Visited : /\ Defines(D, i)
                                /\ old[i] = DirectVirtualMethods[DebugTypeToType[D]][i]
                                /\ Nearest(D, i)
    <3>1. PICK D \in Visited : /\ Defines(D, i)
                               /\ old[i] = DirectVirtualMethods[DebugTypeToType[D]][i]
                               /\ Nearest(D, i)
      BY <2>1
    <3>2. old[i] # NoFunction
      BY <3>1 DEF Defines
    <3>3. new[i] = old[i] /\ D \in Seen
      BY <1>2, <3>2 DEF Seen
    <3> QED BY <3>1, <3>3
  <2>2. CASE (\A D \in Visited : ~Defines(D, i)) /\ old[i] = NoFunction
    <3>1. CASE Defines(Taken, i)
      BY <1>2, <1>4, <2>2, <3>1 DEF Seen
    <3>2. CASE ~Defines(Taken, i)
      BY <1>2, <2>2, <3>2 DEF Seen
    <3> QED BY <3>1, <3>2
  <2> QED BY <1>3, <2>1, <2>2
<1>6. Slot' = Slot
  BY DEF Slot
<1>7. \A D, i : (Defines(D, i)' <=> Defines(D, i)) /\ (Nearest(D, i)' <=> Nearest(D, i))
  BY <1>1 DEF Defines, Nearest
<1>8. new = VTables'[current']
  BY <1>1 DEF new
<1> QED BY <1>1, <1>5, <1>6, <1>7, <1>8 DEF SlotsInv

LEMMA VisitType ==
    ASSUME IndInv, VisitClass
    PROVE  TypeOK'
<1> DEFINE T == DebugTypeToType[Taken]
<1>1. /\ current' = current /\ Visited' = Seen /\ next' = next /\ done' = done /\ M' = M
      /\ Type' = Type /\ DebugType' = DebugType /\ Function' = Function
      /\ IgnoredTypes' = IgnoredTypes /\ Types' = Types
      /\ TypeToDebugType' = TypeToDebugType /\ DebugTypeToType' = DebugTypeToType
      /\ DirectSupertypes' = DirectSupertypes /\ AllMethods' = AllMethods
      /\ DirectPublicConstMethods' = DirectPublicConstMethods
      /\ DirectVirtualMethods' = DirectVirtualMethods
      /\ Slot' = Slot
  <2>1. M' = M /\ UNCHANGED direct
    BY VisitFacts
  <2> QED BY <2>1, VisitFacts, SameModule DEF Slot
<1>2. TypeOK
  BY DEF IndInv
<1>3. Queue' \in Seq(DebugType) /\ Visited' \subseteq DebugType
  BY VisitFacts
<1>4. Supertypes' \in [Type -> SUBSET (Types \cup IgnoredTypes)]
  <2>1. /\ Supertypes \in [Type -> SUBSET (Types \cup IgnoredTypes)]
        /\ Supertypes' = [Supertypes EXCEPT ![current] = @ \cup TypesOf(Added)]
        /\ TypesOf(Added) \subseteq Types \cup IgnoredTypes
    BY <1>2, VisitFacts, VisitSupers DEF TypeOK
  <2>2. Supertypes[current] \cup TypesOf(Added) \in SUBSET (Types \cup IgnoredTypes)
    BY <2>1, <1>2, VisitFacts DEF TypeOK
  <2> QED BY <2>1, <2>2
<1>5. PublicConstMethods' \in [Type -> SUBSET Function]
  <2>1. CASE T = NoType
    BY <2>1, VisitTables
  <2>2. CASE T # NoType
    <3>1. /\ DirectPublicConstMethods[T] \in Seq(Function)
          /\ PublicConstMethods' = [PublicConstMethods EXCEPT
                ![current] = Visible(@, DirectPublicConstMethods[T])]
          /\ PublicConstMethods \in [Type -> SUBSET Function]
          /\ current \in Type
      BY <2>2, VisitTables
    <3> HIDE DEF T
    <3>2. Visible(PublicConstMethods[current], DirectPublicConstMethods[T]) \subseteq Function
      <4> DEFINE old == PublicConstMethods[current]
      <4>1. old \in SUBSET Function
        BY <3>1
      <4> HIDE DEF old
      <4>2. Visible(old, DirectPublicConstMethods[T]) \subseteq Function
        <5>1. PICK fs \in Seq(Function) : fs = DirectPublicConstMethods[T]
          BY <3>1
        <5>2. Visible(old, fs) \subseteq Function
          BY <4>1, VisibleProps
        <5> QED BY <5>1, <5>2
      <4> QED BY <4>2 DEF old
    <3> QED BY <3>1, <3>2
  <2> QED BY <2>1, <2>2
<1>6. VTables' \in [Type -> [Slot -> Function \cup {NoFunction}]]
  <2>1. CASE T = NoType
    BY <2>1, VisitTables
  <2>2. CASE T # NoType
    <3>1. /\ DirectVirtualMethods[T] \in [Slot -> Function \cup {NoFunction}]
          /\ VTables' = [VTables EXCEPT ![current] = VTableFrom(@, DirectVirtualMethods[T])]
          /\ VTables \in [Type -> [Slot -> Function \cup {NoFunction}]]
          /\ current \in Type
      BY <2>2, VisitTables
    <3> HIDE DEF T
    <3>2. VTableFrom(VTables[current], DirectVirtualMethods[T])
              \in [Slot -> Function \cup {NoFunction}]
      BY <3>1 DEF VTableFrom
    <3> QED BY <3>1, <3>2
  <2> QED BY <2>1, <2>2
<1> QED BY <1>1, <1>2, <1>3, <1>4, <1>5, <1>6 DEF TypeOK

(* VisitClass writes the tables of the type at hand only.                  *)
LEMMA VisitAlone ==
    ASSUME IndInv, VisitClass, NEW U \in Type, U # current
    PROVE  Supertypes'[U] = Supertypes[U] /\ VTables'[U] = VTables[U]
<1>1. Supertypes'[U] = Supertypes[U]
  <2>1. Supertypes \in [Type -> SUBSET (Types \cup IgnoredTypes)]
    BY DEF IndInv, TypeOK
  <2> QED BY <2>1, VisitFacts
<1>2. VTables'[U] = VTables[U]
  BY VisitTables
<1> QED BY <1>1, <1>2

LEMMA VisitInv == IndInv /\ VisitClass => IndInv'
<1> SUFFICES ASSUME IndInv, VisitClass PROVE IndInv'
  OBVIOUS
<1>1. M' = M /\ UNCHANGED direct /\ current' = current /\ done' = done /\ next' = next
  BY VisitFacts
<1>2. M \in Modules /\ PairInv /\ PhaseInv /\ SupertypesExact /\ DispatchesToNearest
  BY DEF IndInv
<1>3. PairInv' /\ Type' = Type
  BY <1>1, <1>2, SameModule
<1>4. done \subseteq Type
  BY DEF IndInv, TypeOK
<1>5. PhaseInv'
  <2>1. Populating' = Populating /\ NoMethods' = NoMethods
    BY <1>1 DEF Populating, NoMethods, Slot
  <2>2. ASSUME NEW U \in Type \ done, U # current
        PROVE  Supertypes'[U] = {} /\ VTables'[U] = NoMethods
    BY <1>2, <2>2, VisitAlone DEF PhaseInv
  <2> QED BY <1>1, <1>2, <1>3, <2>1, <2>2 DEF PhaseInv
<1>6. SupertypesExact' /\ DispatchesToNearest'
  <2>1. \A U \in done : Supertypes'[U] = Supertypes[U] /\ VTables'[U] = VTables[U]
    BY <1>2, <1>4, VisitAlone DEF PhaseInv
  <2> QED BY <1>1, <1>2, <2>1, DoneStay
<1> QED BY <1>1, <1>2, <1>3, <1>5, <1>6, VisitType, VisitMet, VisitLevel, VisitSupers,
           VisitMethods, VisitSlots DEF IndInv

(* When the queue is empty all the ancestors have been visited, and those  *)
(* are all that have.                                                      *)
LEMMA WalkOver ==
    ASSUME IndInv, EndType
    PROVE  /\ current # NoType /\ current \in Types /\ current \in Type
           /\ Visited = Ancestors(Start)
           /\ Supertypes[current] = TypesFor(Visited \ {Start})
           /\ TypesAbove(current) = TypesFor(Visited)
           /\ \A D \in Visited : DebugTypeToType[D] # NoType
                                    => TypeToDebugType[DebugTypeToType[D]] = D
<1>1. current # NoType /\ Queue = <<>>
  BY DEF EndType
<1>2. current \in Types /\ Types \subseteq Type /\ Visited \subseteq DebugType
  BY <1>1 DEF IndInv, TypeOK
<1>3. Start \in DebugType
  BY <1>2 DEF IndInv, PairInv, Start
<1>4. ToSet(Queue) = {} /\ Met = Visited
  BY <1>1 DEF ToSet, Met
<1>5. /\ Start \in Visited
      /\ Visited \subseteq Ancestors(Start)
      /\ \A D \in Visited : ToSet(DirectSupertypes[D]) \subseteq Visited
  BY <1>1, <1>4 DEF IndInv, MetInv, Walking
<1>6. Ancestors(Start) \subseteq Visited
  BY <1>2, <1>5 DEF Ancestors, Closed
<1>7. Supertypes[current] = TypesFor(Visited \ {Start})
  BY <1>1, <1>4 DEF IndInv, SupersInv, Walking
<1>8. \A D \in Visited : DebugTypeToType[D] # NoType => TypeToDebugType[DebugTypeToType[D]] = D
  BY <1>2 DEF IndInv, PairInv
<1>9. Visited = Ancestors(Start)
  BY <1>5, <1>6
<1>10. TypesAbove(current) = TypesFor(Visited)
  BY <1>9 DEF TypesAbove, Start
<1> QED BY <1>1, <1>2, <1>7, <1>8, <1>9, <1>10

LEMMA EndInv == IndInv /\ EndType => IndInv'
<1> SUFFICES ASSUME IndInv, EndType PROVE IndInv'
  OBVIOUS
<1>1. /\ M' = M /\ next' = next /\ UNCHANGED direct /\ UNCHANGED tables
      /\ Queue' = Queue /\ Visited' = Visited
      /\ current' = NoType /\ done' = done \cup {current}
  BY DEF EndType
<1>2. /\ Type' = Type /\ DebugType' = DebugType /\ Function' = Function
      /\ IgnoredTypes' = IgnoredTypes /\ Types' = Types
      /\ TypeToDebugType' = TypeToDebugType /\ DebugTypeToType' = DebugTypeToType
      /\ DirectSupertypes' = DirectSupertypes /\ AllMethods' = AllMethods
      /\ DirectPublicConstMethods' = DirectPublicConstMethods
      /\ DirectVirtualMethods' = DirectVirtualMethods
      /\ Within' = Within /\ PairInv' /\ Slot' = Slot
  BY <1>1, SameModule DEF IndInv, Slot
<1>3. /\ Supertypes' = Supertypes /\ VTables' = VTables
      /\ PublicConstMethods' = PublicConstMethods
  BY <1>1 DEF tables
<1>4. /\ current # NoType /\ current \in Types /\ current \in Type
      /\ M \in Modules /\ TypeOK /\ PhaseInv
  BY WalkOver DEF IndInv
<1>5. TypeOK'
  BY <1>1, <1>2, <1>3, <1>4 DEF TypeOK
<1>6. PhaseInv'
  <2>1. ~Populating /\ Populating' = Populating /\ NoMethods' = NoMethods
    BY <1>1, <1>4 DEF PhaseInv, Populating, NoMethods, Slot
  <2>2. current' \notin done'
    <3>1. done' \subseteq Type
      BY <1>1, <1>4 DEF TypeOK
    <3> QED BY <1>1, <1>4, <3>1, ModuleFacts
  <2> QED BY <1>1, <1>2, <1>3, <1>4, <2>1, <2>2 DEF PhaseInv
<1>7. MetInv' /\ LevelInv' /\ SupersInv' /\ MethodsInv' /\ SlotsInv'
  BY <1>1 DEF MetInv, LevelInv, SupersInv, MethodsInv, SlotsInv, Walking
<1>8. ASSUME NEW T \in done', NEW D, D = TypeToDebugType[T]
      PROVE  Supertypes[T] = TypesFor(Ancestors(D) \ {D})
  <2>1. CASE T \in done
    BY <1>8, <2>1 DEF IndInv, SupertypesExact
  <2>2. CASE T = current
    BY <1>8, <2>2, WalkOver DEF Start
  <2> QED BY <1>1, <2>1, <2>2
<1>9. SupertypesExact'
  <2> SUFFICES ASSUME NEW T \in done', NEW D, D = TypeToDebugType[T]
               PROVE  Supertypes'[T] = TypesFor(Ancestors(D) \ {D})'
    BY <1>2 DEF SupertypesExact
  <2>1. Ancestors(D)' = Ancestors(D)
    BY <1>1, SameModule
  <2>2. TypesFor(Ancestors(D) \ {D})' = TypesFor(Ancestors(D) \ {D})
    BY <1>2, <2>1 DEF TypesFor
  <2> QED BY <1>3, <1>8, <2>2
<1> DEFINE Right(T, i) ==
        LET Definers == { S \in TypesAbove(T) :
                            DirectVirtualMethods[S][i] # NoFunction }
        IN  IF Definers = {} THEN VTables[T][i] = NoFunction
            ELSE \E S \in Definers :
                    /\ VTables[T][i] = DirectVirtualMethods[S][i]
                    /\ \A R \in Definers : AsNear(T, S, R)
<1>10. ASSUME NEW i \in Slot PROVE Right(current, i)
  <2> DEFINE Definers == { S \in TypesAbove(current) :
                             DirectVirtualMethods[S][i] # NoFunction }
  <2>1. TypesAbove(current) = TypesFor(Visited)
    BY WalkOver
  <2>2. Definers = {DebugTypeToType[D] : D \in {D \in Visited : Defines(D, i)}}
    BY <2>1 DEF TypesFor, Defines
  <2> HIDE DEF Definers
  <2>3. CASE (\A D \in Visited : ~Defines(D, i)) /\ VTables[current][i] = NoFunction
    <3>1. Definers = {}
      BY <2>2, <2>3
    <3> QED BY <2>3, <3>1 DEF Definers
  <2>4. CASE \E D \in Visited :
                /\ Defines(D, i)
                /\ VTables[current][i] = DirectVirtualMethods[DebugTypeToType[D]][i]
                /\ Nearest(D, i)
    <3>1. PICK D \in Visited :
              /\ Defines(D, i)
              /\ VTables[current][i] = DirectVirtualMethods[DebugTypeToType[D]][i]
              /\ Nearest(D, i)
      BY <2>4
    <3>2. DebugTypeToType[D] \in Definers
      BY <2>2, <3>1
    <3>3. ASSUME NEW R \in Definers PROVE AsNear(current, DebugTypeToType[D], R)
      <4>1. PICK E \in Visited : Defines(E, i) /\ R = DebugTypeToType[E]
        BY <2>2
      <4>2. TypeToDebugType[R] = E /\ TypeToDebugType[DebugTypeToType[D]] = D
        BY <3>1, <4>1, WalkOver DEF Defines
      <4>3. \A n \in Nat : E \in Within[n][Start] => D \in Within[n][Start]
        BY <3>1, <4>1 DEF Nearest
      <4>4. 0 .. Cardinality(DebugType) \subseteq Nat
        OBVIOUS
      <4> QED BY <4>2, <4>3, <4>4 DEF AsNear, Start
    <3> QED BY <3>1, <3>2, <3>3 DEF Definers
  <2> QED BY <1>4, <2>3, <2>4 DEF IndInv, SlotsInv, Walking
<1>11. ASSUME NEW T \in done', NEW i \in Slot PROVE Right(T, i)
  <2>1. CASE T \in done
    BY <2>1 DEF IndInv, DispatchesToNearest
  <2>2. CASE T = current
    BY <1>10, <2>2
  <2> QED BY <1>1, <2>1, <2>2
<1>12. DispatchesToNearest'
  <2>1. \A T, S, R : AsNear(T, S, R)' <=> AsNear(T, S, R)
    BY <1>2 DEF AsNear
  <2>2. \A T : TypesAbove(T)' = TypesAbove(T)
    BY <1>1, SameModule
  <2> QED BY <1>2, <1>3, <1>11, <2>1, <2>2 DEF DispatchesToNearest
<1> QED BY <1>1, <1>2, <1>4, <1>5, <1>6, <1>7, <1>9, <1>12 DEF IndInv

-----------------------------------------------------------------------------
(* The invariant of ClassTables is inductive.                              *)
THEOREM Tables == Spec => []IndInv
<1>1. IndInv /\ [Next]_vars => IndInv'
  <2> SUFFICES ASSUME IndInv, [Next]_vars PROVE IndInv'
    OBVIOUS
  <2>1. CASE SkipFunction
    BY <2>1, SkipInv
  <2>2. CASE IgnoredTypeFunction
    BY <2>2, IgnoreInv
  <2>3. CASE AddMethod
    BY <2>3, AddInv
  <2>4. CASE \E T \in Types : StartType(T)
    BY <2>4, StartInv
  <2>5. CASE VisitClass
    BY <2>5, VisitInv
  <2>6. CASE EndType
    BY <2>6, EndInv
  <2>7. CASE UNCHANGED vars
    <3>1. /\ M' = M /\ next' = next /\ UNCHANGED direct /\ UNCHANGED tables
          /\ current' = current /\ Queue' = Queue /\ Visited' = Visited /\ done' = done
      BY <2>7 DEF vars
    <3>2. /\ Type' = Type /\ DebugType' = DebugType /\ Function' = Function
          /\ IgnoredTypes' = IgnoredTypes /\ Types' = Types
          /\ TypeToDebugType' = TypeToDebugType /\ DebugTypeToType' = DebugTypeToType
          /\ DirectSupertypes' = DirectSupertypes /\ AllMethods' = AllMethods
          /\ DirectPublicConstMethods' = DirectPublicConstMethods
          /\ DirectVirtualMethods' = DirectVirtualMethods
          /\ Within' = Within /\ PairInv' /\ Slot' = Slot
      BY <3>1, SameModule DEF IndInv, Slot
    <3>3. /\ Supertypes' = Supertypes /\ VTables' = VTables
          /\ PublicConstMethods' = PublicConstMethods
      BY <3>1 DEF tables
    <3>4. /\ Start' = Start /\ Met' = Met /\ (Walking' <=> Walking)
          /\ NoMethods' = NoMethods /\ (Populating' <=> Populating)
      BY <3>1, <3>2 DEF Start, Met, Walking, NoMethods, Populating
    <3>5. M' \in Modules /\ TypeOK'
      BY <3>1, <3>2, <3>3 DEF IndInv, TypeOK
    <3>6. PhaseInv'
      BY <3>1, <3>2, <3>3, <3>4 DEF IndInv, PhaseInv
    <3>7. MetInv'
      <4>1. \A D : Ancestors(D)' = Ancestors(D)
        BY <3>1, SameModule
      <4>2. PICK s : s = Start
        OBVIOUS
      <4> QED BY <3>1, <3>2, <3>4, <4>1, <4>2 DEF IndInv, MetInv
    <3>8. LevelInv'
      <4>1. \A n, j : AtLevel(n, j)' <=> AtLevel(n, j)
        BY <3>1, <3>2, <3>4 DEF AtLevel
      <4> QED BY <3>1, <3>4, <4>1 DEF IndInv, LevelInv
    <3>9. SupersInv'
      BY <3>1, <3>2, <3>3, <3>4 DEF IndInv, SupersInv, TypesFor
    <3>10. MethodsInv'
      <4>1. PICK s : s = PublicConstMethods[current]
        OBVIOUS
      <4>2. \A S, F : Covered(S, F)' <=> Covered(S, F)
        BY <3>1 DEF Covered, isSameFunctionNameAndParams, FunctionName, IsConst,
                    isSameDemangleComponents
      <4>3. Walking => \A D \in Visited : DebugTypeToType[D] # NoType =>
               \A F \in ToSet(DirectPublicConstMethods[DebugTypeToType[D]]) : Covered(s, F)'
        BY <4>1, <4>2 DEF IndInv, MethodsInv
      <4>4. s = PublicConstMethods'[current']
        BY <3>1, <3>3, <4>1
      <4> QED BY <3>1, <3>2, <3>4, <4>3, <4>4 DEF MethodsInv
    <3>11. SlotsInv'
      BY <3>1, <3>2, <3>3, <3>4 DEF IndInv, SlotsInv, Defines, Nearest
    <3>12. SupertypesExact' /\ DispatchesToNearest'
      BY <3>1, <3>3, DoneStay DEF IndInv
    <3> QED BY <3>2, <3>5, <3>6, <3>7, <3>8, <3>9, <3>10, <3>11, <3>12 DEF IndInv
  <2> QED BY <2>1, <2>2, <2>3, <2>4, <2>5, <2>6, <2>7 DEF Next
<1> QED BY InitInv, <1>1, PTL DEF Spec

(* The tables have the types that TypeOK gives them, whatever the module.  *)
THEOREM TypeCorrect == Spec => []TypeOK
<1>1. IndInv => TypeOK
  BY DEF IndInv
<1> QED BY Tables, <1>1, PTL

(* populateNonDirect finds, for every known class above, the type that     *)
(* stands for it, and nothing else, in every hierarchy: diamonds, and      *)
(* cycles that no program has, among them.                                 *)
THEOREM SupertypesComplete == Spec => []SupertypesExact
<1>1. IndInv => SupertypesExact
  BY DEF IndInv
<1> QED BY Tables, <1>1, PTL

(* Each slot of a virtual table is filled from a nearest of the types that *)
(* stand for the classes, in every hierarchy and with any number of struct *)
(* types of a class.  That it has the type's own method is not claimed: it *)
(* does not where another struct type stands for the class.                *)
THEOREM SlotsNearest == Spec => []DispatchesToNearest
<1>1. IndInv => DispatchesToNearest
  BY DEF IndInv
<1> QED BY Tables, <1>1, PTL

(* A class queued twice is visited twice, to no effect.                    *)
THEOREM RevisitsIdle == Spec => RevisitIdle
<1>1. IndInv /\ [Next]_vars =>
          [current # NoType /\ Queue # <<>> /\ Head(Queue) \in Visited
              => UNCHANGED tables]_vars
  <2> SUFFICES ASSUME IndInv, [Next]_vars, current # NoType, Taken \in Visited
               PROVE  UNCHANGED tables
    BY DEF Taken
  <2>1. CASE VisitClass
    <3>1. Supertypes' = Supertypes
      <4>1. TypesOf(Added) \subseteq Supertypes[current]
        <5>1. ToSet(DirectSupertypes[Taken]) \subseteq Met
          BY DEF IndInv, MetInv, Walking
        <5>2. Start \in Seen
          <6>1. Start \in Visited \/ Queue = <<Start>>
            BY <2>1, VisitFacts DEF IndInv, MetInv, Walking
          <6>2. Queue = <<Start>> => Taken = Start
            BY DEF Taken
          <6> QED BY <6>1, <6>2 DEF Seen
        <5>3. ToSet(Added) \subseteq Met \ {Start}
          BY <2>1, <5>1, <5>2, VisitFacts
        <5>4. Supertypes[current] = TypesFor(Met \ {Start})
          BY DEF IndInv, SupersInv, Walking
        <5> QED BY <5>3, <5>4 DEF TypesOf, TypesFor
      <4>2. /\ Supertypes \in [Type -> SUBSET (Types \cup IgnoredTypes)]
            /\ Supertypes' = [Supertypes EXCEPT ![current] = @ \cup TypesOf(Added)]
        BY <2>1, VisitFacts DEF IndInv, TypeOK
      <4> QED BY <4>1, <4>2
    <3> DEFINE T == DebugTypeToType[Taken]
    <3>2. PublicConstMethods' = PublicConstMethods
      <4>1. CASE T = NoType
        BY <2>1, <4>1, VisitTables
      <4>2. CASE T # NoType
        <5> DEFINE old == PublicConstMethods[current]
        <5>1. /\ DirectPublicConstMethods[T] \in Seq(Function)
              /\ PublicConstMethods' = [PublicConstMethods EXCEPT
                    ![current] = Visible(old, DirectPublicConstMethods[T])]
              /\ PublicConstMethods \in [Type -> SUBSET Function]
              /\ current \in Type
          BY <2>1, <4>2, VisitTables
        <5>2. \A F \in ToSet(DirectPublicConstMethods[T]) : Covered(old, F)
          BY <4>2 DEF IndInv, MethodsInv, Walking
        <5>3. old \in SUBSET Function
          BY <5>1
        <5>4. Visible(old, DirectPublicConstMethods[T]) = old
          <6> HIDE DEF old, T
          <6> QED BY <5>1, <5>2, <5>3, VisibleProps
        <5> QED BY <5>1, <5>4
      <4> QED BY <4>1, <4>2
    <3>3. VTables' = VTables
      <4>1. CASE T = NoType
        BY <2>1, <4>1, VisitTables
      <4>2. CASE T # NoType
        <5> DEFINE old == VTables[current]
        <5>1. /\ DirectVirtualMethods[T] \in [Slot -> Function \cup {NoFunction}]
              /\ VTables' = [VTables EXCEPT
                    ![current] = VTableFrom(old, DirectVirtualMethods[T])]
              /\ VTables \in [Type -> [Slot -> Function \cup {NoFunction}]]
              /\ current \in Type
          BY <2>1, <4>2, VisitTables
        <5>2. ASSUME NEW i \in Slot, old[i] = NoFunction
              PROVE  DirectVirtualMethods[T][i] = NoFunction
          <6>1. \/ \A D \in Visited : ~Defines(D, i)
                \/ \E D \in Visited :
                      /\ Defines(D, i)
                      /\ old[i] = DirectVirtualMethods[DebugTypeToType[D]][i]
            BY DEF IndInv, SlotsInv, Walking
          <6>2. ~Defines(Taken, i)
            BY <5>2, <6>1 DEF Defines
          <6> QED BY <4>2, <6>2 DEF Defines
        <5>3. VTableFrom(old, DirectVirtualMethods[T]) = old
          <6>1. old \in [Slot -> Function \cup {NoFunction}]
            BY <5>1
          <6> HIDE DEF old, T
          <6> QED BY <5>2, <6>1 DEF VTableFrom
        <5> QED BY <5>1, <5>3
      <4> QED BY <4>1, <4>2
    <3> QED BY <3>1, <3>2, <3>3 DEF tables
  <2>2. CASE ~VisitClass
    BY <2>2 DEF Next, SkipFunction, IgnoredTypeFunction, AddMethod, StartType, EndType,
                vars, tables
  <2> QED BY <2>1, <2>2
<1> QED BY Tables, <1>1, PTL DEF Spec, RevisitIdle

-----------------------------------------------------------------------------
(* Which methods hide which.  The methods of a type are const and are      *)
(* listed at their own type only.                                          *)
DeclaredInv ==
    \A T \in Type : \A F \in ToSet(DirectPublicConstMethods[T]) :
        F \in ConstFunction /\ M.fn[F].type = T

ClassOf(G) == TypeToDebugType[M.fn[G].type]

(* The class of G is met at least as near to the start of the walk as D.   *)
NoFarther(G, D) ==
    \A m \in Nat : D \in Within[m][Start] => ClassOf(G) \in Within[m][Start]

ListedOrHidden(methods, F, D) ==
    \/ F \in methods
    \/ \E G \in methods : isSameFunctionNameAndParams(F, G) /\ NoFarther(G, D)

EmptyInv == \A T \in Type \ done : T # current => PublicConstMethods[T] = {}

(* The methods found come from the visited classes, none is there twice,   *)
(* and what is missing is hidden from at least as near.                    *)
FoundInv == Walking =>
    \A G \in PublicConstMethods[current] : G \in ConstFunction /\ ClassOf(G) \in Visited
ApartInv == Walking => Apart(PublicConstMethods[current])
HiddenInv == Walking =>
    \A D \in Visited : DebugTypeToType[D] # NoType =>
        \A F \in ToSet(DirectPublicConstMethods[DebugTypeToType[D]]) :
            ListedOrHidden(PublicConstMethods[current], F, D)

HideInv == /\ DeclaredInv
           /\ EmptyInv
           /\ FoundInv
           /\ ApartInv
           /\ HiddenInv
           /\ HidesOnlySame

LEMMA InitHide == Init => HideInv
<1> SUFFICES ASSUME Init PROVE HideInv
  OBVIOUS
<1>1. current = NoType /\ done = {}
  BY DEF Init
<1>2. DeclaredInv
  <2>1. \A T \in Type : ToSet(DirectPublicConstMethods[T]) = {}
    BY DEF Init, ToSet
  <2> QED BY <2>1 DEF DeclaredInv
<1>3. EmptyInv
  BY DEF Init, EmptyInv
<1>4. FoundInv /\ ApartInv /\ HiddenInv /\ HidesOnlySame
  BY <1>1 DEF FoundInv, ApartInv, HiddenInv, Walking, HidesOnlySame
<1> QED BY <1>2, <1>3, <1>4 DEF HideInv

(* What is said of the types whose walk is over depends on their tables    *)
(* and on the classes only.                                                *)
HiddenRight(T) ==
    \A S \in TypesAbove(T) :
        \A F \in { F \in ToSet(DirectPublicConstMethods[S]) : Plain(F) } :
            LET hides == { G \in PublicConstMethods[T] \ {F} : Overrides(G, F) }
            IN  /\ F \in PublicConstMethods[T] => hides = {}
                /\ F \notin PublicConstMethods[T] =>
                      \E G \in hides : AsNear(T, M.fn[G].type, S)

LEMMA SameSignatures ==
    ASSUME M' = M
    PROVE  /\ \A F : Plain(F)' <=> Plain(F)
           /\ \A F, G : Overrides(G, F)' <=> Overrides(G, F)
           /\ \A F, G : isSameFunctionNameAndParams(F, G)'
                            <=> isSameFunctionNameAndParams(F, G)
           /\ ConstFunction' = ConstFunction
           /\ \A S : Apart(S)' <=> Apart(S)
<1>1. Function' = Function
  BY DEF Function
<1>2. Builtin' = Builtin
  BY DEF Builtin
<1>3. isSameDemangleComponents' = isSameDemangleComponents
  BY DEF isSameDemangleComponents
<1>4. \A F : Plain(F)' <=> Plain(F)
  BY <1>1, <1>2 DEF Plain, FunctionName
<1>5. \A F, G : Overrides(G, F)' <=> Overrides(G, F)
  BY DEF Overrides, IsConst
<1>6. \A F, G : isSameFunctionNameAndParams(F, G)' <=> isSameFunctionNameAndParams(F, G)
  BY <1>3 DEF isSameFunctionNameAndParams, FunctionName, IsConst
<1>7. ConstFunction' = ConstFunction
  BY <1>1 DEF ConstFunction, IsConst
<1>8. \A S : Apart(S)' <=> Apart(S)
  BY <1>4, <1>5 DEF Apart
<1> QED BY <1>4, <1>5, <1>6, <1>7, <1>8

LEMMA HidesStay ==
    ASSUME M' = M, UNCHANGED direct, NEW T, HiddenRight(T),
           PublicConstMethods'[T] = PublicConstMethods[T]
    PROVE  HiddenRight(T)'
<1>1. /\ DebugType' = DebugType /\ TypeToDebugType' = TypeToDebugType
      /\ DirectPublicConstMethods' = DirectPublicConstMethods /\ Within' = Within
  BY SameModule
<1>2. \A S, R : AsNear(T, S, R)' <=> AsNear(T, S, R)
  BY <1>1 DEF AsNear
<1>3. \A F, G : (Plain(F)' <=> Plain(F)) /\ (Overrides(G, F)' <=> Overrides(G, F))
  BY SameSignatures
<1>4. TypesAbove(T)' = TypesAbove(T)
  BY SameModule
<1>5. PICK p : p = PublicConstMethods[T]
  OBVIOUS
<1> QED BY <1>1, <1>2, <1>3, <1>4 DEF HiddenRight

LEMMA HidesAre == HidesOnlySame <=> \A T \in done : HiddenRight(T)
BY DEF HidesOnlySame, HiddenRight

(* populateDirect lists a function at its own type; no walk has begun.     *)
LEMMA DirectHide ==
    ASSUME IndInv, HideInv, SkipFunction \/ IgnoredTypeFunction \/ AddMethod
    PROVE  HideInv'
<1>1. /\ Populating /\ M' = M /\ current' = current /\ done' = done /\ UNCHANGED tables
      /\ current = NoType /\ done = {} /\ Type' = Type
  BY DEF SkipFunction, IgnoredTypeFunction, AddMethod, IndInv, PhaseInv, Type
<1>2. DeclaredInv'
  <2>1. ConstFunction' = ConstFunction
    BY <1>1, SameSignatures
  <2>2. CASE DirectPublicConstMethods' = DirectPublicConstMethods
    BY <1>1, <2>1, <2>2 DEF HideInv, DeclaredInv
  <2>3. CASE DirectPublicConstMethods' # DirectPublicConstMethods
    <3> DEFINE T == M.fn[F0].type
    <3>1. /\ ~Skipped(M.fn[F0]) /\ IsConst(M.fn[F0])
          /\ DirectPublicConstMethods' = [DirectPublicConstMethods EXCEPT ![T] = Append(@, F0)]
      BY <2>3 DEF SkipFunction, IgnoredTypeFunction, AddMethod, direct
    <3>2. /\ T \in Type /\ F0 \in Function
          /\ DirectPublicConstMethods \in [Type -> Seq(Function)]
      BY <1>1, <3>1, AtHand DEF IndInv, TypeOK
    <3>3. F0 \in ConstFunction
      BY <3>1, <3>2 DEF ConstFunction
    <3>4. ToSet(Append(DirectPublicConstMethods[T], F0))
              = ToSet(DirectPublicConstMethods[T]) \cup {F0}
      BY <3>2, AppendMembers
    <3>5. ASSUME NEW U \in Type, NEW F \in ToSet(DirectPublicConstMethods'[U])
          PROVE  F \in ConstFunction /\ M.fn[F].type = U
      <4>1. CASE U = T
        BY <3>1, <3>2, <3>3, <3>4, <3>5, <4>1 DEF HideInv, DeclaredInv
      <4>2. CASE U # T
        <5>1. DirectPublicConstMethods'[U] = DirectPublicConstMethods[U]
          BY <3>1, <3>2, <4>2
        <5> QED BY <3>5, <5>1 DEF HideInv, DeclaredInv
      <4> QED BY <4>1, <4>2
    <3> QED BY <1>1, <2>1, <3>5 DEF DeclaredInv
  <2> QED BY <2>2, <2>3
<1>3. EmptyInv'
  BY <1>1 DEF HideInv, EmptyInv, tables
<1>4. FoundInv' /\ ApartInv' /\ HiddenInv' /\ HidesOnlySame'
  BY <1>1 DEF FoundInv, ApartInv, HiddenInv, Walking, HidesOnlySame
<1> QED BY <1>2, <1>3, <1>4 DEF HideInv

(* A walk begins with no methods. *)
LEMMA StartHide ==
    ASSUME IndInv, HideInv, NEW T \in Types, StartType(T)
    PROVE  HideInv'
<1>1. /\ current = NoType /\ current' = T /\ Visited' = {} /\ T \notin done
      /\ M' = M /\ UNCHANGED direct /\ done' = done /\ UNCHANGED tables
  BY DEF StartType
<1>2. /\ Type' = Type /\ DirectPublicConstMethods' = DirectPublicConstMethods
      /\ PublicConstMethods' = PublicConstMethods /\ Supertypes' = Supertypes
  BY <1>1, SameModule DEF tables
<1>3. T \in Type /\ PublicConstMethods[T] = {}
  <2>1. T \in Type /\ NoType \notin Type
    BY ModuleFacts DEF IndInv, TypeOK
  <2> QED BY <1>1, <2>1 DEF HideInv, EmptyInv
<1>4. DeclaredInv'
  <2>1. ConstFunction' = ConstFunction
    BY <1>1, SameSignatures
  <2> QED BY <1>1, <1>2, <2>1 DEF HideInv, DeclaredInv
<1>5. EmptyInv'
  <2>1. NoType \notin Type
    BY ModuleFacts DEF IndInv
  <2> QED BY <1>1, <1>2, <2>1 DEF HideInv, EmptyInv
<1>6. FoundInv' /\ ApartInv' /\ HiddenInv'
  BY <1>1, <1>2, <1>3 DEF FoundInv, ApartInv, HiddenInv, Apart
<1>7. HidesOnlySame'
  <2>1. \A U \in done : HiddenRight(U)
    BY HidesAre DEF HideInv
  <2>2. ASSUME NEW U \in done PROVE HiddenRight(U)'
    BY <1>1, <1>2, <2>1, HidesStay
  <2> QED BY <1>1, <2>2 DEF HidesOnlySame, HiddenRight
<1> QED BY <1>4, <1>5, <1>6, <1>7 DEF HideInv

(* All that is visited is at least as near as what is visited first now.   *)
LEMMA VisitNear ==
    ASSUME IndInv, VisitClass, Taken \notin Visited,
           NEW m \in Nat, Taken \in Within[m][Start]
    PROVE  Seen \subseteq Within[m][Start]
<1>1. PICK n \in Nat : \E j \in 1 .. Len(Queue) : AtLevel(n, j)
  BY NextLevel
<1>2. PICK j \in 1 .. Len(Queue) : AtLevel(n, j)
  BY <1>1
<1>3. ~(m < n)
  BY <1>2 DEF AtLevel
<1>4. n <= m
  BY <1>3
<1>5. Within[n][Start] \subseteq Within[m][Start]
  BY <1>4, VisitFacts, LevelsGrow
<1> QED BY <1>2, <1>5 DEF AtLevel, Seen

(* What VisitClass makes of the methods found so far.                      *)
LEMMA VisitFound ==
    ASSUME IndInv, HideInv, VisitClass,
           NEW old, old = PublicConstMethods[current],
           NEW new, new = PublicConstMethods'[current]
    PROVE  /\ old \subseteq new /\ new \subseteq ConstFunction
           /\ \A G \in new : ClassOf(G) \in Seen
           /\ Apart(new)
           /\ \A D \in Seen : DebugTypeToType[D] # NoType =>
                 \A F \in ToSet(DirectPublicConstMethods[DebugTypeToType[D]]) :
                     ListedOrHidden(new, F, D)
<1>1. /\ old \subseteq ConstFunction /\ \A G \in old : ClassOf(G) \in Visited
      /\ Apart(old)
      /\ \A D \in Visited : DebugTypeToType[D] # NoType =>
            \A F \in ToSet(DirectPublicConstMethods[DebugTypeToType[D]]) :
                ListedOrHidden(old, F, D)
  BY VisitFacts DEF HideInv, FoundInv, ApartInv, HiddenInv, Walking
<1>2. Visited \subseteq Seen
  BY DEF Seen
<1>3. CASE DebugTypeToType[Taken] = NoType
  <2>1. new = old
    BY <1>3, VisitTables
  <2> QED BY <1>1, <1>2, <1>3, <2>1 DEF Seen
<1>4. CASE DebugTypeToType[Taken] # NoType
  <2>1. PICK T \in Type : T = DebugTypeToType[Taken]
    BY <1>4, VisitTables
  <2>2. PICK fs \in Seq(Function) : fs = DirectPublicConstMethods[T]
    BY <1>4, <2>1, VisitTables
  <2>3. /\ new = Visible(old, fs)
        /\ old \in SUBSET Function
    <3>1. /\ PublicConstMethods \in [Type -> SUBSET Function] /\ current \in Type
          /\ PublicConstMethods' = [PublicConstMethods EXCEPT ![current] = Visible(@, fs)]
      BY <1>4, <2>1, <2>2, VisitTables
    <3> QED BY <3>1
  <2>4. /\ ToSet(fs) \subseteq ConstFunction
        /\ \A F \in ToSet(fs) : ClassOf(F) = Taken
    <3>1. TypeToDebugType[T] = Taken
      BY <1>4, <2>1, VisitFacts DEF IndInv, PairInv
    <3> QED BY <2>2, <3>1 DEF HideInv, DeclaredInv, ClassOf
  <2>5. fs \in Seq(ConstFunction)
    <3>1. \A i \in 1 .. Len(fs) : fs[i] \in ToSet(fs)
      BY DEF ToSet
    <3> QED BY <2>4, <3>1
  <2>6. /\ Apart(new) /\ new \subseteq old \cup ToSet(fs)
        /\ old \subseteq new /\ \A F \in ToSet(fs) : Covered(new, F)
    <3>1. M \in Modules
      BY DEF IndInv
    <3>2. old \in SUBSET ConstFunction /\ Apart(old)
      BY <1>1
    <3>3. Apart(Visible(old, fs)) /\ Visible(old, fs) \subseteq old \cup ToSet(fs)
      BY <2>5, <3>1, <3>2, VisibleApart
    <3>4. /\ old \subseteq Visible(old, fs)
          /\ \A F \in ToSet(fs) : Covered(Visible(old, fs), F)
      <4>1. old \in SUBSET Function
        BY <2>3
      <4> QED BY <4>1, VisibleProps
    <3> QED BY <2>3, <3>3, <3>4
  <2>7. new \subseteq ConstFunction /\ \A G \in new : ClassOf(G) \in Seen
    BY <1>1, <1>2, <2>4, <2>6 DEF Seen
  <2>8. ASSUME NEW D \in Visited, DebugTypeToType[D] # NoType,
               NEW F \in ToSet(DirectPublicConstMethods[DebugTypeToType[D]])
        PROVE  ListedOrHidden(new, F, D)
    BY <1>1, <2>6, <2>8 DEF ListedOrHidden
  <2>9. ASSUME Taken \notin Visited, NEW F \in ToSet(fs) PROVE ListedOrHidden(new, F, Taken)
    <3>1. ASSUME NEW G \in new PROVE NoFarther(G, Taken)
      BY <2>7, <2>9, VisitNear DEF NoFarther
    <3> QED BY <2>6, <3>1 DEF Covered, ListedOrHidden
  <2>10. \A D \in Seen : DebugTypeToType[D] # NoType =>
             \A F \in ToSet(DirectPublicConstMethods[DebugTypeToType[D]]) :
                 ListedOrHidden(new, F, D)
    <3>1. ASSUME NEW D \in Seen, DebugTypeToType[D] # NoType,
                 NEW F \in ToSet(DirectPublicConstMethods[DebugTypeToType[D]])
          PROVE  ListedOrHidden(new, F, D)
      <4>1. CASE D \in Visited
        BY <2>8, <3>1, <4>1
      <4>2. CASE D \notin Visited
        <5>1. D = Taken /\ F \in ToSet(fs)
          BY <2>1, <2>2, <3>1, <4>2 DEF Seen
        <5> QED BY <2>9, <4>2, <5>1
      <4> QED BY <4>1, <4>2
    <3> QED BY <3>1
  <2> QED BY <2>6, <2>7, <2>10
<1> QED BY <1>3, <1>4

LEMMA VisitHide ==
    ASSUME IndInv, HideInv, VisitClass
    PROVE  HideInv'
<1>1. /\ current' = current /\ current # NoType /\ current \in Type /\ done' = done
      /\ Visited' = Seen /\ Start' = Start
      /\ M' = M /\ UNCHANGED direct
  BY VisitFacts, VisitTables
<1>2. /\ Type' = Type /\ DirectPublicConstMethods' = DirectPublicConstMethods
      /\ DebugTypeToType' = DebugTypeToType /\ TypeToDebugType' = TypeToDebugType
      /\ Within' = Within
  BY <1>1, SameModule
<1>3. /\ ConstFunction' = ConstFunction
      /\ \A S : Apart(S)' <=> Apart(S)
      /\ \A F, G : isSameFunctionNameAndParams(F, G)' <=> isSameFunctionNameAndParams(F, G)
  BY <1>1, SameSignatures
<1>4. PICK new : new = PublicConstMethods'[current]
  OBVIOUS
<1>5. \A U \in Type : U # current => PublicConstMethods'[U] = PublicConstMethods[U]
  BY VisitTables
<1>6. /\ new \subseteq ConstFunction
      /\ \A G \in new : ClassOf(G) \in Seen
      /\ Apart(new)
      /\ \A D \in Seen : DebugTypeToType[D] # NoType =>
            \A F \in ToSet(DirectPublicConstMethods[DebugTypeToType[D]]) :
                ListedOrHidden(new, F, D)
  <2>1. PICK old : old = PublicConstMethods[current]
    OBVIOUS
  <2> QED BY <1>4, <2>1, VisitFound
<1>7. DeclaredInv'
  BY <1>1, <1>2, <1>3 DEF HideInv, DeclaredInv
<1>8. EmptyInv'
  BY <1>1, <1>2, <1>5 DEF HideInv, EmptyInv
<1>9. FoundInv'
  BY <1>1, <1>2, <1>3, <1>4, <1>6 DEF FoundInv, ClassOf
<1>10. ApartInv'
  BY <1>1, <1>3, <1>4, <1>6 DEF ApartInv
<1>11. HiddenInv'
  <2>1. \A G, D : NoFarther(G, D)' <=> NoFarther(G, D)
    BY <1>1, <1>2 DEF NoFarther, ClassOf
  <2>2. \A S, F, D : ListedOrHidden(S, F, D)' <=> ListedOrHidden(S, F, D)
    BY <1>3, <2>1 DEF ListedOrHidden
  <2> QED BY <1>1, <1>2, <1>4, <1>6, <2>2 DEF HiddenInv
<1>12. HidesOnlySame'
  <2>1. \A U \in done : HiddenRight(U)
    BY HidesAre DEF HideInv
  <2>2. ASSUME NEW U \in done PROVE HiddenRight(U)'
    <3>1. U \in Type /\ U # current
      BY <1>1 DEF IndInv, TypeOK, PhaseInv
    <3> QED BY <1>1, <1>5, <2>1, <3>1, HidesStay
  <2> QED BY <1>1, <2>2 DEF HidesOnlySame, HiddenRight
<1> QED BY <1>7, <1>8, <1>9, <1>10, <1>11, <1>12 DEF HideInv

(* When the walk is over all the classes of the type have been visited.    *)
LEMMA EndHide ==
    ASSUME IndInv, HideInv, EndType
    PROVE  HideInv'
<1>1. /\ current' = NoType /\ done' = done \cup {current}
      /\ M' = M /\ UNCHANGED direct /\ UNCHANGED tables
  BY DEF EndType
<1>2. /\ Type' = Type /\ DirectPublicConstMethods' = DirectPublicConstMethods
      /\ PublicConstMethods' = PublicConstMethods /\ Supertypes' = Supertypes
  BY <1>1, SameModule DEF tables
<1>3. PICK found : found = PublicConstMethods[current]
  OBVIOUS
<1>4. /\ \A G \in found : G \in ConstFunction
      /\ Apart(found)
      /\ \A D \in Visited : DebugTypeToType[D] # NoType =>
            \A F \in ToSet(DirectPublicConstMethods[DebugTypeToType[D]]) :
                ListedOrHidden(found, F, D)
  BY <1>3, WalkOver DEF HideInv, FoundInv, ApartInv, HiddenInv, Walking
<1>5. HiddenRight(current)
  <2> SUFFICES ASSUME NEW S \in TypesAbove(current),
                      NEW F \in ToSet(DirectPublicConstMethods[S]), Plain(F)
               PROVE  LET hides == { G \in found \ {F} : Overrides(G, F) }
                      IN  /\ F \in found => hides = {}
                          /\ F \notin found =>
                                \E G \in hides : AsNear(current, M.fn[G].type, S)
    BY <1>3 DEF HiddenRight
  <2>1. S \in TypesFor(Visited) /\ S \in Type
    <3>1. S \in TypesFor(Visited)
      BY WalkOver
    <3>2. Visited \subseteq DebugType /\ DebugTypeToType \in [DebugType -> Type \cup {NoType}]
      BY DEF IndInv, TypeOK
    <3> QED BY <3>1, <3>2 DEF TypesFor
  <2>2. PICK D \in Visited : S = DebugTypeToType[D] /\ TypeToDebugType[S] = D /\ S # NoType
    BY <2>1, WalkOver DEF TypesFor
  <2>3. F \in ConstFunction
    BY <2>1 DEF HideInv, DeclaredInv
  <2>4. F \in found => { G \in found \ {F} : Overrides(G, F) } = {}
    BY <1>4 DEF Apart
  <2>5. ASSUME F \notin found
        PROVE  \E G \in { G \in found \ {F} : Overrides(G, F) } : AsNear(current, M.fn[G].type, S)
    <3>1. PICK G \in found : isSameFunctionNameAndParams(F, G) /\ NoFarther(G, D)
      BY <1>4, <2>2, <2>5 DEF ListedOrHidden
    <3>2. Overrides(G, F) /\ G # F
      BY <1>4, <2>3, <2>5, <3>1, PlainCompare DEF IndInv
    <3>3. AsNear(current, M.fn[G].type, S)
      <4>1. 0 .. Cardinality(DebugType) \subseteq Nat
        OBVIOUS
      <4> QED BY <2>2, <3>1, <4>1 DEF AsNear, NoFarther, ClassOf, Start
    <3> QED BY <3>2, <3>3
  <2> QED BY <2>4, <2>5
<1>6. DeclaredInv'
  <2>1. ConstFunction' = ConstFunction
    BY <1>1, SameSignatures
  <2> QED BY <1>1, <1>2, <2>1 DEF HideInv, DeclaredInv
<1>7. EmptyInv'
  BY <1>1, <1>2 DEF HideInv, EmptyInv
<1>8. FoundInv' /\ ApartInv' /\ HiddenInv'
  BY <1>1 DEF FoundInv, ApartInv, HiddenInv, Walking
<1>9. HidesOnlySame'
  <2>1. \A U \in done : HiddenRight(U)
    BY HidesAre DEF HideInv
  <2>2. ASSUME NEW U \in done \cup {current} PROVE HiddenRight(U)'
    BY <1>1, <1>2, <1>5, <2>1, HidesStay
  <2> QED BY <1>1, <2>2 DEF HidesOnlySame, HiddenRight
<1> QED BY <1>6, <1>7, <1>8, <1>9 DEF HideInv

(* No public const method with a plain signature, of a type that stands    *)
(* for a class at or above a type's, is lost from the type's table but for *)
(* one of the same signature, at least as near, and none is there twice:   *)
(* in every hierarchy and beside any other methods.  Nothing is claimed of *)
(* signatures with class types or template arguments, nor of methods of a  *)
(* struct type that another one has replaced.                              *)
THEOREM HidesSame == Spec => []HidesOnlySame
<1>1. IndInv /\ HideInv /\ [Next]_vars => HideInv'
  <2> SUFFICES ASSUME IndInv, HideInv, [Next]_vars PROVE HideInv'
    OBVIOUS
  <2>1. CASE SkipFunction \/ IgnoredTypeFunction \/ AddMethod
    BY <2>1, DirectHide
  <2>2. CASE \E T \in Types : StartType(T)
    BY <2>2, StartHide
  <2>3. CASE VisitClass
    BY <2>3, VisitHide
  <2>4. CASE EndType
    BY <2>4, EndHide
  <2>5. CASE UNCHANGED vars
    <3>1. /\ M' = M /\ UNCHANGED direct /\ UNCHANGED tables
          /\ current' = current /\ Visited' = Visited /\ done' = done
      BY <2>5 DEF vars
    <3>2. /\ Type' = Type /\ DirectPublicConstMethods' = DirectPublicConstMethods
          /\ DebugTypeToType' = DebugTypeToType /\ TypeToDebugType' = TypeToDebugType
          /\ PublicConstMethods' = PublicConstMethods /\ Supertypes' = Supertypes
          /\ Within' = Within
      BY <3>1, SameModule DEF tables
    <3>3. /\ ConstFunction' = ConstFunction
          /\ \A S : Apart(S)' <=> Apart(S)
          /\ \A F, G : isSameFunctionNameAndParams(F, G)'
                           <=> isSameFunctionNameAndParams(F, G)
      BY <3>1, SameSignatures
    <3>4. PICK found : found = PublicConstMethods[current]
      OBVIOUS
    <3>5. found = PublicConstMethods'[current']
      BY <3>1, <3>2, <3>4
    <3>6. DeclaredInv' /\ EmptyInv'
      BY <3>1, <3>2, <3>3 DEF HideInv, DeclaredInv, EmptyInv
    <3>7. FoundInv'
      BY <3>1, <3>2, <3>3 DEF HideInv, FoundInv, Walking, ClassOf
    <3>8. ApartInv'
      BY <3>1, <3>3, <3>4, <3>5 DEF HideInv, ApartInv, Walking
    <3>9. HiddenInv'
      <4>1. \A G, D : NoFarther(G, D)' <=> NoFarther(G, D)
        BY <3>1, <3>2 DEF NoFarther, ClassOf, Start
      <4>2. \A S, F, D : ListedOrHidden(S, F, D)' <=> ListedOrHidden(S, F, D)
        BY <3>3, <4>1 DEF ListedOrHidden
      <4> QED BY <3>1, <3>2, <3>4, <3>5, <4>2 DEF HideInv, HiddenInv, Walking
    <3>10. HidesOnlySame'
      <4>1. \A U \in done : HiddenRight(U)
        BY HidesAre DEF HideInv
      <4>2. ASSUME NEW U \in done PROVE HiddenRight(U)'
        BY <3>1, <3>2, <4>1, HidesStay
      <4> QED BY <3>1, <4>2 DEF HidesOnlySame, HiddenRight
    <3> QED BY <3>6, <3>7, <3>8, <3>9, <3>10 DEF HideInv
  <2> QED BY <2>1, <2>2, <2>3, <2>4, <2>5 DEF Next
<1>2. HideInv => HidesOnlySame
  BY DEF HideInv
<1> QED BY InitHide, Tables, <1>1, <1>2, PTL DEF Spec
=============================================================================
