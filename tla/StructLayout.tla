---------------------------- MODULE StructLayout ----------------------------
(***************************************************************************)
(* The struct types of a module and how C++ classes appear in them: a base *)
(* class is an element of its subclass, either as its full type or as a    *)
(* type with the suffix .base, without tail padding and virtual bases.     *)
(* ClassQuery.cpp and ImmutabilityAnalysis.cpp hold the same copy of       *)
(* isBaseType and findNonBaseType.                                         *)
(***************************************************************************)
EXTENDS Naturals, FiniteSets, SequencesExt

CONSTANTS
    StructType,    \* identified struct types
    Scalar,        \* all other element types
    NameOf,        \* [stem, base, number]: stem, ".base" if base, ".number" if > 0
    Elements,      \* Elements[T]: the element types of T
    NoType,        \* a null struct type
    Height         \* Height[T]: how deep structs nest in T

ASSUME StructLayoutAssumption ==
    /\ Elements \in [StructType -> Seq(StructType \cup Scalar)]
    /\ NameOf \in [StructType -> [stem : STRING, base : BOOLEAN, number : Nat]]
    /\ \A T, U \in StructType : NameOf[T] = NameOf[U] => T = U
    /\ NoType \notin StructType
    /\ \A T \in StructType : NameOf[T].stem \in {"class", "struct"} => NameOf[T].base

(* A class named base is not a base type, unless linking has renamed it.   *)
isBaseType(T) ==
    /\ NameOf[T].base
    /\ ~(NameOf[T].stem \in {"class", "struct"} /\ NameOf[T].number = 0)

(* findNonBaseType cuts the length of ".base" from the end of the name.    *)
(* What that leaves of a name that ends in a number names no type.         *)
findNonBaseType(B) ==
    LET found == { T \in StructType :
                      /\ NameOf[B].number = 0
                      /\ NameOf[T] = [NameOf[B] EXCEPT !.base = FALSE] }
    IN  IF found = {} THEN NoType ELSE CHOOSE T \in found : TRUE

StructElements(T) == { Elements[T][i] : i \in DOMAIN Elements[T] } \cap StructType

(* A struct holds its elements by value, and a class is complete before    *)
(* others derive from it: neither holds itself, at any depth.              *)
ASSUME NestingAssumption ==
    /\ Height \in [StructType -> Nat]
    /\ \A T \in StructType : \A S \in StructElements(T) :
          \A U \in {S, findNonBaseType(S)} \ {NoType} : Height[U] < Height[T]

(* addSubStructs: every struct inside T, and for a base type its class.    *)
(* The null of a base type without one is inserted too.                    *)
subStructs[T \in StructType] ==
    UNION { {S} \cup subStructs[S]
                \cup IF isBaseType(S) THEN {findNonBaseType(S)} ELSE {} :
            S \in StructElements(T) }
addSubStructs(T) == subStructs[T]

(* A base type stands for a class whose layout it is a prefix of.          *)
IsLayoutPrefix_LengthOnly(B, S) == Len(Elements[B]) <= Len(Elements[S])
IsLayoutPrefix(B, S) ==
    /\ Len(Elements[B]) <= Len(Elements[S])
    /\ \A i \in DOMAIN Elements[B] : Elements[B][i] = Elements[S][i]

(* isSupertype and getSupertypeIndices accept the element E for SuperTy.   *)
Accepts(E, SuperTy) ==
    \/ isBaseType(E) /\ IsLayoutPrefix(E, SuperTy)
    \/ E = SuperTy

-----------------------------------------------------------------------------
(* What these are relied upon for.  A place in a T is a nonempty sequence  *)
(* of element numbers, from 0, that leads to a struct inside it.           *)
places[T \in StructType] ==
    UNION { {<<i - 1>>} \cup { <<i - 1>> \o p : p \in places[Elements[T][i]] } :
            i \in { i \in DOMAIN Elements[T] : Elements[T][i] \in StructType } }
Places(T) == places[T]

(* The struct that is element n of S, and the one that p leads to in T.    *)
Element(S, n) ==
    IF S \in StructType /\ n + 1 \in DOMAIN Elements[S] /\ Elements[S][n + 1] \in StructType
    THEN Elements[S][n + 1] ELSE NoType
TypeAt(T, p) ==
    LET along[n \in 0 .. Len(p)] == IF n = 0 THEN T ELSE Element(along[n - 1], p[n])
    IN  along[Len(p)]

(* The type E is S or the base type of the class S: it has the name of S   *)
(* and the layout of S begins with it.                                     *)
StandsFor(E, S) ==
    \/ E = S
    \/ /\ NameOf[E].base /\ NameOf[E].stem = NameOf[S].stem /\ ~NameOf[S].base
       /\ IsPrefix(Elements[E], Elements[S])

(* An object of type T is one of the class S or has one inside, as S or as *)
(* its base type.  Types that linking has renamed, which end in a number,  *)
(* are left out of the latter: findNonBaseType cannot map them.            *)
Holds(T, S) ==
    \/ T = S
    \/ \E p \in Places(T) :
          LET E == TypeAt(T, p)
          IN  \/ E = S
              \/ StandsFor(E, S) /\ NameOf[E].number = 0 /\ NameOf[S].number = 0

(* No other base type in T has a layout that S begins with.                *)
Unambiguous(T, S) ==
    \A p \in Places(T) :
        LET E == TypeAt(T, p)
        IN  NameOf[E].base /\ IsPrefix(Elements[E], Elements[S]) => StandsFor(E, S)

(* p comes before q in the search: nearer, or equally near and to its left *)
Before(p, q) ==
    \/ Len(p) < Len(q)
    \/ /\ Len(p) = Len(q)
       /\ \E i \in DOMAIN p : /\ p[i] < q[i]
                              /\ \A j \in 1 .. i - 1 : p[j] = q[j]
=============================================================================
