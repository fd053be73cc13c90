----------------------------- MODULE ThisObject -----------------------------
(***************************************************************************)
(* The object of the class at hand in the states that methods hand to each *)
(* other: createEmptyExceptThis and changeThis of Graph.h, for methods of  *)
(* the class itself and of its bases.  A node inside the object is known   *)
(* by its place, the sequence of element numbers that leads to it.         *)
(***************************************************************************)
EXTENDS StructLayout

CONSTANTS ABIInfo   \* the name of a class that ends every search

VARIABLES
    CurrentType,   \* of the object
    method,        \* struct type of the current method's `this', or NoType
    this,          \* place that `this' points to
    SubStruct,     \* for places: the place of the object they are part of
    unreachable    \* getSupertypeIndices has found nothing
vars == <<CurrentType, method, this, SubStruct, unreachable>>

(* Where SupertypeSearch finds the class S inside a T.                     *)
Fits(T, S) ==
    { p \in Places(T) : Accepts(TypeAt(T, p), S) \/ NameOf[TypeAt(T, p)] = ABIInfo }
getSupertypeIndices(T, S) ==
    CHOOSE p \in Fits(T, S) : ~\E q \in Fits(T, S) : Before(q, p)

Init ==
    /\ CurrentType = NoType /\ method = NoType /\ this = <<>>
    /\ SubStruct = [p \in {} |-> <<>>]
    /\ unreachable = FALSE

(* The class at hand becomes one of type T.                                *)
Begin(T) ==
    /\ ~unreachable
    /\ CurrentType' = T /\ method' = NoType /\ this' = <<>>
    /\ SubStruct' = [p \in {} |-> <<>>]
    /\ UNCHANGED unreachable

PartOf(p, whole) ==
    SubStruct' = [q \in DOMAIN SubStruct \cup {p} |->
                     IF q = p THEN whole ELSE SubStruct[q]]

createEmptyExceptThis(S) ==
    /\ CurrentType # NoType /\ method = NoType /\ ~unreachable
    /\ method' = S
    /\ IF S = CurrentType
       THEN this' = <<>> /\ UNCHANGED <<SubStruct, unreachable>>
       ELSE IF Fits(CurrentType, S) = {}
       THEN unreachable' = TRUE /\ UNCHANGED <<this, SubStruct>>
       ELSE /\ this' = getSupertypeIndices(CurrentType, S)
            /\ PartOf(this', <<>>)
            /\ UNCHANGED unreachable
    /\ UNCHANGED CurrentType

(* The place of the object that the node at p is part of.                  *)
Whole_Part(p) == p
Whole(p) == IF p \in DOMAIN SubStruct THEN SubStruct[p] ELSE p

(* The state of the method before is handed to one whose `this' is an S.   *)
changeThis_Unlinked(S) ==
    /\ method # NoType /\ ~unreachable
    /\ method' = S
    /\ LET w == Whole(this)
           W == TypeAt(CurrentType, w)
       IN  IF TypeAt(CurrentType, this) = S
           THEN UNCHANGED <<this, SubStruct, unreachable>>
           ELSE IF W = S THEN this' = w /\ UNCHANGED <<SubStruct, unreachable>>
           ELSE IF Fits(W, S) = {}
           THEN unreachable' = TRUE /\ UNCHANGED <<this, SubStruct>>
           ELSE this' = w \o getSupertypeIndices(W, S) /\ UNCHANGED <<SubStruct, unreachable>>
    /\ UNCHANGED CurrentType
changeThis_NoReturn(S) ==
    /\ method # NoType /\ ~unreachable
    /\ method' = S
    /\ LET w == Whole(this)
           W == TypeAt(CurrentType, w)
       IN  IF W = S \/ TypeAt(CurrentType, this) = S
           THEN UNCHANGED <<this, SubStruct, unreachable>>
           ELSE IF Fits(W, S) = {}
           THEN unreachable' = TRUE /\ UNCHANGED <<this, SubStruct>>
           ELSE /\ this' = w \o getSupertypeIndices(W, S)
                /\ PartOf(this', w)
                /\ UNCHANGED unreachable
    /\ UNCHANGED CurrentType
changeThis_FromPart(S) ==
    /\ method # NoType /\ ~unreachable
    /\ method' = S
    /\ LET w == Whole(this)
           W == TypeAt(CurrentType, w)
       IN  IF TypeAt(CurrentType, this) = S
           THEN UNCHANGED <<this, SubStruct, unreachable>>
           ELSE IF W = S
           THEN this' = w /\ UNCHANGED <<SubStruct, unreachable>>
           ELSE IF Fits(W, S) = {}
           THEN unreachable' = TRUE /\ UNCHANGED <<this, SubStruct>>
           ELSE /\ this' = this \o getSupertypeIndices(W, S)
                /\ PartOf(this', w)
                /\ UNCHANGED unreachable
    /\ UNCHANGED CurrentType
changeThis(S) ==
    /\ method # NoType /\ ~unreachable
    /\ method' = S
    /\ LET w == Whole(this)
           W == TypeAt(CurrentType, w)
       IN  IF TypeAt(CurrentType, this) = S
           THEN UNCHANGED <<this, SubStruct, unreachable>>
           ELSE IF W = S
           THEN this' = w /\ UNCHANGED <<SubStruct, unreachable>>
           ELSE IF Fits(W, S) = {}
           THEN unreachable' = TRUE /\ UNCHANGED <<this, SubStruct>>
           ELSE /\ this' = w \o getSupertypeIndices(W, S)
                /\ PartOf(this', w)
                /\ UNCHANGED unreachable
    /\ UNCHANGED CurrentType

(* The type in which a hand-off to an S searches, if it does.              *)
Holder == IF method = NoType THEN CurrentType ELSE TypeAt(CurrentType, Whole(this))
Searches(S) ==
    S # Holder /\ (method # NoType => TypeAt(CurrentType, this) # S)

Next == \E S \in StructType : Begin(S) \/ createEmptyExceptThis(S) \/ changeThis(S)
Spec == Init /\ [][Next]_vars

-----------------------------------------------------------------------------
TypeOK ==
    /\ CurrentType \in StructType \cup {NoType} /\ method \in StructType \cup {NoType}
    /\ CurrentType # NoType =>
          LET P == Places(CurrentType) \cup {<<>>}
          IN  /\ this \in P /\ DOMAIN SubStruct \subseteq P \ {<<>>}
              /\ \A p \in DOMAIN SubStruct : SubStruct[p] \in P
    /\ unreachable \in BOOLEAN

(* The class whose virtual table a call on `this' uses (run, on line 631). *)
DispatchType == TypeAt(CurrentType, Whole(this))

(* In every method, however states came to it, virtual calls on `this' are *)
(* those of the class at hand, not of the base that declares the method.   *)
DispatchesAsWhole ==
    method # NoType /\ ~unreachable => DispatchType = CurrentType

(* Where `this' points does not depend on the methods that the state came  *)
(* through: the states that a method gets are about the same subobject.    *)
(* The class that ends every search is an exception: where one has ended   *)
(* there for another class, changeThis stays there.                        *)
PathIndependent ==
    method # NoType /\ ~unreachable /\ NameOf[TypeAt(CurrentType, this)] # ABIInfo =>
        this = IF method = CurrentType THEN <<>>
               ELSE getSupertypeIndices(CurrentType, method)
=============================================================================
