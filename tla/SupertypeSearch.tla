-------------------------- MODULE SupertypeSearch --------------------------
(***************************************************************************)
(* getSupertypeIndices of ClassQuery.cpp: the breadth first search for a   *)
(* class inside the layout of another, call by call.                       *)
(***************************************************************************)
EXTENDS StructLayout

CONSTANTS ABIInfo   \* the name of a class that ends every search

VARIABLES
    T, SuperTy,     \* the arguments of the call
    Q,              \* queue of [Ty, Idx]
    result,         \* "idle", "searching", "found" or "unreachable"
    at              \* the place found
vars == <<T, SuperTy, Q, result, at>>

Init == T = NoType /\ SuperTy = NoType /\ Q = <<>> /\ result = "idle" /\ at = <<>>

Call(t, s) ==
    /\ result = "idle"
    /\ T' = t /\ SuperTy' = s
    /\ Q' = <<[Ty |-> t, Idx |-> <<>>]>>
    /\ result' = "searching" /\ at' = <<>>

Struct(E, i) == Elements[E.Ty][i] \in StructType

(* The element i of the entry E ends the search.                           *)
Ends(E, i) ==
    /\ Struct(E, i)
    /\ \/ Accepts(Elements[E.Ty][i], SuperTy)
       \/ NameOf[Elements[E.Ty][i]] = ABIInfo

Hit ==
    /\ result = "searching" /\ Q # <<>>
    /\ LET E == Head(Q) IN
       \E i \in DOMAIN Elements[E.Ty] :
          /\ Ends(E, i)
          /\ \A j \in 1 .. i - 1 : ~Ends(E, j)
          /\ at' = Append(E.Idx, i - 1)
    /\ result' = "found"
    /\ UNCHANGED <<T, SuperTy, Q>>

(* The structs among the elements of E, each with its place.               *)
Entered(E) ==
    LET entered[i \in 0 .. Len(Elements[E.Ty])] ==
            IF i = 0 THEN <<>>
            ELSE IF Struct(E, i)
            THEN Append(entered[i - 1],
                        [Ty |-> Elements[E.Ty][i], Idx |-> Append(E.Idx, i - 1)])
            ELSE entered[i - 1]
    IN  entered[Len(Elements[E.Ty])]

Descend_Depth ==
    /\ result = "searching" /\ Q # <<>>
    /\ LET E == Head(Q) IN
       /\ \A i \in DOMAIN Elements[E.Ty] : ~Ends(E, i)
       /\ Q' = Entered(E) \o Tail(Q)
    /\ UNCHANGED <<T, SuperTy, result, at>>
Descend ==
    /\ result = "searching" /\ Q # <<>>
    /\ LET E == Head(Q) IN
       /\ \A i \in DOMAIN Elements[E.Ty] : ~Ends(E, i)
       /\ Q' = Tail(Q) \o Entered(E)
    /\ UNCHANGED <<T, SuperTy, result, at>>

Exhausted ==
    /\ result = "searching" /\ Q = <<>>
    /\ result' = "unreachable"
    /\ UNCHANGED <<T, SuperTy, Q, at>>

Return ==
    /\ result \in {"found", "unreachable"}
    /\ T' = NoType /\ SuperTy' = NoType /\ Q' = <<>> /\ result' = "idle" /\ at' = <<>>

Step == Hit \/ Descend \/ Exhausted
Next == Return \/ Step \/ \E t, s \in StructType : Call(t, s)
Spec == Init /\ [][Next]_vars

-----------------------------------------------------------------------------
TypeOK ==
    /\ result \in {"idle", "searching", "found", "unreachable"}
    /\ IF result = "idle"
       THEN T = NoType /\ SuperTy = NoType /\ Q = <<>> /\ at = <<>>
       ELSE /\ T \in StructType /\ SuperTy \in StructType
            /\ \A i \in DOMAIN Q : /\ Q[i].Idx \in Places(T) \cup {<<>>}
                                   /\ Q[i].Ty = TypeAt(T, Q[i].Idx)
            /\ at \in Places(T) \cup {<<>>}

(* The places that end the search: those that stand for SuperTy, as far as *)
(* the code can tell, and the class it makes an exception for.             *)
Acceptable ==
    { p \in Places(T) :
        Accepts(TypeAt(T, p), SuperTy) \/ NameOf[TypeAt(T, p)] = ABIInfo }

(* The place found is acceptable and no acceptable one comes before it;    *)
(* "Supertype not found in struct" is reached only if nothing inside the   *)
(* type is acceptable, at any depth.                                       *)
FindsNearest ==
    /\ result = "found" => /\ at \in Acceptable
                           /\ ~\E p \in Acceptable : Before(p, at)
    /\ result = "unreachable" => Acceptable = {}

(* The place found is the base class itself, if the layouts of the other   *)
(* base classes tell them apart.                                           *)
RightSubobject ==
    /\ result = "found" /\ NameOf[TypeAt(T, at)] # ABIInfo
    /\ Unambiguous(T, SuperTy)
    => StandsFor(TypeAt(T, at), SuperTy)
=============================================================================
