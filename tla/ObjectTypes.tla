---------------------------- MODULE ObjectTypes ----------------------------
(***************************************************************************)
(* The class loop with what the types it chooses are for: the object of    *)
(* each class is created for the methods of the class and handed from one  *)
(* to another, and every hand-off that has to find the class of a method   *)
(* inside the object runs the search of ClassQuery.                        *)
(***************************************************************************)
EXTENDS StructLayout

CONSTANTS Packages, SkippedName, Renamed118, ABIInfo

VARIABLES
    rest, at, Entry, i, PublicConstMethods, HasUnknownMethod, left, T, analysed,
    CurrentType,                           \* set by the loop, read by the object
    method, this, SubStruct, unreachable,  \* the object
    from, SuperTy, Q, result, place        \* the search: its T and at are from, place

(* What a list of the database has of a method.                            *)
MethodEntry == [id : STRING, body : {"absent", "empty", "defined"},
                debug : BOOLEAN, this : StructType]
ASSUME PackagesAssumption ==
    \A p \in Packages : p \in Seq([name : STRING, methods : Seq(MethodEntry)])

Loop == INSTANCE ClassSelection
Object == INSTANCE ThisObject
Search == INSTANCE SupertypeSearch WITH T <- from, at <- place

loopVars == <<rest, at, Entry, i, PublicConstMethods, HasUnknownMethod, left, T, analysed>>
objectVars == <<CurrentType, method, this, SubStruct, unreachable>>
searchVars == <<from, SuperTy, Q, result, place>>
vars == <<loopVars, objectVars, searchVars>>

Init ==
    /\ \E p \in Packages : rest = Loop!getPublicMethods(p)
    /\ at = "next" /\ Entry = Loop!NoEntry /\ i = 1
    /\ PublicConstMethods = {} /\ HasUnknownMethod = FALSE
    /\ left = {} /\ T = NoType /\ analysed = {}
    /\ Object!Init /\ Search!Init

(* Between Analyze and the next entry the class is analysed.               *)
InAnalysis == at = "next" /\ T # NoType
ThisTypes == { F.this : F \in analysed }

Select(A) == A /\ result = "idle" /\ ~unreachable /\ UNCHANGED <<objectVars, searchVars>>

Analyze ==
    /\ Loop!Analyze /\ Object!Begin(T)
    /\ result = "idle"
    /\ UNCHANGED searchVars

HandOff(S) == Object!createEmptyExceptThis(S) \/ Object!changeThis(S)

(* A hand-off to a method that has the type of the object or of its part.  *)
HandOver ==
    /\ InAnalysis /\ result = "idle"
    /\ \E S \in ThisTypes : ~Object!Searches(S) /\ HandOff(S)
    /\ UNCHANGED <<loopVars, searchVars>>

(* Any other calls getSupertypeIndices, and goes on when that returns.     *)
Call ==
    /\ InAnalysis /\ ~unreachable
    /\ \E S \in ThisTypes : Object!Searches(S) /\ Search!Call(Object!Holder, S)
    /\ UNCHANGED <<loopVars, objectVars>>

SearchStep == Search!Step /\ UNCHANGED <<loopVars, objectVars>>

Return ==
    /\ Search!Return
    /\ HandOff(SuperTy)
    /\ UNCHANGED loopVars

Done ==
    /\ result = "idle" /\ (unreachable \/ (at = "next" /\ rest = <<>>))
    /\ UNCHANGED vars

Next ==
    \/ Select(Loop!NextEntry) \/ Select(Loop!Collect) \/ Select(Loop!Collected)
    \/ Select(Loop!Filter) \/ Select(Loop!ChooseType) \/ Select(Loop!Chosen)
    \/ Select(Loop!ChooseAgain)
    \/ Analyze \/ HandOver \/ Call \/ SearchStep \/ Return \/ Done
Spec == Init /\ [][Next]_vars

-----------------------------------------------------------------------------
(* The types of the loop, of the search and of the object.                 *)
TypeOK == Loop!TypeOK /\ Search!TypeOK /\ Object!TypeOK

(* A class is analysed with all the methods the module has of it, but the  *)
(* DebugStrings, and only if each of them has a body (lines 144 to 313).   *)
WholeClasses == Loop!WholeClasses

(* In whatever order the set of methods is iterated, the object is of the  *)
(* type that holds the classes of all of them (lines 320 to 336).          *)
MostDerivedChosen == Loop!MostDerivedChosen

(* The search returns the place ThisObject reckons with: no acceptable one *)
(* is nearer, or equally near and to its left; it fails only if there is   *)
(* none (ClassQuery.cpp, lines 915 to 955).                                *)
FindsNearest == Search!FindsNearest

(* The search finds the base class itself, if layouts tell them apart.     *)
RightSubobject == Search!RightSubobject

(* In every method, however states came to it, virtual calls on `this' are *)
(* those of the class at hand, not of the base that declares the method.   *)
DispatchesAsWhole == Object!DispatchesAsWhole

(* Where `this' points does not depend on the methods that the state came  *)
(* through: the states that a method gets are about the same subobject,    *)
(* but for the class that ends every search.                               *)
PathIndependent == Object!PathIndependent

(* If one of the methods is of a class that holds the classes of all the   *)
(* others, each is found inside the object: "Supertype not found in        *)
(* struct" is not reached, in any order of methods and of hand-offs.       *)
AlwaysFound ==
    unreachable =>
        \/ \E S \in ThisTypes : NameOf[S] = Renamed118
        \/ ~\E S \in ThisTypes : \A R \in ThisTypes : Holds(S, R)
=============================================================================
