---------------------------- MODULE ClassTables ----------------------------
(***************************************************************************)
(* ClassQuery::runOnModule of ClassQuery.cpp: the tables of types,         *)
(* supertypes, public const methods and virtual methods.  populateDirect   *)
(* goes once through the functions of the module; populateNonDirect then   *)
(* walks, for each type, breadth first over its supertypes.                *)
(*                                                                         *)
(* A SmallPtrSet with no more members than its inline size is iterated in  *)
(* the order of insertion, so sets whose order matters are sequences here. *)
(* A vector of functions, indexed by virtual slot, is a total function     *)
(* that is NoFunction where the vector is null or too short.               *)
(***************************************************************************)
EXTENDS Naturals, FiniteSets, SequencesExt

CONSTANTS
    Modules,       \* the modules that may be analysed, see ModuleOK
    NumSlots,      \* bound on the virtual slots of a class
    NoType,        \* a first argument that is not a pointer to a struct
    NoDebug,       \* the debug type of a type not met yet
    NoFunction,    \* a slot without a function
    NoSlot,        \* the slot of a method that is not virtual
    Null           \* a null demangle_component

VARIABLES
    M,             \* the module
    next,          \* populateDirect: the function to look at
    IgnoredTypes, Types, TypeToDebugType, DebugTypeToType, DirectSupertypes,
    AllMethods, DirectPublicConstMethods, DirectVirtualMethods,
    current,       \* populateNonDirect: its argument, or NoType
    Queue, Visited,
    done,          \* types whose populateNonDirect has returned
    Supertypes, PublicConstMethods, VTables

direct == <<IgnoredTypes, Types, TypeToDebugType, DebugTypeToType,
            DirectSupertypes, AllMethods, DirectPublicConstMethods,
            DirectVirtualMethods>>
tables == <<Supertypes, PublicConstMethods, VTables>>
vars == <<M, next, direct, current, Queue, Visited, done, tables>>

Slot == 0 .. NumSlots - 1
NoMethods == [i \in Slot |-> NoFunction]

(* The demangler's components are finite trees, each of some height, and   *)
(* two of them are the same when their type, value and parts are.          *)
Unary == {"CONST", "REFERENCE", "POINTER"}
Named == {"NAME", "SUB_STD"}
Valued == {"TEMPLATE_PARAM", "BUILTIN_TYPE"}
SameParts(c, d) ==
    /\ c.type = d.type
    /\ c.type \in Named \cup Valued => c.value = d.value
    /\ c.type \notin Named \cup Valued => c.left = d.left
    /\ c.type \notin Named \cup Valued \cup Unary => c.right = d.right
TreesOK(components, height) ==
    /\ height \in [components -> Nat]
    /\ \A c \in components \ {Null} :
          /\ c.type \notin Named \cup Valued =>
                c.left \in components /\ height[c.left] < height[c]
          /\ c.type \notin Named \cup Valued \cup Unary =>
                c.right \in components /\ height[c.right] < height[c]
          /\ \A d \in components \ {Null} : SameParts(c, d) => c = d

(* A module: its functions in order, what populateDirect asks of each, for *)
(* each debug type the elements of its definition, and the components that *)
(* its names demangle to.  In a module linked from several, the methods of *)
(* one class, by its debug type, may have struct types of different names. *)
ModuleOK(m) ==
    /\ TreesOK(m.components, m.height)
    /\ m.functions \in Seq(DOMAIN m.fn)
    /\ NoType \notin DOMAIN m.spelled
    /\ IsFiniteSet(DOMAIN m.elements)
    /\ \A D \in DOMAIN m.elements : m.elements[D] \in Seq(Range(m.elements[D]))
    /\ \A F \in DOMAIN m.fn :
          /\ m.fn[F].type \in DOMAIN m.spelled \cup {NoType}
          /\ m.fn[F].debug \in DOMAIN m.elements
          /\ m.fn[F].slot \in Slot \cup {NoSlot}
          /\ m.fn[F].this \in {"none", "plain", "volatile", "const"}
          /\ m.fn[F].params \in m.components
    /\ \A D \in DOMAIN m.elements : \A i \in DOMAIN m.elements[D] :
          m.elements[D][i].tag = "inheritance"
              => m.elements[D][i].base \in DOMAIN m.elements

ASSUME ClassTablesAssumption ==
    /\ NumSlots \in Nat \ {0}
    /\ \A m \in Modules : ModuleOK(m)

Type == DOMAIN M.spelled
DebugType == DOMAIN M.elements
Function == DOMAIN M.fn

-----------------------------------------------------------------------------
(* checkDefinition: the first retained variable of a method is this, and   *)
(* the type it points to says whether the method is const; an outer        *)
(* volatile is looked through.                                             *)
IsMethod(f) == f.this # "none"
IsConst(f) == f.this = "const"

(* isCtorOrDtor: a name that cannot be demangled counts as one.            *)
isCtorOrDtor(f) == f.kind \in {"ctor", "dtor", "undemangled"}

isIgnoredType(s) ==
    \/ s.keyword \notin {"class", "struct"}
    \/ s.scope \in {"std::", "__gnu_cxx::", "google::", "anon"}
    \/ s.keyword = "class" /\ s.scope = "codegen::style::structure::Module"

isDeclarationPublic(f) ==
    \/ f.access = "public"
    \/ f.access = "none" /\ M.spelled[f.type].keyword # "class"

(* getDemangleComponents: the name drops template arguments, a conversion  *)
(* is named by its target, and one to a const type has no name.            *)
FunctionName(f) ==
    IF f.name.kind = "conversion" /\ f.name.const THEN "" ELSE f.name.text

(* isSameDemangleComponents, on the trees of a function type.  strncmp is  *)
(* zero for equal names, and its result is returned as a bool.             *)
isSameDemangleComponents[c \in M.components] ==
    [d \in M.components |->
        IF c = Null \/ d = Null THEN c = d
        ELSE /\ c.type = d.type
             /\ CASE c.type \in Unary -> isSameDemangleComponents[c.left][d.left]
                  [] c.type \in Named -> c.len = d.len /\ c.value # d.value
                  [] c.type \in Valued -> c.value = d.value
                  [] OTHER -> /\ isSameDemangleComponents[c.left][d.left]
                              /\ isSameDemangleComponents[c.right][d.right]]

isSameFunctionNameAndParams_NameOnly(F, G) ==
    FunctionName(M.fn[F]) = FunctionName(M.fn[G])
isSameFunctionNameAndParams(F, G) ==
    LET f == M.fn[F]  g == M.fn[G]
    IN  /\ IsConst(f) = IsConst(g)
        /\ FunctionName(f) = FunctionName(g)
        /\ isSameDemangleComponents[f.params][g.params]

(* insertSupertypes: the bases come first among the elements of a type.    *)
IsBase(element) == element.tag = "inheritance"
Bases(elements) ==
    LET n == CHOOSE n \in 0 .. Len(elements) :
                /\ \A i \in 1 .. n : IsBase(elements[i])
                /\ n < Len(elements) => ~IsBase(elements[n + 1])
    IN  [i \in 1 .. n |-> elements[i].base]

-----------------------------------------------------------------------------
Init ==
    /\ M \in Modules
    /\ next = 1
    /\ IgnoredTypes = {} /\ Types = {}
    /\ TypeToDebugType = [T \in Type |-> NoDebug]
    /\ DebugTypeToType = [D \in DebugType |-> NoType]
    /\ DirectSupertypes = [D \in DebugType |-> <<>>]
    /\ AllMethods = <<>>
    /\ DirectPublicConstMethods = [T \in Type |-> <<>>]
    /\ DirectVirtualMethods = [T \in Type |-> NoMethods]
    /\ current = NoType /\ Queue = <<>> /\ Visited = {} /\ done = {}
    /\ Supertypes = [T \in Type |-> {}]
    /\ PublicConstMethods = [T \in Type |-> {}]
    /\ VTables = [T \in Type |-> NoMethods]

(* populateDirect, one function of the module per step.                    *)
Populating == next <= Len(M.functions)
F0 == M.functions[next]
Skipped(f) == f.empty \/ f.type = NoType \/ ~IsMethod(f) \/ isCtorOrDtor(f)

SkipFunction ==
    /\ Populating /\ Skipped(M.fn[F0])
    /\ next' = next + 1
    /\ UNCHANGED <<M, direct, current, Queue, Visited, done, tables>>

(* A second struct type of the same class takes the place of the first.    *)
Record(T, D) ==
    /\ TypeToDebugType' = [TypeToDebugType EXCEPT ![T] = D]
    /\ DebugTypeToType' = [DebugTypeToType EXCEPT ![D] = T]
    /\ DirectSupertypes' = [DirectSupertypes EXCEPT ![D] = Bases(M.elements[D])]
Known == UNCHANGED <<TypeToDebugType, DebugTypeToType, DirectSupertypes>>

IgnoredTypeFunction ==
    LET f == M.fn[F0] IN
    /\ Populating /\ ~Skipped(f) /\ isIgnoredType(M.spelled[f.type])
    /\ IgnoredTypes' = IgnoredTypes \cup {f.type}
    /\ IF f.type \in IgnoredTypes THEN Known ELSE Record(f.type, f.debug)
    /\ next' = next + 1
    /\ UNCHANGED <<M, Types, AllMethods, DirectPublicConstMethods,
                   DirectVirtualMethods, current, Queue, Visited, done, tables>>

AddMethod ==
    LET f == M.fn[F0]  T == f.type IN
    /\ Populating /\ ~Skipped(f) /\ ~isIgnoredType(M.spelled[T])
    /\ Types' = Types \cup {T}
    /\ IF T \in Types THEN Known ELSE Record(T, f.debug)
    /\ AllMethods' = Append(AllMethods, F0)
    /\ DirectPublicConstMethods' =
          IF IsConst(f) /\ isDeclarationPublic(f)
          THEN [DirectPublicConstMethods EXCEPT ![T] = Append(@, F0)]
          ELSE DirectPublicConstMethods
    /\ DirectVirtualMethods' =
          IF f.slot = NoSlot THEN DirectVirtualMethods
          ELSE [DirectVirtualMethods EXCEPT ![T][f.slot] = F0]
    /\ next' = next + 1
    /\ UNCHANGED <<M, IgnoredTypes, current, Queue, Visited, done, tables>>

(* populateNonDirect, one class of the queue per step.                     *)
StartType(T) ==
    /\ ~Populating /\ current = NoType
    /\ T \in Types \ done
    /\ current' = T
    /\ Queue' = <<TypeToDebugType[T]>>
    /\ Visited' = {}
    /\ UNCHANGED <<M, next, direct, done, tables>>

AddVisible(methods, F) ==
    IF \E G \in methods : isSameFunctionNameAndParams(F, G)
    THEN methods ELSE methods \cup {F}
Visible(methods, fs) ==
    LET after[n \in 0 .. Len(fs)] ==
            IF n = 0 THEN methods ELSE AddVisible(after[n - 1], fs[n])
    IN  after[Len(fs)]

VTableFrom_LastWins(table, methods) ==
    [i \in Slot |-> IF methods[i] # NoFunction THEN methods[i] ELSE table[i]]
VTableFrom_Appended(table, methods) ==
    LET n == Cardinality({ i \in Slot : table[i] # NoFunction })
    IN  [i \in Slot |-> IF i < n THEN table[i] ELSE methods[i - n]]
VTableFrom(table, methods) ==
    [i \in Slot |-> IF table[i] = NoFunction THEN methods[i] ELSE table[i]]

TypesOf_All(supers) == { DebugTypeToType[S] : S \in ToSet(supers) }
TypesOf(supers) == { DebugTypeToType[S] : S \in ToSet(supers) } \ {NoType}

(* A class that is the base of two visited ones is queued, and so visited, *)
(* twice: it is marked as visited only when it is taken from the queue.    *)
Unvisited_FirstOnly(D, seen) ==
    LET supers == DirectSupertypes[D]
    IN  IF supers = <<>> \/ Head(supers) \in seen THEN <<>> ELSE <<Head(supers)>>
Unvisited(D, seen) ==
    LET supers == DirectSupertypes[D]
        among[n \in 0 .. Len(supers)] ==
            IF n = 0 THEN <<>>
            ELSE IF supers[n] \in seen THEN among[n - 1]
            ELSE Append(among[n - 1], supers[n])
    IN  among[Len(supers)]

VisitClass ==
    /\ current # NoType /\ Queue # <<>>
    /\ LET D == Head(Queue)
           T == DebugTypeToType[D]
           seen == Visited \cup {D}
           supers == Unvisited(D, seen)
       IN  /\ Visited' = seen
           /\ Queue' = Tail(Queue) \o supers
           /\ Supertypes' = [Supertypes EXCEPT ![current] = @ \cup TypesOf(supers)]
           /\ IF T = NoType
              THEN UNCHANGED <<PublicConstMethods, VTables>>
              ELSE /\ PublicConstMethods' = [PublicConstMethods EXCEPT
                          ![current] = Visible(@, DirectPublicConstMethods[T])]
                   /\ VTables' = [VTables EXCEPT
                          ![current] = VTableFrom(@, DirectVirtualMethods[T])]
    /\ UNCHANGED <<M, next, direct, current, done>>

EndType ==
    /\ current # NoType /\ Queue = <<>>
    /\ done' = done \cup {current}
    /\ current' = NoType
    /\ UNCHANGED <<M, next, direct, Queue, Visited, tables>>

Finished == ~Populating /\ current = NoType /\ done = Types

Next ==
    \/ SkipFunction
    \/ IgnoredTypeFunction
    \/ AddMethod
    \/ \E T \in Types : StartType(T)
    \/ VisitClass
    \/ EndType
    \/ Finished /\ UNCHANGED vars

Spec == Init /\ [][Next]_vars
-----------------------------------------------------------------------------
TypeOK ==
    /\ next \in 1 .. Len(M.functions) + 1
    /\ IgnoredTypes \subseteq Type /\ Types \subseteq Type \ IgnoredTypes
    /\ TypeToDebugType \in [Type -> DebugType \cup {NoDebug}]
    /\ DebugTypeToType \in [DebugType -> Type \cup {NoType}]
    /\ DirectSupertypes \in [DebugType -> Seq(DebugType)]
    /\ AllMethods \in Seq(Function)
    /\ DirectPublicConstMethods \in [Type -> Seq(Function)]
    /\ DirectVirtualMethods \in [Type -> [Slot -> Function \cup {NoFunction}]]
    /\ current \in Types \cup {NoType} /\ done \subseteq Types
    /\ Queue \in Seq(DebugType) /\ Visited \subseteq DebugType
    /\ Supertypes \in [Type -> SUBSET (Types \cup IgnoredTypes)]
    /\ PublicConstMethods \in [Type -> SUBSET Function]
    /\ VTables \in [Type -> [Slot -> Function \cup {NoFunction}]]

(* The ancestors of a class, itself among them: what every set with it and *)
(* with the bases of its members contains.  A class none of whose methods  *)
(* is defined in the module has no bases here: nothing above it is         *)
(* inherited through it alone.                                             *)
Closed(S) == \A D \in S : ToSet(DirectSupertypes[D]) \subseteq S
Ancestors(D) ==
    { E \in DebugType : \A S \in SUBSET DebugType : D \in S /\ Closed(S) => E \in S }

(* The classes that chains of at most n bases lead to.                     *)
Within[n \in Nat] ==
    IF n = 0 THEN [D \in DebugType |-> {D}]
    ELSE LET nearer == Within[n - 1]
         IN  [D \in DebugType |-> nearer[D] \cup
                 UNION { ToSet(DirectSupertypes[E]) : E \in nearer[D] }]
AsNear(T, S, R) ==
    \A n \in 0 .. Cardinality(DebugType) :
        TypeToDebugType[R] \in Within[n][TypeToDebugType[T]]
            => TypeToDebugType[S] \in Within[n][TypeToDebugType[T]]

(* The struct types that stand for classes: of several types of one class  *)
(* the one recorded last, and the methods of the others are found for no   *)
(* type, not even their own.                                               *)
TypesFor(classes) == { DebugTypeToType[D] : D \in classes } \ {NoType}
TypesAbove(T) == TypesFor(Ancestors(TypeToDebugType[T]))

(* The supertypes of a type stand for all the known classes that some      *)
(* chain of bases leads to from its own, whatever the shape of the         *)
(* hierarchy, and for no other.                                            *)
SupertypesExact ==
    \A T \in done :
        LET D == TypeToDebugType[T]
        IN  Supertypes[T] = TypesFor(Ancestors(D) \ {D})

(* A signature whose name, as it is compared, is no other's, and whose     *)
(* parameters are built from builtin types.  Names of classes, and the     *)
(* template arguments and conversion targets of functions, are compared    *)
(* wrongly.                                                                *)
Builtin[c \in M.components] ==
    \/ c = Null
    \/ c.type = "BUILTIN_TYPE"
    \/ c.type \in Unary /\ Builtin[c.left]
    \/ /\ c.type \in {"FUNCTION_TYPE", "ARGLIST"}
       /\ Builtin[c.left] /\ Builtin[c.right]
Plain(F) == /\ \A G \in Function : FunctionName(M.fn[G]) = FunctionName(M.fn[F])
                                      => M.fn[G].name = M.fn[F].name
            /\ Builtin[M.fn[F].params]
Overrides(F, G) == /\ M.fn[F].name = M.fn[G].name
                   /\ M.fn[F].params = M.fn[G].params
                   /\ IsConst(M.fn[F]) = IsConst(M.fn[G])

(* The public const methods of a type are those of the types that stand    *)
(* for its class and those above, less those that one of the same name and *)
(* parameters, at least as near to the type, hides: none is lost without   *)
(* it and none is there twice.                                             *)
HidesOnlySame ==
    \A T \in done :
        \A S \in TypesAbove(T) :
            \A F \in { F \in ToSet(DirectPublicConstMethods[S]) : Plain(F) } :
                LET hides == { G \in PublicConstMethods[T] \ {F} : Overrides(G, F) }
                IN  /\ F \in PublicConstMethods[T] => hides = {}
                    /\ F \notin PublicConstMethods[T] =>
                          \E G \in hides : AsNear(T, M.fn[G].type, S)

(* A slot of the virtual table is the method of a type that stands for a   *)
(* class at or above the type's, defines it and is no farther than another *)
(* one, and it is empty only if none does: with one base and one struct    *)
(* type per class, what a virtual call would reach.                        *)
DispatchesToNearest ==
    \A T \in done : \A i \in Slot :
        LET Definers == { S \in TypesAbove(T) :
                            DirectVirtualMethods[S][i] # NoFunction }
        IN  IF Definers = {} THEN VTables[T][i] = NoFunction
            ELSE \E S \in Definers :
                    /\ VTables[T][i] = DirectVirtualMethods[S][i]
                    /\ \A R \in Definers : AsNear(T, S, R)

(* Visiting a class again, when two of its subclasses have queued it,      *)
(* changes nothing of what the first visit has found.                      *)
RevisitIdle ==
    [][current # NoType /\ Queue # <<>> /\ Head(Queue) \in Visited
          => UNCHANGED tables]_vars

(* What the comment of line 721 says of methods that meet in a slot of the *)
(* virtual table: the same index is the same name and parameters.          *)
SlotsAgree ==
    \A T \in done : \A S \in Supertypes[T] : \A i \in Slot :
        DirectVirtualMethods[S][i] # NoFunction
            => Overrides(VTables[T][i], DirectVirtualMethods[S][i])
=============================================================================
