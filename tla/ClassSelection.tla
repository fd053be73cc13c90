--------------------------- MODULE ClassSelection ---------------------------
(***************************************************************************)
(* The class loop of runOnModule (ImmutabilityAnalysis.cpp) up to its call *)
(* of analyzeMethods: which of the classes that the database lists are     *)
(* analysed, with which methods, and as objects of which type.             *)
(***************************************************************************)
EXTENDS StructLayout

CONSTANTS
    Packages,      \* sets of rows: sequences of [name, methods], by path
    SkippedName,   \* names of classes that runOnModule leaves out
    Renamed118     \* "class.Parser::Action.118"

(* A method is [id, body, debug, this]: what the module has under its name *)
(* ("absent", "empty" or "defined"), and whether the name has DebugString. *)
VARIABLES
    rest,          \* entries still to come
    at,            \* "next", "collect", "filter", "choose", "again", "analyze"
    Entry, i,      \* the entry at hand, and the number of its next method
    PublicConstMethods, HasUnknownMethod,
    left,          \* methods that the loop over the set has still to visit
    T,
    CurrentType,   \* of the last class analysed
    analysed       \* the methods of the last class analysed
vars == <<rest, at, Entry, i, PublicConstMethods, HasUnknownMethod, left, T,
          CurrentType, analysed>>

NoEntry == [name |-> "", methods |-> <<>>]

(* getPublicMethods drops records without public const methods.            *)
getPublicMethods(p) ==
    LET kept[n \in 0 .. Len(p)] ==
            IF n = 0 THEN <<>>
            ELSE IF p[n].methods # <<>> THEN Append(kept[n - 1], p[n])
            ELSE kept[n - 1]
    IN  kept[Len(p)]

Init ==
    /\ \E p \in Packages : rest = getPublicMethods(p)
    /\ at = "next" /\ Entry = NoEntry /\ i = 1
    /\ PublicConstMethods = {} /\ HasUnknownMethod = FALSE
    /\ left = {} /\ T = NoType /\ CurrentType = NoType /\ analysed = {}

NextEntry_KeepMethods ==
    /\ at = "next" /\ rest # <<>>
    /\ Entry' = Head(rest) /\ rest' = Tail(rest)
    /\ at' = "collect" /\ i' = 1 /\ T' = NoType
    /\ UNCHANGED <<PublicConstMethods, HasUnknownMethod, left, CurrentType, analysed>>
NextEntry ==
    /\ at = "next" /\ rest # <<>>
    /\ Entry' = Head(rest) /\ rest' = Tail(rest)
    /\ at' = "collect" /\ i' = 1
    /\ PublicConstMethods' = {} /\ HasUnknownMethod' = FALSE
    /\ T' = NoType
    /\ UNCHANGED <<left, CurrentType, analysed>>

(* One method of the entry: one without a body ends the loop.              *)
Collect_SkipEmpty ==
    /\ at = "collect" /\ i <= Len(Entry.methods)
    /\ LET ME == Entry.methods[i]
       IN  PublicConstMethods' =
              IF ME.body = "defined" /\ ~ME.debug
              THEN PublicConstMethods \cup {ME} ELSE PublicConstMethods
    /\ i' = i + 1
    /\ UNCHANGED <<rest, at, Entry, HasUnknownMethod, left, T, CurrentType, analysed>>
Collect ==
    /\ at = "collect" /\ i <= Len(Entry.methods)
    /\ LET ME == Entry.methods[i]
       IN  /\ HasUnknownMethod' = (ME.body = "empty")
           /\ at' = IF ME.body = "empty" THEN "filter" ELSE "collect"
           /\ PublicConstMethods' =
                 IF ME.body = "defined" /\ ~ME.debug
                 THEN PublicConstMethods \cup {ME} ELSE PublicConstMethods
    /\ i' = i + 1
    /\ UNCHANGED <<rest, Entry, left, T, CurrentType, analysed>>

Collected ==
    /\ at = "collect" /\ i > Len(Entry.methods)
    /\ at' = "filter"
    /\ UNCHANGED <<rest, Entry, i, PublicConstMethods, HasUnknownMethod, left, T,
                   CurrentType, analysed>>

NotWhole == PublicConstMethods = {} \/ HasUnknownMethod
Filter ==
    /\ at = "filter"
    /\ IF NotWhole \/ Entry.name \in SkippedName
       THEN at' = "next" /\ left' = left
       ELSE at' = "choose" /\ left' = PublicConstMethods
    /\ UNCHANGED <<rest, Entry, i, PublicConstMethods, HasUnknownMethod, T,
                   CurrentType, analysed>>

(* The set of methods is iterated in the order of insertion or, if it is   *)
(* large, of addresses: in any order.                                      *)
Choose_Last(F) == T' = F.this
Choose(F) ==
    T' = IF T = NoType \/ T \in addSubStructs(F.this) THEN F.this ELSE T

ChooseType ==
    /\ at = "choose"
    /\ \E F \in left : Choose(F) /\ left' = left \ {F}
    /\ UNCHANGED <<rest, at, Entry, i, PublicConstMethods, HasUnknownMethod,
                   CurrentType, analysed>>

Chosen ==
    /\ at = "choose" /\ left = {}
    /\ IF NameOf[T] = Renamed118
       THEN at' = "again" /\ left' = PublicConstMethods
       ELSE at' = "analyze" /\ left' = left
    /\ UNCHANGED <<rest, Entry, i, PublicConstMethods, HasUnknownMethod, T,
                   CurrentType, analysed>>

(* For that one name the loop takes any type that is not the one it has.   *)
ChooseAgain ==
    /\ at = "again"
    /\ IF left = {} THEN at' = "analyze" /\ UNCHANGED <<T, left>>
       ELSE \E F \in left : T' = F.this /\ left' = left \ {F} /\ at' = at
    /\ UNCHANGED <<rest, Entry, i, PublicConstMethods, HasUnknownMethod,
                   CurrentType, analysed>>

Analyze ==
    /\ at = "analyze"
    /\ CurrentType' = T /\ analysed' = PublicConstMethods
    /\ at' = "next"
    /\ UNCHANGED <<rest, Entry, i, PublicConstMethods, HasUnknownMethod, left, T>>

Done == at = "next" /\ rest = <<>> /\ UNCHANGED vars

Next == \/ NextEntry \/ Collect \/ Collected \/ Filter \/ ChooseType \/ Chosen
        \/ ChooseAgain \/ Analyze \/ Done
Spec == Init /\ [][Next]_vars

-----------------------------------------------------------------------------
TypeOK ==
    /\ at \in {"next", "collect", "filter", "choose", "again", "analyze"}
    /\ i \in 1 .. Len(Entry.methods) + 1
    /\ left \subseteq PublicConstMethods
    /\ PublicConstMethods \subseteq { Entry.methods[k] : k \in DOMAIN Entry.methods }
    /\ T \in StructType \cup {NoType} /\ CurrentType \in StructType \cup {NoType}
    /\ at = "analyze" => T \in StructType

(* A class is analysed with all the methods the module has of it, but the  *)
(* DebugStrings, and only if each of them has a body.                      *)
WholeClasses ==
    at = "analyze" =>
        LET all == { Entry.methods[k] : k \in DOMAIN Entry.methods }
            present == { ME \in all : ME.body # "absent" }
        IN  /\ \A ME \in present : ME.body = "defined"
            /\ PublicConstMethods = { ME \in present : ~ME.debug }

(* If one of the methods is of the most derived type, which holds all the  *)
(* others, the object analysed is of that type, in whatever order the set  *)
(* is iterated.  Only then does getSupertypeIndices find the object of     *)
(* every method inside it, rather than reach its llvm_unreachable.         *)
MostDerivedChosen ==
    at = "analyze" /\ (\A F \in PublicConstMethods : NameOf[F.this] # Renamed118) =>
        \A S \in { F.this : F \in PublicConstMethods } :
            (\A F \in PublicConstMethods : Holds(S, F.this)) => T = S
=============================================================================
