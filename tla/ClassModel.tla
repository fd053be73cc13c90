----------------------------- MODULE ClassModel -----------------------------
(***************************************************************************)
(* The vocabulary shared by the specification of what the analysis of a    *)
(* class promises (MethodFixpoint) and of how ImmutabilityAnalysis.cpp     *)
(* computes it (AnalyzeMethods).  The dataflow engine, which turns an      *)
(* initial state of a method into a result state, appears here only as     *)
(* Outcomes and Issue: nothing of the driver depends on how they are       *)
(* computed.  What is reported follows from the initial state              *)
(* (EscapesExact of EscapeCheck), but the state handed on does not:        *)
(* checkArgument marks nodes read in the order of a set of pointers and    *)
(* stops at its first issue (lines 561 to 587), so each run of a pass      *)
(* leaves one of several states.                                           *)
(***************************************************************************)
EXTENDS Naturals

CONSTANTS
    NumClasses,    \* classes that pass the filters of runOnModule, in order
    Method,        \* the public const methods of all of them
    MethodsOf,     \* MethodsOf[c]: the methods of class c (PublicConstMethods)
    State,         \* the graphs an initial or a final state can be
    Bottom,        \* the result of a run that reaches no exit block
    MoreSpecific,  \* <<s, t>>: s->moreSpecific(*t)
    FirstState,    \* FirstState[c][m]: createEmptyExceptThis for m's this
    ChangeThis,    \* ChangeThis[m][s]: a clone of s renamed to m's this
    TwoPass,       \* methods for which getIgnoredEdges returns two edges
    Outcomes,      \* Outcomes[m][s][p]: the states that runMethod can hand on
                   \* after pass p, none if it reaches no exit block
    IssueKind,     \* "ESCAPEARG", "ESCAPERET"
    Issue          \* Issue[m][s][p]: what checkArgument and checkReturn find

Class == 1 .. NumClasses

ASSUME ClassModelAssumption ==
    /\ NumClasses \in Nat \ {0}
    /\ MethodsOf \in [Class -> SUBSET Method]
    /\ Bottom \notin State
    /\ FirstState \in [Class -> [Method -> State]]
    /\ ChangeThis \in [Method -> [State -> State]]
    /\ TwoPass \subseteq Method
    /\ Outcomes \in [Method -> [State -> [1 .. 2 -> SUBSET State]]]
    /\ Issue \in [Method -> [State -> [1 .. 2 -> SUBSET IssueKind]]]

(* moreSpecific is asked of every pair of states; a graph is at least as   *)
(* specific as itself.                                                     *)
ASSUME ReflexiveAssumption == \A s \in State : <<s, s>> \in MoreSpecific

(* hasEquivalentInitialState: one of the states S makes x redundant.       *)
Covers_Swapped(S, x) == \E t \in S : <<t, x>> \in MoreSpecific
Covers(S, x) == \E t \in S : <<x, t>> \in MoreSpecific

(* iteration runs a method once, or once per ignored edge of its exit.     *)
NumPasses(m) == IF m \in TwoPass THEN 2 ELSE 1
Passes(m) == 1 .. NumPasses(m)

(* The class's methods start from their seeds; a state r handed on becomes *)
(* an initial state of each of them.                                       *)
Seeded(c, X) == \A n \in MethodsOf[c] : FirstState[c][n] \in X[n]
Absorbs(c, X, r) == \A n \in MethodsOf[c] : Covers(X[n], ChangeThis[n][r])
Holds(c, X, r) == \A n \in MethodsOf[c] : ChangeThis[n][r] \in X[n]

(* For each method of c, the states of done have been taken to their       *)
(* consequences: each pass over each of them has handed on one of its      *)
(* outcomes, which is redundant in done itself for every method.           *)
ClosedFor(c, done) ==
    /\ Seeded(c, done)
    /\ \A m \in MethodsOf[c] : \A s \in done[m] : \A p \in Passes(m) :
          Outcomes[m][s][p] # {} => \E r \in Outcomes[m][s][p] : Absorbs(c, done, r)

(* The rows an analysis of class c can write, and those that the analysis  *)
(* of the states of done writes.                                           *)
RowsOf(c) == [record : {c}, method : MethodsOf[c], kind : IssueKind]
IssuesOf(c, done) ==
    { i \in RowsOf(c) :
        \E s \in done[i.method] : \E p \in Passes(i.method) :
            /\ Outcomes[i.method][s][p] # {}
            /\ i.kind \in Issue[i.method][s][p] }

-----------------------------------------------------------------------------
(* The analysis without redundancy test, one method state after the other: *)
(* a bound for what the driver writes from either side.                    *)
Families(c) == [MethodsOf[c] -> SUBSET State]

(* Families of states, one set per method of c, that hold the seeds and    *)
(* all, respectively for each pass at least one, of what their own members *)
(* hand on.                                                                *)
HoldsAll(c, X) ==
    /\ Seeded(c, X)
    /\ \A m \in MethodsOf[c] : \A s \in X[m] : \A p \in Passes(m) :
          \A r \in Outcomes[m][s][p] : Holds(c, X, r)

HoldsSome(c, X) ==
    /\ Seeded(c, X)
    /\ \A m \in MethodsOf[c] : \A s \in X[m] : \A p \in Passes(m) :
          Outcomes[m][s][p] # {} => \E r \in Outcomes[m][s][p] : Holds(c, X, r)

(* The states that some choice of outcomes leads to, and the rows that     *)
(* every choice of outcomes writes, when no state is ever dropped.         *)
Possible ==
    [c \in Class |-> [n \in MethodsOf[c] |->
        { s \in State : \A X \in Families(c) : HoldsAll(c, X) => s \in X[n] }]]

CertainIssues ==
    [c \in Class |->
        { i \in RowsOf(c) : \A X \in Families(c) : HoldsSome(c, X) => i \in IssuesOf(c, X) }]

(***************************************************************************)
(* What moreSpecific is relied upon for: dropping a state because a more   *)
(* general one is known loses nothing.  The relation is transitive, and a  *)
(* more specific initial state reaches the exit of no more passes, has no  *)
(* more issues, and can leave a state more specific than any that the more *)
(* general one leaves.                                                     *)
(***************************************************************************)
MonotoneAnalysis ==
    /\ \A r, s, t \in State :
          <<r, s>> \in MoreSpecific /\ <<s, t>> \in MoreSpecific
              => <<r, t>> \in MoreSpecific
    /\ \A n \in Method : \A s, t \in State :
          <<s, t>> \in MoreSpecific
              => <<ChangeThis[n][s], ChangeThis[n][t]>> \in MoreSpecific
    /\ \A m \in Method : \A s, t \in State : \A p \in Passes(m) :
          <<s, t>> \in MoreSpecific /\ Outcomes[m][s][p] # {}
              => /\ Outcomes[m][t][p] # {}
                 /\ Issue[m][s][p] \subseteq Issue[m][t][p]
                 /\ \A u \in Outcomes[m][t][p] : \E r \in Outcomes[m][s][p] :
                       <<r, u>> \in MoreSpecific
=============================================================================
