---------------------------- MODULE EscapeCheck -----------------------------
(***************************************************************************)
(* What runMethod does with the graph that a pass over a method ends with, *)
(* before it becomes the state of the next methods: checkArgument and      *)
(* checkReturn report what of the object escapes and mark what the caller  *)
(* may read; then all that is left of the graph belongs to the object.     *)
(***************************************************************************)
EXTENDS Naturals, FiniteSets

CONSTANTS
    Node, NoNode,
    Graphs     \* [kind, kids, edges, this, read, args, ret, self]: kids are
               \* the pointee, fields or elements of a node, edges its this
               \* edges, this and read the sets of marked nodes, args, ret and
               \* self the nodes of the arguments, the return value and `this'

Kind == {"pointer", "struct", "sequential", "value"}
ASSUME GraphsAssumption ==
    /\ NoNode \notin Node /\ IsFiniteSet(Node)
    /\ Graphs \subseteq
          [kind : [Node -> Kind], kids : [Node -> SUBSET Node],
           edges : [Node -> SUBSET Node], this : SUBSET Node, read : SUBSET Node,
           args : SUBSET Node, ret : Node \cup {NoNode}, self : Node]
    /\ \A g \in Graphs : /\ g.read \subseteq g.this
                         /\ \A n \in Node : g.edges[n] \subseteq g.this

VARIABLES
    g,
    pc,             \* "args", "pointees", "reach", "return", "fixup", "done"
    args, Pointees, S,    \* what the three loops have still to visit
    IsThis, IsRead,
    issues
vars == <<g, pc, args, Pointees, S, IsThis, IsRead, issues>>

(* The nodes reached from n by any number of steps within the nodes in.    *)
From(n, in) ==
    LET reach[k \in 0 .. Cardinality(Node)] ==
          IF k = 0 THEN {n}
          ELSE reach[k - 1] \cup UNION { g.kids[m] : m \in reach[k - 1] \cap in }
    IN  reach[Cardinality(Node)]
getReachable(n) == From(n, Node)

(* Pointees of n or of the pointers that n holds, but not in its arrays.   *)
getAllPointees(n) ==
    UNION { g.kids[m] :
        m \in { m \in From(n, { s \in Node : g.kind[s] = "struct" }) :
                  g.kind[m] = "pointer" } }

(* setIsRead for nodes and the ends of their this edges.                   *)
Marked(N) == (N \cup UNION { g.edges[n] : n \in N }) \cap IsThis

Init ==
    /\ g \in Graphs
    /\ pc = "args" /\ args = g.args /\ Pointees = {} /\ S = {}
    /\ IsThis = g.this /\ IsRead = g.read
    /\ issues = {}

(* Nodes are visited in the order of their addresses: in any order.        *)
NextArgument ==
    /\ pc = "args"
    /\ \E A \in args : Pointees' = getAllPointees(A) /\ args' = args \ {A}
    /\ pc' = "pointees"
    /\ UNCHANGED <<g, S, IsThis, IsRead, issues>>

ArgumentsDone_AfterFirst ==
    /\ pc = "args" /\ (args = {} \/ args # g.args)
    /\ pc' = IF g.ret = NoNode THEN "fixup" ELSE "return"
    /\ UNCHANGED <<g, args, Pointees, S, IsThis, IsRead, issues>>
ArgumentsDone ==
    /\ pc = "args" /\ args = {}
    /\ pc' = IF g.ret = NoNode THEN "fixup" ELSE "return"
    /\ UNCHANGED <<g, args, Pointees, S, IsThis, IsRead, issues>>

NextPointee ==
    /\ pc = "pointees"
    /\ \E P \in Pointees :
          /\ IsRead' = IsRead \cup Marked({P})
          /\ S' = getReachable(P)
          /\ Pointees' = Pointees \ {P}
    /\ pc' = "reach"
    /\ UNCHANGED <<g, args, IsThis, issues>>

PointeesDone ==
    /\ pc = "pointees" /\ Pointees = {}
    /\ pc' = "args"
    /\ UNCHANGED <<g, args, Pointees, S, IsThis, IsRead, issues>>

(* A node of the object ends the loop; the break for one with a this edge  *)
(* ends only the loop over its edges.                                      *)
Reach_Return ==
    /\ pc = "reach"
    /\ \E R \in S :
          /\ issues' = issues \cup IF R \in IsThis \/ g.edges[R] # {}
                                   THEN {"ESCAPEARG"} ELSE {}
          /\ IF R \in IsThis \/ g.edges[R] # {}
             THEN S' = {} /\ Pointees' = {} /\ IsRead' = IsRead
             ELSE S' = S \ {R} /\ Pointees' = Pointees /\ IsRead' = IsRead \cup Marked({R})
    /\ UNCHANGED <<g, pc, args, IsThis>>
Reach_ThisOnly ==
    /\ pc = "reach"
    /\ \E R \in S :
          /\ issues' = issues \cup IF R \in IsThis THEN {"ESCAPEARG"} ELSE {}
          /\ IF R \in IsThis
             THEN S' = {} /\ IsRead' = IsRead
             ELSE S' = S \ {R} /\ IsRead' = IsRead \cup Marked({R})
    /\ UNCHANGED <<g, pc, args, Pointees, IsThis>>
Reach ==
    /\ pc = "reach"
    /\ \E R \in S :
          /\ issues' = issues \cup IF R \in IsThis \/ g.edges[R] # {}
                                   THEN {"ESCAPEARG"} ELSE {}
          /\ IF R \in IsThis
             THEN S' = {} /\ IsRead' = IsRead
             ELSE S' = S \ {R} /\ IsRead' = IsRead \cup Marked({R})
    /\ UNCHANGED <<g, pc, args, Pointees, IsThis>>

ReachDone ==
    /\ pc = "reach" /\ S = {}
    /\ pc' = "pointees"
    /\ UNCHANGED <<g, args, Pointees, S, IsThis, IsRead, issues>>

checkReturn ==
    /\ pc = "return"
    /\ LET R == getReachable(g.ret)
       IN  /\ IsRead' = IsRead \cup Marked(R)
           /\ issues' = issues \cup
                 IF g.kind[g.ret] = "pointer" /\ \E n \in R : n \in IsThis \/ g.edges[n] # {}
                 THEN {"ESCAPERET"} ELSE {}
    /\ pc' = "fixup"
    /\ UNCHANGED <<g, args, Pointees, S, IsThis>>

(* removeAllExcept and fixupThis.                                          *)
fixupThis(n) == IsThis \cup getReachable(n)
HandOff ==
    /\ pc = "fixup"
    /\ IsThis' = fixupThis(g.self)
    /\ pc' = "done"
    /\ UNCHANGED <<g, args, Pointees, S, IsRead, issues>>

Next == \/ NextArgument \/ ArgumentsDone \/ NextPointee \/ PointeesDone
        \/ Reach \/ ReachDone \/ checkReturn \/ HandOff
Spec == Init /\ [][Next]_vars

-----------------------------------------------------------------------------
TypeOK ==
    /\ pc \in {"args", "pointees", "reach", "return", "fixup", "done"}
    /\ args \subseteq g.args
    /\ pc # "reach" => S = {}
    /\ pc \notin {"reach", "pointees"} => Pointees = {}
    /\ pc \in {"return", "fixup", "done"} => args = {}
    /\ pc # "done" => IsThis = g.this
    /\ issues \subseteq {"ESCAPEARG", "ESCAPERET"}

(* What escapes, without regard to how the graph is walked: something of   *)
(* the object, or that a node of the object may be the same as, can be     *)
(* reached from what an argument points to, or from a returned pointer.    *)
Leaks(n) == \E m \in getReachable(n) : m \in g.this \/ g.edges[m] # {}
EscapesByArgument == \E A \in g.args : \E P \in getAllPointees(A) : Leaks(P)
EscapesByReturn == g.ret # NoNode /\ g.kind[g.ret] = "pointer" /\ Leaks(g.ret)

(* Issues are reported only for what escapes, and in the end all are,      *)
(* whatever the order of the addresses: the issues of a pass depend on its *)
(* state and method alone.                                                 *)
EscapesExact ==
    /\ "ESCAPEARG" \in issues => EscapesByArgument
    /\ "ESCAPERET" \in issues => EscapesByReturn
    /\ pc = "done" => /\ EscapesByArgument => "ESCAPEARG" \in issues
                      /\ EscapesByReturn => "ESCAPERET" \in issues

Ends(N) == (N \cup UNION { g.edges[n] : n \in N }) \cap g.this
ArgPointees == UNION { getAllPointees(A) : A \in g.args }
Returned == IF g.ret = NoNode THEN {} ELSE getReachable(g.ret)
(* Read for certain: what is returned, what arguments point to, and, from  *)
(* where the walk meets no node of the object, all it reaches.             *)
MustRead ==
    Ends(Returned) \cup Ends(ArgPointees)
    \cup UNION { Ends(getReachable(P)) :
                    P \in { P \in ArgPointees : getReachable(P) \cap g.this = {} } }
MayRead ==
    Ends(Returned) \cup Ends(ArgPointees)
    \cup UNION { Ends(getReachable(P)) : P \in ArgPointees }

(* The object's nodes that the caller gets to see are marked as read, and  *)
(* no others, before the state is handed on; where the walk stops early,   *)
(* what it marks depends on the order, within these bounds.                *)
ReadBounds ==
    /\ IsRead \subseteq g.read \cup MayRead
    /\ pc = "done" => MustRead \subseteq IsRead
=============================================================================
