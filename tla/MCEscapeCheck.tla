--------------------------- MODULE MCEscapeCheck ----------------------------
(* Graphs of three nodes: the first is an argument, the second or third    *)
(* may be another, returned or the object's.                               *)
EXTENDS EscapeCheck

CONSTANTS n1, n2, n3
MCNode == {n1, n2, n3}

Index == [n \in MCNode |-> IF n = n1 THEN 1 ELSE IF n = n2 THEN 2 ELSE 3]

(* Kinds and kids of a node: nothing is held by value inside itself.       *)
Holders == {"struct", "sequential"}
Shapes(n) ==
    { [kind |-> "pointer", kids |-> K] : K \in { {} } \cup { {m} : m \in MCNode } }
    \cup { [kind |-> k, kids |-> K] :
             k \in Holders, K \in (SUBSET (MCNode \ {n})) \ { {} } }
    \cup { [kind |-> "value", kids |-> {}] }
Shapings ==
    { f \in [MCNode -> UNION { Shapes(n) : n \in MCNode }] :
        /\ \A n \in MCNode : f[n] \in Shapes(n)
        /\ \A n, m \in MCNode :
              f[n].kind \in Holders /\ f[m].kind \in Holders /\ m \in f[n].kids
                  => Index[n] < Index[m] }

(* What belongs to the object, and what n2 may be the same as.             *)
Owned == { [this |-> t, same |-> {}, read |-> {}] : t \in { {}, {n2}, {n3}, {n2, n3} } }
         \cup { [this |-> {n3}, same |-> {n3}, read |-> r] : r \in { {}, {n3} } }

MCGraphs ==
    { [kind |-> [n \in MCNode |-> f[n].kind], kids |-> [n \in MCNode |-> f[n].kids],
       edges |-> [n \in MCNode |-> IF n = n2 THEN o.same ELSE {}],
       this |-> o.this, read |-> o.read, args |-> a, ret |-> r, self |-> n3] :
        f \in Shapings, o \in Owned, a \in { {n1}, {n1, n2} }, r \in {NoNode, n2} }
=============================================================================
