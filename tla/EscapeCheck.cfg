CONSTANTS
    n1 = n1
    n2 = n2
    n3 = n3
    NoNode = NoNode
    Node <- MCNode
    Graphs <- MCGraphs
SPECIFICATION Spec
INVARIANTS TypeOK EscapesExact ReadBounds
CHECK_DEADLOCK FALSE
