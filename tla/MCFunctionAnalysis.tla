------------------------- MODULE MCFunctionAnalysis -------------------------
(***************************************************************************)
(* Families of functions for FunctionAnalysis.                             *)
(***************************************************************************)
EXTENDS FunctionAnalysis

OneFact == {{}, {1}}
TwoFacts == {{}, {1}, {2}, {1, 2}}

(* What a block may do to a graph: nothing, admit a fact, exclude it, pass *)
(* it on as another one, or end in bottom (a landing pad, a call that does *)
(* not return).                                                            *)
Effect(name, s) ==
    CASE name = "keep" -> s
      [] name = "gen"  -> s \cup {1}
      [] name = "kill" -> s \ {1}
      [] name = "move" -> IF 1 \in s THEN s \cup {2} ELSE s
      [] name = "dead" -> Bottom

(* A conditional branch excludes fact 1 on its false edge. *)
Refine(c, s) == IF c THEN s ELSE s \ {1}

Function(n, succ, unreachable, branches, effect) ==
    [size |-> n, succ |-> succ, unreachable |-> unreachable, branches |-> branches,
     effect |-> [b \in 1 .. n |-> [s \in State |-> Effect(effect[b], s)]],
     refine |-> [b \in 1 .. n |-> [c \in BOOLEAN |-> [s \in State |-> Refine(c, s)]]]]

(* Every control-flow graph of three blocks without parallel edges, with   *)
(* every choice of effects, and with or without conditional branches.      *)
Lists == {<<>>, <<2>>, <<3>>, <<2, 3>>, <<3, 2>>}
ThreeBlocks ==
    { Function(3, succ, {}, IF refined THEN {b \in 1 .. 3 : Len(succ[b]) = 2} ELSE {}, effect) :
        succ \in [1 .. 3 -> Lists], refined \in BOOLEAN,
        effect \in [1 .. 3 -> {"keep", "gen", "kill", "dead"}] }

(* Larger shapes. *)
Shapes == {
    [succ |-> <<<<2>>, <<3, 5>>, <<4>>, <<2>>, <<>>>>, br |-> {2}],              \* while loop
    [succ |-> <<<<2, 3>>, <<4>>, <<4>>, <<5, 2>>, <<>>>>, br |-> {1, 4}],        \* diamond in a loop
    [succ |-> <<<<2, 3>>, <<3, 4>>, <<2, 5>>, <<5>>, <<>>>>, br |-> {2}],        \* irreducible loop
    [succ |-> <<<<2>>, <<3>>, <<3, 4>>, <<2, 5>>, <<>>>>, br |-> {3, 4}],        \* nested loops
    [succ |-> <<<<2, 3>>, <<5>>, <<4, 5>>, <<>>, <<>>>>, br |-> {1}],            \* two exits
    [succ |-> <<<<2, 4>>, <<3>>, <<2, 4>>, <<5>>, <<5, 4>>>>, br |-> {1}],       \* no exit
    [succ |-> <<<<4, 5>>, <<4>>, <<2, 5>>, <<4, 5>>, <<>>>>, br |-> {1}] }       \* unreached blocks

ShapeFunctions ==
    { Function(5, x[1].succ, x[2], x[1].br, x[3]) :
        x \in {y \in Shapes \X {{}, {4}}
                     \X [1 .. 5 -> {"keep", "gen", "move", "dead"}] :
                 /\ \A b \in y[2] : y[1].succ[b] = <<>>
                 /\ y[3][1] = "keep" /\ y[3][5] = "keep"} }

AllFunctions == ThreeBlocks \cup ShapeFunctions

(* Functions whose only ways out are unreachable blocks (throws). *)
ThrowingFunctions ==
    { Function(4, <<<<2, 3>>, <<4>>, <<>>, <<>>>>, u, {1}, e) :
        u \in {{3, 4}, {4}}, e \in [1 .. 4 -> {"keep", "gen", "dead"}] }

(* Functions with two parallel edges into their only exit (two cases of a  *)
(* switch).                                                                *)
ParallelFunctions ==
    { Function(3, <<<<2>>, <<3, 3>>, <<>>>>, {}, {}, e) :
        e \in [1 .. 3 -> {"keep", "gen", "kill"}] }
=============================================================================
