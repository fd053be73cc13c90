------------------------------ MODULE CallStack ------------------------------
(***************************************************************************)
(* The calls of FunctionAnalysis.cpp: run meets a call, handleCall decides *)
(* whether the callee is analysed in the caller's state (a FunctionAnalysis*)
(* whose ParentAnalysis is the caller's), skipped, or taken to be unknown, *)
(* and takes over the callee's result.                                     *)
(*                                                                         *)
(* FunctionAnalysis models the graph of one function; here a function is   *)
(* an entry block that switches to its blocks (or one block), each of them *)
(* ended by a return or by an unreachable instruction, in a build without  *)
(* assertions (getResult asserts an exit).  A Graph is the set             *)
(* of facts it admits (none: IsBottom) and the functions whose arguments   *)
(* or instructions its Mapping has nodes for.                              *)
(***************************************************************************)
EXTENDS Integers, FiniteSets, SequencesExt

CONSTANTS
    Func,       \* the functions of the program
    Fact,       \* what may be true of the memory at a point
    Effects,    \* the effects of straight-line instructions
    Programs,   \* the programs under analysis, functions on Func
    Null        \* no callee, no result

Graph == [facts : SUBSET Fact, mapped : SUBSET Func]

(* skip: isIgnoredInst, or a non-call of a virtual table; landing: a       *)
(* landing pad; callee: the function called, found through the virtual     *)
(* table if the call is virtual; match: the call has the callee's number   *)
(* of arguments.                                                           *)
Instruction ==
    [op : {"skip", "landing"}] \cup [op : {"visit"}, effect : Effects]
        \cup [op : {"call"}, callee : Func \cup {Null}, match : BOOLEAN]

(* kind: a name of handleCall's list of calls without effect, of its list  *)
(* of calls not to look into, or another.                                  *)
Function ==
    [kind : {"plain", "ignored", "opaque"},
     blocks : Seq([code : Seq(Instruction), end : {"return", "unreachable"}])]

ASSUME CallAssumption ==
    /\ Effects \subseteq [Fact -> SUBSET Fact]
    /\ Programs \subseteq [Func -> Function]
    /\ Null \notin Func \cup Graph
    /\ Fact # {}
    /\ IsFiniteSet(Func) /\ IsFiniteSet(Fact)

VARIABLES
    prog,     \* the program
    start,    \* the method analysed and its initial graph
    stack,    \* the analyses that are running, a callee after its caller
    result    \* what getResult returned for the method

vars == <<prog, start, stack, result>>

Top == Last(stack)
Caller == stack[Len(stack) - 1]

empty(f) == prog[f].blocks = <<>>
entryUnreachable(f) == Len(prog[f].blocks) = 1 /\ prog[f].blocks[1].end = "unreachable"

-----------------------------------------------------------------------------
(* One FunctionAnalysis: its function, Initial, the blocks that have not   *)
(* been analysed, the block and instruction it is at (no block: 0),        *)
(* MutableState and ExitStates.                                            *)

(* handleTerminator of the entry block asks for the blocks that do not end *)
(* in an unreachable instruction.                                          *)
Worklist(f) ==
    {b \in DOMAIN prog[f].blocks :
        Len(prog[f].blocks) = 1 \/ prog[f].blocks[b].end = "return"}

NewAnalysis(f, g) ==
    [fn |-> f, initial |-> g, worklist |-> Worklist(f), bb |-> 0, at |-> 1, state |-> g,
     exits |-> {}]

Code(t) == prog[t.fn].blocks[t.bb].code
AtInstruction == stack # <<>> /\ Top.bb # 0 /\ Top.at <= Len(Code(Top))
Ended(t) == t.bb = 0 /\ t.worklist = {}
I == Code(Top)[Top.at]

(* InstWorklist.push_back(++Iter) *)
Advance_PostIncrement(t) == t.at
Advance(t) == t.at + 1

After(g) == [Top EXCEPT !.state = g, !.at = Advance(Top)]
SetTop(t) == stack' = [stack EXCEPT ![Len(stack)] = t]

markIsBottom(g) == [g EXCEPT !.facts = {}]
Unknown(g) == [g EXCEPT !.facts = Fact]
eraseRelevant_Nothing(g, f) == g
eraseRelevant(g, f) == [g EXCEPT !.mapped = @ \ {f}]

visit(g, effect) ==
    [facts |-> UNION {effect[x] : x \in g.facts}, mapped |-> g.mapped \cup {Top.fn}]

(* The merge of the states at the returns that are reached.                *)
getResult(t) ==
    LET reached == {g \in t.exits : g.facts # {}}
    IN  [facts |-> UNION {g.facts : g \in reached}, mapped |-> UNION {g.mapped : g \in reached}]

isRecursive_Current(f) == Top.fn = f
isRecursive(f) == \E i \in DOMAIN stack : stack[i].fn = f

-----------------------------------------------------------------------------
(* run, one instruction at a time. *)

(* Each block starts in Initial, whatever the order of the blocks.         *)
TakeBlock(b) ==
    /\ stack # <<>>
    /\ Top.bb = 0
    /\ b \in Top.worklist
    /\ SetTop([Top EXCEPT !.bb = b, !.at = 1, !.state = Top.initial, !.worklist = @ \ {b}])
    /\ UNCHANGED <<prog, start, result>>

(* An instruction without effect, one that run skips because the state is  *)
(* bottom, or the start of exception handling code.                        *)
Pass ==
    /\ AtInstruction
    /\ \/ Top.state.facts = {} /\ SetTop(After(Top.state))
       \/ I.op = "skip" /\ SetTop(After(Top.state))
       \/ I.op = "landing" /\ SetTop(After(markIsBottom(Top.state)))
    /\ UNCHANGED <<prog, start, result>>

Visit ==
    /\ AtInstruction
    /\ Top.state.facts # {}
    /\ I.op = "visit"
    /\ SetTop(After(visit(Top.state, I.effect)))
    /\ UNCHANGED <<prog, start, result>>

AtCall == AtInstruction /\ Top.state.facts # {} /\ I.op = "call"

(* The calls that handleCall returns from at once, in the order in which   *)
(* it looks for them: a callee without a body is not asked for its blocks. *)
Ignored(c) ==
    /\ c.callee # Null
    /\ ~isRecursive(c.callee)
    /\ \/ prog[c.callee].kind = "ignored"
       \/ prog[c.callee].kind # "opaque" /\ ~empty(c.callee) /\ entryUnreachable(c.callee)

Analysed(c) ==
    /\ c.callee # Null
    /\ ~isRecursive(c.callee)
    /\ prog[c.callee].kind = "plain"
    /\ ~empty(c.callee)
    /\ ~entryUnreachable(c.callee)
    /\ c.match

IgnoredCall ==
    /\ AtCall
    /\ Ignored(I)
    /\ SetTop(After(Top.state))
    /\ UNCHANGED <<prog, start, result>>

handleUnknownCall_Skip ==
    /\ AtCall
    /\ ~Ignored(I)
    /\ ~Analysed(I)
    /\ SetTop(After(Top.state))
    /\ UNCHANGED <<prog, start, result>>

handleUnknownCall ==
    /\ AtCall
    /\ ~Ignored(I)
    /\ ~Analysed(I)
    /\ SetTop(After(Unknown(Top.state)))
    /\ UNCHANGED <<prog, start, result>>

(* The arguments are mapped in the caller's state, which is Initial of the *)
(* callee's analysis.                                                      *)
handleCall_AdvanceFirst ==
    /\ AtCall
    /\ Analysed(I)
    /\ LET g == [Top.state EXCEPT !.mapped = @ \cup {I.callee}] IN
          stack' = Append([stack EXCEPT ![Len(stack)].state = g, ![Len(stack)].at = Advance(Top)],
                          NewAnalysis(I.callee, g))
    /\ UNCHANGED <<prog, start, result>>

handleCall ==
    /\ AtCall
    /\ Analysed(I)
    /\ LET g == [Top.state EXCEPT !.mapped = @ \cup {I.callee}] IN
          stack' = Append([stack EXCEPT ![Len(stack)].state = g], NewAnalysis(I.callee, g))
    /\ UNCHANGED <<prog, start, result>>

handleExitTerminator ==
    /\ stack # <<>>
    /\ Top.bb # 0
    /\ Top.at > Len(Code(Top))
    /\ LET end == prog[Top.fn].blocks[Top.bb].end IN
          SetTop([Top EXCEPT !.bb = 0, !.state = Top.initial,
                             !.exits = IF end = "return" THEN @ \cup {Top.state} ELSE @])
    /\ UNCHANGED <<prog, start, result>>

(* The rest of handleCall: a callee that does not return makes the caller's*)
(* state bottom, otherwise its result replaces it, with the call mapped.   *)
Return_KeepState ==
    /\ Len(stack) > 1
    /\ Ended(Top)
    /\ LET r == getResult(Top)
           g == IF r.facts = {} THEN Caller.state
                ELSE [r EXCEPT !.mapped = @ \cup {Caller.fn}]
       IN  stack' = [Front(stack) EXCEPT ![Len(stack) - 1] =
                       [Caller EXCEPT !.state = eraseRelevant(g, Top.fn), !.at = Advance(Caller)]]
    /\ UNCHANGED <<prog, start, result>>

Return ==
    /\ Len(stack) > 1
    /\ Ended(Top)
    /\ LET r == getResult(Top)
           g == IF r.facts = {} THEN markIsBottom(Caller.state)
                ELSE [r EXCEPT !.mapped = @ \cup {Caller.fn}]
       IN  stack' = [Front(stack) EXCEPT ![Len(stack) - 1] =
                       [Caller EXCEPT !.state = eraseRelevant(g, Top.fn), !.at = Advance(Caller)]]
    /\ UNCHANGED <<prog, start, result>>

Finish ==
    /\ Len(stack) = 1
    /\ Ended(Top)
    /\ result' = getResult(Top)
    /\ stack' = <<>>
    /\ UNCHANGED <<prog, start>>

Done == result # Null /\ UNCHANGED vars

Init ==
    /\ prog \in Programs
    /\ \E f \in {f \in Func : ~empty(f)}, s \in (SUBSET Fact) \ {{}} :
          start = [fn |-> f, graph |-> [facts |-> s, mapped |-> {f}]]
    /\ stack = <<NewAnalysis(start.fn, start.graph)>>
    /\ result = Null

Next == \/ stack # <<>> /\ \E b \in Top.worklist : TakeBlock(b)
        \/ Pass
        \/ Visit
        \/ IgnoredCall
        \/ handleUnknownCall
        \/ handleCall
        \/ handleExitTerminator
        \/ Return
        \/ Finish
        \/ Done

Spec == Init /\ [][Next]_vars
FairSpec == Spec /\ WF_vars(Next)
-----------------------------------------------------------------------------
Analysis ==
    [fn : Func, initial : Graph, worklist : SUBSET Nat, bb : Nat, at : Nat, state : Graph,
     exits : SUBSET Graph]

(* The place that run is at is an instruction of a block of its function,  *)
(* or the block's end.                                                     *)
Placed(t) ==
    /\ t.worklist \subseteq DOMAIN prog[t.fn].blocks
    /\ t.bb # 0 => t.bb \in DOMAIN prog[t.fn].blocks /\ t.at \in 1 .. Len(Code(t)) + 1

TypeOK ==
    /\ prog \in Programs
    /\ start \in [fn : Func, graph : Graph]
    /\ stack \in Seq(Analysis)
    /\ \A i \in DOMAIN stack : Placed(stack[i])
    /\ result \in Graph \cup {Null}

(* No function is analysed inside its own analysis, however the functions  *)
(* call each other: the stack of analyses is as deep as there are          *)
(* functions at most, and run does not overflow the thread's stack.        *)
StackDistinct == \A i, j \in DOMAIN stack : i # j => stack[i].fn # stack[j].fn

(* A function is entered with none of its values mapped: the nodes of its  *)
(* arguments replace neither those of an analysis still running nor those  *)
(* that an earlier call has left.                                          *)
FreshMappings ==
    [][Len(stack') > Len(stack) => Last(stack').fn \notin Top.state.mapped]_vars

(***************************************************************************)
(* The reference: what may be true when a function returns, as the least   *)
(* solution of its recursive definition.                                   *)
(***************************************************************************)
(* What one instruction makes of the facts X, when <<f, x, y>> \in R says   *)
(* that f, called when x is true, may return with y true.                  *)
Execute(R, i, X) ==
    CASE i.op = "skip" -> X
      [] i.op = "landing" -> {}
      [] i.op = "visit" -> UNION {i.effect[x] : x \in X}
      [] i.op = "call" ->
           IF X = {} THEN {}
           ELSE IF i.callee = Null THEN Fact
           ELSE IF prog[i.callee].kind = "ignored" THEN X
           ELSE IF empty(i.callee) THEN Fact
           ELSE {r[3] : r \in {q \in R : q[1] = i.callee /\ q[2] \in X}}

(* What may be true after each number of instructions when x is true first.*)
Execution(R, code, x) ==
    LET may[n \in 0 .. Len(code)] ==
            IF n = 0 THEN {x} ELSE Execute(R, code[n], may[n - 1])
    IN  may

Outcomes(R, f, x) ==
    UNION { Execution(R, c.code, x)[Len(c.code)] :
              c \in {d \in ToSet(prog[f].blocks) : d.end = "return"} }

Improve(R) ==
    UNION { {<<d[1], d[2], y>> : y \in Outcomes(R, d[1], d[2])} : d \in Func \X Fact }

(* What may be true after at most n calls inside each other.               *)
ReturnsWithin[n \in Nat] == IF n = 0 THEN {} ELSE Improve(ReturnsWithin[n - 1])

Returns == ReturnsWithin[Cardinality(Func \X Fact \X Fact)]

Expected == {r[3] : r \in {q \in Returns : q[1] = start.fn /\ q[2] \in start.graph.facts}}

(* Whatever may be true when the method returns is admitted by the result, *)
(* recursive calls, cut short at the first repetition, included.           *)
SoundCalls == result # Null => Expected \subseteq result.facts

(* The calls of a function, and the functions of which every call, and     *)
(* every call that those make, is analysed, has no effect or is unknown    *)
(* for want of a body; no recursive function is among them.                *)
Calls(f) ==
    {c \in UNION {ToSet(prog[f].blocks[b].code) : b \in DOMAIN prog[f].blocks} : c.op = "call"}

FollowedIn(F, c) ==
    \/ c.callee = Null
    \/ prog[c.callee].kind = "ignored" /\ c.callee # start.fn
    \/ empty(c.callee)
    \/ /\ c.callee \in F
       /\ c.match
       /\ prog[c.callee].kind = "plain"
       /\ ~entryUnreachable(c.callee)

FollowedWithin[n \in Nat] ==
    IF n = 0 THEN {} ELSE {f \in Func : \A c \in Calls(f) : FollowedIn(FollowedWithin[n - 1], c)}

FollowedThrough == FollowedWithin[Cardinality(Func)]

(* Without recursion nothing is lost at the calls: each call of a function *)
(* is analysed in the state of that call, and the code after one that does *)
(* not return is not reached.                                              *)
ExactCalls ==
    result # Null /\ start.fn \in FollowedThrough => result.facts = Expected

(* The analysis of a recursive program ends.                               *)
Termination == <>(result # Null)
=============================================================================
