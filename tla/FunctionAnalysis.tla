-------------------------- MODULE FunctionAnalysis --------------------------
(***************************************************************************)
(* The dataflow engine of FunctionAnalysis.cpp: the worklist of basic      *)
(* blocks, the states kept on the edges of the control-flow graph, and the *)
(* passes that runMethod makes over a method, each of which ignores one    *)
(* edge into its only exit.                                                *)
(*                                                                         *)
(* A graph is the set of facts it admits (Graph::merge is union, equality  *)
(* is equivalent).  What the instructions of a block do to a graph, calls  *)
(* included, is a function of the record that describes the function under *)
(* analysis:                                                               *)
(*   size         its blocks are 1 .. size, block 1 is the entry           *)
(*   succ         succ[b]: the successors of b's terminator                *)
(*   unreachable  the blocks that end in an unreachable instruction        *)
(*   branches     the blocks that end in a conditional branch              *)
(*   effect       effect[b][s]: the state before the terminator of b       *)
(*   refine       refine[b][c][s]: refineBool of b's condition to c        *)
(***************************************************************************)
EXTENDS Naturals, Sequences, FiniteSets

CONSTANTS
    State,      \* the graphs, each the set of facts it admits
    Functions,  \* the functions under analysis
    Bottom,     \* a graph with IsBottom set
    Null        \* no graph: a null GraphPtr, no block, no edge

Value == State \cup {Bottom}

Entry == 1
Block(f) == 1 .. f.size
Edge(f) == Block(f) \X Block(f)

ASSUME FunctionAssumption ==
    /\ \A S \in SUBSET State : S # {} => UNION S \in State
    /\ Bottom \notin State
    /\ Null \notin Value
    /\ \A f \in Functions :
          /\ Null \notin Edge(f)
          /\ Null \notin Block(f)
          /\ f.size \in Nat \ {0}
          /\ f.succ \in [Block(f) -> Seq(Block(f) \ {Entry})]
          /\ f.unreachable \subseteq {b \in Block(f) : f.succ[b] = <<>>}
          /\ f.branches \subseteq {b \in Block(f) : Len(f.succ[b]) = 2}
          /\ f.effect \in [Block(f) -> [State -> Value]]
          /\ f.refine \in [Block(f) -> [BOOLEAN -> [State -> Value]]]

VARIABLES
    fn,        \* CurrentFunction
    initial,   \* Initial
    left,      \* the passes that have not started: <<predecessor, index>>
    ignored,   \* IgnoredEdge of the current pass
    results,   \* what getResult returned for the passes that have ended
    pc,        \* where run is
    worklist,  \* Worklist
    bb,        \* the block taken from it
    tries,     \* Tries
    maxTries,  \* MaxTries
    cur,       \* MutableState, before the terminator of bb
    next,      \* the index of handleTerminator's loop
    states,    \* States: the graph of each edge, Null where there is none
    exits      \* ExitStates, by block

input == <<fn, initial>>
passes == <<left, ignored, results>>
vars == <<input, passes, pc, worklist, bb, tries, maxTries, cur, next, states, exits>>

-----------------------------------------------------------------------------
(* getIgnoredEdges *)

Exits(f) == {b \in Block(f) : f.succ[b] = <<>>}
Preds(f, b) == {p \in Block(f) : \E i \in DOMAIN f.succ[p] : f.succ[p][i] = b}

Uses(f) == UNION {{p} \X DOMAIN f.succ[p] : p \in Block(f)}
UseEdge(f, u) == IF u = Null THEN Null ELSE <<u[1], f.succ[u[1]][u[2]]>>

(* A method with one exit, reached along two edges, is analysed twice,     *)
(* each time without one of them.  (X_y, here and below, is a variant of X *)
(* with a plausible mistake; the runs must notice it.)                     *)
MethodPasses_One(f) ==
    LET into == {u \in Uses(f) : f.succ[u[1]][u[2]] \in Exits(f)} IN
    IF Cardinality(Exits(f)) = 1 /\ Cardinality(into) = 2 THEN {CHOOSE u \in into : TRUE} ELSE {Null}

MethodPasses(f) ==
    LET into == {u \in Uses(f) : f.succ[u[1]][u[2]] \in Exits(f)} IN
    IF Cardinality(Exits(f)) = 1 /\ Cardinality(into) = 2 THEN into ELSE {Null}

-----------------------------------------------------------------------------
(* The states of the predecessors of a block. *)

Relevant(b) == {p \in Preds(fn, b) : <<p, b>> # ignored}

getPredOrInitialState(p, b) == IF states[<<p, b>>] = Null THEN initial ELSE states[<<p, b>>]

shouldWait(b) == \E p \in Relevant(b) : states[<<p, b>>] = Null

allBottomOrNull(b) == \A p \in Relevant(b) : states[<<p, b>>] \in {Bottom, Null}

(* The union of the predecessors' graphs; a predecessor without one stands *)
(* for Initial, and if none contributes the block is not reached.          *)
merge(b) ==
    LET from == {getPredOrInitialState(p, b) : p \in Relevant(b)} \ {Bottom} IN
    IF Preds(fn, b) = {} THEN initial
    ELSE IF from = {} THEN Bottom ELSE UNION from

(* run: the state before the first instruction of bb. *)
BlockState == IF tries = maxTries /\ allBottomOrNull(bb) THEN Bottom ELSE merge(bb)

Transfer(b, s) == IF s = Bottom THEN Bottom ELSE fn.effect[b][s]

(* getCurrentState: a conditional branch assumes its condition on the edge *)
(* to its first successor and the contrary on the other.                   *)
getCurrentState_Swapped(b, c, s) ==
    IF s = Bottom THEN Bottom
    ELSE IF b \in fn.branches THEN fn.refine[b][fn.succ[b][1] # c][s]
    ELSE s

getCurrentState(b, c, s) ==
    IF s = Bottom THEN Bottom
    ELSE IF b \in fn.branches THEN fn.refine[b][fn.succ[b][1] = c][s]
    ELSE s

addToWorklist(list, b) == IF \E i \in DOMAIN list : list[i] = b THEN list ELSE Append(list, b)

(* getResult: the union of the graphs at the returns that are reached. *)
getResult_NoFallback ==
    LET at == {exits[b] : b \in Block(fn) \ fn.unreachable} \ {Bottom, Null} IN
    IF at = {} THEN Null ELSE UNION at

getResult ==
    LET at == {exits[b] : b \in Block(fn) \ fn.unreachable} \ {Bottom, Null} IN
    IF at = {} THEN Bottom ELSE UNION at

-----------------------------------------------------------------------------
(* Any function, as a method that a task analyses (which runs its passes;  *)
(* one that has no exit at all has no first pass) or as a callee.          *)
Init ==
    /\ fn \in Functions
    /\ initial \in State
    /\ \/ Exits(fn) # {} /\ left = MethodPasses(fn)
       \/ left = {Null}
    /\ ignored = Null
    /\ results = {}
    /\ pc = "start"
    /\ worklist = <<>>
    /\ bb = Null
    /\ tries = 0
    /\ maxTries = 0
    /\ cur = Null
    /\ next = 1
    /\ states = [e \in Edge(fn) |-> Null]
    /\ exits = [b \in Block(fn) |-> Null]

(* The constructor and the first line of run. *)
StartPass(u) ==
    /\ pc = "start"
    /\ u \in left
    /\ left' = left \ {u}
    /\ ignored' = UseEdge(fn, u)
    /\ worklist' = <<Entry>>
    /\ states' = [e \in Edge(fn) |-> Null]
    /\ exits' = [b \in Block(fn) |-> Null]
    /\ pc' = "idle"
    /\ UNCHANGED <<input, results, bb, tries, maxTries, cur, next>>

TakeBlock_CountAfterPop ==
    /\ pc = "idle"
    /\ worklist # <<>>
    /\ maxTries' = Len(worklist) - 1
    /\ tries' = 0
    /\ bb' = Head(worklist)
    /\ worklist' = Tail(worklist)
    /\ pc' = "wait"
    /\ UNCHANGED <<input, passes, cur, next, states, exits>>

TakeBlock ==
    /\ pc = "idle"
    /\ worklist # <<>>
    /\ maxTries' = Len(worklist)
    /\ tries' = 0
    /\ bb' = Head(worklist)
    /\ worklist' = Tail(worklist)
    /\ pc' = "wait"
    /\ UNCHANGED <<input, passes, cur, next, states, exits>>

(* A block with a predecessor that has not been analysed goes to the back  *)
(* of the list, unless every block of the list has just been tried.        *)
Wait ==
    /\ pc = "wait"
    /\ shouldWait(bb)
    /\ tries < maxTries
    /\ LET list == addToWorklist(worklist, bb) IN
          /\ bb' = Head(list)
          /\ worklist' = Tail(list)
    /\ tries' = tries + 1
    /\ UNCHANGED <<input, passes, pc, maxTries, cur, next, states, exits>>

(* The block's instructions, up to its terminator. *)
Visit ==
    /\ pc = "wait"
    /\ ~shouldWait(bb) \/ tries = maxTries
    /\ cur' = Transfer(bb, BlockState)
    /\ next' = 1
    /\ pc' = "term"
    /\ UNCHANGED <<input, passes, worklist, bb, tries, maxTries, states, exits>>

handleExitTerminator ==
    /\ pc = "term"
    /\ fn.succ[bb] = <<>>
    /\ exits' = [exits EXCEPT ![bb] = cur]
    /\ cur' = Null
    /\ pc' = "idle"
    /\ UNCHANGED <<input, passes, worklist, bb, tries, maxTries, next, states>>

(* One turn of handleTerminator's loop. *)
handleSuccessor_UnseenOnly ==
    /\ pc = "term"
    /\ next <= Len(fn.succ[bb])
    /\ LET c == fn.succ[bb][next]
           current == getCurrentState(bb, c, cur) IN
          IF c \in fn.unreachable
          THEN UNCHANGED <<worklist, states>>
          ELSE /\ worklist' = IF states[<<bb, c>>] # Null THEN worklist
                              ELSE addToWorklist(worklist, c)
               /\ states' = [states EXCEPT ![<<bb, c>>] = current]
    /\ next' = next + 1
    /\ pc' = IF next = Len(fn.succ[bb]) THEN "idle" ELSE "term"
    /\ UNCHANGED <<input, passes, bb, tries, maxTries, cur, exits>>

handleSuccessor_AlwaysAdd ==
    /\ pc = "term"
    /\ next <= Len(fn.succ[bb])
    /\ LET c == fn.succ[bb][next]
           current == getCurrentState(bb, c, cur) IN
          IF c \in fn.unreachable
          THEN UNCHANGED <<worklist, states>>
          ELSE /\ worklist' = addToWorklist(worklist, c)
               /\ states' = [states EXCEPT ![<<bb, c>>] = current]
    /\ next' = next + 1
    /\ pc' = IF next = Len(fn.succ[bb]) THEN "idle" ELSE "term"
    /\ UNCHANGED <<input, passes, bb, tries, maxTries, cur, exits>>

handleSuccessor ==
    /\ pc = "term"
    /\ next <= Len(fn.succ[bb])
    /\ LET c == fn.succ[bb][next]
           current == getCurrentState(bb, c, cur) IN
          IF c \in fn.unreachable
          THEN UNCHANGED <<worklist, states>>
          ELSE /\ worklist' = IF states[<<bb, c>>] = current THEN worklist
                              ELSE addToWorklist(worklist, c)
               /\ states' = [states EXCEPT ![<<bb, c>>] = current]
    /\ next' = next + 1
    /\ pc' = IF next = Len(fn.succ[bb]) THEN "idle" ELSE "term"
    /\ UNCHANGED <<input, passes, bb, tries, maxTries, cur, exits>>

EndPass ==
    /\ pc = "idle"
    /\ worklist = <<>>
    /\ results' = results \cup {getResult}
    /\ pc' = IF left = {} THEN "done" ELSE "start"
    /\ UNCHANGED <<input, left, ignored, worklist, bb, tries, maxTries, cur, next, states, exits>>

Done == pc = "done" /\ UNCHANGED vars

Next == \/ \E u \in left : StartPass(u)
        \/ TakeBlock
        \/ Wait
        \/ Visit
        \/ handleExitTerminator
        \/ handleSuccessor
        \/ EndPass
        \/ Done

Spec == Init /\ [][Next]_vars
FairSpec == Spec /\ WF_vars(Next)
-----------------------------------------------------------------------------
TypeOK ==
    /\ initial \in State
    /\ left \subseteq Uses(fn) \cup {Null}
    /\ ignored \in Edge(fn) \cup {Null}
    /\ results \subseteq Value
    /\ pc \in {"start", "idle", "wait", "term", "done"}
    /\ worklist \in Seq(Block(fn))
    /\ bb \in Block(fn) \cup {Null}
    /\ tries \in Nat /\ maxTries \in Nat /\ next \in Nat \ {0}
    /\ cur \in Value \cup {Null}
    /\ states \in [Edge(fn) -> Value \cup {Null}]
    /\ exits \in [Block(fn) -> Value \cup {Null}]

(* The state on entry to b that the states of its in-edges determine, and  *)
(* the blocks that one of those edges has asked for.                       *)
InState(b) == IF Preds(fn, b) # {} /\ allBottomOrNull(b) THEN Bottom ELSE merge(b)

Demanded(b) == b = Entry \/ \E p \in Preds(fn, b) : states[<<p, b>>] # Null

(* What b recorded is what it would record if it were analysed again.      *)
Consistent(b) ==
    LET s == Transfer(b, InState(b)) IN
    /\ fn.succ[b] = <<>> => exits[b] = s
    /\ \A i \in DOMAIN fn.succ[b] :
          LET c == fn.succ[b][i] IN
          c \notin fn.unreachable => states[<<b, c>>] = getCurrentState(b, c, s)

(* When the list is empty every block that was asked for is consistent:    *)
(* the states, each of them overwritten at every visit, have become a      *)
(* solution of the dataflow equations, whatever the order of the visits.   *)
ListEmpty == pc = "idle" /\ worklist = <<>>
Solution == ListEmpty => \A b \in Block(fn) : Demanded(b) => Consistent(b)

(* A block is analysed with a predecessor missing, its state taken to be   *)
(* Initial or bottom, only when every block of the list waits too: the     *)
(* count of tries identifies a full turn of the list.                      *)
ForcedOnlyWhenAllWait ==
    pc = "wait" /\ tries = maxTries
        => /\ shouldWait(bb)
           /\ \A i \in DOMAIN worklist : shouldWait(worklist[i])

(***************************************************************************)
(* The reference: the graphs with which the paths of the function reach    *)
(* its blocks.                                                             *)
(***************************************************************************)
Step(r, i) ==
    LET s == Transfer(r[1], r[2]) IN
    <<fn.succ[r[1]][i], IF s # Bottom /\ r[1] \in fn.branches
                        THEN fn.refine[r[1]][i = 1][s] ELSE s>>
Follow(R) == R \cup UNION { {Step(r, i) : i \in DOMAIN fn.succ[r[1]]} : r \in R }

PathStatesIn[n \in Nat] == IF n = 0 THEN {<<Entry, initial>>} ELSE Follow(PathStatesIn[n - 1])
PathStates == PathStatesIn[fn.size * Cardinality(Value)]

(* What the analysis relies on: the effects are monotone, the two edges of *)
(* a conditional branch differ, and so do the edges of the two passes.     *)
Leq(s, t) == s = Bottom \/ (t # Bottom /\ s \subseteq t)
Monotone ==
    \A b \in Block(fn) : \A s, t \in State : s \subseteq t =>
        /\ Leq(fn.effect[b][s], fn.effect[b][t])
        /\ \A c \in BOOLEAN : Leq(fn.refine[b][c][s], fn.refine[b][c][t])
DistinctEdges ==
    /\ \A b \in fn.branches : fn.succ[b][1] # fn.succ[b][2]
    /\ \A u, v \in MethodPasses(fn) : u # v => UseEdge(fn, u) # UseEdge(fn, v)

(* Whatever path a method takes to a return, one of the results admits     *)
(* what is true there: the second pass makes up for what the first ignores,*)
(* and no path is lost to the blocks that were first given a guess.        *)
SoundResult ==
    pc = "done" /\ Monotone /\ DistinctEdges =>
        \A r \in PathStates :
            LET s == Transfer(r[1], r[2]) IN
            r[1] \in Exits(fn) \ fn.unreachable /\ s # Bottom
                => \E x \in results : x # Bottom /\ s \subseteq x

(* The passes end: although a state may shrink when a guess is replaced,   *)
(* no cycle of blocks keeps changing the states of its edges.              *)
Termination == <>(pc = "done")

(* The assertion of getResult, "Function analysis does not exit" (line     *)
(* 461).                                                                   *)
FunctionExits == ListEmpty => \E b \in Block(fn) : exits[b] # Null

(* The comment of merge (lines 168 to 169): if no predecessor contributes  *)
(* to the merge state, all the predecessors were bottom.                   *)
NothingMergedMeansBottom ==
    pc = "wait" /\ (~shouldWait(bb) \/ tries = maxTries) /\ merge(bb) = Bottom
        => \A p \in Preds(fn, bb) : states[<<p, bb>>] = Bottom
=============================================================================
