--------------------------- MODULE CallStackProofs ---------------------------
(***************************************************************************)
(* Proofs about CallStack, for every program, set of facts and effects.    *)
(***************************************************************************)
EXTENDS CallStack, NaturalsLemmas, FiniteSetTheorems, TLAPS

(* The functions that are being analysed, from the method to the k-th.     *)
OnStack(k) == {stack[j].fn : j \in 1 .. k}

(* An analysis has values mapped for the functions up to its own only,     *)
(* except that it has mapped the arguments of the call it waits for.       *)
Mapped ==
    \A k \in DOMAIN stack :
        /\ stack[k].initial.mapped \subseteq OnStack(k)
        /\ \A g \in stack[k].exits : g.mapped \subseteq OnStack(k)
        /\ stack[k].state.mapped \subseteq
              IF k = Len(stack) THEN OnStack(k) ELSE OnStack(k + 1)

(* An analysis that waits for a call has not reached the end of its block. *)
Waiting ==
    \A k \in DOMAIN stack : k < Len(stack) =>
        stack[k].bb # 0 /\ stack[k].at <= Len(Code(stack[k]))

IInv == TypeOK /\ StackDistinct /\ Mapped /\ Waiting

-----------------------------------------------------------------------------
(* What the program's text is made of. *)

Blocks == [code : Seq(Instruction), end : {"return", "unreachable"}]

LEMMA ProgramType ==
    ASSUME prog \in Programs, NEW f \in Func
    PROVE  /\ prog[f].blocks \in Seq(Blocks)
           /\ DOMAIN prog[f].blocks = 1 .. Len(prog[f].blocks)
           /\ \A b \in DOMAIN prog[f].blocks :
                 /\ prog[f].blocks[b].code \in Seq(Instruction)
                 /\ Len(prog[f].blocks[b].code) \in Nat
<1>1. prog[f] \in Function
  BY CallAssumption
<1>2. prog[f].blocks \in Seq(Blocks)
  BY <1>1 DEF Function, Blocks
<1>3. DOMAIN prog[f].blocks = 1 .. Len(prog[f].blocks)
  BY <1>2
<1>4. ASSUME NEW b \in DOMAIN prog[f].blocks
      PROVE  prog[f].blocks[b].code \in Seq(Instruction)
  <2>1. prog[f].blocks[b] \in Blocks
    BY <1>2, <1>4
  <2> QED
    BY <2>1 DEF Blocks
<1> QED
  BY <1>2, <1>3, <1>4

LEMMA TopType ==
    ASSUME TypeOK, stack # <<>>
    PROVE  /\ Top \in Analysis /\ Top = stack[Len(stack)]
           /\ Len(stack) \in DOMAIN stack /\ Len(stack) \in Nat \ {0}
           /\ Placed(Top)
  BY DEF TypeOK, Top, Last

LEMMA CodeType ==
    ASSUME TypeOK, NEW t \in Analysis, Placed(t), t.bb # 0
    PROVE  Code(t) \in Seq(Instruction) /\ Len(Code(t)) \in Nat
<1>1. t.fn \in Func
  BY DEF Analysis
<1>2. t.bb \in DOMAIN prog[t.fn].blocks
  BY DEF Placed
<1> QED
  BY <1>1, <1>2, ProgramType DEF Code, TypeOK

(* A new analysis has the blocks of its function to do.                    *)
LEMMA NewPlaced ==
    ASSUME prog \in Programs, NEW f \in Func, NEW g \in Graph
    PROVE  /\ NewAnalysis(f, g) \in Analysis
           /\ Placed(NewAnalysis(f, g))
<1>1. Worklist(f) \subseteq DOMAIN prog[f].blocks
  BY DEF Worklist
<1>2. Worklist(f) \in SUBSET Nat
  BY <1>1, ProgramType
<1>3. NewAnalysis(f, g) \in Analysis
  BY <1>2 DEF NewAnalysis, Analysis
<1> QED
  BY <1>1, <1>3 DEF NewAnalysis, Placed

LEMMA InstructionType ==
    ASSUME TypeOK, AtInstruction
    PROVE  /\ I \in Instruction
           /\ I.op = "visit" => I.effect \in [Fact -> SUBSET Fact]
           /\ I.op = "call" => I.callee \in Func \cup {Null}
<1>1. Top \in Analysis /\ Placed(Top) /\ Top.bb # 0
  BY TopType DEF AtInstruction
<1>2. Code(Top) \in Seq(Instruction)
  BY <1>1, CodeType
<1>3. Top.at \in 1 .. Len(Code(Top))
  BY <1>1, <1>2 DEF AtInstruction, Analysis, Placed
<1>4. I \in Instruction
  BY <1>2, <1>3 DEF I
<1>5. I.op = "visit" => I.effect \in Effects
  BY <1>4 DEF Instruction
<1>6. I.op = "call" => I.callee \in Func \cup {Null}
  BY <1>4 DEF Instruction
<1> QED
  BY <1>4, <1>5, <1>6, CallAssumption

-----------------------------------------------------------------------------
(* The ways in which a step changes the stack: the analysis at the top     *)
(* changes, a callee's is put on it, or a callee's is taken from it.       *)

LEMMA ChangeTop ==
    ASSUME IInv, NEW n \in Nat \ {0}, n = Len(stack),
           NEW t \in Analysis, t.fn = Top.fn, Placed(t),
           t.initial.mapped \subseteq OnStack(n),
           \A g \in t.exits : g.mapped \subseteq OnStack(n),
           t.state.mapped \subseteq OnStack(n),
           SetTop(t), UNCHANGED <<prog, start, result>>
    PROVE  IInv'
<1>1. Top = stack[n] /\ DOMAIN stack = 1 .. n /\ stack \in Seq(Analysis)
  BY DEF IInv, TypeOK, Top, Last
<1>2. /\ stack' \in Seq(Analysis) /\ Len(stack') = n /\ DOMAIN stack' = 1 .. n
      /\ stack'[n] = t
      /\ \A k \in 1 .. n : k # n => stack'[k] = stack[k]
  BY <1>1 DEF SetTop
<1>3. \A k \in 1 .. n : stack'[k].fn = stack[k].fn
  BY <1>1, <1>2
<1>4. \A k \in 1 .. n : OnStack(k)' = OnStack(k)
  BY <1>1, <1>2, <1>3 DEF OnStack
<1>5. TypeOK'
  BY <1>1, <1>2 DEF IInv, TypeOK, Placed, Code
<1>6. StackDistinct'
  BY <1>1, <1>2, <1>3 DEF IInv, StackDistinct
<1>7. Mapped'
  <2> SUFFICES ASSUME NEW k \in 1 .. n
               PROVE  /\ stack'[k].initial.mapped \subseteq OnStack(k)'
                      /\ \A g \in stack'[k].exits : g.mapped \subseteq OnStack(k)'
                      /\ stack'[k].state.mapped \subseteq
                            IF k = n THEN OnStack(k)' ELSE OnStack(k + 1)'
    BY <1>2 DEF Mapped
  <2>1. CASE k = n
    BY <1>2, <1>4, <2>1
  <2>2. CASE k # n
    BY <1>1, <1>2, <1>4, <2>2 DEF IInv, Mapped
  <2> QED
    BY <2>1, <2>2
<1>8. Waiting'
  BY <1>1, <1>2 DEF IInv, Waiting, Code
<1> QED
  BY <1>5, <1>6, <1>7, <1>8 DEF IInv

LEMMA Push ==
    ASSUME IInv, AtInstruction,
           NEW n \in Nat \ {0}, n = Len(stack),
           NEW t \in Analysis, t.fn = Top.fn, t.bb = Top.bb, t.at = Top.at, Placed(t),
           t.initial = Top.initial, t.exits = Top.exits,
           NEW c \in Analysis, Placed(c),
           \A k \in 1 .. n : stack[k].fn # c.fn,
           t.state.mapped \subseteq OnStack(n) \cup {c.fn},
           c.initial = t.state, c.state = t.state, c.exits = {},
           stack' = Append([stack EXCEPT ![n] = t], c),
           UNCHANGED <<prog, start, result>>
    PROVE  IInv'
<1>1. Top = stack[n] /\ DOMAIN stack = 1 .. n /\ stack \in Seq(Analysis)
  BY DEF IInv, TypeOK, Top, Last
<1>2. /\ stack' \in Seq(Analysis) /\ Len(stack') = n + 1 /\ DOMAIN stack' = 1 .. n + 1
      /\ stack'[n + 1] = c /\ stack'[n] = t
      /\ \A k \in 1 .. n : k # n => stack'[k] = stack[k]
  <2>1. [stack EXCEPT ![n] = t] \in Seq(Analysis) /\ Len([stack EXCEPT ![n] = t]) = n
    BY <1>1
  <2> QED
    BY <1>1, <2>1
<1>3. \A k \in 1 .. n : stack'[k].fn = stack[k].fn
  BY <1>1, <1>2
<1>4. /\ \A k \in 1 .. n : OnStack(k)' = OnStack(k)
      /\ OnStack(n + 1)' = OnStack(n) \cup {c.fn}
  <2>1. \A k \in 1 .. n : OnStack(k)' = OnStack(k)
    BY <1>3 DEF OnStack
  <2>2. OnStack(n + 1)' = OnStack(n)' \cup {stack'[n + 1].fn}
    BY DEF OnStack
  <2> QED
    BY <1>2, <2>1, <2>2
<1>5. TypeOK'
  <2>1. \A u : Placed(u)' <=> Placed(u)
    BY DEF Placed, Code
  <2>2. \A k \in 1 .. n + 1 : Placed(stack'[k])
    BY <1>1, <1>2 DEF IInv, TypeOK
  <2> QED
    BY <1>2, <2>1, <2>2 DEF IInv, TypeOK
<1>6. StackDistinct'
  BY <1>1, <1>2, <1>3 DEF IInv, StackDistinct
<1>7. Mapped'
  <2> SUFFICES ASSUME NEW k \in 1 .. n + 1
               PROVE  /\ stack'[k].initial.mapped \subseteq OnStack(k)'
                      /\ \A g \in stack'[k].exits : g.mapped \subseteq OnStack(k)'
                      /\ stack'[k].state.mapped \subseteq
                            IF k = n + 1 THEN OnStack(k)' ELSE OnStack(k + 1)'
    BY <1>2 DEF Mapped
  <2>1. CASE k = n + 1
    BY <1>2, <1>4, <2>1
  <2>2. CASE k = n
    <3>1. Top.initial.mapped \subseteq OnStack(n) /\ \A g \in Top.exits : g.mapped \subseteq OnStack(n)
      BY <1>1 DEF IInv, Mapped
    <3> QED
      BY <1>2, <1>4, <2>2, <3>1
  <2>3. CASE k \in 1 .. n /\ k # n
    <3>1. stack'[k] = stack[k] /\ k + 1 \in 1 .. n /\ k # n + 1
      BY <1>2, <2>3
    <3>2. /\ stack[k].initial.mapped \subseteq OnStack(k)
          /\ \A g \in stack[k].exits : g.mapped \subseteq OnStack(k)
          /\ stack[k].state.mapped \subseteq OnStack(k + 1)
      BY <1>1, <2>3 DEF IInv, Mapped
    <3> QED
      BY <1>4, <2>3, <3>1, <3>2
  <2> QED
    BY <2>1, <2>2, <2>3
<1>8. Waiting'
  <2>1. \A u : Code(u)' = Code(u)
    BY DEF Code
  <2>2. stack'[n].bb # 0 /\ stack'[n].at <= Len(Code(stack'[n]))
    BY <1>2 DEF AtInstruction, Code
  <2>3. \A k \in 1 .. n : k # n =>
           stack'[k].bb # 0 /\ stack'[k].at <= Len(Code(stack'[k]))
    BY <1>1, <1>2 DEF IInv, Waiting
  <2> QED
    BY <1>2, <2>1, <2>2, <2>3 DEF Waiting
<1> QED
  BY <1>5, <1>6, <1>7, <1>8 DEF IInv

LEMMA Pop ==
    ASSUME IInv, NEW n \in Nat \ {0}, Len(stack) = n + 1,
           NEW t \in Analysis, t.fn = Caller.fn, Placed(t),
           t.initial = Caller.initial, t.exits = Caller.exits,
           t.state.mapped \subseteq OnStack(n),
           stack' = [Front(stack) EXCEPT ![n] = t],
           UNCHANGED <<prog, start, result>>
    PROVE  IInv'
<1>1. Caller = stack[n] /\ DOMAIN stack = 1 .. n + 1 /\ stack \in Seq(Analysis)
  BY DEF IInv, TypeOK, Caller
<1>2. /\ stack' \in Seq(Analysis) /\ Len(stack') = n /\ DOMAIN stack' = 1 .. n
      /\ stack'[n] = t
      /\ \A k \in 1 .. n : k # n => stack'[k] = stack[k]
  <2>1. /\ Front(stack) \in Seq(Analysis) /\ Len(Front(stack)) = n
        /\ \A k \in 1 .. n : Front(stack)[k] = stack[k]
    BY <1>1 DEF Front
  <2> QED
    BY <2>1
<1>3. \A k \in 1 .. n : stack'[k].fn = stack[k].fn
  BY <1>1, <1>2
<1>4. \A k \in 1 .. n : OnStack(k)' = OnStack(k)
  BY <1>3 DEF OnStack
<1>5. TypeOK'
  <2>1. \A u : Placed(u)' <=> Placed(u)
    BY DEF Placed, Code
  <2>2. \A k \in 1 .. n : Placed(stack'[k])
    BY <1>1, <1>2 DEF IInv, TypeOK
  <2> QED
    BY <1>2, <2>1, <2>2 DEF IInv, TypeOK
<1>6. StackDistinct'
  BY <1>1, <1>2, <1>3 DEF IInv, StackDistinct
<1>7. Mapped'
  <2> SUFFICES ASSUME NEW k \in 1 .. n
               PROVE  /\ stack'[k].initial.mapped \subseteq OnStack(k)'
                      /\ \A g \in stack'[k].exits : g.mapped \subseteq OnStack(k)'
                      /\ stack'[k].state.mapped \subseteq
                            IF k = n THEN OnStack(k)' ELSE OnStack(k + 1)'
    BY <1>2 DEF Mapped
  <2>1. /\ stack[k].initial.mapped \subseteq OnStack(k)
        /\ \A g \in stack[k].exits : g.mapped \subseteq OnStack(k)
        /\ stack[k].state.mapped \subseteq OnStack(k + 1)
    BY <1>1 DEF IInv, Mapped
  <2>2. CASE k = n
    BY <1>1, <1>2, <1>4, <2>1, <2>2
  <2>3. CASE k # n
    BY <1>1, <1>2, <1>4, <2>1, <2>3
  <2> QED
    BY <2>2, <2>3
<1>8. Waiting'
  BY <1>1, <1>2 DEF IInv, Waiting, Code
<1> QED
  BY <1>5, <1>6, <1>7, <1>8 DEF IInv

-----------------------------------------------------------------------------
(* The graphs that a step makes. *)

LEMMA GraphOperators ==
    ASSUME NEW g \in Graph
    PROVE  /\ markIsBottom(g) \in Graph /\ markIsBottom(g).mapped = g.mapped
           /\ Unknown(g) \in Graph /\ Unknown(g).mapped = g.mapped
           /\ \A f \in Func : /\ eraseRelevant(g, f) \in Graph
                             /\ eraseRelevant(g, f).mapped = g.mapped \ {f}
  BY DEF markIsBottom, Unknown, eraseRelevant, Graph

LEMMA ResultType ==
    ASSUME NEW t \in Analysis, NEW S, \A g \in t.exits : g.mapped \subseteq S
    PROVE  getResult(t) \in Graph /\ getResult(t).mapped \subseteq S
<1>1. \A g \in t.exits : g.facts \in SUBSET Fact /\ g.mapped \in SUBSET Func
  BY DEF Analysis, Graph
<1>2. getResult(t).facts \in SUBSET Fact /\ getResult(t).mapped \in SUBSET Func
  BY <1>1 DEF getResult
<1> QED
  BY <1>2 DEF getResult, Graph

(* An instruction that is not a call changes the state and moves on.       *)
LEMMA Straight ==
    ASSUME IInv, AtInstruction,
           NEW g \in Graph, g.mapped \subseteq Top.state.mapped \cup {Top.fn},
           SetTop(After(g)), UNCHANGED <<prog, start, result>>
    PROVE  IInv'
<1> DEFINE t == After(g)
<1>1. PICK n \in Nat \ {0} : n = Len(stack)
  BY TopType DEF IInv, AtInstruction
<1>2. Top = stack[n] /\ n \in DOMAIN stack /\ Top \in Analysis /\ Placed(Top) /\ Top.bb # 0
  BY <1>1, TopType DEF IInv, AtInstruction
<1>3. Len(Code(Top)) \in Nat
  BY <1>2, CodeType DEF IInv
<1>4. /\ t \in Analysis /\ t.fn = Top.fn /\ t.worklist = Top.worklist /\ t.bb = Top.bb
      /\ t.at = Top.at + 1 /\ t.initial = Top.initial /\ t.exits = Top.exits /\ t.state = g
  <2>1. Advance(Top) = Top.at + 1 /\ Top.at + 1 \in Nat
    BY <1>2 DEF Advance, Analysis
  <2> QED
    BY <1>2, <2>1 DEF After, Analysis
<1>5. Placed(t)
  BY <1>2, <1>3, <1>4 DEF Placed, Code, AtInstruction, Analysis
<1>6. Top.fn \in OnStack(n) /\ Top.state.mapped \subseteq OnStack(n)
      /\ Top.initial.mapped \subseteq OnStack(n) /\ \A e \in Top.exits : e.mapped \subseteq OnStack(n)
  BY <1>1, <1>2 DEF IInv, Mapped, OnStack
<1> HIDE DEF t
<1> QED
  BY <1>1, <1>4, <1>5, <1>6, ChangeTop DEF t

-----------------------------------------------------------------------------
(* The invariant is inductive. *)

THEOREM InitInv == Init => IInv
<1> SUFFICES ASSUME Init PROVE IInv
  OBVIOUS
<1>1. prog \in Programs /\ start.fn \in Func /\ start.graph \in Graph
      /\ start.graph.mapped = {start.fn} /\ start \in [fn : Func, graph : Graph]
  BY DEF Init, Graph
<1>2. PICK c : c = NewAnalysis(start.fn, start.graph)
  OBVIOUS
<1>3. c \in Analysis /\ Placed(c) /\ c.fn = start.fn /\ c.initial = start.graph
      /\ c.state = start.graph /\ c.exits = {}
  BY <1>1, <1>2, NewPlaced DEF NewAnalysis
<1>4. stack = <<c>>
  BY <1>2 DEF Init
<1>5. TypeOK
  <2>1. stack \in Seq(Analysis) /\ \A i \in DOMAIN stack : Placed(stack[i])
    BY <1>3, <1>4
  <2>2. result \in Graph \cup {Null}
    BY DEF Init
  <2> QED
    BY <1>1, <2>1, <2>2 DEF TypeOK
<1>6. StackDistinct /\ Waiting
  BY <1>4 DEF StackDistinct, Waiting
<1>7. OnStack(1) = {c.fn}
  BY <1>4 DEF OnStack
<1>8. Mapped
  BY <1>1, <1>3, <1>4, <1>7 DEF Mapped
<1> QED
  BY <1>5, <1>6, <1>8 DEF IInv

LEMMA TakeBlockInv == ASSUME IInv, NEW b, TakeBlock(b) PROVE IInv'
<1> DEFINE t == [Top EXCEPT !.bb = b, !.at = 1, !.state = Top.initial, !.worklist = @ \ {b}]
<1>1. PICK n \in Nat \ {0} : n = Len(stack)
  BY TopType DEF IInv, TakeBlock
<1>2. Top = stack[n] /\ n \in DOMAIN stack /\ Top \in Analysis /\ Placed(Top)
  BY <1>1, TopType DEF IInv, TakeBlock
<1>3. b \in Top.worklist /\ b \in Nat
  BY <1>2 DEF TakeBlock, Analysis
<1>4. /\ t \in Analysis /\ t.fn = Top.fn /\ t.worklist = Top.worklist \ {b} /\ t.bb = b
      /\ t.at = 1 /\ t.initial = Top.initial /\ t.exits = Top.exits /\ t.state = Top.initial
  BY <1>2, <1>3 DEF Analysis
<1>5. b \in DOMAIN prog[t.fn].blocks /\ t.fn \in Func
  BY <1>2, <1>3, <1>4 DEF Placed, Analysis
<1>6. Len(Code(t)) \in Nat
  BY <1>4, <1>5, ProgramType DEF Code, IInv, TypeOK
<1>7. Placed(t)
  BY <1>2, <1>4, <1>5, <1>6 DEF Placed
<1>8. Top.initial.mapped \subseteq OnStack(n) /\ \A e \in Top.exits : e.mapped \subseteq OnStack(n)
  BY <1>2 DEF IInv, Mapped
<1>9. SetTop(t) /\ UNCHANGED <<prog, start, result>>
  BY DEF TakeBlock
<1> HIDE DEF t
<1> QED
  BY <1>1, <1>4, <1>7, <1>8, <1>9, ChangeTop

LEMMA ExitInv == ASSUME IInv, handleExitTerminator PROVE IInv'
<1> DEFINE x == IF prog[Top.fn].blocks[Top.bb].end = "return"
                THEN Top.exits \cup {Top.state} ELSE Top.exits
           t == [Top EXCEPT !.bb = 0, !.state = Top.initial, !.exits = x]
<1>1. PICK n \in Nat \ {0} : n = Len(stack)
  BY TopType DEF IInv, handleExitTerminator
<1>2. Top = stack[n] /\ n \in DOMAIN stack /\ Top \in Analysis /\ Placed(Top)
  BY <1>1, TopType DEF IInv, handleExitTerminator
<1>3. /\ t \in Analysis /\ t.fn = Top.fn /\ t.worklist = Top.worklist /\ t.bb = 0
      /\ t.initial = Top.initial /\ t.exits = x /\ t.state = Top.initial
  BY <1>2 DEF Analysis
<1>4. Placed(t)
  BY <1>2, <1>3 DEF Placed
<1>5. Top.initial.mapped \subseteq OnStack(n) /\ \A e \in x : e.mapped \subseteq OnStack(n)
  BY <1>1, <1>2 DEF IInv, Mapped
<1>6. SetTop(t) /\ UNCHANGED <<prog, start, result>>
  BY DEF handleExitTerminator
<1> HIDE DEF t
<1> QED
  BY <1>1, <1>3, <1>4, <1>5, <1>6, ChangeTop

LEMMA HandleCallInv == ASSUME IInv, handleCall PROVE IInv'
<1>1. AtInstruction /\ I.op = "call" /\ I.callee # Null /\ ~isRecursive(I.callee)
  BY DEF handleCall, AtCall, Analysed
<1>2. PICK f \in Func : f = I.callee
  BY <1>1, InstructionType DEF IInv
<1>3. PICK n \in Nat \ {0} : n = Len(stack)
  BY <1>1, TopType DEF IInv, AtInstruction
<1>4. /\ Top = stack[n] /\ DOMAIN stack = 1 .. n /\ stack \in Seq(Analysis)
      /\ Top \in Analysis /\ Placed(Top)
  BY <1>1, <1>3, TopType DEF IInv, TypeOK, AtInstruction
<1>5. PICK g : g = [Top.state EXCEPT !.mapped = @ \cup {f}]
  OBVIOUS
<1>6. g \in Graph /\ g.mapped = Top.state.mapped \cup {f}
  BY <1>4, <1>5 DEF Analysis, Graph
<1>7. PICK t : t = [Top EXCEPT !.state = g]
  OBVIOUS
<1>8. /\ t \in Analysis /\ t.fn = Top.fn /\ t.worklist = Top.worklist /\ t.bb = Top.bb
      /\ t.at = Top.at /\ t.initial = Top.initial /\ t.exits = Top.exits /\ t.state = g
  BY <1>4, <1>6, <1>7 DEF Analysis
<1>9. Placed(t)
  BY <1>4, <1>8 DEF Placed, Code
<1>10. PICK c : c = NewAnalysis(f, g)
  OBVIOUS
<1>11. /\ c \in Analysis /\ Placed(c)
       /\ c.fn = f /\ c.initial = g /\ c.state = g /\ c.exits = {}
  BY <1>6, <1>10, NewPlaced DEF NewAnalysis, IInv, TypeOK
<1>12. stack' = Append([stack EXCEPT ![n] = t], c)
  BY <1>2, <1>3, <1>4, <1>5, <1>7, <1>10 DEF handleCall
<1>13. \A k \in 1 .. n : stack[k].fn # c.fn
  BY <1>1, <1>2, <1>4, <1>11 DEF isRecursive
<1>14. t.state.mapped \subseteq OnStack(n) \cup {c.fn}
  BY <1>3, <1>4, <1>6, <1>8, <1>11 DEF IInv, Mapped
<1>15. UNCHANGED <<prog, start, result>>
  BY DEF handleCall
<1> QED
  BY <1>1, <1>3, <1>8, <1>9, <1>11, <1>12, <1>13, <1>14, <1>15, Push

LEMMA ReturnInv == ASSUME IInv, Return PROVE IInv'
<1>1. PICK n \in Nat \ {0} : Len(stack) = n + 1
  <2>1. Len(stack) \in Nat /\ Len(stack) > 1
    BY DEF IInv, TypeOK, Return
  <2>2. \A m \in Nat : m > 1 => m - 1 \in Nat \ {0} /\ m = (m - 1) + 1
    OBVIOUS
  <2> QED
    BY <2>1, <2>2
<1>2. /\ stack \in Seq(Analysis) /\ DOMAIN stack = 1 .. n + 1
      /\ Top = stack[n + 1] /\ Top \in Analysis
      /\ Caller = stack[n] /\ Caller \in Analysis /\ Placed(Caller)
      /\ Caller.bb # 0 /\ Caller.at <= Len(Code(Caller))
  BY <1>1 DEF IInv, TypeOK, Waiting, Caller, Top, Last
<1>3. /\ OnStack(n + 1) = OnStack(n) \cup {Top.fn}
      /\ Caller.fn \in OnStack(n)
  BY <1>2 DEF OnStack
<1>4. /\ \A e \in Top.exits : e.mapped \subseteq OnStack(n + 1)
      /\ Caller.state.mapped \subseteq OnStack(n + 1)
      /\ Caller.initial.mapped \subseteq OnStack(n)
      /\ \A e \in Caller.exits : e.mapped \subseteq OnStack(n)
  BY <1>1, <1>2 DEF IInv, Mapped
<1>5. PICK r : r = getResult(Top)
  OBVIOUS
<1>6. r \in Graph /\ r.mapped \subseteq OnStack(n + 1)
  BY <1>2, <1>4, <1>5, ResultType
<1>7. PICK g : g = IF r.facts = {} THEN markIsBottom(Caller.state)
                   ELSE [r EXCEPT !.mapped = @ \cup {Caller.fn}]
  OBVIOUS
<1>8. Caller.state \in Graph /\ Caller.fn \in Func /\ Top.fn \in Func
  BY <1>2 DEF Analysis
<1>9. g \in Graph /\ g.mapped \subseteq OnStack(n + 1)
  <2>1. CASE r.facts = {}
    BY <1>4, <1>7, <1>8, <2>1, GraphOperators
  <2>2. CASE r.facts # {}
    BY <1>3, <1>6, <1>7, <1>8, <2>2 DEF Graph
  <2> QED
    BY <2>1, <2>2
<1>10. PICK h : h = eraseRelevant(g, Top.fn)
  OBVIOUS
<1>11. h \in Graph /\ h.mapped \subseteq OnStack(n)
  <2>1. h \in Graph /\ h.mapped = g.mapped \ {Top.fn}
    BY <1>8, <1>9, <1>10, GraphOperators
  <2> QED
    BY <1>3, <1>9, <2>1
<1>12. PICK t : t = [Caller EXCEPT !.state = h, !.at = Advance(Caller)]
  OBVIOUS
<1>13. /\ t \in Analysis /\ t.fn = Caller.fn /\ t.worklist = Caller.worklist
       /\ t.bb = Caller.bb /\ t.at = Caller.at + 1
       /\ t.initial = Caller.initial /\ t.exits = Caller.exits /\ t.state = h
  <2>1. Advance(Caller) = Caller.at + 1 /\ Caller.at + 1 \in Nat
    BY <1>2 DEF Advance, Analysis
  <2> QED
    BY <1>2, <1>11, <1>12, <2>1 DEF Analysis
<1>14. Len(Code(Caller)) \in Nat
  BY <1>2, CodeType DEF IInv
<1>15. Placed(t)
  BY <1>2, <1>13, <1>14 DEF Placed, Code, Analysis
<1>16. stack' = [Front(stack) EXCEPT ![n] = t]
  <2>1. Len(stack) - 1 = n
    BY <1>1
  <2> QED
    BY <1>5, <1>7, <1>10, <1>12, <2>1 DEF Return
<1>17. UNCHANGED <<prog, start, result>>
  BY DEF Return
<1> QED
  BY <1>1, <1>11, <1>13, <1>15, <1>16, <1>17, Pop

LEMMA FinishInv == ASSUME IInv, Finish PROVE IInv'
<1>1. Top \in Analysis /\ Top = stack[1] /\ 1 \in DOMAIN stack
  BY TopType DEF IInv, Finish
<1>2. getResult(Top) \in Graph
  BY <1>1, ResultType DEF IInv, Mapped
<1> QED
  BY <1>2 DEF IInv, TypeOK, StackDistinct, Mapped, Waiting, Finish

(* The steps that go on to the next instruction with another state.        *)
LEMMA InstructionInv ==
    ASSUME IInv, Pass \/ Visit \/ IgnoredCall \/ handleUnknownCall
    PROVE  IInv'
<1>1. AtInstruction /\ UNCHANGED <<prog, start, result>>
  BY DEF Pass, Visit, IgnoredCall, handleUnknownCall, AtCall
<1>2. Top.state \in Graph /\ Top.fn \in Func
  BY <1>1, TopType DEF IInv, AtInstruction, Analysis
<1>3. ASSUME NEW g \in Graph, g.mapped \subseteq Top.state.mapped \cup {Top.fn}, SetTop(After(g))
      PROVE  IInv'
  BY <1>1, <1>3, Straight
<1>4. CASE Pass
  BY <1>2, <1>3, <1>4, GraphOperators DEF Pass
<1>5. CASE Visit
  <2>1. PICK g : g = visit(Top.state, I.effect)
    OBVIOUS
  <2>2. I.effect \in [Fact -> SUBSET Fact]
    BY <1>1, <1>5, InstructionType DEF IInv, Visit
  <2>3. g \in Graph /\ g.mapped \subseteq Top.state.mapped \cup {Top.fn}
    BY <1>2, <2>1, <2>2 DEF visit, Graph
  <2> QED
    BY <1>3, <1>5, <2>1, <2>3 DEF Visit
<1>6. CASE IgnoredCall
  BY <1>2, <1>3, <1>6 DEF IgnoredCall
<1>7. CASE handleUnknownCall
  BY <1>2, <1>3, <1>7, GraphOperators DEF handleUnknownCall
<1> QED
  BY <1>4, <1>5, <1>6, <1>7

THEOREM NextInv == IInv /\ [Next]_vars => IInv'
<1> SUFFICES ASSUME IInv, [Next]_vars PROVE IInv'
  OBVIOUS
<1>1. CASE \E b \in Top.worklist : TakeBlock(b)
  BY <1>1, TakeBlockInv
<1>2. CASE Pass \/ Visit \/ IgnoredCall \/ handleUnknownCall
  BY <1>2, InstructionInv
<1>3. CASE handleCall
  BY <1>3, HandleCallInv
<1>4. CASE handleExitTerminator
  BY <1>4, ExitInv
<1>5. CASE Return
  BY <1>5, ReturnInv
<1>6. CASE Finish
  BY <1>6, FinishInv
<1>7. CASE UNCHANGED vars
  BY <1>7 DEF vars, IInv, TypeOK, StackDistinct, Mapped, Waiting, Placed, Code, OnStack
<1> QED
  BY <1>1, <1>2, <1>3, <1>4, <1>5, <1>6, <1>7 DEF Next, Done

(* Whatever the program and the effects of its instructions, the           *)
(* strengthened invariant holds throughout the analysis.                   *)
THEOREM Inductive == Spec => []IInv
  BY InitInv, NextInv, PTL DEF Spec

-----------------------------------------------------------------------------
(* For any program every analysis of the stack is at an instruction of its *)
(* function, and its graphs and result admit facts of the program.         *)
THEOREM TypeCorrect == Spec => []TypeOK
<1>1. IInv => TypeOK
  BY DEF IInv
<1> QED
  BY <1>1, Inductive, PTL

(* For any program, however its functions call each other, isRecursive     *)
(* keeps every function from being analysed inside its own analysis.       *)
THEOREM NoReentry == Spec => []StackDistinct
<1>1. IInv => StackDistinct
  BY DEF IInv
<1> QED
  BY <1>1, Inductive, PTL

(* For any program the analyses that run at once are no more than the      *)
(* functions: recursion of the program cannot exhaust the thread's stack.  *)
THEOREM DepthBounded == Spec => [](Len(stack) <= Cardinality(Func))
<1>1. ASSUME IInv PROVE Len(stack) <= Cardinality(Func)
  <2>1. PICK n \in Nat : n = Len(stack) /\ DOMAIN stack = 1 .. n /\ stack \in Seq(Analysis)
    BY <1>1 DEF IInv, TypeOK
  <2>2. PICK a : a = [k \in 1 .. n |-> stack[k].fn]
    OBVIOUS
  <2>3. a \in [1 .. n -> Func] /\ \A i, j \in 1 .. n : a[i] = a[j] => i = j
    <3>1. \A k \in 1 .. n : stack[k].fn \in Func
      <4>1. \A k \in 1 .. n : stack[k] \in Analysis
        BY <2>1
      <4> QED
        BY <4>1 DEF Analysis
    <3>2. \A i, j \in 1 .. n : stack[i].fn = stack[j].fn => i = j
      BY <1>1, <2>1 DEF IInv, StackDistinct
    <3> QED
      BY <2>2, <3>1, <3>2
  <2>4. IsFiniteSet(1 .. n) /\ Cardinality(1 .. n) = n
    BY FS_Interval
  <2>5. a \in Injection(1 .. n, Func)
    BY <2>3 DEF Injection, IsInjective
  <2> QED
    BY <2>1, <2>4, <2>5, CallAssumption, FS_Injection
<1> QED
  BY <1>1, Inductive, PTL

(* For any program a function is entered with none of its values mapped,   *)
(* so the nodes of its arguments replace no others.                        *)
THEOREM EntersFresh == Spec => FreshMappings
<1>1. ASSUME IInv, [Next]_vars, ~(UNCHANGED vars), Len(stack') > Len(stack)
      PROVE  Last(stack').fn \notin Top.state.mapped
  <2>1. stack \in Seq(Analysis) /\ Len(stack) \in Nat
    BY <1>1 DEF IInv, TypeOK
  <2>2. CASE handleCall
    <3>1. AtInstruction /\ I.op = "call" /\ ~isRecursive(I.callee)
      BY <2>2 DEF handleCall, AtCall, Analysed
    <3>2. PICK n \in Nat \ {0} : n = Len(stack) /\ Top = stack[n] /\ DOMAIN stack = 1 .. n
      BY <1>1, <2>1, <3>1, TopType DEF IInv, AtInstruction
    <3>3. I.callee \notin Top.state.mapped
      BY <1>1, <3>1, <3>2 DEF IInv, Mapped, OnStack, isRecursive
    <3>4. PICK s, c : /\ s = [stack EXCEPT ![n].state = [Top.state EXCEPT !.mapped = @ \cup {I.callee}]]
                      /\ c = NewAnalysis(I.callee, [Top.state EXCEPT !.mapped = @ \cup {I.callee}])
      OBVIOUS
    <3>5. stack' = Append(s, c) /\ c.fn = I.callee
      BY <2>2, <3>2, <3>4 DEF handleCall, NewAnalysis
    <3>6. Last(stack') = c
      BY <3>2, <3>4, <3>5 DEF Last
    <3> QED
      BY <3>3, <3>5, <3>6
  <2>3. CASE ~handleCall
    <3>1. Len(stack') <= Len(stack)
      <4>1. CASE \E t : SetTop(t)
        BY <2>1, <4>1 DEF SetTop
      <4>2. CASE Return
        <5>1. Len(Front(stack)) = Len(stack) - 1
          BY <2>1, <4>2 DEF Front, Return
        <5>2. Len(stack') = Len(stack) - 1
          BY <2>1, <4>2, <5>1 DEF Front, Return
        <5> QED
          BY <2>1, <5>2
      <4>3. CASE Finish
        BY <4>3 DEF Finish
      <4>4. CASE Done
        BY <1>1, <4>4 DEF Done
      <4> QED
        BY <1>1, <2>3, <4>1, <4>2, <4>3, <4>4
           DEF Next, TakeBlock, Pass, Visit, IgnoredCall, handleUnknownCall, handleExitTerminator
    <3> QED
      BY <1>1, <2>1, <3>1
  <2> QED
    BY <2>2, <2>3
<1>2. IInv /\ [Next]_vars =>
        [Len(stack') > Len(stack) => Last(stack').fn \notin Top.state.mapped]_vars
  BY <1>1
<1> QED
  BY <1>2, Inductive, PTL DEF Spec, FreshMappings

-----------------------------------------------------------------------------
(* The reference that the results are compared with. *)

Triple == Func \X Fact \X Fact

LEMMA InstructionKinds ==
    ASSUME CallAssumption, NEW i \in Instruction
    PROVE  /\ i.op \in {"skip", "landing", "visit", "call"}
           /\ i.op = "visit" => i.effect \in [Fact -> SUBSET Fact]
           /\ i.op = "call" => i.callee \in Func \cup {Null}
<1>1. i.op = "visit" => i.effect \in Effects
  BY DEF Instruction
<1>2. i.op = "call" => i.callee \in Func \cup {Null}
  BY DEF Instruction
<1>3. i.op \in {"skip", "landing", "visit", "call"}
  BY DEF Instruction
<1> QED
  BY <1>1, <1>2, <1>3 DEF CallAssumption

LEMMA ExecuteType ==
    ASSUME NEW R \in SUBSET Triple, NEW i \in Instruction, NEW X \in SUBSET Fact
    PROVE  Execute(R, i, X) \in SUBSET Fact
<1>1. CASE i.op = "visit"
  <2>1. i.effect \in [Fact -> SUBSET Fact]
    BY <1>1, CallAssumption, InstructionKinds
  <2> QED
    BY <1>1, <2>1 DEF Execute
<1>2. CASE i.op = "call"
  <2>1. {r[3] : r \in {q \in R : q[1] = i.callee /\ q[2] \in X}} \subseteq Fact
    BY DEF Triple
  <2> QED
    BY <1>2, <2>1 DEF Execute
<1>3. CASE i.op \in {"skip", "landing"}
  BY <1>3 DEF Execute
<1> QED
  BY <1>1, <1>2, <1>3, CallAssumption, InstructionKinds

(* More returns and more facts before an instruction give more after it.   *)
LEMMA ExecuteMonotone ==
    ASSUME NEW R, NEW S, R \subseteq S, NEW X, NEW Y, X \subseteq Y, Y \subseteq Fact,
           S \subseteq Triple, NEW i \in Instruction
    PROVE  Execute(R, i, X) \subseteq Execute(S, i, Y)
<1>1. CASE i.op = "visit"
  BY <1>1 DEF Execute
<1>2. CASE i.op = "call"
  <2>1. {r[3] : r \in {q \in R : q[1] = i.callee /\ q[2] \in X}}
            \subseteq {r[3] : r \in {q \in S : q[1] = i.callee /\ q[2] \in Y}}
    OBVIOUS
  <2>2. CASE X = {}
    BY <1>2, <2>2 DEF Execute
  <2>3. CASE X # {}
    <3>1. Y # {}
      BY <2>3
    <3> QED
      BY <1>2, <2>1, <2>3, <3>1 DEF Execute
  <2> QED
    BY <2>2, <2>3
<1>3. CASE i.op \in {"skip", "landing"}
  BY <1>3 DEF Execute
<1> QED
  BY <1>1, <1>2, <1>3, CallAssumption, InstructionKinds

(* What an instruction makes of some facts it makes of one of them.        *)
LEMMA ExecuteEach ==
    ASSUME NEW R, NEW i \in Instruction, NEW X, NEW y \in Execute(R, i, X)
    PROVE  \E x \in X : y \in Execute(R, i, {x})
<1>1. CASE i.op = "visit"
  BY <1>1 DEF Execute
<1>2. CASE i.op = "call"
  <2>1. X # {}
    BY <1>2 DEF Execute
  <2>2. CASE i.callee = Null \/ (prog[i.callee].kind # "ignored" /\ empty(i.callee))
    BY <1>2, <2>1, <2>2 DEF Execute
  <2>3. CASE i.callee # Null /\ prog[i.callee].kind = "ignored"
    BY <1>2, <2>1, <2>3 DEF Execute
  <2>4. CASE i.callee # Null /\ prog[i.callee].kind # "ignored" /\ ~empty(i.callee)
    <3>1. PICK r \in {q \in R : q[1] = i.callee /\ q[2] \in X} : y = r[3]
      BY <1>2, <2>1, <2>4 DEF Execute
    <3>2. y \in {p[3] : p \in {q \in R : q[1] = i.callee /\ q[2] \in {r[2]}}}
      BY <3>1
    <3>3. y \in Execute(R, i, {r[2]})
      BY <1>2, <2>4, <3>2 DEF Execute
    <3> QED
      BY <3>1, <3>3
  <2> QED
    BY <2>2, <2>3, <2>4
<1>3. CASE i.op \in {"skip", "landing"}
  BY <1>3 DEF Execute
<1> QED
  BY <1>1, <1>2, <1>3, CallAssumption, InstructionKinds

(* Execution follows the code, one instruction after the other.            *)
LEMMA ExecutionSteps ==
    ASSUME NEW R \in SUBSET Triple, NEW code \in Seq(Instruction), NEW x \in Fact
    PROVE  /\ Execution(R, code, x) \in [0 .. Len(code) -> SUBSET Fact]
           /\ Execution(R, code, x)[0] = {x}
           /\ \A n \in 1 .. Len(code) :
                 Execution(R, code, x)[n] = Execute(R, code[n], Execution(R, code, x)[n - 1])
<1> DEFINE Q == SUBSET Fact
           Do(n) == [X \in Q |-> Execute(R, code[n], X)]
           F == [n \in 1 .. Len(code) |-> Do(n)]
           N == Len(code)
<1>1. N \in Nat
  OBVIOUS
<1>2. F \in [1 .. N -> [Q -> Q]]
  <2>1. \A n \in 1 .. N : code[n] \in Instruction
    OBVIOUS
  <2>2. \A n \in 1 .. N : \A X \in Q : Execute(R, code[n], X) \in Q
    BY <2>1, ExecuteType
  <2> HIDE DEF Q, N
  <2>3. \A n \in 1 .. N : Do(n) \in [Q -> Q]
    BY <2>2
  <2> HIDE DEF Do
  <2> QED
    BY <2>3 DEF N
<1>3. {x} \in Q
  OBVIOUS
<1> HIDE DEF Q, F, N
<1>4. PICK g \in [0 .. N -> Q] : Steps(g, N, {x}, F)
  BY <1>1, <1>2, <1>3, StepsUpTo
<1>5. g = [n \in 0 .. N |-> IF n = 0 THEN {x} ELSE F[n][g[n - 1]]]
  BY <1>4 DEF Steps
<1>6. \A n \in 0 .. N : n # 0 => n \in 1 .. N /\ n - 1 \in 0 .. N
  BY <1>1
<1>7. \A n \in 0 .. N : n # 0 => F[n][g[n - 1]] = Execute(R, code[n], g[n - 1])
  <2>1. \A n \in 1 .. N : F[n] = Do(n)
    BY DEF F, N
  <2>2. ASSUME NEW n \in 1 .. N, NEW X \in Q PROVE F[n][X] = Execute(R, code[n], X)
    BY <2>1
  <2>3. \A n \in 0 .. N : n # 0 => g[n - 1] \in Q
    BY <1>6
  <2> HIDE DEF Do
  <2> QED
    BY <1>6, <2>2, <2>3
<1>8. g = [n \in 0 .. N |-> IF n = 0 THEN {x} ELSE Execute(R, code[n], g[n - 1])]
  BY <1>5, <1>7, Zenon
<1> DEFINE may == CHOOSE f : f = [n \in 0 .. Len(code) |->
                      IF n = 0 THEN {x} ELSE Execute(R, code[n], f[n - 1])]
<1>9. may = [n \in 0 .. N |-> IF n = 0 THEN {x} ELSE Execute(R, code[n], may[n - 1])]
  BY <1>8, Zenon DEF N
<1>10. Execution(R, code, x) = may
  BY Zenon DEF Execution
<1>11. PICK e : e = Execution(R, code, x)
  OBVIOUS
<1>12. e = [n \in 0 .. N |-> IF n = 0 THEN {x} ELSE Execute(R, code[n], e[n - 1])]
  BY <1>9, <1>10, <1>11
<1> DEFINE A == {n \in Nat : n <= N => e[n] \in Q}
<1>13. 0 \in A
  BY <1>1, <1>3, <1>12
<1>14. ASSUME NEW n \in Nat, n \in A PROVE n + 1 \in A
  <2> SUFFICES ASSUME n + 1 <= N PROVE e[n + 1] \in Q
    OBVIOUS
  <2>1. n + 1 \in 0 .. N /\ n + 1 # 0 /\ (n + 1) - 1 = n /\ n + 1 \in 1 .. N
    BY <1>1
  <2>2. e[n + 1] = Execute(R, code[n + 1], e[n])
    BY <1>12, <2>1
  <2>3. e[n] \in SUBSET Fact
    BY <1>1, <1>14, <2>1 DEF Q
  <2>4. code[n + 1] \in Instruction
    BY <2>1 DEF N
  <2> QED
    BY <2>2, <2>3, <2>4, ExecuteType DEF Q
<1>15. Nat \subseteq A
  <2> HIDE DEF A
  <2> QED
    BY <1>13, <1>14, Induction
<1>16. e \in [0 .. N -> Q]
  <2>1. \A n \in 0 .. N : e[n] \in Q
    BY <1>1, <1>15
  <2>2. e = [n \in 0 .. N |-> e[n]]
    BY <1>12, Zenon
  <2> QED
    BY <2>1, <2>2
<1>17. e[0] = {x}
  BY <1>1, <1>12
<1>18. \A n \in 1 .. N : e[n] = Execute(R, code[n], e[n - 1])
  <2>1. \A n \in 1 .. N : n \in 0 .. N /\ n # 0
    BY <1>1
  <2> HIDE DEF A, may
  <2>2. \A n \in 0 .. N : e[n] = IF n = 0 THEN {x} ELSE Execute(R, code[n], e[n - 1])
    BY <1>12
  <2> QED
    BY <2>1, <2>2
<1> QED
  BY <1>11, <1>16, <1>17, <1>18 DEF N, Q

LEMMA ExecutionMonotone ==
    ASSUME NEW R \in SUBSET Triple, NEW S \in SUBSET Triple, R \subseteq S,
           NEW code \in Seq(Instruction), NEW x \in Fact, NEW n \in 0 .. Len(code)
    PROVE  Execution(R, code, x)[n] \subseteq Execution(S, code, x)[n]
<1>1. PICK d, e : d = Execution(R, code, x) /\ e = Execution(S, code, x)
  OBVIOUS
<1> DEFINE A == {m \in Nat : m <= Len(code) => d[m] \subseteq e[m]}
<1>2. /\ d \in [0 .. Len(code) -> SUBSET Fact] /\ e \in [0 .. Len(code) -> SUBSET Fact]
      /\ d[0] = {x} /\ e[0] = {x}
      /\ \A m \in 1 .. Len(code) : /\ d[m] = Execute(R, code[m], d[m - 1])
                                   /\ e[m] = Execute(S, code[m], e[m - 1])
  BY <1>1, ExecutionSteps
<1>3. 0 \in A
  BY <1>2
<1>4. ASSUME NEW m \in Nat, m \in A PROVE m + 1 \in A
  <2> SUFFICES ASSUME m + 1 <= Len(code) PROVE d[m + 1] \subseteq e[m + 1]
    OBVIOUS
  <2>1. m + 1 \in 1 .. Len(code) /\ (m + 1) - 1 = m /\ m \in 0 .. Len(code)
    OBVIOUS
  <2>2. d[m + 1] = Execute(R, code[m + 1], d[m]) /\ e[m + 1] = Execute(S, code[m + 1], e[m])
    BY <1>2, <2>1
  <2>3. d[m] \subseteq e[m] /\ e[m] \subseteq Fact
    BY <1>2, <1>4, <2>1
  <2>4. code[m + 1] \in Instruction
    BY <2>1
  <2> QED
    BY <2>2, <2>3, <2>4, ExecuteMonotone
<1>5. Nat \subseteq A
  <2> HIDE DEF A
  <2> QED
    BY <1>3, <1>4, Induction
<1> QED
  BY <1>1, <1>5

LEMMA OutcomesAre ==
    ASSUME prog \in Programs, NEW R \in SUBSET Triple, NEW f \in Func, NEW x \in Fact
    PROVE  /\ Outcomes(R, f, x) \subseteq Fact
           /\ \A y : y \in Outcomes(R, f, x) <=>
                 \E b \in DOMAIN prog[f].blocks :
                    /\ prog[f].blocks[b].end = "return"
                    /\ y \in Execution(R, prog[f].blocks[b].code, x)[Len(prog[f].blocks[b].code)]
<1>1. \A y : y \in Outcomes(R, f, x) <=>
                 \E b \in DOMAIN prog[f].blocks :
                    /\ prog[f].blocks[b].end = "return"
                    /\ y \in Execution(R, prog[f].blocks[b].code, x)[Len(prog[f].blocks[b].code)]
  BY DEF Outcomes, ToSet
<1>2. ASSUME NEW b \in DOMAIN prog[f].blocks
      PROVE  Execution(R, prog[f].blocks[b].code, x)[Len(prog[f].blocks[b].code)] \subseteq Fact
  <2>1. PICK c \in Seq(Instruction) : c = prog[f].blocks[b].code /\ Len(c) \in Nat
    BY ProgramType
  <2>2. Execution(R, c, x) \in [0 .. Len(c) -> SUBSET Fact]
    BY ExecutionSteps
  <2> QED
    BY <2>1, <2>2
<1> QED
  BY <1>1, <1>2

LEMMA ImproveMonotone ==
    ASSUME prog \in Programs, NEW R \in SUBSET Triple, NEW S \in SUBSET Triple, R \subseteq S
    PROVE  /\ Improve(R) \in SUBSET Triple
           /\ Improve(R) \subseteq Improve(S)
           /\ \A r : r \in Improve(R) <=> r \in Triple /\ r[3] \in Outcomes(R, r[1], r[2])
<1>1. \A f \in Func, x \in Fact : Outcomes(R, f, x) \subseteq Fact
  BY OutcomesAre
<1>2. \A r : r \in Improve(R) <=> r \in Triple /\ r[3] \in Outcomes(R, r[1], r[2])
  <2>1. \A r : r \in Improve(R) <=>
           \E f \in Func, x \in Fact : \E y \in Outcomes(R, f, x) : r = <<f, x, y>>
    <3> DEFINE O(d) == {<<d[1], d[2], y>> : y \in Outcomes(R, d[1], d[2])}
    <3>1. \A r : r \in Improve(R) <=> \E d \in Func \X Fact : r \in O(d)
      BY DEF Improve
    <3>2. \A f \in Func, x \in Fact : \A r :
              r \in O(<<f, x>>) <=> \E y \in Outcomes(R, f, x) : r = <<f, x, y>>
      OBVIOUS
    <3>3. \A r : (\E d \in Func \X Fact : r \in O(d)) <=> \E f \in Func, x \in Fact : r \in O(<<f, x>>)
      <4>1. \A d \in Func \X Fact : d[1] \in Func /\ d[2] \in Fact /\ d = <<d[1], d[2]>>
        OBVIOUS
      <4>2. \A f \in Func, x \in Fact : <<f, x>> \in Func \X Fact
        OBVIOUS
      <4> HIDE DEF O
      <4> QED
        BY <4>1, <4>2
    <3> HIDE DEF O
    <3> QED
      BY <3>1, <3>2, <3>3
  <2> QED
    BY <1>1, <2>1 DEF Triple
<1>3. ASSUME NEW f \in Func, NEW x \in Fact
      PROVE  Outcomes(R, f, x) \subseteq Outcomes(S, f, x)
  <2> SUFFICES ASSUME NEW y \in Outcomes(R, f, x) PROVE y \in Outcomes(S, f, x)
    OBVIOUS
  <2>1. PICK b \in DOMAIN prog[f].blocks :
            /\ prog[f].blocks[b].end = "return"
            /\ y \in Execution(R, prog[f].blocks[b].code, x)[Len(prog[f].blocks[b].code)]
    BY OutcomesAre
  <2>2. PICK c \in Seq(Instruction) : c = prog[f].blocks[b].code /\ Len(c) \in Nat
    BY ProgramType
  <2>3. Execution(R, c, x)[Len(c)] \subseteq Execution(S, c, x)[Len(c)]
    <3>1. Len(c) \in 0 .. Len(c)
      BY <2>2
    <3> QED
      BY <3>1, ExecutionMonotone
  <2> QED
    BY <2>1, <2>2, <2>3, OutcomesAre
<1>4. Improve(R) \subseteq Improve(S)
  BY <1>3 DEF Improve
<1> QED
  BY <1>2, <1>4

LEMMA ReturnsLevels ==
    ASSUME prog \in Programs
    PROVE  /\ ReturnsWithin \in [Nat -> SUBSET Triple]
           /\ ReturnsWithin[0] = {}
           /\ \A n \in Nat : ReturnsWithin[n + 1] = Improve(ReturnsWithin[n])
<1> DEFINE Q == SUBSET Triple
           F == [R \in Q |-> Improve(R)]
<1>1. F \in [Q -> Q]
  BY ImproveMonotone
<1>2. {} \in Q
  OBVIOUS
<1> HIDE DEF Q, F
<1>3. PICK g \in [Nat -> Q] : g = [n \in Nat |-> IF n = 0 THEN {} ELSE F[g[n - 1]]]
  BY <1>1, <1>2, Iterates DEF Orbit
<1>4. \A n \in Nat : n # 0 => F[g[n - 1]] = Improve(g[n - 1])
  <2>1. \A n \in Nat : n # 0 => n - 1 \in Nat
    OBVIOUS
  <2>2. \A n \in Nat : n # 0 => g[n - 1] \in Q
    BY <1>3, <2>1
  <2> QED
    BY <2>2 DEF F
<1>5. g = [n \in Nat |-> IF n = 0 THEN {} ELSE Improve(g[n - 1])]
  BY <1>3, <1>4, Zenon
<1>6. ReturnsWithin = [n \in Nat |-> IF n = 0 THEN {} ELSE Improve(ReturnsWithin[n - 1])]
  BY <1>5, Zenon DEF ReturnsWithin
<1>7. /\ ReturnsWithin[0] = {}
      /\ \A n \in Nat : ReturnsWithin[n + 1] = Improve(ReturnsWithin[n])
  <2>1. \A n \in Nat : n + 1 \in Nat /\ n + 1 # 0 /\ (n + 1) - 1 = n
    OBVIOUS
  <2>2. \A n \in Nat :
           ReturnsWithin[n] = IF n = 0 THEN {} ELSE Improve(ReturnsWithin[n - 1])
    BY <1>6, Zenon
  <2> QED
    BY <2>1, <2>2
<1> DEFINE A == {n \in Nat : ReturnsWithin[n] \in SUBSET Triple}
<1>8. 0 \in A
  BY <1>7
<1>9. \A n \in Nat : n \in A => n + 1 \in A
  BY <1>7, ImproveMonotone
<1>10. Nat \subseteq A
  <2> HIDE DEF A
  <2> QED
    BY <1>8, <1>9, Induction
<1>11. ReturnsWithin = [n \in Nat |-> ReturnsWithin[n]]
  BY <1>6, Zenon
<1> QED
  BY <1>7, <1>10, <1>11

LEMMA ReturnsGrow ==
    ASSUME prog \in Programs, NEW n \in Nat
    PROVE  ReturnsWithin[n] \subseteq ReturnsWithin[n + 1]
<1> DEFINE A == {m \in Nat : ReturnsWithin[m] \subseteq ReturnsWithin[m + 1]}
<1>1. 0 \in A
  BY ReturnsLevels
<1>2. ASSUME NEW m \in Nat, m \in A PROVE m + 1 \in A
  <2>1. PICK R, S : R = ReturnsWithin[m] /\ S = ReturnsWithin[m + 1]
    OBVIOUS
  <2>2. R \in SUBSET Triple /\ S \in SUBSET Triple /\ R \subseteq S
    BY <1>2, <2>1, ReturnsLevels
  <2>3. Improve(R) \subseteq Improve(S)
    BY <2>2, ImproveMonotone
  <2>4. m + 1 \in Nat
    OBVIOUS
  <2> QED
    BY <2>1, <2>3, <2>4, ReturnsLevels
<1>3. Nat \subseteq A
  <2> HIDE DEF A
  <2> QED
    BY <1>1, <1>2, Induction
<1> QED
  BY <1>3

(* As long as the levels grow they are larger than their number says; so   *)
(* the last one is a solution.                                             *)
LEMMA ReturnsSolve ==
    ASSUME prog \in Programs
    PROVE  Returns \in SUBSET Triple /\ Improve(Returns) = Returns
<1> DEFINE N == Cardinality(Triple)
           W == ReturnsWithin
           Large(n) == IsFiniteSet(W[n]) /\ Cardinality(W[n]) >= n
           A == {n \in Nat : Large(n) \/ \E m \in Nat : m < n /\ W[m + 1] = W[m] /\ W[m] = W[n]}
<1>1. IsFiniteSet(Triple) /\ N \in Nat
  <2>1. IsFiniteSet(Func) /\ IsFiniteSet(Fact)
    BY CallAssumption
  <2>2. IsFiniteSet(Fact \X Fact) /\ IsFiniteSet(Func \X (Fact \X Fact))
    BY <2>1, FS_Product
  <2> DEFINE P == Func \X (Fact \X Fact)
             h == [p \in P |-> <<p[1], p[2][1], p[2][2]>>]
  <2>3. h \in [P -> Triple]
    BY DEF Triple
  <2>4. \A r \in Triple : \E p \in P : h[p] = r
    <3> SUFFICES ASSUME NEW r \in Triple PROVE \E p \in P : h[p] = r
      OBVIOUS
    <3>1. <<r[1], <<r[2], r[3]>>>> \in P /\ r = <<r[1], r[2], r[3]>>
      BY DEF Triple
    <3> QED
      BY <3>1
  <2>5. h \in Surjection(P, Triple)
    BY <2>3, <2>4 DEF Surjection
  <2> HIDE DEF h, P
  <2>6. IsFiniteSet(P)
    BY <2>2 DEF P
  <2>7. IsFiniteSet(Triple)
    BY <2>5, <2>6, FS_Surjection
  <2> QED
    BY <2>7, FS_CardinalityType
<1>2. \A n \in Nat : W[n] \in SUBSET Triple /\ W[n] \subseteq W[n + 1]
                     /\ W[n + 1] = Improve(W[n]) /\ n + 1 \in Nat
  BY ReturnsLevels, ReturnsGrow
<1>3. \A n \in Nat : IsFiniteSet(W[n]) /\ Cardinality(W[n]) \in Nat /\ Cardinality(W[n]) <= N
  BY <1>1, <1>2, FS_Subset, FS_CardinalityType
<1>4. 0 \in A
  BY <1>3
<1>5. ASSUME NEW n \in Nat, n \in A PROVE n + 1 \in A
  <2>1. CASE \E m \in Nat : m < n /\ W[m + 1] = W[m] /\ W[m] = W[n]
    <3>1. PICK m \in Nat : m < n /\ W[m + 1] = W[m] /\ W[m] = W[n]
      BY <2>1
    <3>2. W[n + 1] = W[m] /\ m < n + 1
      BY <1>2, <3>1
    <3> QED
      BY <3>1, <3>2
  <2>2. CASE Large(n) /\ W[n + 1] = W[n]
    BY <2>2
  <2>3. CASE Large(n) /\ W[n + 1] # W[n]
    <3>1. Cardinality(W[n]) < Cardinality(W[n + 1])
      <4>1. PICK V, U : V = W[n] /\ U = W[n + 1]
        OBVIOUS
      <4>2. /\ IsFiniteSet(U) /\ V \in SUBSET U /\ V # U
            /\ Cardinality(V) \in Nat /\ Cardinality(U) \in Nat
        BY <1>2, <1>3, <2>3, <4>1
      <4>3. Cardinality(V) <= Cardinality(U) /\ Cardinality(V) # Cardinality(U)
        BY <4>2, FS_Subset
      <4> QED
        BY <4>1, <4>2, <4>3
    <3> QED
      BY <1>2, <1>3, <2>3, <3>1
  <2> QED
    BY <1>5, <2>1, <2>2, <2>3
<1>6. Nat \subseteq A
  <2> HIDE DEF A
  <2> QED
    BY <1>4, <1>5, Induction
<1>7. W[N + 1] = W[N]
  <2>1. N + 1 \in A /\ ~Large(N + 1)
    BY <1>1, <1>3, <1>6
  <2>2. PICK m \in Nat : m < N + 1 /\ W[m + 1] = W[m] /\ W[m] = W[N + 1]
    BY <2>1
  <2> DEFINE B == {k \in Nat : k >= m => W[k] = W[m]}
  <2>3. 0 \in B
    BY <2>2
  <2>4. ASSUME NEW k \in Nat, k \in B PROVE k + 1 \in B
    <3>1. k + 1 >= m => k >= m \/ k + 1 = m
      BY <2>2
    <3> QED
      BY <1>2, <2>2, <2>4, <3>1
  <2>5. Nat \subseteq B
    <3> HIDE DEF B
    <3> QED
      BY <2>3, <2>4, Induction
  <2>6. N >= m
    BY <1>1, <2>2
  <2> QED
    BY <1>1, <2>2, <2>5, <2>6
<1>8. Returns = W[N]
  BY DEF Returns, Triple
<1> HIDE DEF W
<1> QED
  BY <1>1, <1>2, <1>7, <1>8

LEMMA FollowedLevels ==
    ASSUME prog \in Programs
    PROVE  /\ FollowedWithin \in [Nat -> SUBSET Func]
           /\ FollowedWithin[0] = {}
           /\ \A n \in Nat : FollowedWithin[n + 1] =
                 {f \in Func : \A c \in Calls(f) : FollowedIn(FollowedWithin[n], c)}
<1> DEFINE Q == SUBSET Func
           Up(S) == {f \in Func : \A c \in Calls(f) : FollowedIn(S, c)}
           F == [S \in Q |-> Up(S)]
<1>1. F \in [Q -> Q]
  OBVIOUS
<1>2. {} \in Q
  OBVIOUS
<1> HIDE DEF Q, F, Up
<1>3. PICK g \in [Nat -> Q] : g = [n \in Nat |-> IF n = 0 THEN {} ELSE F[g[n - 1]]]
  BY <1>1, <1>2, Iterates DEF Orbit
<1>4. \A n \in Nat : n # 0 => F[g[n - 1]] = Up(g[n - 1])
  <2>1. \A n \in Nat : n # 0 => n - 1 \in Nat
    OBVIOUS
  <2>2. \A n \in Nat : n # 0 => g[n - 1] \in Q
    BY <1>3, <2>1
  <2> QED
    BY <2>2 DEF F
<1>5. g = [n \in Nat |-> IF n = 0 THEN {} ELSE Up(g[n - 1])]
  BY <1>3, <1>4, Zenon
<1>6. FollowedWithin = [n \in Nat |-> IF n = 0 THEN {} ELSE Up(FollowedWithin[n - 1])]
  BY <1>5, Zenon DEF FollowedWithin, Up
<1>7. /\ FollowedWithin[0] = {}
      /\ \A n \in Nat : FollowedWithin[n + 1] = Up(FollowedWithin[n])
  <2>1. \A n \in Nat : n + 1 \in Nat /\ n + 1 # 0 /\ (n + 1) - 1 = n
    OBVIOUS
  <2>2. \A n \in Nat :
           FollowedWithin[n] = IF n = 0 THEN {} ELSE Up(FollowedWithin[n - 1])
    BY <1>6, Zenon
  <2> QED
    BY <2>1, <2>2
<1>8. \A n \in Nat : FollowedWithin[n] \in SUBSET Func
  <2>1. ASSUME NEW n \in Nat PROVE FollowedWithin[n] \in SUBSET Func
    <3>1. FollowedWithin[n] = IF n = 0 THEN {} ELSE Up(FollowedWithin[n - 1])
      BY <1>6, Zenon
    <3> QED
      BY <3>1 DEF Up
  <2> QED
    BY <2>1
<1>9. FollowedWithin = [n \in Nat |-> FollowedWithin[n]]
  BY <1>6, Zenon
<1> QED
  BY <1>7, <1>8, <1>9 DEF Up

-----------------------------------------------------------------------------
(* What is known of the facts in the graphs. *)

Run(t, b, x) == Execution(Returns, prog[t.fn].blocks[b].code, x)
End(t, b) == Len(prog[t.fn].blocks[b].code)

(* What may be true at the place an analysis is at, or was at a return that*)
(* it is done with, it admits.                                             *)
Admits(t) ==
    /\ t.bb # 0 => \A x \in t.initial.facts : Run(t, t.bb, x)[t.at - 1] \subseteq t.state.facts
    /\ \A b \in DOMAIN prog[t.fn].blocks :
          prog[t.fn].blocks[b].end = "return" /\ b \notin t.worklist /\ b # t.bb
          => \A x \in t.initial.facts : Run(t, b, x)[End(t, b)] \subseteq UNION {g.facts : g \in t.exits}

(* What it admits may be true. *)
Precise(t) ==
    /\ t.bb # 0 => \A y \in t.state.facts :
                      \E x \in t.initial.facts : y \in Run(t, t.bb, x)[t.at - 1]
    /\ \A g \in t.exits : \A y \in g.facts : \E x \in t.initial.facts : <<t.fn, x, y>> \in Returns

(* Each analysis but the first is that of the call its caller is at, and   *)
(* has started from what the caller admits there.                          *)
At(t) == Code(t)[t.at]

CalledFrom(t, c) ==
    /\ At(t).op = "call" /\ At(t).callee = c.fn /\ t.state.facts # {}
    /\ c.initial.facts = t.state.facts
    /\ prog[c.fn].kind = "plain" /\ ~empty(c.fn)

Called ==
    /\ stack # <<>> => stack[1].fn = start.fn /\ stack[1].initial = start.graph
    /\ \A k \in DOMAIN stack : k + 1 \in DOMAIN stack => CalledFrom(stack[k], stack[k + 1])

(* The depth to which the calls of a function can be followed falls from   *)
(* caller to callee.                                                       *)
Shallower ==
    \A i, j \in DOMAIN stack : \A n \in Nat :
        i < j /\ stack[i].fn \in FollowedWithin[n]
        => \E m \in Nat : m < n /\ stack[j].fn \in FollowedWithin[m]

FlowInv ==
    /\ ~empty(start.fn)
    /\ Called
    /\ Shallower
    /\ \A k \in DOMAIN stack : Admits(stack[k])
    /\ start.fn \in FollowedThrough => \A k \in DOMAIN stack : Precise(stack[k])
    /\ SoundCalls
    /\ ExactCalls

LEMMA SameProgram ==
    ASSUME prog' = prog, start' = start
    PROVE  /\ Returns' = Returns /\ Expected' = Expected
           /\ FollowedWithin' = FollowedWithin /\ FollowedThrough' = FollowedThrough
<1>1. Returns' = Returns
  BY DEF Returns, ReturnsWithin, Improve, Outcomes, Execution, Execute, empty
<1>2. Expected' = Expected
  BY <1>1 DEF Expected
<1>3. FollowedWithin' = FollowedWithin
  BY DEF FollowedWithin, FollowedIn, Calls, empty, entryUnreachable
<1> QED
  BY <1>1, <1>2, <1>3 DEF FollowedThrough

LEMMA SameFlow ==
    ASSUME prog' = prog, start' = start
    PROVE  /\ \A t : Admits(t)' <=> Admits(t)
           /\ \A t : Precise(t)' <=> Precise(t)
           /\ \A t, c : CalledFrom(t, c)' <=> CalledFrom(t, c)
<1>1. Returns' = Returns
  BY SameProgram
<1>2. \A t, b, x : Run(t, b, x)' = Run(t, b, x)
  BY <1>1 DEF Run, Execution, Execute, empty
<1>3. \A t, b : End(t, b)' = End(t, b)
  BY DEF End
<1>4. \A t : Admits(t)' <=> Admits(t)
  BY <1>2, <1>3 DEF Admits
<1>5. \A t : Precise(t)' <=> Precise(t)
  BY <1>1, <1>2 DEF Precise
<1>6. \A t, c : CalledFrom(t, c)' <=> CalledFrom(t, c)
  BY DEF CalledFrom, At, Code, empty
<1> QED
  BY <1>4, <1>5, <1>6

LEMMA RunSteps ==
    ASSUME TypeOK, NEW t \in Analysis, NEW b \in DOMAIN prog[t.fn].blocks, NEW x \in Fact
    PROVE  /\ End(t, b) \in Nat
           /\ Run(t, b, x) \in [0 .. End(t, b) -> SUBSET Fact]
           /\ Run(t, b, x)[0] = {x}
           /\ \A n \in 1 .. End(t, b) :
                 /\ prog[t.fn].blocks[b].code[n] \in Instruction
                 /\ Run(t, b, x)[n] =
                       Execute(Returns, prog[t.fn].blocks[b].code[n], Run(t, b, x)[n - 1])
<1>1. prog \in Programs /\ t.fn \in Func
  BY DEF TypeOK, Analysis
<1>2. PICK c \in Seq(Instruction) : c = prog[t.fn].blocks[b].code /\ Len(c) \in Nat
  BY <1>1, ProgramType
<1>3. Returns \in SUBSET Triple
  BY <1>1, ReturnsSolve
<1>4. /\ Execution(Returns, c, x) \in [0 .. Len(c) -> SUBSET Fact]
      /\ Execution(Returns, c, x)[0] = {x}
      /\ \A n \in 1 .. Len(c) :
            Execution(Returns, c, x)[n] = Execute(Returns, c[n], Execution(Returns, c, x)[n - 1])
  BY <1>3, ExecutionSteps
<1>5. \A n \in 1 .. Len(c) : c[n] \in Instruction
  OBVIOUS
<1> QED
  BY <1>2, <1>4, <1>5 DEF Run, End

(* What a call returns is what is true at one of the returns.              *)
LEMMA ReturnsAre ==
    ASSUME TypeOK, NEW t \in Analysis, NEW x \in Fact, NEW y
    PROVE  <<t.fn, x, y>> \in Returns <=>
              \E b \in DOMAIN prog[t.fn].blocks :
                 prog[t.fn].blocks[b].end = "return" /\ y \in Run(t, b, x)[End(t, b)]
<1>1. prog \in Programs /\ t.fn \in Func
  BY DEF TypeOK, Analysis
<1>2. Returns \in SUBSET Triple /\ Improve(Returns) = Returns
  BY <1>1, ReturnsSolve
<1>3. \A r : r \in Returns <=> r \in Triple /\ r[3] \in Outcomes(Returns, r[1], r[2])
  BY <1>1, <1>2, ImproveMonotone
<1>4. <<t.fn, x, y>> \in Returns <=> y \in Fact /\ y \in Outcomes(Returns, t.fn, x)
  BY <1>1, <1>3 DEF Triple
<1>5. /\ Outcomes(Returns, t.fn, x) \subseteq Fact
      /\ y \in Outcomes(Returns, t.fn, x) <=>
            \E b \in DOMAIN prog[t.fn].blocks :
               prog[t.fn].blocks[b].end = "return" /\ y \in Run(t, b, x)[End(t, b)]
  BY <1>1, <1>2, OutcomesAre DEF Run, End
<1> QED
  BY <1>4, <1>5

LEMMA FactsType ==
    ASSUME NEW t \in Analysis
    PROVE  /\ t.fn \in Func /\ t.initial.facts \subseteq Fact /\ t.state.facts \subseteq Fact
           /\ t.state \in Graph /\ t.initial \in Graph
           /\ \A g \in t.exits : g \in Graph /\ g.facts \subseteq Fact
  BY DEF Analysis, Graph

(* An instruction whose effect is admitted leaves an analysis sound.       *)
LEMMA AdmitsStep ==
    ASSUME TypeOK, NEW t \in Analysis, Placed(t), t.bb # 0, t.at <= Len(Code(t)), Admits(t),
           NEW u \in Analysis, u.fn = t.fn, u.bb = t.bb, u.worklist = t.worklist,
           u.at = t.at + 1, u.initial = t.initial, u.exits = t.exits,
           Execute(Returns, At(t), t.state.facts) \subseteq u.state.facts
    PROVE  Admits(u)
<1>1. /\ t.bb \in DOMAIN prog[t.fn].blocks /\ t.at \in 1 .. End(t, t.bb)
      /\ At(t) = prog[t.fn].blocks[t.bb].code[t.at]
      /\ Len(Code(t)) = End(t, t.bb) /\ t.at \in Nat
  BY DEF Placed, At, Code, End, Analysis
<1>2. \A x, b : Run(u, b, x) = Run(t, b, x) /\ End(u, b) = End(t, b)
  BY DEF Run, End
<1>3. ASSUME NEW x \in t.initial.facts PROVE Run(u, u.bb, x)[u.at - 1] \subseteq u.state.facts
  <2>1. x \in Fact
    BY FactsType
  <2>2. PICK X : X = Run(t, t.bb, x)[t.at - 1]
    OBVIOUS
  <2>3. X \subseteq t.state.facts
    BY <2>2 DEF Admits
  <2>4. Run(t, t.bb, x)[t.at] = Execute(Returns, At(t), X) /\ At(t) \in Instruction
    BY <1>1, <2>1, <2>2, RunSteps
  <2>5. Returns \subseteq Triple
    BY ReturnsSolve DEF TypeOK
  <2>6. Execute(Returns, At(t), X) \subseteq Execute(Returns, At(t), t.state.facts)
    <3>1. t.state.facts \subseteq Fact
      BY FactsType
    <3> QED
      BY <2>3, <2>4, <2>5, <3>1, ExecuteMonotone
  <2>7. u.at - 1 = t.at
    BY <1>1
  <2> QED
    BY <1>2, <2>4, <2>6, <2>7
<1> QED
  BY <1>2, <1>3 DEF Admits

LEMMA PreciseStep ==
    ASSUME TypeOK, NEW t \in Analysis, Placed(t), t.bb # 0, t.at <= Len(Code(t)), Precise(t),
           NEW u \in Analysis, u.fn = t.fn, u.bb = t.bb, u.worklist = t.worklist,
           u.at = t.at + 1, u.initial = t.initial, u.exits = t.exits,
           u.state.facts \subseteq Execute(Returns, At(t), t.state.facts)
    PROVE  Precise(u)
<1>1. /\ t.bb \in DOMAIN prog[t.fn].blocks /\ t.at \in 1 .. End(t, t.bb)
      /\ At(t) = prog[t.fn].blocks[t.bb].code[t.at]
      /\ Len(Code(t)) = End(t, t.bb) /\ t.at \in Nat
  BY DEF Placed, At, Code, End, Analysis
<1>2. \A x, b : Run(u, b, x) = Run(t, b, x)
  BY DEF Run
<1>3. ASSUME NEW y \in u.state.facts
      PROVE  \E x \in t.initial.facts : y \in Run(u, u.bb, x)[u.at - 1]
  <2>1. At(t) \in Instruction
    <3>1. prog \in Programs /\ t.fn \in Func
      BY FactsType DEF TypeOK
    <3>2. PICK c \in Seq(Instruction) : c = prog[t.fn].blocks[t.bb].code
      BY <1>1, <3>1, ProgramType
    <3>3. t.at \in 1 .. Len(c) /\ At(t) = c[t.at]
      BY <1>1, <3>2 DEF End
    <3> QED
      BY <3>3
  <2>2. PICK z \in t.state.facts : y \in Execute(Returns, At(t), {z})
    BY <1>3, <2>1, ExecuteEach
  <2>3. PICK x \in t.initial.facts : z \in Run(t, t.bb, x)[t.at - 1]
    BY DEF Precise
  <2>4. x \in Fact
    BY FactsType
  <2>5. PICK X : X = Run(t, t.bb, x)[t.at - 1]
    OBVIOUS
  <2>6. Run(t, t.bb, x)[t.at] = Execute(Returns, At(t), X) /\ X \in SUBSET Fact
    <3>1. t.at - 1 \in 0 .. End(t, t.bb)
      BY <1>1
    <3> QED
      BY <1>1, <2>4, <2>5, <3>1, RunSteps
  <2>7. Returns \subseteq Triple
    BY ReturnsSolve DEF TypeOK
  <2>8. Execute(Returns, At(t), {z}) \subseteq Execute(Returns, At(t), X)
    BY <2>1, <2>3, <2>5, <2>6, <2>7, ExecuteMonotone
  <2>9. u.at - 1 = t.at
    BY <1>1
  <2> QED
    BY <1>2, <2>2, <2>6, <2>8, <2>9
<1> QED
  BY <1>2, <1>3 DEF Precise

(* The result of an analysis that has ended. *)
LEMMA ResultFacts ==
    ASSUME TypeOK, NEW t \in Analysis, Ended(t), Admits(t)
    PROVE  /\ \A x \in t.initial.facts : \A y :
                 <<t.fn, x, y>> \in Returns => y \in getResult(t).facts
           /\ Precise(t) => \A y \in getResult(t).facts :
                 \E x \in t.initial.facts : <<t.fn, x, y>> \in Returns
<1>1. getResult(t).facts = UNION {g.facts : g \in t.exits}
  BY DEF getResult
<1>2. ASSUME NEW x \in t.initial.facts, NEW y, <<t.fn, x, y>> \in Returns
      PROVE  y \in getResult(t).facts
  <2>1. x \in Fact
    BY FactsType
  <2>2. PICK b \in DOMAIN prog[t.fn].blocks :
            prog[t.fn].blocks[b].end = "return" /\ y \in Run(t, b, x)[End(t, b)]
    BY <1>2, <2>1, ReturnsAre
  <2>3. b # 0
    BY ProgramType, FactsType DEF TypeOK
  <2> QED
    BY <1>1, <2>2, <2>3 DEF Admits, Ended
<1>3. ASSUME Precise(t), NEW y \in getResult(t).facts
      PROVE  \E x \in t.initial.facts : <<t.fn, x, y>> \in Returns
  BY <1>1, <1>3 DEF Precise
<1> QED
  BY <1>2, <1>3

(* The invariant of the next state, told by its stack. *)
LEMMA FlowOf ==
    ASSUME FlowInv, UNCHANGED <<prog, start, result>>, NEW n \in Nat \ {0},
           DOMAIN stack' = 1 .. n,
           stack'[1].fn = start.fn, stack'[1].initial = start.graph,
           \A k \in 1 .. n : k < n => CalledFrom(stack'[k], stack'[k + 1]),
           \A i, j \in 1 .. n : \A m \in Nat :
               i < j /\ stack'[i].fn \in FollowedWithin[m]
               => \E l \in Nat : l < m /\ stack'[j].fn \in FollowedWithin[l],
           \A k \in 1 .. n : Admits(stack'[k]),
           start.fn \in FollowedThrough => \A k \in 1 .. n : Precise(stack'[k])
    PROVE  FlowInv'
<1>1. /\ Expected' = Expected /\ FollowedWithin' = FollowedWithin
      /\ FollowedThrough' = FollowedThrough
  BY SameProgram
<1>2. (~empty(start.fn))'
  BY DEF FlowInv, empty
<1>3. Called'
  <2>1. \A k \in 1 .. n : k + 1 \in 1 .. n => k < n
    OBVIOUS
  <2> QED
    BY <2>1, SameFlow DEF Called
<1>4. Shallower'
  BY <1>1 DEF Shallower
<1>5. (\A k \in DOMAIN stack : Admits(stack[k]))'
  BY SameFlow
<1>6. (start.fn \in FollowedThrough => \A k \in DOMAIN stack : Precise(stack[k]))'
  BY <1>1, SameFlow
<1>7. SoundCalls' /\ ExactCalls'
  BY <1>1 DEF FlowInv, SoundCalls, ExactCalls
<1> QED
  BY <1>2, <1>3, <1>4, <1>5, <1>6, <1>7 DEF FlowInv

LEMMA FlowTop ==
    ASSUME IInv, FlowInv, NEW n \in Nat \ {0}, n = Len(stack),
           NEW t, t.fn = Top.fn, t.initial = Top.initial, Admits(t),
           start.fn \in FollowedThrough => Precise(t),
           SetTop(t), UNCHANGED <<prog, start, result>>
    PROVE  FlowInv'
<1>1. Top = stack[n] /\ DOMAIN stack = 1 .. n /\ stack \in Seq(Analysis)
  BY DEF IInv, TypeOK, Top, Last
<1>2. /\ DOMAIN stack' = 1 .. n /\ stack'[n] = t
      /\ \A k \in 1 .. n : k # n => stack'[k] = stack[k]
  BY <1>1 DEF SetTop
<1>3. \A k \in 1 .. n : stack'[k].fn = stack[k].fn /\ stack'[k].initial = stack[k].initial
  BY <1>1, <1>2
<1>4. stack'[1].fn = start.fn /\ stack'[1].initial = start.graph
  BY <1>1, <1>3 DEF FlowInv, Called
<1>5. ASSUME NEW k \in 1 .. n, k < n PROVE CalledFrom(stack'[k], stack'[k + 1])
  <2>1. k # n /\ k + 1 \in 1 .. n
    BY <1>5
  <2>2. stack'[k] = stack[k] /\ CalledFrom(stack[k], stack[k + 1])
    BY <1>1, <1>2, <2>1 DEF FlowInv, Called
  <2> QED
    BY <1>3, <2>1, <2>2 DEF CalledFrom
<1>6. \A i, j \in 1 .. n : \A m \in Nat :
          i < j /\ stack'[i].fn \in FollowedWithin[m]
          => \E l \in Nat : l < m /\ stack'[j].fn \in FollowedWithin[l]
  BY <1>1, <1>3 DEF FlowInv, Shallower
<1>7. \A k \in 1 .. n : Admits(stack'[k])
  BY <1>1, <1>2 DEF FlowInv
<1>8. start.fn \in FollowedThrough => \A k \in 1 .. n : Precise(stack'[k])
  BY <1>1, <1>2 DEF FlowInv
<1> QED
  BY <1>2, <1>4, <1>5, <1>6, <1>7, <1>8, FlowOf

LEMMA FlowPush ==
    ASSUME IInv, FlowInv, NEW n \in Nat \ {0}, n = Len(stack),
           NEW t, t.fn = Top.fn, t.initial = Top.initial, NEW c,
           Admits(t), Admits(c), CalledFrom(t, c),
           start.fn \in FollowedThrough => Precise(t) /\ Precise(c),
           \A m \in Nat : Top.fn \in FollowedWithin[m]
               => \E l \in Nat : l < m /\ c.fn \in FollowedWithin[l],
           stack' = Append([stack EXCEPT ![n] = t], c),
           UNCHANGED <<prog, start, result>>
    PROVE  FlowInv'
<1>1. Top = stack[n] /\ DOMAIN stack = 1 .. n /\ stack \in Seq(Analysis)
  BY DEF IInv, TypeOK, Top, Last
<1>2. /\ DOMAIN stack' = 1 .. n + 1 /\ stack'[n + 1] = c /\ stack'[n] = t
      /\ \A k \in 1 .. n : k # n => stack'[k] = stack[k]
  BY <1>1
<1>3. \A k \in 1 .. n : stack'[k].fn = stack[k].fn /\ stack'[k].initial = stack[k].initial
  BY <1>1, <1>2
<1>4. stack'[1].fn = start.fn /\ stack'[1].initial = start.graph
  BY <1>1, <1>3 DEF FlowInv, Called
<1>5. ASSUME NEW k \in 1 .. n + 1, k < n + 1 PROVE CalledFrom(stack'[k], stack'[k + 1])
  <2>1. CASE k = n
    BY <1>2, <2>1
  <2>2. CASE k # n
    <3>1. k \in 1 .. n /\ k + 1 \in 1 .. n
      BY <1>5, <2>2
    <3>2. stack'[k] = stack[k] /\ CalledFrom(stack[k], stack[k + 1])
      BY <1>1, <1>2, <2>2, <3>1 DEF FlowInv, Called
    <3> QED
      BY <1>3, <3>1, <3>2 DEF CalledFrom
  <2> QED
    BY <2>1, <2>2
<1>6. ASSUME NEW i \in 1 .. n + 1, NEW j \in 1 .. n + 1, NEW m \in Nat,
             i < j, stack'[i].fn \in FollowedWithin[m]
      PROVE  \E l \in Nat : l < m /\ stack'[j].fn \in FollowedWithin[l]
  <2>1. i \in 1 .. n
    BY <1>6
  <2>2. CASE j # n + 1
    <3>1. j \in 1 .. n
      BY <2>2
    <3> QED
      BY <1>1, <1>3, <1>6, <2>1, <3>1 DEF FlowInv, Shallower
  <2>3. CASE j = n + 1 /\ i = n
    BY <1>1, <1>2, <1>3, <1>6, <2>3
  <2>4. CASE j = n + 1 /\ i # n
    <3>1. i < n
      BY <2>1, <2>4
    <3>2. PICK l \in Nat : l < m /\ Top.fn \in FollowedWithin[l]
      BY <1>1, <1>3, <1>6, <2>1, <3>1 DEF FlowInv, Shallower
    <3>3. PICK k \in Nat : k < l /\ c.fn \in FollowedWithin[k]
      BY <3>2
    <3>4. k < m
      BY <3>2, <3>3
    <3> QED
      BY <1>2, <2>4, <3>3, <3>4
  <2> QED
    BY <2>2, <2>3, <2>4
<1>7. \A k \in 1 .. n + 1 : Admits(stack'[k])
  BY <1>1, <1>2 DEF FlowInv
<1>8. start.fn \in FollowedThrough => \A k \in 1 .. n + 1 : Precise(stack'[k])
  BY <1>1, <1>2 DEF FlowInv
<1>9. PICK m \in Nat \ {0} : m = n + 1
  OBVIOUS
<1>10. DOMAIN stack' = 1 .. m
  BY <1>2, <1>9
<1>11. \A k \in 1 .. m : k < m => CalledFrom(stack'[k], stack'[k + 1])
  BY <1>5, <1>9
<1>12. \A i, j \in 1 .. m : \A l \in Nat :
           i < j /\ stack'[i].fn \in FollowedWithin[l]
           => \E k \in Nat : k < l /\ stack'[j].fn \in FollowedWithin[k]
  BY <1>6, <1>9
<1>13. \A k \in 1 .. m : Admits(stack'[k])
  BY <1>7, <1>9
<1>14. start.fn \in FollowedThrough => \A k \in 1 .. m : Precise(stack'[k])
  BY <1>8, <1>9
<1> QED
  BY <1>4, <1>10, <1>11, <1>12, <1>13, <1>14, FlowOf

LEMMA FlowPop ==
    ASSUME IInv, FlowInv, NEW n \in Nat \ {0}, Len(stack) = n + 1,
           NEW t, t.fn = Caller.fn, t.initial = Caller.initial, Admits(t),
           start.fn \in FollowedThrough => Precise(t),
           stack' = [Front(stack) EXCEPT ![n] = t],
           UNCHANGED <<prog, start, result>>
    PROVE  FlowInv'
<1>1. Caller = stack[n] /\ DOMAIN stack = 1 .. n + 1 /\ stack \in Seq(Analysis)
  BY DEF IInv, TypeOK, Caller
<1>2. /\ DOMAIN stack' = 1 .. n /\ stack'[n] = t
      /\ \A k \in 1 .. n : k # n => stack'[k] = stack[k]
  <2>1. /\ Front(stack) \in Seq(Analysis) /\ Len(Front(stack)) = n
        /\ \A k \in 1 .. n : Front(stack)[k] = stack[k]
    BY <1>1 DEF Front
  <2> QED
    BY <2>1
<1>3. \A k \in 1 .. n : stack'[k].fn = stack[k].fn /\ stack'[k].initial = stack[k].initial
  BY <1>1, <1>2
<1>4. stack'[1].fn = start.fn /\ stack'[1].initial = start.graph
  BY <1>1, <1>3 DEF FlowInv, Called
<1>5. ASSUME NEW k \in 1 .. n, k < n PROVE CalledFrom(stack'[k], stack'[k + 1])
  <2>1. k # n /\ k + 1 \in 1 .. n /\ k \in 1 .. n + 1 /\ k + 1 \in 1 .. n + 1
    BY <1>5
  <2>2. stack'[k] = stack[k] /\ CalledFrom(stack[k], stack[k + 1])
    BY <1>1, <1>2, <2>1 DEF FlowInv, Called
  <2> QED
    BY <1>3, <2>1, <2>2 DEF CalledFrom
<1>6. \A i, j \in 1 .. n : \A m \in Nat :
          i < j /\ stack'[i].fn \in FollowedWithin[m]
          => \E l \in Nat : l < m /\ stack'[j].fn \in FollowedWithin[l]
  <2>1. \A i \in 1 .. n : i \in DOMAIN stack
    BY <1>1
  <2> QED
    BY <1>3, <2>1 DEF FlowInv, Shallower
<1>7. \A k \in 1 .. n : Admits(stack'[k])
  BY <1>1, <1>2 DEF FlowInv
<1>8. start.fn \in FollowedThrough => \A k \in 1 .. n : Precise(stack'[k])
  BY <1>1, <1>2 DEF FlowInv
<1> QED
  BY <1>2, <1>4, <1>5, <1>6, <1>7, <1>8, FlowOf

(* Every analysis on the stack has a body, and all but the first are those *)
(* of functions whose names are on none of handleCall's lists.             *)
LEMMA StackBodies ==
    ASSUME IInv, FlowInv, NEW k \in DOMAIN stack
    PROVE  /\ ~empty(stack[k].fn)
           /\ stack[k].fn # start.fn => prog[stack[k].fn].kind = "plain"
<1>1. stack \in Seq(Analysis) /\ DOMAIN stack = 1 .. Len(stack) /\ Len(stack) \in Nat
  BY DEF IInv, TypeOK
<1>2. CASE k = 1
  BY <1>1, <1>2 DEF FlowInv, Called
<1>3. CASE k # 1
  <2>1. k - 1 \in DOMAIN stack /\ (k - 1) + 1 = k
    BY <1>1, <1>3
  <2>2. CalledFrom(stack[k - 1], stack[k])
    BY <2>1 DEF FlowInv, Called
  <2> QED
    BY <2>2 DEF CalledFrom
<1> QED
  BY <1>2, <1>3

(* If the calls of the method can be followed, so can those of the function*)
(* at the top, to some least depth.                                        *)
LEMMA TopFollowed ==
    ASSUME IInv, FlowInv, stack # <<>>, start.fn \in FollowedThrough
    PROVE  \E n \in Nat : /\ Top.fn \in FollowedWithin[n]
                          /\ \A m \in Nat : Top.fn \in FollowedWithin[m] => n <= m
<1>1. PICK N \in Nat : N = Cardinality(Func)
  BY CallAssumption, FS_CardinalityType
<1>2. /\ Top = stack[Len(stack)] /\ Len(stack) \in Nat \ {0} /\ Len(stack) \in DOMAIN stack
      /\ 1 \in DOMAIN stack
  BY TopType DEF IInv, TypeOK
<1>3. stack[1].fn \in FollowedWithin[N]
  BY <1>1 DEF FlowInv, Called, FollowedThrough
<1>4. \E n \in Nat : Top.fn \in FollowedWithin[n]
  <2>1. CASE Len(stack) = 1
    BY <1>2, <1>3, <2>1
  <2>2. CASE Len(stack) # 1
    BY <1>2, <1>3, <2>2 DEF FlowInv, Shallower
  <2> QED
    BY <2>1, <2>2
<1> DEFINE D == {n \in Nat : Top.fn \in FollowedWithin[n]}
<1>5. D \in SUBSET Nat /\ D # {}
  BY <1>4
<1>6. PICK n \in D : \A m \in D : n <= m
  <2> HIDE DEF D
  <2> QED
    BY <1>5, Least
<1> QED
  BY <1>6

LEMMA CallFollowed ==
    ASSUME IInv, AtInstruction, I.op = "call", NEW n \in Nat, Top.fn \in FollowedWithin[n]
    PROVE  n # 0 /\ FollowedIn(FollowedWithin[n - 1], I)
<1>1. Top \in Analysis /\ Placed(Top) /\ Top.bb # 0 /\ prog \in Programs
  BY TopType DEF IInv, TypeOK, AtInstruction
<1>2. n # 0
  BY <1>1, FollowedLevels
<1>3. PICK m \in Nat : m = n - 1 /\ n = m + 1
  BY <1>2
<1>4. \A c \in Calls(Top.fn) : FollowedIn(FollowedWithin[m], c)
  BY <1>1, <1>3, FollowedLevels
<1>5. I \in Calls(Top.fn)
  <2>1. PICK b \in DOMAIN prog[Top.fn].blocks : b = Top.bb
    BY <1>1 DEF Placed
  <2>2. PICK c \in Seq(Instruction) : c = prog[Top.fn].blocks[b].code /\ c = Code(Top)
    BY <1>1, <2>1, FactsType, ProgramType DEF Code
  <2>3. Top.at \in DOMAIN c /\ I = c[Top.at]
    BY <1>1, <2>2 DEF AtInstruction, Analysis, Placed, I
  <2>4. I \in ToSet(prog[Top.fn].blocks[b].code)
    BY <2>2, <2>3 DEF ToSet
  <2> QED
    BY <2>4 DEF Calls
<1> QED
  BY <1>2, <1>3, <1>4, <1>5

(* A call that is followed is of a function that is not being analysed.    *)
LEMMA CallNotRecursive ==
    ASSUME IInv, FlowInv, AtInstruction, I.op = "call", start.fn \in FollowedThrough,
           I.callee # Null
    PROVE  /\ ~isRecursive(I.callee)
           /\ \/ prog[I.callee].kind = "ignored"
              \/ empty(I.callee)
              \/ I.match /\ prog[I.callee].kind = "plain" /\ ~entryUnreachable(I.callee)
<1>1. PICK n \in Nat : /\ Top.fn \in FollowedWithin[n]
                       /\ \A m \in Nat : Top.fn \in FollowedWithin[m] => n <= m
  BY TopFollowed DEF AtInstruction
<1>2. PICK k \in Nat : k = n - 1 /\ k < n /\ FollowedIn(FollowedWithin[k], I)
  BY <1>1, CallFollowed
<1>3. ASSUME NEW j \in DOMAIN stack, stack[j].fn = I.callee PROVE FALSE
  <2>1. ~empty(I.callee) /\ (I.callee # start.fn => prog[I.callee].kind = "plain")
    BY <1>3, StackBodies
  <2>2. I.callee \in FollowedWithin[k]
    BY <1>2, <2>1 DEF FollowedIn
  <2>3. Top = stack[Len(stack)] /\ Len(stack) \in DOMAIN stack /\ DOMAIN stack = 1 .. Len(stack)
        /\ Len(stack) \in Nat
    BY TopType DEF IInv, TypeOK, AtInstruction
  <2>4. CASE j = Len(stack)
    BY <1>1, <1>2, <1>3, <2>2, <2>3, <2>4
  <2>5. CASE j # Len(stack)
    <3>1. j < Len(stack)
      BY <2>3, <2>5
    <3>2. PICK m \in Nat : m < k /\ Top.fn \in FollowedWithin[m]
      BY <1>3, <2>2, <2>3, <3>1 DEF FlowInv, Shallower
    <3> QED
      BY <1>1, <1>2, <3>2
  <2> QED
    BY <2>4, <2>5
<1>4. ~isRecursive(I.callee)
  BY <1>3 DEF isRecursive
<1> QED
  BY <1>2, <1>4 DEF FollowedIn

LEMMA UnknownFlow ==
    ASSUME IInv, FlowInv, AtCall, ~Ignored(I), ~Analysed(I), start.fn \in FollowedThrough
    PROVE  Execute(Returns, I, Top.state.facts) = Fact
<1>1. AtInstruction /\ I.op = "call" /\ Top.state.facts # {}
  BY DEF AtCall
<1>2. CASE I.callee = Null
  BY <1>1, <1>2 DEF Execute
<1>3. CASE I.callee # Null
  <2>1. prog[I.callee].kind # "ignored" /\ empty(I.callee)
    BY <1>1, <1>3, CallNotRecursive DEF Ignored, Analysed
  <2> QED
    BY <1>1, <1>3, <2>1 DEF Execute
<1> QED
  BY <1>2, <1>3

LEMMA IgnoredFlow ==
    ASSUME IInv, FlowInv, AtCall, Ignored(I)
    PROVE  /\ Execute(Returns, I, Top.state.facts) \subseteq Top.state.facts
           /\ start.fn \in FollowedThrough =>
                 Execute(Returns, I, Top.state.facts) = Top.state.facts
<1>1. AtInstruction /\ I.op = "call" /\ Top.state.facts # {} /\ I.callee # Null
  BY DEF AtCall, Ignored
<1>2. CASE prog[I.callee].kind = "ignored"
  BY <1>1, <1>2 DEF Execute
<1>3. CASE prog[I.callee].kind # "ignored"
  <2>1. ~empty(I.callee) /\ entryUnreachable(I.callee)
    BY <1>3 DEF Ignored
  <2>2. start.fn \notin FollowedThrough
    BY <1>1, <1>3, <2>1, CallNotRecursive
  <2>3. I.callee \in Func /\ prog \in Programs
    BY <1>1, InstructionType DEF IInv, TypeOK
  <2>4. Returns \in SUBSET Triple /\ Improve(Returns) = Returns
    BY <2>3, ReturnsSolve
  <2>5. ASSUME NEW r \in Returns, r[1] = I.callee PROVE FALSE
    <3>1. r \in Triple /\ r[3] \in Outcomes(Returns, r[1], r[2])
      BY <2>3, <2>4, ImproveMonotone
    <3>2. r[2] \in Fact /\ r[3] \in Fact
      BY <3>1 DEF Triple
    <3>3. PICK b \in DOMAIN prog[I.callee].blocks : prog[I.callee].blocks[b].end = "return"
      <4>1. PICK f \in Func : f = I.callee
        BY <2>3
      <4>2. r[3] \in Outcomes(Returns, f, r[2])
        BY <2>5, <3>1, <4>1
      <4>3. PICK x \in Fact, y \in Fact : x = r[2] /\ y = r[3]
        BY <3>2
      <4>4. y \in Outcomes(Returns, f, x)
        BY <4>2, <4>3
      <4>5. PICK b \in DOMAIN prog[f].blocks :
               /\ prog[f].blocks[b].end = "return"
               /\ y \in Execution(Returns, prog[f].blocks[b].code, x)[Len(prog[f].blocks[b].code)]
        BY <2>3, <2>4, <4>4, OutcomesAre
      <4> QED
        BY <4>1, <4>5
    <3>4. b = 1
      BY <2>1, <2>3, ProgramType DEF entryUnreachable
    <3> QED
      BY <2>1, <3>3, <3>4 DEF entryUnreachable
  <2>6. Execute(Returns, I, Top.state.facts) = {}
    <3>1. {r[3] : r \in {q \in Returns : q[1] = I.callee /\ q[2] \in Top.state.facts}} = {}
      BY <2>5
    <3> QED
      BY <1>1, <1>3, <2>1, <3>1 DEF Execute
  <2> QED
    BY <2>2, <2>6
<1> QED
  BY <1>2, <1>3

LEMMA FlowStraight ==
    ASSUME IInv, FlowInv, AtInstruction,
           NEW g \in Graph, Execute(Returns, I, Top.state.facts) \subseteq g.facts,
           start.fn \in FollowedThrough => g.facts \subseteq Execute(Returns, I, Top.state.facts),
           SetTop(After(g)), UNCHANGED <<prog, start, result>>
    PROVE  FlowInv'
<1> DEFINE t == After(g)
<1>1. PICK n \in Nat \ {0} : n = Len(stack)
  BY TopType DEF IInv, AtInstruction
<1>2. Top = stack[n] /\ n \in DOMAIN stack /\ Top \in Analysis /\ Placed(Top) /\ Top.bb # 0
      /\ Top.at <= Len(Code(Top)) /\ TypeOK /\ I = At(Top)
  BY <1>1, TopType DEF IInv, AtInstruction, At, I
<1>3. /\ t \in Analysis /\ t.fn = Top.fn /\ t.worklist = Top.worklist /\ t.bb = Top.bb
      /\ t.at = Top.at + 1 /\ t.initial = Top.initial /\ t.exits = Top.exits /\ t.state = g
  <2>1. Advance(Top) = Top.at + 1 /\ Top.at + 1 \in Nat
    BY <1>2 DEF Advance, Analysis
  <2> QED
    BY <1>2, <2>1 DEF After, Analysis
<1> HIDE DEF t
<1>4. Admits(Top) /\ (start.fn \in FollowedThrough => Precise(Top))
  BY <1>2 DEF FlowInv
<1>5. PICK u, v : u = Top /\ v = t
  OBVIOUS
<1>6. Admits(v)
  BY <1>2, <1>3, <1>4, <1>5, AdmitsStep
<1>7. start.fn \in FollowedThrough => Precise(v)
  BY <1>2, <1>3, <1>4, <1>5, PreciseStep
<1>8. SetTop(v)
  BY <1>5 DEF t
<1> QED
  BY <1>1, <1>3, <1>5, <1>6, <1>7, <1>8, FlowTop

LEMMA InstructionFlow ==
    ASSUME IInv, FlowInv, Pass \/ Visit \/ IgnoredCall \/ handleUnknownCall
    PROVE  FlowInv'
<1>1. AtInstruction /\ UNCHANGED <<prog, start, result>>
  BY DEF Pass, Visit, IgnoredCall, handleUnknownCall, AtCall
<1>2. PICK g \in Graph : g = Top.state
  BY <1>1, TopType DEF IInv, AtInstruction, Analysis
<1>3. /\ I \in Instruction /\ I.op \in {"skip", "landing", "visit", "call"}
      /\ I.op = "visit" => I.effect \in [Fact -> SUBSET Fact]
  BY <1>1, CallAssumption, InstructionType, InstructionKinds DEF IInv
<1>4. CASE Pass
  <2>1. CASE g.facts = {} /\ SetTop(After(g))
    <3>1. Execute(Returns, I, g.facts) = {}
      BY <1>3, <2>1 DEF Execute
    <3>2. Execute(Returns, I, Top.state.facts) = g.facts
      BY <1>2, <2>1, <3>1
    <3> QED
      BY <1>1, <2>1, <3>2, FlowStraight
  <2>2. CASE I.op = "skip" /\ SetTop(After(g))
    <3>1. Execute(Returns, I, g.facts) = g.facts
      BY <2>2 DEF Execute
    <3> QED
      BY <1>1, <1>2, <2>2, <3>1, FlowStraight
  <2>3. CASE I.op = "landing" /\ SetTop(After(markIsBottom(g)))
    <3>1. Execute(Returns, I, g.facts) = {}
      BY <2>3 DEF Execute
    <3>2. PICK h \in Graph : h = markIsBottom(g) /\ h.facts = {}
      <4>1. markIsBottom(g) \in Graph /\ markIsBottom(g).facts = {}
        BY DEF markIsBottom, Graph
      <4> QED
        BY <4>1
    <3>3. Execute(Returns, I, Top.state.facts) = h.facts
      BY <1>2, <3>1, <3>2
    <3> QED
      BY <1>1, <2>3, <3>2, <3>3, FlowStraight
  <2> QED
    BY <1>2, <1>4, <2>1, <2>2, <2>3 DEF Pass
<1>5. CASE Visit
  <2>1. PICK h : h = visit(g, I.effect)
    OBVIOUS
  <2>2. I.op = "visit" /\ SetTop(After(h))
    BY <1>2, <1>5, <2>1 DEF Visit
  <2>3. Top.fn \in Func
    BY <1>1, TopType, FactsType DEF IInv, AtInstruction
  <2>4. h \in Graph /\ h.facts = UNION {I.effect[x] : x \in g.facts}
    BY <1>3, <2>1, <2>2, <2>3 DEF visit, Graph
  <2>5. Execute(Returns, I, g.facts) = UNION {I.effect[x] : x \in g.facts}
    BY <2>2 DEF Execute
  <2> QED
    BY <1>1, <1>2, <2>2, <2>4, <2>5, FlowStraight
<1>6. CASE IgnoredCall
  <2>1. AtCall /\ Ignored(I) /\ SetTop(After(g))
    BY <1>2, <1>6 DEF IgnoredCall
  <2>2. /\ Execute(Returns, I, g.facts) \subseteq g.facts
        /\ start.fn \in FollowedThrough => Execute(Returns, I, g.facts) = g.facts
    BY <1>2, <2>1, IgnoredFlow
  <2> QED
    BY <1>1, <1>2, <2>1, <2>2, FlowStraight
<1>7. CASE handleUnknownCall
  <2>1. AtCall /\ ~Ignored(I) /\ ~Analysed(I)
    BY <1>7 DEF handleUnknownCall
  <2>2. PICK h \in Graph : h = Unknown(g) /\ h.facts = Fact
    <3>1. Unknown(g) \in Graph /\ Unknown(g).facts = Fact
      BY DEF Unknown, Graph
    <3> QED
      BY <3>1
  <2>3. SetTop(After(h))
    BY <1>2, <1>7, <2>2 DEF handleUnknownCall
  <2>4. Execute(Returns, I, g.facts) \subseteq Fact
    <3>1. g.facts \in SUBSET Fact
      BY DEF Graph
    <3>2. Returns \in SUBSET Triple
      BY ReturnsSolve DEF IInv, TypeOK
    <3>3. Execute(Returns, I, g.facts) \in SUBSET Fact
      BY <1>3, <3>1, <3>2, ExecuteType
    <3> QED
      BY <3>3
  <2>5. start.fn \in FollowedThrough => Execute(Returns, I, g.facts) = Fact
    BY <1>2, <2>1, UnknownFlow
  <2> QED
    BY <1>1, <1>2, <2>2, <2>3, <2>4, <2>5, FlowStraight
<1> QED
  BY <1>4, <1>5, <1>6, <1>7

LEMMA TakeBlockFlow == ASSUME IInv, FlowInv, NEW b, TakeBlock(b) PROVE FlowInv'
<1>1. PICK n \in Nat \ {0} : n = Len(stack)
  BY TopType DEF IInv, TakeBlock
<1>2. Top = stack[n] /\ n \in DOMAIN stack /\ Top \in Analysis /\ Placed(Top) /\ TypeOK
  BY <1>1, TopType DEF IInv, TakeBlock
<1>3. b \in Top.worklist /\ b \in DOMAIN prog[Top.fn].blocks /\ Top.bb = 0
      /\ b # 0 /\ b \in Nat
  <2>1. b \in Top.worklist /\ b \in DOMAIN prog[Top.fn].blocks /\ Top.bb = 0
    BY <1>2 DEF TakeBlock, Placed
  <2> QED
    BY <1>2, <2>1, FactsType, ProgramType DEF TypeOK
<1>4. PICK t : t = [Top EXCEPT !.bb = b, !.at = 1, !.state = Top.initial, !.worklist = @ \ {b}]
  OBVIOUS
<1>5. /\ t.fn = Top.fn /\ t.worklist = Top.worklist \ {b} /\ t.bb = b
      /\ t.at = 1 /\ t.initial = Top.initial /\ t.exits = Top.exits /\ t.state = Top.initial
  BY <1>2, <1>4 DEF Analysis
<1>6. Admits(Top) /\ (start.fn \in FollowedThrough => Precise(Top))
  BY <1>2 DEF FlowInv
<1>7. \A x \in Top.initial.facts : Run(t, b, x)[t.at - 1] = {x}
  <2>1. \A x \in Top.initial.facts : x \in Fact
    BY <1>2, FactsType
  <2>2. \A x \in Fact : Run(Top, b, x)[0] = {x}
    BY <1>2, <1>3, RunSteps
  <2>3. \A x : Run(t, b, x) = Run(Top, b, x)
    BY <1>5 DEF Run
  <2>4. t.at - 1 = 0
    BY <1>5
  <2> QED
    BY <2>1, <2>2, <2>3, <2>4
<1>8. \A c, x : Run(t, c, x) = Run(Top, c, x) /\ End(t, c) = End(Top, c)
  BY <1>5 DEF Run, End
<1>9. Admits(t)
  <2>1. \A x \in t.initial.facts : Run(t, t.bb, x)[t.at - 1] \subseteq t.state.facts
    BY <1>5, <1>7
  <2>2. \A c \in DOMAIN prog[t.fn].blocks :
           c \notin t.worklist /\ c # t.bb => c \notin Top.worklist /\ c # Top.bb
    <3>1. \A c \in DOMAIN prog[Top.fn].blocks : c # 0
      BY <1>2, FactsType, ProgramType DEF TypeOK
    <3> QED
      BY <1>3, <1>5, <3>1
  <2> QED
    BY <1>5, <1>6, <1>8, <2>1, <2>2 DEF Admits
<1>10. start.fn \in FollowedThrough => Precise(t)
  BY <1>5, <1>6, <1>7 DEF Precise
<1>11. SetTop(t) /\ UNCHANGED <<prog, start, result>>
  BY <1>4 DEF TakeBlock
<1> QED
  BY <1>1, <1>5, <1>9, <1>10, <1>11, FlowTop

LEMMA ExitFlow == ASSUME IInv, FlowInv, handleExitTerminator PROVE FlowInv'
<1>1. PICK n \in Nat \ {0} : n = Len(stack)
  BY TopType DEF IInv, handleExitTerminator
<1>2. Top = stack[n] /\ n \in DOMAIN stack /\ Top \in Analysis /\ Placed(Top) /\ TypeOK
  BY <1>1, TopType DEF IInv, handleExitTerminator
<1>3. PICK b \in DOMAIN prog[Top.fn].blocks : b = Top.bb /\ b # 0 /\ Top.at - 1 = End(Top, b)
  <2>1. Top.bb \in DOMAIN prog[Top.fn].blocks /\ Top.bb # 0
        /\ Top.at > End(Top, Top.bb) /\ Top.at \in 1 .. End(Top, Top.bb) + 1
    BY <1>2 DEF handleExitTerminator, Placed, Code, End
  <2>2. End(Top, Top.bb) \in Nat
    BY <1>2, <2>1, FactsType, ProgramType DEF TypeOK, End
  <2> QED
    BY <2>1, <2>2
<1>4. PICK x : x = IF prog[Top.fn].blocks[b].end = "return"
                   THEN Top.exits \cup {Top.state} ELSE Top.exits
  OBVIOUS
<1>5. PICK t : t = [Top EXCEPT !.bb = 0, !.state = Top.initial, !.exits = x]
  OBVIOUS
<1>6. /\ t.fn = Top.fn /\ t.worklist = Top.worklist /\ t.bb = 0
      /\ t.initial = Top.initial /\ t.exits = x /\ t.state = Top.initial
  BY <1>2, <1>5 DEF Analysis
<1>7. Admits(Top) /\ (start.fn \in FollowedThrough => Precise(Top))
  BY <1>2 DEF FlowInv
<1>8. \A c, y : Run(t, c, y) = Run(Top, c, y) /\ End(t, c) = End(Top, c)
  BY <1>6 DEF Run, End
<1>9. Admits(t)
  <2> SUFFICES ASSUME NEW c \in DOMAIN prog[Top.fn].blocks,
                      prog[Top.fn].blocks[c].end = "return", c \notin Top.worklist,
                      NEW y \in Top.initial.facts
               PROVE  Run(Top, c, y)[End(Top, c)] \subseteq UNION {g.facts : g \in x}
    BY <1>6, <1>8 DEF Admits
  <2>1. CASE c = b
    <3>1. Run(Top, b, y)[End(Top, b)] \subseteq Top.state.facts
      BY <1>3, <1>7 DEF Admits
    <3> QED
      BY <1>4, <2>1, <3>1
  <2>2. CASE c # b
    <3>1. Run(Top, c, y)[End(Top, c)] \subseteq UNION {g.facts : g \in Top.exits}
      BY <1>3, <1>7, <2>2 DEF Admits
    <3> QED
      BY <1>4, <3>1
  <2> QED
    BY <2>1, <2>2
<1>10. ASSUME start.fn \in FollowedThrough PROVE Precise(t)
  <2> SUFFICES ASSUME NEW g \in x, NEW y \in g.facts
               PROVE  \E z \in Top.initial.facts : <<Top.fn, z, y>> \in Returns
    BY <1>6 DEF Precise
  <2>1. CASE g \in Top.exits
    BY <1>7, <1>10, <2>1 DEF Precise
  <2>2. CASE g \notin Top.exits
    <3>1. g = Top.state /\ prog[Top.fn].blocks[b].end = "return"
      BY <1>4, <2>2
    <3>2. PICK z \in Top.initial.facts : y \in Run(Top, b, z)[End(Top, b)]
      BY <1>3, <1>7, <1>10, <3>1 DEF Precise
    <3>3. z \in Fact
      BY <1>2, FactsType
    <3> QED
      BY <1>2, <3>1, <3>2, <3>3, ReturnsAre
  <2> QED
    BY <2>1, <2>2
<1>11. SetTop(t) /\ UNCHANGED <<prog, start, result>>
  BY <1>3, <1>4, <1>5 DEF handleExitTerminator
<1> QED
  BY <1>1, <1>6, <1>9, <1>10, <1>11, FlowTop

LEMMA NewFlow ==
    ASSUME prog \in Programs, NEW f \in Func, NEW g \in Graph
    PROVE  Admits(NewAnalysis(f, g)) /\ Precise(NewAnalysis(f, g))
<1>1. PICK c : c = NewAnalysis(f, g)
  OBVIOUS
<1>2. c.fn = f /\ c.initial = g /\ c.worklist = Worklist(f) /\ c.bb = 0 /\ c.exits = {}
  BY <1>1 DEF NewAnalysis
<1>3. \A b \in DOMAIN prog[f].blocks : prog[f].blocks[b].end = "return" => b \in Worklist(f)
  BY DEF Worklist
<1>4. Admits(c)
  BY <1>2, <1>3 DEF Admits
<1>5. Precise(c)
  BY <1>2 DEF Precise
<1> QED
  BY <1>1, <1>4, <1>5

LEMMA HandleCallFlow == ASSUME IInv, FlowInv, handleCall PROVE FlowInv'
<1>1. AtInstruction /\ I.op = "call" /\ I.callee # Null /\ ~isRecursive(I.callee)
      /\ prog[I.callee].kind = "plain" /\ ~empty(I.callee) /\ Top.state.facts # {}
      /\ I = At(Top)
  BY DEF handleCall, AtCall, Analysed, I, At
<1>2. PICK f \in Func : f = I.callee
  BY <1>1, InstructionType DEF IInv
<1>3. PICK n \in Nat \ {0} : n = Len(stack)
  BY <1>1, TopType DEF IInv, AtInstruction
<1>4. Top = stack[n] /\ n \in DOMAIN stack /\ Top \in Analysis /\ Placed(Top) /\ TypeOK
  BY <1>1, <1>3, TopType DEF IInv, AtInstruction
<1>5. PICK g : g = [Top.state EXCEPT !.mapped = @ \cup {f}]
  OBVIOUS
<1>6. g \in Graph /\ g.facts = Top.state.facts
  BY <1>4, <1>5 DEF Analysis, Graph
<1>7. PICK t : t = [Top EXCEPT !.state = g]
  OBVIOUS
<1>8. /\ t.fn = Top.fn /\ t.worklist = Top.worklist /\ t.bb = Top.bb
      /\ t.at = Top.at /\ t.initial = Top.initial /\ t.exits = Top.exits /\ t.state = g
  BY <1>4, <1>7 DEF Analysis
<1>9. \A b, x : Run(t, b, x) = Run(Top, b, x) /\ End(t, b) = End(Top, b)
  BY <1>8 DEF Run, End
<1>10. Admits(t)
  <2>1. Admits(Top)
    BY <1>4 DEF FlowInv
  <2> QED
    BY <1>6, <1>8, <1>9, <2>1 DEF Admits
<1>11. start.fn \in FollowedThrough => Precise(t)
  <2>1. start.fn \in FollowedThrough => Precise(Top)
    BY <1>4 DEF FlowInv
  <2> QED
    BY <1>6, <1>8, <1>9, <2>1 DEF Precise
<1>12. PICK c : c = NewAnalysis(f, g)
  OBVIOUS
<1>13. Admits(c) /\ Precise(c)
  BY <1>4, <1>6, <1>12, NewFlow DEF TypeOK
<1>14. c.fn = f /\ c.initial = g
  BY <1>12 DEF NewAnalysis
<1>15. CalledFrom(t, c)
  <2>1. At(t) = At(Top)
    BY <1>8 DEF At, Code
  <2> QED
    BY <1>1, <1>2, <1>6, <1>8, <1>14, <2>1 DEF CalledFrom
<1>16. \A m \in Nat : Top.fn \in FollowedWithin[m]
           => \E l \in Nat : l < m /\ c.fn \in FollowedWithin[l]
  <2> SUFFICES ASSUME NEW m \in Nat, Top.fn \in FollowedWithin[m]
               PROVE  \E l \in Nat : l < m /\ c.fn \in FollowedWithin[l]
    OBVIOUS
  <2>1. PICK l \in Nat : l = m - 1 /\ l < m /\ FollowedIn(FollowedWithin[l], I)
    BY <1>1, CallFollowed
  <2> QED
    BY <1>1, <1>2, <1>14, <2>1 DEF FollowedIn
<1>17. stack' = Append([stack EXCEPT ![n] = t], c)
  BY <1>2, <1>3, <1>4, <1>5, <1>7, <1>12 DEF handleCall
<1>18. UNCHANGED <<prog, start, result>>
  BY DEF handleCall
<1> QED
  BY <1>3, <1>8, <1>10, <1>11, <1>13, <1>15, <1>16, <1>17, <1>18, FlowPush

(* The caller takes over what its callee returned.                         *)
LEMMA ReturnFlow == ASSUME IInv, FlowInv, Return PROVE FlowInv'
<1>1. PICK n \in Nat \ {0} : Len(stack) = n + 1
  <2>1. Len(stack) \in Nat /\ Len(stack) > 1
    BY DEF IInv, TypeOK, Return
  <2>2. \A m \in Nat : m > 1 => m - 1 \in Nat \ {0} /\ m = (m - 1) + 1
    OBVIOUS
  <2> QED
    BY <2>1, <2>2
<1>2. /\ stack \in Seq(Analysis) /\ DOMAIN stack = 1 .. n + 1 /\ n \in DOMAIN stack
      /\ Top = stack[n + 1] /\ Top \in Analysis
      /\ Caller = stack[n] /\ Caller \in Analysis /\ Placed(Caller) /\ TypeOK
      /\ Caller.bb # 0 /\ Caller.at <= Len(Code(Caller))
  BY <1>1 DEF IInv, TypeOK, Waiting, Caller, Top, Last
<1>3. PICK r : r = getResult(Top)
  OBVIOUS
<1>4. CalledFrom(Caller, Top) /\ Admits(Top) /\ Admits(Caller)
      /\ (start.fn \in FollowedThrough => Precise(Top) /\ Precise(Caller))
  BY <1>2 DEF FlowInv, Called
<1>5. Ended(Top)
  BY DEF Return
<1>6. Execute(Returns, At(Caller), Caller.state.facts) =
          {q[3] : q \in {p \in Returns : p[1] = Top.fn /\ p[2] \in Caller.state.facts}}
  <2>1. Top.fn # Null
    BY <1>2, CallAssumption, FactsType
  <2> QED
    BY <1>4, <2>1 DEF CalledFrom, Execute
<1>7. Top.initial.facts = Caller.state.facts
  BY <1>4 DEF CalledFrom
<1>8. Returns \in SUBSET Triple
  BY <1>2, ReturnsSolve DEF TypeOK
<1>9. Execute(Returns, At(Caller), Caller.state.facts) \subseteq r.facts
  <2> SUFFICES ASSUME NEW q \in Returns, q[1] = Top.fn, q[2] \in Caller.state.facts
               PROVE  q[3] \in r.facts
    BY <1>6
  <2>1. q = <<Top.fn, q[2], q[3]>>
    BY <1>8 DEF Triple
  <2> QED
    BY <1>2, <1>3, <1>4, <1>5, <1>7, <2>1, ResultFacts
<1>10. start.fn \in FollowedThrough
           => r.facts \subseteq Execute(Returns, At(Caller), Caller.state.facts)
  <2> SUFFICES ASSUME start.fn \in FollowedThrough, NEW y \in r.facts
               PROVE  \E q \in Returns : q[1] = Top.fn /\ q[2] \in Caller.state.facts /\ q[3] = y
    BY <1>6
  <2>1. PICK x \in Top.initial.facts : <<Top.fn, x, y>> \in Returns
    BY <1>2, <1>3, <1>4, <1>5, ResultFacts
  <2> QED
    BY <1>7, <2>1
<1>11. PICK g : g = IF r.facts = {} THEN markIsBottom(Caller.state)
                    ELSE [r EXCEPT !.mapped = @ \cup {Caller.fn}]
  OBVIOUS
<1>12. g \in Graph /\ g.facts = r.facts
  <2>1. r \in Graph /\ Caller.state \in Graph /\ Caller.fn \in Func
    <3>1. \A e \in Top.exits : e.mapped \subseteq Func
      BY <1>2 DEF Analysis, Graph
    <3>2. r \in Graph
      BY <1>2, <1>3, <3>1, ResultType
    <3> QED
      BY <1>2, <3>2, FactsType
  <2> QED
    BY <1>11, <2>1 DEF markIsBottom, Graph
<1>13. PICK h : h = eraseRelevant(g, Top.fn)
  OBVIOUS
<1>14. h \in Graph /\ h.facts = r.facts
  BY <1>12, <1>13 DEF eraseRelevant, Graph
<1>15. PICK t : t = [Caller EXCEPT !.state = h, !.at = Advance(Caller)]
  OBVIOUS
<1>16. /\ t \in Analysis /\ t.fn = Caller.fn /\ t.worklist = Caller.worklist
       /\ t.bb = Caller.bb /\ t.at = Caller.at + 1
       /\ t.initial = Caller.initial /\ t.exits = Caller.exits /\ t.state = h
  <2>1. Advance(Caller) = Caller.at + 1 /\ Caller.at + 1 \in Nat
    BY <1>2 DEF Advance, Analysis
  <2> QED
    BY <1>2, <1>14, <1>15, <2>1 DEF Analysis
<1>17. PICK u : u = Caller
  OBVIOUS
<1>18. Admits(t)
  BY <1>2, <1>4, <1>9, <1>14, <1>16, <1>17, AdmitsStep
<1>19. start.fn \in FollowedThrough => Precise(t)
  BY <1>2, <1>4, <1>10, <1>14, <1>16, <1>17, PreciseStep
<1>20. stack' = [Front(stack) EXCEPT ![n] = t]
  <2>1. Len(stack) - 1 = n
    BY <1>1
  <2> QED
    BY <1>3, <1>11, <1>13, <1>15, <2>1 DEF Return
<1>21. UNCHANGED <<prog, start, result>>
  BY DEF Return
<1> QED
  BY <1>1, <1>16, <1>18, <1>19, <1>20, <1>21, FlowPop

LEMMA FinishFlow == ASSUME IInv, FlowInv, Finish PROVE FlowInv'
<1>1. Top \in Analysis /\ Top = stack[1] /\ 1 \in DOMAIN stack /\ stack # <<>> /\ TypeOK
  BY TopType DEF IInv, Finish
<1>2. Top.fn = start.fn /\ Top.initial = start.graph /\ Admits(Top)
      /\ (start.fn \in FollowedThrough => Precise(Top))
  BY <1>1 DEF FlowInv, Called
<1>3. result' = getResult(Top) /\ Ended(Top) /\ stack' = <<>> /\ prog' = prog /\ start' = start
  BY DEF Finish
<1>4. Returns \in SUBSET Triple
  BY <1>1, ReturnsSolve DEF TypeOK
<1>5. Expected \subseteq result'.facts
  <2> SUFFICES ASSUME NEW q \in Returns, q[1] = start.fn, q[2] \in start.graph.facts
               PROVE  q[3] \in result'.facts
    BY DEF Expected
  <2>1. q = <<Top.fn, q[2], q[3]>>
    BY <1>2, <1>4 DEF Triple
  <2> QED
    BY <1>1, <1>2, <1>3, <2>1, ResultFacts
<1>6. ASSUME start.fn \in FollowedThrough PROVE result'.facts \subseteq Expected
  <2> SUFFICES ASSUME NEW y \in result'.facts PROVE y \in Expected
    OBVIOUS
  <2>1. PICK x \in Top.initial.facts : <<Top.fn, x, y>> \in Returns
    BY <1>1, <1>2, <1>3, <1>6, ResultFacts
  <2>2. \E q \in Returns : q[1] = start.fn /\ q[2] \in start.graph.facts /\ y = q[3]
    BY <1>2, <2>1
  <2> QED
    BY <2>2 DEF Expected
<1>7. Expected' = Expected /\ FollowedThrough' = FollowedThrough
  BY <1>3, SameProgram
<1>8. SoundCalls' /\ ExactCalls'
  BY <1>3, <1>5, <1>6, <1>7 DEF SoundCalls, ExactCalls
<1>9. (~empty(start.fn))'
  BY <1>3 DEF FlowInv, empty
<1> QED
  BY <1>3, <1>8, <1>9 DEF FlowInv, Called, Shallower

LEMMA InitFlow == ASSUME Init PROVE FlowInv
<1>1. prog \in Programs /\ start.fn \in Func /\ start.graph \in Graph /\ ~empty(start.fn)
  BY DEF Init, Graph
<1>2. PICK c : c = NewAnalysis(start.fn, start.graph)
  OBVIOUS
<1>3. stack = <<c>> /\ c.fn = start.fn /\ c.initial = start.graph /\ result = Null
  BY <1>2 DEF Init, NewAnalysis
<1>4. Admits(c) /\ Precise(c)
  BY <1>1, <1>2, NewFlow
<1> QED
  BY <1>1, <1>3, <1>4 DEF FlowInv, Called, Shallower, SoundCalls, ExactCalls

LEMMA NextFlow == ASSUME IInv, FlowInv, [Next]_vars PROVE FlowInv'
<1>1. CASE \E b \in Top.worklist : TakeBlock(b)
  BY <1>1, TakeBlockFlow
<1>2. CASE Pass \/ Visit \/ IgnoredCall \/ handleUnknownCall
  BY <1>2, InstructionFlow
<1>3. CASE handleCall
  BY <1>3, HandleCallFlow
<1>4. CASE handleExitTerminator
  BY <1>4, ExitFlow
<1>5. CASE Return
  BY <1>5, ReturnFlow
<1>6. CASE Finish
  BY <1>6, FinishFlow
<1>7. CASE UNCHANGED vars
  <2>1. prog' = prog /\ start' = start /\ stack' = stack /\ result' = result
    BY <1>7 DEF vars
  <2>2. Expected' = Expected /\ FollowedWithin' = FollowedWithin
        /\ FollowedThrough' = FollowedThrough
    BY <2>1, SameProgram
  <2>3. /\ (\A k \in DOMAIN stack : Admits(stack[k]))'
        /\ (start.fn \in FollowedThrough => \A k \in DOMAIN stack : Precise(stack[k]))'
        /\ Called'
    <3>1. (\A k \in DOMAIN stack : Admits(stack[k]))'
      BY <2>1, SameFlow DEF FlowInv
    <3>2. (start.fn \in FollowedThrough => \A k \in DOMAIN stack : Precise(stack[k]))'
      BY <2>1, <2>2, SameFlow DEF FlowInv
    <3>3. Called'
      BY <2>1, SameFlow DEF FlowInv, Called
    <3> QED
      BY <3>1, <3>2, <3>3
  <2>4. (~empty(start.fn))' /\ Shallower' /\ SoundCalls' /\ ExactCalls'
    BY <2>1, <2>2 DEF FlowInv, empty, Shallower, SoundCalls, ExactCalls
  <2> QED
    BY <2>3, <2>4 DEF FlowInv
<1> QED
  BY <1>1, <1>2, <1>3, <1>4, <1>5, <1>6, <1>7 DEF Next, Done

(* The facts that the graphs admit are those that may be true where the    *)
(* analyses are, as long as no call is cut short.                          *)
THEOREM Flows == Spec => []FlowInv
<1>1. Init => FlowInv
  BY InitFlow
<1>2. IInv /\ FlowInv /\ [Next]_vars => FlowInv'
  BY NextFlow
<1> QED
  BY <1>1, <1>2, Inductive, PTL DEF Spec

(* For any program, whatever may be true when the method returns, through  *)
(* calls of any depth and recursion, is admitted by its result.            *)
THEOREM CallsAreSound == Spec => []SoundCalls
<1>1. FlowInv => SoundCalls
  BY DEF FlowInv
<1> QED
  BY <1>1, Flows, PTL

(* For any program whose calls can be followed the result admits no more.  *)
THEOREM CallsAreExact == Spec => []ExactCalls
<1>1. FlowInv => ExactCalls
  BY DEF FlowInv
<1> QED
  BY <1>1, Flows, PTL
=============================================================================
