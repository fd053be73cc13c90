----------------------- MODULE FunctionAnalysisProofs -----------------------
(***************************************************************************)
(* Proofs about FunctionAnalysis for any function, any set of graphs and   *)
(* any effects: the list of blocks is drained only at a solution of the    *)
(* dataflow equations, and a guess is made only after a full turn.         *)
(***************************************************************************)
EXTENDS FunctionAnalysis, NaturalsLemmas, FiniteSetTheorems, TLAPS

InList(b) == \E i \in DOMAIN worklist : worklist[i] = b
Active == pc \in {"wait", "term"}

(* The block at hand and the index of handleTerminator's loop are defined. *)
BlockInv ==
    /\ Active => bb \in Block(fn)
    /\ pc = "term" => cur \in Value

(* The list has no block twice; while a block is tried, it is not in the   *)
(* list and MaxTries is the length of the list with it.                    *)
ListInv ==
    /\ \A i, j \in DOMAIN worklist : worklist[i] = worklist[j] => i = j
    /\ pc = "wait" => /\ ~InList(bb)
                      /\ tries <= maxTries
                      /\ maxTries = Len(worklist) + 1

(* The blocks at the end of the list that this turn has tried still wait.  *)
WaitInv ==
    pc = "wait" =>
        /\ tries = maxTries => shouldWait(bb)
        /\ \A i \in DOMAIN worklist : i + tries > Len(worklist) => shouldWait(worklist[i])

(* In handleTerminator: cur is still what the in-edges determine, unless   *)
(* the block has put itself back, and the edges done so far carry it.      *)
TermInv ==
    pc = "term" =>
        /\ InList(bb) \/ cur = Transfer(bb, InState(bb))
        /\ \A i \in DOMAIN fn.succ[bb] :
              i < next /\ fn.succ[bb][i] \notin fn.unreachable
                => states[<<bb, fn.succ[bb][i]>>] = getCurrentState(bb, fn.succ[bb][i], cur)

(* A block that was asked for is pending, at hand, or consistent. *)
SolveInv ==
    pc \notin {"start", "done"} =>
        \A b \in Block(fn) : Demanded(b) =>
            InList(b) \/ (Active /\ b = bb) \/ Consistent(b)

IndInv == /\ fn \in Functions
          /\ TypeOK
          /\ BlockInv
          /\ ListInv
          /\ WaitInv
          /\ TermInv
          /\ SolveInv
-----------------------------------------------------------------------------
(* Lemmas about the operators. *)

(* addToWorklist adds b and nothing else, at the end, without repeating it.*)
LEMMA AddProps ==
    ASSUME NEW S, NEW list \in Seq(S), NEW b \in S
    PROVE  /\ addToWorklist(list, b) \in Seq(S)
           /\ \E i \in DOMAIN addToWorklist(list, b) : addToWorklist(list, b)[i] = b
           /\ \A i \in DOMAIN list : /\ i \in DOMAIN addToWorklist(list, b)
                                     /\ addToWorklist(list, b)[i] = list[i]
           /\ (\A i, j \in DOMAIN list : list[i] = list[j] => i = j)
              => \A i, j \in DOMAIN addToWorklist(list, b) :
                    addToWorklist(list, b)[i] = addToWorklist(list, b)[j] => i = j
<1>1. CASE \E i \in DOMAIN list : list[i] = b
  BY <1>1 DEF addToWorklist
<1>2. CASE ~ \E i \in DOMAIN list : list[i] = b
  <2>1. addToWorklist(list, b) = Append(list, b)
    BY <1>2 DEF addToWorklist
  <2>2. /\ Append(list, b) \in Seq(S)
        /\ Append(list, b)[Len(list) + 1] = b
        /\ \A i \in DOMAIN list : Append(list, b)[i] = list[i]
        /\ DOMAIN Append(list, b) = DOMAIN list \cup {Len(list) + 1}
        /\ Len(list) + 1 \notin DOMAIN list
    OBVIOUS
  <2> QED BY <1>2, <2>1, <2>2
<1> QED BY <1>1, <1>2

(* Taking the head leaves the rest in order. *)
LEMMA HeadTail ==
    ASSUME NEW S, NEW list \in Seq(S), list # <<>>
    PROVE  /\ Head(list) \in S
           /\ Tail(list) \in Seq(S)
           /\ Len(Tail(list)) = Len(list) - 1
           /\ Head(list) = list[1]
           /\ 1 \in DOMAIN list
           /\ \A i \in DOMAIN Tail(list) : i + 1 \in DOMAIN list /\ Tail(list)[i] = list[i + 1]
           /\ \A i \in DOMAIN list : i = 1 \/ (i - 1 \in DOMAIN Tail(list) /\ Tail(list)[i - 1] = list[i])
  OBVIOUS

(* What FunctionAssumption says of the function under analysis. *)
LEMMA FnFacts ==
    ASSUME fn \in Functions
    PROVE  /\ fn.size \in Nat \ {0}
           /\ Entry \in Block(fn)
           /\ fn.succ \in [Block(fn) -> Seq(Block(fn) \ {Entry})]
           /\ \A b \in Block(fn) : /\ fn.succ[b] \in Seq(Block(fn))
                                   /\ \A i \in DOMAIN fn.succ[b] : fn.succ[b][i] \in Block(fn) \ {Entry}
           /\ fn.unreachable \subseteq {b \in Block(fn) : fn.succ[b] = <<>>}
           /\ fn.branches \subseteq Block(fn)
           /\ fn.effect \in [Block(fn) -> [State -> Value]]
           /\ fn.refine \in [Block(fn) -> [BOOLEAN -> [State -> Value]]]
           /\ Null \notin Edge(fn)
           /\ Null \notin Block(fn)
           /\ Bottom \notin State
           /\ Null \notin Value
<1>1. /\ fn.size \in Nat \ {0}
      /\ fn.succ \in [Block(fn) -> Seq(Block(fn) \ {Entry})]
      /\ fn.unreachable \subseteq {b \in Block(fn) : fn.succ[b] = <<>>}
      /\ fn.branches \subseteq {b \in Block(fn) : Len(fn.succ[b]) = 2}
      /\ fn.effect \in [Block(fn) -> [State -> Value]]
      /\ fn.refine \in [Block(fn) -> [BOOLEAN -> [State -> Value]]]
      /\ Null \notin Edge(fn)
      /\ Null \notin Block(fn)
  BY FunctionAssumption
<1>2. Bottom \notin State /\ Null \notin Value
  BY FunctionAssumption
<1>3. Entry \in Block(fn)
  BY <1>1 DEF Entry, Block
<1>4. ASSUME NEW b \in Block(fn)
      PROVE  /\ fn.succ[b] \in Seq(Block(fn))
             /\ \A i \in DOMAIN fn.succ[b] : fn.succ[b][i] \in Block(fn) \ {Entry}
  <2>1. fn.succ[b] \in Seq(Block(fn) \ {Entry})
    BY <1>1
  <2> QED BY <2>1
<1> QED BY <1>1, <1>2, <1>3, <1>4, Zenon

(* The states are values or bottom, whichever way they are computed. *)
LEMMA MergeType ==
    ASSUME fn \in Functions, TypeOK, NEW b \in Block(fn)
    PROVE  merge(b) \in Value
<1> DEFINE from == {getPredOrInitialState(p, b) : p \in Relevant(b)} \ {Bottom}
<1>1. ASSUME NEW p \in Relevant(b)
      PROVE  getPredOrInitialState(p, b) \in Value
  <2>1. <<p, b>> \in Edge(fn)
    BY DEF Relevant, Preds, Edge
  <2>2. states[<<p, b>>] \in Value \cup {Null}
    BY <2>1 DEF TypeOK
  <2>3. initial \in Value
    BY DEF TypeOK, Value
  <2> QED BY <2>2, <2>3 DEF getPredOrInitialState
<1>2. from \in SUBSET State
  BY <1>1 DEF Value
<1>3. from # {} => UNION from \in State
  BY <1>2, FunctionAssumption
<1>4. initial \in State
  BY DEF TypeOK
<1> HIDE DEF from
<1>5. merge(b) = IF Preds(fn, b) = {} THEN initial ELSE IF from = {} THEN Bottom ELSE UNION from
  BY DEF merge, from
<1> QED BY <1>3, <1>4, <1>5 DEF Value

LEMMA TransferType ==
    ASSUME fn \in Functions, NEW b \in Block(fn), NEW s \in Value
    PROVE  Transfer(b, s) \in Value
  BY FnFacts DEF Transfer, Value

LEMMA CurrentType ==
    ASSUME fn \in Functions, NEW b \in Block(fn), NEW c, NEW s \in Value
    PROVE  getCurrentState(b, c, s) \in Value
<1>1. fn.refine[b] \in [BOOLEAN -> [State -> Value]]
  BY FnFacts
<1>2. fn.refine[b][fn.succ[b][1] = c] \in [State -> Value]
  BY <1>1
<1> QED BY <1>2 DEF getCurrentState, Value

LEMMA ResultType ==
    ASSUME TypeOK
    PROVE  getResult \in Value
<1> DEFINE at == {exits[b] : b \in Block(fn) \ fn.unreachable} \ {Bottom, Null}
<1>1. at \in SUBSET State
  BY DEF TypeOK, Value
<1>2. at # {} => UNION at \in State
  BY <1>1, FunctionAssumption
<1> HIDE DEF at
<1>3. getResult = IF at = {} THEN Bottom ELSE UNION at
  BY DEF getResult, at
<1> QED BY <1>2, <1>3 DEF Value

(* A block whose in-edges are all seen, or all bottom or missing, gets the *)
(* state that InState gives it.                                            *)
LEMMA VisitState ==
    ASSUME fn \in Functions, NEW b \in Block(fn), bb = b,
           tries = maxTries => shouldWait(b),
           ~shouldWait(b) \/ tries = maxTries
    PROVE  BlockState = InState(b)
<1>1. CASE tries = maxTries /\ allBottomOrNull(b)
  <2>1. Preds(fn, b) # {}
    BY <1>1 DEF shouldWait, Relevant
  <2> QED BY <1>1, <2>1 DEF BlockState, InState
<1>2. CASE ~(tries = maxTries /\ allBottomOrNull(b)) /\ allBottomOrNull(b) /\ Preds(fn, b) # {}
  <2>1. ~shouldWait(b)
    BY <1>2
  <2>2. \A p \in Relevant(b) : states[<<p, b>>] = Bottom
    BY <1>2, <2>1 DEF shouldWait, allBottomOrNull
  <2>3. Bottom # Null
    BY FunctionAssumption DEF Value
  <2>4. \A p \in Relevant(b) : getPredOrInitialState(p, b) = Bottom
    BY <2>2, <2>3 DEF getPredOrInitialState
  <2>5. {getPredOrInitialState(p, b) : p \in Relevant(b)} \ {Bottom} = {}
    BY <2>4
  <2>6. merge(b) = Bottom
    BY <1>2, <2>5 DEF merge
  <2> QED BY <1>2, <2>6 DEF BlockState, InState
<1>3. CASE ~(tries = maxTries /\ allBottomOrNull(b)) /\ ~(allBottomOrNull(b) /\ Preds(fn, b) # {})
  BY <1>3 DEF BlockState, InState
<1> QED BY <1>1, <1>2, <1>3

(* What a block is given depends on its in-edges only. *)
LEMMA InFrame ==
    ASSUME NEW b, fn' = fn, initial' = initial, ignored' = ignored,
           \A p \in Preds(fn, b) : states'[<<p, b>>] = states[<<p, b>>]
    PROVE  /\ InState(b)' = InState(b)
           /\ shouldWait(b)' = shouldWait(b)
           /\ Demanded(b)' = Demanded(b)
<1>1. Preds(fn, b)' = Preds(fn, b)
  BY DEF Preds, Block
<1>2. Relevant(b)' = Relevant(b)
  BY <1>1 DEF Relevant
<1>3. Relevant(b) \subseteq Preds(fn, b)
  BY DEF Relevant
<1>4. \A p \in Relevant(b) : states'[<<p, b>>] = states[<<p, b>>]
  BY <1>3
<1>5. shouldWait(b)' = shouldWait(b)
  BY <1>2, <1>4 DEF shouldWait
<1>6. allBottomOrNull(b)' = allBottomOrNull(b)
  BY <1>2, <1>4 DEF allBottomOrNull
<1>7. \A p \in Relevant(b) : getPredOrInitialState(p, b)' = getPredOrInitialState(p, b)
  BY <1>4 DEF getPredOrInitialState
<1>8. merge(b)' = merge(b)
  <2>1. {getPredOrInitialState(p, b)' : p \in Relevant(b)'} = {getPredOrInitialState(p, b) : p \in Relevant(b)}
    BY <1>2, <1>7
  <2> QED BY <1>1, <2>1 DEF merge
<1>9. Demanded(b)' = Demanded(b)
  BY <1>1 DEF Demanded
<1> QED BY <1>1, <1>5, <1>6, <1>8, <1>9 DEF InState

(* A step that leaves a block's in-edges, out-edges and exit alone leaves  *)
(* it consistent.                                                          *)
LEMMA ConsistentFrame ==
    ASSUME NEW b \in Block(fn), Consistent(b), fn' = fn, InState(b)' = InState(b),
           exits'[b] = exits[b],
           \A i \in DOMAIN fn.succ[b] :
              states'[<<b, fn.succ[b][i]>>] = states[<<b, fn.succ[b][i]>>]
    PROVE  Consistent(b)'
<1>1. Transfer(b, InState(b))' = Transfer(b, InState(b))
  BY DEF Transfer
<1> QED BY <1>1 DEF Consistent, getCurrentState
-----------------------------------------------------------------------------
(* The invariant is inductive. *)

LEMMA InitInd == Init => IndInv
<1> SUFFICES ASSUME Init PROVE IndInv
  OBVIOUS
<1>1. TypeOK
  <2>1. left \subseteq Uses(fn) \cup {Null}
    BY DEF Init, MethodPasses
  <2> QED BY <2>1 DEF Init, TypeOK
<1>2. /\ \A i, j \in DOMAIN worklist : worklist[i] = worklist[j] => i = j
      /\ pc = "start"
  BY DEF Init
<1> QED BY <1>1, <1>2 DEF IndInv, BlockInv, ListInv, WaitInv, TermInv, SolveInv, Active, Init

LEMMA StartInd == ASSUME IndInv, NEW u \in left, StartPass(u) PROVE IndInv'
<1> USE DEF input, passes
<1>1. fn' = fn /\ fn' \in Functions
  BY DEF StartPass, IndInv
<1>2. worklist' = <<Entry>> /\ worklist' \in Seq(Block(fn)) /\ pc' = "idle"
  BY FnFacts DEF StartPass, IndInv
<1>3. TypeOK'
  <2>1. ignored' \in Edge(fn) \cup {Null}
    <3>1. CASE u = Null
      BY <3>1 DEF StartPass, UseEdge
    <3>2. CASE u # Null
      <4>1. u \in Uses(fn)
        BY <3>2 DEF IndInv, TypeOK
      <4>2. u[1] \in Block(fn) /\ u[2] \in DOMAIN fn.succ[u[1]]
        BY <4>1 DEF Uses
      <4>3. fn.succ[u[1]][u[2]] \in Block(fn)
        BY <4>2, FnFacts DEF IndInv
      <4> QED BY <3>2, <4>2, <4>3 DEF StartPass, UseEdge, Edge
    <3> QED BY <3>1, <3>2
  <2> QED BY <1>1, <1>2, <2>1 DEF StartPass, IndInv, TypeOK, Uses, Edge, Block
<1>4. /\ \A i, j \in DOMAIN worklist' : worklist'[i] = worklist'[j] => i = j
      /\ InList(Entry)'
  BY <1>2 DEF InList
<1>5. ASSUME NEW b \in Block(fn), Demanded(b)' PROVE b = Entry
  <2>1. \A p \in Preds(fn, b) : <<p, b>> \in Edge(fn)
    BY DEF Preds, Edge
  <2> QED BY <1>5, <1>1, <2>1 DEF Demanded, StartPass
<1>6. SolveInv'
  BY <1>1, <1>4, <1>5 DEF SolveInv, Block
<1> QED BY <1>1, <1>2, <1>3, <1>4, <1>6 DEF IndInv, BlockInv, ListInv, WaitInv, TermInv, Active

LEMMA TakeInd == ASSUME IndInv, TakeBlock PROVE IndInv'
<1> USE DEF input, passes
<1>1. /\ fn' = fn /\ fn \in Functions /\ initial' = initial /\ ignored' = ignored
      /\ states' = states /\ exits' = exits /\ pc = "idle" /\ pc' = "wait"
      /\ worklist \in Seq(Block(fn)) /\ worklist # <<>>
      /\ bb' = Head(worklist) /\ worklist' = Tail(worklist)
      /\ maxTries' = Len(worklist) /\ tries' = 0
  BY DEF TakeBlock, IndInv, TypeOK
<1>2. /\ bb' \in Block(fn)
      /\ worklist' \in Seq(Block(fn))
      /\ maxTries' = Len(worklist') + 1
      /\ bb' = worklist[1]
      /\ 1 \in DOMAIN worklist
      /\ \A i \in DOMAIN worklist' : i \in Nat \ {0} /\ i + 1 \in DOMAIN worklist /\ worklist'[i] = worklist[i + 1]
      /\ \A i \in DOMAIN worklist : i = 1 \/ (i - 1 \in DOMAIN worklist' /\ worklist'[i - 1] = worklist[i])
      /\ Len(worklist') \in Nat
      /\ DOMAIN worklist' = 1 .. Len(worklist')
  BY <1>1, HeadTail
<1>3. TypeOK'
  BY <1>1, <1>2 DEF TakeBlock, IndInv, TypeOK, Edge, Block, Uses
<1>4. BlockInv'
  BY <1>1, <1>2 DEF BlockInv, Block
<1>5. ListInv'
  <2>1. \A i, j \in DOMAIN worklist : worklist[i] = worklist[j] => i = j
    BY DEF IndInv, ListInv
  <2>2. \A i, j \in DOMAIN worklist' : worklist'[i] = worklist'[j] => i = j
    BY <1>2, <2>1
  <2>3. \A i \in DOMAIN worklist' : worklist'[i] # bb'
    BY <1>2, <2>1
  <2> QED BY <1>1, <1>2, <2>2, <2>3 DEF ListInv, InList
<1>6. WaitInv'
  BY <1>1, <1>2 DEF WaitInv
<1>7. TermInv'
  BY <1>1 DEF TermInv
<1>8. SolveInv'
  <2> SUFFICES ASSUME NEW b \in Block(fn), Demanded(b)'
               PROVE  InList(b)' \/ b = bb' \/ Consistent(b)'
    BY <1>1 DEF SolveInv, Active, Block
  <2>1. InState(b)' = InState(b) /\ Demanded(b)
    BY <1>1, InFrame
  <2>2. InList(b) \/ Consistent(b)
    BY <1>1, <2>1 DEF IndInv, SolveInv, Active
  <2>3. CASE Consistent(b)
    BY <1>1, <2>1, <2>3, ConsistentFrame
  <2>4. CASE InList(b)
    BY <1>2, <2>4 DEF InList
  <2> QED BY <2>2, <2>3, <2>4
<1> QED BY <1>1, <1>3, <1>4, <1>5, <1>6, <1>7, <1>8 DEF IndInv

LEMMA WaitInd == ASSUME IndInv, Wait PROVE IndInv'
<1> DEFINE list == addToWorklist(worklist, bb)
<1> USE DEF input, passes
<1>1. /\ fn' = fn /\ fn \in Functions /\ initial' = initial /\ ignored' = ignored
      /\ states' = states /\ exits' = exits /\ pc = "wait" /\ pc' = "wait"
      /\ worklist \in Seq(Block(fn)) /\ bb \in Block(fn)
      /\ bb' = Head(list) /\ worklist' = Tail(list)
      /\ maxTries' = maxTries /\ tries' = tries + 1 /\ tries < maxTries
      /\ tries \in Nat /\ maxTries = Len(worklist) + 1 /\ ~InList(bb)
      /\ shouldWait(bb)
  BY DEF Wait, IndInv, TypeOK, BlockInv, ListInv, Active
<1>2. /\ list = Append(worklist, bb)
      /\ list \in Seq(Block(fn)) /\ list # <<>>
      /\ Len(list) = Len(worklist) + 1
      /\ list[Len(list)] = bb
      /\ \A i \in DOMAIN worklist : i \in DOMAIN list /\ list[i] = worklist[i]
      /\ \A i \in DOMAIN list : i = Len(list) \/ i \in DOMAIN worklist
      /\ Len(list) \in DOMAIN list /\ Len(list) \notin DOMAIN worklist
  BY <1>1 DEF InList, addToWorklist
<1>3. \A i, j \in DOMAIN list : list[i] = list[j] => i = j
  BY <1>1, <1>2 DEF IndInv, ListInv, InList
<1> HIDE DEF list
<1>4. /\ bb' \in Block(fn)
      /\ worklist' \in Seq(Block(fn))
      /\ Len(worklist') = Len(list) - 1
      /\ bb' = list[1]
      /\ 1 \in DOMAIN list
      /\ \A i \in DOMAIN worklist' : i \in Nat \ {0} /\ i + 1 \in DOMAIN list /\ worklist'[i] = list[i + 1]
      /\ \A i \in DOMAIN list : i = 1 \/ (i - 1 \in DOMAIN worklist' /\ worklist'[i - 1] = list[i])
      /\ Len(worklist') \in Nat
      /\ Len(worklist) \in Nat
  BY <1>1, <1>2, HeadTail
<1>5. TypeOK'
  BY <1>1, <1>4 DEF Wait, IndInv, TypeOK, Edge, Block, Uses
<1>6. BlockInv'
  BY <1>1, <1>4 DEF BlockInv, Block
<1>7. ListInv'
  <2>1. \A i, j \in DOMAIN worklist' : worklist'[i] = worklist'[j] => i = j
    BY <1>3, <1>4
  <2>2. \A i \in DOMAIN worklist' : worklist'[i] # bb'
    BY <1>3, <1>4
  <2> QED BY <1>1, <1>2, <1>4, <2>1, <2>2 DEF ListInv, InList
<1>8. WaitInv'
  <2>1. \A b \in Block(fn) : shouldWait(b)' = shouldWait(b)
    BY <1>1, InFrame
  <2>2. \A i \in DOMAIN list : i + tries > Len(worklist) => shouldWait(list[i])
    BY <1>1, <1>2 DEF IndInv, WaitInv
  <2>3. tries' = maxTries' => shouldWait(bb')
    BY <1>1, <1>2, <1>4, <2>2
  <2>4. ASSUME NEW i \in DOMAIN worklist', i + tries' > Len(worklist')
        PROVE  worklist'[i] \in Block(fn) /\ shouldWait(worklist'[i])
    <3>1. i + 1 \in DOMAIN list /\ worklist'[i] = list[i + 1] /\ list[i + 1] \in Block(fn)
      BY <1>2, <1>4
    <3>2. (i + 1) + tries > Len(worklist)
      BY <1>1, <1>2, <1>4, <2>4
    <3> QED BY <2>2, <3>1, <3>2
  <2> QED BY <1>1, <1>4, <2>1, <2>3, <2>4 DEF WaitInv
<1>9. TermInv'
  BY <1>1 DEF TermInv
<1>10. SolveInv'
  <2> SUFFICES ASSUME NEW b \in Block(fn), Demanded(b)'
               PROVE  InList(b)' \/ b = bb' \/ Consistent(b)'
    BY <1>1 DEF SolveInv, Active, Block
  <2>1. InState(b)' = InState(b) /\ Demanded(b)
    BY <1>1, InFrame
  <2>2. (\E i \in DOMAIN list : list[i] = b) \/ Consistent(b)
    BY <1>1, <1>2, <2>1 DEF IndInv, SolveInv, Active, InList
  <2>3. CASE Consistent(b)
    BY <1>1, <2>1, <2>3, ConsistentFrame
  <2>4. CASE \E i \in DOMAIN list : list[i] = b
    BY <1>4, <2>4 DEF InList
  <2> QED BY <2>2, <2>3, <2>4
<1> QED BY <1>1, <1>5, <1>6, <1>7, <1>8, <1>9, <1>10 DEF IndInv

LEMMA VisitInd == ASSUME IndInv, Visit PROVE IndInv'
<1> USE DEF input, passes
<1>1. /\ fn' = fn /\ fn \in Functions /\ initial' = initial /\ ignored' = ignored
      /\ states' = states /\ exits' = exits /\ pc = "wait" /\ pc' = "term"
      /\ worklist' = worklist /\ bb' = bb /\ bb \in Block(fn) /\ TypeOK
      /\ cur' = Transfer(bb, BlockState) /\ next' = 1
  BY DEF Visit, IndInv, BlockInv, Active
<1>2. BlockState = InState(bb)
  BY <1>1, VisitState DEF IndInv, WaitInv, Visit
<1>3. BlockState \in Value
  BY <1>1, MergeType DEF BlockState, Value
<1>4. cur' \in Value
  BY <1>1, <1>3, TransferType
<1>5. TypeOK'
  BY <1>1, <1>4 DEF Visit, TypeOK, Edge, Block, Uses
<1>6. \A b \in Block(fn) : InState(b)' = InState(b) /\ Demanded(b)' = Demanded(b)
  BY <1>1, InFrame
<1>7. TermInv'
  <2>1. cur' = Transfer(bb, InState(bb))'
    BY <1>1, <1>2, <1>6 DEF Transfer
  <2>2. fn.succ[bb] \in Seq(Block(fn))
    BY <1>1, FnFacts
  <2>3. \A i \in DOMAIN fn.succ[bb] : ~(i < 1)
    BY <2>2
  <2> QED BY <1>1, <2>1, <2>3 DEF TermInv
<1>8. SolveInv'
  <2> SUFFICES ASSUME NEW b \in Block(fn), Demanded(b)'
               PROVE  InList(b)' \/ b = bb' \/ Consistent(b)'
    BY <1>1 DEF SolveInv, Active, Block
  <2>1. InList(b) \/ b = bb \/ Consistent(b)
    BY <1>1, <1>6 DEF IndInv, SolveInv
  <2>2. CASE Consistent(b)
    BY <1>1, <1>6, <2>2, ConsistentFrame
  <2> QED BY <1>1, <2>1, <2>2 DEF InList
<1> QED BY <1>1, <1>4, <1>5, <1>7, <1>8 DEF IndInv, BlockInv, ListInv, WaitInv, InList, Block

LEMMA ExitInd == ASSUME IndInv, handleExitTerminator PROVE IndInv'
<1> USE DEF input, passes
<1>1. /\ fn' = fn /\ fn \in Functions /\ initial' = initial /\ ignored' = ignored
      /\ states' = states /\ exits' = [exits EXCEPT ![bb] = cur]
      /\ pc = "term" /\ pc' = "idle"
      /\ worklist' = worklist /\ bb' = bb /\ bb \in Block(fn) /\ TypeOK
      /\ cur \in Value /\ cur' = Null /\ fn.succ[bb] = <<>>
  BY DEF handleExitTerminator, IndInv, BlockInv, Active
<1>2. exits \in [Block(fn) -> Value \cup {Null}]
  BY <1>1 DEF TypeOK
<1>3. TypeOK'
  BY <1>1, <1>2 DEF handleExitTerminator, TypeOK, Edge, Block, Uses
<1>4. \A b \in Block(fn) : InState(b)' = InState(b) /\ Demanded(b)' = Demanded(b)
  BY <1>1, InFrame
<1>5. SolveInv'
  <2> SUFFICES ASSUME NEW b \in Block(fn), Demanded(b)'
               PROVE  InList(b)' \/ Consistent(b)'
    BY <1>1 DEF SolveInv, Block
  <2>1. InList(b) \/ b = bb \/ Consistent(b)
    BY <1>1, <1>4 DEF IndInv, SolveInv
  <2>2. CASE b = bb /\ ~InList(b)
    <3>1. cur = Transfer(b, InState(b))
      BY <1>1, <2>2 DEF IndInv, TermInv
    <3>2. exits'[b] = Transfer(b, InState(b))'
      BY <1>1, <1>2, <1>4, <2>2, <3>1 DEF Transfer
    <3> QED BY <1>1, <2>2, <3>2 DEF Consistent
  <2>3. CASE b # bb /\ Consistent(b)
    BY <1>1, <1>2, <1>4, <2>3, ConsistentFrame
  <2> QED BY <1>1, <2>1, <2>2, <2>3 DEF InList
<1> QED BY <1>1, <1>3, <1>5 DEF IndInv, BlockInv, ListInv, WaitInv, TermInv, Active

LEMMA SuccessorInd == ASSUME IndInv, handleSuccessor PROVE IndInv'
<1> USE DEF input, passes
<1>1. /\ fn' = fn /\ fn \in Functions /\ initial' = initial /\ ignored' = ignored
      /\ exits' = exits /\ pc = "term" /\ pc' \in {"idle", "term"}
      /\ pc' = "idle" => next = Len(fn.succ[bb])
      /\ bb' = bb /\ bb \in Block(fn) /\ TypeOK
      /\ cur \in Value /\ cur' = cur
      /\ next \in Nat \ {0} /\ next' = next + 1 /\ next <= Len(fn.succ[bb])
      /\ worklist \in Seq(Block(fn))
      /\ states \in [Edge(fn) -> Value \cup {Null}]
  BY DEF handleSuccessor, IndInv, BlockInv, Active, TypeOK
<1>2. fn.succ[bb] \in Seq(Block(fn)) /\ next \in DOMAIN fn.succ[bb]
  BY <1>1, FnFacts
<1>c. PICK c \in Block(fn) : c = fn.succ[bb][next]
  BY <1>1, <1>2
<1> DEFINE current == getCurrentState(bb, c, cur)
<1>3. current \in Value /\ <<bb, c>> \in Edge(fn) /\ bb \in Preds(fn, c)
  BY <1>1, <1>2, <1>c, CurrentType DEF Edge, Preds
<1>4. \/ c \in fn.unreachable /\ worklist' = worklist /\ states' = states
      \/ /\ c \notin fn.unreachable
         /\ worklist' = IF states[<<bb, c>>] = current THEN worklist ELSE addToWorklist(worklist, c)
         /\ states' = [states EXCEPT ![<<bb, c>>] = current]
  BY <1>c DEF handleSuccessor
<1>5. /\ worklist' \in Seq(Block(fn))
      /\ \A b : InList(b) => InList(b)'
      /\ \A i, j \in DOMAIN worklist' : worklist'[i] = worklist'[j] => i = j
      /\ states' # states => InList(c)'
  <2>1. \A i, j \in DOMAIN worklist : worklist[i] = worklist[j] => i = j
    BY DEF IndInv, ListInv
  <2>2. CASE worklist' = worklist /\ states' = states
    BY <1>1, <2>1, <2>2 DEF InList
  <2>3. CASE worklist' = addToWorklist(worklist, c)
    <3>1. /\ worklist' \in Seq(Block(fn))
          /\ \E i \in DOMAIN worklist' : worklist'[i] = c
          /\ \A i \in DOMAIN worklist : i \in DOMAIN worklist' /\ worklist'[i] = worklist[i]
          /\ \A i, j \in DOMAIN worklist' : worklist'[i] = worklist'[j] => i = j
      <4> DEFINE l == addToWorklist(worklist, c)
      <4>1. /\ l \in Seq(Block(fn))
            /\ \E i \in DOMAIN l : l[i] = c
            /\ \A i \in DOMAIN worklist : i \in DOMAIN l /\ l[i] = worklist[i]
            /\ (\A i, j \in DOMAIN worklist : worklist[i] = worklist[j] => i = j)
               => \A i, j \in DOMAIN l : l[i] = l[j] => i = j
        BY <1>1, AddProps
      <4> HIDE DEF l
      <4>2. worklist' = l
        BY <2>3 DEF l
      <4> QED BY <2>1, <4>1, <4>2
    <3>2. InList(c)'
      BY <3>1 DEF InList
    <3>3. \A b : InList(b) => InList(b)'
      BY <3>1, Zenon DEF InList
    <3> QED BY <3>1, <3>2, <3>3
  <2>4. states[<<bb, c>>] = current => states' = states
    BY <1>1, <1>3, <1>4
  <2> QED BY <1>4, <2>2, <2>3, <2>4
<1> HIDE DEF current
<1>6. \A e \in Edge(fn) : e # <<bb, c>> => states'[e] = states[e]
  BY <1>1, <1>4
<1>7. states' \in [Edge(fn) -> Value \cup {Null}]
  BY <1>1, <1>3, <1>4
<1>8. c \notin fn.unreachable => states'[<<bb, c>>] = current
  BY <1>1, <1>3, <1>4
<1>9. ASSUME NEW b \in Block(fn), b # c \/ states' = states
      PROVE  InState(b)' = InState(b) /\ Demanded(b)' = Demanded(b)
  <2>1. \A p \in Preds(fn, b) : states'[<<p, b>>] = states[<<p, b>>]
    BY <1>6, <1>9 DEF Preds, Edge
  <2> QED BY <1>1, <2>1, InFrame
<1>10. TypeOK'
  BY <1>1, <1>5, <1>7 DEF handleSuccessor, TypeOK, Edge, Block, Uses
<1>11. InList(bb)' \/ cur = Transfer(bb, InState(bb))'
  <2>1. InList(bb) \/ cur = Transfer(bb, InState(bb))
    BY <1>1 DEF IndInv, TermInv
  <2>2. CASE bb = c /\ states' # states
    BY <1>1, <1>5, <2>2
  <2>3. CASE bb # c \/ states' = states
    BY <1>1, <1>5, <1>9, <2>1, <2>3 DEF Transfer
  <2> QED BY <2>2, <2>3
<1>12. \A i \in DOMAIN fn.succ[bb] :
          i < next' /\ fn.succ[bb][i] \notin fn.unreachable
             => states'[<<bb, fn.succ[bb][i]>>] = getCurrentState(bb, fn.succ[bb][i], cur)
  <2> SUFFICES ASSUME NEW i \in DOMAIN fn.succ[bb], i < next',
                      fn.succ[bb][i] \notin fn.unreachable
               PROVE  states'[<<bb, fn.succ[bb][i]>>] = getCurrentState(bb, fn.succ[bb][i], cur)
    OBVIOUS
  <2>1. CASE fn.succ[bb][i] = c
    BY <1>8, <2>1 DEF current
  <2>2. CASE fn.succ[bb][i] # c
    <3>1. i < next
      BY <1>1, <1>2, <1>c, <2>2
    <3>2. states[<<bb, fn.succ[bb][i]>>] = getCurrentState(bb, fn.succ[bb][i], cur)
      BY <1>1, <3>1 DEF IndInv, TermInv
    <3>3. <<bb, fn.succ[bb][i]>> \in Edge(fn)
      BY <1>1, <1>2 DEF Edge
    <3> QED BY <1>6, <2>2, <3>2, <3>3
  <2> QED BY <2>1, <2>2
<1>13. TermInv'
  BY <1>1, <1>11, <1>12 DEF TermInv, getCurrentState
<1>14. SolveInv'
  <2> SUFFICES ASSUME NEW b \in Block(fn), Demanded(b)'
               PROVE  InList(b)' \/ (Active' /\ b = bb') \/ Consistent(b)'
    BY <1>1 DEF SolveInv, Block
  <2>1. CASE b = bb /\ pc' = "term"
    BY <1>1, <2>1 DEF Active
  <2>2. CASE b = bb /\ pc' = "idle" /\ ~InList(b)'
    <3>1. cur = Transfer(b, InState(b))'
      BY <1>1, <1>11, <2>2
    <3>2. \A i \in DOMAIN fn.succ[b] : i < next'
      BY <1>1, <1>2, <2>2
    <3>3. fn.succ[b] # <<>>
      BY <1>2, <2>2
    <3> QED BY <1>1, <1>12, <2>2, <3>1, <3>2, <3>3 DEF Consistent, getCurrentState
  <2>3. CASE b # bb /\ b = c /\ states' # states
    BY <1>5, <2>3
  <2>4. CASE b # bb /\ (b # c \/ states' = states)
    <3>1. InState(b)' = InState(b) /\ Demanded(b)
      BY <1>9, <2>4
    <3>2. InList(b) \/ Consistent(b)
      BY <1>1, <2>4, <3>1 DEF IndInv, SolveInv
    <3>3. CASE Consistent(b)
      <4>1. \A i \in DOMAIN fn.succ[b] : <<b, fn.succ[b][i]>> \in Edge(fn)
        BY <1>1, FnFacts DEF Edge
      <4>2. \A i \in DOMAIN fn.succ[b] :
               states'[<<b, fn.succ[b][i]>>] = states[<<b, fn.succ[b][i]>>]
        BY <1>6, <2>4, <4>1
      <4> QED BY <1>1, <3>1, <3>3, <4>2, ConsistentFrame
    <3> QED BY <1>5, <3>2, <3>3
  <2> QED BY <1>1, <2>1, <2>2, <2>3, <2>4
<1>15. BlockInv' /\ ListInv' /\ WaitInv'
  BY <1>1, <1>5 DEF BlockInv, ListInv, WaitInv, Active, Block
<1> QED BY <1>1, <1>10, <1>13, <1>14, <1>15 DEF IndInv

LEMMA EndInd == ASSUME IndInv, EndPass PROVE IndInv'
<1> USE DEF input, passes
<1>1. /\ fn' = fn /\ fn \in Functions /\ TypeOK
      /\ worklist' = worklist /\ pc' \in {"start", "done"}
      /\ results' = results \cup {getResult}
  BY DEF EndPass, IndInv
<1>2. TypeOK'
  BY <1>1, ResultType DEF EndPass, TypeOK, Edge, Block, Uses
<1> QED BY <1>1, <1>2 DEF IndInv, BlockInv, ListInv, WaitInv, TermInv, SolveInv, Active

LEMMA StutterInd == ASSUME IndInv, UNCHANGED vars PROVE IndInv'
<1>1. /\ fn' = fn /\ initial' = initial /\ left' = left /\ ignored' = ignored
      /\ results' = results /\ pc' = pc /\ worklist' = worklist /\ bb' = bb
      /\ tries' = tries /\ maxTries' = maxTries /\ cur' = cur /\ next' = next
      /\ states' = states /\ exits' = exits
  BY DEF vars, input, passes
<1>2. \A b \in Block(fn) : /\ InState(b)' = InState(b)
                           /\ Demanded(b)' = Demanded(b)
                           /\ shouldWait(b)' = shouldWait(b)
  BY <1>1, InFrame
<1>3. TypeOK'
  BY <1>1 DEF IndInv, TypeOK, Edge, Block, Uses
<1>4. BlockInv' /\ ListInv'
  BY <1>1 DEF IndInv, BlockInv, ListInv, Active, InList, Block
<1>5. WaitInv'
  BY <1>1, <1>2 DEF IndInv, WaitInv, BlockInv, Active, TypeOK
<1>6. TermInv'
  BY <1>1, <1>2 DEF IndInv, TermInv, BlockInv, Active, InList, Transfer, getCurrentState
<1>7. SolveInv'
  <2> SUFFICES ASSUME NEW b \in Block(fn), Demanded(b)', pc \notin {"start", "done"}
               PROVE  InList(b)' \/ (Active' /\ b = bb') \/ Consistent(b)'
    BY <1>1 DEF SolveInv, Block
  <2>1. InList(b) \/ (Active /\ b = bb) \/ Consistent(b)
    BY <1>2 DEF IndInv, SolveInv
  <2>2. CASE Consistent(b)
    BY <1>1, <1>2, <2>2, ConsistentFrame
  <2> QED BY <1>1, <2>1, <2>2 DEF InList, Active
<1> QED BY <1>1, <1>3, <1>4, <1>5, <1>6, <1>7 DEF IndInv

LEMMA NextInd == IndInv /\ [Next]_vars => IndInv'
<1> SUFFICES ASSUME IndInv, [Next]_vars PROVE IndInv'
  OBVIOUS
<1>1. ASSUME NEW u \in left, StartPass(u) PROVE IndInv'
  BY <1>1, StartInd
<1>2. CASE TakeBlock
  BY <1>2, TakeInd
<1>3. CASE Wait
  BY <1>3, WaitInd
<1>4. CASE Visit
  BY <1>4, VisitInd
<1>5. CASE handleExitTerminator
  BY <1>5, ExitInd
<1>6. CASE handleSuccessor
  BY <1>6, SuccessorInd
<1>7. CASE EndPass
  BY <1>7, EndInd
<1>8. CASE Done \/ UNCHANGED vars
  BY <1>8, StutterInd DEF Done
<1> QED BY <1>1, <1>2, <1>3, <1>4, <1>5, <1>6, <1>7, <1>8 DEF Next

(* IndInv holds of every reachable state of the engine. *)
THEOREM Inductive == Spec => []IndInv
  BY InitInd, NextInd, PTL DEF Spec

(* The engine keeps the types of its variables: no null graph is merged,   *)
(* transferred or returned.                                                *)
THEOREM TypeCorrect == Spec => []TypeOK
<1>1. IndInv => TypeOK
  BY DEF IndInv
<1> QED BY <1>1, Inductive, PTL

(* For any function, effects and order of visits, run leaves the worklist  *)
(* empty only with a solution of the dataflow equations in States.         *)
THEOREM Solves == Spec => []Solution
<1>1. IndInv => Solution
  BY DEF IndInv, SolveInv, Solution, ListEmpty, InList, Active
<1> QED BY <1>1, Inductive, PTL

(* For any function, a block is visited with a predecessor missing only    *)
(* after a full turn of a list in which every block waits.                 *)
THEOREM GuessesLast == Spec => []ForcedOnlyWhenAllWait
<1>1. ASSUME IndInv PROVE ForcedOnlyWhenAllWait
  <2> SUFFICES ASSUME pc = "wait", tries = maxTries
               PROVE  shouldWait(bb) /\ \A i \in DOMAIN worklist : shouldWait(worklist[i])
    BY DEF ForcedOnlyWhenAllWait
  <2>1. worklist \in Seq(Block(fn)) /\ maxTries = Len(worklist) + 1
    BY <1>1 DEF IndInv, TypeOK, ListInv
  <2>2. \A i \in DOMAIN worklist : i + tries > Len(worklist)
    BY <2>1
  <2> QED BY <1>1, <2>2 DEF IndInv, WaitInv
<1> QED BY <1>1, Inductive, PTL
-----------------------------------------------------------------------------
(* The result: the paths, and what a pass that has ended covers of them.   *)

AllPaths == UNION {PathStatesIn[n] : n \in Nat}

(* r is reached other than along the edge e. *)
Along(r, e) ==
    \/ r = <<Entry, initial>>
    \/ \E q \in AllPaths : \E i \in DOMAIN fn.succ[q[1]] :
          r = Step(q, i) /\ <<q[1], fn.succ[q[1]][i]>> # e

Admitted(r) ==
    LET s == Transfer(r[1], r[2]) IN
    r[1] \in Exits(fn) \ fn.unreachable /\ s # Bottom
        => \E x \in results : x # Bottom /\ s \subseteq x

CoversBut(e) == \A r \in AllPaths : Along(r, e) => Admitted(r)

(* A pass is to come, is running, or has covered what it does not ignore.  *)
Settled(u) ==
    \/ u \in left
    \/ pc \in {"idle", "wait", "term"} /\ ignored = UseEdge(fn, u)
    \/ Monotone /\ DistinctEdges => CoversBut(UseEdge(fn, u))

PassInv ==
    /\ ignored = Null \/ \E u \in MethodPasses(fn) : ignored = UseEdge(fn, u)
    /\ left \subseteq MethodPasses(fn) \cup {Null}
    /\ pc = "done" => left = {}
    /\ (Exits(fn) # {} /\ \A u \in MethodPasses(fn) : Settled(u)) \/ Settled(Null)

(* The recursion that defines PathStatesIn has a solution. *)
LEMMA StepType ==
    ASSUME fn \in Functions, NEW q \in Block(fn) \X Value, NEW i \in DOMAIN fn.succ[q[1]]
    PROVE  Step(q, i) \in Block(fn) \X Value
<1>1. q[1] \in Block(fn) /\ q[2] \in Value
  OBVIOUS
<1>2. fn.succ[q[1]][i] \in Block(fn)
  BY <1>1, FnFacts
<1>3. Transfer(q[1], q[2]) \in Value
  BY <1>1, TransferType
<1>4. fn.refine[q[1]][i = 1] \in [State -> Value]
  <2>1. fn.refine[q[1]] \in [BOOLEAN -> [State -> Value]]
    BY <1>1, FnFacts
  <2> QED BY <2>1
<1>5. Transfer(q[1], q[2]) # Bottom => fn.refine[q[1]][i = 1][Transfer(q[1], q[2])] \in Value
  BY <1>3, <1>4 DEF Value
<1> QED BY <1>2, <1>3, <1>5 DEF Step

LEMMA Paths ==
    ASSUME fn \in Functions, initial \in State
    PROVE  /\ PathStatesIn = [n \in Nat |-> IF n = 0 THEN {<<Entry, initial>>}
                                            ELSE Follow(PathStatesIn[n - 1])]
           /\ PathStatesIn \in [Nat -> SUBSET (Block(fn) \X Value)]
<1> DEFINE T == SUBSET (Block(fn) \X Value)
           F == [R \in T |-> Follow(R)]
           base == {<<Entry, initial>>}
<1>1. base \in T
  BY FnFacts DEF Value
<1>2. F \in [T -> T]
  <2>1. ASSUME NEW R \in T PROVE Follow(R) \in T
    <3>1. \A r \in R : r \in Block(fn) \X Value
      OBVIOUS
    <3> QED BY <3>1, StepType DEF Follow
  <2> HIDE DEF T
  <2> QED BY <2>1
<1> HIDE DEF T, F, base
<1>3. PICK g \in [Nat -> T] : g = [n \in Nat |-> IF n = 0 THEN base ELSE F[g[n - 1]]]
  BY <1>1, <1>2, Iterates DEF Orbit
<1>4. \A n \in Nat : n # 0 => F[g[n - 1]] = Follow(g[n - 1])
  <2>1. \A n \in Nat : n # 0 => n - 1 \in Nat
    OBVIOUS
  <2>2. \A n \in Nat : n # 0 => g[n - 1] \in T
    BY <1>3, <2>1
  <2> QED BY <2>2 DEF F
<1>5. g = [n \in Nat |-> IF n = 0 THEN base ELSE Follow(g[n - 1])]
  BY <1>3, <1>4, Zenon
<1>6. PathStatesIn = [n \in Nat |-> IF n = 0 THEN base ELSE Follow(PathStatesIn[n - 1])]
  BY <1>5, Zenon DEF PathStatesIn, base
<1>7. \A n \in Nat : n # 0 => (PathStatesIn[n - 1] \in T => Follow(PathStatesIn[n - 1]) \in T)
  BY <1>2 DEF F
<1>8. PathStatesIn \in [Nat -> T]
  <2> DEFINE D == {n \in Nat : PathStatesIn[n] \in T}
  <2>1. 0 \in D
    BY <1>1, <1>6
  <2>2. ASSUME NEW n \in Nat, n \in D PROVE n + 1 \in D
    <3>1. n + 1 \in Nat /\ n + 1 # 0 /\ (n + 1) - 1 = n
      OBVIOUS
    <3>2. PathStatesIn[n + 1] = Follow(PathStatesIn[n])
      BY <1>6, <3>1
    <3> QED BY <1>7, <2>2, <3>1, <3>2
  <2>3. Nat \subseteq D
    <3> HIDE DEF D
    <3> QED BY <2>1, <2>2, Induction
  <2>4. \A n \in Nat : PathStatesIn[n] \in T
    BY <2>3
  <2> QED BY <1>6, <2>4, Zenon
<1> QED BY <1>6, <1>8 DEF base, T

(* While the function and its input stay, so do the paths. *)
LEMMA PathsFrame ==
    ASSUME fn' = fn, initial' = initial
    PROVE  AllPaths' = AllPaths /\ \A r, e : Along(r, e)' => Along(r, e)
<1>1. PathStatesIn' = PathStatesIn
  BY DEF PathStatesIn, Follow, Step, Transfer
<1>2. AllPaths' = AllPaths
  BY <1>1 DEF AllPaths
<1>3. ASSUME NEW r, NEW e PROVE Along(r, e)' => Along(r, e)
  BY <1>2 DEF Along, Step, Transfer
<1> QED BY <1>2, <1>3

(* A path is empty or a path and one more edge. *)
LEMMA Origin ==
    ASSUME fn \in Functions, initial \in State, NEW r \in AllPaths
    PROVE  /\ r \in Block(fn) \X Value
           /\ \/ r = <<Entry, initial>>
              \/ \E q \in AllPaths : \E i \in DOMAIN fn.succ[q[1]] : r = Step(q, i)
<1>1. PICK n \in Nat : r \in PathStatesIn[n]
  BY DEF AllPaths
<1>2. r \in Block(fn) \X Value
  BY <1>1, Paths
<1> DEFINE D == {k \in Nat : r \in PathStatesIn[k]}
<1>3. PICK k \in D : \A j \in D : k <= j
  <2>1. D \in SUBSET Nat /\ D # {}
    BY <1>1
  <2> HIDE DEF D
  <2> QED BY <2>1, Least
<1>4. CASE k = 0
  BY <1>3, <1>4, Paths
<1>5. CASE k # 0
  <2>1. k \in Nat /\ k - 1 \in Nat /\ k - 1 \notin D
    BY <1>3, <1>5
  <2>2. PathStatesIn[k] = Follow(PathStatesIn[k - 1])
    BY <1>5, <2>1, Paths
  <2>3. r \in Follow(PathStatesIn[k - 1]) /\ r \notin PathStatesIn[k - 1]
    BY <1>3, <2>1, <2>2
  <2>4. \E q \in PathStatesIn[k - 1] : \E i \in DOMAIN fn.succ[q[1]] : r = Step(q, i)
    BY <2>3 DEF Follow
  <2>5. PathStatesIn[k - 1] \subseteq AllPaths
    BY <2>1 DEF AllPaths
  <2> QED BY <1>2, <2>4, <2>5
<1> QED BY <1>2, <1>4, <1>5

(* The effect of a block and of a condition keep the order of the states.  *)
LEMMA TransferLeq ==
    ASSUME fn \in Functions, Monotone, NEW b \in Block(fn), NEW s \in Value, NEW t \in Value,
           Leq(s, t)
    PROVE  Leq(Transfer(b, s), Transfer(b, t))
<1>1. CASE s = Bottom
  BY <1>1 DEF Leq, Transfer
<1>2. CASE s # Bottom
  <2>1. s \in State /\ t \in State /\ s \subseteq t /\ t # Bottom
    BY <1>2 DEF Leq, Value
  <2>2. Leq(fn.effect[b][s], fn.effect[b][t])
    BY <2>1 DEF Monotone
  <2> QED BY <1>2, <2>1, <2>2 DEF Transfer
<1> QED BY <1>1, <1>2

LEMMA EdgeLeq ==
    ASSUME fn \in Functions, Monotone, DistinctEdges,
           NEW q \in Block(fn) \X Value, NEW i \in DOMAIN fn.succ[q[1]],
           NEW t \in Value, Leq(Transfer(q[1], q[2]), t)
    PROVE  Leq(Step(q, i)[2], getCurrentState(q[1], fn.succ[q[1]][i], t))
<1> DEFINE b == q[1]
           s == Transfer(q[1], q[2])
           c == fn.succ[q[1]][i]
<1>1. b \in Block(fn) /\ s \in Value /\ fn.succ[b] \in Seq(Block(fn))
  BY FnFacts, TransferType
<1>2. Step(q, i)[2] = IF s # Bottom /\ b \in fn.branches THEN fn.refine[b][i = 1][s] ELSE s
  BY DEF Step
<1>3. Leq(s, t)
  OBVIOUS
<1>4. getCurrentState(b, c, t) = IF t = Bottom THEN Bottom
                                 ELSE IF b \in fn.branches THEN fn.refine[b][fn.succ[b][1] = c][t] ELSE t
  BY DEF getCurrentState
<1>5. i \in DOMAIN fn.succ[b] /\ c = fn.succ[b][i]
  OBVIOUS
<1> HIDE DEF b, s, c
<1>6. CASE s = Bottom
  BY <1>2, <1>6 DEF Leq, b, c
<1>7. CASE s # Bottom /\ b \notin fn.branches
  BY <1>2, <1>3, <1>4, <1>7 DEF Leq, b, c
<1>8. CASE s # Bottom /\ b \in fn.branches
  <2>1. t # Bottom /\ s \in State /\ t \in State /\ s \subseteq t
    BY <1>1, <1>3, <1>8 DEF Leq, Value
  <2>2. Len(fn.succ[b]) = 2 /\ fn.succ[b][1] # fn.succ[b][2]
    BY <1>8, FunctionAssumption DEF DistinctEdges
  <2>3. (fn.succ[b][1] = c) <=> (i = 1)
    BY <1>1, <1>5, <2>2
  <2>4. Leq(fn.refine[b][i = 1][s], fn.refine[b][i = 1][t])
    BY <1>1, <2>1 DEF Monotone
  <2>5. getCurrentState(b, c, t) = fn.refine[b][i = 1][t]
    <3>1. (fn.succ[b][1] = c) = (i = 1)
      BY <2>3
    <3>2. getCurrentState(b, c, t) = fn.refine[b][fn.succ[b][1] = c][t]
      BY <1>4, <1>8, <2>1
    <3> QED BY <3>1, <3>2
  <2>6. Step(q, i)[2] = fn.refine[b][i = 1][s]
    BY <1>2, <1>8
  <2> QED BY <2>4, <2>5, <2>6 DEF b, c
<1> QED BY <1>6, <1>7, <1>8

(* A state that is not ignored is admitted by the state on entry.          *)
LEMMA EdgeInState ==
    ASSUME fn \in Functions, TypeOK, NEW c \in Block(fn), NEW b \in Preds(fn, c),
           <<b, c>> # ignored, states[<<b, c>>] # Null,
           NEW s, Leq(s, states[<<b, c>>])
    PROVE  Leq(s, InState(c))
<1> DEFINE from == {getPredOrInitialState(p, c) : p \in Relevant(c)} \ {Bottom}
           t == states[<<b, c>>]
<1>1. b \in Relevant(c)
  BY DEF Relevant
<1>2. CASE t = Bottom
  BY <1>2 DEF Leq
<1>3. CASE t # Bottom
  <2>1. ~allBottomOrNull(c)
    BY <1>1, <1>3 DEF allBottomOrNull
  <2>2. InState(c) = merge(c)
    BY <2>1 DEF InState
  <2>3. t \in from
    <3>1. getPredOrInitialState(b, c) = t
      BY DEF getPredOrInitialState
    <3> QED BY <1>1, <1>3, <3>1
  <2>4. merge(c) = UNION from
    BY <2>3 DEF merge
  <2>5. merge(c) # Bottom
    <3>1. from \subseteq State
      <4>1. \A p \in Relevant(c) : <<p, c>> \in Edge(fn)
        BY DEF Relevant, Preds, Edge
      <4>2. \A p \in Relevant(c) : getPredOrInitialState(p, c) \in Value
        BY <4>1 DEF getPredOrInitialState, TypeOK, Value
      <4> QED BY <4>2 DEF Value
    <3> HIDE DEF from
    <3>2. UNION from \in State
      BY <2>3, <3>1, FunctionAssumption
    <3> QED BY <2>4, <3>2, FunctionAssumption
  <2>6. t \subseteq UNION from
    <3> HIDE DEF from
    <3> QED BY <2>3
  <2> QED BY <1>3, <2>2, <2>4, <2>5, <2>6 DEF Leq
<1> QED BY <1>2, <1>3

Carries(b, s) == Demanded(b) /\ Leq(s, InState(b))

(* What is true at a block that is asked for is carried along its edges.   *)
LEMMA StepCarries ==
    ASSUME IndInv, ListEmpty, Monotone, DistinctEdges,
           NEW q \in Block(fn) \X Value, NEW i \in DOMAIN fn.succ[q[1]],
           Carries(q[1], q[2]),
           fn.succ[q[1]][i] \notin fn.unreachable,
           <<q[1], fn.succ[q[1]][i]>> # ignored
    PROVE  Carries(Step(q, i)[1], Step(q, i)[2])
<1> DEFINE b == q[1]
           c == fn.succ[q[1]][i]
           t == Transfer(b, InState(b))
<1>1. fn \in Functions /\ TypeOK /\ b \in Block(fn) /\ c \in Block(fn) /\ b \in Preds(fn, c)
  <2>1. fn \in Functions /\ TypeOK /\ b \in Block(fn)
    BY DEF IndInv
  <2>2. c \in Block(fn)
    BY <2>1, FnFacts
  <2> QED BY <2>1, <2>2 DEF Preds
<1>2. Step(q, i)[1] = c
  BY DEF Step
<1>3. Consistent(b)
  BY <1>1 DEF IndInv, SolveInv, ListEmpty, InList, Active, Carries
<1>4. states[<<b, c>>] = getCurrentState(b, c, t)
  BY <1>3 DEF Consistent
<1>5. InState(b) \in Value
  BY <1>1, MergeType DEF InState, Value
<1>6. t \in Value
  BY <1>1, <1>5, TransferType
<1>7. q[2] \in Value /\ Leq(q[2], InState(b))
  BY DEF Carries
<1>8. Leq(Transfer(b, q[2]), t)
  BY <1>1, <1>5, <1>7, TransferLeq
<1>9. Leq(Step(q, i)[2], states[<<b, c>>])
  <2> HIDE DEF t
  <2>1. Leq(Step(q, i)[2], getCurrentState(q[1], fn.succ[q[1]][i], t))
    BY <1>1, <1>6, <1>8, EdgeLeq
  <2> QED BY <1>4, <2>1
<1>10. states[<<b, c>>] # Null
  <2>1. getCurrentState(b, c, t) \in Value
    BY <1>1, <1>6, CurrentType
  <2>2. Null \notin Value
    BY FunctionAssumption
  <2> QED BY <1>4, <2>1, <2>2
<1>11. Demanded(c)
  BY <1>1, <1>10 DEF Demanded
<1>12. Leq(Step(q, i)[2], InState(c))
  BY <1>1, <1>9, <1>10, EdgeInState
<1> QED BY <1>2, <1>11, <1>12 DEF Carries

(* Nothing leads to the entry: its state is Initial.                       *)
LEMMA EntryCarries ==
    ASSUME fn \in Functions, initial \in State
    PROVE  Carries(Entry, initial)
<1>1. Preds(fn, Entry) = {}
  <2>1. \A p \in Block(fn) : \A i \in DOMAIN fn.succ[p] : fn.succ[p][i] # Entry
    BY FnFacts
  <2> QED BY <2>1 DEF Preds
<1>2. InState(Entry) = initial
  BY <1>1 DEF InState, merge
<1>3. initial # Bottom
  BY FunctionAssumption
<1> QED BY <1>2, <1>3 DEF Carries, Demanded, Leq

(* What a pass may ignore is an edge into an exit.                         *)
LEMMA IgnoredExit ==
    ASSUME fn \in Functions, NEW u \in MethodPasses(fn), NEW b \in Block(fn),
           NEW i \in DOMAIN fn.succ[b], <<b, fn.succ[b][i]>> = UseEdge(fn, u)
    PROVE  fn.succ[b][i] \in Exits(fn)
<1>1. u # Null
  <2>1. fn.succ[b][i] \in Block(fn)
    BY FnFacts
  <2>2. <<b, fn.succ[b][i]>> # Null
    BY <2>1, FnFacts DEF Edge
  <2> QED BY <2>2 DEF UseEdge
<1>2. fn.succ[u[1]][u[2]] \in Exits(fn)
  BY <1>1 DEF MethodPasses
<1> QED BY <1>1, <1>2 DEF UseEdge

(* At the end of a pass every path to a block with a way on is carried.    *)
LEMMA PathCarries ==
    ASSUME IndInv, PassInv, ListEmpty, Monotone, DistinctEdges,
           NEW r \in AllPaths, r[1] \notin fn.unreachable, Along(r, ignored)
    PROVE  Carries(r[1], r[2])
<1> DEFINE Inner(n) == \A q \in PathStatesIn[n] : fn.succ[q[1]] # <<>> => Carries(q[1], q[2])
           D == {n \in Nat : Inner(n)}
<1>1. fn \in Functions /\ initial \in State
  BY DEF IndInv, TypeOK
<1>2. fn.unreachable \subseteq {b \in Block(fn) : fn.succ[b] = <<>>}
  BY <1>1, FnFacts
<1>3. ASSUME NEW q \in Block(fn) \X Value, Carries(q[1], q[2]), NEW i \in DOMAIN fn.succ[q[1]],
             fn.succ[Step(q, i)[1]] # <<>>
      PROVE  Carries(Step(q, i)[1], Step(q, i)[2])
  <2>1. Step(q, i)[1] = fn.succ[q[1]][i] /\ fn.succ[q[1]][i] \in Block(fn) /\ q[1] \in Block(fn)
    BY <1>1, FnFacts DEF Step
  <2>2. fn.succ[q[1]][i] \notin fn.unreachable
    BY <1>2, <1>3, <2>1
  <2>3. fn.succ[q[1]][i] \notin Exits(fn)
    BY <1>3, <2>1 DEF Exits
  <2>4. <<q[1], fn.succ[q[1]][i]>> \in Edge(fn)
    BY <2>1 DEF Edge
  <2>5. <<q[1], fn.succ[q[1]][i]>> # ignored
    BY <1>1, <2>1, <2>3, <2>4, IgnoredExit, FnFacts DEF PassInv
  <2> QED BY <1>3, <2>2, <2>5, StepCarries
<1>4. 0 \in D
  <2>1. PathStatesIn[0] = {<<Entry, initial>>}
    BY <1>1, Paths
  <2> QED BY <1>1, <2>1, EntryCarries
<1>5. ASSUME NEW n \in Nat, n \in D PROVE n + 1 \in D
  <2>1. n + 1 \in Nat /\ n + 1 # 0 /\ (n + 1) - 1 = n
    OBVIOUS
  <2>2. PathStatesIn[n + 1] = Follow(PathStatesIn[n])
    BY <1>1, <2>1, Paths
  <2>3. PathStatesIn[n] \subseteq Block(fn) \X Value
    BY <1>1, Paths
  <2>4. ASSUME NEW q \in PathStatesIn[n + 1], fn.succ[q[1]] # <<>> PROVE Carries(q[1], q[2])
    <3>1. CASE q \in PathStatesIn[n]
      BY <1>5, <2>4, <3>1
    <3>2. CASE q \notin PathStatesIn[n]
      <4>1. PICK p \in PathStatesIn[n] : \E i \in DOMAIN fn.succ[p[1]] : q = Step(p, i)
        BY <2>2, <3>2 DEF Follow
      <4>i. PICK i \in DOMAIN fn.succ[p[1]] : q = Step(p, i)
        BY <4>1
      <4>2. p \in Block(fn) \X Value
        BY <2>3
      <4>3. fn.succ[p[1]] # <<>>
        OBVIOUS
      <4>4. Carries(p[1], p[2])
        BY <1>5, <4>3
      <4> QED BY <1>3, <2>4, <4>i, <4>2, <4>4
    <3> QED BY <3>1, <3>2
  <2> QED BY <2>1, <2>4
<1>6. Nat \subseteq D
  <2> HIDE DEF D
  <2> QED BY <1>4, <1>5, Induction
<1>7. CASE r = <<Entry, initial>>
  BY <1>1, <1>7, EntryCarries
<1>8. CASE r # <<Entry, initial>>
  <2>1. PICK q \in AllPaths : \E i \in DOMAIN fn.succ[q[1]] :
           r = Step(q, i) /\ <<q[1], fn.succ[q[1]][i]>> # ignored
    BY <1>8 DEF Along
  <2>i. PICK i \in DOMAIN fn.succ[q[1]] :
           r = Step(q, i) /\ <<q[1], fn.succ[q[1]][i]>> # ignored
    BY <2>1
  <2>2. PICK n \in Nat : q \in PathStatesIn[n]
    BY DEF AllPaths
  <2>3. q \in Block(fn) \X Value
    BY <1>1, Origin
  <2>4. fn.succ[q[1]] # <<>>
    OBVIOUS
  <2>5. Inner(n)
    BY <1>6
  <2>6. Carries(q[1], q[2])
    BY <2>2, <2>4, <2>5
  <2>7. Step(q, i)[1] = fn.succ[q[1]][i]
    BY DEF Step
  <2> QED BY <2>i, <2>3, <2>6, <2>7, StepCarries
<1> QED BY <1>7, <1>8

(* Whatever path reaches an exit, other than along the ignored edge, the   *)
(* result of the pass admits what is true there.                           *)
LEMMA PassAdmits ==
    ASSUME IndInv, PassInv, ListEmpty, Monotone, DistinctEdges,
           NEW r \in AllPaths, Along(r, ignored),
           r[1] \in Exits(fn) \ fn.unreachable, Transfer(r[1], r[2]) # Bottom
    PROVE  getResult # Bottom /\ Transfer(r[1], r[2]) \subseteq getResult
<1> DEFINE b == r[1]
           t == Transfer(b, InState(b))
           at == {exits[a] : a \in Block(fn) \ fn.unreachable} \ {Bottom, Null}
<1>1. fn \in Functions /\ initial \in State /\ TypeOK /\ b \in Block(fn) /\ fn.succ[b] = <<>>
  BY DEF IndInv, TypeOK, Exits
<1>2. r[2] \in Value
  BY <1>1, Origin
<1>3. Demanded(b) /\ Leq(r[2], InState(b))
  BY PathCarries DEF Carries
<1>4. Consistent(b)
  BY <1>1, <1>3 DEF IndInv, SolveInv, ListEmpty, InList, Active
<1>5. exits[b] = t
  BY <1>1, <1>4 DEF Consistent
<1>6. InState(b) \in Value
  BY <1>1, MergeType DEF InState, Value
<1>7. t \in Value /\ Leq(Transfer(b, r[2]), t)
  BY <1>1, <1>2, <1>3, <1>6, TransferType, TransferLeq
<1>8. t # Bottom /\ t # Null /\ Transfer(b, r[2]) \subseteq t
  BY <1>7, FunctionAssumption DEF Leq
<1>9. t \in at
  BY <1>1, <1>5, <1>8
<1>10. getResult = UNION at
  BY <1>9 DEF getResult
<1>11. UNION at \in State
  <2>1. at \subseteq State
    BY <1>1 DEF TypeOK, Value
  <2> HIDE DEF at
  <2> QED BY <1>9, <2>1, FunctionAssumption
<1>12. t \subseteq UNION at
  <2> HIDE DEF at
  <2> QED BY <1>9
<1>13. Bottom \notin State
  BY FunctionAssumption
<1> HIDE DEF at, t
<1> QED BY <1>8, <1>10, <1>11, <1>12, <1>13

(* What a result admits is admitted still when there are more results.     *)
LEMMA CoversFrame ==
    ASSUME fn' = fn, initial' = initial, results \subseteq results'
    PROVE  /\ (Monotone /\ DistinctEdges)' = (Monotone /\ DistinctEdges)
           /\ \A e : CoversBut(e) => CoversBut(e)'
<1>1. AllPaths' = AllPaths
  BY PathsFrame
<1>3. ASSUME NEW r PROVE Admitted(r) => Admitted(r)'
  BY DEF Admitted, Transfer, Exits, Block
<1>4. ASSUME NEW r, NEW e PROVE Along(r, e)' => Along(r, e)
  BY PathsFrame
<1>5. \A e : CoversBut(e) => CoversBut(e)'
  BY <1>1, <1>3, <1>4 DEF CoversBut
<1>6. (Monotone /\ DistinctEdges)' = (Monotone /\ DistinctEdges)
  BY DEF Monotone, DistinctEdges, Block, Leq, MethodPasses, Uses, Exits, UseEdge
<1> QED BY <1>5, <1>6

LEMMA InitPass == Init => PassInv
BY DEF Init, PassInv, Settled

LEMMA NextPass == IndInv /\ PassInv /\ [Next]_vars => PassInv'
<1> SUFFICES ASSUME IndInv, PassInv, [Next]_vars PROVE PassInv'
  OBVIOUS
<1> USE DEF input, passes
<1>1. fn' = fn /\ initial' = initial /\ results \subseteq results'
  BY DEF Next, vars, StartPass, TakeBlock, Wait, Visit, handleExitTerminator,
         handleSuccessor, EndPass, Done
<1>2. /\ MethodPasses(fn)' = MethodPasses(fn)
      /\ Exits(fn)' = Exits(fn)
      /\ \A u : UseEdge(fn, u)' = UseEdge(fn, u')
  BY <1>1 DEF MethodPasses, Exits, UseEdge, Uses, Block
<1>3. /\ (Monotone /\ DistinctEdges)' = (Monotone /\ DistinctEdges)
      /\ \A e : CoversBut(e) => CoversBut(e)'
  BY <1>1, CoversFrame
<1>4. CASE \E u \in left : StartPass(u)
  <2>1. PICK u \in left : StartPass(u)
    BY <1>4
  <2>2. /\ left' = left \ {u} /\ pc = "start" /\ pc' = "idle"
        /\ ignored' = UseEdge(fn, u)
        /\ u = Null \/ u \in MethodPasses(fn)
    BY <2>1 DEF StartPass, PassInv
  <2>3. ASSUME NEW v, Settled(v) PROVE Settled(v)'
    <3> DEFINE e == UseEdge(fn, v)
    <3>1. PICK d : d = e
      OBVIOUS
    <3>2. UseEdge(fn, v)' = d
      BY <1>2, <3>1
    <3>3. (Monotone /\ DistinctEdges => CoversBut(d)) => (Monotone /\ DistinctEdges => CoversBut(d))'
      BY <1>3
    <3>4. v = u => UseEdge(fn, u) = d
      BY <3>1
    <3> QED BY <2>2, <2>3, <3>1, <3>2, <3>3, <3>4 DEF Settled
  <2>4. UseEdge(fn, Null) = Null
    BY DEF UseEdge
  <2>5. ignored' = Null \/ \E w \in MethodPasses(fn)' : ignored' = UseEdge(fn, w)'
    BY <1>2, <2>2, <2>4
  <2> QED BY <1>2, <2>2, <2>3, <2>5 DEF PassInv
<1>5. CASE EndPass
  <2>1. /\ ListEmpty /\ left' = left /\ ignored' = ignored /\ pc = "idle"
        /\ pc' = IF left = {} THEN "done" ELSE "start"
        /\ results' = results \cup {getResult}
    BY <1>5 DEF EndPass, ListEmpty
  <2>2. Monotone /\ DistinctEdges => CoversBut(ignored)'
    <3> SUFFICES ASSUME Monotone, DistinctEdges, NEW r \in AllPaths, Along(r, ignored)
                 PROVE  Admitted(r)'
      <4>1. PICK d : d = ignored
        OBVIOUS
      <4>2. AllPaths' = AllPaths /\ \A q : Along(q, d)' => Along(q, d)
        BY <1>1, PathsFrame
      <4>3. (Monotone /\ DistinctEdges => \A q \in AllPaths : Along(q, d) => Admitted(q)')
            => (Monotone /\ DistinctEdges => CoversBut(d)')
        BY <4>2 DEF CoversBut
      <4> QED BY <2>1, <4>1, <4>3
    <3>1. Transfer(r[1], r[2])' = Transfer(r[1], r[2]) /\ Exits(fn)' = Exits(fn)
      BY <1>1, <1>2 DEF Transfer
    <3> QED BY <1>1, <2>1, <3>1, PassAdmits DEF Admitted
  <2>3. ASSUME NEW v, Settled(v) PROVE Settled(v)'
    <3>1. PICK d : d = UseEdge(fn, v)
      OBVIOUS
    <3>2. UseEdge(fn, v)' = d
      BY <1>2, <3>1
    <3>3. (Monotone /\ DistinctEdges => CoversBut(d)) => (Monotone /\ DistinctEdges => CoversBut(d))'
      BY <1>3
    <3>4. CASE v \in left
      BY <2>1, <3>4 DEF Settled
    <3>5. CASE ignored = d
      <4>1. (Monotone /\ DistinctEdges => CoversBut(d))'
        BY <1>3, <2>1, <2>2, <3>5
      <4> QED BY <3>2, <4>1 DEF Settled
    <3>6. CASE Monotone /\ DistinctEdges => CoversBut(d)
      BY <3>2, <3>3, <3>6 DEF Settled
    <3> QED BY <2>3, <3>1, <3>4, <3>5, <3>6 DEF Settled
  <2> QED BY <1>2, <2>1, <2>3 DEF PassInv
<1>6. CASE /\ left' = left /\ ignored' = ignored
           /\ \/ pc' = pc
              \/ pc \in {"idle", "wait", "term"} /\ pc' \in {"idle", "wait", "term"}
  <2>1. ASSUME NEW v, Settled(v) PROVE Settled(v)'
    <3>1. PICK d : d = UseEdge(fn, v)
      OBVIOUS
    <3>2. UseEdge(fn, v)' = d
      BY <1>2, <3>1
    <3>3. (Monotone /\ DistinctEdges => CoversBut(d)) => (Monotone /\ DistinctEdges => CoversBut(d))'
      BY <1>3
    <3> QED BY <1>6, <2>1, <3>1, <3>2, <3>3 DEF Settled
  <2> QED BY <1>2, <1>6, <2>1 DEF PassInv
<1>7. TakeBlock \/ Wait \/ Visit \/ handleExitTerminator \/ handleSuccessor \/ Done \/ UNCHANGED vars
      => /\ left' = left /\ ignored' = ignored
         /\ \/ pc' = pc
            \/ pc \in {"idle", "wait", "term"} /\ pc' \in {"idle", "wait", "term"}
  BY DEF vars, TakeBlock, Wait, Visit, handleExitTerminator, handleSuccessor, Done
<1> QED BY <1>4, <1>5, <1>6, <1>7 DEF Next

LEMMA PassInductive == Spec => []PassInv
  BY InitPass, NextPass, Inductive, PTL DEF Spec

(* Whatever path a method takes to a return, however long, one of the      *)
(* results admits what is true there.                                      *)
PathsAdmitted ==
    pc = "done" /\ Monotone /\ DistinctEdges => \A r \in AllPaths : Admitted(r)

(* When every pass has ended, their results together cover every path: two *)
(* passes ignore different edges, and a path ends with one edge only.      *)
LEMMA ResultSound ==
    ASSUME IndInv, PassInv
    PROVE  PathsAdmitted
<1> SUFFICES ASSUME pc = "done", Monotone, DistinctEdges, NEW r \in AllPaths,
                    r[1] \in Exits(fn) \ fn.unreachable
             PROVE  Admitted(r)
  BY DEF PathsAdmitted, Admitted
<1>1. fn \in Functions /\ initial \in State /\ left = {}
  BY DEF IndInv, TypeOK, PassInv
<1>2. ASSUME NEW u, Settled(u) PROVE CoversBut(UseEdge(fn, u))
  BY <1>1, <1>2 DEF Settled
<1>3. CASE Settled(Null)
  <2>1. CoversBut(Null)
    BY <1>2, <1>3 DEF UseEdge
  <2>2. Along(r, Null)
    <3>1. CASE r = <<Entry, initial>>
      BY <3>1 DEF Along
    <3>2. CASE r # <<Entry, initial>>
      <4>1. PICK q \in AllPaths : \E i \in DOMAIN fn.succ[q[1]] : r = Step(q, i)
        BY <1>1, <3>2, Origin
      <4>2. PICK i \in DOMAIN fn.succ[q[1]] : r = Step(q, i)
        BY <4>1
      <4>3. q[1] \in Block(fn)
        BY <1>1, Origin
      <4>4. <<q[1], fn.succ[q[1]][i]>> \in Edge(fn)
        BY <1>1, <4>3, FnFacts DEF Edge
      <4>5. <<q[1], fn.succ[q[1]][i]>> # Null
        BY <1>1, <4>4, FnFacts
      <4> QED BY <4>2, <4>5 DEF Along
    <3> QED BY <3>1, <3>2
  <2> QED BY <2>1, <2>2 DEF CoversBut
<1>4. CASE \A u \in MethodPasses(fn) : Settled(u)
  <2>1. CASE Null \in MethodPasses(fn)
    BY <1>3, <1>4, <2>1
  <2>2. CASE Null \notin MethodPasses(fn)
    <3> DEFINE into == {u \in Uses(fn) : fn.succ[u[1]][u[2]] \in Exits(fn)}
    <3>1. MethodPasses(fn) = into /\ Cardinality(into) = 2
      BY <2>2 DEF MethodPasses
    <3> HIDE DEF into
    <3>2. PICK u \in into, v \in into : u # v
      <4>1. into # {}
        BY <3>1, FS_EmptySet
      <4>2. PICK u \in into : TRUE
        BY <4>1
      <4>3. into # {u}
        BY <3>1, FS_Singleton
      <4> QED BY <4>2, <4>3
    <3>3. CoversBut(UseEdge(fn, u)) /\ CoversBut(UseEdge(fn, v))
      BY <1>2, <1>4, <3>1
    <3>4. UseEdge(fn, u) # UseEdge(fn, v)
      BY <3>1, <3>2 DEF DistinctEdges
    <3>5. Along(r, UseEdge(fn, u)) \/ Along(r, UseEdge(fn, v))
      BY <1>1, <3>4, Origin DEF Along
    <3> QED BY <3>3, <3>5 DEF CoversBut
  <2> QED BY <2>1, <2>2
<1> QED BY <1>3, <1>4 DEF PassInv

(* For any function with monotone effects, however its blocks are ordered  *)
(* and whichever edges the passes ignore, runMethod's results together     *)
(* admit what is true at every return, along paths of any length.          *)
THEOREM ResultsCoverPaths == Spec => []PathsAdmitted
BY Inductive, PassInductive, ResultSound, PTL

(* The same of the paths that the runs explore, which are finitely many    *)
(* when the graphs are.                                                    *)
THEOREM SoundResults ==
    ASSUME IsFiniteSet(State)
    PROVE  Spec => []SoundResult
<1>1. IsFiniteSet(Value)
  BY FS_AddElement DEF Value
<1>2. IndInv /\ PathsAdmitted => SoundResult
  <2> SUFFICES ASSUME IndInv, PathsAdmitted, pc = "done", Monotone, DistinctEdges,
                      NEW r \in PathStates
               PROVE  Admitted(r)
    BY DEF SoundResult, Admitted
  <2>1. Cardinality(Value) \in Nat
    BY <1>1, FS_CardinalityType
  <2>2. fn.size \in Nat
    BY FnFacts DEF IndInv
  <2>3. fn.size * Cardinality(Value) \in Nat
    BY <2>1, <2>2
  <2>4. r \in AllPaths
    BY <2>3 DEF PathStates, AllPaths
  <2> QED BY <2>4 DEF PathsAdmitted
<1> QED BY <1>2, Inductive, ResultsCoverPaths, PTL
=============================================================================
