------------------------- MODULE IgnoredInstsProofs -------------------------
(***************************************************************************)
(* Proofs about IgnoredInsts: no instruction that the dataflow engine      *)
(* handles reads the value of one that it skips, in any function body.     *)
(***************************************************************************)
EXTENDS IgnoredInsts, NaturalsLemmas, TLAPS

(* ClassQuery goes first and ignores no call.                              *)
ClassFirst ==
    /\ \A j \in IgnoredByClass : ~IsCall(body, j)
    /\ pc = "class" => IgnoredByMem = {} /\ IsAlloc = {}

IndInv == TypeOK /\ ClassFirst /\ SkippedClosed

-----------------------------------------------------------------------------
(* Operands are operands of instructions, and users use them.              *)
LEMMA ReadsUsed ==
    ASSUME TypeOK, NEW j \in All(body), NEW o \in Reads(j)
    PROVE  /\ o \in Operands(body, j)
           /\ o \in All(body) => j \in Users(body, o)
  BY DEF Reads, Operands, Users

(* handleVTablePointer finds a call, of the entry it found or of another.  *)
LEMMA LoadFacts ==
    ASSUME NEW b \in Bodies, NEW l \in All(b),
           b.insts[l].vtable, b.insts[l].op = "load"
    PROVE  LET e == EntryLoad(b, l)
               c == VirtualCall(b, l)
           IN  /\ {l - 1, l + 1, l + 2, e, c} \subseteq All(b)
               /\ Users(b, l - 1) = {l} /\ Users(b, l) = {l + 1}
               /\ Users(b, l + 1) = {l + 2}
               /\ l + 2 = e \/ (HasCast(b, l) /\ Users(b, l + 2) = {e})
               /\ \A u \in Users(b, e) : e \notin Args(b, u)
               /\ IsCall(b, c)
               /\ ~IsCall(b, l - 1) /\ ~IsCall(b, l) /\ ~IsCall(b, l + 1)
               /\ ~IsCall(b, e) /\ (HasCast(b, l) => ~IsCall(b, l + 2))
<1> DEFINE e == EntryLoad(b, l)
<1>1. All(b) = 1 .. Len(b.insts) /\ Len(b.insts) \in Nat
  BY BodiesAssumption DEF All
<1>2. /\ l > 1 /\ b.insts[l - 1].op = "bitcast" /\ Users(b, l - 1) = {l}
      /\ LoadShape(b, l)
  BY BodiesAssumption DEF VTableShape
<1>3. l \in Nat /\ l - 1 \in All(b) /\ l + 2 \in All(b) /\ e \in All(b) /\ l + 1 \in All(b)
  BY <1>1, <1>2 DEF LoadShape
<1>4. PICK u \in All(b) :
         /\ u > e /\ IsCall(b, u) /\ Users(b, e) = {u} /\ e \notin Args(b, u)
  BY <1>2 DEF LoadShape
<1>5. VirtualCall(b, l) \in All(b) /\ IsCall(b, VirtualCall(b, l))
  <2> DEFINE Later == {d \in All(b) : IsCall(b, d) /\ d > e}
  <2>1. Later \in SUBSET Nat /\ Later # {}
    BY <1>1, <1>4
  <2>2. PICK d \in Later : \A x \in Later : d <= x
    BY <2>1, Least
  <2>3. \A x \in e + 1 .. d - 1 : ~IsCall(b, x)
    <3>1. SUFFICES ASSUME NEW x \in e + 1 .. d - 1, IsCall(b, x) PROVE FALSE
      OBVIOUS
    <3>2. x \in All(b) /\ x > e /\ ~(d <= x)
      BY <1>1, <1>3
    <3> QED BY <2>2, <3>1, <3>2
  <2>4. \E c \in All(b) : /\ IsCall(b, c) /\ c > EntryLoad(b, l)
                          /\ \A x \in EntryLoad(b, l) + 1 .. c - 1 : ~IsCall(b, x)
    BY <2>2, <2>3
  <2> QED BY <2>4 DEF VirtualCall
<1>6. ~IsCall(b, l - 1) /\ ~IsCall(b, l) /\ ~IsCall(b, l + 1) /\ ~IsCall(b, e)
  BY <1>2 DEF LoadShape, IsCall
<1>7. HasCast(b, l) => ~IsCall(b, l + 2)
  BY DEF HasCast, IsCall
<1>8. l + 2 = e \/ (HasCast(b, l) /\ Users(b, l + 2) = {e})
  BY <1>2 DEF LoadShape, EntryLoad
<1>9. Users(b, l) = {l + 1} /\ Users(b, l + 1) = {l + 2}
  BY <1>2 DEF LoadShape
<1> QED BY <1>2, <1>3, <1>4, <1>5, <1>6, <1>7, <1>8, <1>9

LEMMA InitInv == Init => IndInv
  BY DEF Init, IndInv, TypeOK, ClassFirst, SkippedClosed, Skipped, Reads, TakenForVirtual

LEMMA StoreInv == IndInv /\ VTableStore => IndInv'
<1> SUFFICES ASSUME IndInv, VTableStore PROVE IndInv'
  OBVIOUS
<1> USE DEF IndInv
<1>1. /\ body \in Bodies /\ i \in All(body) /\ body.insts[i].vtable
      /\ body.insts[i].op = "store"
  BY DEF VTableStore, AtTag, TypeOK
<1>2. /\ i > 1 /\ Users(body, i - 1) = {i} /\ Users(body, i) = {}
      /\ ~IsCall(body, i - 1) /\ ~IsCall(body, i)
  BY <1>1, BodiesAssumption DEF VTableShape, IsCall
<1>3. i - 1 \in All(body)
  BY <1>1, <1>2, BodiesAssumption DEF All
<1>4. TypeOK'
  BY <1>1, <1>3 DEF VTableStore, TypeOK, memTables
<1>5. ClassFirst'
  BY <1>2 DEF VTableStore, ClassFirst, memTables, IsCall
<1>6. SkippedClosed'
  <2>1. SUFFICES ASSUME NEW j \in All(body), ~Skipped(j)', ~TakenForVirtual(j)',
                        NEW o \in Reads(j), Skipped(o)'
                 PROVE  FALSE
    BY DEF SkippedClosed, VTableStore, memTables, Reads
  <2>2. ~Skipped(j) /\ ~TakenForVirtual(j) /\ (Skipped(o) \/ o \in {i - 1, i})
    BY <2>1 DEF Skipped, TakenForVirtual, VTableStore, memTables
  <2>3. ~Skipped(o)
    BY <2>1, <2>2 DEF SkippedClosed
  <2>4. j = i /\ o = i - 1
    BY <2>2, <2>3, <1>1, <1>2, <1>3, ReadsUsed
  <2>5. Skipped(j)'
    BY <2>4, <1>2 DEF Skipped, VTableStore, memTables
  <2> QED BY <2>1, <2>5
<1> QED BY <1>4, <1>5, <1>6

LEMMA LoadInv == IndInv /\ VTableLoad => IndInv'
<1> SUFFICES ASSUME IndInv, VTableLoad PROVE IndInv'
  OBVIOUS
<1> USE DEF IndInv
<1>1. /\ body \in Bodies /\ i \in All(body) /\ body.insts[i].vtable
      /\ body.insts[i].op = "load" /\ pc = "class"
      /\ IgnoredByMem = {} /\ IsAlloc = {}
  BY DEF VTableLoad, AtTag, TypeOK, ClassFirst
<1> DEFINE e == EntryLoad(body, i)
           c == VirtualCall(body, i)
<1>2. /\ {i - 1, i + 1, i + 2, e, c} \subseteq All(body)
      /\ Users(body, i - 1) = {i} /\ Users(body, i) = {i + 1}
      /\ Users(body, i + 1) = {i + 2}
      /\ i + 2 = e \/ (HasCast(body, i) /\ Users(body, i + 2) = {e})
      /\ \A u \in Users(body, e) : e \notin Args(body, u)
      /\ IsCall(body, c)
      /\ ~IsCall(body, i - 1) /\ ~IsCall(body, i) /\ ~IsCall(body, i + 1)
      /\ ~IsCall(body, e) /\ (HasCast(body, i) => ~IsCall(body, i + 2))
  BY <1>1, LoadFacts
<1>3. /\ DOMAIN VTableInsts' = DOMAIN VTableInsts \cup {i - 1, i, i + 1, e, c}
      /\ IgnoredByClass' = IgnoredByClass \cup IF HasCast(body, i) THEN {i + 2} ELSE {}
      /\ UNCHANGED <<body, pc, IgnoredByMem, IsAlloc, IsZero, IsAllOnes>>
      /\ i' = i + 1
  BY DEF VTableLoad, Chain, memTables
<1>4. TypeOK'
  <2>1. body.insts[i + 1].slot \in Nat
    <3>1. body.insts \in Seq(Inst) /\ i + 1 \in DOMAIN body.insts
      BY <1>1, <1>2, BodiesAssumption DEF All
    <3>2. body.insts[i + 1] \in Inst
      BY <3>1
    <3> QED BY <3>2 DEF Inst
  <2>2. VTableInsts' \in [DOMAIN VTableInsts' -> Nat]
    <3>1. \A j \in DOMAIN VTableInsts : VTableInsts[j] \in Nat
      BY DEF TypeOK
    <3> DEFINE D == DOMAIN VTableInsts \cup Chain(body, i)
               v(j) == IF j \in DOMAIN VTableInsts THEN VTableInsts[j]
                       ELSE body.insts[i + 1].slot
    <3>2. VTableInsts' = [j \in D |-> v(j)]
      BY DEF VTableLoad
    <3>3. \A j \in D : v(j) \in Nat
      BY <3>1, <2>1
    <3> HIDE DEF D, v
    <3> QED BY <3>2, <3>3
  <2> QED BY <2>2, <1>1, <1>2, <1>3 DEF TypeOK
<1>5. ClassFirst'
  BY <1>1, <1>2, <1>3 DEF ClassFirst, IsCall
<1>6. SkippedClosed'
  <2>1. SUFFICES ASSUME NEW j \in All(body), ~Skipped(j)', ~TakenForVirtual(j)',
                        NEW o \in Reads(j), Skipped(o)'
                 PROVE  FALSE
    BY <1>3 DEF SkippedClosed, Reads
  <2>2. o \in All(body) /\ j \in Users(body, o) /\ o \in Args(body, j)
    <3>1. o \in All(body)
      BY <2>1, <1>3, <1>4 DEF Skipped, TypeOK
    <3> QED BY <2>1, <3>1, ReadsUsed DEF Reads
  <2>3. j = c \/ (j \notin {i - 1, i, i + 1, e} /\ ~(HasCast(body, i) /\ j = i + 2))
    BY <2>1, <1>2, <1>3 DEF Skipped, IsCall
  <2>4. CASE ~Skipped(o)
    <3>1. o \in {i - 1, i, i + 1, e} \/ (HasCast(body, i) /\ o = i + 2)
      BY <2>1, <2>4, <1>2, <1>3 DEF Skipped, IsCall
    <3>2. o # e
      BY <2>2, <1>2
    <3>3. j \in {i, i + 1, e} \/ (HasCast(body, i) /\ j = i + 2)
      BY <2>2, <3>1, <3>2, <1>2
    <3>4. ~IsCall(body, j)
      BY <3>3, <1>2
    <3> QED BY <2>3, <3>3, <3>4, <1>2
  <2>5. CASE Skipped(o)
    <3>1. ~Skipped(j)
      BY <2>1, <2>3, <1>1, <1>2, <1>3 DEF Skipped, ClassFirst
    <3>2. ~TakenForVirtual(j)
      BY <2>1, <1>3 DEF TakenForVirtual
    <3> QED BY <2>1, <3>1, <3>2, <2>5 DEF SkippedClosed
  <2> QED BY <2>4, <2>5
<1> QED BY <1>4, <1>5, <1>6

LEMMA BitCastInv == IndInv /\ BitCast => IndInv'
<1> SUFFICES ASSUME IndInv, BitCast PROVE IndInv'
  OBVIOUS
<1> USE DEF IndInv
<1>1. /\ body \in Bodies /\ i \in All(body) /\ pc = "mem"
      /\ body.insts[i].op = "bitcast"
  BY DEF BitCast, TypeOK
<1> DEFINE s == Source(body, i)
           freed == IF AllocCast(body, i) THEN {s} ELSE {}
<1>2. AllocCast(body, i) => s \in All(body) /\ Users(body, s) = {i}
  <2>1. body.insts[i] \in Inst /\ Len(body.insts[i].args) = 1
    BY <1>1, BodiesAssumption DEF All
  <2>2. s \in Nat
    BY <2>1 DEF Source, Inst
  <2>3. s # 0 => s \in Operands(body, i)
    BY <2>1, <2>2 DEF Source, Operands, Args, Inst
  <2>4. s # 0 => s \in All(body)
    BY <2>3, <1>1, BodiesAssumption
  <2> QED BY <2>4 DEF AllocCast, AllocCall
<1>3. IgnoredMem(body, i) \subseteq MemCall(body, i) \cup {i}
  BY DEF IgnoredMem
<1>4. \A x \in MemCall(body, i) : x \in All(body) /\ Users(body, i) = {x}
  BY DEF MemCall
<1>5. \A x \in IgnoredMem(body, i) \cap MemCall(body, i) : body.insts[x].fn \in Void
  BY <1>4 DEF IgnoredMem, CallsFn, Void
<1>6. i \in IgnoredMem(body, i) =>
         \E x \in MemCall(body, i) : x \in IgnoredMem(body, i)
                                  /\ body.insts[x].fn \in {"lifetime", "memcpy", "memmove"}
  <2>1. i \notin MemCall(body, i)
    BY <1>1 DEF MemCall
  <2> QED BY <1>4, <2>1 DEF IgnoredMem, CallsFn
<1>7. TypeOK'
  BY <1>1, <1>2, <1>3, <1>4 DEF BitCast, TypeOK
<1>8. ClassFirst'
  BY <1>1 DEF BitCast, ClassFirst, IsCall
<1>9. SkippedClosed'
  <2>1. SUFFICES ASSUME NEW j \in All(body), ~Skipped(j)', ~TakenForVirtual(j)',
                        NEW o \in Reads(j), o \in Reads(j)', Skipped(o)'
                 PROVE  FALSE
    BY DEF SkippedClosed, BitCast, Reads
  <2>2. ~Skipped(j) /\ ~TakenForVirtual(j)
    BY <2>1 DEF Skipped, TakenForVirtual, BitCast
  <2>3. ~Skipped(o)
    BY <2>1, <2>2 DEF SkippedClosed
  <2>4. o \in All(body) /\ (o \in freed \/ o \in IgnoredMem(body, i))
    BY <2>1, <2>3, <1>2, <1>3, <1>4, <1>1 DEF Skipped, BitCast
  <2>5. j \in Users(body, o)
    BY <2>1, <2>4, ReadsUsed
  <2>6. CASE o \in freed
    <3>1. j = i /\ AllocCast(body, i)
      BY <2>5, <2>6, <1>2
    <3> QED BY <2>1, <3>1 DEF Reads, BitCast
  <2>7. CASE o \in IgnoredMem(body, i) /\ o # i
    <3>1. body.insts[o].fn \in Void
      BY <2>7, <1>3, <1>5
    <3> QED BY <3>1, <2>4, <2>5, <1>1, BodiesAssumption
  <2>8. CASE o = i /\ o \in IgnoredMem(body, i)
    <3>1. PICK x \in MemCall(body, i) : x \in IgnoredMem(body, i)
                                      /\ body.insts[x].fn \in {"lifetime", "memcpy", "memmove"}
      BY <2>8, <1>6
    <3>2. j = x /\ IsCall(body, x)
      BY <3>1, <2>5, <2>8, <1>4, <1>1, BodiesAssumption
    <3>3. j \in IgnoredByMem' /\ j \notin DOMAIN VTableInsts'
      BY <2>1, <3>1, <3>2 DEF BitCast, TakenForVirtual
    <3> QED BY <2>1, <3>3 DEF Skipped
  <2> QED BY <2>4, <2>6, <2>7, <2>8
<1> QED BY <1>7, <1>8, <1>9

LEMMA CallInv == IndInv /\ Call => IndInv'
<1> SUFFICES ASSUME IndInv, Call PROVE IndInv'
  OBVIOUS
<1> USE DEF IndInv
<1>1. body \in Bodies /\ i \in All(body) /\ pc = "mem"
  BY DEF Call, TypeOK
<1>2. body.insts[i].fn = "assert" => Users(body, i) = {}
  BY <1>1, BodiesAssumption DEF Void
<1>3. TypeOK' /\ ClassFirst'
  BY <1>1 DEF Call, TypeOK, ClassFirst, IsCall
<1>4. SkippedClosed'
  <2>1. SUFFICES ASSUME NEW j \in All(body), ~Skipped(j)', ~TakenForVirtual(j)',
                        NEW o \in Reads(j), Skipped(o)'
                 PROVE  FALSE
    BY DEF SkippedClosed, Call, Reads
  <2>2. /\ ~Skipped(j) /\ ~TakenForVirtual(j)
        /\ Skipped(o) \/ (o = i /\ body.insts[i].fn = "assert")
    BY <2>1 DEF Skipped, TakenForVirtual, Call
  <2>3. ~Skipped(o)
    BY <2>1, <2>2 DEF SkippedClosed
  <2> QED BY <2>2, <2>3, <1>1, <1>2, ReadsUsed
<1> QED BY <1>3, <1>4

LEMMA PassInv ==
    IndInv /\ (ClassPass \/ ClassDone \/ MemPass \/ MemDone \/ UNCHANGED vars) => IndInv'
<1> SUFFICES ASSUME IndInv, ClassPass \/ ClassDone \/ MemPass \/ MemDone \/ UNCHANGED vars
             PROVE  IndInv'
  OBVIOUS
<1> USE DEF IndInv
<1>1. UNCHANGED <<body, VTableInsts, IgnoredByClass, IgnoredByMem, IsAlloc, IsZero, IsAllOnes>>
  BY DEF ClassPass, ClassDone, MemPass, MemDone, vars, memTables
<1>2. pc' \in {pc, "mem", "done"} /\ i' \in {i, i + 1, 1} /\ (pc' = "class" => pc = "class")
  BY DEF ClassPass, ClassDone, MemPass, MemDone, vars
<1>3. TypeOK'
  BY <1>1, <1>2 DEF TypeOK
<1> QED BY <1>1, <1>2, <1>3 DEF ClassFirst, SkippedClosed, Skipped, Reads, TakenForVirtual, IsCall

LEMMA NextInv == IndInv /\ [Next]_vars => IndInv'
  BY StoreInv, LoadInv, BitCastInv, CallInv, PassInv DEF Next

(* The tables hold instructions of the body they describe, marks are on    *)
(* bitcasts only, and the slots are numbers, for every body.               *)
THEOREM TypesCorrect == Spec => []TypeOK
<1>1. IndInv => TypeOK
  BY DEF IndInv
<1> QED BY InitInv, NextInv, <1>1, PTL DEF Spec

(* What the two passes tell the engine to skip is closed: no instruction   *)
(* that it handles looks up the node of one that it skips, at any time     *)
(* between the two passes and whatever the function, apart from the copies *)
(* that the first pass takes for virtual calls.                            *)
THEOREM SkipsAreClosed == Spec => []SkippedClosed
<1>1. IndInv => SkippedClosed
  BY DEF IndInv
<1> QED BY InitInv, NextInv, <1>1, PTL DEF Spec
-----------------------------------------------------------------------------
(* What the entries of the tables are, once and for all.                   *)

VTableCast(b, j) ==
    \E l \in All(b) : /\ b.insts[l].vtable
                      /\ j = l - 1 \/ (b.insts[l].op = "load" /\ HasCast(b, l) /\ j = l + 2)

(* A bitcast is in a table for one reason only. *)
CastInv ==
    /\ \A j \in IsAlloc : AllocCast(body, j)
    /\ \A j \in IsZero : CallsFn(body, j, {"memset0"})
    /\ \A j \in IsAllOnes : CallsFn(body, j, {"memset-1"})
    /\ \A j \in IgnoredByMem :
          body.insts[j].op = "bitcast" => CallsFn(body, j, {"lifetime", "memcpy", "memmove"})
    /\ \A j \in DOMAIN VTableInsts \cup IgnoredByClass :
          body.insts[j].op = "bitcast" => VTableCast(body, j)

(* A call is ignored together with the mark that stands for its effect.    *)
MarkInv ==
    \A j \in IgnoredByMem :
        /\ body.insts[j].fn = "alloc" => \E m \in IsAlloc : Source(body, m) = j
        /\ body.insts[j].fn = "memset0" => \E m \in IsZero : m \in Operands(body, j)
        /\ body.insts[j].fn = "memset-1" => \E m \in IsAllOnes : m \in Operands(body, j)

TableInv == CastInv /\ MarkInv

(* What MemQuery finds of a bitcast: the one call that uses it.            *)
LEMMA MemCallFacts ==
    ASSUME NEW b \in Bodies, NEW j \in All(b), NEW c \in MemCall(b, j)
    PROVE  /\ c \in All(b) /\ b.insts[j].i8p /\ b.insts[c].op = "call"
           /\ j \in Operands(b, c)
           /\ MemCall(b, j) = {c} /\ Users(b, j) = {c}
           /\ \A fns : CallsFn(b, j, fns) <=> b.insts[c].fn \in fns
<1>1. c \in All(b) /\ b.insts[j].i8p /\ b.insts[c].op = "call" /\ Users(b, j) = {c}
  BY DEF MemCall
<1>2. j \in Operands(b, c)
  BY <1>1 DEF Users
<1>3. MemCall(b, j) = {c}
  BY <1>1 DEF MemCall
<1> QED BY <1>1, <1>2, <1>3 DEF CallsFn

(* A bitcast reads one operand, and none of its own type.                  *)
LEMMA CastFacts ==
    ASSUME NEW b \in Bodies, NEW j \in All(b), b.insts[j].op = "bitcast"
    PROVE  /\ Operands(b, j) = {Source(b, j)} \ {0}
           /\ Source(b, j) # 0 => Source(b, j) \in All(b)
           /\ b.insts[j].i8p => \A o \in Operands(b, j) : ~b.insts[o].i8p
<1>1. b.insts[j] \in Inst /\ Len(b.insts[j].args) = 1
  BY BodiesAssumption DEF All
<1>2. Operands(b, j) = {Source(b, j)} \ {0}
  <2>1. ~IsCall(b, j)
    BY DEF IsCall
  <2>2. b.insts[j].callee = 0
    BY <2>1, BodiesAssumption
  <2>3. Args(b, j) = {Source(b, j)} \ {0}
    BY <1>1 DEF Source, Args, Inst
  <2> QED BY <2>2, <2>3 DEF Operands
<1>3. Operands(b, j) \subseteq All(b)
  BY BodiesAssumption
<1>4. b.insts[j].i8p => \A o \in Operands(b, j) : ~b.insts[o].i8p
  BY BodiesAssumption
<1> QED BY <1>2, <1>3, <1>4

(* The bitcasts of a virtual table's accesses have no other part.          *)
LEMMA VTableCastFacts ==
    ASSUME NEW b \in Bodies, NEW j \in All(b), b.insts[j].op = "bitcast", VTableCast(b, j)
    PROVE  ~AllocCast(b, j) /\ MemCall(b, j) = {}
<1>1. PICK l \in All(b) :
         /\ b.insts[l].vtable
         /\ j = l - 1 \/ (b.insts[l].op = "load" /\ HasCast(b, l) /\ j = l + 2)
  BY DEF VTableCast
<1>2. CASE j = l - 1
  <2>1. Users(b, j) = {l} /\ b.insts[l].op \in {"load", "store"}
        /\ \A o \in Operands(b, j) : ~b.insts[o].i8p
    BY <1>1, <1>2, BodiesAssumption DEF VTableShape
  <2>2. MemCall(b, j) = {}
    BY <2>1, MemCallFacts DEF MemCall
  <2>3. ~AllocCast(b, j)
    BY <2>1, CastFacts DEF AllocCast, AllocCall
  <2> QED BY <2>2, <2>3
<1>3. CASE b.insts[l].op = "load" /\ HasCast(b, l) /\ j = l + 2
  <2>1. LoadShape(b, l)
    BY <1>1, <1>3, BodiesAssumption DEF VTableShape
  <2>2. /\ Users(b, l + 1) = {j} /\ b.insts[l + 1].op = "gep"
        /\ Users(b, j) = {EntryLoad(b, l)} /\ b.insts[EntryLoad(b, l)].op = "load"
    BY <1>3, <2>1 DEF LoadShape
  <2>3. MemCall(b, j) = {}
    BY <2>2 DEF MemCall
  <2>4. ~AllocCast(b, j)
    <3>1. l + 1 \in Operands(b, j)
      BY <2>2 DEF Users
    <3>2. Source(b, j) = l + 1
      BY <3>1, CastFacts
    <3> QED BY <2>2, <3>2 DEF AllocCast, AllocCall
  <2> QED BY <2>3, <2>4
<1> QED BY <1>1, <1>2, <1>3

-----------------------------------------------------------------------------
LEMMA InitTable == Init => TableInv
  BY DEF Init, TableInv, CastInv, MarkInv

LEMMA StoreTable == IndInv /\ TableInv /\ VTableStore => TableInv'
<1> SUFFICES ASSUME IndInv, TableInv, VTableStore PROVE TableInv'
  OBVIOUS
<1>1. /\ body \in Bodies /\ i \in All(body) /\ body.insts[i].vtable
      /\ body.insts[i].op = "store" /\ i \in Nat \ {0} /\ All(body) \subseteq Nat
  BY BodiesAssumption DEF VTableStore, AtTag, IndInv, TypeOK, All
<1>2. /\ IgnoredByClass' = IgnoredByClass \cup {i - 1, i} /\ i' = i + 1
      /\ UNCHANGED <<body, pc, VTableInsts, IsAlloc, IsZero, IsAllOnes, IgnoredByMem>>
  BY DEF VTableStore, memTables
<1>3. VTableCast(body, i - 1)
  BY <1>1 DEF VTableCast
<1>4. CastInv'
  BY <1>1, <1>2, <1>3 DEF TableInv, CastInv
<1> QED BY <1>2, <1>4 DEF TableInv, MarkInv

LEMMA LoadTable == IndInv /\ TableInv /\ VTableLoad => TableInv'
<1> SUFFICES ASSUME IndInv, TableInv, VTableLoad PROVE TableInv'
  OBVIOUS
<1> DEFINE c == VirtualCall(body, i)
           n == body.insts[i + 1].slot
<1>1. /\ body \in Bodies /\ i \in All(body) /\ body.insts[i].vtable
      /\ body.insts[i].op = "load" /\ i \in Nat \ {0} /\ All(body) \subseteq Nat
  BY BodiesAssumption DEF VTableLoad, AtTag, IndInv, TypeOK, All
<1>2. /\ VTableInsts' = [j \in DOMAIN VTableInsts \cup Chain(body, i) |->
                            IF j \in DOMAIN VTableInsts THEN VTableInsts[j] ELSE n]
      /\ IgnoredByClass' = IgnoredByClass \cup IF HasCast(body, i) THEN {i + 2} ELSE {}
      /\ i' = i + 1
      /\ UNCHANGED <<body, pc, IsAlloc, IsZero, IsAllOnes, IgnoredByMem>>
  BY DEF VTableLoad, memTables
<1>3. LoadShape(body, i)
  BY <1>1, BodiesAssumption DEF VTableShape
<1>4. IsCall(body, c) /\ {i - 1, i, i + 1, EntryLoad(body, i)} \cap {j \in All(body) : IsCall(body, j)} = {}
  BY <1>1, LoadFacts
<1>5. \A j \in Chain(body, i) : body.insts[j].op = "bitcast" => j = i - 1
  BY <1>1, <1>3, <1>4 DEF LoadShape, Chain, IsCall
<1>6. VTableCast(body, i - 1) /\ (HasCast(body, i) => VTableCast(body, i + 2))
  BY <1>1 DEF VTableCast
<1> HIDE DEF c, n
<1>7. CastInv'
  <2>1. DOMAIN VTableInsts' = DOMAIN VTableInsts \cup Chain(body, i)
    BY <1>2
  <2> QED BY <1>2, <1>5, <1>6, <2>1 DEF TableInv, CastInv
<1> QED BY <1>2, <1>7 DEF TableInv, MarkInv

LEMMA BitCastTable == IndInv /\ TableInv /\ BitCast => TableInv'
<1> SUFFICES ASSUME IndInv, TableInv, BitCast PROVE TableInv'
  OBVIOUS
<1>1. body \in Bodies /\ i \in All(body) /\ body.insts[i].op = "bitcast" /\ pc = "mem"
  BY DEF BitCast, IndInv, TypeOK
<1>2. /\ IsAlloc' = IsAlloc \cup IF AllocCast(body, i) THEN {i} ELSE {}
      /\ IsZero' = IsZero \cup IF CallsFn(body, i, {"memset0"}) THEN {i} ELSE {}
      /\ IsAllOnes' = IsAllOnes \cup IF CallsFn(body, i, {"memset-1"}) THEN {i} ELSE {}
      /\ IgnoredByMem' = IgnoredByMem \cup IgnoredMem(body, i)
                            \cup IF AllocCast(body, i) THEN {Source(body, i)} ELSE {}
      /\ pc' # "class"
      /\ UNCHANGED <<body, VTableInsts, IgnoredByClass>>
  BY <1>1 DEF BitCast
<1>3. AllocCast(body, i) =>
         body.insts[Source(body, i)].op = "call" /\ body.insts[Source(body, i)].fn = "alloc"
  BY DEF AllocCast, AllocCall
<1>4. body.insts[i].fn = "none"
  BY <1>1, BodiesAssumption DEF IsCall
<1>5. ASSUME NEW x \in IgnoredMem(body, i)
      PROVE  /\ body.insts[x].op = "bitcast" => CallsFn(body, x, {"lifetime", "memcpy", "memmove"})
             /\ body.insts[x].fn # "alloc"
             /\ body.insts[x].fn = "memset0" =>
                   CallsFn(body, i, {"memset0"}) /\ i \in Operands(body, x)
             /\ body.insts[x].fn = "memset-1" =>
                   CallsFn(body, i, {"memset-1"}) /\ i \in Operands(body, x)
  <2>1. CASE x = i /\ x \notin MemCall(body, i)
    <3>1. CallsFn(body, x, {"lifetime", "memcpy", "memmove"})
      BY <2>1 DEF IgnoredMem
    <3> QED BY <1>4, <2>1, <3>1
  <2>2. CASE x \in MemCall(body, i)
    <3>1. body.insts[x].op = "call" /\ i \in Operands(body, x)
          /\ \A fns : CallsFn(body, i, fns) <=> body.insts[x].fn \in fns
      BY <1>1, <2>2, MemCallFacts
    <3>2. body.insts[x].fn \in {"memset0", "memset-1", "lifetime", "memcpy", "memmove"}
      BY <3>1 DEF IgnoredMem
    <3> QED BY <3>1, <3>2
  <2> QED BY <2>1, <2>2 DEF IgnoredMem
<1>6. CastInv'
  BY <1>2, <1>3, <1>5 DEF TableInv, CastInv
<1>7. MarkInv'
  BY <1>2, <1>3, <1>5 DEF TableInv, MarkInv
<1> QED BY <1>6, <1>7 DEF TableInv

LEMMA CallTable == IndInv /\ TableInv /\ Call => TableInv'
<1> SUFFICES ASSUME IndInv, TableInv, Call PROVE TableInv'
  OBVIOUS
<1>1. /\ pc = "mem" /\ body.insts[i].op = "call"
      /\ IgnoredByMem' = IgnoredByMem \cup IF body.insts[i].fn = "assert" THEN {i} ELSE {}
      /\ UNCHANGED <<body, pc, VTableInsts, IgnoredByClass, IsAlloc, IsZero, IsAllOnes>>
  BY DEF Call
<1>2. CastInv'
  BY <1>1 DEF TableInv, CastInv
<1>3. MarkInv'
  BY <1>1 DEF TableInv, MarkInv
<1> QED BY <1>2, <1>3 DEF TableInv

LEMMA PassTable ==
    IndInv /\ TableInv /\ (ClassPass \/ ClassDone \/ MemPass \/ MemDone \/ UNCHANGED vars)
        => TableInv'
<1> SUFFICES ASSUME IndInv, TableInv,
                    ClassPass \/ ClassDone \/ MemPass \/ MemDone \/ UNCHANGED vars
             PROVE  TableInv'
  OBVIOUS
<1>1. UNCHANGED <<body, VTableInsts, IgnoredByClass, IgnoredByMem, IsAlloc, IsZero, IsAllOnes>>
  BY DEF ClassPass, ClassDone, MemPass, MemDone, vars, memTables
<1> QED BY <1>1 DEF TableInv, CastInv, MarkInv

LEMMA NextTable == IndInv /\ TableInv /\ [Next]_vars => TableInv'
  BY StoreTable, LoadTable, BitCastTable, CallTable, PassTable DEF Next

LEMMA TablesInductive == Spec => [](IndInv /\ TableInv)
  BY InitInv, NextInv, InitTable, NextTable, PTL DEF Spec

(* A skipped allocation or memset has left its mark on a bitcast that the  *)
(* engine does handle, and that has no other mark, in every function.      *)
THEOREM EffectsAreMarked == Spec => []EffectsMarked
<1>1. ASSUME IndInv, TableInv PROVE EffectsMarked
  <2>1. body \in Bodies /\ TypeOK
    BY <1>1 DEF IndInv, TypeOK
  <2>2. ASSUME NEW m \in IsAlloc \cup IsZero \cup IsAllOnes
        PROVE  /\ m \in All(body) /\ body.insts[m].op = "bitcast"
               /\ \/ m \in IsAlloc /\ AllocCast(body, m) /\ MemCall(body, m) = {}
                  \/ /\ m \notin IsAlloc /\ ~AllocCast(body, m)
                     /\ \E x \in MemCall(body, m) :
                           \/ m \in IsZero /\ m \notin IsAllOnes /\ body.insts[x].fn = "memset0"
                           \/ m \in IsAllOnes /\ m \notin IsZero /\ body.insts[x].fn = "memset-1"
    <3>1. m \in All(body) /\ body.insts[m].op = "bitcast"
      BY <2>1 DEF TypeOK
    <3>2. AllocCast(body, m) => MemCall(body, m) = {}
      <4>1. AllocCast(body, m) => \E o \in Operands(body, m) : body.insts[o].i8p
        BY <2>1, <3>1, CastFacts DEF AllocCast, AllocCall
      <4> QED BY <2>1, <3>1, <4>1, CastFacts DEF MemCall
    <3>3. m \notin IsAlloc => \E x \in MemCall(body, m) : TRUE
      BY <1>1 DEF TableInv, CastInv, CallsFn
    <3>4. \A x \in MemCall(body, m) : \A fns : CallsFn(body, m, fns) <=> body.insts[x].fn \in fns
      BY <2>1, <3>1, MemCallFacts
    <3> QED BY <1>1, <3>1, <3>2, <3>3, <3>4 DEF TableInv, CastInv
  <2>3. ASSUME NEW m \in IsAlloc \cup IsZero \cup IsAllOnes PROVE ~Skipped(m)
    <3>1. m \notin IgnoredByMem
      <4>1. m \in IgnoredByMem => CallsFn(body, m, {"lifetime", "memcpy", "memmove"})
        BY <1>1, <2>2, <2>3 DEF TableInv, CastInv
      <4>2. \A x \in MemCall(body, m) : \A fns : CallsFn(body, m, fns) <=> body.insts[x].fn \in fns
        BY <2>1, <2>2, <2>3, MemCallFacts
      <4> QED BY <2>2, <2>3, <4>1, <4>2 DEF CallsFn
    <3>2. m \notin DOMAIN VTableInsts \cup IgnoredByClass
      <4>1. m \in DOMAIN VTableInsts \cup IgnoredByClass => VTableCast(body, m)
        BY <1>1, <2>2, <2>3 DEF TableInv, CastInv
      <4> QED BY <2>1, <2>2, <2>3, <4>1, VTableCastFacts
    <3> QED BY <3>1, <3>2 DEF Skipped
  <2>4. IsAlloc \cap (IsZero \cup IsAllOnes) = {} /\ IsZero \cap IsAllOnes = {}
    <3>1. IsAlloc \cap (IsZero \cup IsAllOnes) = {}
      <4>1. ASSUME NEW m \in IsZero \cup IsAllOnes PROVE MemCall(body, m) # {}
        BY <1>1, <4>1 DEF TableInv, CastInv, CallsFn
      <4> QED BY <2>2, <4>1
    <3>2. IsZero \cap IsAllOnes = {}
      BY <2>2, <3>1
    <3> QED BY <3>1, <3>2
  <2>5. ASSUME NEW j \in All(body), Skipped(j), body.insts[j].fn # "none" PROVE j \in IgnoredByMem
    <3>1. IsCall(body, j)
      BY <2>1, <2>5, BodiesAssumption
    <3> QED BY <1>1, <2>5, <3>1 DEF Skipped, IndInv, ClassFirst
  <2> QED BY <1>1, <2>3, <2>4, <2>5 DEF EffectsMarked, TableInv, MarkInv
<1> QED BY <1>1, TablesInductive, PTL

=============================================================================
