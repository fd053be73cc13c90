---------------------------- MODULE IgnoredInsts ----------------------------
(***************************************************************************)
(* The two passes over the instructions of a module before the analysis:   *)
(* handleVTablePointer of ClassQuery.cpp and MemQuery.cpp.  They tell the  *)
(* instructions that the dataflow engine must skip: allocations, memory    *)
(* intrinsics and asserts, and the accesses to a virtual table, whose call *)
(* gets the number of its slot.                                            *)
(***************************************************************************)
EXTENDS Integers, Sequences, FiniteSets

CONSTANTS Bodies   \* of functions: [method, insts]

(* An instruction: args and callee are the numbers of its operands, 0 for  *)
(* what is not an instruction; i8p if its value is an i8*; vtable if its   *)
(* TBAA tag is "vtable pointer"; slot is the index of a getelementptr.     *)
Inst == [op : {"call", "invoke", "bitcast", "load", "store", "gep", "other"},
         fn : {"none", "unknown", "alloc", "assert", "lifetime", "memcpy",
               "memmove", "memset0", "memset-1", "memset5", "memsetv"},
         args : Seq(Nat), callee : Nat,
         i8p : BOOLEAN, vtable : BOOLEAN, slot : Nat]

VARIABLES
    body,
    pc, i,                         \* the pass at work and its instruction
    VTableInsts, IgnoredByClass,   \* of ClassQuery
    IgnoredByMem, IsAlloc, IsZero, IsAllOnes
memTables == <<IgnoredByMem, IsAlloc, IsZero, IsAllOnes>>
vars == <<body, pc, i, VTableInsts, IgnoredByClass, memTables>>

All(b) == DOMAIN b.insts
Args(b, j) == { b.insts[j].args[k] : k \in DOMAIN b.insts[j].args } \ {0}
Operands(b, j) == Args(b, j) \cup ({b.insts[j].callee} \ {0})
Users(b, j) == { u \in All(b) : j \in Operands(b, u) }
IsCall(b, j) == b.insts[j].op \in {"call", "invoke"}

-----------------------------------------------------------------------------
(* The accesses to a virtual table, found from the load of its pointer.    *)
HasCast(b, l) == b.insts[l + 2].op = "bitcast"
EntryLoad(b, l) == IF HasCast(b, l) THEN l + 3 ELSE l + 2

(* The scan "to skip all the instructions for the rest of the arguments"   *)
(* ends at any call, an argument's own one included.                       *)
VirtualCall(b, l) ==
    CHOOSE c \in All(b) : /\ IsCall(b, c) /\ c > EntryLoad(b, l)
                          /\ \A d \in EntryLoad(b, l) + 1 .. c - 1 : ~IsCall(b, d)

(* What clang emits, and the casts and assertions of handleVTablePointer   *)
(* rely upon: the accesses are a chain, each used by the next alone, and   *)
(* the entry is only called.  Between the two come the instructions of the *)
(* arguments, calls too: o->f(g()) has the entry of f read before g runs.  *)
(* The pointer is read from an object, not from bytes only allocated.      *)
LoadShape(b, l) ==
    LET e == EntryLoad(b, l)
    IN  /\ l + 2 \in All(b) /\ e \in All(b)
        /\ b.insts[l + 1].op = "gep" /\ b.insts[e].op = "load"
        /\ Users(b, l) = {l + 1}
        /\ Users(b, l + 1) = {l + 2}
        /\ HasCast(b, l) => Users(b, l + 2) = {e}
        /\ \E c \in All(b) :
              /\ c > e /\ IsCall(b, c) /\ b.insts[c].fn = "none"
              /\ Users(b, e) = {c} /\ e \notin Args(b, c)
VTableShape(b) ==
    \A l \in All(b) : b.insts[l].vtable =>
        /\ l > 1 /\ b.insts[l - 1].op = "bitcast" /\ Users(b, l - 1) = {l}
        /\ \A o \in Operands(b, l - 1) : ~b.insts[o].i8p
        /\ \/ b.insts[l].op = "store" /\ Users(b, l) = {}
           \/ b.insts[l].op = "load" /\ LoadShape(b, l)

Void == {"assert", "lifetime", "memcpy", "memmove", "memset0", "memset-1",
         "memset5", "memsetv"}

ASSUME BodiesAssumption ==
    \A b \in Bodies :
        /\ b \in [method : BOOLEAN, insts : Seq(Inst)]
        /\ VTableShape(b)
        /\ \A j \in All(b) :
              /\ Operands(b, j) \subseteq All(b)
              /\ b.insts[j].fn # "none" \/ b.insts[j].callee # 0 => IsCall(b, j)
              /\ b.insts[j].fn \in Void => Users(b, j) = {}
              /\ b.insts[j].op = "bitcast" =>
                    /\ Len(b.insts[j].args) = 1
                    /\ b.insts[j].i8p => \A o \in Operands(b, j) : ~b.insts[o].i8p

Init ==
    /\ body \in Bodies
    /\ pc = "class" /\ i = 1
    /\ VTableInsts = [j \in {} |-> 0] /\ IgnoredByClass = {}
    /\ IgnoredByMem = {} /\ IsAlloc = {} /\ IsZero = {} /\ IsAllOnes = {}

AtTag(op) ==
    /\ pc = "class" /\ i \in All(body)
    /\ body.method /\ body.insts[i].vtable /\ body.insts[i].op = op

(* Only a constructor stores the pointer.                                  *)
VTableStore ==
    /\ AtTag("store")
    /\ IgnoredByClass' = IgnoredByClass \cup {i - 1, i}
    /\ i' = i + 1
    /\ UNCHANGED <<body, pc, VTableInsts, memTables>>

Chain(b, l) == {l - 1, l, l + 1, EntryLoad(b, l), VirtualCall(b, l)}

(* insert keeps the slot of an instruction that has one.                   *)
VTableLoad ==
    /\ AtTag("load")
    /\ VTableInsts' = [j \in DOMAIN VTableInsts \cup Chain(body, i) |->
                          IF j \in DOMAIN VTableInsts THEN VTableInsts[j]
                          ELSE body.insts[i + 1].slot]
    /\ IgnoredByClass' =
          IgnoredByClass \cup IF HasCast(body, i) THEN {i + 2} ELSE {}
    /\ i' = i + 1
    /\ UNCHANGED <<body, pc, memTables>>

ClassPass ==
    /\ pc = "class" /\ i \in All(body)
    /\ ~(body.method /\ body.insts[i].vtable)
    /\ i' = i + 1
    /\ UNCHANGED <<body, pc, VTableInsts, IgnoredByClass, memTables>>

ClassDone ==
    /\ pc = "class" /\ i \notin All(body)
    /\ pc' = "mem" /\ i' = 1
    /\ UNCHANGED <<body, VTableInsts, IgnoredByClass, memTables>>

-----------------------------------------------------------------------------
(* populateAllocs: a bitcast that is all that is done with a call that     *)
(* allocates.  An invoke of operator new is not recognised.                *)
Source(b, j) == b.insts[j].args[1]
AllocCall(b, j) ==
    /\ Source(b, j) # 0
    /\ LET call == b.insts[Source(b, j)]
       IN  call.i8p /\ call.op = "call" /\ call.fn = "alloc"
AllocCast_AnyUse(b, j) == AllocCall(b, j)
AllocCast(b, j) == AllocCall(b, j) /\ Users(b, Source(b, j)) = {j}

(* populateMem: a bitcast to i8* whose only use is in a call.              *)
UsedOnce(b, j, c) ==
    /\ b.insts[c].callee = j => j \notin Args(b, c)
    /\ \A k, m \in DOMAIN b.insts[c].args :
          b.insts[c].args[k] = j /\ b.insts[c].args[m] = j => k = m
MemCall(b, j) ==
    { c \in All(b) : /\ b.insts[j].i8p /\ b.insts[c].op = "call"
                     /\ Users(b, j) = {c} /\ UsedOnce(b, j, c) }
CallsFn(b, j, fns) == \E c \in MemCall(b, j) : b.insts[c].fn \in fns

(* memcpy and memmove are "temp ignored completely", and like the markers  *)
(* of a lifetime with the bitcast; after a memset the bitcast remains.     *)
IgnoredMem_CastToo(b, j) ==
    { m \in MemCall(b, j) \cup {j} :
        CallsFn(b, j, {"lifetime", "memcpy", "memmove", "memset0", "memset-1"}) }
IgnoredMem(b, j) ==
    { c \in MemCall(b, j) : CallsFn(b, j, {"memset0", "memset-1"}) }
    \cup { m \in MemCall(b, j) \cup {j} :
              CallsFn(b, j, {"lifetime", "memcpy", "memmove"}) }

BitCast ==
    /\ pc = "mem" /\ i \in All(body) /\ body.insts[i].op = "bitcast"
    /\ IsAlloc' = IsAlloc \cup IF AllocCast(body, i) THEN {i} ELSE {}
    /\ IsZero' = IsZero \cup IF CallsFn(body, i, {"memset0"}) THEN {i} ELSE {}
    /\ IsAllOnes' = IsAllOnes \cup IF CallsFn(body, i, {"memset-1"}) THEN {i} ELSE {}
    /\ IgnoredByMem' = IgnoredByMem \cup IgnoredMem(body, i)
                          \cup IF AllocCast(body, i) THEN {Source(body, i)} ELSE {}
    /\ pc' = IF CallsFn(body, i, {"memset5"}) THEN "unreachable" ELSE pc
    /\ i' = i + 1
    /\ UNCHANGED <<body, VTableInsts, IgnoredByClass>>

Call ==
    /\ pc = "mem" /\ i \in All(body) /\ body.insts[i].op = "call"
    /\ IgnoredByMem' = IgnoredByMem
                          \cup IF body.insts[i].fn = "assert" THEN {i} ELSE {}
    /\ i' = i + 1
    /\ UNCHANGED <<body, pc, VTableInsts, IgnoredByClass, IsAlloc, IsZero, IsAllOnes>>

MemPass ==
    /\ pc = "mem" /\ i \in All(body) /\ body.insts[i].op \notin {"bitcast", "call"}
    /\ i' = i + 1
    /\ UNCHANGED <<body, pc, VTableInsts, IgnoredByClass, memTables>>

MemDone ==
    /\ pc = "mem" /\ i \notin All(body)
    /\ pc' = "done" /\ i' = i
    /\ UNCHANGED <<body, VTableInsts, IgnoredByClass, memTables>>

Next == \/ VTableStore \/ VTableLoad \/ ClassPass \/ ClassDone
        \/ BitCast \/ Call \/ MemPass \/ MemDone
Spec == Init /\ [][Next]_vars

-----------------------------------------------------------------------------
TypeOK ==
    /\ body \in Bodies
    /\ pc \in {"class", "mem", "done", "unreachable"} /\ i \in Nat \ {0}
    /\ VTableInsts \in [DOMAIN VTableInsts -> Nat] /\ DOMAIN VTableInsts \subseteq All(body)
    /\ IgnoredByClass \subseteq All(body) /\ IgnoredByMem \subseteq All(body)
    /\ IsAlloc \cup IsZero \cup IsAllOnes
          \subseteq { j \in All(body) : body.insts[j].op = "bitcast" }

(* How run of FunctionAnalysis.cpp uses the tables: a call in VTableInsts  *)
(* is handled as a virtual one, all else there and in the others skipped.  *)
Skipped(j) ==
    IF j \in DOMAIN VTableInsts THEN ~IsCall(body, j)
    ELSE j \in IgnoredByClass \cup IgnoredByMem

(* The operands whose nodes it looks up for an instruction: not that of an *)
(* allocation's bitcast, nor the callee of any call.                       *)
Reads(j) == IF j \in IsAlloc THEN {} ELSE Args(body, j)

(* A copy or marker among the arguments of a virtual call that the scan    *)
(* has taken for the call: it is handled although MemQuery ignores it.     *)
TakenForVirtual(j) ==
    j \in DOMAIN VTableInsts /\ body.insts[j].fn \in {"lifetime", "memcpy", "memmove"}

(* No instruction that is not skipped reads the value of a skipped one,    *)
(* which has no node in the graph, except a call taken for a virtual one.  *)
SkippedClosed ==
    \A j \in All(body) :
        ~Skipped(j) /\ ~TakenForVirtual(j) => \A o \in Reads(j) : ~Skipped(o)

(* A skipped allocation or memset leaves its mark on a bitcast, which is   *)
(* not skipped itself and has no other mark.                               *)
EffectsMarked ==
    /\ \A m \in IsAlloc \cup IsZero \cup IsAllOnes : ~Skipped(m)
    /\ IsAlloc \cap (IsZero \cup IsAllOnes) = {} /\ IsZero \cap IsAllOnes = {}
    /\ \A j \in All(body) : Skipped(j) =>
          LET MarkedBy(fn, table) == body.insts[j].fn = fn =>
                                        \E m \in table : m \in Operands(body, j)
          IN  /\ body.insts[j].fn = "alloc" => \E m \in IsAlloc : Source(body, m) = j
              /\ MarkedBy("memset0", IsZero) /\ MarkedBy("memset-1", IsAllOnes)

(* What the comment on the scan to the virtual call says of it: what comes *)
(* before is for the arguments, so a call in VTableInsts is the one whose  *)
(* callee was loaded with the slot recorded.  False: the scan stops at a   *)
(* call that is itself for an argument (ignored_insts_nested).             *)
CallsOwnSlot ==
    \A c \in DOMAIN VTableInsts : IsCall(body, c) =>
        \E l \in All(body) :
            /\ body.insts[l].vtable /\ body.insts[l].op = "load"
            /\ body.insts[c].callee = EntryLoad(body, l)
            /\ VTableInsts[c] = body.insts[l + 1].slot
=============================================================================
