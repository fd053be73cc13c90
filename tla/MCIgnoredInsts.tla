--------------------------- MODULE MCIgnoredInsts ---------------------------
(* Every well-typed body of up to four instructions about memory, and      *)
(* bodies with two virtual calls, with a cast of the entry or none, one of *)
(* them with an argument that itself allocates, copies or calls, a memory  *)
(* intrinsic between, and constructors.                                    *)
EXTENDS IgnoredInsts

Plain(op, fn, args, i8p) ==
    [op |-> op, fn |-> fn, args |-> args, callee |-> 0, i8p |-> i8p,
     vtable |-> FALSE, slot |-> 0]

(* The argument of the function is not an i8*.                             *)
Valued(s, j) == j = 0 \/ s[j].op = "bitcast" \/ s[j].fn = "alloc"
Values(s) == { j \in 0 .. Len(s) : Valued(s, j) }
Bytes(s) == { j \in Values(s) \ {0} : s[j].i8p }

Following(s) ==
    { Plain(op, "alloc", <<>>, TRUE) : op \in {"call", "invoke"} }
    \cup { Plain("bitcast", "none", <<j>>, TRUE) : j \in Values(s) \ Bytes(s) }
    \cup { Plain("bitcast", "none", <<j>>, FALSE) : j \in Bytes(s) }
    \cup { Plain("call", fn, <<j>>, FALSE) :
             fn \in {"lifetime", "memset0", "memset-1", "memset5"},
             j \in Bytes(s) }
    \cup { Plain("call", "memcpy", <<j, k>>, FALSE) : j, k \in Bytes(s) }
    \cup { Plain("call", "unknown", <<j>>, FALSE) : j \in Values(s) }
    \cup { Plain("call", "assert", <<>>, FALSE) }
Longer(S) == S \cup UNION { { Append(s, x) : x \in Following(s) } : s \in S }
MemBodies == Longer(Longer(Longer(Longer({<<>>}))))

Tagged(x) == [x EXCEPT !.vtable = TRUE]
Shift(s, n) ==
    [k \in DOMAIN s |-> [s[k] EXCEPT
        !.callee = IF @ = 0 THEN 0 ELSE @ + n,
        !.args = [a \in DOMAIN @ |-> IF @[a] = 0 THEN 0 ELSE @[a] + n]]]
(* The accesses, a cast or none, the instructions of an argument or none,  *)
(* whose value is that of the last, the call.                              *)
Virtual(slot, cast, inner, op) ==
    LET e == IF cast THEN 5 ELSE 4
        value == e + Len(inner)
        passed == IF inner = <<>> \/ inner[Len(inner)].fn \in Void THEN <<>> ELSE <<value>>
    IN  <<Plain("bitcast", "none", <<0>>, FALSE),
          Tagged(Plain("load", "none", <<1>>, FALSE)),
          [Plain("gep", "none", <<2>>, FALSE) EXCEPT !.slot = slot]>>
        \o (IF cast THEN <<Plain("bitcast", "none", <<3>>, FALSE)>> ELSE <<>>)
        \o <<Plain("load", "none", <<e - 1>>, FALSE)>>
        \o Shift(inner, e)
        \o <<[Plain(op, "none", <<0>> \o passed, FALSE) EXCEPT !.callee = e]>>
Constructor == <<Plain("bitcast", "none", <<0>>, FALSE),
                 Tagged(Plain("store", "none", <<1>>, FALSE))>>
Memory == { <<>>,
            <<Plain("call", "alloc", <<>>, TRUE), Plain("bitcast", "none", <<1>>, FALSE)>>,
            <<Plain("bitcast", "none", <<0>>, TRUE), Plain("call", "memset0", <<1>>, FALSE)>>,
            <<Plain("call", "unknown", <<0>>, FALSE)>> }

(* A value, a call, an object allocated, copied or cleared for it, and the *)
(* result of another virtual call.                                         *)
Flat == { <<>>, <<Plain("load", "none", <<0>>, FALSE)>> }
Arguments == Flat \cup
    (Memory \ {<<>>}) \cup
    { <<Plain("bitcast", "none", <<0>>, TRUE), Plain("bitcast", "none", <<0>>, TRUE),
        Plain("call", "memcpy", <<1, 2>>, FALSE)>>,
      <<Plain("bitcast", "none", <<0>>, TRUE), Plain("call", "lifetime", <<1>>, FALSE)>>,
      Virtual(3, TRUE, <<>>, "call") }
VirtualsOf(args) ==
    { Virtual(slot, cast, inner, op) :
        slot \in 1 .. 2, cast \in BOOLEAN, inner \in args, op \in {"call", "invoke"} }
ClassBodies ==
    { s \o Shift(m, Len(s)) \o Shift(t, Len(s) + Len(m)) :
        s \in VirtualsOf(Arguments) \cup {Constructor}, m \in Memory, t \in VirtualsOf(Flat) }

MCBodies == [method : {FALSE}, insts : MemBodies \cup VirtualsOf(Arguments)]
    \cup [method : {TRUE}, insts : ClassBodies]
=============================================================================
