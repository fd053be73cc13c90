--------------------------- MODULE MCClassTables ---------------------------
(* Modules for ClassTables: every hierarchy of three classes with every    *)
(* choice of methods, a class with two struct types in every order of its  *)
(* functions, and a few that the rules of populateDirect need.             *)
EXTENDS ClassTables, TLC

Leaf(t) == [type |-> "BUILTIN_TYPE", value |-> t]
Ptr(c) == [type |-> "POINTER", left |-> c]
Arg(c) == [type |-> "ARGLIST", left |-> c, right |-> Null]
Fn(args) == [type |-> "FUNCTION_TYPE", left |-> Null, right |-> args]
PtrTo(n) == Ptr([type |-> "NAME", len |-> 3, value |-> n])

Name(t) == [kind |-> "name", const |-> FALSE, text |-> t, args |-> <<>>]
Conversion(t, args, c) ==
    [kind |-> "conversion", const |-> c, text |-> t, args |-> args]

\* f(int), f(int *) and g(), as declared in this order
MethodName == <<"f", "p", "g">>
NameOf == [f |-> Name("f"), p |-> Name("f"), g |-> Name("g")]
ParamsOf == [f |-> Fn(Arg(Leaf("int"))), p |-> Fn(Arg(Ptr(Leaf("int")))),
             g |-> Fn(Arg(Leaf("void")))]

\* the hierarchies: class 1 may derive from 2 and 3, class 2 from 3
Hierarchies == { h \in [1 .. 3 -> {<<>>, <<2>>, <<3>>, <<2, 3>>, <<3, 2>>}] :
                    h[2] \in {<<>>, <<3>>} /\ h[3] = <<>> }

\* the methods of the primary virtual table, in the order of their slots
RECURSIVE Primary(_, _, _)
Primary(h, has, c) ==
    LET withTable == SelectSeq(h[c], LAMBDA b : Primary(h, has, b) # <<>>)
        inherited == IF withTable = <<>> THEN <<>>
                     ELSE Primary(h, has, Head(withTable))
    IN  inherited \o SelectSeq(MethodName,
            LAMBDA n : n \in has[c] /\ n \notin ToSet(inherited))

Declares(h, has, c, n) ==
    [empty |-> FALSE, type |-> c, debug |-> c, this |-> "const", kind |-> "method",
     access |-> "public", name |-> NameOf[n], params |-> ParamsOf[n],
     slot |-> (CHOOSE i \in DOMAIN Primary(h, has, c) : Primary(h, has, c)[i] = n) - 1]

RECURSIVE Parts(_)
Parts(c) == IF c = Null THEN {Null}
            ELSE {c} \cup UNION { Parts(c[x]) : x \in DOMAIN c \cap {"left", "right"} }
Components(fn) == UNION { Parts(fn[F].params) : F \in DOMAIN fn } \cup {Null}

RECURSIVE Height(_)
Height(c) == IF c = Null THEN 0
             ELSE 1 + Max({0} \cup { Height(c[x]) : x \in DOMAIN c \cap {"left", "right"} })
Heights(components) == [c \in components |-> Height(c)]

Class(keyword, scope) == [keyword |-> keyword, scope |-> scope]
Inherits(bases) ==
    [i \in DOMAIN bases |-> [tag |-> "inheritance", base |-> bases[i]]]
        \o <<[tag |-> "member"]>>

Generated(h, has) ==
    LET ids == { <<c, n>> \in (1 .. 3) \X ToSet(MethodName) : n \in has[c] }
        fn == [F \in ids |-> Declares(h, has, F[1], F[2])]
    IN  [functions |-> SetToSortSeq(ids, LAMBDA x, y : x[1] > y[1]),
         fn |-> fn, components |-> Components(fn), height |-> Heights(Components(fn)),
         elements |-> [c \in 1 .. 3 |-> Inherits(h[c])],
         spelled |-> [c \in 1 .. 3 |-> Class("class", "")]]

MethodSets == {{}, {"g"}, {"f", "p"}, {"f", "g"}}

\* a diamond 1 < 2, 3 < 4 with a std:: base 5 of 4, and functions of every
\* kind that populateDirect tells apart
Plainly(T, this, kind, access, slot, name, params) ==
    [empty |-> FALSE, type |-> T, debug |-> IF T = NoType THEN 1 ELSE T,
     this |-> this, kind |-> kind, access |-> access, slot |-> slot,
     name |-> name, params |-> params]
Void == Fn(Arg(Leaf("void")))
DiamondFn ==
    <<Plainly(1, "const", "method", "public", 0, Name("f"), Void),
      Plainly(2, "plain", "ctor", "public", NoSlot, Name("B"), Void),
      Plainly(2, "const", "method", "none", 1, Name("g"), Void),
      Plainly(3, "const", "method", "none", NoSlot, Name("f"), Void),
      Plainly(3, "volatile", "method", "public", NoSlot, Name("v"), Void),
      Plainly(3, "const", "method", "public", NoSlot,
              Conversion("vec", <<"int">>, FALSE), Void),
      Plainly(3, "const", "method", "public", NoSlot,
              Conversion("vec", <<"float">>, FALSE), Void),
      Plainly(3, "const", "method", "public", NoSlot,
              Conversion("vec", <<"char">>, TRUE), Void),
      Plainly(4, "const", "method", "private", 0, Name("f"), Void),
      Plainly(4, "const", "method", "public", 1, Name("g"), Fn(Arg(PtrTo("Foo")))),
      Plainly(4, "const", "method", "public", NoSlot, Name("vec"), Void),
      Plainly(5, "const", "method", "public", 0, Name("f"), Void),
      Plainly(5, "const", "method", "public", 1, Name("g"), Void),
      Plainly(NoType, "none", "method", "none", NoSlot, Name("main"), Void),
      Plainly(4, "const", "undemangled", "public", NoSlot, Name("?"), Void)>>
Diamond ==
    [functions |-> [i \in DOMAIN DiamondFn |-> i],
     fn |-> DiamondFn, components |-> Components(DiamondFn),
     height |-> Heights(Components(DiamondFn)),
     elements |-> <<Inherits(<<2, 3>>), Inherits(<<4>>), Inherits(<<4>>),
                    Inherits(<<5>>), Inherits(<<>>)>>,
     spelled |-> <<Class("class", ""), Class("class", ""), Class("struct", ""),
                   Class("class", ""), Class("class", "std::")>>]

\* functions named as in Generated, each at its slot
Given(fn, order, bases, spelled) ==
    [functions |-> order, fn |-> fn,
     components |-> Components(fn), height |-> Heights(Components(fn)),
     elements |-> [c \in DOMAIN bases |-> Inherits(bases[c])], spelled |-> spelled]
SlotOf == [f |-> 0, g |-> 1, p |-> NoSlot]
Method(id) ==
    Plainly(id[1], "const", "method", "public", SlotOf[id[2]], NameOf[id[2]], ParamsOf[id[2]])

\* linked from two modules: class 1 has the struct types 1 and 2 (such as
\* class.A and class.A.118), each with methods of its own; 3 and 4 derive
LinkedIds == {<<1, "f">>, <<1, "p">>, <<2, "g">>, <<3, "f">>, <<4, "g">>}
Linked(order) ==
    Given([id \in LinkedIds |-> [Method(id) EXCEPT !.debug = IF id[1] = 2 THEN 1 ELSE id[1]]],
          order, <<<<>>, <<>>, <<1>>, <<3>>>>, [T \in 1 .. 4 |-> Class("class", "")])

\* only the class of this name is ignored, not the struct
NamedModule(keyword) ==
    LET ids == <<<<1, "g">>, <<2, "f">>>>
    IN  Given([id \in ToSet(ids) |-> Method(id)], ids, <<<<2>>, <<>>>>,
              <<Class("class", ""), Class(keyword, "codegen::style::structure::Module")>>)

MCModules == {Diamond} \cup
    { Linked(order) : order \in SetToSeqs(LinkedIds) } \cup
    { NamedModule(keyword) : keyword \in {"class", "struct"} } \cup
    { Generated(h, has) : h \in Hierarchies, has \in [1 .. 3 -> MethodSets] }
=============================================================================
