--------------------------- MODULE MCObjectTypes ---------------------------
(* Every set of up to three methods of different classes, and lists of two *)
(* classes with methods that are absent, without body or DebugStrings.     *)
EXTENDS ObjectTypes, MCStructLayout

MCRenamed118 == [stem |-> "class.Parser::Action", base |-> FALSE, number |-> 118]

Defined(C) == [id |-> C, body |-> "defined", debug |-> FALSE, this |-> C]
Classes == <<"V", "W", "X", "Y", "Z", "U", "T", "H", "K", "L", "A", "D", "P">>
Entries == { <<Defined(Classes[t[1]]), Defined(Classes[t[2]]), Defined(Classes[t[3]])>> :
                t \in { t \in [1 .. 3 -> 1 .. Len(Classes)] :
                           t[1] <= t[2] /\ t[2] <= t[3] } }

Other(b, d, C) == [id |-> b, body |-> b, debug |-> d, this |-> C]
Kinds == { Other("absent", FALSE, "V"), Other("empty", FALSE, "V"),
           Other("defined", TRUE, "V"), Defined("X") }
Short == UNION { [1 .. n -> Kinds] : n \in 0 .. 2 }

Record(n, ms) == [name |-> n, methods |-> ms]
MCPackages ==
    { <<Record("C", ms)>> : ms \in Entries }
    \cup { <<Record(n, ms), Record("C", ms2)>> :
            n \in {"PolySIM", "C"}, ms \in Short, ms2 \in Short }
=============================================================================
