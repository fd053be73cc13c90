----------------------------- MODULE MCCallStack -----------------------------
(***************************************************************************)
(* Programs of three functions for CallStack.                              *)
(***************************************************************************)
EXTENDS CallStack

CONSTANTS f1, f2, f3

Functions3 == {f1, f2, f3}
Facts2 == {"zero", "many"}

increment == [x \in Facts2 |-> {"many"}]
reset == [x \in Facts2 |-> {"zero", x}]
assumeZero == [x \in Facts2 |-> {x} \cap {"zero"}]
MCEffects == {increment, reset, assumeZero}

do(e) == [op |-> "visit", effect |-> e]
call(c) == [op |-> "call", callee |-> c, match |-> TRUE]
variadic(c) == [op |-> "call", callee |-> c, match |-> FALSE]
skip == [op |-> "skip"]
landing == [op |-> "landing"]

ret(code) == [code |-> code, end |-> "return"]
dead(code) == [code |-> code, end |-> "unreachable"]
fun(blocks) == [kind |-> "plain", blocks |-> blocks]

(* Functions that call no other: those that return, that do not, that have *)
(* no body, and those whose calls are not analysed.                        *)
Leaves == {
    fun(<<ret(<<do(reset)>>), ret(<<landing>>)>>),
    fun(<<ret(<<do(assumeZero), do(increment)>>)>>),
    fun(<<dead(<<do(increment)>>)>>),
    fun(<<ret(<<landing, do(reset)>>)>>),
    fun(<<dead(<<>>), dead(<<skip>>)>>),
    fun(<<>>),
    [kind |-> "ignored", blocks |-> <<>>],
    [kind |-> "opaque", blocks |-> <<ret(<<do(increment)>>)>>] }

(* Functions that call others or themselves, on one path or on all of them,*)
(* once or twice.                                                          *)
Callers(c, d) == {
    fun(<<ret(<<do(assumeZero), call(c)>>), ret(<<do(increment)>>)>>),
    fun(<<ret(<<skip, call(c), do(increment), call(d)>>)>>),
    fun(<<ret(<<variadic(c)>>), dead(<<call(d)>>), ret(<<call(d)>>)>>) }

Program(a, b, c) == [x \in Functions3 |-> CASE x = f1 -> a [] x = f2 -> b [] x = f3 -> c]

MCPrograms ==
    { Program(p[1], p[2], p[3]) :
        p \in Callers(f2, f2) \X (Leaves \cup Callers(f3, f3) \cup Callers(f1, f3)) \X Leaves }
        \cup
    { Program(p[1], p[2], p[3]) :
        p \in Callers(f2, Null) \X Callers(f3, f2) \X (Callers(f1, f3) \cup Callers(f2, f2)) }
        \cup
    { Program([a EXCEPT !.kind = "ignored"], b, fun(<<>>)) :
        a \in Callers(f2, f1), b \in Callers(f1, f2) }
=============================================================================
