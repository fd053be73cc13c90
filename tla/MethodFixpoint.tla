--------------------------- MODULE MethodFixpoint ---------------------------
(***************************************************************************)
(* What ImmutabilityAnalysis promises of the methods of a class, without   *)
(* threads: a set of initial states per method, each taken exactly once,   *)
(* each pass over which hands one of its outcomes to every method of the   *)
(* class; the analysis moves to the next class only when nothing is left   *)
(* to take, to run or to hand over.                                        *)
(***************************************************************************)
EXTENDS ClassModel

VARIABLES
    class,     \* the class under analysis, 0 before the first
    finished,  \* the database connection has been closed
    todo,      \* todo[m]: initial states of m not yet taken
    done,      \* done[m]: initial states of m taken
    torun,     \* <<m, s, p>>: pass p of m on s not yet run
    owed       \* <<m, s, p, r, n>>: its outcome r not yet handed to n

vars == <<class, finished, todo, done, torun, owed>>

Init ==
    /\ class = 0
    /\ finished = FALSE
    /\ todo = [m \in Method |-> {}]
    /\ done = [m \in Method |-> {}]
    /\ torun = {}
    /\ owed = {}

Settled == torun = {} /\ owed = {} /\ \A m \in Method : todo[m] = {}

(* The next class starts with one seed state per method.                   *)
Begin ==
    /\ ~finished
    /\ class < NumClasses
    /\ Settled
    /\ class' = class + 1
    /\ todo' = [m \in Method |-> IF m \in MethodsOf[class + 1]
                                 THEN {FirstState[class + 1][m]} ELSE {}]
    /\ done' = [m \in Method |-> {}]
    /\ UNCHANGED <<finished, torun, owed>>

(* A state is taken: all passes of the method are to be run on it.         *)
Take(m, s) ==
    /\ s \in todo[m]
    /\ todo' = [todo EXCEPT ![m] = @ \ {s}]
    /\ done' = [done EXCEPT ![m] = @ \cup {s}]
    /\ torun' = torun \cup { <<m, s, p>> : p \in Passes(m) }
    /\ UNCHANGED <<class, finished, owed>>

(* A pass that reaches no exit leaves nothing.                             *)
RunNothing(m, s, p) ==
    /\ <<m, s, p>> \in torun
    /\ Outcomes[m][s][p] = {}
    /\ torun' = torun \ {<<m, s, p>>}
    /\ UNCHANGED <<class, finished, todo, done, owed>>

(* Any other leaves one of its outcomes, owed to every method.             *)
Run(m, s, p, r) ==
    /\ <<m, s, p>> \in torun
    /\ r \in Outcomes[m][s][p]
    /\ torun' = torun \ {<<m, s, p>>}
    /\ owed' = owed \cup { <<m, s, p, r, n>> : n \in MethodsOf[class] }
    /\ UNCHANGED <<class, finished, todo, done>>

(* The outcome reaches method n, which keeps it unless it is redundant.    *)
Deliver(m, s, p, r, n) ==
    /\ <<m, s, p, r, n>> \in owed
    /\ owed' = owed \ {<<m, s, p, r, n>>}
    /\ LET x == ChangeThis[n][r]
       IN  todo' = IF Covers(done[n] \cup todo[n], x) THEN todo
                   ELSE [todo EXCEPT ![n] = @ \cup {x}]
    /\ UNCHANGED <<class, finished, done, torun>>

Finish ==
    /\ ~finished
    /\ class = NumClasses
    /\ Settled
    /\ finished' = TRUE
    /\ UNCHANGED <<class, todo, done, torun, owed>>

Next ==
    \/ Begin
    \/ \E m \in Method : \E s \in todo[m] : Take(m, s)
    \/ \E d \in torun : \/ RunNothing(d[1], d[2], d[3])
                         \/ \E r \in State : Run(d[1], d[2], d[3], r)
    \/ \E d \in owed : Deliver(d[1], d[2], d[3], d[4], d[5])
    \/ Finish

Spec == Init /\ [][Next]_vars

-----------------------------------------------------------------------------
TypeOK ==
    /\ class \in 0 .. NumClasses
    /\ finished \in BOOLEAN
    /\ todo \in [Method -> SUBSET State]
    /\ done \in [Method -> SUBSET State]
    /\ torun \subseteq Method \X State \X (1 .. 2)
    /\ owed \subseteq Method \X State \X (1 .. 2) \X State \X Method

(* When nothing is left to take, to run or to hand over, the states taken  *)
(* are closed under the analysis of all methods of the class, up to states *)
(* made redundant by a more general one.                                   *)
SettledIsClosed == Settled /\ class # 0 => ClosedFor(class, done)

(* A class is left, and the results are committed, only when its fixpoint  *)
(* has been reached (the exit test of analyzeMethods, lines 758 to 765).   *)
LeftOnlyWhenClosed ==
    [][(class' # class \/ finished' # finished) /\ class # 0
          => ClosedFor(class, done)]_vars
=============================================================================
