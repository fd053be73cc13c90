--------------------------- MODULE AnalyzeMethods ---------------------------
(***************************************************************************)
(* The driver of ImmutabilityAnalysis: the main thread, which walks the    *)
(* classes and keeps up to NumSlots tasks in a thread pool, and the tasks, *)
(* each of which takes one initial state of one method, runs the function  *)
(* analysis on it and pushes the final state to every method of the class. *)
(* A task is identified with the entry of Futures that holds its future.   *)
(*                                                                         *)
(* The vectors of the two maps are modelled as sets: nothing is ever       *)
(* pushed twice and the analysis is correct in whatever order pop_back     *)
(* takes the states.  The key of a DenseMap and its (possibly empty)       *)
(* vector are kept apart: keys is what begin() and empty() look at.        *)
(***************************************************************************)
EXTENDS ClassModel, FiniteSets

CONSTANTS
    NumSlots,     \* Futures.size()
    PoolThreads,  \* threads of the pool
    NoJob         \* a task that has taken no state

ASSUME DriverAssumption ==
    /\ NumSlots \in Nat \ {0}
    /\ PoolThreads \in Nat \ {0}

VARIABLES
    cur,         \* database::CurRecordDeclID, 0 before the first class
    main,        \* where the main thread is
    scan,        \* the index of checkFutures' loop
    pc,          \* pc[w]: where the task of Futures[w] is
    cls,         \* cls[w]: the class whose Methods its closure refers to
    job,         \* job[w]: the state it has taken, the pass over it, what that
                 \* left (FinalState) and the methods still to get it
    mutex,       \* 0, or the task that holds Mutex
    keys,        \* keys of IncompleteMethodInitialStates
    incomplete,  \* its vectors
    complete,    \* CompleteMethodInitialStates
    issues       \* rows of cpp_doc_llvm_immutability_issue

maps == <<keys, incomplete, complete>>
task == <<pc, cls, job>>
vars == <<cur, main, scan, task, mutex, maps, issues>>

Slot == 1 .. NumSlots
Job == [method : Method, state : State, pass : 1 .. 2,
        final : State \cup {Bottom}, left : SUBSET Method]
NoStates == [m \in Method |-> {}]

(* A pool thread is executing the task. *)
Running(w) == pc[w] \notin {"invalid", "queued", "ready"}
allFuturesInvalid == \A w \in Slot : pc[w] = "invalid"

Init ==
    /\ cur = 0
    /\ main = "next"
    /\ scan = 1
    /\ pc = [w \in Slot |-> "invalid"]
    /\ cls = [w \in Slot |-> 0]
    /\ job = [w \in Slot |-> NoJob]
    /\ mutex = 0
    /\ keys = {}
    /\ incomplete = NoStates
    /\ complete = NoStates
    /\ issues = {}

-----------------------------------------------------------------------------
(* The main thread. *)

(* runOnModule moves to the next class and clears both maps; analyzeMethods*)
(* seeds them.  None of this takes Mutex.                                  *)
BeginClass ==
    /\ main = "next"
    /\ cur < NumClasses
    /\ cur' = cur + 1
    /\ keys' = MethodsOf[cur + 1]
    /\ incomplete' = [m \in Method |-> IF m \in MethodsOf[cur + 1]
                                       THEN {FirstState[cur + 1][m]} ELSE {}]
    /\ complete' = NoStates
    /\ main' = "futures"
    /\ UNCHANGED <<scan, task, mutex, issues>>

(* database::finish closes the connection after the last class.            *)
Finish ==
    /\ main = "next"
    /\ cur = NumClasses
    /\ main' = "finished"
    /\ UNCHANGED <<cur, scan, task, mutex, maps, issues>>

(* The loop test asks for the futures first and, only when none is valid,  *)
(* for the map.  (X_y, here and below, is a variant of X with a plausible  *)
(* mistake; the runs must notice it.)                                      *)
TestFutures_MapOnly ==
    /\ main = "futures"
    /\ main' = "map"
    /\ UNCHANGED <<cur, scan, task, mutex, maps, issues>>

TestFutures ==
    /\ main = "futures"
    /\ main' = IF allFuturesInvalid THEN "map" ELSE "sweep"
    /\ UNCHANGED <<cur, scan, task, mutex, maps, issues>>

TestMap ==
    /\ main = "map"
    /\ mutex = 0
    /\ main' = IF keys = {} THEN "next" ELSE "sweep"
    /\ UNCHANGED <<cur, scan, task, mutex, maps, issues>>

(* checkFutures, one future at a time: before the slot is chosen ("sweep") *)
(* and again after the task has been launched ("resweep").                 *)
CheckFuture ==
    /\ main \in {"sweep", "resweep"}
    /\ IF pc[scan] = "ready"
       THEN /\ pc' = [pc EXCEPT ![scan] = "invalid"]
            /\ cls' = [cls EXCEPT ![scan] = 0]
       ELSE UNCHANGED <<pc, cls>>
    /\ IF scan < NumSlots
       THEN scan' = scan + 1 /\ main' = main
       ELSE scan' = 1 /\ main' = IF main = "sweep" THEN "launch" ELSE "futures"
    /\ UNCHANGED <<cur, job, mutex, maps, issues>>

(* Pool.async into the first entry that is not valid.                      *)
Launch(w) ==
    /\ main = "launch"
    /\ pc[w] = "invalid"
    /\ \A v \in 1 .. w - 1 : pc[v] # "invalid"
    /\ pc' = [pc EXCEPT ![w] = "queued"]
    /\ cls' = [cls EXCEPT ![w] = cur]
    /\ main' = "resweep"
    /\ UNCHANGED <<cur, scan, job, mutex, maps, issues>>

(* getFutureAvailable finds no free entry: sleep_for, then look again.     *)
Sleep ==
    /\ main = "launch"
    /\ \A w \in Slot : pc[w] # "invalid"
    /\ main' = "sweep"
    /\ UNCHANGED <<cur, scan, task, mutex, maps, issues>>

Main == \/ BeginClass
        \/ Finish
        \/ TestFutures
        \/ TestMap
        \/ CheckFuture
        \/ \E w \in Slot : Launch(w)
        \/ Sleep

-----------------------------------------------------------------------------
(* The tasks: iteration, runMethod and handleFinalState. *)

(* A free thread of the pool dequeues the task.                            *)
Start(w) ==
    /\ pc[w] = "queued"
    /\ Cardinality({v \in Slot : Running(v)}) < PoolThreads
    /\ pc' = [pc EXCEPT ![w] = "lock"]
    /\ UNCHANGED <<cur, main, scan, cls, job, mutex, maps, issues>>

Lock(w) ==
    /\ pc[w] \in {"lock", "final"}
    /\ mutex = 0
    /\ mutex' = w
    /\ pc' = [pc EXCEPT ![w] = IF @ = "lock" THEN "pick" ELSE "push"]
    /\ UNCHANGED <<cur, main, scan, cls, job, maps, issues>>

(* iteration's first early return: there is no method left in the map.     *)
PickNothing(w) ==
    /\ pc[w] = "pick"
    /\ keys = {}
    /\ mutex' = 0
    /\ pc' = [pc EXCEPT ![w] = "ready"]
    /\ UNCHANGED <<cur, main, scan, cls, job, maps, issues>>

(* Its second: begin() is a method without states, whose key is erased.    *)
EraseKey_NoUnlock(w, m) ==
    /\ pc[w] = "pick"
    /\ m \in keys
    /\ incomplete[m] = {}
    /\ keys' = keys \ {m}
    /\ pc' = [pc EXCEPT ![w] = "ready"]
    /\ UNCHANGED <<cur, main, scan, cls, job, mutex, incomplete, complete, issues>>

EraseKey_Kept(w, m) ==
    /\ pc[w] = "pick"
    /\ m \in keys
    /\ incomplete[m] = {}
    /\ mutex' = 0
    /\ pc' = [pc EXCEPT ![w] = "ready"]
    /\ UNCHANGED <<cur, main, scan, cls, job, maps, issues>>

EraseKey(w, m) ==
    /\ pc[w] = "pick"
    /\ m \in keys
    /\ incomplete[m] = {}
    /\ keys' = keys \ {m}
    /\ mutex' = 0
    /\ pc' = [pc EXCEPT ![w] = "ready"]
    /\ UNCHANGED <<cur, main, scan, cls, job, incomplete, complete, issues>>

(* A state of begin() moves from the incomplete to the complete states     *)
(* before Mutex is released.                                               *)
TakeState_NotCompleted(w, m, s) ==
    /\ pc[w] = "pick"
    /\ m \in keys
    /\ s \in incomplete[m]
    /\ incomplete' = [incomplete EXCEPT ![m] = @ \ {s}]
    /\ mutex' = 0
    /\ job' = [job EXCEPT ![w] = [method |-> m, state |-> s, pass |-> 1,
                                   final |-> Bottom, left |-> {}]]
    /\ pc' = [pc EXCEPT ![w] = "run"]
    /\ UNCHANGED <<cur, main, scan, cls, keys, complete, issues>>

TakeState(w, m, s) ==
    /\ pc[w] = "pick"
    /\ m \in keys
    /\ s \in incomplete[m]
    /\ incomplete' = [incomplete EXCEPT ![m] = @ \ {s}]
    /\ complete' = [complete EXCEPT ![m] = @ \cup {s}]
    /\ mutex' = 0
    /\ job' = [job EXCEPT ![w] = [method |-> m, state |-> s, pass |-> 1,
                                   final |-> Bottom, left |-> {}]]
    /\ pc' = [pc EXCEPT ![w] = "run"]
    /\ UNCHANGED <<cur, main, scan, cls, keys, issues>>

(* The next ignored edge of iteration's loop, or the end of the task.      *)
NextPass_OneMore(w) ==
    IF job[w].pass <= NumPasses(job[w].method)
    THEN /\ job' = [job EXCEPT ![w] = [method |-> @.method, state |-> @.state,
                                        pass |-> @.pass + 1,
                                        final |-> Bottom, left |-> {}]]
         /\ pc' = [pc EXCEPT ![w] = "run"]
    ELSE /\ job' = [job EXCEPT ![w] = NoJob]
         /\ pc' = [pc EXCEPT ![w] = "ready"]

NextPass_FirstOnly(w) ==
    /\ job' = [job EXCEPT ![w] = NoJob]
    /\ pc' = [pc EXCEPT ![w] = "ready"]

NextPass(w) ==
    IF job[w].pass < NumPasses(job[w].method)
    THEN /\ job' = [job EXCEPT ![w] = [method |-> @.method, state |-> @.state,
                                        pass |-> @.pass + 1,
                                        final |-> Bottom, left |-> {}]]
         /\ pc' = [pc EXCEPT ![w] = "run"]
    ELSE /\ job' = [job EXCEPT ![w] = NoJob]
         /\ pc' = [pc EXCEPT ![w] = "ready"]

OutcomesOf(j) == Outcomes[j.method][j.state][j.pass]

(* runMethod, the result is bottom: nothing is reported or pushed.         *)
RunBottom(w) ==
    /\ pc[w] = "run"
    /\ OutcomesOf(job[w]) = {}
    /\ NextPass(w)
    /\ UNCHANGED <<cur, main, scan, cls, mutex, maps, issues>>

(* runMethod, checkArgument and checkReturn: every issue is inserted (ON   *)
(* CONFLICT DO NOTHING) under the record that is current at that moment.   *)
(* The state handed on is one of those that the order of the marks leaves. *)
RunReport_OnePerMethod(w) ==
    /\ pc[w] = "run"
    /\ LET j == job[w] IN
          \/ /\ \A i \in issues : i.record # cur \/ i.method # j.method
             /\ \E k \in Issue[j.method][j.state][j.pass] :
                   issues' = issues \cup {[record |-> cur, method |-> j.method, kind |-> k]}
          \/ /\ \/ \E i \in issues : i.record = cur /\ i.method = j.method
                \/ Issue[j.method][j.state][j.pass] = {}
             /\ UNCHANGED issues
    /\ \E r \in OutcomesOf(job[w]) :
          job' = [job EXCEPT ![w] = [method |-> @.method, state |-> @.state,
                                      pass |-> @.pass, final |-> r,
                                      left |-> MethodsOf[cls[w]]]]
    /\ pc' = [pc EXCEPT ![w] = "final"]
    /\ UNCHANGED <<cur, main, scan, cls, mutex, maps>>

RunReport(w) ==
    /\ pc[w] = "run"
    /\ LET j == job[w] IN
          issues' = issues \cup
              { [record |-> cur, method |-> j.method, kind |-> k] :
                    k \in Issue[j.method][j.state][j.pass] }
    /\ \E r \in OutcomesOf(job[w]) :
          job' = [job EXCEPT ![w] = [method |-> @.method, state |-> @.state,
                                      pass |-> @.pass, final |-> r,
                                      left |-> MethodsOf[cls[w]]]]
    /\ pc' = [pc EXCEPT ![w] = "final"]
    /\ UNCHANGED <<cur, main, scan, cls, mutex, maps>>

(* One turn of handleFinalState's loop: the state is pushed to method n    *)
(* unless a complete or an incomplete state of n covers it.  The test of   *)
(* the incomplete states, operator[], creates n's key.                     *)
PushFinal_IgnoreComplete(w, n) ==
    /\ pc[w] = "push"
    /\ n \in job[w].left
    /\ LET x == ChangeThis[n][job[w].final] IN
          /\ keys' = keys \cup {n}
          /\ incomplete' = IF Covers(incomplete[n], x) THEN incomplete
                           ELSE [incomplete EXCEPT ![n] = @ \cup {x}]
    /\ job' = [job EXCEPT ![w].left = @ \ {n}]
    /\ UNCHANGED <<cur, main, scan, pc, cls, mutex, complete, issues>>

PushFinal(w, n) ==
    /\ pc[w] = "push"
    /\ n \in job[w].left
    /\ LET x == ChangeThis[n][job[w].final] IN
          IF Covers(complete[n], x)
          THEN UNCHANGED <<keys, incomplete>>
          ELSE /\ keys' = keys \cup {n}
               /\ incomplete' = IF Covers(incomplete[n], x) THEN incomplete
                                ELSE [incomplete EXCEPT ![n] = @ \cup {x}]
    /\ job' = [job EXCEPT ![w].left = @ \ {n}]
    /\ UNCHANGED <<cur, main, scan, pc, cls, mutex, complete, issues>>

UnlockFinal(w) ==
    /\ pc[w] = "push"
    /\ job[w].left = {}
    /\ mutex' = 0
    /\ NextPass(w)
    /\ UNCHANGED <<cur, main, scan, cls, maps, issues>>

Pick(w) == \/ PickNothing(w)
           \/ \E m \in Method : EraseKey(w, m)
           \/ \E m \in Method : \E s \in State : TakeState(w, m, s)

Push(w) == \/ \E n \in Method : PushFinal(w, n)
           \/ UnlockFinal(w)

Run(w) == RunBottom(w) \/ RunReport(w)

Task(w) == Start(w) \/ Lock(w) \/ Pick(w) \/ Run(w) \/ Push(w)

(* The process exits: nothing is left running. *)
Exit == main = "finished" /\ UNCHANGED vars

Next == Main \/ (\E w \in Slot : Task(w)) \/ Exit

Spec == Init /\ [][Next]_vars

(* Every thread that can run does; a thread that keeps asking for Mutex or *)
(* a queued task that keeps finding a thread free is eventually served.    *)
Fairness ==
    /\ WF_vars(Main)
    /\ \A w \in Slot : /\ SF_vars(Start(w))
                       /\ SF_vars(Lock(w))
                       /\ WF_vars(Pick(w) \/ Run(w) \/ Push(w))

FairSpec == Spec /\ Fairness

-----------------------------------------------------------------------------
TypeOK ==
    /\ cur \in 0 .. NumClasses
    /\ main \in {"next", "futures", "map", "sweep", "launch", "resweep", "finished"}
    /\ scan \in Slot
    /\ pc \in [Slot -> {"invalid", "queued", "lock", "pick", "run", "final",
                        "push", "ready"}]
    /\ cls \in [Slot -> 0 .. NumClasses]
    /\ job \in [Slot -> Job \cup {NoJob}]
    /\ mutex \in 0 .. NumSlots
    /\ keys \subseteq Method
    /\ incomplete \in [Method -> SUBSET State]
    /\ complete \in [Method -> SUBSET State]
    /\ issues \subseteq [record : Class, method : Method, kind : IssueKind]

(* The analysis of a class has ended: between two turns of the class loop. *)
ClassEnded == main \in {"next", "finished"} /\ cur # 0

(* When analyzeMethods returns, whatever the interleaving of its tasks,    *)
(* the complete states are closed under the analysis of every method: no   *)
(* final state was lost between the unlock of iteration and the push of    *)
(* handleFinalState, and no seed was skipped.                              *)
FixpointReached == ClassEnded => ClosedFor(cur, complete)

(* The rows written while a class was current are those of its complete    *)
(* states, no more (a late task of an earlier class would add its own) and *)
(* no less (each pass of each state taken was reported).                   *)
IssuesExact ==
    ClassEnded => { i \in issues : i.record = cur } = IssuesOf(cur, complete)

(* No schedule, no order of the marks and no state dropped for a more      *)
(* general one adds a row that cannot arise without dropping, or, if the   *)
(* analysis is monotone, loses one that must arise.                        *)
IssuesBounded ==
    ClassEnded =>
        LET rows == { i \in issues : i.record = cur } IN
        /\ rows \subseteq IssuesOf(cur, Possible[cur])
        /\ MonotoneAnalysis => CertainIssues[cur] \subseteq rows

(* The class loop moves on, clears the maps without Mutex, frees the set   *)
(* that the closures refer to, or closes the connection only when no task  *)
(* exists: the loop test reads the futures before the map.                 *)
ClassSwitchAlone ==
    [][cur' # cur \/ (main' = "finished" /\ main # "finished")
          => allFuturesInvalid]_vars

(* An initial state of a method is analysed once per class: what is taken  *)
(* never comes back to the incomplete states.                              *)
TakenOnce ==
    [][cur' = cur => \A m \in Method : /\ complete[m] \subseteq complete'[m]
                                       /\ complete'[m] \cap incomplete'[m] = {}]_vars

(* A class that has been begun reaches its fixpoint and its map is         *)
(* drained, whatever the schedule: no lock is kept, no queued task or      *)
(* taken state is forgotten.  (That the loop then ends, so that the next   *)
(* class begins, takes more: TerminationIfPrompt.)                         *)
FixpointEventually ==
    \A c \in Class : (cur = c) ~> (cur = c /\ keys = {} /\ ClosedFor(c, complete))

(* The poll after a launch finds, again and again, that every task has     *)
(* already ended.                                                          *)
PoolPrompt ==
    []<>(\/ main = "finished"
         \/ /\ main = "resweep" /\ scan = 1
            /\ \A w \in Slot : pc[w] \in {"invalid", "ready"})

(* Nothing but that timing keeps the main loop going: if the poll sees an  *)
(* idle pool again and again, every class is analysed and the connection   *)
(* is closed (empty keys, full slots and no-op tasks do not go on forever).*)
TerminationIfPrompt == PoolPrompt => <>(main = "finished")

-----------------------------------------------------------------------------
HasJob(w) == pc[w] \in {"run", "final", "push"}

(* The task w has still to run pass p of m on s. *)
ToRun(w, m, s, p) ==
    /\ HasJob(w) /\ job[w].method = m /\ job[w].state = s
    /\ p \in Passes(m)
    /\ p > job[w].pass \/ (p = job[w].pass /\ pc[w] = "run")

RunsOf(w) ==
    IF HasJob(w)
    THEN LET j == job[w] IN
         { <<j.method, j.state, p>> : p \in { q \in Passes(j.method) :
               q > j.pass \/ (q = j.pass /\ pc[w] = "run") } }
    ELSE {}

(* The deliveries it still has to make of the pass it has run. *)
OwedBy(w) ==
    IF pc[w] \in {"final", "push"}
    THEN { <<job[w].method, job[w].state, job[w].pass, job[w].final, n>> :
              n \in job[w].left }
    ELSE {}

Runs == UNION { RunsOf(w) : w \in Slot }
Owed == UNION { OwedBy(w) : w \in Slot }

-----------------------------------------------------------------------------
(* The inductive invariant behind the safety properties.                   *)

(* Mutex is held exactly by the task inside one of the two locked regions. *)
MutexInv == \A w \in Slot : pc[w] \in {"pick", "push"} <=> mutex = w

(* A task that exists belongs to the current class, and main thread is not *)
(* between two classes while one exists; a class ends with an empty map.   *)
MainInv ==
    /\ \A w \in Slot : pc[w] # "invalid" => cls[w] = cur
    /\ main \in {"next", "map", "finished"} => allFuturesInvalid
    /\ main \in {"next", "finished"} => keys = {}
    /\ main # "next" => cur # 0

(* A task works for the current class, on a state already marked complete. *)
JobInv ==
    \A w \in Slot : HasJob(w) =>
        /\ job[w] \in Job
        /\ job[w].method \in MethodsOf[cur]
        /\ job[w].state \in complete[job[w].method]
        /\ job[w].pass \in Passes(job[w].method)
        /\ job[w].left \subseteq MethodsOf[cur]
        /\ pc[w] # "run" => job[w].final \in OutcomesOf(job[w])

(* A method with states to take has a key; keys are methods of the class.  *)
KeysInv ==
    /\ \A m \in Method : incomplete[m] # {} => m \in keys
    /\ keys # {} => cur # 0 /\ keys \subseteq MethodsOf[cur]

SeedInv ==
    cur # 0 => \A n \in MethodsOf[cur] :
                  FirstState[cur][n] \in complete[n] \cup incomplete[n]

(* Outcome r of pass p of m on s has been handed over, or is about to be.  *)
Followed(m, s, p, r) ==
    \A n \in MethodsOf[cur] :
        \/ \E w \in Slot : <<m, s, p, r, n>> \in OwedBy(w)
        \/ Covers(complete[n] \cup incomplete[n], ChangeThis[n][r])

(* No consequence of a complete state is forgotten: a task has still to    *)
(* run the pass, or one of its outcomes is followed.                       *)
FollowInv ==
    cur # 0 =>
        \A m \in MethodsOf[cur] : \A s \in complete[m] : \A p \in Passes(m) :
            Outcomes[m][s][p] # {}
                => \/ \E w \in Slot : ToRun(w, m, s, p)
                   \/ \E r \in Outcomes[m][s][p] : Followed(m, s, p, r)

IndInv == TypeOK /\ MutexInv /\ MainInv /\ JobInv /\ KeysInv /\ SeedInv /\ FollowInv

(* What the results need besides: a state is known once, and by one task.  *)
Disjoint == \A m \in Method : complete[m] \cap incomplete[m] = {}

Unique ==
    \A v, w \in Slot :
        /\ HasJob(v) /\ HasJob(w)
        /\ job[v].method = job[w].method /\ job[v].state = job[w].state
        => v = w

(* The rows of the current class are issues of its complete states, and    *)
(* those of a pass are there unless a task has still to run it.            *)
IssueInv ==
    /\ \A i \in issues : i.record \in 1 .. cur
    /\ \A i \in issues : i.record = cur => i \in IssuesOf(cur, complete)
    /\ cur # 0 =>
        \A m \in MethodsOf[cur] : \A s \in complete[m] : \A p \in Passes(m) :
            Outcomes[m][s][p] # {} =>
                \/ \E w \in Slot : ToRun(w, m, s, p)
                \/ \A k \in Issue[m][s][p] :
                      [record |-> cur, method |-> m, kind |-> k] \in issues

(* Nothing is known but what an analysis that drops nothing could visit.   *)
ReachInv ==
    cur # 0 =>
        \A m \in MethodsOf[cur] : complete[m] \cup incomplete[m] \subseteq Possible[cur][m]

-----------------------------------------------------------------------------
Fixpoint == INSTANCE MethodFixpoint
    WITH class <- cur, finished <- main = "finished",
         todo <- incomplete, done <- complete, torun <- Runs, owed <- Owed

(* The threads implement the promise: every step of the driver is a step   *)
(* of MethodFixpoint or leaves its state alone.                            *)
ImplementsFixpoint == Fixpoint!Spec
=============================================================================
