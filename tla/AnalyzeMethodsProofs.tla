------------------------ MODULE AnalyzeMethodsProofs ------------------------
(***************************************************************************)
(* Proofs about AnalyzeMethods.  Each conjunct of the inductive invariant  *)
(* IndInv has a lemma of its own, with one step per action.                *)
(***************************************************************************)
EXTENDS AnalyzeMethods, TLAPS

(* Facts about the operators of ClassModel. *)
LEMMA ClassMethods ==
    ASSUME NEW c \in Class
    PROVE  /\ MethodsOf[c] \subseteq Method
           /\ \A n \in Method : FirstState[c][n] \in State
BY ClassModelAssumption

LEMMA PassRange == \A m : Passes(m) \subseteq 1 .. 2
BY DEF Passes, NumPasses

(* What is handed over is a state. *)
LEMMA NextStateType ==
    ASSUME NEW n \in Method, NEW x \in State
    PROVE  ChangeThis[n][x] \in State
BY ClassModelAssumption

LEMMA OutcomeType ==
    ASSUME NEW m \in Method, NEW s \in State, NEW p \in 1 .. 2
    PROVE  Outcomes[m][s][p] \subseteq State
BY ClassModelAssumption

(* A larger set covers more. *)
LEMMA CoversMonotone ==
    ASSUME NEW S, NEW T, NEW x, S \subseteq T, Covers(S, x)
    PROVE  Covers(T, x)
BY DEF Covers

LEMMA CoversMember ==
    ASSUME NEW S, NEW x \in State, x \in S
    PROVE  Covers(S, x)
BY ReflexiveAssumption DEF Covers


LEMMA InitInv == Init => IndInv
<1> SUFFICES ASSUME Init PROVE IndInv
  OBVIOUS
<1> USE DriverAssumption, ClassModelAssumption
<1>1. TypeOK
  <2>1. NoStates \in [Method -> SUBSET State]
    BY DEF NoStates
  <2>2. 1 \in Slot /\ 0 \in 0 .. NumClasses /\ 0 \in 0 .. NumSlots
    BY DEF Slot
  <2> QED BY <2>1, <2>2 DEF Init, TypeOK
<1>2. MutexInv
  BY DEF Init, MutexInv, Slot
<1>3. MainInv /\ JobInv /\ KeysInv
  BY DEF Init, MainInv, allFuturesInvalid, JobInv, HasJob, KeysInv, NoStates
<1>4. SeedInv /\ FollowInv
  BY DEF Init, SeedInv, FollowInv
<1> QED BY <1>1, <1>2, <1>3, <1>4 DEF IndInv

-----------------------------------------------------------------------------
(* While a task exists a class is under analysis, it is the task's class,  *)
(* and the main thread is in the loop of analyzeMethods.                   *)
LEMMA Busy ==
    ASSUME TypeOK, MainInv, NEW w \in Slot, pc[w] # "invalid"
    PROVE  /\ cur \in Class
           /\ cls[w] = cur
           /\ main \in {"futures", "sweep", "launch", "resweep"}
           /\ MethodsOf[cur] \subseteq Method
<1>1. ~allFuturesInvalid
  BY DEF allFuturesInvalid
<1>2. cur # 0 /\ main \notin {"next", "map", "finished"}
  BY <1>1 DEF MainInv
<1>3. cur \in Class
  BY <1>2, ClassModelAssumption DEF TypeOK, Class
<1> QED BY <1>2, <1>3, ClassMethods DEF TypeOK, MainInv

(* What NextPass makes of the task that calls it. *)
LEMMA NextPassEffect ==
    ASSUME TypeOK, NEW w \in Slot, job[w] \in Job, NextPass(w)
    PROVE  /\ \A v \in Slot : v # w => pc'[v] = pc[v] /\ job'[v] = job[v]
           /\ pc'[w] \in {"run", "ready"}
           /\ pc'[w] = "ready" => job'[w] = NoJob /\ job[w].pass >= NumPasses(job[w].method)
           /\ pc'[w] = "run" =>
                 /\ job'[w] \in Job
                 /\ job'[w].method = job[w].method
                 /\ job'[w].state = job[w].state
                 /\ job'[w].pass = job[w].pass + 1
                 /\ job'[w].pass \in Passes(job[w].method)
                 /\ job'[w].left = {}
           /\ DOMAIN pc' = Slot /\ DOMAIN job' = Slot
           /\ pc' \in [Slot -> {"invalid", "queued", "lock", "pick", "run", "final",
                               "push", "ready"}]
           /\ job' \in [Slot -> Job \cup {NoJob}]
<1>1. CASE job[w].pass < NumPasses(job[w].method)
  <2> DEFINE j == [method |-> job[w].method, state |-> job[w].state,
                   pass |-> job[w].pass + 1, final |-> Bottom, left |-> {}]
  <2>1. /\ j \in Job /\ j.method = job[w].method /\ j.state = job[w].state
        /\ j.pass = job[w].pass + 1 /\ j.left = {}
        /\ j.pass \in Passes(job[w].method)
    BY <1>1 DEF Job, Passes, NumPasses
  <2>2. job' = [job EXCEPT ![w] = j] /\ pc' = [pc EXCEPT ![w] = "run"]
    BY <1>1 DEF NextPass
  <2> HIDE DEF j
  <2> QED BY <2>1, <2>2 DEF TypeOK
<1>2. CASE ~(job[w].pass < NumPasses(job[w].method))
  <2>1. job' = [job EXCEPT ![w] = NoJob] /\ pc' = [pc EXCEPT ![w] = "ready"]
    BY <1>2 DEF NextPass
  <2>2. job[w].pass >= NumPasses(job[w].method)
    BY <1>2 DEF Job, NumPasses
  <2> QED BY <2>1, <2>2 DEF TypeOK
<1> QED BY <1>1, <1>2

(* What RunReport makes of the task: it holds one outcome, for all methods.*)
LEMMA ReportEffect ==
    ASSUME TypeOK, MainInv, NEW w \in Slot, job[w] \in Job, RunReport(w)
    PROVE  /\ cur \in Class /\ cls[w] = cur /\ MethodsOf[cur] \subseteq Method
           /\ \A v \in Slot : v # w => pc'[v] = pc[v] /\ job'[v] = job[v]
           /\ pc[w] = "run" /\ pc'[w] = "final"
           /\ job' \in [Slot -> Job \cup {NoJob}]
           /\ job'[w].method = job[w].method /\ job'[w].state = job[w].state
           /\ job'[w].pass = job[w].pass
           /\ \E r \in OutcomesOf(job[w]) :
                 /\ r \in State
                 /\ job'[w] = [method |-> job[w].method, state |-> job[w].state,
                               pass |-> job[w].pass, final |-> r,
                               left |-> MethodsOf[cur]]
                 /\ job'[w] \in Job
<1>1. /\ cur \in Class /\ cls[w] = cur /\ MethodsOf[cur] \subseteq Method
      /\ pc[w] = "run" /\ pc' = [pc EXCEPT ![w] = "final"]
  BY Busy DEF RunReport
<1>2. PICK r \in OutcomesOf(job[w]) :
         job' = [job EXCEPT ![w] = [method |-> @.method, state |-> @.state,
                                     pass |-> @.pass, final |-> r,
                                     left |-> MethodsOf[cls[w]]]]
  BY DEF RunReport
<1>3. r \in State
  BY OutcomeType DEF OutcomesOf, Job
<1> DEFINE j == [method |-> job[w].method, state |-> job[w].state,
                 pass |-> job[w].pass, final |-> r, left |-> MethodsOf[cur]]
<1>4. j \in Job
  BY <1>1, <1>3 DEF Job
<1>5. job' = [job EXCEPT ![w] = j]
  BY <1>1, <1>2 DEF TypeOK
<1>6. job'[w] = j
  BY <1>5 DEF TypeOK
<1>7. /\ \A v \in Slot : v # w => pc'[v] = pc[v] /\ job'[v] = job[v]
      /\ pc'[w] = "final" /\ job' \in [Slot -> Job \cup {NoJob}]
  <2> HIDE DEF j
  <2> QED BY <1>1, <1>4, <1>5 DEF TypeOK
<1>8. j.method = job[w].method /\ j.state = job[w].state /\ j.pass = job[w].pass
  OBVIOUS
<1> QED BY <1>1, <1>3, <1>4, <1>6, <1>7, <1>8

LEMMA TypeStep == IndInv /\ [Next]_vars => TypeOK'
<1> SUFFICES ASSUME IndInv, [Next]_vars PROVE TypeOK'
  OBVIOUS
<1> USE DEF TypeOK, IndInv, task, maps
<1>1. CASE BeginClass
  <2>1. cur + 1 \in Class /\ cur' = cur + 1 /\ cur' \in 0 .. NumClasses
    BY <1>1, ClassModelAssumption DEF BeginClass, Class
  <2>2. /\ keys' \subseteq Method
        /\ incomplete' \in [Method -> SUBSET State]
        /\ complete' \in [Method -> SUBSET State]
    BY <1>1, <2>1, ClassMethods DEF BeginClass, NoStates
  <2> QED BY <1>1, <2>1, <2>2 DEF BeginClass
<1>2. CASE Finish \/ TestFutures \/ TestMap \/ Sleep
  BY <1>2 DEF Finish, TestFutures, TestMap, Sleep
<1>3. CASE CheckFuture
  <2>1. scan' \in Slot
    BY <1>3, DriverAssumption DEF CheckFuture, Slot
  <2>2. pc' = pc \/ pc' = [pc EXCEPT ![scan] = "invalid"]
    BY <1>3 DEF CheckFuture
  <2>3. cls' = cls \/ cls' = [cls EXCEPT ![scan] = 0]
    BY <1>3 DEF CheckFuture
  <2>4. 0 \in 0 .. NumClasses
    BY ClassModelAssumption
  <2> QED BY <1>3, <2>1, <2>2, <2>3, <2>4 DEF CheckFuture
<1>4. ASSUME NEW w \in Slot, Launch(w) PROVE TypeOK'
  BY <1>4 DEF Launch
<1>5. ASSUME NEW w \in Slot, Task(w) PROVE TypeOK'
  <2>1. CASE Start(w)
    BY <2>1 DEF Start
  <2>2. CASE Lock(w)
    <3>1. w \in 0 .. NumSlots
      BY DriverAssumption DEF Slot
    <3> QED BY <2>2, <3>1 DEF Lock
  <2>3. 0 \in 0 .. NumSlots
    BY DriverAssumption
  <2>4. CASE PickNothing(w)
    BY <2>3, <2>4 DEF PickNothing
  <2>5. ASSUME NEW m \in Method, EraseKey(w, m) PROVE TypeOK'
    BY <2>3, <2>5 DEF EraseKey
  <2>6. ASSUME NEW m \in Method, NEW s \in State, TakeState(w, m, s) PROVE TypeOK'
    <3>1. [method |-> m, state |-> s, pass |-> 1, final |-> Bottom, left |-> {}] \in Job
      BY DEF Job
    <3> QED BY <2>3, <2>6, <3>1 DEF TakeState
  <2>7. HasJob(w) => job[w] \in Job
    BY DEF JobInv
  <2>8. CASE RunBottom(w)
    BY <2>7, <2>8, NextPassEffect DEF RunBottom, HasJob
  <2>9. CASE RunReport(w)
    <3>1. job[w] \in Job /\ cur \in Class /\ cls[w] = cur /\ MethodsOf[cur] \subseteq Method
      BY <2>7, <2>9, Busy DEF RunReport, HasJob
    <3>3. job' \in [Slot -> Job \cup {NoJob}] /\ pc' \in [Slot ->
             {"invalid", "queued", "lock", "pick", "run", "final", "push", "ready"}]
      BY <2>9, <3>1, ReportEffect DEF RunReport
    <3>4. Issue[job[w].method][job[w].state][job[w].pass] \subseteq IssueKind
      BY <3>1, ClassModelAssumption DEF Job
    <3>5. issues' \subseteq [record : Class, method : Method, kind : IssueKind]
      BY <2>9, <3>1, <3>4 DEF RunReport, Job
    <3> QED BY <2>9, <3>3, <3>5 DEF RunReport
  <2>10. ASSUME NEW n \in Method, PushFinal(w, n) PROVE TypeOK'
    <3>1. job[w] \in Job /\ job[w].final \in OutcomesOf(job[w])
      BY <2>10 DEF PushFinal, JobInv, HasJob
    <3> DEFINE x == ChangeThis[n][job[w].final]
    <3>2. x \in State
      BY <3>1, OutcomeType, NextStateType DEF Job, OutcomesOf
    <3>3. /\ incomplete' = incomplete \/ incomplete' = [incomplete EXCEPT ![n] = @ \cup {x}]
          /\ keys' = keys \/ keys' = keys \cup {n}
      BY <2>10 DEF PushFinal
    <3> HIDE DEF x
    <3>4. [job[w] EXCEPT !.left = @ \ {n}] \in Job
      BY <3>1 DEF Job
    <3>5. job' \in [Slot -> Job \cup {NoJob}]
      BY <2>10, <3>4 DEF PushFinal
    <3> QED BY <2>10, <3>2, <3>3, <3>5 DEF PushFinal
  <2>11. CASE UnlockFinal(w)
    BY <2>3, <2>7, <2>11, NextPassEffect DEF UnlockFinal, HasJob
  <2> QED BY <1>5, <2>1, <2>2, <2>4, <2>5, <2>6, <2>8, <2>9, <2>10, <2>11
          DEF Task, Pick, Run, Push
<1>6. CASE Exit \/ UNCHANGED vars
  BY <1>6 DEF Exit, vars
<1> QED BY <1>1, <1>2, <1>3, <1>4, <1>5, <1>6 DEF Next, Main

-----------------------------------------------------------------------------
LEMMA MutexStep == IndInv /\ [Next]_vars => MutexInv'
<1> SUFFICES ASSUME IndInv, [Next]_vars PROVE MutexInv'
  OBVIOUS
<1> USE DEF IndInv, TypeOK, MutexInv, task, maps
<1>1. CASE BeginClass \/ Finish \/ TestFutures \/ TestMap \/ Sleep
  BY <1>1 DEF BeginClass, Finish, TestFutures, TestMap, Sleep
<1>2. CASE CheckFuture
  BY <1>2 DEF CheckFuture
<1>3. ASSUME NEW w \in Slot, Launch(w) PROVE MutexInv'
  BY <1>3 DEF Launch
<1>4. ASSUME NEW w \in Slot, Task(w) PROVE MutexInv'
  <2>0. \A v \in Slot : v # 0
    BY DriverAssumption DEF Slot
  <2>1. CASE Start(w)
    BY <2>1 DEF Start
  <2>2. CASE Lock(w)
    BY <2>0, <2>2 DEF Lock
  <2>3. CASE PickNothing(w)
    BY <2>0, <2>3 DEF PickNothing
  <2>4. ASSUME NEW m \in Method, EraseKey(w, m) PROVE MutexInv'
    BY <2>0, <2>4 DEF EraseKey
  <2>5. ASSUME NEW m \in Method, NEW s \in State, TakeState(w, m, s) PROVE MutexInv'
    BY <2>0, <2>5 DEF TakeState
  <2>6. HasJob(w) => job[w] \in Job
    BY DEF JobInv
  <2>7. CASE RunBottom(w)
    BY <2>6, <2>7, NextPassEffect DEF RunBottom, HasJob
  <2>8. CASE RunReport(w)
    BY <2>8 DEF RunReport
  <2>9. ASSUME NEW n \in Method, PushFinal(w, n) PROVE MutexInv'
    BY <2>9 DEF PushFinal
  <2>10. CASE UnlockFinal(w)
    <3>1. /\ \A v \in Slot : v # w => pc'[v] = pc[v]
          /\ pc'[w] \in {"run", "ready"}
      BY <2>6, <2>10, NextPassEffect DEF UnlockFinal, HasJob
    <3>2. mutex = w /\ mutex' = 0
      BY <2>10 DEF UnlockFinal
    <3> QED BY <2>0, <3>1, <3>2
  <2> QED BY <1>4, <2>1, <2>2, <2>3, <2>4, <2>5, <2>7, <2>8, <2>9, <2>10
          DEF Task, Pick, Run, Push
<1>5. CASE Exit \/ UNCHANGED vars
  BY <1>5 DEF Exit, vars
<1> QED BY <1>1, <1>2, <1>3, <1>4, <1>5 DEF Next, Main

-----------------------------------------------------------------------------
LEMMA MainStep == IndInv /\ [Next]_vars => MainInv'
<1> SUFFICES ASSUME IndInv, [Next]_vars PROVE MainInv'
  OBVIOUS
<1> USE DEF IndInv, TypeOK, MainInv, allFuturesInvalid, task, maps
<1>1. CASE BeginClass
  BY <1>1 DEF BeginClass
<1>2. CASE Finish
  BY <1>2, ClassModelAssumption DEF Finish
<1>3. CASE TestFutures \/ TestMap \/ Sleep
  BY <1>3 DEF TestFutures, TestMap, Sleep
<1>4. CASE CheckFuture
  BY <1>4 DEF CheckFuture
<1>5. ASSUME NEW w \in Slot, Launch(w) PROVE MainInv'
  BY <1>5 DEF Launch
<1>6. ASSUME NEW w \in Slot, Task(w) PROVE MainInv'
  <2>1. HasJob(w) => job[w] \in Job
    BY DEF JobInv
  <2>2. /\ pc[w] # "invalid" /\ cur' = cur /\ main' = main /\ cls' = cls
        /\ \A v \in Slot : v # w => pc'[v] = pc[v]
    <3>1. CASE Start(w) \/ Lock(w)
      BY <3>1 DEF Start, Lock
    <3>2. CASE Pick(w)
      BY <3>2 DEF Pick, PickNothing, EraseKey, TakeState
    <3>3. CASE RunReport(w) \/ \E n \in Method : PushFinal(w, n)
      BY <3>3 DEF RunReport, PushFinal
    <3>4. CASE RunBottom(w) \/ UnlockFinal(w)
      BY <2>1, <3>4, NextPassEffect DEF RunBottom, UnlockFinal, HasJob
    <3> QED BY <1>6, <3>1, <3>2, <3>3, <3>4 DEF Task, Run, Push
  <2>3. main \in {"futures", "sweep", "launch", "resweep"} /\ cls[w] = cur /\ cur # 0
    BY <2>2, Busy DEF Class
  <2> QED BY <2>2, <2>3
<1>7. CASE Exit \/ UNCHANGED vars
  BY <1>7 DEF Exit, vars
<1> QED BY <1>1, <1>2, <1>3, <1>4, <1>5, <1>6, <1>7 DEF Next, Main

-----------------------------------------------------------------------------
(* A method with states to take always has a key, of the current class.    *)
LEMMA KeysStep == IndInv /\ [Next]_vars => KeysInv'
<1> SUFFICES ASSUME IndInv, [Next]_vars PROVE KeysInv'
  OBVIOUS
<1> USE DEF IndInv, TypeOK, KeysInv, task, maps
<1>1. CASE BeginClass
  <2>1. cur' \in Class
    BY <1>1, ClassModelAssumption DEF BeginClass, Class
  <2>2. cur' # 0 /\ keys' = MethodsOf[cur']
    BY <1>1, <2>1 DEF BeginClass, Class
  <2> QED BY <1>1, <2>2 DEF BeginClass
<1>2. CASE Finish \/ TestFutures \/ TestMap \/ Sleep \/ CheckFuture
  BY <1>2 DEF Finish, TestFutures, TestMap, Sleep, CheckFuture
<1>3. ASSUME NEW w \in Slot, Launch(w) PROVE KeysInv'
  BY <1>3 DEF Launch
<1>4. ASSUME NEW w \in Slot, Task(w) PROVE KeysInv'
  <2>1. CASE Start(w) \/ Lock(w) \/ PickNothing(w) \/ RunBottom(w) \/ RunReport(w)
             \/ UnlockFinal(w)
    BY <2>1 DEF Start, Lock, PickNothing, RunBottom, RunReport, UnlockFinal
  <2>2. ASSUME NEW m \in Method, EraseKey(w, m) PROVE KeysInv'
    BY <2>2 DEF EraseKey
  <2>3. ASSUME NEW m \in Method, NEW s \in State, TakeState(w, m, s) PROVE KeysInv'
    BY <2>3 DEF TakeState
  <2>4. ASSUME NEW n \in Method, PushFinal(w, n) PROVE KeysInv'
    <3>1. cur \in Class /\ n \in MethodsOf[cur]
      BY <2>4, Busy DEF PushFinal, JobInv, HasJob
    <3>2. cur # 0
      BY <3>1 DEF Class
    <3>3. /\ cur' = cur /\ keys \subseteq keys' /\ keys' \subseteq keys \cup {n}
          /\ \A m \in Method : m # n => incomplete'[m] = incomplete[m]
          /\ incomplete'[n] # incomplete[n] => n \in keys'
      BY <2>4 DEF PushFinal
    <3> QED BY <3>1, <3>2, <3>3
  <2> QED BY <1>4, <2>1, <2>2, <2>3, <2>4 DEF Task, Pick, Run, Push
<1>5. CASE Exit \/ UNCHANGED vars
  BY <1>5 DEF Exit, vars
<1> QED BY <1>1, <1>2, <1>3, <1>4, <1>5 DEF Next, Main

-----------------------------------------------------------------------------
LEMMA JobStep == IndInv /\ [Next]_vars => JobInv'
<1> SUFFICES ASSUME IndInv, [Next]_vars PROVE JobInv'
  OBVIOUS
<1> USE DEF IndInv, TypeOK, JobInv, HasJob, OutcomesOf, task, maps
<1>1. CASE BeginClass
  BY <1>1 DEF BeginClass, MainInv, allFuturesInvalid
<1>2. CASE Finish \/ TestFutures \/ TestMap \/ Sleep
  BY <1>2 DEF Finish, TestFutures, TestMap, Sleep
<1>3. CASE CheckFuture
  <2>1. \A v \in Slot : HasJob(v)' => pc'[v] = pc[v]
    BY <1>3 DEF CheckFuture
  <2> QED BY <1>3, <2>1 DEF CheckFuture
<1>4. ASSUME NEW w \in Slot, Launch(w) PROVE JobInv'
  BY <1>4 DEF Launch
<1>5. ASSUME NEW w \in Slot, Task(w) PROVE JobInv'
  <2>1. CASE Start(w)
    BY <2>1 DEF Start
  <2>2. CASE Lock(w)
    <3>1. \A v \in Slot : HasJob(v)' => HasJob(v) /\ (pc'[v] # "run" <=> pc[v] # "run")
      BY <2>2 DEF Lock
    <3> QED BY <2>2, <3>1 DEF Lock
  <2>3. CASE PickNothing(w)
    BY <2>3 DEF PickNothing
  <2>4. ASSUME NEW m \in Method, EraseKey(w, m) PROVE JobInv'
    BY <2>4 DEF EraseKey
  <2>5. ASSUME NEW m \in Method, NEW s \in State, TakeState(w, m, s) PROVE JobInv'
    <3> DEFINE j == [method |-> m, state |-> s, pass |-> 1, final |-> Bottom, left |-> {}]
    <3>1. /\ j \in Job /\ j.method = m /\ j.state = s /\ j.pass \in Passes(m)
          /\ j.left = {}
      BY DEF Job, Passes, NumPasses
    <3>2. m \in MethodsOf[cur]
      BY <2>5 DEF TakeState, KeysInv
    <3>3. /\ job' = [job EXCEPT ![w] = j] /\ pc' = [pc EXCEPT ![w] = "run"]
          /\ complete' = [complete EXCEPT ![m] = @ \cup {s}] /\ cur' = cur
      BY <2>5 DEF TakeState
    <3> HIDE DEF j
    <3>4. \A v \in Slot : HasJob(v) => job[v].state \in complete'[job[v].method]
      BY <3>3 DEF Job
    <3>5. s \in complete'[m]
      BY <3>3
    <3>6. job'[w] = j /\ pc'[w] = "run" /\ \A v \in Slot \ {w} : job'[v] = job[v] /\ pc'[v] = pc[v]
      BY <3>3
    <3>7. ASSUME NEW v \in Slot, HasJob(v)'
          PROVE  /\ job'[v] \in Job
                 /\ job'[v].method \in MethodsOf[cur]
                 /\ job'[v].state \in complete'[job'[v].method]
                 /\ job'[v].pass \in Passes(job'[v].method)
                 /\ job'[v].left \subseteq MethodsOf[cur]
                 /\ pc'[v] # "run" => job'[v].final \in OutcomesOf(job'[v])
      <4>1. CASE v = w
        BY <3>1, <3>2, <3>5, <3>6, <4>1
      <4>2. CASE v # w
        BY <3>4, <3>6, <3>7, <4>2
      <4> QED BY <4>1, <4>2
    <3> QED BY <3>3, <3>7
  <2>6. HasJob(w) => job[w] \in Job
    OBVIOUS
  <2>7. CASE RunBottom(w) \/ UnlockFinal(w)
    <3>1. CASE RunBottom(w)
      BY <2>6, <3>1, NextPassEffect DEF RunBottom
    <3>2. CASE UnlockFinal(w)
      BY <2>6, <3>2, NextPassEffect DEF UnlockFinal
    <3> QED BY <2>7, <3>1, <3>2
  <2>8. CASE RunReport(w)
    <3>1. job[w] \in Job /\ pc[w] = "run"
      BY <2>8 DEF RunReport
    <3>2. PICK r \in OutcomesOf(job[w]) :
             /\ job'[w] = [method |-> job[w].method, state |-> job[w].state,
                           pass |-> job[w].pass, final |-> r, left |-> MethodsOf[cur]]
             /\ job'[w] \in Job
      BY <2>8, <3>1, ReportEffect
    <3>3. \A v \in Slot : v # w => pc'[v] = pc[v] /\ job'[v] = job[v]
      BY <2>8, <3>1, ReportEffect
    <3>4. complete' = complete /\ cur' = cur
      BY <2>8 DEF RunReport
    <3> QED BY <3>1, <3>2, <3>3, <3>4
  <2>9. ASSUME NEW n \in Method, PushFinal(w, n) PROVE JobInv'
    <3> DEFINE j == [job[w] EXCEPT !.left = @ \ {n}]
    <3>1. /\ j \in Job /\ j.method = job[w].method /\ j.state = job[w].state
          /\ j.pass = job[w].pass /\ j.final = job[w].final /\ j.left \subseteq job[w].left
      BY <2>9 DEF PushFinal, Job
    <3>2. job' = [job EXCEPT ![w] = j] /\ pc' = pc /\ complete' = complete /\ cur' = cur
      BY <2>9 DEF PushFinal
    <3> HIDE DEF j
    <3>3. pc[w] = "push"
      BY <2>9 DEF PushFinal
    <3>4. \A v \in Slot : /\ v # w => job'[v] = job[v]
                          /\ v = w => job'[v] = j
      BY <3>2
    <3>5. /\ j.method \in MethodsOf[cur] /\ j.state \in complete[j.method]
          /\ j.pass \in Passes(j.method) /\ j.left \subseteq MethodsOf[cur]
          /\ j.final \in OutcomesOf(j)
      BY <3>1, <3>3
    <3> QED BY <3>1, <3>2, <3>4, <3>5
  <2> QED BY <1>5, <2>1, <2>2, <2>3, <2>4, <2>5, <2>7, <2>8, <2>9
          DEF Task, Pick, Run, Push
<1>6. CASE Exit \/ UNCHANGED vars
  BY <1>6 DEF Exit, vars
<1> QED BY <1>1, <1>2, <1>3, <1>4, <1>5, <1>6 DEF Next, Main

-----------------------------------------------------------------------------
(* The states known for a method, to take or taken, only grow while a      *)
(* class is under analysis.                                                *)
LEMMA KnownGrows ==
    ASSUME IndInv, [Next]_vars, ~BeginClass
    PROVE  /\ cur' = cur
           /\ \A m \in Method :
                 complete[m] \cup incomplete[m] \subseteq complete'[m] \cup incomplete'[m]
<1> USE DEF IndInv, TypeOK, task, maps
<1>1. CASE Finish \/ TestFutures \/ TestMap \/ Sleep \/ CheckFuture
  BY <1>1 DEF Finish, TestFutures, TestMap, Sleep, CheckFuture
<1>2. CASE \E w \in Slot : Launch(w)
  BY <1>2 DEF Launch
<1>3. CASE \E w \in Slot : Start(w) \/ Lock(w) \/ PickNothing(w) \/ Run(w) \/ UnlockFinal(w)
  BY <1>3 DEF Start, Lock, PickNothing, Run, RunBottom, RunReport, UnlockFinal
<1>4. CASE \E w \in Slot : \E m \in Method : EraseKey(w, m)
  BY <1>4 DEF EraseKey
<1>5. CASE \E w \in Slot : \E m \in Method : \E s \in State : TakeState(w, m, s)
  BY <1>5 DEF TakeState
<1>6. CASE \E w \in Slot : \E n \in Method : PushFinal(w, n)
  <2> SUFFICES ASSUME NEW w \in Slot, NEW n \in Method, PushFinal(w, n)
               PROVE  /\ cur' = cur /\ complete' = complete
                      /\ \A m \in Method : incomplete[m] \subseteq incomplete'[m]
    BY <1>6
  <2> DEFINE x == ChangeThis[n][job[w].final]
  <2>1. incomplete' = incomplete \/ incomplete' = [incomplete EXCEPT ![n] = @ \cup {x}]
    BY DEF PushFinal
  <2> HIDE DEF x
  <2> QED BY <2>1 DEF PushFinal
<1>7. CASE Exit \/ UNCHANGED vars
  BY <1>7 DEF Exit, vars
<1> QED BY <1>1, <1>2, <1>3, <1>4, <1>5, <1>6, <1>7 DEF Next, Main, Task, Pick, Push

LEMMA SeedStep == IndInv /\ [Next]_vars => SeedInv'
<1> SUFFICES ASSUME IndInv, [Next]_vars PROVE SeedInv'
  OBVIOUS
<1>1. CASE BeginClass
  <2>1. cur' = cur + 1 /\ cur' \in Class
    BY <1>1, ClassModelAssumption DEF BeginClass, Class, IndInv, TypeOK
  <2> QED BY <1>1, <2>1, ClassMethods DEF BeginClass, SeedInv
<1>2. CASE ~BeginClass
  <2>1. cur # 0 => MethodsOf[cur] \subseteq Method
    BY ClassMethods DEF IndInv, TypeOK, Class
  <2> QED BY <1>2, <2>1, KnownGrows DEF SeedInv, IndInv
<1> QED BY <1>1, <1>2

-----------------------------------------------------------------------------
(* What a step does to a task that has a job after it.                     *)
LEMMA TaskStep ==
    ASSUME IndInv, [Next]_vars, NEW w \in Slot, HasJob(w)'
    PROVE  \/ pc'[w] = pc[w] /\ job'[w] = job[w] /\ cls'[w] = cls[w]
           \/ \E m \in Method : \E s \in State : TakeState(w, m, s)
           \/ Lock(w) /\ pc[w] = "final"
           \/ RunBottom(w) \/ UnlockFinal(w) \/ RunReport(w)
           \/ \E n \in Method : PushFinal(w, n)
<1> USE DEF HasJob, task, maps
<1>0. TypeOK /\ \A v \in Slot : HasJob(v) => job[v] \in Job
  BY DEF IndInv, JobInv
<1>1. CASE BeginClass \/ Finish \/ TestFutures \/ TestMap \/ Sleep \/ Exit \/ UNCHANGED vars
  BY <1>1 DEF BeginClass, Finish, TestFutures, TestMap, Sleep, Exit, vars
<1>2. CASE CheckFuture
  BY <1>0, <1>2 DEF CheckFuture, TypeOK
<1>3. CASE \E v \in Slot : Launch(v)
  BY <1>0, <1>3 DEF Launch, TypeOK
<1>4. ASSUME NEW v \in Slot, v # w, Task(v)
      PROVE  pc'[w] = pc[w] /\ job'[w] = job[w] /\ cls'[w] = cls[w]
  <2>1. CASE Start(v) \/ Lock(v) \/ RunReport(v) \/ \E k \in Method : PushFinal(v, k)
    BY <1>0, <1>4, <2>1 DEF Start, Lock, RunReport, PushFinal, TypeOK
  <2>2. CASE Pick(v)
    BY <1>0, <1>4, <2>2 DEF Pick, PickNothing, EraseKey, TakeState, TypeOK
  <2>3. CASE RunBottom(v) \/ UnlockFinal(v)
    BY <1>0, <1>4, <2>3, NextPassEffect DEF RunBottom, UnlockFinal
  <2> QED BY <1>4, <2>1, <2>2, <2>3 DEF Task, Run, Push
<1>5. CASE Start(w) \/ PickNothing(w) \/ \E m \in Method : EraseKey(w, m)
  BY <1>0, <1>5 DEF Start, PickNothing, EraseKey, TypeOK
<1>6. CASE Lock(w)
  BY <1>0, <1>6 DEF Lock, TypeOK
<1> QED BY <1>1, <1>2, <1>3, <1>4, <1>5, <1>6 DEF Next, Main, Task, Pick, Run, Push

(* What NextPass leaves of a job.                                          *)
LEMMA NextPassJob ==
    ASSUME IndInv, NEW w \in Slot, RunBottom(w) \/ UnlockFinal(w), HasJob(w)'
    PROVE  /\ HasJob(w) /\ pc'[w] = "run" /\ cls' = cls
           /\ job[w] \in Job /\ job'[w] \in Job
           /\ job'[w].method = job[w].method /\ job'[w].state = job[w].state
           /\ job'[w].pass = job[w].pass + 1
<1>1. HasJob(w) /\ NextPass(w) /\ cls' = cls
  BY DEF RunBottom, UnlockFinal, HasJob
<1>2. TypeOK /\ job[w] \in Job
  BY <1>1 DEF IndInv, JobInv
<1>3. pc'[w] # "ready"
  BY DEF HasJob
<1> QED BY <1>1, <1>2, <1>3, NextPassEffect

(* Only TakeState gives a task another state.                              *)
LEMMA JobKept ==
    ASSUME IndInv, [Next]_vars, NEW w \in Slot, HasJob(w)'
    PROVE  \/ \E m \in Method : \E s \in State : TakeState(w, m, s)
           \/ /\ HasJob(w)
              /\ job'[w].method = job[w].method /\ job'[w].state = job[w].state
<1>0. TypeOK /\ (HasJob(w) => job[w] \in Job)
  BY DEF IndInv, JobInv
<1>1. CASE RunReport(w)
  <2>1. HasJob(w)
    BY <1>1 DEF RunReport, HasJob
  <2> QED BY <1>0, <1>1, <2>1, ReportEffect DEF IndInv
<1>2. CASE \E n \in Method : PushFinal(w, n)
  BY <1>0, <1>2 DEF PushFinal, HasJob, TypeOK, Job
<1>3. CASE RunBottom(w) \/ UnlockFinal(w)
  BY <1>3, NextPassJob
<1>4. CASE Lock(w) /\ pc[w] = "final"
  BY <1>4 DEF Lock, HasJob
<1>5. CASE pc'[w] = pc[w] /\ job'[w] = job[w] /\ cls'[w] = cls[w]
  BY <1>5 DEF HasJob
<1> QED BY <1>1, <1>2, <1>3, <1>4, <1>5, TaskStep

(* A pass that is still to be run stays so until it is run.                *)
LEMMA ToRunStep ==
    ASSUME IndInv, [Next]_vars, ~BeginClass, NEW w \in Slot,
           NEW m, NEW s, NEW p, ToRun(w, m, s, p)
    PROVE  \/ ToRun(w, m, s, p)'
           \/ (RunReport(w) \/ RunBottom(w)) /\ p = job[w].pass
<1> USE DEF task, maps
<1>0. /\ HasJob(w) /\ TypeOK /\ job[w] \in Job /\ p \in 1 .. 2 /\ p \in Passes(m)
      /\ m = job[w].method /\ s = job[w].state /\ job[w].pass \in Passes(m)
      /\ pc[w] \in {"run", "final", "push"}
  BY PassRange DEF ToRun, HasJob, IndInv, JobInv
<1>1. CASE Finish \/ TestFutures \/ TestMap \/ Sleep \/ Exit \/ UNCHANGED vars
  BY <1>1 DEF Finish, TestFutures, TestMap, Sleep, Exit, vars, ToRun, HasJob
<1>2. CASE CheckFuture
  BY <1>0, <1>2 DEF CheckFuture, TypeOK, ToRun, HasJob
<1>3. CASE \E v \in Slot : Launch(v)
  BY <1>0, <1>3 DEF Launch, TypeOK, ToRun, HasJob
<1>4. ASSUME NEW v \in Slot, v # w, Task(v)
      PROVE  ToRun(w, m, s, p)'
  <2>0. HasJob(v) => job[v] \in Job
    BY DEF IndInv, JobInv
  <2>1. CASE Start(v) \/ Lock(v) \/ RunReport(v) \/ \E k \in Method : PushFinal(v, k)
    BY <1>0, <1>4, <2>1 DEF Start, Lock, RunReport, PushFinal, TypeOK, ToRun, HasJob
  <2>2. CASE Pick(v)
    BY <1>0, <1>4, <2>2 DEF Pick, PickNothing, EraseKey, TakeState, TypeOK, ToRun, HasJob
  <2>3. CASE RunBottom(v) \/ UnlockFinal(v)
    <3>1. pc'[w] = pc[w] /\ job'[w] = job[w]
      BY <1>0, <1>4, <2>0, <2>3, NextPassEffect DEF RunBottom, UnlockFinal, HasJob
    <3> QED BY <3>1 DEF ToRun, HasJob
  <2> QED BY <1>4, <2>1, <2>2, <2>3 DEF Task, Run, Push
<1>5. CASE Start(w) \/ Pick(w)
  BY <1>0, <1>5 DEF Start, Pick, PickNothing, EraseKey, TakeState
<1>6. CASE Lock(w)
  BY <1>0, <1>6 DEF Lock, TypeOK, ToRun, HasJob
<1>7. CASE (RunBottom(w) \/ UnlockFinal(w)) /\ ~(RunBottom(w) /\ p = job[w].pass)
  <2>1. NextPass(w)
    BY <1>7 DEF RunBottom, UnlockFinal
  <2>2. p > job[w].pass
    BY <1>0, <1>7 DEF RunBottom, UnlockFinal, ToRun, Job
  <2>3. pc'[w] # "ready"
    BY <1>0, <2>1, <2>2, NextPassEffect DEF Passes, NumPasses, Job
  <2>4. /\ pc'[w] = "run" /\ job'[w].method = m /\ job'[w].state = s
        /\ job'[w].pass = job[w].pass + 1
    BY <1>0, <2>1, <2>3, NextPassEffect
  <2>5. p > job'[w].pass \/ p = job'[w].pass
    BY <1>0, <2>2, <2>4 DEF Job
  <2> QED BY <2>4, <2>5 DEF ToRun, HasJob
<1>8. CASE RunReport(w)
  <2>1. /\ job'[w].method = m /\ job'[w].state = s /\ job'[w].pass = job[w].pass
        /\ pc'[w] = "final"
    BY <1>0, <1>8, ReportEffect DEF IndInv
  <2> QED BY <1>8, <2>1 DEF ToRun, HasJob
<1>9. CASE \E n \in Method : PushFinal(w, n)
  <2>1. /\ job'[w].method = m /\ job'[w].state = s /\ job'[w].pass = job[w].pass
        /\ pc'[w] = pc[w]
    BY <1>0, <1>9 DEF PushFinal, TypeOK, Job
  <2> QED BY <2>1 DEF ToRun, HasJob
<1>10. CASE RunBottom(w) /\ p = job[w].pass
  BY <1>10
<1> QED BY <1>10, <1>1, <1>2, <1>3, <1>4, <1>5, <1>6, <1>7, <1>8, <1>9
        DEF Next, Main, Task, Run, Push

-----------------------------------------------------------------------------
(* w still has to hand outcome r of pass p of m on s over to n. *)
Owes(w, m, s, p, r, n) ==
    /\ pc[w] \in {"final", "push"}
    /\ m = job[w].method /\ s = job[w].state /\ p = job[w].pass
    /\ r = job[w].final /\ n \in job[w].left

LEMMA OwesIsOwed ==
    ASSUME NEW w, NEW m, NEW s, NEW p, NEW r, NEW n
    PROVE  /\ <<m, s, p, r, n>> \in OwedBy(w) <=> Owes(w, m, s, p, r, n)
           /\ (<<m, s, p, r, n>> \in OwedBy(w))' <=> Owes(w, m, s, p, r, n)'
<1>1. <<m, s, p, r, n>> \in OwedBy(w) <=> Owes(w, m, s, p, r, n)
  BY DEF OwedBy, Owes
<1>2. (<<m, s, p, r, n>> \in OwedBy(w))' <=> Owes(w, m, s, p, r, n)'
  BY DEF OwedBy, Owes
<1> QED BY <1>1, <1>2

(* A debt is paid only by pushing the state to the method it is owed to.   *)
LEMMA DebtStep ==
    ASSUME IndInv, [Next]_vars, ~BeginClass,
           NEW w \in Slot, NEW m, NEW s, NEW p, NEW r, NEW n, Owes(w, m, s, p, r, n)
    PROVE  Owes(w, m, s, p, r, n)' \/ PushFinal(w, n)
<1> USE DEF task, maps
<1>0. /\ TypeOK /\ HasJob(w) /\ job[w] \in Job /\ pc[w] \in {"final", "push"}
      /\ job[w].left # {}
  BY DEF Owes, HasJob, IndInv, JobInv
<1>1. CASE Finish \/ TestFutures \/ TestMap \/ Sleep \/ Exit \/ UNCHANGED vars
  BY <1>1 DEF Finish, TestFutures, TestMap, Sleep, Exit, vars, Owes
<1>2. CASE CheckFuture
  BY <1>0, <1>2 DEF CheckFuture, TypeOK, Owes
<1>3. CASE \E v \in Slot : Launch(v)
  BY <1>0, <1>3 DEF Launch, TypeOK, Owes
<1>4. ASSUME NEW v \in Slot, v # w, Task(v)
      PROVE  Owes(w, m, s, p, r, n)'
  <2>0. HasJob(v) => job[v] \in Job
    BY DEF IndInv, JobInv
  <2>1. CASE Start(v) \/ Lock(v) \/ \E k \in Method : PushFinal(v, k)
    BY <1>0, <1>4, <2>1 DEF Start, Lock, PushFinal, TypeOK, Owes
  <2>2. CASE Pick(v)
    BY <1>0, <1>4, <2>2 DEF Pick, PickNothing, EraseKey, TakeState, TypeOK, Owes
  <2>3. CASE RunBottom(v) \/ UnlockFinal(v)
    <3>1. pc'[w] = pc[w] /\ job'[w] = job[w]
      BY <1>0, <1>4, <2>0, <2>3, NextPassEffect DEF RunBottom, UnlockFinal, HasJob
    <3> QED BY <3>1 DEF Owes
  <2>4. CASE RunReport(v)
    <3>1. pc'[w] = pc[w] /\ job'[w] = job[w]
      BY <1>4, <2>0, <2>4, ReportEffect DEF RunReport, HasJob, IndInv
    <3> QED BY <3>1 DEF Owes
  <2> QED BY <1>4, <2>1, <2>2, <2>3, <2>4 DEF Task, Run, Push
<1>5. ~Start(w) /\ ~Pick(w) /\ ~Run(w) /\ ~UnlockFinal(w)
  BY <1>0 DEF Start, Pick, PickNothing, EraseKey, TakeState, Run, RunBottom, RunReport,
     UnlockFinal
<1>6. CASE Lock(w)
  BY <1>0, <1>6 DEF Lock, TypeOK, Owes
<1>7. ASSUME NEW k \in Method, k # n, PushFinal(w, k)
      PROVE  Owes(w, m, s, p, r, n)'
  <2>1. /\ job'[w].method = job[w].method /\ job'[w].state = job[w].state
        /\ job'[w].pass = job[w].pass /\ job'[w].final = job[w].final
        /\ job'[w].left = job[w].left \ {k} /\ pc' = pc
    BY <1>0, <1>7 DEF PushFinal, TypeOK, Job
  <2> QED BY <1>7, <2>1 DEF Owes
<1> QED BY <1>1, <1>2, <1>3, <1>4, <1>5, <1>6, <1>7 DEF Next, Main, Task, Push

(* What PushFinal pushes is an outcome, of a method of the class.          *)
LEMMA Pushed ==
    ASSUME IndInv, NEW w \in Slot, NEW n \in Method, PushFinal(w, n)
    PROVE  LET j == job[w] x == ChangeThis[n][job[w].final]
           IN  /\ cur \in Class /\ cls[w] = cur /\ MethodsOf[cur] \subseteq Method
               /\ pc[w] = "push" /\ j \in Job
               /\ j.method \in MethodsOf[cur] /\ n \in MethodsOf[cur]
               /\ j.state \in complete[j.method]
               /\ j.pass \in Passes(j.method)
               /\ j.final \in Outcomes[j.method][j.state][j.pass]
               /\ j.final \in State /\ x \in State
               /\ incomplete' = IF Covers(complete[n] \cup incomplete[n], x) THEN incomplete
                                ELSE [incomplete EXCEPT ![n] = @ \cup {x}]
               /\ complete' = complete /\ cur' = cur
<1> DEFINE j == job[w]
           x == ChangeThis[n][job[w].final]
<1>1. pc[w] = "push" /\ n \in j.left
  BY DEF PushFinal
<1>2. /\ j \in Job /\ j.method \in MethodsOf[cur] /\ j.state \in complete[j.method]
      /\ j.pass \in Passes(j.method) /\ j.left \subseteq MethodsOf[cur]
      /\ j.final \in Outcomes[j.method][j.state][j.pass]
  BY <1>1 DEF IndInv, JobInv, HasJob, OutcomesOf
<1>3. cur \in Class /\ cls[w] = cur /\ MethodsOf[cur] \subseteq Method
  BY <1>1, Busy DEF IndInv
<1>4. j.final \in State /\ x \in State
  BY <1>2, OutcomeType, NextStateType DEF Job
<1>5. incomplete' = IF Covers(complete[n] \cup incomplete[n], x) THEN incomplete
                    ELSE [incomplete EXCEPT ![n] = @ \cup {x}]
  <2>1. Covers(complete[n] \cup incomplete[n], x)
           <=> Covers(complete[n], x) \/ Covers(incomplete[n], x)
    BY DEF Covers
  <2>2. incomplete' = IF Covers(complete[n], x) \/ Covers(incomplete[n], x) THEN incomplete
                      ELSE [incomplete EXCEPT ![n] = @ \cup {x}]
    BY DEF PushFinal
  <2> HIDE DEF x
  <2> QED BY <2>1, <2>2
<1>6. complete' = complete /\ cur' = cur
  BY DEF PushFinal
<1> QED BY <1>1, <1>2, <1>3, <1>4, <1>5, <1>6

(* What a push hands over is known to the method afterwards, or redundant. *)
LEMMA PushCovers ==
    ASSUME IndInv, NEW w \in Slot, NEW n \in Method, PushFinal(w, n)
    PROVE  Covers(complete'[n] \cup incomplete'[n], ChangeThis[n][job[w].final])
<1> DEFINE x == ChangeThis[n][job[w].final]
<1>1. /\ x \in State /\ complete' = complete
      /\ incomplete' = IF Covers(complete[n] \cup incomplete[n], x) THEN incomplete
                       ELSE [incomplete EXCEPT ![n] = @ \cup {x}]
  BY Pushed
<1> HIDE DEF x
<1>2. CASE Covers(complete[n] \cup incomplete[n], x)
  BY <1>1, <1>2 DEF x
<1>3. CASE ~Covers(complete[n] \cup incomplete[n], x)
  <2>1. x \in complete'[n] \cup incomplete'[n]
    BY <1>1, <1>3 DEF IndInv, TypeOK
  <2> QED BY <1>1, <2>1, CoversMember DEF x
<1> QED BY <1>2, <1>3

LEMMA FollowStep == IndInv /\ [Next]_vars => FollowInv'
<1> SUFFICES ASSUME IndInv, [Next]_vars PROVE FollowInv'
  OBVIOUS
<1>0. TypeOK
  BY DEF IndInv
<1>1. CASE BeginClass
  <2>1. cur' = cur + 1 /\ cur' \in Class /\ complete' = NoStates
    BY <1>0, <1>1, ClassModelAssumption DEF BeginClass, Class, TypeOK
  <2>2. \A m \in MethodsOf[cur'] : complete'[m] = {}
    BY <2>1, ClassMethods DEF NoStates
  <2> QED BY <2>2 DEF FollowInv
<1>2. CASE ~BeginClass
  <2>0. cur' = cur
    BY <1>2, KnownGrows
  <2> SUFFICES ASSUME cur # 0, NEW m \in MethodsOf[cur],
                      NEW s \in complete'[m], NEW p \in Passes(m),
                      Outcomes[m][s][p] # {}
               PROVE  \/ \E w \in Slot : ToRun(w, m, s, p)'
                      \/ \E r \in Outcomes[m][s][p] : Followed(m, s, p, r)'
    BY <2>0 DEF FollowInv
  <2>1. MethodsOf[cur] \subseteq Method /\ p \in 1 .. 2
    BY <1>0, ClassMethods, PassRange DEF TypeOK, Class
  <2>2. CASE s \in complete[m]
    <3>1. ASSUME NEW w \in Slot, ToRun(w, m, s, p), ~ToRun(w, m, s, p)'
          PROVE  \E r \in Outcomes[m][s][p] : Followed(m, s, p, r)'
      <4>1. /\ RunReport(w) \/ RunBottom(w)
            /\ p = job[w].pass /\ m = job[w].method /\ s = job[w].state
        BY <1>2, <3>1, ToRunStep DEF ToRun
      <4>2. RunReport(w) /\ OutcomesOf(job[w]) = Outcomes[m][s][p]
        BY <2>2, <4>1 DEF RunBottom, OutcomesOf
      <4>3. job[w] \in Job /\ MainInv
        BY <3>1 DEF ToRun, IndInv, JobInv
      <4>4. PICK r \in Outcomes[m][s][p] :
               job'[w] = [method |-> m, state |-> s, pass |-> p, final |-> r,
                          left |-> MethodsOf[cur]]
        BY <1>0, <4>1, <4>2, <4>3, ReportEffect
      <4>5. pc'[w] = "final"
        BY <1>0, <4>2, <4>3, ReportEffect
      <4>6. \A n \in MethodsOf[cur] : Owes(w, m, s, p, r, n)'
        BY <4>4, <4>5 DEF Owes
      <4>7. Followed(m, s, p, r)'
        BY <2>0, <4>6, OwesIsOwed DEF Followed
      <4> QED BY <4>7
    <3>2. ASSUME NEW r \in Outcomes[m][s][p], Followed(m, s, p, r)
          PROVE  Followed(m, s, p, r)'
      <4> SUFFICES ASSUME NEW n \in MethodsOf[cur]
                   PROVE  \/ \E w \in Slot : Owes(w, m, s, p, r, n)'
                          \/ Covers(complete'[n] \cup incomplete'[n], ChangeThis[n][r])
        BY <2>0, OwesIsOwed DEF Followed
      <4>1. \/ \E w \in Slot : Owes(w, m, s, p, r, n)
            \/ Covers(complete[n] \cup incomplete[n], ChangeThis[n][r])
        BY <3>2, OwesIsOwed DEF Followed
      <4>2. ASSUME NEW w \in Slot, Owes(w, m, s, p, r, n), ~Owes(w, m, s, p, r, n)'
            PROVE  Covers(complete'[n] \cup incomplete'[n], ChangeThis[n][r])
        <5>1. PushFinal(w, n)
          BY <1>2, <4>2, DebtStep
        <5>2. r = job[w].final
          BY <4>2 DEF Owes
        <5> QED BY <2>1, <5>1, <5>2, PushCovers
      <4>3. CASE Covers(complete[n] \cup incomplete[n], ChangeThis[n][r])
        BY <1>2, <2>1, <4>3, KnownGrows, CoversMonotone
      <4> QED BY <4>1, <4>2, <4>3
    <3>3. \/ \E w \in Slot : ToRun(w, m, s, p)
          \/ \E r \in Outcomes[m][s][p] : Followed(m, s, p, r)
      BY <2>2 DEF IndInv, FollowInv
    <3> QED BY <3>1, <3>2, <3>3
  <2>3. CASE s \notin complete[m]
    <3>1. PICK w \in Slot, a \in Method, t \in State : TakeState(w, a, t)
      BY <1>2, <2>3 DEF Next, Main, Finish, TestFutures, TestMap, CheckFuture, Launch,
         Sleep, Task, Start, Lock, Pick, PickNothing, EraseKey, Run, RunBottom,
         RunReport, Push, PushFinal, UnlockFinal, Exit, vars, maps
    <3>2. a = m /\ t = s
      BY <1>0, <2>1, <2>3, <3>1 DEF TakeState, TypeOK
    <3>3. /\ job'[w] = [method |-> m, state |-> s, pass |-> 1,
                        final |-> Bottom, left |-> {}]
          /\ pc'[w] = "run"
      BY <1>0, <3>1, <3>2 DEF TakeState, TypeOK
    <3>4. ToRun(w, m, s, p)'
      BY <2>1, <3>3 DEF ToRun, HasJob
    <3> QED BY <3>4
  <2> QED BY <2>2, <2>3
<1> QED BY <1>1, <1>2

-----------------------------------------------------------------------------
LEMMA StepInv == IndInv /\ [Next]_vars => IndInv'
BY TypeStep, MutexStep, MainStep, JobStep, KeysStep, SeedStep, FollowStep DEF IndInv

LEMMA InvInductive == Spec => []IndInv
BY InitInv, StepInv, PTL DEF Spec

(* The variables keep their types: no task runs a pass that does not exist *)
(* or works on something that is not a state of a method.                  *)
THEOREM TypeCorrect == Spec => []TypeOK
<1>1. IndInv => TypeOK
  BY DEF IndInv
<1> QED BY InvInductive, <1>1, PTL

(* Two tasks are never inside the locked regions of iteration and          *)
(* handleFinalState at once.                                               *)
THEOREM MutualExclusion ==
    Spec => [](\A v, w \in Slot : pc[v] \in {"pick", "push"} /\ pc[w] \in {"pick", "push"}
                                   => v = w)
<1>1. IndInv => \A v, w \in Slot :
                   pc[v] \in {"pick", "push"} /\ pc[w] \in {"pick", "push"} => v = w
  BY DEF IndInv, MutexInv
<1> QED BY InvInductive, <1>1, PTL

(* For any number of slots, pool threads, classes, methods and states, and *)
(* any analysis: when a class ends its complete states are closed.         *)
THEOREM ReachesFixpoint == Spec => []FixpointReached
<1>1. IndInv => FixpointReached
  <2> SUFFICES ASSUME IndInv, ClassEnded PROVE ClosedFor(cur, complete)
    BY DEF FixpointReached
  <2>1. cur # 0 /\ allFuturesInvalid /\ keys = {}
    BY DEF ClassEnded, IndInv, MainInv
  <2>2. MethodsOf[cur] \subseteq Method
    BY <2>1, ClassMethods DEF IndInv, TypeOK, Class
  <2>3. \A m \in MethodsOf[cur] : incomplete[m] = {}
    BY <2>1, <2>2 DEF IndInv, KeysInv
  <2>4. \A w \in Slot : OwedBy(w) = {} /\ \A m, s, p : ~ToRun(w, m, s, p)
    BY <2>1 DEF allFuturesInvalid, OwedBy, ToRun, HasJob
  <2>5. \A n \in MethodsOf[cur] : complete[n] \cup incomplete[n] = complete[n]
    BY <2>3
  <2>6. Seeded(cur, complete)
    BY <2>1, <2>5 DEF IndInv, SeedInv, Seeded
  <2>7. ASSUME NEW m \in MethodsOf[cur], NEW s \in complete[m], NEW p \in Passes(m),
               Outcomes[m][s][p] # {}
        PROVE  \E r \in Outcomes[m][s][p] : Absorbs(cur, complete, r)
    <3>1. PICK r \in Outcomes[m][s][p] : Followed(m, s, p, r)
      BY <2>1, <2>4, <2>7 DEF IndInv, FollowInv
    <3>2. \A n \in MethodsOf[cur] : Covers(complete[n], ChangeThis[n][r])
      BY <2>4, <2>5, <3>1 DEF Followed
    <3> QED BY <3>2 DEF Absorbs
  <2> QED BY <2>6, <2>7 DEF ClosedFor
<1> QED BY InvInductive, <1>1, PTL

(* The class changes, and the connection is closed, only when no task      *)
(* exists, so no task refers to a class that is gone.                      *)
THEOREM SwitchesAlone == Spec => ClassSwitchAlone
<1>1. IndInv /\ [Next]_vars
        => [cur' # cur \/ (main' = "finished" /\ main # "finished")
              => allFuturesInvalid]_vars
  <2> SUFFICES ASSUME IndInv, [Next]_vars,
                      cur' # cur \/ (main' = "finished" /\ main # "finished")
               PROVE  allFuturesInvalid
    OBVIOUS
  <2>1. main = "next"
    BY KnownGrows DEF Next, Main, BeginClass, Finish, TestFutures, TestMap, CheckFuture,
       Launch, Sleep, Task, Start, Lock, Pick, PickNothing, EraseKey, TakeState, Run,
       RunBottom, RunReport, Push, PushFinal, UnlockFinal, Exit, vars
  <2> QED BY <2>1 DEF IndInv, MainInv
<1> QED BY InvInductive, <1>1, PTL DEF Spec, ClassSwitchAlone
-----------------------------------------------------------------------------
(* What follows from IndInv: each state is taken once, the threads         *)
(* implement MethodFixpoint, and the rows written for a class are the      *)
(* issues of its fixpoint, whatever the schedule.                          *)

(* Only three steps change the maps. *)
LEMMA MapsStep ==
    ASSUME [Next]_vars
    PROVE  \/ BeginClass
           \/ \E w \in Slot : \E m \in Method : \E s \in State : TakeState(w, m, s)
           \/ \E w \in Slot : \E n \in Method : PushFinal(w, n)
           \/ incomplete' = incomplete /\ complete' = complete
BY DEF Next, Main, Finish, TestFutures, TestMap, CheckFuture, Launch, Sleep, Task, Start,
       Lock, Pick, PickNothing, EraseKey, Run, RunBottom, RunReport, Push, UnlockFinal,
       Exit, vars, maps

-----------------------------------------------------------------------------
(* A state is not taken and to be taken at once: it is pushed only if no   *)
(* state taken covers it, and a state covers itself.                       *)
LEMMA DisjointStep == IndInv /\ Disjoint /\ [Next]_vars => Disjoint'
<1> SUFFICES ASSUME IndInv, Disjoint, [Next]_vars PROVE Disjoint'
  OBVIOUS
<1> USE DEF Disjoint
<1>0. TypeOK
  BY DEF IndInv
<1>1. CASE BeginClass
  BY <1>1 DEF BeginClass, NoStates
<1>2. ASSUME NEW w \in Slot, NEW m \in Method, NEW s \in State, TakeState(w, m, s)
      PROVE  Disjoint'
  BY <1>0, <1>2 DEF TakeState, TypeOK
<1>3. ASSUME NEW w \in Slot, NEW n \in Method, PushFinal(w, n)
      PROVE  Disjoint'
  <2> DEFINE x == ChangeThis[n][job[w].final]
  <2>1. /\ x \in State /\ complete' = complete
        /\ incomplete' = IF Covers(complete[n] \cup incomplete[n], x) THEN incomplete
                         ELSE [incomplete EXCEPT ![n] = @ \cup {x}]
    BY <1>3, Pushed
  <2> HIDE DEF x
  <2>2. CASE Covers(complete[n] \cup incomplete[n], x)
    BY <2>1, <2>2
  <2>3. CASE ~Covers(complete[n] \cup incomplete[n], x)
    <3>1. x \notin complete[n]
      BY <2>1, <2>3, CoversMember, CoversMonotone
    <3> QED BY <1>0, <2>1, <2>3, <3>1 DEF TypeOK
  <2> QED BY <2>2, <2>3
<1>4. CASE incomplete' = incomplete /\ complete' = complete
  BY <1>4
<1> QED BY <1>1, <1>2, <1>3, <1>4, MapsStep

(* An initial state of a method is analysed once per class, in whatever    *)
(* order tasks take states and push them.                                  *)
THEOREM TakesOnce == Spec => TakenOnce
<1>1. Init => Disjoint
  BY DEF Init, Disjoint, NoStates
<1>2. IndInv /\ Disjoint /\ [Next]_vars
        => [cur' = cur => \A m \in Method : /\ complete[m] \subseteq complete'[m]
                                            /\ complete'[m] \cap incomplete'[m] = {}]_vars
  <2> SUFFICES ASSUME IndInv, Disjoint, [Next]_vars, cur' = cur
               PROVE  \A m \in Method : /\ complete[m] \subseteq complete'[m]
                                        /\ complete'[m] \cap incomplete'[m] = {}
    OBVIOUS
  <2>1. Disjoint'
    BY DisjointStep
  <2>2. ~BeginClass
    BY DEF BeginClass, IndInv, TypeOK
  <2>3. \A m \in Method : complete[m] \subseteq complete'[m]
    BY <2>2, MapsStep DEF TakeState, PushFinal, IndInv, TypeOK
  <2> QED BY <2>1, <2>3 DEF Disjoint
<1> QED BY <1>1, <1>2, InvInductive, DisjointStep, PTL DEF Spec, TakenOnce

-----------------------------------------------------------------------------
(* No two tasks work on the same state of the same method: a state taken   *)
(* was not taken before.                                                   *)
LEMMA UniqueStep == IndInv /\ Disjoint /\ Unique /\ [Next]_vars => Unique'
<1> SUFFICES ASSUME IndInv, Disjoint, Unique, [Next]_vars,
                    NEW v \in Slot, NEW w \in Slot, HasJob(v)', HasJob(w)',
                    job'[v].method = job'[w].method, job'[v].state = job'[w].state
             PROVE  v = w
  BY DEF Unique
<1> DEFINE Took(u) == \E m \in Method : \E s \in State : TakeState(u, m, s)
<1>1. ASSUME NEW a \in Slot, NEW b \in Slot, Took(a), HasJob(b)', a # b,
             job'[a].method = job'[b].method, job'[a].state = job'[b].state
      PROVE  FALSE
  <2>1. PICK m \in Method, s \in State : TakeState(a, m, s)
    BY <1>1
  <2>2. job'[a].method = m /\ job'[a].state = s /\ s \in incomplete[m] /\ job'[b] = job[b]
    BY <1>1, <2>1 DEF TakeState, IndInv, TypeOK
  <2>3. ~Took(b)
    BY <1>1, <2>1 DEF TakeState, IndInv, TypeOK
  <2>4. HasJob(b)
    BY <1>1, <2>3, JobKept
  <2>5. job[b].state \in complete[job[b].method]
    BY <2>4 DEF IndInv, JobInv
  <2> QED BY <1>1, <2>2, <2>5 DEF Disjoint
<1>2. CASE Took(v) \/ Took(w)
  BY <1>1, <1>2
<1>3. CASE ~Took(v) /\ ~Took(w)
  BY <1>3, JobKept DEF Unique
<1> QED BY <1>2, <1>3

-----------------------------------------------------------------------------
(* A debt arises only when a pass is reported.                             *)
LEMMA NoNewDebt ==
    ASSUME IndInv, [Next]_vars, NEW w \in Slot, NEW m, NEW s, NEW p, NEW r, NEW n,
           Owes(w, m, s, p, r, n)'
    PROVE  Owes(w, m, s, p, r, n) \/ RunReport(w)
<1>0. /\ HasJob(w)' /\ pc'[w] \in {"final", "push"} /\ TypeOK
      /\ HasJob(w) => job[w] \in Job
  BY DEF Owes, HasJob, IndInv, JobInv
<1>1. CASE pc'[w] = pc[w] /\ job'[w] = job[w] /\ cls'[w] = cls[w]
  BY <1>1 DEF Owes
<1>2. CASE Lock(w) /\ pc[w] = "final"
  BY <1>0, <1>2 DEF Lock, Owes, TypeOK
<1>3. ~(RunBottom(w) \/ UnlockFinal(w))
  BY <1>0, NextPassJob
<1>4. ~\E a \in Method : \E t \in State : TakeState(w, a, t)
  BY <1>0 DEF TakeState, TypeOK
<1>5. ASSUME NEW k \in Method, PushFinal(w, k)
      PROVE  Owes(w, m, s, p, r, n)
  <2>1. /\ pc[w] = "push" /\ job'[w].method = job[w].method /\ job'[w].state = job[w].state
        /\ job'[w].pass = job[w].pass /\ job'[w].final = job[w].final
        /\ job'[w].left \subseteq job[w].left
    BY <1>0, <1>5 DEF PushFinal, HasJob, TypeOK, Job
  <2> QED BY <2>1 DEF Owes
<1> QED BY <1>0, <1>1, <1>2, <1>3, <1>4, <1>5, TaskStep

(* A pass is still to be run after a step only if it was before, unless    *)
(* its state has just been taken; a pass that is run is no longer.         *)
LEMMA NoNewRun ==
    ASSUME IndInv, [Next]_vars, NEW w \in Slot, NEW m, NEW s, NEW p,
           ToRun(w, m, s, p)'
    PROVE  \/ \E a \in Method : \E t \in State : TakeState(w, a, t)
           \/ /\ ToRun(w, m, s, p)
              /\ (RunReport(w) \/ RunBottom(w)) => p # job[w].pass
<1>0. /\ HasJob(w)' /\ p \in 1 .. 2 /\ TypeOK /\ MainInv
      /\ HasJob(w) => job[w] \in Job
  BY PassRange DEF ToRun, IndInv, JobInv
<1>1. CASE /\ pc'[w] = pc[w] /\ job'[w] = job[w] /\ cls'[w] = cls[w]
           /\ ~RunReport(w) /\ ~RunBottom(w)
  BY <1>1 DEF ToRun, HasJob
<1>2. CASE Lock(w) /\ pc[w] = "final"
  BY <1>0, <1>2 DEF Lock, ToRun, HasJob, TypeOK, RunReport, RunBottom
<1>3. CASE RunBottom(w) \/ UnlockFinal(w)
  <2>1. /\ HasJob(w) /\ job[w] \in Job /\ pc'[w] = "run"
        /\ job'[w].method = job[w].method /\ job'[w].state = job[w].state
        /\ job'[w].pass = job[w].pass + 1
    BY <1>0, <1>3, NextPassJob
  <2>2. p > job[w].pass
    BY <1>0, <2>1 DEF ToRun, Job
  <2> QED BY <1>0, <2>1, <2>2 DEF ToRun, Job
<1>4. CASE RunReport(w)
  <2>1. HasJob(w)
    BY <1>4 DEF RunReport, HasJob
  <2>2. /\ pc[w] = "run" /\ pc'[w] = "final" /\ job'[w].pass = job[w].pass
        /\ job'[w].method = job[w].method /\ job'[w].state = job[w].state
    BY <1>0, <1>4, <2>1, ReportEffect
  <2> QED BY <1>0, <2>1, <2>2 DEF ToRun, Job
<1>5. ASSUME NEW k \in Method, PushFinal(w, k)
      PROVE  ToRun(w, m, s, p) /\ ~RunReport(w) /\ ~RunBottom(w)
  <2>1. /\ HasJob(w) /\ pc[w] = "push" /\ pc'[w] = "push"
        /\ job'[w].method = job[w].method /\ job'[w].state = job[w].state
        /\ job'[w].pass = job[w].pass
    BY <1>0, <1>5 DEF PushFinal, HasJob, TypeOK, Job
  <2> QED BY <2>1 DEF ToRun, RunReport, RunBottom
<1> QED BY <1>0, <1>1, <1>2, <1>3, <1>4, <1>5, TaskStep

-----------------------------------------------------------------------------
(* Owed and Runs, elementwise, before and after a step.                    *)
LEMMA OwedElement ==
    ASSUME NEW m, NEW s, NEW p, NEW r, NEW n
    PROVE  /\ <<m, s, p, r, n>> \in Owed <=> \E w \in Slot : Owes(w, m, s, p, r, n)
           /\ (<<m, s, p, r, n>> \in Owed)' <=> \E w \in Slot : Owes(w, m, s, p, r, n)'
<1>1. <<m, s, p, r, n>> \in Owed <=> \E w \in Slot : <<m, s, p, r, n>> \in OwedBy(w)
  BY DEF Owed
<1>2. (<<m, s, p, r, n>> \in Owed)' <=> \E w \in Slot : (<<m, s, p, r, n>> \in OwedBy(w))'
  BY DEF Owed
<1> QED BY <1>1, <1>2, OwesIsOwed

LEMMA ToRunIsRuns ==
    ASSUME NEW w, NEW m, NEW s, NEW p
    PROVE  /\ <<m, s, p>> \in RunsOf(w) <=> ToRun(w, m, s, p)
           /\ (<<m, s, p>> \in RunsOf(w))' <=> ToRun(w, m, s, p)'
<1>1. <<m, s, p>> \in RunsOf(w) <=> ToRun(w, m, s, p)
  BY DEF RunsOf, ToRun
<1>2. (<<m, s, p>> \in RunsOf(w))' <=> ToRun(w, m, s, p)'
  BY DEF RunsOf, ToRun
<1> QED BY <1>1, <1>2

LEMMA RunsElement ==
    ASSUME NEW m, NEW s, NEW p
    PROVE  /\ <<m, s, p>> \in Runs <=> \E w \in Slot : ToRun(w, m, s, p)
           /\ (<<m, s, p>> \in Runs)' <=> \E w \in Slot : ToRun(w, m, s, p)'
<1>1. <<m, s, p>> \in Runs <=> \E w \in Slot : <<m, s, p>> \in RunsOf(w)
  BY DEF Runs
<1>2. (<<m, s, p>> \in Runs)' <=> \E w \in Slot : (<<m, s, p>> \in RunsOf(w))'
  BY DEF Runs
<1> QED BY <1>1, <1>2, ToRunIsRuns

(* All that can be owed, and all that can be run.                          *)
Debts == Method \X State \X (1 .. 2) \X State \X Method
Turns == Method \X State \X (1 .. 2)

(* What tasks owe are debts, what they have to run are turns. *)
LEMMA OwedType == IndInv => Owed \subseteq Debts /\ Runs \subseteq Turns
<1> SUFFICES ASSUME IndInv, NEW w \in Slot
             PROVE  OwedBy(w) \subseteq Debts /\ RunsOf(w) \subseteq Turns
  BY DEF Owed, Runs
<1>1. CASE HasJob(w)
  <2>1. job[w] \in Job /\ (pc[w] # "run" => job[w].final \in OutcomesOf(job[w]))
    BY <1>1 DEF IndInv, JobInv
  <2>2. pc[w] # "run" => job[w].final \in State
    BY <2>1, OutcomeType DEF OutcomesOf, Job
  <2>3. OwedBy(w) \subseteq Debts
    BY <2>1, <2>2 DEF OwedBy, Job, Debts
  <2>4. RunsOf(w) \subseteq Turns
    BY <2>1, PassRange DEF RunsOf, Job, Turns
  <2> QED BY <2>3, <2>4
<1>2. CASE ~HasJob(w)
  BY <1>2 DEF OwedBy, RunsOf, HasJob
<1> QED BY <1>1, <1>2

(* ... after a step as well. *)
LEMMA OwedTypeNext ==
    ASSUME IndInv, [Next]_vars
    PROVE  Owed' \subseteq Debts /\ Runs' \subseteq Turns
<1>1. IndInv'
  BY StepInv
<1>2. (Owed \subseteq Debts /\ Runs \subseteq Turns)'
  BY <1>1, OwedType, PTL
<1> QED BY <1>2 DEF Debts, Turns

(* Sets of debts, or of turns, with the same elements are the same.        *)
LEMMA SameDebts ==
    ASSUME NEW A, NEW B, A \subseteq Debts, B \subseteq Debts,
           \A m, n \in Method : \A s, r \in State : \A p \in 1 .. 2 :
               <<m, s, p, r, n>> \in A <=> <<m, s, p, r, n>> \in B
    PROVE  A = B
<1>1. ASSUME NEW d \in Debts PROVE d \in A <=> d \in B
  <2>1. PICK m \in Method, s \in State, p \in 1 .. 2, r \in State, n \in Method :
           d = <<m, s, p, r, n>>
    BY DEF Debts
  <2> QED BY <2>1
<1> QED BY <1>1

LEMMA SameTurns ==
    ASSUME NEW A, NEW B, A \subseteq Turns, B \subseteq Turns,
           \A m \in Method : \A s \in State : \A p \in 1 .. 2 :
               <<m, s, p>> \in A <=> <<m, s, p>> \in B
    PROVE  A = B
<1>1. ASSUME NEW d \in Turns PROVE d \in A <=> d \in B
  <2>1. PICK m \in Method, s \in State, p \in 1 .. 2 : d = <<m, s, p>>
    BY DEF Turns
  <2> QED BY <2>1
<1> QED BY <1>1

(* Debts change only with reports and pushes, turns only with taken states *)
(* and with runs.                                                          *)
LEMMA OwedKept ==
    ASSUME IndInv, [Next]_vars, ~BeginClass,
           ~\E w \in Slot : RunReport(w),
           ~\E w \in Slot : \E n \in Method : PushFinal(w, n)
    PROVE  Owed' = Owed
<1> DEFINE A == Owed
           B == Owed'
<1>1. A \subseteq Debts /\ B \subseteq Debts
  BY OwedType, OwedTypeNext
<1>2. ASSUME NEW m \in Method, NEW n \in Method, NEW s \in State, NEW r \in State,
             NEW p \in 1 .. 2
      PROVE  <<m, s, p, r, n>> \in A <=> <<m, s, p, r, n>> \in B
  <2>1. ASSUME NEW w \in Slot, Owes(w, m, s, p, r, n) PROVE Owes(w, m, s, p, r, n)'
    BY <2>1, DebtStep
  <2>2. ASSUME NEW w \in Slot, Owes(w, m, s, p, r, n)' PROVE Owes(w, m, s, p, r, n)
    BY <2>2, NoNewDebt
  <2> QED BY <2>1, <2>2, OwedElement
<1> HIDE DEF A, B
<1>3. A = B
  BY <1>1, <1>2, SameDebts
<1> QED BY <1>3 DEF A, B

LEMMA RunsKept ==
    ASSUME IndInv, [Next]_vars, ~BeginClass,
           ~\E w \in Slot : RunReport(w) \/ RunBottom(w),
           ~\E w \in Slot : \E m \in Method : \E s \in State : TakeState(w, m, s)
    PROVE  Runs' = Runs
<1> DEFINE A == Runs
           B == Runs'
<1>1. A \subseteq Turns /\ B \subseteq Turns
  BY OwedType, OwedTypeNext
<1>2. ASSUME NEW m \in Method, NEW s \in State, NEW p \in 1 .. 2
      PROVE  <<m, s, p>> \in A <=> <<m, s, p>> \in B
  <2>1. ASSUME NEW w \in Slot, ToRun(w, m, s, p) PROVE ToRun(w, m, s, p)'
    BY <2>1, ToRunStep
  <2>2. ASSUME NEW w \in Slot, ToRun(w, m, s, p)' PROVE ToRun(w, m, s, p)
    BY <2>2, NoNewRun
  <2> QED BY <2>1, <2>2, RunsElement
<1> HIDE DEF A, B
<1>3. A = B
  BY <1>1, <1>2, SameTurns
<1> QED BY <1>3 DEF A, B

(* TakeState has all passes of the method run on the state. *)
LEMMA TakeRuns ==
    ASSUME IndInv, [Next]_vars,
           NEW w \in Slot, NEW a \in Method, NEW t \in State, TakeState(w, a, t)
    PROVE  Runs' = Runs \cup { <<a, t, p>> : p \in Passes(a) }
<1> DEFINE New == { <<a, t, p>> : p \in Passes(a) }
           A == Runs \cup New
           B == Runs'
<1>1. A \subseteq Turns /\ B \subseteq Turns
  BY OwedType, OwedTypeNext, PassRange DEF Turns
<1>2. /\ pc[w] = "pick" /\ pc' = [pc EXCEPT ![w] = "run"]
      /\ job' = [job EXCEPT ![w] = [method |-> a, state |-> t, pass |-> 1,
                                     final |-> Bottom, left |-> {}]]
      /\ DOMAIN pc = Slot /\ DOMAIN job = Slot
  BY DEF TakeState, IndInv, TypeOK
<1>3. ASSUME NEW m \in Method, NEW s \in State, NEW p \in 1 .. 2
      PROVE  <<m, s, p>> \in A <=> <<m, s, p>> \in B
  <2>1. ASSUME NEW v \in Slot, v # w PROVE ToRun(v, m, s, p)' <=> ToRun(v, m, s, p)
    BY <1>2, <2>1 DEF ToRun, HasJob
  <2>2. ~ToRun(w, m, s, p)
    BY <1>2 DEF ToRun, HasJob
  <2>3. ToRun(w, m, s, p)' <=> m = a /\ s = t /\ p \in Passes(a)
    BY <1>2 DEF ToRun, HasJob
  <2>4. <<m, s, p>> \in New <=> m = a /\ s = t /\ p \in Passes(a)
    OBVIOUS
  <2> HIDE DEF New
  <2> QED BY <2>1, <2>2, <2>3, <2>4, RunsElement
<1> HIDE DEF A, B
<1>4. A = B
  BY <1>1, <1>3, SameTurns
<1> QED BY <1>4 DEF A, B

(* A run settles one turn, which no other task has as well. *)
LEMMA RunTurn ==
    ASSUME IndInv, Unique, [Next]_vars, ~BeginClass,
           NEW w \in Slot, RunReport(w) \/ RunBottom(w)
    PROVE  LET d == <<job[w].method, job[w].state, job[w].pass>>
           IN  d \in Runs /\ Runs' = Runs \ {d}
<1> DEFINE j == job[w]
           d == <<j.method, j.state, j.pass>>
           A == Runs \ {d}
           B == Runs'
<1>1. A \subseteq Turns /\ B \subseteq Turns
  BY OwedType, OwedTypeNext
<1>2. HasJob(w) /\ pc[w] = "run" /\ TypeOK /\ MainInv
  BY DEF RunReport, RunBottom, HasJob, IndInv
<1>3. j \in Job /\ j.pass \in Passes(j.method)
  BY <1>2 DEF IndInv, JobInv
<1>4. ToRun(w, j.method, j.state, j.pass)
  BY <1>2, <1>3 DEF ToRun
<1>5. d \in Runs
  BY <1>4, RunsElement
<1>6. /\ \A v \in Slot : v # w => pc'[v] = pc[v] /\ job'[v] = job[v]
      /\ pc'[w] \in {"run", "final", "ready"}
  BY <1>2, <1>3, NextPassEffect, ReportEffect DEF RunBottom
<1>7. ASSUME NEW m \in Method, NEW s \in State, NEW p \in 1 .. 2
      PROVE  <<m, s, p>> \in A <=> <<m, s, p>> \in B
  <2>1. ASSUME NEW v \in Slot, v # w
        PROVE  /\ ToRun(v, m, s, p)' <=> ToRun(v, m, s, p)
               /\ ToRun(v, m, s, p) => <<m, s, p>> # d
    <3>1. ToRun(v, m, s, p)' <=> ToRun(v, m, s, p)
      BY <1>6, <2>1 DEF ToRun, HasJob
    <3>2. ToRun(v, m, s, p) => <<m, s, p>> # d
      BY <1>2, <2>1 DEF ToRun, Unique
    <3> QED BY <3>1, <3>2
  <2>2. ToRun(w, m, s, p)' <=> ToRun(w, m, s, p) /\ <<m, s, p>> # d
    <3>1. ToRun(w, m, s, p)' => ToRun(w, m, s, p) /\ p # j.pass
      BY <1>2, NoNewRun DEF TakeState
    <3>2. ToRun(w, m, s, p) /\ p # j.pass => ToRun(w, m, s, p)'
      BY ToRunStep
    <3>3. ToRun(w, m, s, p) => (<<m, s, p>> = d <=> p = j.pass)
      BY DEF ToRun
    <3> QED BY <3>1, <3>2, <3>3
  <2> HIDE DEF d
  <2> QED BY <2>1, <2>2, RunsElement
<1> HIDE DEF A, B
<1>8. A = B
  BY <1>1, <1>7, SameTurns
<1> QED BY <1>5, <1>8 DEF A, B

(* RunReport owes one outcome to all methods of the class. *)
LEMMA ReportOwed ==
    ASSUME IndInv, [Next]_vars, NEW w \in Slot, RunReport(w)
    PROVE  LET j == job[w] IN
           /\ cur \in Class
           /\ \E r \in Outcomes[j.method][j.state][j.pass] :
                /\ r \in State
                /\ Owed' = Owed \cup
                      { <<j.method, j.state, j.pass, r, n>> : n \in MethodsOf[cur] }
<1> DEFINE j == job[w]
<1>1. /\ HasJob(w) /\ pc[w] = "run" /\ TypeOK /\ MainInv /\ j \in Job
  BY DEF RunReport, HasJob, IndInv, JobInv
<1>2. /\ cur \in Class /\ MethodsOf[cur] \subseteq Method
      /\ \A v \in Slot : v # w => pc'[v] = pc[v] /\ job'[v] = job[v]
      /\ pc'[w] = "final"
  BY <1>1, ReportEffect
<1>3. PICK r \in OutcomesOf(job[w]) :
         /\ r \in State
         /\ job'[w] = [method |-> job[w].method, state |-> job[w].state,
                       pass |-> job[w].pass, final |-> r, left |-> MethodsOf[cur]]
  BY <1>1, ReportEffect
<1> DEFINE New == { <<j.method, j.state, j.pass, r, n>> : n \in MethodsOf[cur] }
           A == Owed \cup New
           B == Owed'
<1>4. A \subseteq Debts /\ B \subseteq Debts
  <2>1. New \subseteq Debts
    BY <1>1, <1>2, <1>3 DEF Debts, Job
  <2> QED BY <2>1, OwedType, OwedTypeNext
<1>5. ASSUME NEW m \in Method, NEW n \in Method, NEW s \in State, NEW x \in State,
             NEW p \in 1 .. 2
      PROVE  <<m, s, p, x, n>> \in A <=> <<m, s, p, x, n>> \in B
  <2>1. ASSUME NEW v \in Slot, v # w
        PROVE  Owes(v, m, s, p, x, n)' <=> Owes(v, m, s, p, x, n)
    BY <1>2, <2>1 DEF Owes
  <2>2. ~Owes(w, m, s, p, x, n)
    BY <1>1 DEF Owes
  <2>3. Owes(w, m, s, p, x, n)' <=> /\ m = j.method /\ s = j.state /\ p = j.pass
                                    /\ x = r /\ n \in MethodsOf[cur]
    BY <1>2, <1>3 DEF Owes
  <2>4. <<m, s, p, x, n>> \in New <=> /\ m = j.method /\ s = j.state /\ p = j.pass
                                      /\ x = r /\ n \in MethodsOf[cur]
    OBVIOUS
  <2> HIDE DEF New, j
  <2> QED BY <2>1, <2>2, <2>3, <2>4, OwedElement
<1> HIDE DEF A, B
<1>6. A = B
  BY <1>4, <1>5, SameDebts
<1> QED BY <1>2, <1>3, <1>6 DEF A, B, OutcomesOf

(* PushFinal pays one debt, which no other task owes as well. *)
LEMMA PushOwed ==
    ASSUME IndInv, Unique, [Next]_vars, NEW w \in Slot, NEW n \in Method, PushFinal(w, n)
    PROVE  LET d == <<job[w].method, job[w].state, job[w].pass, job[w].final, n>>
           IN  d \in Owed /\ Owed' = Owed \ {d}
<1> DEFINE j == job[w]
           d == <<j.method, j.state, j.pass, j.final, n>>
           A == Owed \ {d}
           B == Owed'
<1>1. A \subseteq Debts /\ B \subseteq Debts
  BY OwedType, OwedTypeNext
<1>2. /\ pc[w] = "push" /\ pc' = pc /\ n \in j.left
      /\ job' = [job EXCEPT ![w].left = @ \ {n}]
      /\ DOMAIN job = Slot /\ j \in Job
  BY Pushed DEF PushFinal, IndInv, TypeOK
<1>4. Owes(w, j.method, j.state, j.pass, j.final, n)
  BY <1>2 DEF Owes
<1>5. d \in Owed
  BY <1>4, OwedElement
<1>6. /\ \A v \in Slot : v # w => job'[v] = job[v]
      /\ job'[w].method = j.method /\ job'[w].state = j.state
      /\ job'[w].pass = j.pass /\ job'[w].final = j.final /\ job'[w].left = j.left \ {n}
  BY <1>2 DEF Job
<1>7. ASSUME NEW m \in Method, NEW k \in Method, NEW s \in State, NEW x \in State,
             NEW p \in 1 .. 2
      PROVE  <<m, s, p, x, k>> \in A <=> <<m, s, p, x, k>> \in B
  <2>1. ASSUME NEW v \in Slot, v # w
        PROVE  /\ Owes(v, m, s, p, x, k)' <=> Owes(v, m, s, p, x, k)
               /\ Owes(v, m, s, p, x, k) => <<m, s, p, x, k>> # d
    <3>1. Owes(v, m, s, p, x, k)' <=> Owes(v, m, s, p, x, k)
      BY <1>2, <1>6, <2>1 DEF Owes
    <3>2. Owes(v, m, s, p, x, k) => <<m, s, p, x, k>> # d
      BY <1>2, <2>1 DEF Owes, HasJob, Unique
    <3> QED BY <3>1, <3>2
  <2>2. Owes(w, m, s, p, x, k)' <=> Owes(w, m, s, p, x, k) /\ <<m, s, p, x, k>> # d
    <3>1. Owes(w, m, s, p, x, k)' <=> Owes(w, m, s, p, x, k) /\ k # n
      BY <1>2, <1>6 DEF Owes
    <3>2. Owes(w, m, s, p, x, k) => (<<m, s, p, x, k>> = d <=> k = n)
      BY DEF Owes
    <3> QED BY <3>1, <3>2
  <2> HIDE DEF d
  <2> QED BY <2>1, <2>2, OwedElement
<1> HIDE DEF A, B
<1>8. A = B
  BY <1>1, <1>7, SameDebts
<1> QED BY <1>5, <1>8 DEF A, B

-----------------------------------------------------------------------------
(* Between two classes nothing is to be taken and nothing is owed.         *)
LEMMA NothingOwed ==
    ASSUME IndInv, allFuturesInvalid
    PROVE  Owed = {} /\ Runs = {}
BY DEF allFuturesInvalid, Owed, OwedBy, Runs, RunsOf, HasJob

(* Before the first class the two specifications agree. *)
LEMMA RefineInit == Init => Fixpoint!Init
<1> SUFFICES ASSUME Init PROVE Fixpoint!Init
  OBVIOUS
<1>1. Owed = {} /\ Runs = {}
  BY InitInv, NothingOwed DEF Init, allFuturesInvalid
<1> QED BY <1>1 DEF Init, Fixpoint!Init, NoStates

(* A push is not at the same time a run or the taking of a state. *)
LEMMA PushAlone ==
    ASSUME IndInv, NEW w \in Slot, NEW n \in Method, PushFinal(w, n), NEW v \in Slot
    PROVE  /\ ~RunReport(v) /\ ~RunBottom(v)
           /\ \A a \in Method : \A t \in State : ~TakeState(v, a, t)
<1>0. TypeOK
  BY DEF IndInv
<1>1. /\ pc[w] = "push" /\ pc' = pc /\ job' = [job EXCEPT ![w].left = @ \ {n}]
  BY DEF PushFinal
<1>2. ~RunReport(v) /\ \A a \in Method : \A t \in State : ~TakeState(v, a, t)
  BY <1>0, <1>1 DEF RunReport, TakeState, TypeOK
<1>3. ASSUME RunBottom(v) PROVE FALSE
  <2>1. pc[v] = "run" /\ HasJob(v) /\ job[v] \in Job /\ NextPass(v)
    BY <1>3 DEF RunBottom, HasJob, IndInv, JobInv
  <2>2. v # w /\ job'[v] = job[v] /\ pc'[v] = "run"
    BY <1>0, <1>1, <2>1 DEF TypeOK
  <2>3. job'[v].pass = job[v].pass + 1
    BY <1>0, <2>1, <2>2, NextPassEffect
  <2> QED BY <2>1, <2>2, <2>3 DEF Job
<1> QED BY <1>2, <1>3

(* A step of the threads is a step of MethodFixpoint or none. *)
LEMMA RefineStep ==
    IndInv /\ Disjoint /\ Unique /\ [Next]_vars => [Fixpoint!Next]_(Fixpoint!vars)
<1> SUFFICES ASSUME IndInv, Disjoint, Unique, [Next]_vars
             PROVE  Fixpoint!Next \/ UNCHANGED Fixpoint!vars
  OBVIOUS
<1>0. TypeOK
  BY DEF IndInv
<1>1. CASE main = "next"
  <2>1. /\ allFuturesInvalid /\ keys = {} /\ Owed = {} /\ Runs = {}
        /\ \A m \in Method : incomplete[m] = {}
    BY <1>1, NothingOwed DEF IndInv, MainInv, KeysInv
  <2>2. CASE BeginClass
    <3>1. pc' = pc /\ job' = job /\ cls' = cls /\ main' = "futures"
      BY <2>2 DEF BeginClass, task
    <3>2. Owed' = {} /\ Runs' = {}
      BY <2>1, <3>1 DEF allFuturesInvalid, Owed, OwedBy, Runs, RunsOf, HasJob
    <3>3. Fixpoint!Begin
      BY <1>1, <2>1, <2>2, <3>1, <3>2 DEF BeginClass, Fixpoint!Begin, Fixpoint!Settled, NoStates
    <3> QED BY <3>3 DEF Fixpoint!Next
  <2>3. CASE Finish
    <3>1. pc' = pc /\ job' = job /\ cls' = cls
      BY <2>3 DEF Finish, task
    <3>2. Owed' = {} /\ Runs' = {}
      BY <2>1, <3>1 DEF allFuturesInvalid, Owed, OwedBy, Runs, RunsOf, HasJob
    <3>3. Fixpoint!Finish
      BY <1>1, <2>1, <2>3, <3>2 DEF Finish, Fixpoint!Finish, Fixpoint!Settled, maps
    <3> QED BY <3>3 DEF Fixpoint!Next
  <2>4. CASE UNCHANGED vars
    <3>1. pc' = pc /\ job' = job /\ cls' = cls /\ cur' = cur /\ main' = main
          /\ incomplete' = incomplete /\ complete' = complete
      BY <2>4 DEF vars, task, maps
    <3>2. Owed' = Owed /\ Runs' = Runs
      BY <2>1, <3>1 DEF allFuturesInvalid, Owed, OwedBy, Runs, RunsOf, HasJob
    <3> QED BY <3>1, <3>2 DEF Fixpoint!vars
  <2>5. \A w \in Slot : ~Task(w)
    BY <2>1 DEF allFuturesInvalid, Task, Start, Lock, Pick, PickNothing, EraseKey, TakeState,
       Run, RunBottom, RunReport, Push, PushFinal, UnlockFinal
  <2> QED BY <1>1, <2>2, <2>3, <2>4, <2>5 DEF Next, Main, TestFutures, TestMap, CheckFuture,
          Launch, Sleep, Exit
<1>2. CASE main # "next"
  <2>1. /\ cur' = cur /\ ~BeginClass
        /\ main' = "finished" <=> main = "finished"
    BY <1>2, KnownGrows DEF Next, Main, BeginClass, Finish, TestFutures, TestMap, CheckFuture,
       Launch, Sleep, Task, Start, Lock, Pick, PickNothing, EraseKey, TakeState, Run,
       RunBottom, RunReport, Push, PushFinal, UnlockFinal, Exit, vars
  <2>2. ASSUME NEW w \in Slot, NEW m \in Method, NEW s \in State, TakeState(w, m, s)
        PROVE  Fixpoint!Next
    <3>1. Runs' = Runs \cup { <<m, s, p>> : p \in Passes(m) }
      BY <2>2, TakeRuns
    <3>2. Fixpoint!Passes(m) = Passes(m)
      BY DEF Fixpoint!Passes, Passes, Fixpoint!NumPasses, NumPasses
    <3>3. \A v \in Slot : ~RunReport(v) /\ \A n \in Method : ~PushFinal(v, n)
      BY <1>0, <2>2 DEF TakeState, RunReport, PushFinal, TypeOK
    <3>4. Owed' = Owed
      BY <2>1, <3>3, OwedKept
    <3>5. Fixpoint!Take(m, s)
      BY <2>1, <2>2, <3>1, <3>2, <3>4 DEF TakeState, Fixpoint!Take
    <3> QED BY <2>2, <3>5 DEF Fixpoint!Next, TakeState
  <2>3. ASSUME NEW w \in Slot, NEW n \in Method, PushFinal(w, n)
        PROVE  Fixpoint!Next
    <3> DEFINE d == <<job[w].method, job[w].state, job[w].pass, job[w].final, n>>
    <3>1. d \in Owed /\ Owed' = Owed \ {d}
      BY <2>3, PushOwed
    <3>2. /\ complete' = complete
          /\ LET x == ChangeThis[d[5]][d[4]]
             IN  incomplete' = IF Covers(complete[d[5]] \cup incomplete[d[5]], x) THEN incomplete
                               ELSE [incomplete EXCEPT ![d[5]] = @ \cup {x}]
      BY <2>3, Pushed
    <3>3. d = <<d[1], d[2], d[3], d[4], d[5]>>
      OBVIOUS
    <3>4. \A v \in Slot : /\ ~RunReport(v) /\ ~RunBottom(v)
                          /\ \A a \in Method : \A t \in State : ~TakeState(v, a, t)
      BY <2>3, PushAlone
    <3> HIDE DEF d
    <3>5. Runs' = Runs
      BY <2>1, <3>4, RunsKept
    <3>6. Fixpoint!Deliver(d[1], d[2], d[3], d[4], d[5])
      BY <2>1, <3>1, <3>2, <3>3, <3>5 DEF Fixpoint!Deliver, Fixpoint!Covers, Covers
    <3> QED BY <3>1, <3>6 DEF Fixpoint!Next
  <2>4. ASSUME NEW w \in Slot, RunReport(w)
        PROVE  Fixpoint!Next
    <3> DEFINE d == <<job[w].method, job[w].state, job[w].pass>>
    <3>1. d \in Runs /\ Runs' = Runs \ {d}
      BY <2>1, <2>4, RunTurn
    <3>2. PICK r \in State : /\ r \in Outcomes[d[1]][d[2]][d[3]]
                             /\ Owed' = Owed \cup
                                    { <<d[1], d[2], d[3], r, n>> : n \in MethodsOf[cur] }
      BY <2>4, ReportOwed
    <3>3. incomplete' = incomplete /\ complete' = complete
      BY <2>4 DEF RunReport, maps
    <3>4. d = <<d[1], d[2], d[3]>>
      OBVIOUS
    <3> HIDE DEF d
    <3>5. Fixpoint!Run(d[1], d[2], d[3], r)
      BY <2>1, <3>1, <3>2, <3>3, <3>4 DEF Fixpoint!Run
    <3> QED BY <3>1, <3>5 DEF Fixpoint!Next
  <2>5. ASSUME NEW w \in Slot, RunBottom(w)
        PROVE  Fixpoint!Next
    <3> DEFINE d == <<job[w].method, job[w].state, job[w].pass>>
    <3>1. d \in Runs /\ Runs' = Runs \ {d}
      BY <2>1, <2>5, RunTurn
    <3>2. Outcomes[d[1]][d[2]][d[3]] = {}
      BY <2>5 DEF RunBottom, OutcomesOf
    <3>3. incomplete' = incomplete /\ complete' = complete
      BY <2>5 DEF RunBottom, maps
    <3>4. \A v \in Slot : ~RunReport(v) /\ \A n \in Method : ~PushFinal(v, n)
      <4>1. /\ pc[w] = "run" /\ HasJob(w) /\ job[w] \in Job /\ NextPass(w)
        BY <2>5 DEF RunBottom, HasJob, IndInv, JobInv
      <4>2. pc'[w] \in {"run", "ready"} /\ \A v \in Slot : v # w => pc'[v] = pc[v]
        BY <1>0, <4>1, NextPassEffect
      <4>3. \A v \in Slot : ~RunReport(v)
        BY <1>0, <4>2 DEF RunReport, TypeOK
      <4>4. \A v \in Slot : \A n \in Method : ~PushFinal(v, n)
        BY <2>5, PushAlone
      <4> QED BY <4>3, <4>4
    <3>5. Owed' = Owed
      BY <2>1, <3>4, OwedKept
    <3>6. d = <<d[1], d[2], d[3]>>
      OBVIOUS
    <3> HIDE DEF d
    <3>7. Fixpoint!RunNothing(d[1], d[2], d[3])
      BY <2>1, <3>1, <3>2, <3>3, <3>5, <3>6 DEF Fixpoint!RunNothing
    <3> QED BY <3>1, <3>7 DEF Fixpoint!Next
  <2>6. CASE /\ ~\E w \in Slot : \E m \in Method : \E s \in State : TakeState(w, m, s)
             /\ ~\E w \in Slot : \E n \in Method : PushFinal(w, n)
             /\ ~\E w \in Slot : RunReport(w) \/ RunBottom(w)
    <3>1. incomplete' = incomplete /\ complete' = complete
      BY <2>1, <2>6, MapsStep
    <3>2. Owed' = Owed /\ Runs' = Runs
      BY <2>1, <2>6, OwedKept, RunsKept
    <3> QED BY <2>1, <3>1, <3>2 DEF Fixpoint!vars
  <2> QED BY <2>2, <2>3, <2>4, <2>5, <2>6
<1> QED BY <1>1, <1>2

(* The threads implement the promise of the class analysis: for any number *)
(* of slots and pool threads, and any classes, methods, states and         *)
(* analysis, every step is one of MethodFixpoint or leaves its state as it *)
(* is.                                                                     *)
THEOREM Implements == Spec => ImplementsFixpoint
<1>1. Init => Disjoint /\ Unique
  BY DEF Init, Disjoint, Unique, HasJob, NoStates
<1>2. Spec => [](Disjoint /\ Unique)
  BY <1>1, InvInductive, DisjointStep, UniqueStep, PTL DEF Spec
<1> QED BY <1>2, InvInductive, RefineInit, RefineStep, PTL
        DEF Spec, ImplementsFixpoint, Fixpoint!Spec

-----------------------------------------------------------------------------
(* The states taken for a method only grow while a class is current.       *)
LEMMA TakenGrows ==
    ASSUME IndInv, [Next]_vars, ~BeginClass
    PROVE  cur' = cur /\ \A m \in Method : complete[m] \subseteq complete'[m]
BY KnownGrows, MapsStep DEF TakeState, PushFinal, IndInv, TypeOK

(* Only reports change the rows.                                           *)
LEMMA RowsStep ==
    ASSUME IndInv, [Next]_vars
    PROVE  /\ issues \subseteq issues'
           /\ issues' # issues => \E w \in Slot : RunReport(w)
BY DEF Next, Main, BeginClass, Finish, TestFutures, TestMap, CheckFuture, Launch, Sleep, Task,
   Start, Lock, Pick, PickNothing, EraseKey, TakeState, Run, RunBottom, RunReport, Push,
   PushFinal, UnlockFinal, Exit, vars

(* What a report adds are issues of a complete state.                      *)
LEMMA Reported ==
    ASSUME IndInv, NEW w \in Slot, RunReport(w)
    PROVE  LET j == job[w]
               New == { [record |-> cur, method |-> j.method, kind |-> k] :
                           k \in Issue[j.method][j.state][j.pass] }
           IN  /\ cur \in Class /\ issues' = issues \cup New
               /\ New \subseteq IssuesOf(cur, complete)
               /\ cur' = cur /\ complete' = complete
<1> DEFINE j == job[w]
           New == { [record |-> cur, method |-> j.method, kind |-> k] :
                       k \in Issue[j.method][j.state][j.pass] }
<1>1. /\ cur \in Class /\ j \in Job /\ j.method \in MethodsOf[cur]
      /\ j.state \in complete[j.method] /\ j.pass \in Passes(j.method)
      /\ Outcomes[j.method][j.state][j.pass] # {}
  BY Busy DEF RunReport, IndInv, JobInv, HasJob, OutcomesOf
<1>2. Issue[j.method][j.state][j.pass] \subseteq IssueKind
  BY <1>1, ClassModelAssumption DEF Job
<1>3. ASSUME NEW k \in Issue[j.method][j.state][j.pass]
      PROVE  [record |-> cur, method |-> j.method, kind |-> k] \in IssuesOf(cur, complete)
  <2> DEFINE i == [record |-> cur, method |-> j.method, kind |-> k]
  <2>1. i \in RowsOf(cur) /\ i.method = j.method /\ i.kind = k
    BY <1>1, <1>2 DEF RowsOf
  <2> HIDE DEF i, j
  <2>2. i \in IssuesOf(cur, complete)
    BY <1>1, <1>3, <2>1 DEF IssuesOf
  <2> QED BY <2>2 DEF i, j
<1>4. New \subseteq IssuesOf(cur, complete)
  BY <1>3
<1>5. issues' = issues \cup New /\ cur' = cur /\ complete' = complete
  BY DEF RunReport, maps
<1> QED BY <1>1, <1>4, <1>5

(* Each step keeps the rows true and the missing ones due to a task. *)
LEMMA IssueStep == IndInv /\ IssueInv /\ [Next]_vars => IssueInv'
<1> SUFFICES ASSUME IndInv, IssueInv, [Next]_vars PROVE IssueInv'
  OBVIOUS
<1>0. TypeOK /\ cur \in Nat
  BY ClassModelAssumption DEF IndInv, TypeOK
<1>1. CASE BeginClass
  <2>1. cur' = cur + 1 /\ cur' \in Class /\ issues' = issues
    BY <1>0, <1>1, ClassModelAssumption DEF BeginClass, Class, TypeOK
  <2>2. complete' = NoStates /\ MethodsOf[cur'] \subseteq Method
    BY <1>1, <2>1, ClassMethods DEF BeginClass
  <2>3. \A i \in issues : i.record \in 1 .. cur' /\ i.record # cur'
    BY <1>0, <2>1 DEF IssueInv
  <2> QED BY <2>1, <2>2, <2>3 DEF IssueInv, NoStates
<1>2. CASE ~BeginClass
  <2>1. cur' = cur /\ \A m \in Method : complete[m] \subseteq complete'[m]
    BY <1>2, TakenGrows
  <2>2. cur # 0 => MethodsOf[cur] \subseteq Method
    BY <1>0, ClassMethods DEF TypeOK, Class
  <2>3. cur # 0 => IssuesOf(cur, complete) \subseteq IssuesOf(cur, complete')
    <3> SUFFICES ASSUME cur # 0, NEW i \in IssuesOf(cur, complete)
                 PROVE  i \in IssuesOf(cur, complete')
      OBVIOUS
    <3>1. /\ i \in RowsOf(cur)
          /\ \E s \in complete[i.method] : \E p \in Passes(i.method) :
                /\ Outcomes[i.method][s][p] # {}
                /\ i.kind \in Issue[i.method][s][p]
      BY DEF IssuesOf
    <3>2. complete[i.method] \subseteq complete'[i.method]
      BY <2>1, <2>2, <3>1 DEF RowsOf
    <3> QED BY <3>1, <3>2 DEF IssuesOf
  <2>4. \A i \in issues' : i.record \in 1 .. cur'
    <3>1. CASE issues' = issues
      BY <2>1, <3>1 DEF IssueInv
    <3>2. ASSUME NEW w \in Slot, RunReport(w)
          PROVE  \A i \in issues' : i.record \in 1 .. cur'
      <4>1. \A i \in issues' : i \in issues \/ i.record = cur
        BY <3>2, Reported
      <4>2. cur \in 1 .. cur
        BY <1>0, <3>2, Reported DEF Class
      <4> QED BY <2>1, <4>1, <4>2 DEF IssueInv
    <3> QED BY <3>1, <3>2, RowsStep
  <2>5. \A i \in issues' : i.record = cur' => i \in IssuesOf(cur, complete)
    <3>1. CASE issues' = issues
      BY <2>1, <3>1 DEF IssueInv
    <3>2. ASSUME NEW w \in Slot, RunReport(w), NEW i \in issues', i.record = cur'
          PROVE  i \in IssuesOf(cur, complete)
      <4>1. i \in issues \/ i \in IssuesOf(cur, complete)
        BY <3>2, Reported
      <4> QED BY <2>1, <3>2, <4>1 DEF IssueInv
    <3> QED BY <3>1, <3>2, RowsStep
  <2>6. \A i \in issues' : i.record = cur' => i \in IssuesOf(cur', complete')
    <3> SUFFICES ASSUME NEW i \in issues', i.record = cur'
                 PROVE  i \in IssuesOf(cur', complete')
      OBVIOUS
    <3>1. cur # 0
      BY <1>0, <2>1, <2>4
    <3> QED BY <2>1, <2>3, <2>5, <3>1
  <2>7. ASSUME cur' # 0, NEW m \in MethodsOf[cur'], NEW s \in complete'[m],
               NEW p \in Passes(m), Outcomes[m][s][p] # {}
        PROVE  \/ \E w \in Slot : ToRun(w, m, s, p)'
               \/ \A k \in Issue[m][s][p] :
                     [record |-> cur', method |-> m, kind |-> k] \in issues'
    <3>1. CASE s \in complete[m]
      <4>1. \/ \E w \in Slot : ToRun(w, m, s, p)
            \/ \A k \in Issue[m][s][p] :
                  [record |-> cur, method |-> m, kind |-> k] \in issues
        BY <2>1, <2>7, <3>1 DEF IssueInv
      <4>2. ASSUME NEW w \in Slot, ToRun(w, m, s, p), ~ToRun(w, m, s, p)'
            PROVE  \A k \in Issue[m][s][p] :
                      [record |-> cur', method |-> m, kind |-> k] \in issues'
        <5>1. /\ RunReport(w) \/ RunBottom(w)
              /\ p = job[w].pass /\ m = job[w].method /\ s = job[w].state
          BY <1>2, <4>2, ToRunStep DEF ToRun
        <5>2. RunReport(w)
          BY <2>7, <5>1 DEF RunBottom, OutcomesOf
        <5> QED BY <2>1, <5>1, <5>2, Reported
      <4> QED BY <2>1, <4>1, <4>2, RowsStep
    <3>2. CASE s \notin complete[m]
      <4>1. m \in Method /\ p \in 1 .. 2
        BY <2>1, <2>2, <2>7, PassRange
      <4>2. PICK w \in Slot, a \in Method, t \in State : TakeState(w, a, t)
        BY <1>2, <2>7, <3>2, MapsStep DEF PushFinal
      <4>3. a = m /\ t = s
        BY <1>0, <2>7, <3>2, <4>1, <4>2 DEF TakeState, TypeOK
      <4>4. /\ job'[w] = [method |-> m, state |-> s, pass |-> 1,
                          final |-> Bottom, left |-> {}]
            /\ pc'[w] = "run"
        BY <1>0, <4>2, <4>3 DEF TakeState, TypeOK
      <4>5. ToRun(w, m, s, p)'
        BY <4>1, <4>4 DEF ToRun, HasJob
      <4> QED BY <4>5
    <3> QED BY <3>1, <3>2
  <2> QED BY <2>4, <2>6, <2>7 DEF IssueInv
<1> QED BY <1>1, <1>2

(* IssueInv holds in every behaviour. *)
LEMMA IssueInductive == Spec => []IssueInv
<1>1. Init => IssueInv
  BY DEF Init, IssueInv
<1> QED BY <1>1, InvInductive, IssueStep, PTL DEF Spec

(* At the end of a class no task is left, so no row is missing. *)
LEMMA EndIsExact ==
    ASSUME IndInv, IssueInv, ClassEnded
    PROVE  { i \in issues : i.record = cur } = IssuesOf(cur, complete)
<1>1. cur # 0 /\ allFuturesInvalid
  BY DEF ClassEnded, IndInv, MainInv
<1>2. { i \in issues : i.record = cur } \subseteq IssuesOf(cur, complete)
  BY DEF IssueInv
<1>3. ASSUME NEW i \in IssuesOf(cur, complete)
      PROVE  i \in issues /\ i.record = cur
  <2>1. i \in RowsOf(cur) /\ i.method \in MethodsOf[cur] /\ i.record = cur
    BY DEF IssuesOf, RowsOf
  <2>2. PICK s \in complete[i.method], p \in Passes(i.method) :
           Outcomes[i.method][s][p] # {} /\ i.kind \in Issue[i.method][s][p]
    BY DEF IssuesOf
  <2>3. ~\E w \in Slot : ToRun(w, i.method, s, p)
    BY <1>1 DEF allFuturesInvalid, ToRun, HasJob
  <2>4. [record |-> cur, method |-> i.method, kind |-> i.kind] \in issues
    BY <1>1, <2>1, <2>2, <2>3 DEF IssueInv
  <2>5. i = [record |-> cur, method |-> i.method, kind |-> i.kind]
    BY <2>1 DEF RowsOf
  <2> QED BY <2>1, <2>4, <2>5
<1> QED BY <1>2, <1>3

(* The rows of a class are the issues of its complete states, no more and  *)
(* no less, for any number of tasks and in every interleaving.             *)
THEOREM WritesExactly == Spec => []IssuesExact
<1>1. IndInv /\ IssueInv => IssuesExact
  BY EndIsExact DEF IssuesExact
<1> QED BY <1>1, InvInductive, IssueInductive, PTL

-----------------------------------------------------------------------------
(* The seeds are possible, and so is all that possible states hand on.     *)
LEMMA SeedPossible ==
    ASSUME NEW c \in Class, NEW n \in MethodsOf[c]
    PROVE  FirstState[c][n] \in Possible[c][n]
BY ClassMethods DEF Possible, HoldsAll, Seeded

LEMMA NextPossible ==
    ASSUME NEW c \in Class, NEW m \in MethodsOf[c], NEW n \in MethodsOf[c],
           NEW s \in Possible[c][m], NEW p \in Passes(m), NEW r \in Outcomes[m][s][p]
    PROVE  ChangeThis[n][r] \in Possible[c][n]
<1>1. m \in Method /\ n \in Method /\ p \in 1 .. 2
  BY ClassMethods, PassRange
<1>2. s \in State /\ \A X \in Families(c) : HoldsAll(c, X) => s \in X[m]
  BY DEF Possible
<1>3. ChangeThis[n][r] \in State
  BY <1>1, <1>2, OutcomeType, NextStateType
<1>4. ASSUME NEW X \in Families(c), HoldsAll(c, X)
      PROVE  ChangeThis[n][r] \in X[n]
  BY <1>2, <1>4 DEF HoldsAll, Holds
<1> QED BY <1>3, <1>4 DEF Possible

(* Nothing is known but what an analysis that drops nothing would visit.   *)
LEMMA ReachStep == IndInv /\ ReachInv /\ [Next]_vars => ReachInv'
<1> SUFFICES ASSUME IndInv, ReachInv, [Next]_vars PROVE ReachInv'
  OBVIOUS
<1>0. TypeOK /\ (cur # 0 => cur \in Class)
  BY DEF IndInv, TypeOK, Class
<1>1. CASE BeginClass
  <2>1. /\ cur' = cur + 1 /\ cur' \in Class /\ complete' = NoStates
        /\ incomplete' = [m \in Method |-> IF m \in MethodsOf[cur']
                                           THEN {FirstState[cur'][m]} ELSE {}]
    BY <1>0, <1>1, ClassModelAssumption DEF BeginClass, Class, TypeOK
  <2> SUFFICES ASSUME NEW m \in MethodsOf[cur']
               PROVE  complete'[m] \cup incomplete'[m] \subseteq Possible[cur'][m]
    BY DEF ReachInv
  <2>2. m \in Method
    BY <2>1, ClassMethods
  <2>3. FirstState[cur'][m] \in Possible[cur'][m]
    BY <2>1, SeedPossible
  <2>4. complete'[m] = {} /\ incomplete'[m] = {FirstState[cur'][m]}
    BY <2>1, <2>2 DEF NoStates
  <2> QED BY <2>3, <2>4
<1>2. ASSUME NEW w \in Slot, NEW a \in Method, NEW t \in State, TakeState(w, a, t)
      PROVE  ReachInv'
  <2>1. cur' = cur /\ \A m \in Method :
            complete'[m] \cup incomplete'[m] = complete[m] \cup incomplete[m]
    BY <1>0, <1>2 DEF TakeState, TypeOK
  <2>2. cur # 0 => MethodsOf[cur] \subseteq Method
    BY <1>0, ClassMethods
  <2> QED BY <2>1, <2>2 DEF ReachInv
<1>3. ASSUME NEW w \in Slot, NEW n \in Method, PushFinal(w, n)
      PROVE  ReachInv'
  <2> DEFINE j == job[w]
             x == ChangeThis[n][j.final]
  <2>1. /\ cur \in Class /\ MethodsOf[cur] \subseteq Method
        /\ j.method \in MethodsOf[cur] /\ n \in MethodsOf[cur]
        /\ j.state \in complete[j.method]
        /\ j.pass \in Passes(j.method)
        /\ j.final \in Outcomes[j.method][j.state][j.pass]
        /\ complete' = complete /\ cur' = cur
        /\ \/ incomplete' = incomplete
           \/ incomplete' = [incomplete EXCEPT ![n] = @ \cup {x}]
    BY <1>3, Pushed
  <2>2. cur # 0
    BY <2>1 DEF Class
  <2>3. j.state \in Possible[cur][j.method]
    BY <2>1, <2>2 DEF ReachInv
  <2>4. x \in Possible[cur][n]
    BY <2>1, <2>3, NextPossible
  <2> HIDE DEF x, j
  <2>5. \A m \in Method : incomplete'[m] \subseteq incomplete[m] \cup (IF m = n THEN {x} ELSE {})
    BY <1>0, <2>1 DEF TypeOK
  <2> QED BY <2>1, <2>2, <2>4, <2>5 DEF ReachInv
<1>4. CASE incomplete' = incomplete /\ complete' = complete /\ ~BeginClass
  <2>1. cur' = cur
    BY <1>4, KnownGrows
  <2> QED BY <1>4, <2>1 DEF ReachInv
<1> QED BY <1>1, <1>2, <1>3, <1>4, MapsStep

(* ReachInv holds in every behaviour. *)
LEMMA ReachInductive == Spec => []ReachInv
<1>1. Init => ReachInv
  BY DEF Init, ReachInv
<1> QED BY <1>1, InvInductive, ReachStep, PTL DEF Spec

(* In a monotone analysis the states that a closed set makes redundant     *)
(* hold the seeds and one outcome of each pass over them,                  *)
LEMMA ClosedHoldsSome ==
    ASSUME MonotoneAnalysis, NEW c \in Class, NEW done \in [Method -> SUBSET State],
           ClosedFor(c, done)
    PROVE  LET X == [m \in MethodsOf[c] |-> { t \in State : Covers(done[m], t) }]
           IN  X \in Families(c) /\ HoldsSome(c, X)
<1> DEFINE X == [m \in MethodsOf[c] |-> { t \in State : Covers(done[m], t) }]
<1>0. MethodsOf[c] \subseteq Method
  BY ClassMethods
<1>1. X \in Families(c)
  BY DEF Families
<1>2. ASSUME NEW k \in MethodsOf[c]
      PROVE  FirstState[c][k] \in X[k]
  BY <1>0, ClassMethods, CoversMember DEF ClosedFor, Seeded
<1>3. ASSUME NEW m \in MethodsOf[c], NEW t \in X[m], NEW p \in Passes(m),
             Outcomes[m][t][p] # {}
      PROVE  \E r \in Outcomes[m][t][p] : \A k \in MethodsOf[c] : ChangeThis[k][r] \in X[k]
  <2>1. m \in Method /\ p \in 1 .. 2 /\ t \in State /\ Covers(done[m], t)
    BY <1>0, PassRange
  <2>2. PICK u \in done[m] : <<t, u>> \in MoreSpecific
    BY <2>1 DEF Covers
  <2>3. u \in State
    BY <2>1
  <2>4. /\ Outcomes[m][u][p] # {}
        /\ \A q \in Outcomes[m][u][p] : \E r \in Outcomes[m][t][p] :
              <<r, q>> \in MoreSpecific
    BY <1>3, <2>1, <2>2, <2>3 DEF MonotoneAnalysis
  <2>5. PICK q \in Outcomes[m][u][p] : \A k \in MethodsOf[c] : Covers(done[k], ChangeThis[k][q])
    BY <2>4 DEF ClosedFor, Absorbs
  <2>6. PICK r \in Outcomes[m][t][p] : <<r, q>> \in MoreSpecific
    BY <2>4
  <2>7. q \in State /\ r \in State
    BY <2>1, <2>3, OutcomeType
  <2>8. ASSUME NEW k \in MethodsOf[c]
        PROVE  ChangeThis[k][r] \in X[k]
    <3>1. k \in Method /\ ChangeThis[k][r] \in State /\ ChangeThis[k][q] \in State
      BY <1>0, <2>7, NextStateType
    <3>2. PICK v \in done[k] : <<ChangeThis[k][q], v>> \in MoreSpecific
      BY <2>5 DEF Covers
    <3>3. <<ChangeThis[k][r], ChangeThis[k][q]>> \in MoreSpecific
      BY <2>6, <2>7, <3>1 DEF MonotoneAnalysis
    <3>4. v \in State
      BY <3>1
    <3>5. <<ChangeThis[k][r], v>> \in MoreSpecific
      BY <3>1, <3>2, <3>3, <3>4 DEF MonotoneAnalysis
    <3>6. Covers(done[k], ChangeThis[k][r])
      BY <3>5 DEF Covers
    <3> QED BY <3>1, <3>6
  <2> QED BY <2>8
<1>4. HoldsSome(c, X)
  <2> HIDE DEF X
  <2> QED BY <1>2, <1>3 DEF HoldsSome, Seeded, Holds
<1> QED BY <1>1, <1>4

(* ... so the rows of a closed set include those that every analysis which *)
(* drops nothing writes, whatever outcomes it gets.                        *)
LEMMA ClosedCertain ==
    ASSUME MonotoneAnalysis, NEW c \in Class, NEW done \in [Method -> SUBSET State],
           ClosedFor(c, done)
    PROVE  CertainIssues[c] \subseteq IssuesOf(c, done)
<1> DEFINE X == [m \in MethodsOf[c] |-> { t \in State : Covers(done[m], t) }]
<1>1. X \in Families(c) /\ HoldsSome(c, X)
  BY ClosedHoldsSome
<1> SUFFICES ASSUME NEW i \in CertainIssues[c] PROVE i \in IssuesOf(c, done)
  OBVIOUS
<1>2. i \in RowsOf(c) /\ i \in IssuesOf(c, X)
  <2> HIDE DEF X
  <2> QED BY <1>1 DEF CertainIssues
<1> DEFINE m == i.method
<1>3. PICK s \in X[m], p \in Passes(m) :
         Outcomes[m][s][p] # {} /\ i.kind \in Issue[m][s][p]
  <2> HIDE DEF X
  <2> QED BY <1>2 DEF IssuesOf
<1>4. m \in MethodsOf[c] /\ m \in Method
  BY <1>2, ClassMethods DEF RowsOf
<1>5. s \in State /\ Covers(done[m], s)
  BY <1>3, <1>4
<1>6. PICK t \in done[m] : <<s, t>> \in MoreSpecific
  BY <1>5 DEF Covers
<1>7. t \in State
  BY <1>4
<1>8. Outcomes[m][t][p] # {} /\ i.kind \in Issue[m][t][p]
  BY <1>3, <1>4, <1>5, <1>6, <1>7 DEF MonotoneAnalysis
<1> QED BY <1>2, <1>8 DEF IssuesOf

(* The rows of a class lie between two bounds that no schedule, no order   *)
(* of the marks and no dropped state can move: all are rows of a possible  *)
(* state, and, if the analysis is monotone, the certain ones are there.    *)
THEOREM WritesBounded == Spec => []IssuesBounded
<1>1. IndInv /\ IssueInv /\ ReachInv /\ FixpointReached => IssuesBounded
  <2> SUFFICES ASSUME IndInv, IssueInv, ReachInv, FixpointReached, ClassEnded
               PROVE  /\ IssuesOf(cur, complete) \subseteq IssuesOf(cur, Possible[cur])
                      /\ MonotoneAnalysis =>
                            CertainIssues[cur] \subseteq IssuesOf(cur, complete)
    BY EndIsExact DEF IssuesBounded
  <2>1. cur \in Class /\ cur # 0 /\ complete \in [Method -> SUBSET State]
    BY DEF ClassEnded, IndInv, TypeOK, Class
  <2>2. ASSUME NEW i \in IssuesOf(cur, complete)
        PROVE  i \in IssuesOf(cur, Possible[cur])
    <3>1. /\ i \in RowsOf(cur) /\ i.method \in MethodsOf[cur]
          /\ \E s \in complete[i.method] : \E p \in Passes(i.method) :
                /\ Outcomes[i.method][s][p] # {}
                /\ i.kind \in Issue[i.method][s][p]
      BY DEF IssuesOf, RowsOf
    <3>2. complete[i.method] \subseteq Possible[cur][i.method]
      BY <2>1, <3>1 DEF ReachInv
    <3> QED BY <3>1, <3>2 DEF IssuesOf
  <2>3. MonotoneAnalysis => CertainIssues[cur] \subseteq IssuesOf(cur, complete)
    BY <2>1, ClosedCertain DEF FixpointReached
  <2> QED BY <2>2, <2>3
<1> QED BY <1>1, InvInductive, IssueInductive, ReachInductive, ReachesFixpoint, PTL

-----------------------------------------------------------------------------
(* The same of the operators as the instance of MethodFixpoint knows them. *)
LEMMA FixpointOperators ==
    /\ Fixpoint!Class = Class
    /\ \A m : Fixpoint!Passes(m) = Passes(m)
    /\ \A S, x : Fixpoint!Covers(S, x) <=> Covers(S, x)
BY DEF Fixpoint!Class, Class, Fixpoint!Passes, Passes, Fixpoint!NumPasses, NumPasses,
   Fixpoint!Covers, Covers

(***************************************************************************)
(* The promise itself: the set of taken states is closed under the         *)
(* analysis whenever a class is left.                                      *)
(***************************************************************************)

(* Every seed has been taken or is to be taken. *)
FixpointSeeded ==
    cur # 0 => \A n \in MethodsOf[cur] : FirstState[cur][n] \in complete[n] \cup incomplete[n]

(* Outcome r of pass p of m on s is redundant, or still owed, everywhere.  *)
FixpointHanded(m, s, p, r) ==
    \A n \in MethodsOf[cur] :
        \/ <<m, s, p, r, n>> \in Owed
        \/ Fixpoint!Covers(complete[n] \cup incomplete[n], ChangeThis[n][r])

(* Each pass over a taken state is still to be run or has been handed on.  *)
FixpointFollowed ==
    cur # 0 =>
        \A m \in MethodsOf[cur] : \A s \in complete[m] : \A p \in Fixpoint!Passes(m) :
            Outcomes[m][s][p] # {}
                => \/ <<m, s, p>> \in Runs
                   \/ \E r \in Outcomes[m][s][p] : FixpointHanded(m, s, p, r)

(* Before the first class there is nothing to take, to run or to hand over.*)
FixpointUnbegun ==
    cur = 0 => Owed = {} /\ Runs = {} /\ \A m \in Method : incomplete[m] = {}

FixpointInv == Fixpoint!TypeOK /\ FixpointUnbegun /\ FixpointSeeded /\ FixpointFollowed

-----------------------------------------------------------------------------
LEMMA FixpointInit == Fixpoint!Init => FixpointInv
<1> SUFFICES ASSUME Fixpoint!Init PROVE FixpointInv
  OBVIOUS
<1>1. 0 \in 0 .. NumClasses
  BY ClassModelAssumption
<1>2. [m \in Method |-> {}] \in [Method -> SUBSET State]
  OBVIOUS
<1>3. Fixpoint!TypeOK
  BY <1>1, <1>2 DEF Fixpoint!Init, Fixpoint!TypeOK
<1>4. FixpointUnbegun /\ FixpointSeeded /\ FixpointFollowed
  BY DEF Fixpoint!Init, FixpointUnbegun, FixpointSeeded, FixpointFollowed
<1> QED BY <1>3, <1>4 DEF FixpointInv

(* A step other than Begin that keeps what is known, and neither loses a   *)
(* debt without paying it nor a run without handing on its outcome.        *)
LEMMA FixpointKept ==
    ASSUME FixpointInv, Fixpoint!TypeOK', cur' = cur, cur # 0,
           \A n \in Method :
               complete[n] \cup incomplete[n] \subseteq complete'[n] \cup incomplete'[n],
           \A m \in MethodsOf[cur] : \A s \in complete'[m] : \A p \in Fixpoint!Passes(m) :
               s \notin complete[m] => <<m, s, p>> \in Runs',
           \A m \in MethodsOf[cur] : \A s \in complete[m] : \A p \in Fixpoint!Passes(m) :
               /\ Outcomes[m][s][p] # {} /\ <<m, s, p>> \in Runs
               => \/ <<m, s, p>> \in Runs'
                  \/ \E r \in Outcomes[m][s][p] : \A n \in MethodsOf[cur] :
                        <<m, s, p, r, n>> \in Owed',
           \A m, s, p, r : \A n \in MethodsOf[cur] :
               <<m, s, p, r, n>> \in Owed
               => \/ <<m, s, p, r, n>> \in Owed'
                  \/ Fixpoint!Covers(complete'[n] \cup incomplete'[n], ChangeThis[n][r])
    PROVE  FixpointInv'
<1> USE DEF FixpointInv
<1>1. MethodsOf[cur] \subseteq Method
  BY ClassMethods DEF Fixpoint!TypeOK, Class
<1>2. FixpointUnbegun'
  BY DEF FixpointUnbegun
<1>3. FixpointSeeded'
  BY <1>1 DEF FixpointSeeded
<1>4. ASSUME NEW m \in MethodsOf[cur], NEW s \in complete'[m], NEW p \in Fixpoint!Passes(m),
             Outcomes[m][s][p] # {}
      PROVE  \/ <<m, s, p>> \in Runs'
             \/ \E r \in Outcomes[m][s][p] : FixpointHanded(m, s, p, r)'
  <2>1. CASE s \in complete[m] /\ <<m, s, p>> \in Runs
    <3>1. CASE <<m, s, p>> \in Runs'
      BY <3>1
    <3>2. CASE \E r \in Outcomes[m][s][p] : \A n \in MethodsOf[cur] :
                  <<m, s, p, r, n>> \in Owed'
      BY <3>2 DEF FixpointHanded
    <3> QED BY <1>4, <2>1, <3>1, <3>2
  <2>2. CASE s \in complete[m] /\ <<m, s, p>> \notin Runs
    <3>1. PICK r \in Outcomes[m][s][p] : FixpointHanded(m, s, p, r)
      BY <1>4, <2>2 DEF FixpointFollowed
    <3>2. ASSUME NEW n \in MethodsOf[cur]
          PROVE  \/ <<m, s, p, r, n>> \in Owed'
                 \/ Fixpoint!Covers(complete'[n] \cup incomplete'[n], ChangeThis[n][r])
      <4>1. CASE <<m, s, p, r, n>> \in Owed
        BY <4>1
      <4>2. CASE Fixpoint!Covers(complete[n] \cup incomplete[n], ChangeThis[n][r])
        BY <1>1, <4>2, CoversMonotone, FixpointOperators
      <4> QED BY <3>1, <4>1, <4>2 DEF FixpointHanded
    <3>3. FixpointHanded(m, s, p, r)'
      BY <3>2 DEF FixpointHanded
    <3> QED BY <3>3
  <2>3. CASE s \notin complete[m]
    BY <2>3
  <2> QED BY <2>1, <2>2, <2>3
<1>5. FixpointFollowed'
  BY <1>4 DEF FixpointFollowed
<1> QED BY <1>2, <1>3, <1>5

LEMMA FixpointBegin == FixpointInv /\ Fixpoint!Begin => FixpointInv'
<1> SUFFICES ASSUME FixpointInv, Fixpoint!Begin PROVE FixpointInv'
  OBVIOUS
<1> USE DEF FixpointInv
<1>1. cur + 1 \in Fixpoint!Class /\ cur' = cur + 1 /\ cur \in Nat
  BY ClassModelAssumption DEF Fixpoint!Begin, Fixpoint!TypeOK, Fixpoint!Class
<1>2. Fixpoint!TypeOK'
  <2>1. incomplete' \in [Method -> SUBSET State]
    BY <1>1, ClassMethods, FixpointOperators DEF Fixpoint!Begin, Fixpoint!TypeOK
  <2>2. cur' \in 0 .. NumClasses
    BY <1>1, ClassModelAssumption DEF Fixpoint!Class
  <2> QED BY <2>1, <2>2 DEF Fixpoint!Begin, Fixpoint!TypeOK
<1>3. FixpointSeeded'
  BY <1>1, ClassMethods, FixpointOperators DEF Fixpoint!Begin, FixpointSeeded
<1>4. FixpointFollowed'
  BY <1>1, ClassMethods, FixpointOperators DEF Fixpoint!Begin, FixpointFollowed
<1>5. FixpointUnbegun'
  BY <1>1 DEF FixpointUnbegun
<1> QED BY <1>2, <1>3, <1>4, <1>5

LEMMA FixpointTake ==
    ASSUME FixpointInv, NEW m \in Method, NEW s \in incomplete[m], Fixpoint!Take(m, s)
    PROVE  FixpointInv'
<1> USE DEF FixpointInv
<1>1. s \in State /\ cur' = cur /\ (main = "finished")' = (main = "finished")
  BY DEF Fixpoint!TypeOK, Fixpoint!Take
<1>2. cur # 0
  BY DEF FixpointUnbegun
<1>3. MethodsOf[cur] \subseteq Method
  BY <1>2, ClassMethods DEF Fixpoint!TypeOK, Class
<1>4. \A n \in Method : complete[n] \cup incomplete[n] \subseteq complete'[n] \cup incomplete'[n]
  BY DEF Fixpoint!TypeOK, Fixpoint!Take
<1>5. Runs' = Runs \cup { <<m, s, p>> : p \in Fixpoint!Passes(m) } /\ Owed' = Owed
  BY DEF Fixpoint!Take
<1>6. Fixpoint!TypeOK'
  <2>1. Runs' \subseteq Method \X State \X (1 .. 2)
    BY <1>1, <1>5, PassRange, FixpointOperators DEF Fixpoint!TypeOK
  <2>2. incomplete' \in [Method -> SUBSET State] /\ complete' \in [Method -> SUBSET State]
    BY <1>1 DEF Fixpoint!TypeOK, Fixpoint!Take
  <2> QED BY <1>1, <1>5, <2>1, <2>2 DEF Fixpoint!TypeOK
<1>7. ASSUME NEW a \in MethodsOf[cur], NEW t \in complete'[a], NEW p \in Fixpoint!Passes(a),
             t \notin complete[a]
      PROVE  <<a, t, p>> \in Runs'
  <2>1. a = m /\ t = s
    BY <1>3, <1>7 DEF Fixpoint!TypeOK, Fixpoint!Take
  <2> QED BY <1>5, <2>1
<1> QED BY <1>1, <1>2, <1>4, <1>5, <1>6, <1>7, FixpointKept

LEMMA FixpointRunNothing ==
    ASSUME FixpointInv, NEW m \in Method, NEW s \in State, NEW p \in 1 .. 2,
           Fixpoint!RunNothing(m, s, p)
    PROVE  FixpointInv'
<1> USE DEF FixpointInv
<1>1. /\ cur' = cur /\ (main = "finished")' = (main = "finished")
      /\ complete' = complete /\ incomplete' = incomplete /\ Owed' = Owed
      /\ <<m, s, p>> \in Runs /\ Runs' = Runs \ {<<m, s, p>>} /\ Outcomes[m][s][p] = {}
  BY DEF Fixpoint!RunNothing
<1>2. cur # 0
  BY <1>1 DEF FixpointUnbegun
<1>3. Fixpoint!TypeOK'
  BY <1>1 DEF Fixpoint!TypeOK
<1>4. \A a, t, q : Outcomes[a][t][q] # {} /\ <<a, t, q>> \in Runs => <<a, t, q>> \in Runs'
  BY <1>1
<1> QED BY <1>1, <1>2, <1>3, <1>4, FixpointKept

LEMMA FixpointRun ==
    ASSUME FixpointInv, NEW m \in Method, NEW s \in State, NEW p \in 1 .. 2,
           NEW r \in State, Fixpoint!Run(m, s, p, r)
    PROVE  FixpointInv'
<1> USE DEF FixpointInv
<1>1. /\ cur' = cur /\ (main = "finished")' = (main = "finished")
      /\ complete' = complete /\ incomplete' = incomplete
      /\ <<m, s, p>> \in Runs /\ Runs' = Runs \ {<<m, s, p>>} /\ r \in Outcomes[m][s][p]
      /\ Owed' = Owed \cup { <<m, s, p, r, n>> : n \in MethodsOf[cur] }
  BY DEF Fixpoint!Run
<1>2. cur # 0
  BY <1>1 DEF FixpointUnbegun
<1>3. MethodsOf[cur] \subseteq Method
  BY <1>2, ClassMethods DEF Fixpoint!TypeOK, Class
<1>4. Fixpoint!TypeOK'
  BY <1>1, <1>3 DEF Fixpoint!TypeOK
<1>5. \A a, t, q : /\ <<a, t, q>> \in Runs
                   => \/ <<a, t, q>> \in Runs'
                      \/ \E x \in Outcomes[a][t][q] : \A n \in MethodsOf[cur] :
                            <<a, t, q, x, n>> \in Owed'
  BY <1>1
<1> QED BY <1>1, <1>2, <1>4, <1>5, FixpointKept

LEMMA FixpointDeliver ==
    ASSUME FixpointInv, NEW m \in Method, NEW n \in Method, NEW s \in State,
           NEW p \in 1 .. 2, NEW r \in State, Fixpoint!Deliver(m, s, p, r, n)
    PROVE  FixpointInv'
<1> USE DEF FixpointInv
<1> DEFINE x == ChangeThis[n][r]
<1>1. /\ cur' = cur /\ (main = "finished")' = (main = "finished") /\ complete' = complete
      /\ Runs' = Runs /\ <<m, s, p, r, n>> \in Owed /\ Owed' = Owed \ {<<m, s, p, r, n>>}
  BY DEF Fixpoint!Deliver
<1>2. x \in State
  BY NextStateType
<1>3. incomplete' = IF Fixpoint!Covers(complete[n] \cup incomplete[n], x) THEN incomplete
                    ELSE [incomplete EXCEPT ![n] = @ \cup {x}]
  BY DEF Fixpoint!Deliver
<1> HIDE DEF x
<1>4. \A a \in Method : incomplete[a] \subseteq incomplete'[a]
  BY <1>3 DEF Fixpoint!TypeOK
<1>5. Fixpoint!TypeOK'
  <2>1. incomplete' \in [Method -> SUBSET State]
    BY <1>2, <1>3 DEF Fixpoint!TypeOK
  <2> QED BY <1>1, <2>1 DEF Fixpoint!TypeOK
<1>6. cur # 0
  BY <1>1 DEF FixpointUnbegun
<1>7. Fixpoint!Covers(complete'[n] \cup incomplete'[n], x)
  <2>1. CASE Fixpoint!Covers(complete[n] \cup incomplete[n], x)
    BY <1>1, <1>3, <2>1
  <2>2. CASE ~Fixpoint!Covers(complete[n] \cup incomplete[n], x)
    <3>1. x \in complete'[n] \cup incomplete'[n]
      BY <1>3, <2>2 DEF Fixpoint!TypeOK
    <3> QED BY <1>2, <3>1, CoversMember, FixpointOperators
  <2> QED BY <2>1, <2>2
<1>8. \A a, t, q, y : \A b \in MethodsOf[cur] :
          <<a, t, q, y, b>> \in Owed
          => \/ <<a, t, q, y, b>> \in Owed'
             \/ Fixpoint!Covers(complete'[b] \cup incomplete'[b], ChangeThis[b][y])
  BY <1>1, <1>7 DEF x
<1> QED BY <1>1, <1>4, <1>5, <1>6, <1>8, FixpointKept

LEMMA FixpointStep == FixpointInv /\ [Fixpoint!Next]_(Fixpoint!vars) => FixpointInv'
<1> SUFFICES ASSUME FixpointInv, [Fixpoint!Next]_(Fixpoint!vars) PROVE FixpointInv'
  OBVIOUS
<1>1. CASE Fixpoint!Begin
  BY <1>1, FixpointBegin
<1>2. CASE \E m \in Method : \E s \in incomplete[m] : Fixpoint!Take(m, s)
  BY <1>2, FixpointTake
<1>3. ASSUME NEW d \in Runs, \/ Fixpoint!RunNothing(d[1], d[2], d[3])
                            \/ \E r \in State : Fixpoint!Run(d[1], d[2], d[3], r)
      PROVE  FixpointInv'
  <2>1. d[1] \in Method /\ d[2] \in State /\ d[3] \in 1 .. 2
    BY DEF FixpointInv, Fixpoint!TypeOK
  <2> QED BY <1>3, <2>1, FixpointRunNothing, FixpointRun
<1>4. CASE \E d \in Owed : Fixpoint!Deliver(d[1], d[2], d[3], d[4], d[5])
  <2>1. PICK d \in Owed : Fixpoint!Deliver(d[1], d[2], d[3], d[4], d[5])
    BY <1>4
  <2>2. /\ d[1] \in Method /\ d[2] \in State /\ d[3] \in 1 .. 2
        /\ d[4] \in State /\ d[5] \in Method
    BY DEF FixpointInv, Fixpoint!TypeOK
  <2> QED BY <2>1, <2>2, FixpointDeliver
<1>5. CASE Fixpoint!Finish \/ UNCHANGED Fixpoint!vars
  <2>1. /\ cur' = cur /\ incomplete' = incomplete /\ complete' = complete
        /\ Owed' = Owed /\ Runs' = Runs /\ (main = "finished")' \in BOOLEAN
    BY <1>5 DEF Fixpoint!Finish, Fixpoint!vars
  <2>2. Fixpoint!TypeOK'
    BY <2>1 DEF FixpointInv, Fixpoint!TypeOK
  <2>3. FixpointUnbegun'
    BY <2>1 DEF FixpointInv, FixpointUnbegun
  <2>4. FixpointSeeded'
    BY <2>1 DEF FixpointInv, FixpointSeeded
  <2>5. FixpointFollowed'
    BY <2>1 DEF FixpointInv, FixpointFollowed, FixpointHanded
  <2> QED BY <2>2, <2>3, <2>4, <2>5 DEF FixpointInv
<1> QED BY <1>1, <1>2, <1>3, <1>4, <1>5 DEF Fixpoint!Next

-----------------------------------------------------------------------------
(* The variables keep their types; in particular nothing that is not a     *)
(* state of the analysis is ever handed to a method.                       *)
THEOREM FixpointTypes == Fixpoint!Spec => []Fixpoint!TypeOK
<1>1. FixpointInv => Fixpoint!TypeOK
  BY DEF FixpointInv
<1> QED BY FixpointInit, FixpointStep, <1>1, PTL DEF Fixpoint!Spec

LEMMA FixpointSettled == FixpointInv => Fixpoint!SettledIsClosed
<1> SUFFICES ASSUME FixpointInv, Fixpoint!Settled, cur # 0
             PROVE  Fixpoint!ClosedFor(cur, complete)
  BY DEF Fixpoint!SettledIsClosed
<1>1. MethodsOf[cur] \subseteq Method
  BY ClassMethods DEF FixpointInv, Fixpoint!TypeOK, Class
<1>2. \A n \in MethodsOf[cur] : complete[n] \cup incomplete[n] = complete[n]
  BY <1>1 DEF Fixpoint!Settled
<1>3. Owed = {} /\ Runs = {}
  BY DEF Fixpoint!Settled
<1>4. Fixpoint!Seeded(cur, complete)
  BY <1>2 DEF FixpointInv, FixpointSeeded, Fixpoint!Seeded
<1>5. ASSUME NEW m \in MethodsOf[cur], NEW s \in complete[m], NEW p \in Fixpoint!Passes(m),
             Outcomes[m][s][p] # {}
      PROVE  \E r \in Outcomes[m][s][p] : Fixpoint!Absorbs(cur, complete, r)
  <2>1. PICK r \in Outcomes[m][s][p] : FixpointHanded(m, s, p, r)
    BY <1>3, <1>5 DEF FixpointInv, FixpointFollowed
  <2>2. \A n \in MethodsOf[cur] : Fixpoint!Covers(complete[n], ChangeThis[n][r])
    BY <1>2, <1>3, <2>1 DEF FixpointHanded
  <2> QED BY <2>2 DEF Fixpoint!Absorbs
<1> QED BY <1>4, <1>5 DEF Fixpoint!ClosedFor

(* What has been taken is closed under the analysis of every method when   *)
(* nothing is left to do.                                                  *)
THEOREM FixpointCloses == Fixpoint!Spec => []Fixpoint!SettledIsClosed
BY FixpointInit, FixpointStep, FixpointSettled, PTL DEF Fixpoint!Spec

(* A class is left only with a closed set of states.                       *)
THEOREM FixpointLeaves == Fixpoint!Spec => Fixpoint!LeftOnlyWhenClosed
<1>1. FixpointInv /\ [Fixpoint!Next]_(Fixpoint!vars)
        => [(cur' # cur \/ (main = "finished")' # (main = "finished")) /\ cur # 0
              => Fixpoint!ClosedFor(cur, complete)]_(Fixpoint!vars)
  <2> SUFFICES ASSUME FixpointInv, Fixpoint!Next,
                      cur' # cur \/ (main = "finished")' # (main = "finished"), cur # 0
               PROVE  Fixpoint!ClosedFor(cur, complete)
    BY DEF Fixpoint!vars
  <2>1. Fixpoint!Settled
    BY DEF Fixpoint!Next, Fixpoint!Begin, Fixpoint!Finish, Fixpoint!Take,
       Fixpoint!RunNothing, Fixpoint!Run, Fixpoint!Deliver
  <2> QED BY <2>1, FixpointSettled DEF Fixpoint!SettledIsClosed
<1> QED BY FixpointInit, FixpointStep, <1>1, PTL DEF Fixpoint!Spec, Fixpoint!LeftOnlyWhenClosed

(* So it is with the threads: the main thread leaves a class, or ends,     *)
(* only when the states that the tasks have taken are closed.              *)
THEOREM LeavesClosed == Spec => Fixpoint!LeftOnlyWhenClosed
BY Implements, FixpointLeaves, PTL DEF ImplementsFixpoint
=============================================================================
