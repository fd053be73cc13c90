# Verification of ImmutabilityAnalysis

TLA+ models, TLC runs and TLAPS proofs for the LLVM passes under
`src/Immutability/ImmutabilityAnalysis`: for every C++ class of a package, they
analyse its public const methods together until no new object state appears,
and write to a database where a reference to the object's inside escapes
(`ESCAPEARG`, `ESCAPERET`). File names below are relative to that directory.

## 1. Inventory

| Component | State it keeps | Operations | Hard parts | What makes it correct |
|---|---|---|---|---|
| **Driver** (`ImmutabilityAnalysis.cpp/.h`: `runOnModule`, `analyzeMethods`, `iteration`, `runMethod`, `handleFinalState`, futures) | current record, `IncompleteMethodInitialStates`, `CompleteMethodInitialStates`, `Mutex`, 16 `Futures`, `ThreadPool` | next class, seed, launch a task, poll the futures, take a state, run a method over its passes, push a final state, end | a polling main thread and a pool of tasks share two maps under one mutex; a task's work is in neither map between two critical sections; both maps are cleared without the mutex | a class ends only at a fixed point; every issue and only those, under its own record; no task outlives its class; a state is analysed once; progress |
| **Class selection** (`runOnModule`'s class loop, `addSubStructs`, `findNonBaseType`) | the entry at hand, its methods, `CurrentType` | next entry, collect methods, filter, choose the type of the object | a set of pointers without order; a loop that ends at the first method without body | classes are analysed whole, and as their most derived type |
| **Dataflow engine** (`FunctionAnalysis.cpp/.h`: `run`, `merge`, `shouldWait`, `handleTerminator`, `getResult`; `getIgnoredEdges`) | worklist, graph per edge, graph per exit, ignored edge | take or postpone a block, merge, transfer, propagate to successors, result | states are replaced rather than joined, missing predecessors are guessed, forced visits, passes that ignore an edge | it stops, at a solution of the equations, that covers every path |
| **Interprocedural calls** (`handleCall`, `isRecursive`) | chain of `ParentAnalysis` | analyse a callee inside the caller, cut recursion | mutual recursion, callee with bottom result | finite stack, each function once on it |
| **Escape checks** (`getAllPointees`, `checkArgument`, `checkReturn`) | read marks on nodes | walk the nodes reachable from an argument or the return value | one break leaves the walk, another only an inner loop, while nodes are being marked: order of a set matters | every reachable node of the object is reported, in any order |
| **Graph, Node** (`Graph.h`, `Node.h`, `FunctionUtil.h`) | nodes, edges, mapping, bottom flag, the links of parts to their whole | merge, equivalent, moreSpecific, transfer functions, `createEmptyExceptThis`, `changeThis`, `fixupThis` | implementation files are not in the repository; a state goes from method to method of different base classes | `this` is the same subobject on every path; lattice laws |
| **MemoryAliases** (`MemoryAliases.h`) | four alias maps and two indices | add, addFrom, clear | indices survive `clear` | indices agree with maps |
| **ClassQuery** (`ClassQuery.cpp/.h`) | types, supertypes, public const methods, vtables, ignored instructions | tables filled once, then queried by all tasks; the search for a base inside a layout | breadth-first walks over several bases, name comparison, linked modules in which one struct type of a class replaces another, layouts that begin alike, insertion by a query | supertypes complete, methods hidden by their overriders only, slots of the nearest class, the right subobject found |
| **MemQuery** (`MemQuery.cpp/.h`) | allocation, zero and ignored instruction sets | one pass over the instructions | uses that disagree; an ignored instruction whose value is still read | what is skipped has its mark elsewhere, and nothing reads its value |
| **Database** (`Database.cpp/.h`) | connection, current record | read classes and methods, `addIssue`, `finish` | called by tasks while the main thread moves on | rows carry the record they belong to |
| Hellooo, tests, build tree | - | tutorial pass, an input file, generated files | none | not modelled |

How they interact: `ClassQuery::runOnModule` and `MemQuery` fill their tables once
per module. The main thread then calls `runOnModule`, which chooses for each
class the methods and the type of the object; tasks of the pool run
`iteration`, which calls the dataflow engine (which calls itself for each call
instruction), then the escape checks and `addIssue`, then `handleFinalState`,
which hands the state to the other methods (`changeThis`, which searches for the
base class in the object's layout) and so gives the driver new work. `Query`
gives all tasks shared access to the tables of ClassQuery and MemQuery. Shared
state: the two maps (`Mutex`), the database connection (its own mutex), and,
without a lock, `CurRecordDeclID`, `IterationNum`, `DELETENumCalls` and the tables
of ClassQuery. Nothing is persisted but the issue rows, so there is no recovery
to model.

The hazards of the code, each at its line, are in `PROJECT.json`; those that no
property covers say why.

## 2. Modules

| Module | Role |
|---|---|
| `ClassModel` | constants of a program under analysis: classes, methods, states, what a pass over a state may hand on and what it reports (`Outcomes`, `Issue`), `moreSpecific` |
| `MethodFixpoint` | abstract specification: what the analysis of a class promises, without threads |
| `AnalyzeMethods` | the driver: main thread and tasks, mutex, futures, pool; implements `MethodFixpoint` (checked and proved) |
| `FunctionAnalysis` | the dataflow engine on an arbitrary control-flow graph |
| `CallStack` | the calls: analyses nested in one another, recursion, results handed back |
| `EscapeCheck` | `runMethod` after the engine: checks, read marks, what the state handed on is |
| `IgnoredInsts` | the two passes that tell the engine which instructions to skip |
| `ClassTables` | the tables of ClassQuery: types, supertypes, methods, virtual slots |
| `StructLayout` | constants and helpers: struct types, base types, places in an object |
| `ClassSelection` | the class loop up to `analyzeMethods` |
| `SupertypeSearch` | `getSupertypeIndices`, queue entry by queue entry |
| `ThisObject` | the object that methods hand to each other |
| `ObjectTypes` | composes the last three: the loop chooses the type, the object is created with it, each hand-off runs the search |
| `MC...` | instances for TLC: `MCClassModel`, `MCAnalyzeMethods`, `MCFunctionAnalysis`, `MCCallStack`, `MCEscapeCheck`, `MCIgnoredInsts`, `MCClassTables`, `MCStructLayout`, `MCObjectTypes` |
| `NaturalsLemmas` | induction and recursion over the natural numbers, in a form the provers can use |
| `...Proofs` | theorems and proofs, see section 4 |

### AnalyzeMethods and the code

`cur` is `database::CurRecordDeclID`; `keys` and `incomplete` are the keys and
the vectors of `IncompleteMethodInitialStates` (an empty vector under a key is
a state of the program, and the reason for the second early return of
`iteration`); `complete` is the other map. `pc[w]` says where the task of
`Futures[w]` is, from `invalid` through `queued` in the pool to `ready`; `main`
and `scan` say where the main thread is in the loop test, `getFutureAvailable`
and `checkFutures`, which looks at one future per step. A task step is what it
does between two points where another thread could matter: `Lock`, `Pick` (the
first critical section), `Run` (the engine and the issues), `Push` (one turn of
the loop of `handleFinalState` per step) and `UnlockFinal`. `BeginClass` is one
turn of the class loop: it clears and seeds both maps without the mutex, as
the code does. Vectors are sets; `begin()` and `pop_back` choose any key and any
state. `RunReport` adds all issues of one pass in one step: rows are inserted
under the database mutex and only their set matters. The state it hands on is any
one of `Outcomes`: `checkArgument` marks nodes in the order of a pointer set and
stops at its first issue, so what is marked is not a function of the state taken.

### FunctionAnalysis and the code

A graph is the set of facts it admits: `Graph::merge` is union and
`equivalent` is equality (neither is defined in the repository). What a block
does to a graph, with the calls in it, is the function `effect`, and a
conditional branch's `refineBool` is `refine`; both are arbitrary functions in
the proofs. `states` is `States`, keyed by edge; `exits` is `ExitStates`.
`TakeBlock`, `Wait` and `Visit` are the loop of `run`; `handleSuccessor` is one
turn of the loop of `handleTerminator`, so that a block that is its own
successor is modelled as the code treats it. `StartPass` and `EndPass` are the
calls of the engine by `iteration` and `runMethod`; `MethodPasses` is
`getIgnoredEdges`. A function is run either as a method, over its passes, or as
a callee, once and with no edge ignored. With assertions disabled a function
without exit states gets bottom, and so does the model.

### CallStack and the code

`stack` is the chain of `ParentAnalysis`, one record per `FunctionAnalysis`
object; `state` is its `MutableState`, `exits` its `ExitStates`. A graph is its
facts and the functions whose values its `Mapping` has nodes for: the map is keyed
by the callee's `Argument`s and instructions, the same for every call, so it is
right only while no function is entered twice at once. `handleCall` is the case
that starts an analysis, `Return` what follows it there; `IgnoredCall` and
`handleUnknownCall` are the early returns (a name on the list of calls without
effect, an entry block that is unreachable; recursion, no body, a name that is not
looked into, another number of arguments, no callee). `FunctionAnalysis` covers
control flow, so here a function is an entry block that switches to blocks that
return or end in an unreachable instruction, taken in any order. What unknown
calls and `eraseRelevant` do to a graph is external: all facts, and the removal
of the callee's values. A virtual call is a call whose callee the table has
given, or none.

### EscapeCheck and the code

A graph is the kinds of its nodes, the nodes they point to or hold (`kids`), their
this edges, and the marks. `args`, `Pointees` and `S` are what the three nested
loops (arguments, `getAllPointees`, reachable nodes) have still to visit; each step
visits one of them, any one, because they are sets ordered by address. `Reach`
has the two breaks apart: a node of the object leaves the loop, a this edge only
the loop over edges, so the walk goes on and may report and mark more.
`checkReturn` visits everything, so it is one step. `HandOff` is
`removeAllExcept` and `fixupThis`. For `AnalyzeMethods` what is reported is a function
of method and state, its constant `Issue`, because of `EscapesExact`; the marks of the
state handed on are not, `ReadBounds` says how far they vary, and so its
`Outcomes` are sets.

### IgnoredInsts and the code

A function body is a list of instructions with their operands; names are
replaced by what the code recognises them as. `VTableStore` and `VTableLoad` are
`handleVTablePointer` with its scan to the next call, `BitCast` and `Call` are the
two visits of MemQuery. `Skipped` and `Reads`, in the properties, are how `run` of
`FunctionAnalysis.cpp` uses the tables. `BodiesAssumption` holds the shape of
virtual calls which the casts and assertions of the code rely on: a chain of
loads, the last of which is only called. Any instructions may stand between that load
and the call, other calls too, since an argument may need them. The scan stops at
the first call, which need not be the virtual one; a copy or marker that it takes for it
(`TakenForVirtual`) is analysed although MemQuery ignores it.

### ClassTables and the code

`SkipFunction`, `IgnoredTypeFunction` and `AddMethod` are the three ways through
the body of the loop of `populateDirect`, one function per step; `StartType`,
`VisitClass` and `EndType` are `populateNonDirect`. The variables bear the names of
the code's tables. Small pointer sets iterate in insertion order, so they are
sequences where order matters. Signatures are trees, compared by
`isSameDemangleComponents` as the code does, with the result of `strncmp` taken
as it is; demangling itself is not modelled. In a module linked from several the
methods of one class may have struct types of different names (`class.A`,
`class.A.118`) as their `this`. `Record` then lets the type met last stand for the
class in `DebugTypeToType`, as the code does. `TypesFor` and `TypesAbove`, in
the properties, are the struct types that stand for classes in this sense.

### StructLayout, ClassSelection, SupertypeSearch, ThisObject and the code

A struct type has elements and a name, which is a stem, the suffix `.base` and
the number that linking may have added, all that `isBaseType` and
`findNonBaseType` look at. The constant `Height` says how deep structs nest: a
struct holds its elements by value, so it is never inside itself, and the walks over
what is inside one (`subStructs`, `places`) are functions by recursion over it. An
object `Holds` a class as its type, its base type, or itself. A place in an object is the list of element numbers that
leads to it, which is the `Idx` of a queue entry and what `getSupertypeIndices`
returns. `ClassSelection` has one step per method of an entry, with the set of
methods iterated in any order. In `SupertypeSearch` an entry of the queue is
popped by `Hit` or `Descend`, and `Return` gives its result to the caller.
`ThisObject` keeps `this` and the `SubStruct` links; its `getSupertypeIndices` is
the contract of the search (`Fits`, nearest first), and `FindsNearest` of
`ObjectTypes` shows that the search keeps it wherever it is called. In
`ObjectTypes` a hand-off that needs the search is `Call`, the steps of the search
and `Return`; the variable `CurrentType` is the one the loop sets and the object
reads. Its `PackagesAssumption` gives the lists of the database their types.

## 3. Runs

| Run | Question | Bounds, and why they are enough |
|---|---|---|
| `threads` | Safety of the driver in every interleaving; refinement of `MethodFixpoint` | 3 futures on 2 threads: two tasks conflict on the maps while a third waits in the queue; 2 classes, so the second sees what the first left behind; one method of the first has two passes and needs the other's result twice; the other leaves one of two states, so that, as the schedule has it, a state is dropped for a strictly more general one or is analysed. 910991 states |
| `threads_progress` | Does a class that is begun reach its fixpoint; are all classes analysed if the poll is prompt? | 2 futures, 2 threads, the same 2 classes |
| `worklist` | Solution, order of guesses, soundness, termination | every graph of 3 blocks with at most 2 different successors and every choice of 4 effects, and 7 shapes of 5 blocks (loops, nested, irreducible, two exits, unreached blocks, no exit) with throwing exits; 2 facts, refined branches; each as method and as callee. 1.6 million states |
| `no_exit_assert` (finding) | the assertion of `getResult` | functions that only throw |
| `nothing_merged` (finding) | the comment in `merge` | two parallel edges into the exit |
| `calls` | Does the analysis of a recursive program end, with no function entered twice and the outcomes of the program? | 3 functions, 2 facts, some 400 programs: leaves of every kind that `handleCall` tells apart; direct and mutual recursion of two and three functions, of methods on the list of ignored calls as well; calls of one function twice, with another arity, of no known callee |
| `escape_check` | Are issues exact, and which marks depend on the order? | every graph of 3 nodes of the four kinds; what belongs to the object, may be the same as it, is an argument or returned varied: a path of argument, pointee and object has three nodes |
| `ignored_insts` | Does the engine read the value of what it skips, lose its effect, or mistake a virtual call? | every well-typed body of up to 4 instructions about memory; constructors and methods with two virtual calls, with and without casts and arguments, and a memory idiom or another call between them and among their arguments |
| `ignored_insts_nested` (finding) | the comment on the scan to the virtual call | as `ignored_insts` |
| `class_tables` | Supertypes, hiding, slots | every hierarchy of 3 classes with 4 choices of methods each, `f` overloaded; a diamond with functions of every kind that `populateDirect` tells apart; a class with two struct types, a class derived from it and one from that, with the functions in every order |
| `slot_same_params` (finding) | the comment on virtual slots | as `class_tables` |
| `object_types` | From the database's lists to the object in every method | 18 struct types: bases with equal layouts, two levels of bases, a base twice, a class called `base`, a renamed base type, the two classes the code names; every set of up to 3 methods of 13 classes; lists of two entries with methods absent, empty or ignored. 39829 states |

Each property of a passing run has a mutant in `PROJECT.json`, a variant
`X_y` of a definition `X` with a plausible mistake, that violates it.
Deadlock is checked except in `ignored_insts`, `ignored_insts_nested` and
`escape_check`, whose
algorithms end (or stop at an `llvm_unreachable`).

**What the properties say.** For the driver: `FixpointReached` (a class ends
only with complete states closed under the analysis of all its methods),
`IssuesExact` (its rows are those of its complete states), `IssuesBounded` (no
schedule, order of the marks or dropped state adds a row that an analysis that
drops nothing cannot write; if the engine is monotone, none loses a row that
every such analysis writes: `MonotoneAnalysis` is what `moreSpecific` is relied
on for), `ClassSwitchAlone`, `TakenOnce`, and the refinement
`ImplementsFixpoint`. That the rows are the same in every run is not claimed:
which marks are there when a state is handed on depends on addresses, and with
it what is analysed next. For the engine: `Solution` (the list empties only at a
solution of the dataflow equations), `ForcedOnlyWhenAllWait`, `SoundResult` (for
every path of the control-flow graph to a return, with the effects applied along
it, some pass admits what is true there) and `Termination`. `SoundResult`
assumes monotone effects, and that the two edges of a conditional branch, and
the ignored edges of the two passes, differ; without the last it is false, see
`nothing_merged`.

For the calls: `StackDistinct` and `FreshMappings` (a function is entered with
none of its values mapped); `SoundCalls` compares the result with the least
solution of the program's recursive definition; `ExactCalls` says that where no
call is cut or unknown nothing is lost either, which fails if a state, once
merged for one call, were used for another, or if the code after a call that
does not return were analysed; `Termination`. Both comparisons take the calls on
the list of ignored names to be without effect, as the code does. A method whose
own name is on that list and that is called again below itself is left out of
`ExactCalls`: isRecursive comes before the list, so that call is unknown.

For the checks: `EscapesExact` compares the issues with a definition of escape
that does not walk; `ReadBounds` gives the marks that are certain and those that
depend on the order, which the breaks make it impossible to state as an
equality. For the instructions: `SkippedClosed` (no instruction that is analysed
reads the value of a skipped one, but for calls taken for virtual ones) and
`EffectsMarked` (a skipped allocation or memset has its mark on an instruction
that is not skipped). That a call has the slot of its own callee
(`CallsOwnSlot`) is false, see `ignored_insts_nested`.

For the tables, of the struct types that stand for their classes:
`SupertypesExact` against the closure of the bases; `HidesOnlySame` (a method is
missing only if one of the same signature, at least as near, is there, and none
is there twice), for signatures of builtin types, since class names are compared
the wrong way round, and names that no other function is compared by, since a
conversion is named by its target and all template arguments are dropped;
`DispatchesToNearest`, for single inheritance, since with two bases it is false,
see `slot_same_params`; `RevisitIdle` (the second visit of the top of a diamond
adds nothing). Of a struct type that another one of its class has replaced
nothing is claimed: its own methods are in no table, and `getVTableEntry` may
give a call through it no callee. For the object: `WholeClasses`,
`MostDerivedChosen` (in any order of the set), `FindsNearest` and
`RightSubobject` (the place found is of the class looked for, where no other
base has a layout that its own begins with), `DispatchesAsWhole`,
`PathIndependent` (the states that a method gets through different methods are
about one subobject, but where the search has ended at the class the code names,
which it accepts for any class) and `AlwaysFound` (the `llvm_unreachable` of the
search is not reached; the exceptions are the class that the loop treats by name
and classes without a common most derived one).

**Fairness.** In `threads_progress` the main thread and every running task are
weakly fair: the operating system runs each thread. `Start` and `Lock` are
strongly fair: the pool's queue is first in, first out, and a thread that keeps
asking for a mutex that is released again and again eventually gets it.
`FixpointEventually` needs no more, for a class that has been begun. That the
main loop ends, and so that the next class begins, does: the code launches a
task just before each test, so it may go on launching tasks that find nothing to
do, and it ends only if one poll finds all tasks done. `TerminationIfPrompt`
states exactly that assumption (`PoolPrompt`), and has all classes analysed
under it. The engine and its calls are sequential: weak fairness of the next
step. The other modules have loops over finite sets and no liveness property.

**Findings.** `no_exit_assert`: a function that only throws leaves no exit
state, against the assertion of `getResult`. `nothing_merged`: a switch with two
edges to the exit makes both passes of a method ignore all its paths, against
the comment of `merge`. `slot_same_params`: virtual tables of several bases are
merged by index, so methods of different names meet in a slot, against the
comment of `ClassQuery.cpp:721`. `ignored_insts_nested`: the scan that is to
skip what belongs to the arguments of a virtual call stops at a call that is an
argument, and gives it the slot, against `ClassQuery.cpp:780`.

## 4. Proofs

All for arbitrary values of the constants under the named assumptions
(`ClassModelAssumption`, `ReflexiveAssumption`, `DriverAssumption`,
`FunctionAssumption`, `CallAssumption`, `GraphsAssumption`, `BodiesAssumption`,
`ClassTablesAssumption`, `StructLayoutAssumption`, `NestingAssumption`,
`PackagesAssumption`), which TLC evaluates in the runs.

* `NaturalsLemmas`: induction with the property given as a set of numbers
  (`Induction`), which the provers can instantiate where they cannot the library's
  theorem over an operator, and the existence of functions defined by recursion
  over the numbers (`Iterates`), up to a bound (`StepsUpTo`) or over the height of
  trees (`Recursion`). With these a recursive function of a model is expanded in a
  proof, which a RECURSIVE operator could not be. The modules proved about use such
  functions only.

* `AnalyzeMethodsProofs`: `TypeCorrect`, `MutualExclusion`, `ReachesFixpoint`,
  `SwitchesAlone`, from the inductive invariant `IndInv` of `AnalyzeMethods`.
  Its core is `FollowInv`: each pass over a complete state is still to be run by a
  task (`ToRun`), or for one of its outcomes every method has, or is owed by a task
  (`OwedBy`), a state that covers it. This needs `JobInv` (a task's state
  is already complete), `MutexInv` (no two tasks change the maps at once),
  `KeysInv` (a state to be taken has a key, so an empty map means no state) and
  `MainInv` (between two classes no task exists). `FixpointReached` alone is not
  inductive: it says nothing of the middle of a class.
* `AnalyzeMethodsProofs`, on top of `IndInv`:
  `TakesOnce` from `Disjoint` (no state is complete and incomplete at once, which
  holds because a state covers itself).
  `Implements`: the refinement of `MethodFixpoint`, with `torun` and `owed` mapped to
  the passes that the tasks at work still have to run and the deliveries they still
  have to make. A step that takes a state adds its passes, a pass replaces itself by
  the debts of its outcome, a push removes one debt, all others leave both sets alone;
  that a pass or a push removes its own needs `Unique` (no two tasks work on the same state),
  which needs `Disjoint`.
  `WritesExactly` from `IssueInv`: each row is an issue of a complete state, and
  each issue of a complete state is a row or is due to a task (`ToRun`); at the
  end of a class there is no task.
  `WritesBounded`: the upper bound, which assumes nothing of the engine, from `ReachInv`
  (all known states are `Possible`: in every family of states closed under all
  outcomes). The lower one from `FixpointReached`: in a monotone analysis the states that
  a closed set covers are a family closed under one outcome of each pass, so the rows
  common to all such families (`CertainIssues`) are among its own, and a covered state
  has no issue its cover lacks. Monotony is a hypothesis about `moreSpecific`, whose
  source is missing; without it only the upper bound holds.
* `AnalyzeMethodsProofs`, about the abstract specification as the driver sees it, the
  instance `Fixpoint`: `FixpointTypes`, `FixpointCloses`, `FixpointLeaves`. The
  invariant `FixpointInv` says that each pass over a taken state is still to be run, or
  one of its outcomes is, for each method, owed or redundant in the states known; a class
  is left when nothing is to be taken, run or handed over. `LeavesClosed` joins `FixpointLeaves` and `Implements`: what is proved of
  the promise holds of the driver. No run checks the abstract specification by itself.
* `FunctionAnalysisProofs`: `TypeCorrect`, `Solves`, `GuessesLast`. `SolveInv`: a
  block that an edge has asked for is in the list, at hand, or consistent.
  `TermInv` handles a block that changes its own in-edge while its successors
  are updated; `WaitInv` (the blocks at the tail that this turn has tried still
  wait) and the absence of duplicates in the list make `Tries == MaxTries`
  mean a full turn, which is also why the bottom of a forced visit is what the
  equations give.
  `ResultsCoverPaths`, `SoundResults`: what an engine that had to guess nothing
  returns covers the effect of every path, of any length. By induction on the
  length of a path, what has travelled along it is contained in the state at its
  end (`Carries`); `PassInv` (each pass is to come, is running, or has covered
  every path without the edge it ignores, `Settled`) puts the passes together: a path
  takes at most one of the two edges into the exit, so it avoids the one that one of
  the passes ignores. `SoundResult`, which the run checks, looks at paths up to the
  number of pairs of a block and a graph: that finitely many graphs make longer
  ones superfluous is not needed for the proof, only for the bound to be a number.
* `CallStackProofs`: `TypeCorrect`, `NoReentry`, `DepthBounded`, `EntersFresh`, from
  `IInv`. `Mapped` is the strengthening: an analysis has values mapped only for the
  functions below it on the stack, its own, and that of the call it waits for;
  `Waiting` (a caller is still at its call) is what lets `Return` go on at the next
  instruction of the same block. The depth bound is the injection of stack
  positions into functions.
  `CallsAreSound`, `CallsAreExact`: from `FlowInv`. `ReturnsSolve` shows that the
  iteration of the reference definition has reached a solution after as many steps
  as there are triples of a function, a fact before it and a fact after it, because
  each level that is no solution is smaller than the next. `Admits` says that what
  may be true at the place an analysis is at, or at a return it is done with, is
  admitted there, `Precise` the converse, and `Called` that a callee has started
  from what its caller admits at the call; `Return` then carries the callee's
  result over. A function whose calls are followed to depth n calls only functions
  followed to a smaller depth (`Shallower`), so no call of it meets isRecursive and
  none is cut. Soundness needs no such hypothesis.
* `EscapeCheckProofs`: `PhasesCorrect`, `IssuesAreEscapes`, `MarksBounded`, for
  every finite graph and every order. `LeaksOwed`: while an
  issue that must come has not, the argument, pointee or node it comes from is
  still to be visited; `ReadOwed` says the same of the marks.
* `IgnoredInstsProofs`: `TypesCorrect`, `SkipsAreClosed`. `SkippedClosed` must
  hold between the two passes as well as after them, so `ClassFirst` (nothing is
  marked by MemQuery before its pass) joins it. The exception for `TakenForVirtual` is
  needed: a copy among the arguments of a virtual call reads bitcasts that MemQuery skips.
  `EffectsAreMarked` from `MarkInv` and `CastInv`: a call is ignored together
  with the mark that stands for its effect, and a bitcast is in a table for one
  reason only, so no mark is itself skipped and none has two meanings.
* `ClassTablesProofs`: `TypeCorrect`, `SupertypesComplete`, `SlotsNearest`,
  `RevisitsIdle`, `HidesSame`, for every hierarchy of classes, the first four from
  the invariant that `Tables` shows inductive.
  `PairInv`: every type has a debug type, for which some struct type stands, and the one
  that stands for a debug type has no other. It needs no assumption about how many struct
  types a class has, so the theorems hold for linked modules too. `LevelInv`: the queue is what is
  left of one level of the hierarchy, followed by what is known of the next. The
  first class found to define a slot is a nearest one because all nearer levels
  have been visited, and the table never changes a slot that is filled
  (`SlotsInv`). `MetInv`: the visited classes are closed under bases but for those
  in the queue, so with the queue empty they are the ancestors, neither more nor
  less. A second visit is idle because `SupersInv`, `MethodsInv` and `SlotsInv` say
  that all it could add is there.
  `HidesSame`, on top of `IndInv`: `SameSolves` expands the comparison of two
  signatures, `SameBuiltin` shows by induction over their height that on those of
  builtin types it is equality, and so `PlainCompare` that methods found to be the
  same override each other. `HiddenInv` says that a method of a visited class is in
  the table or hidden by one there of a class as near, because a class visited for
  the first time is at least as far as all those visited before (`VisitNear`);
  `ApartInv` that none is there twice. That trees are finite, and the same when
  their parts are, is assumed of the module (`TreesOK`).

* `ObjectTypesProofs`: `TypesHold`, `ClassesWhole`, `ChoosesMostDerived`,
  `SearchFindsNearest`, `FindsRightSubobject`, `SearchAgrees`, `CallsAreWhole`,
  `PathsAgree`, `SupertypesFound`, for any struct types, any lists of the database and
  any sequence of hand-offs, from the inductive invariant `IndInv` (`LoopInv`,
  `SearchInv`, `ObjectInv`). It stands on a theory of places, by induction over their
  length and over `Height`: `PlacesExact` (a place is a sequence that leads to a
  struct), `NotInside` (no struct is at a place inside itself), `SubStructsComplete`
  (`addSubStructs` finds the struct at every place, and its class).
  The loop: `Collecting` says what the methods met so far have made of the set.
  `HeldIsBelow` (what an object holds `addSubStructs` finds in it, and never the
  reverse) makes `Choosing` inductive: the type that holds all the others is chosen
  or is that of a method still to be visited, in any order.
  The search: every place that fits is below an entry of the queue (`Covered`), and
  the queue is in the order of the search (`Ordered`): one level, then the children of
  what has been popped of it. So a place found has none before it, and an empty
  queue means there is none. `SearchAgrees` states that the operator by which
  `ThisObject` describes the search has the same value, so that composing the two
  loses no behaviour.
  The object: `Parts` (a part is linked to the whole object) gives
  `DispatchesAsWhole`. `Located` says that `this` is the first place accepted for the
  class of the method. A hand-off that stays where it is, because `this` already
  leads to that class, keeps it: the first place accepted for one class that leads
  to another is the first accepted for that one too (`FirstOfType`), since a layout that
  is a prefix of a prefix is one itself. It fails for the class every search accepts.
  That exception of `PathIndependent` comes from the proof: without it the property
  passed TLC on smaller sets of types and is false for an object that has a base
  and then the named class as its elements (`D` in `MCStructLayout`). `AlwaysFound` is part of
  the invariant: the type chosen holds the class of every method, and what is held is
  accepted somewhere (`HeldAccepted`).

Every invariant and action property that a passing run checks is thereby also
proved. Only model-checked: liveness (`FixpointEventually`, `TerminationIfPrompt`, and
`Termination` of the engine and of the calls), which is out of the provers' reach.

## 5. Plan

What is done: the driver, the engine, the calls, the checks, the passes over
instructions, the tables, and the way from the class loop to the object, with all
their safety properties proved. What remains: `MemoryAliases` and the lattice
operations of `Node.h`, should the missing sources (`MemoryAliases.cpp`, `Graph.cpp`,
`Node.cpp`, `Merge.cpp`, `Equivalent.cpp`, `MoreSpecific.cpp`) become available.

## 6. Not modelled

* The transfer functions of instructions, PHI nodes and the lattice operations on
  graphs: their source is not in the repository, and the modules that need them
  take them as arbitrary functions. For the same reason `MemoryAliases`, whose
  callers alone say which sequences of its operations occur.
* `isSupertype`: no code calls it.
* The counters `IterationNum` and `DELETENumCalls`, which tasks increment without a
  lock: they only number dump files and debug output. The insertion of a missing
  key by `getVTableEntry` into the shared map of virtual tables: a map read while it
  grows has no defined outcome to check.
* The SQL queries and parameter binding of `Database.cpp`, dumps, printing, and
  demangling; the sample pass, the tests' input program and generated build files.
* Memory that runs out and exceptions in tasks: the code handles neither.
