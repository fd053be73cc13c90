-------------------------- MODULE EscapeCheckProofs --------------------------
(***************************************************************************)
(* Proofs about EscapeCheck: for graphs of any size, what is reported and  *)
(* marked does not depend on the order in which nodes are visited, beyond  *)
(* the bounds that ReadBounds states.                                      *)
(***************************************************************************)
EXTENDS EscapeCheck, TLAPS

InGraphs == g \in Graphs /\ (pc = "return" => g.ret # NoNode)

(* What of the object an argument's pointee leads to has been reported, or *)
(* is still to be visited.                                                 *)
LeaksOwed ==
    "ESCAPEARG" \in issues
    \/ \A A \in g.args : \A P \in getAllPointees(A) :
          Leaks(P) => \/ A \in args \/ P \in Pointees
                      \/ \E R \in S : R \in g.this \/ g.edges[R] # {}

(* What is reported leaks.                                                 *)
IssuesTrue ==
    /\ "ESCAPEARG" \in issues => EscapesByArgument
    /\ "ESCAPERET" \in issues => EscapesByReturn
    /\ pc \in {"fixup", "done"} /\ EscapesByReturn => "ESCAPERET" \in issues

(* What is being visited was reached from arguments.                       *)
FromArguments ==
    /\ Pointees \subseteq ArgPointees
    /\ S # {} => \E P \in ArgPointees : S \subseteq getReachable(P)

(* The pointee P has been dealt with, or is being dealt with.              *)
Full(P) ==
    /\ Ends({P}) \subseteq IsRead
    /\ getReachable(P) \cap g.this = {} =>
          \A R \in getReachable(P) : Ends({R}) \subseteq IsRead
InWork(P) ==
    /\ pc = "reach" /\ S \subseteq getReachable(P)
    /\ Ends({P}) \subseteq IsRead
    /\ \A R \in getReachable(P) : R \in S \/ Ends({R}) \subseteq IsRead

ReadOwed ==
    /\ \A A \in g.args \ args : \A P \in getAllPointees(A) :
          P \in Pointees \/ Full(P) \/ InWork(P)
    /\ pc \in {"fixup", "done"} => Ends(Returned) \subseteq IsRead

ReadAtMost == IsRead \subseteq g.read \cup MayRead

IndInv == /\ InGraphs /\ TypeOK /\ LeaksOwed /\ IssuesTrue /\ FromArguments
          /\ ReadOwed /\ ReadAtMost

-----------------------------------------------------------------------------
(* The operators of the graph alone stay what they are.                    *)
LEMMA Rigid ==
    ASSUME g' = g
    PROVE  /\ \A n : getReachable(n)' = getReachable(n)
           /\ \A n : getAllPointees(n)' = getAllPointees(n)
           /\ \A n : Leaks(n)' = Leaks(n)
           /\ \A N : Ends(N)' = Ends(N)
           /\ EscapesByArgument' = EscapesByArgument
           /\ EscapesByReturn' = EscapesByReturn
           /\ ArgPointees' = ArgPointees /\ Returned' = Returned
           /\ MustRead' = MustRead /\ MayRead' = MayRead
<1>1. \A n, in : From(n, in)' = From(n, in)
  BY DEF From
<1>2. \A n : getReachable(n)' = getReachable(n)
  BY <1>1 DEF getReachable
<1>3. \A n : getAllPointees(n)' = getAllPointees(n)
  BY <1>1 DEF getAllPointees
<1>4. \A n : Leaks(n)' = Leaks(n)
  BY <1>2 DEF Leaks
<1>5. \A N : Ends(N)' = Ends(N)
  BY DEF Ends
<1>6. EscapesByArgument' = EscapesByArgument /\ EscapesByReturn' = EscapesByReturn
  BY <1>3, <1>4 DEF EscapesByArgument, EscapesByReturn
<1>7. ArgPointees' = ArgPointees /\ Returned' = Returned
  BY <1>2, <1>3 DEF ArgPointees, Returned
<1>8. MustRead' = MustRead /\ MayRead' = MayRead
  BY <1>2, <1>5, <1>7 DEF MustRead, MayRead
<1> QED BY <1>2, <1>3, <1>4, <1>5, <1>6, <1>7, <1>8

LEMMA MarkedEnds == TypeOK /\ pc # "done" => \A N : Marked(N) = Ends(N)
  BY DEF TypeOK, Marked, Ends

LEMMA EndsOne == \A N : \A n \in N : Ends({n}) \subseteq Ends(N)
  BY DEF Ends

LEMMA EndsAll ==
    ASSUME NEW N, NEW R, \A n \in N : Ends({n}) \subseteq R
    PROVE  Ends(N) \subseteq R
<1> SUFFICES ASSUME NEW x \in Ends(N) PROVE x \in R
  OBVIOUS
<1>1. PICK n \in N : x \in Ends({n})
  BY DEF Ends
<1> QED BY <1>1

LEMMA InitInv == Init => IndInv
<1> SUFFICES ASSUME Init PROVE IndInv
  OBVIOUS
<1>1. InGraphs /\ TypeOK
  BY DEF Init, InGraphs, TypeOK
<1>2. LeaksOwed /\ IssuesTrue /\ FromArguments /\ ReadOwed /\ ReadAtMost
  BY DEF Init, LeaksOwed, IssuesTrue, FromArguments, ReadOwed, ReadAtMost
<1> QED BY <1>1, <1>2 DEF IndInv

LEMMA NextArgumentInv == IndInv /\ NextArgument => IndInv'
<1> SUFFICES ASSUME IndInv, NextArgument PROVE IndInv'
  OBVIOUS
<1> USE DEF IndInv
<1>1. PICK A \in args : Pointees' = getAllPointees(A) /\ args' = args \ {A}
  BY DEF NextArgument
<1>2. pc = "args" /\ pc' = "pointees" /\ UNCHANGED <<g, S, IsThis, IsRead, issues>>
  BY DEF NextArgument
<1>3. S = {} /\ args \subseteq g.args /\ Pointees = {}
  BY <1>2 DEF TypeOK
<1>4. InGraphs' /\ TypeOK'
  BY <1>1, <1>2, <1>3 DEF InGraphs, TypeOK
<1>5. LeaksOwed'
  BY <1>1, <1>2, <1>3, Rigid DEF LeaksOwed
<1>6. IssuesTrue' /\ ReadAtMost'
  BY <1>2, Rigid DEF IssuesTrue, ReadAtMost
<1>7. FromArguments'
  BY <1>1, <1>2, <1>3, Rigid DEF FromArguments, ArgPointees
<1>8. ReadOwed'
  <2>1. SUFFICES ASSUME NEW B \in g.args \ args', NEW P \in getAllPointees(B),
                        P \notin Pointees'
                 PROVE  Full(P)'
    BY <1>2, Rigid DEF ReadOwed
  <2>2. Full(P)
    BY <2>1, <1>1, <1>2, <1>3 DEF ReadOwed, InWork
  <2> QED BY <2>2, <1>2, Rigid DEF Full
<1> QED BY <1>4, <1>5, <1>6, <1>7, <1>8

LEMMA DoneInv == IndInv /\ (ArgumentsDone \/ PointeesDone \/ ReachDone) => IndInv'
<1> SUFFICES ASSUME IndInv, ArgumentsDone \/ PointeesDone \/ ReachDone PROVE IndInv'
  OBVIOUS
<1> USE DEF IndInv
<1>1. UNCHANGED <<g, args, Pointees, S, IsThis, IsRead, issues>>
  BY DEF ArgumentsDone, PointeesDone, ReachDone
<1>2. /\ pc' # "done" /\ pc' # "reach" /\ S = {} /\ pc # "done"
      /\ pc' \in {"args", "pointees", "return", "fixup"}
      /\ pc' # "pointees" => Pointees = {}
      /\ pc' \in {"return", "fixup"} => args = {}
      /\ pc' = "fixup" => g.ret = NoNode
      /\ pc' = "return" => g.ret # NoNode
  BY DEF ArgumentsDone, PointeesDone, ReachDone, TypeOK
<1>3. InGraphs' /\ TypeOK'
  BY <1>1, <1>2 DEF InGraphs, TypeOK
<1>4. LeaksOwed' /\ FromArguments' /\ ReadAtMost'
  BY <1>1, <1>2, Rigid DEF LeaksOwed, FromArguments, ReadAtMost
<1>5. IssuesTrue'
  BY <1>1, <1>2, Rigid DEF IssuesTrue, EscapesByReturn
<1>6. ReadOwed'
  <2>1. pc' = "fixup" => Ends(Returned) = {}
    BY <1>2 DEF Ends, Returned
  <2>2. SUFFICES ASSUME NEW B \in g.args \ args, NEW P \in getAllPointees(B),
                        P \notin Pointees
                 PROVE  Full(P)'
    BY <2>1, <1>1, <1>2, Rigid DEF ReadOwed
  <2>3. Full(P) \/ InWork(P)
    BY <2>2 DEF ReadOwed
  <2>4. Full(P)
    BY <2>3, <1>2 DEF Full, InWork
  <2> QED BY <2>4, <1>1, Rigid DEF Full
<1> QED BY <1>3, <1>4, <1>5, <1>6

LEMMA NextPointeeInv == IndInv /\ NextPointee => IndInv'
<1> SUFFICES ASSUME IndInv, NextPointee PROVE IndInv'
  OBVIOUS
<1> USE DEF IndInv
<1>1. PICK P \in Pointees : /\ IsRead' = IsRead \cup Marked({P})
                            /\ S' = getReachable(P) /\ Pointees' = Pointees \ {P}
  BY DEF NextPointee
<1>2. pc = "pointees" /\ pc' = "reach" /\ UNCHANGED <<g, args, IsThis, issues>>
  BY DEF NextPointee
<1>3. S = {} /\ P \in ArgPointees
  BY <1>1, <1>2 DEF TypeOK, FromArguments
<1>4. IsRead' = IsRead \cup Ends({P})
  BY <1>1, <1>2, MarkedEnds
<1>5. InGraphs' /\ TypeOK'
  BY <1>1, <1>2, <1>3 DEF InGraphs, TypeOK
<1>6. LeaksOwed'
  BY <1>1, <1>2, <1>3, Rigid DEF LeaksOwed, Leaks
<1>7. IssuesTrue'
  BY <1>2, Rigid DEF IssuesTrue
<1>8. FromArguments'
  BY <1>1, <1>2, <1>3, Rigid DEF FromArguments
<1>9. ReadAtMost'
  BY <1>2, <1>3, <1>4, Rigid, EndsOne DEF ReadAtMost, MayRead
<1>10. ReadOwed'
  <2>1. SUFFICES ASSUME NEW B \in g.args \ args, NEW Q \in getAllPointees(B),
                        Q \notin Pointees'
                 PROVE  Full(Q)' \/ InWork(Q)'
    BY <1>2, Rigid DEF ReadOwed
  <2>2. CASE Q = P
    BY <2>2, <1>1, <1>2, <1>4, Rigid DEF InWork
  <2>3. CASE Q # P
    <3>1. Full(Q)
      BY <2>1, <2>3, <1>1, <1>2 DEF ReadOwed, InWork
    <3> QED BY <3>1, <1>2, <1>4, Rigid DEF Full
  <2> QED BY <2>2, <2>3
<1> QED BY <1>5, <1>6, <1>7, <1>8, <1>9, <1>10

LEMMA ReachInv == IndInv /\ Reach => IndInv'
<1> SUFFICES ASSUME IndInv, Reach PROVE IndInv'
  OBVIOUS
<1> USE DEF IndInv
<1>1. pc = "reach" /\ UNCHANGED <<g, pc, args, Pointees, IsThis>>
  BY DEF Reach
<1>2. IsThis = g.this
  BY <1>1 DEF TypeOK
<1>3. PICK R \in S :
        /\ issues' = issues \cup IF R \in g.this \/ g.edges[R] # {}
                                 THEN {"ESCAPEARG"} ELSE {}
        /\ IF R \in g.this THEN S' = {} /\ IsRead' = IsRead
           ELSE S' = S \ {R} /\ IsRead' = IsRead \cup Marked({R})
  BY <1>2 DEF Reach
<1>4. IF R \in g.this THEN S' = {} /\ IsRead' = IsRead
      ELSE S' = S \ {R} /\ IsRead' = IsRead \cup Ends({R})
  BY <1>1, <1>3, MarkedEnds
<1>5. PICK P \in ArgPointees : S \subseteq getReachable(P)
  BY <1>3 DEF FromArguments
<1>6. InGraphs' /\ TypeOK'
  BY <1>1, <1>3 DEF InGraphs, TypeOK
<1>7. LeaksOwed'
  <2>1. CASE R \in g.this \/ g.edges[R] # {}
    BY <2>1, <1>3 DEF LeaksOwed
  <2>2. CASE ~(R \in g.this \/ g.edges[R] # {})
    BY <2>2, <1>1, <1>3, Rigid DEF LeaksOwed
  <2> QED BY <2>1, <2>2
<1>8. IssuesTrue'
  <2>1. Leaks(P) => EscapesByArgument
    BY DEF ArgPointees, EscapesByArgument
  <2>2. R \in g.this \/ g.edges[R] # {} => EscapesByArgument
    BY <2>1, <1>5 DEF Leaks
  <2> QED BY <2>2, <1>1, <1>3, Rigid DEF IssuesTrue
<1>9. FromArguments'
  BY <1>1, <1>4, <1>5, Rigid DEF FromArguments
<1>10. ReadAtMost'
  <2>1. Ends({R}) \subseteq Ends(getReachable(P))
    BY <1>5, EndsOne
  <2> QED BY <2>1, <1>1, <1>4, Rigid DEF ReadAtMost, MayRead
<1>11. ReadOwed'
  <2>1. SUFFICES ASSUME NEW B \in g.args \ args, NEW Q \in getAllPointees(B),
                        Q \notin Pointees
                 PROVE  Full(Q)' \/ InWork(Q)'
    BY <1>1, Rigid DEF ReadOwed
  <2>2. Full(Q) \/ InWork(Q)
    BY <2>1 DEF ReadOwed
  <2>3. CASE Full(Q)
    BY <2>3, <1>1, <1>4, Rigid DEF Full
  <2>4. CASE InWork(Q) /\ R \in g.this
    BY <2>4, <1>1, <1>4, Rigid DEF Full, InWork
  <2>5. CASE InWork(Q) /\ R \notin g.this
    <3>1. S' = S \ {R} /\ IsRead' = IsRead \cup Ends({R})
      BY <2>5, <1>4
    <3>2. pc' = "reach" /\ S' \subseteq getReachable(Q) /\ Ends({Q}) \subseteq IsRead'
      BY <2>5, <3>1, <1>1 DEF InWork
    <3>3. ASSUME NEW n \in getReachable(Q) PROVE n \in S' \/ Ends({n}) \subseteq IsRead'
      <4>1. n \in S \/ Ends({n}) \subseteq IsRead
        BY <2>5, <3>3 DEF InWork
      <4> QED BY <3>1, <4>1
    <3> QED BY <3>2, <3>3, <1>1, Rigid DEF InWork
  <2> QED BY <2>2, <2>3, <2>4, <2>5
<1> QED BY <1>6, <1>7, <1>8, <1>9, <1>10, <1>11

LEMMA ReturnInv == IndInv /\ checkReturn => IndInv'
<1> SUFFICES ASSUME IndInv, checkReturn PROVE IndInv'
  OBVIOUS
<1> USE DEF IndInv
<1>1. pc = "return" /\ pc' = "fixup" /\ UNCHANGED <<g, args, Pointees, S, IsThis>>
  BY DEF checkReturn
<1>2. IsThis = g.this /\ args = {} /\ Pointees = {} /\ S = {}
  BY <1>1 DEF TypeOK
<1>3. /\ IsRead' = IsRead \cup Ends(getReachable(g.ret))
      /\ issues' = issues \cup IF g.kind[g.ret] = "pointer" /\ Leaks(g.ret)
                               THEN {"ESCAPERET"} ELSE {}
  BY <1>1, <1>2, MarkedEnds DEF checkReturn, Leaks
<1>4. g.ret # NoNode
  BY <1>1 DEF InGraphs
<1>5. InGraphs' /\ TypeOK'
  BY <1>1, <1>2, <1>3 DEF InGraphs, TypeOK
<1>6. LeaksOwed' /\ FromArguments'
  BY <1>1, <1>2, <1>3, Rigid DEF LeaksOwed, FromArguments
<1>7. IssuesTrue'
  BY <1>1, <1>3, <1>4, Rigid DEF IssuesTrue, EscapesByReturn
<1>8. Ends(Returned) \subseteq IsRead'
  BY <1>3, <1>4 DEF Returned
<1>9. ReadAtMost'
  BY <1>1, <1>3, <1>4, Rigid DEF ReadAtMost, MayRead, Returned
<1>10. ReadOwed'
  <2>1. SUFFICES ASSUME NEW B \in g.args, NEW P \in getAllPointees(B)
                 PROVE  Full(P)'
    BY <1>1, <1>2, <1>8, Rigid DEF ReadOwed
  <2>2. Full(P)
    BY <2>1, <1>1, <1>2 DEF ReadOwed, InWork
  <2> QED BY <2>2, <1>1, <1>3, Rigid DEF Full
<1> QED BY <1>5, <1>6, <1>7, <1>9, <1>10

LEMMA HandOffInv == IndInv /\ HandOff => IndInv'
<1> SUFFICES ASSUME IndInv, HandOff PROVE IndInv'
  OBVIOUS
<1> USE DEF IndInv
<1>1. /\ pc = "fixup" /\ pc' = "done" /\ UNCHANGED <<g, args, Pointees, S, IsRead, issues>>
      /\ IsThis' = IsThis \cup getReachable(g.self)
  BY DEF HandOff, fixupThis
<1>2. args = {} /\ Pointees = {} /\ S = {}
  BY <1>1 DEF TypeOK
<1>3. InGraphs' /\ TypeOK'
  BY <1>1, <1>2 DEF InGraphs, TypeOK
<1>4. LeaksOwed' /\ IssuesTrue' /\ FromArguments' /\ ReadAtMost'
  BY <1>1, <1>2, Rigid
  DEF LeaksOwed, IssuesTrue, FromArguments, ReadAtMost
<1>5. ReadOwed'
  <2>1. SUFFICES ASSUME NEW B \in g.args, NEW P \in getAllPointees(B)
                 PROVE  Full(P)'
    BY <1>1, <1>2, Rigid DEF ReadOwed
  <2>2. Full(P)
    BY <2>1, <1>1, <1>2 DEF ReadOwed, InWork
  <2> QED BY <2>2, <1>1, Rigid DEF Full
<1> QED BY <1>3, <1>4, <1>5

LEMMA StutterInv == IndInv /\ UNCHANGED vars => IndInv'
<1> SUFFICES ASSUME IndInv, UNCHANGED vars PROVE IndInv'
  OBVIOUS
<1> USE DEF IndInv, vars
<1>1. InGraphs' /\ TypeOK'
  BY DEF InGraphs, TypeOK
<1>2. LeaksOwed' /\ IssuesTrue' /\ FromArguments' /\ ReadAtMost'
  BY Rigid DEF LeaksOwed, IssuesTrue, FromArguments, ReadAtMost
<1>3. ReadOwed'
  BY Rigid DEF ReadOwed, Full, InWork
<1> QED BY <1>1, <1>2, <1>3

LEMMA NextInv == IndInv /\ [Next]_vars => IndInv'
  BY NextArgumentInv, DoneInv, NextPointeeInv, ReachInv, ReturnInv, HandOffInv, StutterInv
  DEF Next

(* The phases of the checks and their loops are where they should be, and  *)
(* what belongs to the object changes only with the hand-off.              *)
THEOREM PhasesCorrect == Spec => []TypeOK
<1>1. IndInv => TypeOK
  BY DEF IndInv
<1> QED BY InitInv, NextInv, <1>1, PTL DEF Spec

(* For every graph and every order in which its nodes are visited, the     *)
(* issues are reported for what escapes and for nothing else: they depend  *)
(* on the graph alone.                                                     *)
THEOREM IssuesAreEscapes == Spec => []EscapesExact
<1>1. IndInv => EscapesExact
  <2> SUFFICES ASSUME IndInv PROVE EscapesExact
    OBVIOUS
  <2> USE DEF IndInv
  <2>1. pc = "done" => args = {} /\ Pointees = {} /\ S = {}
    BY DEF TypeOK
  <2>2. pc = "done" /\ EscapesByArgument => "ESCAPEARG" \in issues
    BY <2>1 DEF LeaksOwed, EscapesByArgument
  <2> QED BY <2>2 DEF EscapesExact, IssuesTrue
<1> QED BY InitInv, NextInv, <1>1, PTL DEF Spec

(* The marks of what the caller may read lie within bounds that the graph  *)
(* sets: all that is returned, all that arguments point to, and all that   *)
(* they reach where nothing of the object is met.                          *)
THEOREM MarksBounded == Spec => []ReadBounds
<1>1. IndInv => ReadBounds
  <2> SUFFICES ASSUME IndInv PROVE ReadBounds
    OBVIOUS
  <2> USE DEF IndInv
  <2>1. SUFFICES ASSUME pc = "done" PROVE MustRead \subseteq IsRead
    BY DEF ReadBounds, ReadAtMost
  <2>2. args = {} /\ Pointees = {} /\ Ends(Returned) \subseteq IsRead
    BY <2>1 DEF TypeOK, ReadOwed
  <2>3. \A P \in ArgPointees : Full(P)
    BY <2>1, <2>2 DEF ArgPointees, ReadOwed, InWork
  <2>4. Ends(ArgPointees) \subseteq IsRead
    BY <2>3, EndsAll DEF Full
  <2>5. \A P \in ArgPointees : getReachable(P) \cap g.this = {} =>
           Ends(getReachable(P)) \subseteq IsRead
    BY <2>3, EndsAll DEF Full
  <2> QED BY <2>2, <2>4, <2>5 DEF MustRead
<1> QED BY InitInv, NextInv, <1>1, PTL DEF Spec
=============================================================================
