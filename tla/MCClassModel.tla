---------------------------- MODULE MCClassModel ----------------------------
(***************************************************************************)
(* Small instances of the constants of ClassModel.  A state is the set of  *)
(* its nodes marked read, more specific when it has fewer.                 *)
(***************************************************************************)
EXTENDS ClassModel

CONSTANTS m1, m2, m3

MCState == {{}, {1}, {1, 2}}
MCMoreSpecific == {p \in MCState \X MCState : p[1] \subseteq p[2]}
MCIssueKind == {"ESCAPEARG", "ESCAPERET"}

(* Two classes, the second with one method. *)
TwoClasses == <<{m1, m2}, {m3}>>
MCFirst == [c \in Class |-> [m \in Method |-> {}]]
MCChangeThis == [m \in Method |-> [s \in MCState |-> s]]

(* Checking m1, with no mark yet, marks both nodes or, after an issue at   *)
(* the first, none; m2 marks node 1 on its second pass, and reaches the    *)
(* exit of its first only if that is marked; m3 marks all.  When both      *)
(* marks of m1 come first, m2's {1} is dropped as more specific; else m1   *)
(* and m2 are run on it.                                                   *)
MCOutcomes ==
    [m \in Method |-> [s \in MCState |-> [p \in 1 .. 2 |->
        CASE m = m1 -> IF s = {} THEN {{}, {1, 2}} ELSE {s}
          [] m = m2 /\ p = 1 -> IF 1 \in s THEN {s} ELSE {}
          [] m = m2 /\ p = 2 -> {s \cup {1}}
          [] OTHER -> {{1, 2}}]]]

MCIssue ==
    [m \in Method |-> [s \in MCState |-> [p \in 1 .. 2 |->
        CASE m = m1 -> (IF 1 \in s THEN {"ESCAPEARG"} ELSE {})
                       \cup (IF 2 \in s THEN {"ESCAPERET"} ELSE {})
          [] m = m2 -> IF p = 2 /\ 1 \in s THEN {"ESCAPERET"} ELSE {}
          [] OTHER -> IF 2 \in s THEN {"ESCAPERET"} ELSE {}]]]

(* The instance is one the second half of IssuesBounded speaks of, and     *)
(* what may and what must be written differ.                               *)
ASSUME MonotoneInstance ==
    /\ MonotoneAnalysis
    /\ \E c \in Class : CertainIssues[c] \notin {{}, IssuesOf(c, Possible[c])}
=============================================================================
