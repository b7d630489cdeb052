----------------------------- MODULE ControlFlow -----------------------------
(***************************************************************************)
(* What the interpreter promises about `exit`, `return` and run-time       *)
(* errors (src/src/interp/README.md, RuntimeState): `exit` terminates      *)
(* execution until a cycle is reached, `return` until a call is left, an   *)
(* error altogether.  The state is the set of open contexts, the cycles    *)
(* and the calls being executed, ordered by nesting level, and what is     *)
(* under way.  Only the innermost context is ever left, and nothing is     *)
(* entered while a jump is under way.                                      *)
(***************************************************************************)
EXTENDS Naturals, FiniteSets

CONSTANTS
  Levels,    \* nesting levels a context may have, natural numbers
  Capacity   \* calls that may be open at a time

VARIABLES contexts, status

Contexts == [level : Levels, kind : {"cycle", "call"}]
OpenCalls == {c \in contexts : c.kind = "call"}
Innermost(kind) ==
  {c \in contexts : c.kind = kind /\ \A d \in contexts : d.level <= c.level}

Enter(kind) ==
  /\ status = "running"
  /\ \E n \in Levels :
       /\ \A c \in contexts : c.level < n
       /\ contexts' = contexts \cup {[level |-> n, kind |-> kind]}
  /\ UNCHANGED status

EnterCycle == Enter("cycle")

\* A call beyond the capacity is an error instead.
EnterCall == Cardinality(OpenCalls) < Capacity /\ Enter("call")

\* The innermost context ends by itself.
Leave ==
  /\ status = "running"
  /\ \E c \in Innermost("cycle") \cup Innermost("call") : contexts' = contexts \ {c}
  /\ UNCHANGED status

\* A jump begins; `exit` is inside a cycle, `return` inside a call.
Jump ==
  /\ status = "running"
  /\ \/ status' = "exiting" /\ Innermost("cycle") # {}
     \/ status' = "returning" /\ OpenCalls # {}
     \/ status' = "failed"
  /\ UNCHANGED contexts

\* A jump passes, or is taken by, the innermost context.
Unwind(kind, taken) ==
  /\ \E c \in Innermost(kind) : contexts' = contexts \ {c}
  /\ status' = IF taken THEN "running" ELSE status

ExitCycle == status = "exiting" /\ Unwind("cycle", TRUE)
ReturnPassesCycle == status = "returning" /\ Unwind("cycle", FALSE)
ReturnFromCall == status = "returning" /\ Unwind("call", TRUE)
ErrorPasses == status = "failed" /\ \E k \in {"cycle", "call"} : Unwind(k, FALSE)

Finish ==
  status = "running" /\ contexts = {} /\ status' = "done" /\ UNCHANGED contexts

Init == contexts = {} /\ status = "running"

Next == \/ EnterCycle \/ EnterCall \/ Leave \/ Jump \/ ExitCycle
        \/ ReturnPassesCycle \/ ReturnFromCall \/ ErrorPasses \/ Finish

Spec == Init /\ [][Next]_<<contexts, status>>
=============================================================================
