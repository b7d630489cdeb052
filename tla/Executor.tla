------------------------------ MODULE Executor ------------------------------
(***************************************************************************)
(* The tree-walking interpreter (src/src/interp): Executor,                *)
(* UnaryOpExecutor, Closure::UserCall, CallStack and RuntimeState, run by  *)
(* Run on the root scope.                                                  *)
(*                                                                         *)
(* The C++ code is a recursive visitor.  Its activations are the sequence  *)
(* "frames" (the last one is running); "at" says which visit the           *)
(* activation waits for, or what it does next.  Every visit of a node is a *)
(* push, every return of a visitor a pop, so one action is the code        *)
(* between two visits.                                                     *)
(*                                                                         *)
(* The syntax tree is data: which statement or expression comes next, the  *)
(* outcome of a condition, of an operator, of a type test and the number   *)
(* of repetitions are chosen freely.  What is kept of the tree is what the *)
(* semantic analyzer guarantees: `exit` only inside a cycle of the same    *)
(* function, `return` only inside a function (StatementChecker), captured  *)
(* names and parameters of a closure disjoint (ExpressionChecker).         *)
(***************************************************************************)
EXTENDS Naturals, Sequences, FiniteSets, SequencesExt

CONSTANTS
  Names,       \* identifiers of the program
  RootNames,   \* what Run declares in the root scope: the name "input"
  Sites,       \* positions of calls, as the call stack records them
  Capacity,    \* CallStack::Capacity (option --callstack)
  TraceLimit,  \* RuntimeContext::StackTraceMaxEntries (option --tracelen)
  MaxDepth     \* bound on the activations: the nesting of the program

ASSUME ConstantsAssumption ==
  /\ RootNames \subseteq Names
  /\ Capacity \in Nat
  /\ TraceLimit \in Nat
  /\ MaxDepth \in Nat \ {0}

VARIABLES
  frames,  \* the C++ activations of the visitors, outermost first
  execs,   \* the live Executor objects: scope chain, is optExprValue set?
  state,   \* RuntimeContext::State
  calls,   \* RuntimeContext::Stack
  trace    \* the CallStackTrace of RuntimeState::Throwing

vars == <<frames, execs, state, calls, trace>>

-----------------------------------------------------------------------------
(* Activations.                                                            *)

LoopKinds == {"While", "For", "Loop"}
StatementKinds == {"Var", "If", "ShortIf", "Assign", "Print", "Return",
                   "ExprStmt"} \cup LoopKinds
ExpressionKinds == {"Operands", "Unary"}
Kinds == {"Body", "Access"} \cup StatementKinds \cup ExpressionKinds

\* Where ExecuteExpressionInThis is waiting for its expression.
TakesValue == {<<"Var", "init">>, <<"If", "cond">>, <<"ShortIf", "cond">>,
               <<"While", "cond">>, <<"For", "first">>, <<"For", "last">>,
               <<"Assign", "src">>, <<"Assign", "index">>, <<"Print", "item">>,
               <<"Return", "value">>, <<"Operands", "operand">>,
               <<"Unary", "operand">>}

\* Where Visit<Statement> is waiting for the Body or statement it controls.
Controls == {<<"If", "branch">>, <<"ShortIf", "then">>} \cup LoopKinds \X {"body"}

\* Where a call of a closure is in progress (Closure::UserCall): before and
\* during the visit of an expression body, during that of a statement body.
CallPcs == {"begin", "short", "long"}

\* Where an activation has opened an executor: arguments, indices and calls.
OpenPcs == {"arg"} \cup CallPcs

\* The visits an activation can wait for, and the points where it decides.
Positions == TakesValue \cup Controls \cup
  {<<"Body", "run">>, <<"Var", "next">>, <<"If", "start">>, <<"ShortIf", "start">>,
   <<"While", "start">>, <<"For", "start">>, <<"For", "iter">>, <<"Loop", "iter">>,
   <<"Assign", "start">>, <<"Assign", "chain">>, <<"Print", "next">>,
   <<"Return", "start">>, <<"ExprStmt", "start">>, <<"ExprStmt", "expr">>,
   <<"Operands", "next">>, <<"Unary", "start">>}
  \cup {"Unary", "Access"} \X {"ops", "arg"} \cup {"Unary"} \X CallPcs

NoName == "no name"
Chains == Seq(SUBSET Names)
Frame == {f \in [kind : Kinds, at : {p[2] : p \in Positions},
                 prev : Chains, name : Names \cup {NoName}] :
            /\ <<f.kind, f.at>> \in Positions
            /\ f.at = "init" => f.name \in Names}

\* The activation of a visitor that has just been entered.
FirstPc(k) == CASE k \in {"Var", "Print", "Operands"} -> "next"
                [] k = "Loop" -> "iter"
                [] k = "Body" -> "run"
                [] k = "Access" -> "ops"
                [] OTHER -> "start"

NewFrame(k, prev) ==
  [kind |-> k, at |-> FirstPc(k), prev |-> prev, name |-> NoName]

Top == Last(frames)
At(k, pc) == frames # <<>> /\ Top.kind = k /\ Top.at = pc
Pos(f) == <<f.kind, f.at>>

\* The visitor on top goes on at pc; with a nested visit of a node of kind k.
Goto(pc) == [frames EXCEPT ![Len(frames)].at = pc]
Enter(pc, k, prev) == Append(Goto(pc), NewFrame(k, prev))
Leave == Front(frames)
Room == Len(frames) < MaxDepth

\* A cycle of the running function is executing its body.  (Mutant: the checker
\* of a function literal inherits inCycle from the code around it.)
RunsBody(f) == f.kind \in LoopKinds /\ f.at = "body"
InCycleInherited == \E i \in DOMAIN frames : RunsBody(frames[i])
InCycle == \E i \in DOMAIN frames :
              /\ RunsBody(frames[i])
              /\ \A j \in i + 1 .. Len(frames) : frames[j].at \notin CallPcs

InFunction == \E i \in DOMAIN frames : frames[i].at \in CallPcs

-----------------------------------------------------------------------------
(* Executors, scopes, the call stack and the state.                        *)

Executors == [scopes : Chains, value : BOOLEAN]
States == {"Running", "Exiting", "Returning", "Throwing"}

Exec == Last(execs)
SetExec(e) == [execs EXCEPT ![Len(execs)] = e]
HasValue(b) == SetExec([Exec EXCEPT !.value = b])
NewExec(chain) == [scopes |-> chain, value |-> FALSE]

\* ScopeStack::Lookup searches the whole chain; Scope::Lookup one scope.
VisibleIn(e, x) == \E i \in DOMAIN e.scopes : x \in e.scopes[i]
Visible(x) == VisibleIn(Exec, x)
Taken(x) == x \in Last(Exec.scopes)
Declared(e, x) ==
  [e EXCEPT !.scopes[Len(e.scopes)] = @ \cup {x}, !.value = FALSE]

\* CallStack::Push.
CanPush == Len(calls) < Capacity

\* CallStack::Report: the whole stack, or its first and last entries.
\* (Mutants: the last entries begin one too early; the entries left out are
\* counted before the early return, and a short stack has less than none.)
ReportShifted(stack) ==
  LET n == Len(stack)
      firsthalf == TraceLimit \div 2
      secondhalf == TraceLimit - firsthalf
  IN IF n <= TraceLimit
     THEN [entries |-> stack, sep |-> 0, skipped |-> 0]
     ELSE [entries |-> SubSeq(stack, 1, firsthalf)
                         \o SubSeq(stack, n - secondhalf, n - 1),
           sep |-> firsthalf, skipped |-> n - TraceLimit]

ReportCountsAlways(stack) ==
  LET n == Len(stack)
      firsthalf == TraceLimit \div 2
      secondhalf == TraceLimit - firsthalf
      skipped == n - TraceLimit
  IN IF n <= TraceLimit
     THEN [entries |-> stack, sep |-> 0, skipped |-> skipped]
     ELSE [entries |-> SubSeq(stack, 1, firsthalf)
                         \o SubSeq(stack, n - secondhalf + 1, n),
           sep |-> firsthalf, skipped |-> skipped]

Report(stack) ==
  LET n == Len(stack)
      firsthalf == TraceLimit \div 2
      secondhalf == TraceLimit - firsthalf
  IN IF n <= TraceLimit
     THEN [entries |-> stack, sep |-> 0, skipped |-> 0]
     ELSE [entries |-> SubSeq(stack, 1, firsthalf)
                         \o SubSeq(stack, n - secondhalf + 1, n),
           sep |-> firsthalf, skipped |-> n - TraceLimit]

NoTrace == [entries |-> <<>>, sep |-> 0, skipped |-> 0]
Traces == [entries : Seq(Sites), sep : Nat, skipped : Nat]

\* RuntimeContext::SetThrowingState, once the call stack is as it is now.
SetThrowingState == state' = "Throwing" /\ trace' = Report(calls')

\* The visitor on top reports a runtime error and returns.
ThrowAndLeave ==
  /\ UNCHANGED calls
  /\ SetThrowingState
  /\ frames' = Leave
  /\ execs' = HasValue(FALSE)

-----------------------------------------------------------------------------
(* Visits: "fs" and "es" are the activations and executors once the        *)
(* visitor on top has moved to the point where it waits.                   *)

\* Visit an expression: a leaf (literal, precomputed value, closure,
\* identifier) is evaluated at once, an identifier nobody declared throws,
\* everything else is an activation of its own.
VisitExpression(fs, es) ==
  /\ \/ /\ frames' = fs
        /\ execs' = [es EXCEPT ![Len(es)].value = TRUE]
        /\ UNCHANGED <<state, trace>>
     \/ /\ \E x \in Names : ~VisibleIn(Last(es), x)
        /\ frames' = fs
        /\ execs' = es
        /\ SetThrowingState
     \/ /\ Len(fs) < MaxDepth
        /\ \E k \in ExpressionKinds : frames' = Append(fs, NewFrame(k, <<>>))
        /\ execs' = es
        /\ UNCHANGED <<state, trace>>

Evaluate(pc) == UNCHANGED calls /\ VisitExpression(Goto(pc), HasValue(FALSE))

\* Visit a statement: `exit`, and `return` without a value, are leaves.
VisitStatement(fs, es) ==
  /\ execs' = es
  /\ \/ InCycle /\ frames' = fs /\ state' = "Exiting"
     \/ InFunction /\ frames' = fs /\ state' = "Returning"
     \/ /\ Len(fs) < MaxDepth
        /\ \E k \in StatementKinds :
             /\ k = "Return" => InFunction
             /\ k = "Loop" => Len(fs) + 1 < MaxDepth
             /\ frames' = Append(fs, NewFrame(k, <<>>))
        /\ UNCHANGED state
  /\ UNCHANGED <<calls, trace>>

\* VisitBody: the scope chain is saved in the activation and a scope pushed.
EnterBody(pc) ==
  /\ Len(frames) < MaxDepth
  /\ frames' = Append(Goto(pc), NewFrame("Body", Exec.scopes))
  /\ execs' = SetExec(NewExec(Append(Exec.scopes, {})))
  /\ UNCHANGED <<state, calls, trace>>

\* The visitor on top goes on, or returns, with nothing in optExprValue.
Continue(pc) ==
  /\ frames' = Goto(pc)
  /\ execs' = HasValue(FALSE)
  /\ UNCHANGED <<state, calls, trace>>

Return(es) ==
  /\ frames' = Leave
  /\ execs' = es
  /\ UNCHANGED <<state, calls, trace>>

\* The visitor on top restores the scopes it saved and returns.  (Mutant: not
\* when the block was left by a jump.)
RestoredIfRunning ==
  IF state = "Running" THEN [execs EXCEPT ![Len(execs)].scopes = Top.prev] ELSE execs
RestoredScopes == [execs EXCEPT ![Len(execs)].scopes = Top.prev]
RestoreAndReturn ==
  /\ frames' = Leave
  /\ execs' = RestoredScopes
  /\ UNCHANGED <<state, calls, trace>>

-----------------------------------------------------------------------------
(* ExecuteExpressionInThis.                                                *)

\* Every visitor returns at once when its expression did not end Running.
Propagate ==
  /\ frames # <<>> /\ Pos(Top) \in TakesValue
  /\ state # "Running"
  /\ Return(HasValue(FALSE))

\* Otherwise it goes on with the value it took.
Took(k, pc) == At(k, pc) /\ state = "Running" /\ Exec.value

\* Visitors that begin with an expression.
FirstExpression ==
  \/ \E k \in {"If", "ShortIf", "While"} : At(k, "start") /\ Evaluate("cond")
  \/ At("For", "start") /\ Evaluate("first")
  \/ At("Assign", "start") /\ Evaluate("src")
  \/ At("Return", "start") /\ Evaluate("value")
  \/ At("ExprStmt", "start") /\ Evaluate("expr")
  \/ At("Unary", "start") /\ Evaluate("operand")

-----------------------------------------------------------------------------
(* Statements.                                                             *)

\* VisitBody, one turn of its loop: the next statement, while Running.
\* (Mutant: the loop asks only whether an error occurred.)
BodyGoesOnUnlessThrowing == state # "Throwing"
BodyGoesOn == state = "Running"
BodyNext == At("Body", "run") /\ BodyGoesOn /\ VisitStatement(frames, execs)

\* VisitBody, after its last statement or the first that did not end Running.
BodyEnd == At("Body", "run") /\ RestoreAndReturn

\* VisitVarStatement: a name found anywhere in the chain is an error.
VarNext ==
  /\ At("Var", "next")
  /\ \E x \in Names :
       \/ Visible(x) /\ ThrowAndLeave
       \/ /\ ~Visible(x)
          /\ execs' = SetExec(Declared(Exec, x))
          /\ UNCHANGED <<frames, state, calls, trace>>
       \/ /\ ~Visible(x)
          /\ UNCHANGED calls
          /\ VisitExpression([frames EXCEPT ![Len(frames)].at = "init",
                                            ![Len(frames)].name = x], execs)

VarInit ==
  /\ Took("Var", "init") /\ ~Taken(Top.name)
  /\ frames' = [frames EXCEPT ![Len(frames)].at = "next",
                              ![Len(frames)].name = NoName]
  /\ execs' = SetExec(Declared(Exec, Top.name))
  /\ UNCHANGED <<state, calls, trace>>

VarEnd == At("Var", "next") /\ Return(execs)

IfCond ==
  /\ Took("If", "cond")
  /\ ThrowAndLeave \/ EnterBody("branch") \/ Return(HasValue(FALSE))

IfEnd == At("If", "branch") /\ Return(execs)

\* VisitShortIfStatement: the statement has a scope of its own.
ShortIfCond ==
  /\ Took("ShortIf", "cond")
  /\ \/ ThrowAndLeave
     \/ Return(HasValue(FALSE))
     \/ VisitStatement([frames EXCEPT ![Len(frames)].at = "then",
                                      ![Len(frames)].prev = Exec.scopes],
                       SetExec(NewExec(Append(Exec.scopes, {}))))

ShortIfEnd == At("ShortIf", "then") /\ RestoreAndReturn

WhileCond ==
  /\ Took("While", "cond")
  /\ ThrowAndLeave \/ EnterBody("body") \/ Return(HasValue(FALSE))

\* VisitForStatement, the bounds or the collection.
ForBegin ==
  /\ \E x \in Names \cup {NoName} :
       /\ frames' = [frames EXCEPT ![Len(frames)].at = "iter",
                                   ![Len(frames)].prev = Exec.scopes,
                                   ![Len(frames)].name = x]
       /\ execs' = IF x = NoName THEN HasValue(FALSE)
                   ELSE SetExec(NewExec(Append(Exec.scopes, {x})))
  /\ UNCHANGED <<state, calls, trace>>

ForFirst ==
  /\ Took("For", "first")
  /\ ThrowAndLeave \/ Evaluate("last") \/ ForBegin

ForLast == Took("For", "last") /\ (ThrowAndLeave \/ ForBegin)

ForIter ==
  /\ At("For", "iter")
  /\ EnterBody("body") \/ RestoreAndReturn

LoopIter == At("Loop", "iter") /\ EnterBody("body")

\* The body of a cycle has ended: once more, or `exit` is over, or unwind.
\* (Mutants: an error does not end the cycle; a cycle takes `return` too.)
CycleGoesOnThrowing == state \in {"Running", "Throwing"}
CycleGoesOn == state = "Running"
AfterCycleAlways == IF state = "Throwing" THEN state ELSE "Running"
AfterCycle == IF state = "Exiting" THEN "Running" ELSE state
CycleBody ==
  \E k \in LoopKinds :
    /\ At(k, "body")
    /\ \/ CycleGoesOn /\ Continue(IF k = "While" THEN "start" ELSE "iter")
       \/ /\ ~CycleGoesOn
          /\ frames' = Leave
          /\ execs' = IF k = "For" THEN RestoredScopes ELSE execs
          /\ state' = AfterCycle
          /\ UNCHANGED <<calls, trace>>

\* VisitAssignStatement: the source first, then the variable is looked up,
\* then all accessors but the last, then the last.
AssignSrc ==
  /\ Took("Assign", "src")
  /\ \/ ThrowAndLeave
     \/ Return(HasValue(FALSE))
     \/ Continue("chain")
     \/ /\ Len(frames) < MaxDepth
        /\ frames' = Append(Goto("chain"), NewFrame("Access", <<>>))
        /\ execs' = HasValue(FALSE)
        /\ UNCHANGED <<state, calls, trace>>

AssignLast ==
  /\ At("Assign", "chain")
  /\ \/ state = "Throwing" /\ Return(execs)
     \/ state # "Throwing" /\ (ThrowAndLeave \/ Return(execs) \/ Evaluate("index"))

AssignIndex == Took("Assign", "index") /\ (ThrowAndLeave \/ Return(HasValue(FALSE)))

PrintNext == At("Print", "next") /\ (Evaluate("item") \/ Return(execs))

PrintItem == Took("Print", "item") /\ Continue("next")

\* VisitReturnStatement with a value.
ReturnValue ==
  /\ Took("Return", "value")
  /\ frames' = Leave
  /\ execs' = HasValue(FALSE)
  /\ state' = "Returning"
  /\ UNCHANGED <<calls, trace>>

\* VisitExpressionStatement does not look at the state.
ExprStmtEnd == At("ExprStmt", "expr") /\ Return(HasValue(FALSE))

-----------------------------------------------------------------------------
(* Expressions.                                                            *)

\* Sums, terms, logical operators, relations, `not`, tuples and arrays.
OperandsNext == At("Operands", "next") /\ Evaluate("operand")

OperandsTook ==
  /\ Took("Operands", "operand")
  /\ \/ ThrowAndLeave
     \/ Continue("next")
     \/ frames' = Leave /\ UNCHANGED <<execs, state, calls, trace>>

UnaryOperand == Took("Unary", "operand") /\ Continue("ops")

AtOps == At("Unary", "ops") \/ At("Access", "ops")

\* A prefix, accessor or call that fails, also "Stack overflow!".
OpError == AtOps /\ ThrowAndLeave

OpsDone ==
  /\ AtOps
  /\ frames' = Leave
  /\ execs' = HasValue(Top.kind = "Unary")
  /\ UNCHANGED <<state, calls, trace>>

\* Arguments of a call and indices are evaluated by an executor of their own.
Argument ==
  /\ AtOps
  /\ UNCHANGED calls
  /\ VisitExpression(Goto("arg"), Append(execs, NewExec(Exec.scopes)))

ArgumentEnd ==
  /\ At("Unary", "arg") \/ At("Access", "arg")
  /\ \/ state = "Throwing" /\ frames' = Leave
     \/ state # "Throwing" /\ Exec.value /\ frames' = Goto("ops")
  /\ execs' = Front(execs)
  /\ UNCHANGED <<state, calls, trace>>

\* VisitCall and Closure::UserCall: the captured variables and, in a scope
\* below, the parameters; the body is a Body or an expression.
CallClosure ==
  /\ At("Unary", "ops") /\ CanPush
  /\ \E site \in Sites : calls' = Append(calls, site)
  /\ \E captured \in SUBSET Names : \E params \in SUBSET (Names \ captured) :
       LET chain == <<captured, params>> IN
       \/ /\ Len(frames) < MaxDepth
          /\ frames' = Append(Goto("long"), NewFrame("Body", chain))
          /\ execs' = Append(execs, NewExec(Append(chain, {})))
          /\ UNCHANGED <<state, trace>>
       \/ /\ frames' = Goto("begin")
          /\ execs' = Append(execs, NewExec(chain))
          /\ UNCHANGED <<state, trace>>

ShortBody ==
  /\ At("Unary", "begin")
  /\ UNCHANGED calls
  /\ VisitExpression(Goto("short"), execs)

\* Back in VisitCall: the call is popped, an error goes on, anything else is
\* the value of the call.  (Mutants: the early return for errors precedes Pop;
\* UserCall leaves the state Returning.)
PoppedUnlessThrowing == IF state = "Throwing" THEN calls ELSE Front(calls)
Popped == Front(calls)
AfterCallUnchanged == state
AfterCall == IF state = "Throwing" THEN state ELSE "Running"
CallEnd ==
  /\ \/ At("Unary", "long") /\ state # "Exiting"
     \/ At("Unary", "short") /\ (state # "Throwing" => Exec.value)
  /\ calls' = Popped
  /\ execs' = Front(execs)
  /\ frames' = IF state = "Throwing" THEN Leave ELSE Goto("ops")
  /\ state' = AfterCall
  /\ UNCHANGED trace

-----------------------------------------------------------------------------
(* The specification.                                                      *)

\* Run: the root scope, then the Body of the program.
Init ==
  /\ frames = <<NewFrame("Body", <<RootNames>>)>>
  /\ execs = <<NewExec(<<RootNames, {}>>)>>
  /\ state = "Running"
  /\ calls = <<>>
  /\ trace = NoTrace

Statement ==
  \/ BodyNext \/ BodyEnd \/ VarNext \/ VarInit \/ VarEnd \/ IfCond \/ IfEnd
  \/ ShortIfCond \/ ShortIfEnd \/ WhileCond \/ ForFirst \/ ForLast \/ ForIter
  \/ LoopIter \/ CycleBody \/ AssignSrc \/ AssignLast \/ AssignIndex
  \/ PrintNext \/ PrintItem \/ ReturnValue \/ ExprStmtEnd

Expression ==
  \/ OperandsNext \/ OperandsTook \/ UnaryOperand \/ OpError \/ OpsDone
  \/ Argument \/ ArgumentEnd \/ CallClosure \/ ShortBody \/ CallEnd

\* Run has returned; main looks at the state.
Terminated == frames = <<>> /\ UNCHANGED vars

Next == Propagate \/ FirstExpression \/ Statement \/ Expression \/ Terminated

\* One thread executes the program and does not pause.
Spec == Init /\ [][Next]_vars /\ WF_vars(Next)

-----------------------------------------------------------------------------
(* Properties.                                                             *)

TypeOK ==
  /\ frames \in Seq(Frame)
  /\ execs \in Seq(Executors)
  /\ state \in States
  /\ calls \in Seq(Sites) /\ Len(calls) <= Capacity
  /\ trace \in Traces

OpensExecutor(f) == f.at \in OpenPcs
IsCall(f) == f.at \in CallPcs

\* No visitor meets what it answers with a C++ exception or undefined
\* behaviour: ExpressionValue() without a value, `exit` out of a function,
\* a declaration of a name taken in its scope, Pop of an empty call stack.
NoCppException ==
  frames # <<>> =>
    /\ Pos(Top) \in TakesValue /\ state = "Running" => Exec.value
    /\ Top.at \in {"arg", "short"} /\ state # "Throwing" => Exec.value
    /\ ~(Top.at = "long" /\ state = "Exiting")
    /\ Pos(Top) = <<"Var", "init">> => ~Taken(Top.name)
    /\ IsCall(Top) => calls # <<>>

\* An expression ends Running or Throwing: visitors of operators, calls and
\* accessors rely on it, since they ask only IsThrowing; `exit` and `return`
\* under way are always inside a cycle and a function that will take them.
JumpsHaveTarget ==
  /\ state \in {"Exiting", "Returning"} =>
       /\ frames # <<>>
       /\ Pos(Top) \in Controls \cup {<<"Body", "run">>, <<"Unary", "long">>}
  /\ state = "Exiting" => InCycle
  /\ state = "Returning" => InFunction

\* The call stack holds one entry per closure being executed, on every path
\* out of a call, and at the end of the program none.
CallStackMatchesCalls ==
  Len(calls) = Cardinality({i \in DOMAIN frames : IsCall(frames[i])})

\* The executor that runs the activation i, and the scopes it started with.
Owner(i) == 1 + Cardinality({k \in 1 .. i - 1 : OpensExecutor(frames[k])})
HoldsScope(f) == \/ f.kind = "Body"
                 \/ Pos(f) = <<"ShortIf", "then">>
                 \/ f.kind = "For" /\ f.name # NoName
ForArgument(e) == \E k \in DOMAIN frames : frames[k].at = "arg" /\ Owner(k) = e - 1
InitialScopes(e) ==
  IF e = 1 THEN 1 ELSE IF ForArgument(e) THEN Len(execs[e - 1].scopes) ELSE 2

\* Every executor's chain has one scope per block it is inside, whatever the
\* route by which the blocks before were left.
ScopePerBlock ==
  \A e \in DOMAIN execs :
    Len(execs[e].scopes) =
      InitialScopes(e)
      + Cardinality({i \in DOMAIN frames : Owner(i) = e /\ HoldsScope(frames[i])})

\* The calls still active while an error unwinds are the outermost calls of
\* the trace it took: CallStackTrace keeps the first and last entries.
TraceExtendsCalls ==
  state = "Throwing" =>
    LET shown == Len(trace.entries)
        all == shown + trace.skipped
        first == IF trace.skipped = 0 THEN shown ELSE trace.sep
    IN /\ Len(calls) <= all
       /\ shown <= TraceLimit
       /\ \A i \in DOMAIN calls :
            /\ i <= first => trace.entries[i] = calls[i]
            /\ i > first + trace.skipped => trace.entries[i - trace.skipped] = calls[i]

\* While exiting, returning or throwing nothing is executed: activations,
\* executors and calls only go away, no scope gains a name, and an error
\* keeps its trace.
AbruptOnlyUnwinds ==
  [][state # "Running" =>
       /\ Len(frames') < Len(frames) \/ state' = "Running"
       /\ Len(execs') <= Len(execs)
       /\ \A e \in DOMAIN execs' : Len(execs'[e].scopes) <= Len(execs[e].scopes)
       /\ IsPrefix(calls', calls)
       /\ state = "Throwing" => UNCHANGED <<state, trace>>]_vars

\* Every `exit` and `return` reaches its cycle or call, every error the end
\* of Run.
JumpsLand ==
  /\ state = "Exiting" ~> state = "Running"
  /\ state = "Returning" ~> state = "Running"
  /\ state = "Throwing" ~> frames = <<>>

\* The analyzer accepts a declaration unless its own scope has the name
\* (src/src/semantic/tests/demos/37.d and 39.d: "ok: inner scope"), so only
\* such a declaration may be a run-time error.
RedeclarationIsLocal ==
  [][At("Var", "next") /\ state' = "Throwing" /\ Len(frames') < Len(frames)
       => \E x \in Names : Taken(x)]_vars

-----------------------------------------------------------------------------
(* The promise of ControlFlow, kept by the activations that are cycles and *)
(* calls.                                                                  *)

Context(i, k) == [level |-> i, kind |-> k]
OpenContexts ==
  {Context(i, "cycle") : i \in {j \in DOMAIN frames : RunsBody(frames[j])}}
  \cup {Context(i, "call") : i \in {j \in DOMAIN frames : IsCall(frames[j])}}

Status ==
  CASE state = "Exiting" -> "exiting"
    [] state = "Returning" -> "returning"
    [] state = "Throwing" -> "failed"
    [] OTHER -> IF frames = <<>> THEN "done" ELSE "running"

Promise == INSTANCE ControlFlow WITH
  Levels <- 1 .. MaxDepth, contexts <- OpenContexts, status <- Status

\* Every step of the interpreter, seen through its open cycles and calls, is
\* one that ControlFlow allows: a jump is taken by the innermost cycle or
\* call of its kind and by no other, and lets nothing be entered before.
KeepsPromise == Promise!Spec
=============================================================================
