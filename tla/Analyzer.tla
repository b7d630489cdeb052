------------------------------ MODULE Analyzer ------------------------------
(***************************************************************************)
(* The semantic analyzer (src/src/semantic): StatementChecker, the parts   *)
(* of ExpressionChecker and UnaryOpChecker that use the timeline, and      *)
(* semantic::Analyze, next to the meaning of the program they check.       *)
(*                                                                         *)
(* The program is not given: one action checks the next statement, chosen  *)
(* freely, the way one traversal of the syntax tree does.  Beside the      *)
(* timeline goes "reach", what the statements so far can really do: the    *)
(* pairs <<s, t>> of stores such that the execution of the innermost cycle *)
(* or function body (or of the program) from s can be here with t.         *)
(* The analyzer replaces what it knows by precomputed values, drops code   *)
(* it takes for unreachable and calls it takes for effectless; that is     *)
(* right when what it knows holds of reach.                                *)
(*                                                                         *)
(* Programs with an error are rejected, so only statements that check are  *)
(* chosen; a variable is declared only where no other of its name is seen, *)
(* since the interpreter stops at any other declaration.                   *)
(***************************************************************************)
EXTENDS Timeline

CONSTANTS
  Constructs,  \* which of OddConstructs the program may have
  MaxSize,     \* bound on the statements of the program
  MaxNesting   \* bound on the nesting of bodies

\* What functions do beside assigning variables.
Output == "output"

\* Constructs the analyzer misjudges; without them it should be right.
OddConstructs ==
  {"read what a cycle assigned",  \* `i := 1; print i` in a cycle, i from outside
   "return in a cycle",           \* as the last statement of its body
   "call in a false while",       \* `while f(x) is int` when f returns a string
   "effect in a loop",            \* a `loop` in a function that prints or assigns
   "return in a lone if",         \* an `if` without else
   "end after a return"}          \* a function that may return or reach its end

ASSUME AnalyzerAssumption ==
  /\ Constructs \subseteq OddConstructs
  /\ Output \notin Names
  /\ MaxSize \in Nat
  /\ MaxNesting \in Nat

VARIABLES
  values,    \* ValueTimeline& values of the checkers that are running
  checkers,  \* the bodies being checked, outermost first
  reach,     \* what the program does up to here
  effects,   \* what calls of the functions made so far, pure or not, can do
  size       \* statements checked

vars == <<values, checkers, reach, effects, size>>

-----------------------------------------------------------------------------
(* The meaning of programs.                                                *)

Stores == [Names -> Values]

\* Stores in which the visible variables may be anything: what a body that is
\* executed again and again, or at any time, has to expect.
AnyStore(visible) == {s \in Stores : \A x \in Names \ visible : s[x] = None}
Identity(stores) == {<<s, s>> : s \in stores}

SetTo(R, x, vs) == UNION {{<<p[1], [p[2] EXCEPT ![x] = v]>> : v \in vs} : p \in R}
Copied(R, x, y) == {<<p[1], [p[2] EXCEPT ![x] = p[2][y]]>> : p \in R}
Visible(s, xs) == [x \in Names |-> IF x \in xs THEN s[x] ELSE None]
VisibleOnly(R, xs) == {<<p[1], Visible(p[2], xs)>> : p \in R}

\* A call may leave anything in the variables the functions assign.
Called(R, does) ==
  LET xs == does \cap Names
  IN UNION {{<<p[1], [x \in Names |-> IF x \in xs THEN w[x] ELSE p[2][x]]>> :
                w \in [xs -> Values]} : p \in R}

\* Conditions: `x is t`; something of unknown type; a comparison of values of
\* known types; one that calls a function that is not pure, with a known outcome
\* (`f(x) is int`) or not, and mentions one of Names or none (`input() is int`);
\* and what stands for that of `loop`.
Test(x, t) == [kind |-> "is", name |-> x, type |-> t]
Other(kind) == [kind |-> kind, name |-> None, type |-> None]
Call(kind, x) == [kind |-> kind, name |-> x, type |-> None]
CallKinds == {"call", "true call", "false call"}
Tests == {Test(x, t) : x \in DeclaredNames(values), t \in Types}
CallTests == {Call(k, x) : k \in CallKinds, x \in DeclaredNames(values) \cup {None}}
Conditions == Tests \cup CallTests \cup {Other("unknown"), Other("comparison")}

Calls(c) == c.kind \in CallKinds
Evaluated(R, c) == IF Calls(c) THEN Called(R, effects[FALSE]) ELSE R
Pass(R, c) ==
  CASE c.kind = "is" -> {p \in R : TypeOf(p[2][c.name]) = c.type}
    [] c.kind = "false call" -> {}
    [] OTHER -> R
Fail(R, c) ==
  CASE c.kind = "is" -> {p \in R : TypeOf(p[2][c.name]) # c.type}
    [] c.kind \in {"true call", "always"} -> {}
    [] OTHER -> R

\* The pairs of entry followed by any number of turns of body.
Repeated(entry, body) ==
  LET turns[n \in 0 .. Cardinality(Stores)] ==
        IF n = 0 THEN entry
        ELSE LET before == turns[n - 1]
             IN before \cup UNION {{<<p[1], q[2]>> : q \in {r \in body : r[1] = p[2]}} :
                                     p \in before}
  IN turns[Cardinality(Stores)]

Then(R, S) == UNION {{<<p[1], q[2]>> : q \in {r \in S : r[1] = p[2]}} : p \in R}

-----------------------------------------------------------------------------
(* The checkers.                                                           *)

NoType == "no return"
ReturnTypes == Types \cup {UnknownType, NoType}

\* AddReturnType.  (Mutant: the first type stays.)
AddReturnTypeFirst(a, b) == IF a = NoType THEN b ELSE a
AddReturnType(a, b) ==
  IF NoType \in {a, b} THEN (IF a = NoType THEN b ELSE a) ELSE Generalize(a, b)

\* A StatementChecker visiting a Body, with the statement the body belongs to:
\* its condition, the timeline and reach around the body (for an `else`: those
\* that the other branch has left), and for an `else` what the checker of the
\* other branch has found.
NoBranch == [term |-> "end", pure |-> TRUE, returned |-> NoType, uses |-> {}, exits |-> {}]
Checker(what, inFunction, inCycle, cond, saved, R, branch) ==
  [what |-> what, inFunction |-> inFunction, inCycle |-> inCycle, cond |-> cond,
   saved |-> saved, reach |-> R, branch |-> branch, exits |-> {},
   term |-> "end", pure |-> TRUE, returned |-> NoType, odd |-> FALSE,
   uses |-> {}, does |-> {}, gives |-> {}]

\* The scope of "input".
Outermost == [stack |-> <<NewScope>>, blind |-> <<>>]
Always == Other("always")

Top == Last(checkers)
Outer == checkers[Len(checkers) - 1]
SetTop(c) == [checkers EXCEPT ![Len(checkers)] = c]

\* Fresh RuntimeValue objects; copies of timelines share the others.
ObjectsOf(tl) ==
  UNION {{tl.stack[i].vars[x].object : x \in DOMAIN tl.stack[i].vars} : i \in DOMAIN tl.stack}
Objects == ObjectsOf(values) \cup UNION {ObjectsOf(checkers[i].saved) : i \in DOMAIN checkers}
Fresh == Min((1 .. Cardinality(Objects) + 1) \ Objects)

\* VisitBody goes on to the next statement unless one has left the body; the
\* rest is dropped as unreachable then.
NextStatement ==
  /\ checkers # <<>> /\ Top.term = "end"
  /\ size < MaxSize /\ size' = size + 1

\* A statement has been checked: VisitBody adds what its checker found.  In a
\* function the names it uses count, and what it does if it can be reached.
Checked(c, pure, uses, does) ==
  [c EXCEPT !.pure = @ /\ pure,
            !.uses = @ \cup (IF c.inFunction THEN uses ELSE {}),
            !.does = @ \cup (IF c.inFunction /\ reach # {} THEN does ELSE {})]

\* The body of a statement is about to be checked by c; the checker around it
\* is then as "outer".
Begin(outer, c, tl, R) ==
  /\ Len(checkers) < MaxNesting
  /\ checkers' = Append(SetTop(outer), c)
  /\ values' = StartScope(tl)
  /\ reach' = R

\* Reading in a cycle a variable from outside that it has assigned: not in
\* programs without this construct.
MayRead(tl, x) ==
  \/ "read what a cycle assigned" \in Constructs
  \/ ~\E i \in DOMAIN checkers : checkers[i].what = "cycle"
  \/ LET ext == Last(tl.stack).ext IN ~(x \in DOMAIN ext /\ ext[x])

\* What is looked up of a call: the function or an argument, or none of Names.
Mentioned(tl, x) == IF x = None THEN tl ELSE LookupVariable(tl, x)
MayMention(tl, x) == x # None => MayRead(tl, x)

-----------------------------------------------------------------------------
(* Statements without a body.                                              *)

\* A source: a literal, or a variable, known or not; VisitUnary takes an
\* operand of unknown type for impure.
Literal(v) == [tl |-> values, known |-> OfValue(v, Fresh), from |-> None, value |-> v]
Variable(y) ==
  [tl |-> LookupVariable(values, y), known |-> Known(values, y), from |-> y, value |-> None]
Sources ==
  {Literal(v) : v \in Values} \cup
  {Variable(y) : y \in {z \in DeclaredNames(values) : MayRead(values, z)}}
IsPure(src) == src.known.type # UnknownType
Uses(src) == {src.from} \cap Names
Moved(x, src) == IF src.from = None THEN SetTo(reach, x, {src.value}) ELSE Copied(reach, x, src.from)

VarStatement ==
  /\ NextStatement
  /\ \E x \in Names \ DeclaredNames(values), src \in Sources :
       /\ values' = Assign(Declare(src.tl, x, Fresh), x, src.known)
       /\ reach' = Moved(x, src)
       /\ checkers' = SetTop(Checked(Top, IsPure(src), Uses(src), {}))
  /\ UNCHANGED effects

AssignStatement ==
  /\ NextStatement
  /\ \E x \in DeclaredNames(values), src \in Sources :
       /\ values' = Assign(src.tl, x, src.known)
       /\ reach' = Moved(x, src)
       /\ checkers' = SetTop(Checked(Top, FALSE, Uses(src) \cup {x}, {x}))
  /\ UNCHANGED effects

PrintStatement ==
  /\ NextStatement
  /\ \E x \in DeclaredNames(values) :
       /\ MayRead(values, x)
       /\ values' = LookupVariable(values, x)
       /\ checkers' = SetTop(Checked(Top, FALSE, {x}, {Output}))
  /\ UNCHANGED <<reach, effects>>

\* A call of a function known to be pure is dropped; any other makes every
\* variable unknown.
CallStatement ==
  /\ NextStatement
  /\ \E pure \in BOOLEAN, x \in DeclaredNames(values) \cup {None} :
       LET tl == Mentioned(values, x)
       IN /\ MayMention(values, x)
          /\ values' = IF pure THEN tl ELSE MakeAllUnknown(tl)
          /\ reach' = Called(reach, effects[pure])
          /\ checkers' = SetTop(Checked(Top, pure, {x} \cap Names,
                                       effects[pure] \cup (IF pure THEN {} ELSE {Output})))
  /\ UNCHANGED effects

ExitStatement ==
  /\ NextStatement /\ Top.inCycle
  /\ checkers' = SetTop([Top EXCEPT !.term = "exited", !.pure = FALSE, !.exits = @ \cup reach])
  /\ reach' = {}
  /\ UNCHANGED <<values, effects>>

\* `return` without a value is Literal(None), which is what it returns.
ReturnStatement ==
  /\ NextStatement /\ Top.inFunction
  /\ \E src \in Sources :
       /\ values' = src.tl
       /\ checkers' = SetTop(
            [Checked(Top, IsPure(src), Uses(src), {}) EXCEPT
               !.term = "returned",
               !.returned = AddReturnType(@, src.known.type),
               !.gives = @ \cup {TypeOf(IF src.from = None THEN src.value ELSE p[2][src.from]) :
                                   p \in reach}])
  /\ reach' = {}
  /\ UNCHANGED effects

-----------------------------------------------------------------------------
(* Statements with bodies.                                                 *)

\* A condition on the timeline tl: is the outcome known, and what is known
\* once it is evaluated.
Outcome(tl, c) ==
  CASE c.kind = "is" /\ Known(tl, c.name).type # UnknownType ->
         IF Known(tl, c.name).type = c.type THEN "true" ELSE "false"
    [] c.kind = "true call" -> "true"
    [] c.kind = "false call" -> "false"
    [] OTHER -> "unknown"
AfterCondition(tl, c) ==
  IF Calls(c) THEN MakeAllUnknown(Mentioned(tl, c.name)) ELSE Mentioned(tl, c.name)
ConditionChecked(c, pure) ==
  Checked(Top, pure, {c.name} \cap Names, IF Calls(c) THEN effects[FALSE] \cup {Output} ELSE {})
MayTest(tl, c) == MayMention(tl, c.name)

\* VisitBody is over: EndScope, for a cycle or function also that of the scope
\* around the body, and nothing outside sees the variables of these scopes.
BodyTimeline == EndScope(values)
Around == IF Top.what \in {"cycle", "function"} THEN EndScope(BodyTimeline) ELSE BodyTimeline
VisibleNames == DeclaredNames(Around)
BodyReach == VisibleOnly(reach, VisibleNames)
KeptEffects(e) == [p \in BOOLEAN |-> e[p] \cap (VisibleNames \cup {Output})]

\* An `if` without else whose branch returns: not told to the function.
LoneReturn == Top.what = "then" /\ Top.cond.kind = "unknown" /\ Top.returned # NoType

\* How the branches of an `if` leave the cycle they are in.
Exits == IF Top.what = "cycle" THEN {} ELSE Top.exits \cup Top.branch.exits

\* The statement around the body on top has been checked: what the analyzer
\* found of it, and (uses) what remains of the names it needs.
Ended(pure, term, returned, uses) ==
  Append(Front(Front(checkers)),
    [Outer EXCEPT
       !.pure = @ /\ pure, !.term = term, !.returned = AddReturnType(@, returned),
       !.uses = @ \cup (uses \cap VisibleNames),
       !.odd = @ \/ Top.odd \/ LoneReturn,
       !.does = @ \cup (Top.does \cap (VisibleNames \cup {Output})),
       !.gives = @ \cup Top.gives,
       !.exits = @ \cup Exits])

\* VisitIfStatement and VisitShortIfStatement: the true branch.
IfBegin ==
  /\ NextStatement
  /\ \E c \in Conditions :
       LET tl == AfterCondition(values, c)
           R == Evaluated(reach, c)
           outcome == Outcome(values, c)
           pure == c.kind = "comparison" \/ (c.kind = "is" /\ outcome # "unknown")
       IN /\ MayTest(values, c)
          /\ Begin(ConditionChecked(c, pure),
                   Checker("then", Top.inFunction, Top.inCycle, Other(outcome), tl,
                           Fail(R, c), NoBranch),
                   tl, Pass(R, c))
  /\ UNCHANGED effects

Branch(c) == [term |-> c.term, pure |-> c.pure, returned |-> c.returned,
              uses |-> c.uses \cap VisibleNames, exits |-> c.exits]

\* The `else` starts from the timeline as it was after the condition.  (Mutant:
\* from the one the true branch leaves, its scope still open.)
ElseTimelineOpen == values
ElseTimeline == Top.saved
IfElse ==
  /\ checkers # <<>> /\ Top.what = "then"
  /\ checkers' = SetTop(
       [Checker("else", Top.inFunction, Top.inCycle, Top.cond, BodyTimeline,
                BodyReach, Branch(Top))
          EXCEPT !.does = Top.does, !.gives = Top.gives, !.odd = Top.odd])
  /\ values' = StartScope(ElseTimeline)
  /\ reach' = Top.reach
  /\ effects' = KeptEffects(effects)
  /\ UNCHANGED size

\* Without `else`: a condition known to be false leaves the timeline as it was.
IfEnd ==
  /\ checkers # <<>> /\ Top.what = "then"
  /\ CASE Top.cond.kind = "true" ->
            /\ checkers' = Ended(Top.pure, Top.term, Top.returned, Top.uses)
            /\ values' = BodyTimeline
       [] Top.cond.kind = "false" ->
            /\ checkers' = Ended(TRUE, "end", NoType, {})
            /\ values' = Top.saved
       [] OTHER ->
            /\ checkers' = Ended(Top.pure, "end", NoType, Top.uses)
            /\ values' = MergeTimelines(BodyTimeline, Top.saved)
  /\ reach' = BodyReach \cup Top.reach
  /\ effects' = KeptEffects(effects)
  /\ UNCHANGED size

\* Both branches left: by `exit` if one may.  (Mutant: also when one went on.)
BothTermsEither(a, b) ==
  IF "exited" \in {a, b} THEN "exited"
  ELSE IF "returned" \in {a, b} THEN "returned" ELSE "end"
BothTerms(a, b) ==
  IF "end" \in {a, b} THEN "end"
  ELSE IF "exited" \in {a, b} THEN "exited" ELSE "returned"

\* (Mutant: one pure branch is enough.)
EitherPure(a, b) == a \/ b
BothPure(a, b) == a /\ b

IfElseEnd ==
  /\ checkers # <<>> /\ Top.what = "else"
  /\ LET b == Top.branch
     IN CASE Top.cond.kind = "true" ->
               /\ checkers' = Ended(b.pure, b.term, b.returned, b.uses)
               /\ values' = Top.saved
          [] Top.cond.kind = "false" ->
               /\ checkers' = Ended(Top.pure, Top.term, Top.returned, Top.uses)
               /\ values' = BodyTimeline
          [] OTHER ->
               /\ checkers' = Ended(BothPure(b.pure, Top.pure), BothTerms(b.term, Top.term),
                                    AddReturnType(b.returned, Top.returned),
                                    Top.uses \cup b.uses)
               /\ values' = MergeTimelines(Top.saved, BodyTimeline)
  /\ reach' = BodyReach \cup Top.reach
  /\ effects' = KeptEffects(effects)
  /\ UNCHANGED size

\* The body of a cycle in its blind scope; R is one turn of it, if there is any.
CycleBegin(outer, c, tl, R) ==
  Begin(outer, Checker("cycle", Top.inFunction, TRUE, c, values, reach, NoBranch), tl, R)
AnyTurn == IF reach = {} THEN {} ELSE Identity(AnyStore(DeclaredNames(values)))

\* VisitWhileStatement: the condition is checked on a copy of the timeline
\* first, as the first turn will find it, then in the scope of the cycle.
WhileBegin ==
  /\ NextStatement
  /\ \E c \in Conditions :
       LET tl == StartBlindScope(values)
       IN /\ Outcome(values, c) # "false"
          /\ CycleBegin(ConditionChecked(c, FALSE), c, AfterCondition(tl, c),
                        Pass(Evaluated(AnyTurn, c), c))
  /\ UNCHANGED effects

\* A condition false at the start: the cycle is replaced by the condition if
\* that is not pure, and only then needs its name; the copy of the timeline the
\* condition was checked on is dropped, with all it has learnt from it.
WhileRemoved ==
  /\ NextStatement
  /\ \E c \in Conditions :
       LET checked == ConditionChecked(c, FALSE)
       IN /\ Outcome(values, c) = "false"
          /\ MayTest(values, c)
          /\ Calls(c) => "call in a false while" \in Constructs
          /\ reach' = Fail(Evaluated(reach, c), c)
          /\ checkers' = SetTop(IF Calls(c) THEN checked ELSE [checked EXCEPT !.uses = Top.uses])
  /\ UNCHANGED <<values, effects>>

\* VisitForStatement: over a range, or the items of an array or tuple.
ForBegin ==
  /\ NextStatement
  /\ \/ CycleBegin(Checked(Top, FALSE, {}, {}), Other("unknown"), StartBlindScope(values), AnyTurn)
     \/ \E x \in Names \ DeclaredNames(values), item \in {"int", UnknownType} :
          CycleBegin(Checked(Top, FALSE, {}, {}), Other("unknown"),
            Assign(Declare(StartBlindScope(values), x, Fresh), x, OfType(item)),
            SetTo(AnyTurn, x, IF item = "int" THEN Ints ELSE Values))
  /\ UNCHANGED effects

LoopBegin ==
  /\ NextStatement
  /\ CycleBegin(Top, Always, StartBlindScope(values), AnyTurn)
  /\ UNCHANGED effects

\* The cycle on top is not one for Constructs: the program is not followed.
Excluded ==
  /\ checkers # <<>> /\ Top.what = "cycle"
  /\ \/ Top.term = "returned" /\ "return in a cycle" \notin Constructs
     \/ /\ Top.cond.kind = "always" /\ Top.does \cap (VisibleNames \cup {Output}) # {}
        /\ "effect in a loop" \notin Constructs

\* VisitLoopBodyAndEndScope; `while` and `for` are never pure, a `loop` always.
\* (Mutant: what the body assigned is not forgotten.)
ForgetNothing(tl, ext) == tl
ForgetAssigned(tl, ext) == AssignAllUnknown(tl, {x \in DOMAIN ext : ext[x]})
CycleEnd ==
  /\ checkers # <<>> /\ Top.what = "cycle"
  /\ ~Excluded
  /\ LET again == Repeated(Top.reach, VisibleOnly(reach, VisibleNames))
     IN /\ values' = ForgetAssigned(Around, ReferencedExternals(BodyTimeline))
        /\ reach' = Fail(Evaluated(again, Top.cond), Top.cond)
                      \cup Then(again, VisibleOnly(Top.exits, VisibleNames))
        /\ checkers' = Ended(Top.cond.kind = "always",
                             IF Top.term = "returned" THEN "returned" ELSE "end",
                             Top.returned, Top.uses)
  /\ effects' = KeptEffects(effects)
  /\ UNCHANGED size

\* VisitFuncLiteral, in a statement that keeps the function: its parameters in
\* a blind scope on a copy of the timeline, then its body.
FunctionBegin ==
  /\ NextStatement
  /\ \E params \in SUBSET (Names \ DeclaredNames(values)) :
       LET declared == DeclareParameters(StartBlindScope(values), params)
       IN Begin(Top, Checker("function", TRUE, FALSE, Always, values, reach, NoBranch),
                declared, Identity(AnyStore(DeclaredNames(declared))))
  /\ UNCHANGED effects

AtFunctionEnd == checkers # <<>> /\ Top.what = "function"
Captured == DOMAIN ReferencedExternals(BodyTimeline)
ReturnType == IF Top.returned = NoType THEN "none" ELSE Top.returned

\* What the body refers to is captured: unknown from now on, since a call may
\* assign it, and used.
FunctionEnd ==
  /\ AtFunctionEnd
  /\ values' = AssignAllUnknown(Top.saved, Captured)
  /\ reach' = Top.reach
  /\ effects' = [KeptEffects(effects) EXCEPT ![Top.pure] =
                   @ \cup (Top.does \cap (VisibleNames \cup {Output}))]
  /\ checkers' = Append(Front(Front(checkers)), Checked(Outer, TRUE, Captured, {}))
  /\ UNCHANGED size

ProgramEnd ==
  /\ checkers # <<>> /\ Top.what = "program"
  /\ checkers' = <<>>
  /\ values' = BodyTimeline
  /\ reach' = BodyReach
  /\ effects' = KeptEffects(effects)
  /\ UNCHANGED size

-----------------------------------------------------------------------------
(* The specification.                                                      *)

\* Analyze: the scope of "input", then the Body of the program.
Init ==
  /\ values = StartScope(Outermost)
  /\ reach = Identity(AnyStore({}))
  /\ checkers = <<Checker("program", FALSE, FALSE, Always, Outermost, {}, NoBranch)>>
  /\ effects = [pure \in BOOLEAN |-> {}]
  /\ size = 0

\* Analyze has returned, or the program is not followed any further.
Terminated == (checkers = <<>> \/ Excluded) /\ UNCHANGED vars

Next ==
  \/ VarStatement \/ AssignStatement \/ PrintStatement \/ CallStatement
  \/ ExitStatement \/ ReturnStatement
  \/ IfBegin \/ IfElse \/ IfEnd \/ IfElseEnd
  \/ WhileBegin \/ WhileRemoved \/ ForBegin \/ LoopBegin \/ CycleEnd
  \/ FunctionBegin \/ FunctionEnd \/ ProgramEnd \/ Terminated

Spec == Init /\ [][Next]_vars

-----------------------------------------------------------------------------
(* Properties.                                                             *)

KnownSet == [type : Types \cup {UnknownType}, value : Values, object : Nat]
IsFunctionTo(f, S) == DOMAIN f \subseteq Names /\ \A x \in DOMAIN f : f[x] \in S
IsTimeline(tl) ==
  /\ \A i \in DOMAIN tl.stack :
       IsFunctionTo(tl.stack[i].vars, KnownSet) /\ IsFunctionTo(tl.stack[i].ext, BOOLEAN)
  /\ tl.blind \in Seq(1 .. Len(tl.stack) - 1)

\* The timelines of the branches of an `if` have the same scopes, blind ones
\* and variables when they are merged (what MergeTimelines asserts).
SameShape(a, b) ==
  /\ Len(a.stack) = Len(b.stack) /\ a.blind = b.blind
  /\ \A i \in DOMAIN a.stack : DOMAIN a.stack[i].vars = DOMAIN b.stack[i].vars

TypeOK ==
  /\ IsTimeline(values)
  /\ reach \subseteq Stores \X Stores
  /\ \A i \in DOMAIN checkers :
       /\ checkers[i].term \in {"end", "exited", "returned"}
       /\ checkers[i].returned \in ReturnTypes /\ checkers[i].odd \in BOOLEAN
       /\ IsTimeline(checkers[i].saved)
       /\ checkers[i].exits \subseteq Stores \X Stores
       /\ checkers[i].uses \subseteq Names
  /\ effects \in [BOOLEAN -> SUBSET (Names \cup {Output})]
  /\ size \in 0 .. MaxSize
  /\ checkers # <<>> /\ Top.what \in {"then", "else"} => SameShape(BodyTimeline, Top.saved)

\* What the timeline says of a variable holds on every execution that gets
\* here: precomputing it, or an operator on its type, changes nothing.
KnownValuesAreRight ==
  checkers # <<>> =>
    \A x \in DeclaredNames(values), p \in reach :
      LET known == Known(values, x)
      IN /\ IsValue(known) => p[2][x] = known.value
         /\ known.type # UnknownType => TypeOf(p[2][x]) = known.type

\* The statements VisitBody drops as unreachable cannot be reached.
DroppedIsUnreachable ==
  \A i \in DOMAIN checkers :
    i = Len(checkers) /\ checkers[i].term # "end" => reach = {}

\* A function taken for pure assigns nothing from outside and prints nothing:
\* its calls may be dropped, and may leave the timeline as it is.
PureIsEffectless == effects[TRUE] = {}

\* Every name the remaining code of a function takes from outside is captured
\* by its closure; the interpreter finds no other.  (Not so with a "call in a
\* false while": what it mentions is referred to in a copy of the timeline.)
CapturesWhatIsUsed == AtFunctionEnd => Top.uses \cap VisibleNames \subseteq Captured

\* The type a function is said to return is that of everything it returns,
\* none if its end is reached.
OddReturns ==
  (IF Top.odd THEN {"return in a lone if"} ELSE {})
    \cup (IF reach # {} /\ Top.returned # NoType THEN {"end after a return"} ELSE {})
ReturnTypeIsRight ==
  AtFunctionEnd /\ OddReturns \subseteq Constructs =>
    \/ ReturnType = UnknownType
    \/ Top.gives \cup (IF reach = {} THEN {} ELSE {"none"}) \subseteq {ReturnType}
=============================================================================
