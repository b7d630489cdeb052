# The D interpreter in TLA+

This directory holds a formal model of `dinterp` (the code under `src/src`), a
tree-walking interpreter for the dynamically typed language D: TLA+ modules,
the TLC configurations that check them on small instances, and TLAPS proofs of
what holds for every value of the constants. Definitions keep the names of the
C++ functions where TLA+ allows it; `PROJECT.json` maps each to its lines.

To check a run: `tlc -workers 2 -config Executor.cfg MCExecutor`; to check
the proofs: `tlapm` on each module named `..._proofs.tla` (twenty minutes in all).

## 1. Inventory

One thread runs a pipeline (`main/main.cpp`, `ProcessFile`): the lexer turns the
file into tokens, the parser into a syntax tree, the semantic analyzer checks
and *rewrites* the tree, the interpreter executes what is left. Each stage
writes to a compilation log and stops the pipeline on errors. There are no
threads, messages or persistent state. What is hard here is control flow that
is written out by hand (a state variable where other languages have
exceptions), knowledge that becomes stale while the analyzer walks the tree,
and arithmetic and string algorithms at their boundaries.

| part | state | operations | what makes it correct |
|---|---|---|---|
| `locators` | text of a file, starts of its lines | position to line and column | every position is found on the right line |
| `complog` | collected messages | Log, format | none is lost (output only) |
| `lexer` | position in the text, tokens, errors | `tokenize`: seven checks in a fixed order | every character is in one token, in a gap or in an error; the longest token that fits; a string ends at its own quote |
| `syntax`: `TokenScanner`, `SyntaxContext` | position in the tokens, farthest error | Peek, Advance, Read, Reset; errors | a failed alternative leaves the position as it was; the farthest error is reported |
| `syntax`: parser | none | a function per production, `CollapseOperandStack` | precedence and associativity of the grammar |
| `bigint` | digits in base 2^32, sign | `+ - * / %`, comparison, conversions | agrees with the integers, no leading zeros, no negative zero |
| `runtime`: types | none | operators on types, `Generalize` | agrees with the operators on values of these types |
| `runtime`: values | strings, arrays, tuples | operators, Split, Slice, Join, Del | the language's definition, also at the ends of a string or array |
| `runtime`: objects | arrays and tuples, which variables and items share | literals, sums, assignment of items, Del, printing | a change is seen through every path, and nothing else changes; printing ends |
| `semantic`: `ValueTimeline` | stack of scopes, what is known of each variable, who referred to it, blind scopes | Declare, Lookup, Assign, StartScope, EndScope, MakeAllUnknown, MergeTimelines | what it says of a variable is so on every execution |
| `semantic`: `StatementChecker`, `ExpressionChecker`, `UnaryOpChecker` | timeline (shared), `inFunction`, `inCycle`, what was found: purity, termination, return type, replacement | a visitor per node | the tree it leaves does what the tree it was given does |
| `interp`: `Executor` | scope chain, `optExprValue` | a visitor per statement and expression | order of evaluation; jumps reach their target and nothing runs on the way |
| `interp`: `UnaryOpExecutor`, `Closure` | current value and its parent | calls, indices, fields, prefixes | a call leaves the call stack and the state as it found them |
| `interp`: `RuntimeContext`, `RuntimeState`, `CallStack` | Running, Exiting, Returning or Throwing; the calls; the trace | Push, Pop, Report, SetThrowingState | one entry per call, never more than the capacity; the trace shows both ends |
| `interp`: `ScopeStack`, `Variable` | chain of maps from names to variables | Push, Lookup, Declare | one scope per open block |
| `main` | options, exit code, what was logged for a file | InterpretArgs, ParseSizeT, ProcessFile, syntax explorer | which stage stops a file, that the others have their turn, and the exit code |

**Interaction.** The checkers of nested bodies share one `ValueTimeline` by
reference; each body, condition and function literal is visited by a checker of
its own, whose findings the outer one combines by hand. The executors of
arguments and calls share one `RuntimeContext`; the executor of a call starts
from the variables the analyzer told the closure to capture. The analyzer thus
owes the interpreter three things: `exit` only in a cycle and `return` only in
a function, captures that are complete, and rewriting that preserves the
program's meaning.

**Hard behaviours**, each with its line under `hazards` in `PROJECT.json`:

- jumps: `state` must be asked after every nested visit (Executor);
- five ways to leave a call and one `Pop` (UnaryOpExecutor);
- scope chains restored by hand rather than by destructors (VisitBody, for, if);
- `optExprValue`, one slot shared by all visitors of an executor;
- cycles: what the body assigns in a later turn is stale knowledge in an
  earlier one, references travel outwards one `EndScope` at a time;
- functions: a call changes what is captured, now or at any time later;
- branches: termination, purity and return type are combined in hand-written
  cases, and the rest of a body is dropped on the result;
- objects: they are shared, may contain themselves, and are changed while a
  `for` goes through them;
- the front: which entry of a table fits first, when a string has an end, what an
  argument is after the ones before it;
- limits: call stack at its capacity, odd trace lengths, carries, Slice bounds,
  separators that overlap themselves, options near the largest `size_t`.

## 2. Modules

| module | what it is |
|---|---|
| `ControlFlow` | abstract: open cycles and calls, and the jumps through them |
| `Executor` | the interpreter, every visitor; implements `ControlFlow` |
| `MCExecutor` | symmetry of call sites, for TLC |
| `Executor_proofs` | types, executors, call stack; which activations stand on which; `Executor` implements `ControlFlow` |
| `Scopes_proofs` | what activations save and executors have; no C++ exception, traces, unwinding |
| `Timeline` | `ValueTimeline` as operators on a record |
| `Analyzer` | the semantic analyzer on `Timeline`, beside the meaning of the program it checks |
| `Timeline_proofs` | what the operations of the timeline keep and change |
| `Analyzer_proofs` | how the timelines of the checkers lie on each other; closures are complete |
| `Soundness_proofs` | what the analyzer says holds on every execution |
| `MCAnalyzer` | sets of constructs and symmetry, for TLC |
| `BigInt` | the arithmetic on vectors of chunks, beside the integers |
| `MCBigInt` | operands around the ends of chunks, for TLC |
| `Parser` | the productions as data, `TokenScanner`, `CollapseOperandStack`, the error report |
| `MCParser` | families of programs (beginning, alphabet, length), for TLC |
| `Values` | types and values of the language, and their operators |
| `Expressions` | the checkers of expressions beside the visitors that execute them |
| `MCExpressions` | operands and postfixes, for TLC |
| `Strings` | Split, SplitWS, Join and Slice, beside what they promise |
| `MCStrings` | texts, separators, bounds and steps, for TLC |
| `Strings_proofs` | pieces, words and slices of all strings are the right ones |
| `Objects` | arrays and tuples in memory, the statements that change them, `for` and `print` |
| `MCObjects` | two variables and three objects, for TLC |
| `Objects_proofs` | objects are there, sums are whole, a `for` has the turns it should |
| `Lexer` | `Lexer::tokenize`, check by check |
| `Main` | the arguments, and each file through the stages; it runs `Lexer` |
| `MCMain` | arguments, lists of files and families of texts, for TLC |
| `Main_proofs` | the lexer reads every character once; the arguments mean what the help says; every file has its own fate |

### Executor and ControlFlow

The C++ code is a recursive visitor, so its state includes the C++ stack. The
model makes it explicit: `frames` is the sequence of activations of visitors.
A frame has the `kind` of its node (an `If`, a `Body`, a `Unary` expression),
the place `at` which it waits for a nested visit or decides what to do next,
and the local variables that outlive a visit (`prev`, the scope chain saved in
VisitBody, short `if` and `for`; `name`, the variable being declared). A visit
pushes a frame, a return pops it; one action is the code between two visits.

| C++ | model |
|---|---|
| activation of a visitor | an element of `frames` |
| `Executor` object: `scopes`, `optExprValue` | an element of `execs`; names per scope, and whether there is a value |
| `RuntimeContext::State` | `state` |
| `RuntimeContext::Stack` | `calls` |
| `RuntimeState::Throwing::Trace` | `trace` |
| `ExecuteExpressionInThis` | `Evaluate`, `Propagate`, `Took` |
| `VisitBody`, `VisitIfStatement`, ... | `BodyNext`, `BodyEnd`, `IfCond`, `IfEnd`, ... |
| `UnaryOpExecutor::VisitCall`, `Closure::UserCall` | `CallClosure`, `ShortBody`, `CallEnd` |

The syntax tree and the values are data. Which statement comes next, how a
condition or an operator turns out and how often a cycle repeats are free
choices, so one model stands for every program up to a nesting of `MaxDepth`
activations and of any length. Kept of the tree is what the analyzer
guarantees: `exit` in a cycle of the same function (`InCycle`), `return` in a
function (`InFunction`). Sums, terms, relations, `not`, tuples and arrays
evaluate their operands alike, and are one kind of frame (`Operands`); so are the
kinds of accessors, which differ in values only. Leaves (literals, `exit`,
identifiers) return at once and have no frame.

`ControlFlow` is the promise: the contexts that `exit` and `return` are about,
cycles and calls, ordered by level; nothing is entered during a jump; only the
innermost context is left; `exit` ends at the innermost cycle, `return` at the
innermost call, an error nowhere. `Executor!Promise` maps the frames that are
running a cycle's body or a call to these contexts.

### Timeline and Analyzer

`Timeline` is `ValueTimeline` as operators: a timeline is a record of a stack of
scopes, each with what is known of its variables (`vars`) and its
`externalReferences` (`ext`), and of the `blindScopes` (`blind`). A known value
carries the identity of its object, since GeneralizeValue compares pointers.
`used` and `lastUnusedAssignments` serve warnings only and are left out.

`Analyzer` checks a program that is chosen while it is checked: one action
visits the next statement or the end of a body. `values` is the shared timeline, and
`checkers` the StatementCheckers at work, with `inFunction`, `inCycle`, what they
have found (`term`, `pure`, `returned`) and what is kept aside for the end of the
statement (the copy of the timeline for an `else`, the findings of a branch). `Outermost` is the scope of `input`,
which the code declares before the program (`Analyze`).

Beside it goes the program's meaning. `reach` is a set of pairs of stores: the
execution of the innermost cycle or function body from the first can be at the
current point with the second. A body starts from every store of the visible
variables (it runs in any turn, at any time); the end of a cycle closes its pairs
transitively (`Repeated`) and goes on with what left its body by `exit`; the pairs that
leave are kept by the checker that meets the `exit` and handed outwards body by body, up to that of the cycle. The end
of a function adds what its body can do to
`effects`, which calls draw from. So the meaning is computed independently of the
timeline, and the properties compare them.

Some constructs the analyzer misjudges; `OddConstructs` names the six, and section
5 what goes wrong. `Constructs` says which of them a program may have: none in
the run that shows the analyzer right otherwise, and in the run about captures all but a call
in a false `while`. With one of them in `AnalyzerSound.cfg`, or with that one in `AnalyzerCaptures.cfg`, TLC
shows it misjudged.

Every expression with a name uses it: reads, assignments, `is` and calls, as statements
and in conditions (`Mentioned`). What a name in a condition refers to is kept by the
timeline the condition is checked on (`AfterCondition`). For a `while` that is false from the start
that is a copy: the code keeps a condition that acts and drops the copy, so
its names are executed and not referred to (`WhileRemoved`).

After a construct outside `Constructs` the
program is not followed further (`Excluded`). A variable is declared only where no visible
one has its name, because the interpreter stops at other declarations (the
finding of `executor_redeclare`), and rejected programs are not followed.

### Values and Expressions

`Values` has the tables of types (`NumericArith`, `BinaryEq`, `FieldType`, ...),
which the analyzer uses, and next to them the operators on values (`Arith`,
`Compare`, `Field`, `Call`, ...), which both the interpreter and the analyzer use:
the two are written independently in the code and have to agree.

`Expressions` checks one expression: up to three operands under a sum, a term,
a relation, `and`, `or`, `xor`, or one operand with `not` or with prefixes and
postfixes. An operand is any expression about which the analyzer is right
(`IsRight`): it has a conclusion (a known value or a type, and purity) and what its
execution does (a value or an error, side effects). The properties say that the
conclusion about the whole is right again, so the run is the induction step of an
argument for expressions of any depth, and one level suffices. `Check...` are the
visitors of the checkers: they return the verdict, the conclusion, and what
the *rewritten* expression does when it is executed; `Execute...` are the
visitors of the interpreter. The properties compare the two.

| construct | what happens | reproduced by |
|---|---|---|
| `not of known` | `not` of a known value is that value (`expressionChecker.cpp:694`) | `print not true` |
| `logical of others` | `and`, `or` with types other than bool end in `std::bad_variant_access` (lines 92, 159) or are taken for pure although they may fail | `print input() and 1` |
| `division by zero` | an int divided by a literal 0 is pure (611-620; `src/src/runtime/README.md:107` says otherwise), so its error vanishes with the statement | `s.Length / 0` as a statement, after `var s := "a" + input()` |
| `signed postfix` | prefixes are checked before accessors, but executed after them (647 and `execution.cpp:571`) | `print -"abc".Length` (rejected) |
| `index of known` | a known value with an unknown index: `std::bad_variant_access` (`unaryOpsChecker.cpp:146`, `184`) | `print "abc"[x]`, after `var x := input()` |
| `item of typed` | items, fields and `Join` of something that is only typed are pure, though they may fail; `t.(x)` is rejected | `x[5]` as a statement, after `var x := [1]` |
| `order of arrays` | rejected, but FALSE when it is executed | `print [1] < [2]` |

The constant `Constructs` says which of the forms in the table an expression may
have; the run has none. Setting `Constructs` in
`Expressions.cfg` to one of them makes TLC show it. An expression that fails may have
acted less after rewriting than before, which `RewritingIsRight` allows.
Reals are whole or `Inexact` (moving known terms to the front rounds
differently), and arrays have no identity beyond their elements.

### BigInt

The state is a BigInt, a sign and a vector of chunks, and the integer that it
stands for; an action assigns `+ - * / %` of a second operand or the negation.
The algorithms (carries and borrows, Karatsuba multiplication by halves, long
division that finds a digit bit by bit, division rounded down, comparison,
`ClampToLong`, decimal output and input) are operators on vectors. `Increment` and
`Decrement` are the prefix operators that `for` uses (`execution.cpp:312-314`). The loops
of the code that write a vector are functions of the index and of the carry. Width is a
parameter: chunks of `Bits` bits, and a `long` of two chunks, as 64 and 32
bits are in the code. The carry that `BigAdd` and `AddFrom` lose (finding 2), and `++` and `--` with them,
is reported by `exact`; with `Lossy = FALSE` a step that loses one is not taken, so
that the run says that everything else is right. `ClampToLong` compares with
`BigInt(LONG_MIN)`, which is -2^60 and not -2^63 (`bigint.cpp:76`), so `ClampsRight`
says that what is no more than that (`FarBelow`) becomes the smallest long and
everything else the nearest one.

### Parser

A production is a record that says what the C++ function does with the scanner:
read a token, a block that puts the position back when it fails (`AutoBlock`,
with line breaks as around it, ignored or used), the first alternative that
succeeds, repetition. `Parse` interprets these, threading the scanner: tokens,
position, whether line breaks are ignored, and the `SyntaxErrorReport`.
`ParseOperands` is the loop of `Expression::parse`, with its stack of operands.
One action extends the program by a token and parses it anew, so the states
are all programs over an alphabet that have not already gone wrong, and
properties can relate what is reported for a program to what a longer one gives.

### Strings

A string is a sequence of characters, and the state is one of them, the
array that Split has made of it, and the call with its result. An action is
a call of a method: `CallSplit` with the Z-function as the code has it, `CallSplitWS`,
`CallJoin` (of the pieces, with the separator), `CallSlice` with `ClampToLong`,
which takes everything from `BigIntOfLongMin` down (an eighth of the smallest long, as in the
code) for the smallest long, and the arithmetic of longs, which wraps around at `LongMax`. The result of a slice is
the sequence of positions that are read. `StaysInside` says that none of them
is outside of the string, and that `substr` is never asked for a position behind the
end. `Oddities` says which calls do not keep what was promised:

| construct | what happens | reproduced by |
|---|---|---|
| `long_separator` | the Z-function takes the larger of two bounds for the smaller (`values.cpp:144`), so separators of two or more characters are found where they are not and missed where they are | `"abbb".Split("ab")` is `["", "", ""]` |
| `step_down` | a slice downwards starts at the last character but one, wherever it was told to (`values.cpp:222`: the start is converted to bool) | `"abcde".Slice(5, 1, -1)` is `"dcb"` |
| `step_over_the_end` | a step beyond the length reads one character without asking where to stop | `"abc".Slice(-8, -2, 10)` is `"b"` |
| `stop_far_below` | a stop of -2^60 or less, an eighth of the smallest long (`bigint.cpp:76`), becomes the smallest long, and that less one (`values.cpp:237`) is the largest | `"abc".Slice(-3000000000000000000, -2000000000000000000, 1)` reads behind the string until the process is killed |

### Objects

`heap` holds the objects by the place they have in memory, `scope` what each
variable contains: a number or a place. Objects nothing leads to are gone, as with
`shared_ptr` counts (but for cycles of objects, which the counts would keep:
nothing can see them), and a new object takes the first free place, so `recGuard` may meet
an old address. A statement is an action: assignment of literals
(`AssignArray`, `AssignTuple`), of a sum, of `Indices`, of a variable or through
an accessor; assignment to an item through accessors (`AssignThrough`), `Del`,
`print`, the three forms of `for`, and `exit`. `PrintSelf` threads `recGuard` as
`DoPrintSelf` does. Between `ForItems` and the `NextTurn` after it any other
statement may change what is iterated over: `due` is what the turns have to be,
`seen` what they were. Numbers are exact integers here; what `BigInt` loses, also in the
counting of a `for`, is in `BigInt`.

### Lexer and Main

`Main` is the process: `InterpretArgs` takes the arguments one by one, `ProcessFile`
takes each file through the stages, `stage` says through which. The lexer
works check by check where a file is in it (`Tokenize` is `LexerNext`); the
other stages, which have modules of their own, are represented by what they tell
`ProcessFile`: accepted or not, and whether something was logged. Each of them may also end the
process (`Die`), for nothing around them catches a `std::bad_variant_access`
(`main.cpp:258`, reached by `print input() and 1`), a Slice that reads outside or the end of the native stack
(273): then `stage` is "dead" and the files behind are not processed. `did` is what the
user sees of a file, and `verdicts` what has become of those before.

What the arguments should mean is taken from the help text (`HelpLong`, `HelpShort`, the numbers of
`main.cpp:80-91`) and not from the tables the code looks flags up in. Two
kinds of argument are not read as it says: `--notrace`, and numbers that overflow in the last digit
only (`OddConstructs`). `Constructs` says which of them `OptionsAreRight` is to cover;
the program gets all of them in any case.

`Lexer` has an action for each check of `tokenize` that may succeed (blank, comment,
string, number, entry of the table, identifier), in the order of the code, one
for the errors and one for the end of the file. The tables are the code's,
with their order, and the search in the sorted one is its binary search.

## 3. Runs

| run | question | result |
|---|---|---|
| `executor` | do jumps unwind to their target and to nothing else, and arrive; is there one scope per open block, whatever the way out; does the call stack follow the calls, and the trace agree with it at both ends; does any visitor meet a C++ exception; is `ControlFlow` implemented | holds, arrival under fairness |
| `executor_redeclare` | is a declaration rejected only for a name of its own scope, as the analyzer and its tests have it | violated (finding 1) |
| `analyzer_sound` | is what the analyzer knows, drops, takes for pure and says functions return right | holds without the odd constructs |
| `analyzer_captures` | do closures capture every outer name they use; are only timelines of one shape merged | holds without a call in a false `while` |
| `expressions` | are types, values, purity and rewriting of expressions right | holds without the odd constructs |
| `expressions_mutable` | is nothing mutable a known value | violated (finding 3) |
| `parser` | is every expression of operators accepted, with the tree of the precedences; does the tree have the tokens of the program; is the error report exact; are line breaks ignored where they should be | holds |
| `bigint_exact` | do arithmetic, comparison, clamping and printing agree with the integers, but for a lost carry | holds |
| `bigint_carry` | do they with every carry | violated (finding 2) |
| `strings` | are pieces and slices the right ones; is nothing outside of a string read | holds without the odd constructs |
| `main` | do arguments mean what the help says; has every file its own fate, unless the process ended before; has every text the tokens it should have, or an error; does the program end | holds without the two odd arguments, the end under fairness |
| `objects` | do sums keep items, names and distances; does print show each path once, and end; has a `for` the turns it had when it began | holds |

**Bounds.** `executor`: `MaxDepth` bounds the nesting of activations. A cycle inside a call
inside a cycle, with the bodies and the expression that makes the call, is
`Loop, Body, ExprStmt, Unary` and below it the body of the closure with its own
cycle. The deepest hazard, `exit` in a function called in a cycle, needs 5
activations; with 6 a block in a block of a called function occurs, or four
calls by expression bodies (`Capacity` is 4; a fifth is "Stack overflow!") and an error in the innermost. The limit of the
trace is 3, odd, so that the two halves differ, and the stack is shorter, equal and one
longer than the limit. `Names = {"input"}`: what a visitor does with a name is to
find it or not, and closures that do not capture `input` have a name that cannot be
found. Call sites are two, so that the entries of a trace can be told apart.

The programs of `analyzer_sound` have up to 4 statements in bodies nested up to
3 deep, two names, two integers, one string and `none`: enough for an
assignment in a branch in a cycle and a read after it, with values of the same and
of another type; unary hazards need 3 statements. `analyzer_captures` takes one name and
nesting 4, a function in a cycle in a function, since a reference has
to travel through several scopes; it has five of the six misjudged constructs, without the call in a false `while`. Stores are all functions from names to
values, so `Repeated` reaches its fixed point within as many turns as there are stores.

`bigint_exact` has chunks of 4 bits: decimal output needs a base above ten,
and all the code knows of the width is how many bits a digit of a quotient has.
The operands are numbers around the ends of one, two and three chunks, small ones and
ones with a zero chunk inside, of both signs; results up to products of two of
them occur (six chunks, two levels of Karatsuba, with halves of different
lengths). Results beyond `Bound` are not operands of `+ - *` again, but are divided, negated,
compared and printed.

`expressions` has 30 operands: known values of every type but tuples,
typed and unknown ones that turn out to be values of every type but `none`, and five that
act, with a known value, a type, an error or nothing known. Three operands are
the fewest with a known neighbour on each side of one that acts, and two
operators of different kinds; two postfixes are the fewest in which a method is
called. A checked expression has no successor.

`parser` has families of programs, each with a beginning, an alphabet and a
length: all programs of up to 7 tokens over a name, `not`, `-` and one operator of each
level (three binary operators and a prefix, or two and three prefixes); twenty
beginnings, two for each statement and literal, with two more tokens of any
kind; and nine with functions and conditions in parentheses, with four more, which
closes them. A program stops growing at its length, and when its error
cannot be at its end, so this run does not check for deadlock.

`strings`: texts of up to six characters of `a`, `b` and a blank, and separators of up to four
letters, so that a separator that overlaps itself occurs twice in a text with overlap, and
once with something before and behind it; a `long` of -64 .. 63, so that -8 is what `ClampToLong` compares with, and rows of up to four
characters, so that a stop can be before the string and above -8; bounds and steps are around the ends of
the strings, -8 and the ends of the longs, and beyond. A call is
followed by at most one other.

`main`: a `size_t` of 0 .. 31, with numbers below, at and above the largest, one whose
overflow is not noticed and one that goes on after that, which the property covers only with `"overflow"` in `Constructs`; all lists of up to three arguments, and every flag with all
lists of up to three files, one right, one wrong and one that is missing; texts of up to four
or five characters over alphabets that have the beginnings of everything the lexer has a check
for. A program that has ended has no successor.

`objects`: two variables, three objects, literals of two items, objects of
up to four, and four statements (a literal counts its items): an object
that contains itself needs two, a second one around it three, printing it one more; a `for`
whose body changes its object has three statements. The indices 1 and 3 leave a gap.

**Fairness.** `Spec` of `Executor` has `WF_vars(Next)`: one thread executes the
program and does not pause. Nothing more is assumed; in particular programs
may loop for ever, and `JumpsLand` says only that a jump that has begun arrives.
`Spec` of `Main` has `WF_vars(Next)` for the same reason. `ProgramEnds` says
that the process ends, by its own exit or because a stage has ended it, and so that the lexer does on every text; the programs in the files are taken to end (`Run`
is one step).

## 4. Proofs

Five components are proved about: the interpreter (`Executor`), the analyzer on its
timeline (`Analyzer`, `Timeline`), the objects of a program (`Objects`), the methods of strings
(`Strings`), and the program around the stages with the lexer in it (`Main`, `Lexer`). Every property the
runs `executor`, `analyzer_sound`, `analyzer_captures`, `objects`, `strings` and `main` check of them is a theorem,
for all values of the constants, but for what holds under fairness.

### The interpreter

For every set of names and call sites, capacity, trace limit and nesting bound
(assumption `ConstantsAssumption`: they are natural numbers, a nesting of at least one,
`RootNames` among `Names`).

**`Executor_proofs`**

- `Inductive`: `Spec => []IInv`;
- `TypeCorrect`: `Spec => []TypeOK`, which includes the capacity of the call stack;
- `CallStackMatches`: `Spec => []CallStackMatchesCalls`, one entry per closure
  being executed, on every way out of a call.

`CallStackMatchesCalls` is not inductive: `CallEnd` takes the last entry of
`calls` and the last of `execs`, which exist because the frame on top is a call;
and visitors look at the last executor, which exists because there is always
one more than there are arguments, indices and calls open. Hence

    IInv == TypeOK /\ ExecutorsMatch /\ CallsMatch

where `ExecutorsMatch` counts the frames that opened an executor, and `CallsMatch`
those that are a call. Most actions keep both counts: they change the place of
the top frame among places that are not counted, push a frame that is not
counted, or pop one. `CallClosure`, `CallEnd`, `Argument`, `ArgumentEnd` and
`ShortBody` change them, by one, together with `execs` and `calls`. The proof
has lemmas on counting in sequences that are extended, shortened or changed at
the end, a lemma for each way to visit (`VisitExpression`, `VisitStatement`,
`EnterBody`, ...), a lemma per action and `NextStep`, which combines them.

The second half of the module is about jumps:

- `JumpsFit`: `Spec => [](IInv /\ JInv)`;
- `JumpsReachTargets`: `Spec => []JumpsHaveTarget`;
- `ImplementsControlFlow`: `Spec => KeepsPromise`, the refinement.

That a jump is met only by visitors that ask for it depends on how the visitors
call each other, which no property of single frames says. `Below(k)` is where an
activation waits that has visited a node of kind `k`, and

    JInv == Grammar(frames) /\ StateFits(frames, state)

says that each frame stands on one that visits its kind (`Nested`), that a `return` is
above a call (`ReturnsInCalls`), that the frames are no more than `MaxDepth`
(`Bounded`), and that while the state is not Running the frame on top waits for a visit, at a
place where a jump may arrive, above a cycle or call that will take it
(`StateFits`). Every action is one of four kinds of step (`Classified`): the top
frame `Stays` and goes on, one more is entered (`Enters`), the top one returns with
the state as it is or an error (`Finishes`), or takes the jump (`Leaves`). It is shown once for
each kind that it keeps `JInv` (`ClassifiedKeeps`) and is a step or a stutter of
`ControlFlow` (`ClassifiedAllowed`), and for each group of actions of which kind it is;
so the refinement needs no induction of its own.

**`Scopes_proofs`**

- `ScopesFit`: `Spec => [](IInv /\ JInv /\ SInv)`;
- `OneScopePerBlock`: `Spec => []ScopePerBlock`;
- `NeverThrowsCppException`: `Spec => []NoCppException`;
- `TraceIsOfCalls`: `Spec => []TraceExtendsCalls`;
- `UnwindsOnly`: `Spec => AbruptOnlyUnwinds`.

The code never pops a scope: a body puts back the chain it found (`prev`), however its
statements were left. `ScopePerBlock` is not inductive, since it says nothing of the
chains that are saved and will be put back. Hence

    SInv == Fits(frames, execs) /\ HasWhatItTakes

`Fits` says, of every frame, that what it has saved is as many scopes as the
blocks below it ask for (`Depth`, which counts the frames of the same executor
and what that executor began with), and, of every executor, that it has one
scope per block. It also says that a name whose initial value is being computed is
not in the scope it will be declared in: this is what `NoCppException` needs, and
why a statement is visited only where no declaration waits (`Standing`).
`HasWhatItTakes` says that a visitor which takes a value finds one when it is resumed. The lemmas show what
pushing, popping and replacing the top frame do to `Fits` (`PushSaves`, `PopCloses`, ...), each
action is an instance of one of them, and `SInvStep` combines them.

The trace needs no stronger invariant: a step `Reports` an error, which takes the trace
from the calls, or `Unwinds`, which takes at most one call away (`NextTraces`);
entries shared with the calls stay shared when the last call goes (`FrontExtends`).

### The analyzer

For every finite set of names, integers and strings (`TimelineAssumption`: the sets are finite,
because the meaning of a cycle is a fixed point reached in as many turns as there are
stores, and `None` is not among them), and for bodies of any size and nesting
(`AnalyzerAssumption`: `MaxSize` and `MaxNesting` are natural numbers, `Constructs` are some of
`OddConstructs`, and `Output` is not a name).

**`Timeline_proofs`** has what each operation of `ValueTimeline` keeps and changes
(`DeclareIs`, `LookupIs`, `AssignIs`, `EndScopeIs`, ...), for `Sane` timelines: blind
scopes are in the stack, in order, and never the last, and no variable is declared
twice. For `MergeTimelines` of equally shaped timelines it has what becomes of each variable.

**`Analyzer_proofs`**, the first two for all programs, with all misjudged constructs:

- `ShapeIsKept`: `Spec => []AInv`;
- `AnalyzerTypes`: `Spec => []TypeOK`, with what MergeTimelines asserts;
- `ClosuresAreComplete`: `NothingForgotten => (Spec => []CapturesWhatIsUsed)`, for programs with any misjudged construct but
  a call in a false `while` (`NothingForgotten == "call in a false while" \notin Constructs`): with it the property is false
  (section 5).

Neither property is inductive, for both are about the end of a body and depend on what the
timeline was when it began. All checkers share one timeline, but each has kept
the one around its body, so

    AInv == ShapeInv /\ DataInv

relates, for every checker, what it has kept to the timeline inside its body
(`TimelineAt`): the one the next checker has kept, or `values`. `Inside` says that it is higher by
the scopes the body has started, has the same variables below them, and
is blind to what is outside exactly in cycles and functions; `Referred` that, if nothing is forgotten, every
name used in a body and declared outside of it is among the references of the scope the body
stands on, from where `EndScope` hands it on. A function captures the references of its own scope,
so `ReferencedIs` gives `CapturesWhatIsUsed`.

**`Soundness_proofs`**, for programs without the constructs with which the timeline says too much
(`Judged`: a read of what a cycle assigned, a return in a cycle, a call in a false `while`,
an effect in a `loop`):

- `SoundnessIsKept`: `Judged => (Spec => []SoundInv)`;
- `KnownIsRight`: `Judged => (Spec => []KnownValuesAreRight)`;
- `DroppedIsDead`: `Judged => (Spec => []DroppedIsUnreachable)`;
- `PureHasNoEffect`: `Judged => (Spec => []PureIsEffectless)`;
- `ReturnsWhatIsSaid`: `Constructs = {} => (Spec => []ReturnTypeIsRight)`.

The hypothesis is what the run `analyzer_sound` has too (`Constructs = {}` implies `Judged`); with any one of
the four, TLC shows the properties violated (section 5). What the timeline says now is right only because of what
each checker has put aside and will bring back: the timeline around a cycle, the
one before an `else`, the executions that have left a body by `exit`. Hence `SoundInv`
says, of every body under way, with the executions that are in it,

- `Place`: what its timeline says of a visible variable is so in all of them (`Valid`), the values
  of two entries of one object are equal (`Agreed`, needed by `Generalize`, which
  compares pointers), and a branch whose condition is known to fail has none;
- `InTurn`, in a cycle: a variable that is hidden in the blind scope, still known and not referred to as
  assigned (`KeptIn`) is as it is known around the cycle (`AsAround`) and has not
  changed since the turn began (`Keeps`). The checker knows nothing of these variables in the
  cycle, and after it knows again what it knew before: this is what makes that right;
- `Part`: what a checker has found so far covers what the executions have done: pure only if
  without effect, the return type that of every value returned, and nothing at all from a dead
  branch;
- `Left`: after a statement that does not end, there is no execution.

That the kept variables of a cycle stay as they were is shown for one turn, by the actions in its body, and for
any number of turns by `RepeatedKeeps`, from `RepeatedIn`: what holds of the pairs before a cycle and is kept by a
turn holds of its fixed point (a smallest counterexample, by `WFMin`, stands for
the induction over the turns). The actions are of a few kinds: a statement on top (`TopStepSound`), a body entered, and one
left, where the findings and the timeline of the body are carried into those around it
(`TopFollows`); `StepSound` combines them.

### The objects

For every finite set of places objects can have, and any names, indices and lengths
(`ObjectsAssumption`: places are positive numbers, indices integers, the bounds natural numbers and the
variable of a `for` is no other variable). The set of places is finite because a set of objects is
followed as far as there are places (`Reachable`).

**`Objects_proofs`**

- `ObjectsAreKept`: `Spec => []ObInv`;
- `ObjectsAreThere`: `Spec => []TypeOK`;
- `SumsAreWhole`: `Spec => []SumKeepsEverything`;
- `CyclesAreExact`: `Spec => []CycleVisitsWhatWasThere`;
- `PrintsAreWhole`: `Spec => []PrintShowsEveryPath`.

`TypeOK` is not inductive, for a sum or an assignment keeps it only of objects as the code makes them;
and that a `for` ends when all that was due has been seen rests on what it counts with. Hence

    ObInv == MemoryOk(heap) /\ ScopeOk(scope, DOMAIN heap) /\ CycleOk(cycle, DOMAIN heap)
               /\ LastOk(last, heap) /\ StatusOk

- `MemoryOk`: an object is an array without names, or a tuple whose items are numbered from 1 and whose names are
  for different items (`WellMade`), and its items lead to objects there are (`Within`). That it stays so
  when objects go is `ReachableIs`: what places lead to, followed once per place, leads nowhere else, for
  every time but the last adds a place. It is stated for a function defined by recursion, and proved from
  the smallest number of times for which it fails (`WFMin`), as in `RepeatedIn`;
- `CycleOk`: a `for` is in the turn that the number of turns it has had says (`AtTurn`): `cur` is the number of the
  range, or the index, of that turn, and `end` is as far from it as there are turns left, in either
  direction. So the last turn is the last one due (`LastTurnIs`), and one step before it leads to the
  next (`NextTurnIs`);
- `LastOk`: the last sum is `SumOf` its two sides, and all three are still there.

`SumsAreWhole` then is about `SumOf` alone. The keys of a `std::map` come in the one order there is
(`SomeOrder`, `OneOrder`, by a smallest counterexample again); those of a sum are the left ones and then the right ones, each moved by the same
distance, the first right one directly behind the last left one (`KeysOfSum`), which holds of two tuples as it does of two
arrays (`SumItemsAre`). Items (`ItemsOfSum`) and gaps (`DistancesOfSum`) follow from the keys.

`PrintsAreWhole` compares what the code does, one `recGuard` that every object enters and leaves while it is
printed (`PrintSelf`), with what is promised, every path with a guard of its own (`shown`). Both are recursive in
the objects entered, and a graph of objects with cycles gives no order to go by; the guard does. Each
object entered leaves fewer places outside the guard (`Room`, `RoomIs`), so among calls for which a claim fails
there would be one with the least room, and none has less than the calls it makes (`NoBadCall`). In this way

- there is a function `shown` (`ShownExists`, one for each amount of room, and then for all), and its
  texts are sequences (`ShownTexts`);
- a call gives back the guard it was given and the text of its path (`PrintShows`): if every item does, the object
  does (`DoneIs` from item to item, `ObjectPrinted` for the braces and the way out of the guard,
  `PrintOfIs`). Without `Unguarded` on the way out the next item would have another guard than its
  path, and this is the step that fails.

The invariant is `ObInv /\ PrintShowsEveryPath`: the text in `last` was printed in the memory before the statement ended, and it stays right when
objects that `print` does not lead to go, for `shown` is the same without them (`ShownStays`). Texts
put together from a sequence of texts (`FlattenSeq`) are reduced to their joins in order (`FlattenIs`).

### The strings

For every set of characters, strings of them and separators, any bounds and steps, and any largest `long`
(`StringsAssumption`: `LongMax` is at least 7, so that the bound of `ClampToLong` is a negative number above the smallest
long, and no sliced string is longer than it).

**`Strings_proofs`**

- `CallsAreKept`: `Spec => []CallInv`;
- `PiecesRight`: `"long_separator" \notin Constructs => (Spec => []PiecesAreRight)`;
- `SliceRight`: the same for `SliceIsRight` and the other three oddities;
- `NothingOutsideIsRead`: `Spec => []StaysInside`, for all calls but slices with a stop far below the string.

The hypotheses are about the properties, not the program: `Constructs` says which of the calls that do not
keep what was promised a property is to cover, and with one of these TLC shows
it violated (section 5). The behaviour has all calls, and `StaysInside` is about all of them but those with `stop_far_below`, which do
read outside.

The invariant only says that `array` and `call` are what the methods have made of the string. The
work is in what the loops compute, for strings of any length:

- the Z-function (`SepStep`, `TextStep`): the box from `l` to `r` has been found to agree with the beginning of
  the separator. `Boxed` is what a turn keeps of it. With the larger of two bounds where the smaller is meant, the box is not
  what it should be; but (`Finding`) a separator is never found where it would reach behind the end of the string,
  always where it is, and only there if it is one character. So `StaysInside` holds for all separators, and what goes wrong with
  long ones is only that some are found where they are not;
- `Split` from any position on (`PiecesAre`, by the last position it fails for): the pieces joined are the
  rest of the string, or as long as it, and the pieces behind one are those from the position
  where the search went on;
- `SplitWS` (`WordsAre`): from the beginning of a word it goes to the next one (`TurnIs`, `WordsMore`), so the number of
  words before one is the number of the one before and one more (`RanksMore`);
- `Join` from the front is `Join` from the back (`JoinMore`), for the code adds strings at the end, and the pieces are
  taken from the front;
- `Slice` (`CountIs`): a loop by steps has the numbers from its start whose distance to it
  is a multiple of the step; a start before the string is moved up by steps (`FirstIs`), and
  a stop moves down by one unless `ClampToLong` takes it for the smallest long (`FarBelowIs`, `EndIs`).

Recursive functions of positions (`joined`, `pieces`, `words`, `boxes`) exist by a smallest or largest position
for which they do not (`ChainExists`, `Upward`).

### The lexer and the program around it

For every set of program starts, texts and largest `size_t`. `MainAssumption`: every argument is the name
of a file that is there or not. To the provers a string is not a sequence, so they are told what the proofs need of strings:
`StringAssumption`, that a text and an argument have a length, that no entry of
`typeChars` is empty, and that what begins with two dashes begins with one; `SpellingAssumption`, that parts of a part
of a text are parts of the text (`HasParts`), and how the entries of `typeChars` are spelled: words of letters,
and operators of one character or of the two in `Pairs`. TLC evaluates both. Only `TokensRight` uses the second; the other
theorems take `SubSeq` of a text to be anything, so they do not depend on the alphabet.

**`Main_proofs`**

- `MainIsKept`: `Spec => []MainInv`;
- `CharactersOnce`: `Spec => []EveryCharacterOnce`;
- `TokensRight`: `Spec => []TokensAreRight`;
- `FilesHaveTheirFate`: `Spec => []EveryFileHasItsFate`;
- `ArgumentsMean`: `Constructs = {} => (Spec => []OptionsAreRight)`, for all arguments but the two odd ones.

    MainInv == LexInv /\ WorldInv /\ ProgressInv /\ FatesInv /\ Seeing

- `LexInv` adds to `EveryCharacterOnce` that no token reaches behind `i`, so that a new one begins
  where all others have ended, and a comment that begins at `i` is outside of all of them. That `i` moves on and stays in the text
  is said of each check (`EndsAre`); the ends of runs, lines and strings are `CHOOSE`n or computed by a
  recursive function, and are where they should be by a smallest counterexample (`EndOfRunIs`, `EndedExists`, `StringEndIs`);
- `ProgressInv` and `FatesInv`: files before the current one have a verdict, which is a `Fate` their text may have,
  and `failed` tells whether one is bad. After the arguments have been refused it does not, and nothing follows. If a stage has ended the process (`DieKeeps`), the
  files before have their fates, the current one has been read, which no missing file is, and was to go further
  than the lexer;
- `Seeing`: for each stage, what the user has seen, whether anything has been logged, and which flags
  are not set, for one that is would have ended the file before.

That a text has one fate, wherever it stands among the files (the last part of `EveryFileHasItsFate`),
compares two readings of it at different times. `Of(text)` is the lexer of any text, an instance of
`Lexer`; its checks are those of the one at work when `code` is that text (`SameChecks`). `Accepts(text)` says that
the way from behind the shebang comes to the end: the positions that do are the least set that has the end and
whatever goes into it. While the text is read, it is accepted exactly if the way from `i` comes
through (`Reading`): a turn goes to one place, and the positions without the one it has left are still
such a set if that place is not in it (`DeadEnd`). So no induction over the turns is needed, and no variable for them.

`TokensAreRight` is about tokens that have been read, so it only needs that each is right when it is
pushed and that the text stays:

    TokensInv == TokensFine /\ FailureFine /\ ErrorsStopTheFile /\ TextsFine

with `TokenFine(text, t)` for every token of the current text, and `TextsFine`, that texts have parts. The rest is
what the checks find at one position, in any text:

- `isAlphabeticToken` searches `alphabeticTokens` by the ranks of the enumeration. `SearchIs`: in a sorted table
  `lower_bound` finds a rank that is there, in a table of any length, by a range of the smallest width for which it does not
  (`LowerBoundExists` shows that the recursion is a function). The table of the code is sorted
  (`RanksAreSorted`); in the order of `typeChars` the proof would end here. So words are treated as words
  (`WordsAre`);
- the first match is the longest (`TokenIsLongest`). `LongerBefore`: an operator of two characters stands before the one it
  begins with. A word that matches does not go on, so it is as long as the run of `Wordly` characters, like any other
  that would match there; and a run that no entry matches is no word of the table (`IdentifierIsLongest`);
- `StringEnd` goes forward, over a character or an escape, and the property counts backslashes back from a
  quote. What ties them is `Reached`: at a position where the loop looks, the number of backslashes directly before it is
  even, or the character there is none of `Escapes` (the backslash before it escapes nothing). So a quote
  that is looked at closes the string and one that is skipped does not; if
  the loop is right from every later position that is `Reached`, it is right from this one (`GoesWell`), hence from the
  first (`StringEndsWell`, by the last position it is wrong from);
- what is right in the text of then is right in the text of now (`InThisText`), as for `SameChecks`.

`OptionsAreRight` is about all arguments at once, and the loop has read only some:

    OptionsInv == TextsInv /\ IsOptions(opts) /\ (stage \notin {"args", "exit"} => arg > Len(argv))
                    /\ (stage = "exit" /\ arg <= Len(argv) => \E k : Bad(k))
                    /\ (stage = "args" \/ arg > Len(argv) =>
                          AtArgument(arg, onlyFiles) /\ (NothingOdd => HasRead(files, opts, arg - 1)))

(abridged). `HasRead` is the property for the arguments so far: the flags, numbers and files they mean, none of them bad.
`AtArgument` ties what the loop decides by to the `Role` of an argument, which is defined
by those before: `onlyFiles` says that `--` has been, and the next argument is never the number of an option, for
it is taken together with it. Then a turn adds an argument or two (`FileRead`, `FlagRead`,
`NumberRead`). The tables of the code and of the help are compared once (`HelpIsRight`): they differ in `--notrace` only.

Recursive functions (`Role`, `Meaning`, the loop of `ParseSizeT`) are reduced to their steps by `Recursion`: such a function exists,
by a smallest counterexample. `OverflowsIs` says what the check of `ParseSizeT` finds, in arithmetic
modulo any number: that the product is too large, and not the sum. So as long as the beginnings of a numeral
do not overflow in their last digit the result is its meaning (`ParsedSoFar`, `ParseIs`). The attempt to prove
this without the condition on the beginnings, with the last digit of the whole numeral alone, failed at a numeral
that goes on after an overflow: 330 for a largest `size_t` of 31, which is read as 10. Since then the property and
the run have it.

### Checked by TLC only

What holds under fairness (`JumpsLand`, `ProgramEnds`), which the provers have no means for, and what is said of
the other components. `BigInt`, `Parser`, `Expressions` and `Values` have recursive operators
(Karatsuba, the descent itself, words of a string), which TLAPS cannot reason
about.

## 5. Findings

Each was reproduced with the interpreter built from the sources. Three have
runs of their own:

1. `var` in an inner scope: analyzer and its tests accept it, the
   interpreter stops (`execution.cpp:162`, run `executor_redeclare`).
2. Addition and multiplication lose a carry that arrives at a chunk which is
   itself full: `18446744073709551615 + 1` prints 0, where `src/README.md:22` promises "an
   arbitrarily-huge integer" (`bigint.cpp:297`, `bigint_carry`).
3. The array of `"a b".SplitWS()` becomes a known value, and stays known when it is
   changed: after `var a := "a b".SplitWS()` and `a.Del(1)`, `a.Length` is
   printed as 2 (`unaryOpsChecker.cpp:254`, `expressions_mutable`).

The models show more when `Constructs` is set to the construct's name. In
`AnalyzerSound.cfg` (`Analyzer!OddConstructs`):

| construct | what happens |
|---|---|
| `read what a cycle assigned` | a variable from outside that a cycle assigns and then reads keeps its old value after the cycle (`valueTimeline.cpp:41`; `src/src/semantic/tests/demos/26.d:1` says such variables are made unknown) |
| `call in a false while` | `while` with a false condition that calls a function: the call is kept, what it changes is not forgotten and the names it mentions are not captured (`statementChecker.cpp:240-262`), see below |
| `return in a cycle` | code after a cycle whose body returns is deleted, though the cycle may turn zero times (`statementChecker.cpp:294`) |
| `effect in a loop` | a function that prints or assigns in a `loop` is pure, so its calls are deleted (`statementChecker.cpp:348`) |
| `return in a lone if`, `end after a return` | the return type leaves out an `if` without `else` and the end of the function (`statementChecker.cpp:219`) |

In `AnalyzerCaptures.cfg`, with `Constructs <- OddConstructs`, TLC shows for `call in a false while` that a closure
lacks a name. The code checks the condition on a copy of the timeline, keeps it as a statement if it acts, and
drops the copy with all that was referred to. This program stops with "Referencing an undeclared variable":

    var x := 1
    var f := func() is
        var g := func(a) is return "s" + input(); end
        while g(x) is int loop print 1; end
        return 5
    end
    print f()

In `Expressions.cfg` the seven in the table of `Expressions`; in `Strings.cfg` the
four in the table of `Strings`, which are against `src/src/runtime/README.md:36-38` and
the comment at `values.h:123`. The last of them, `stop_far_below`, comes from
`bigint.cpp:76`, where the chunks of `BigInt(LONG_MIN)` are those of -2^60. In `Main.cfg` (`Main!OddConstructs`):

| construct | what happens |
|---|---|
| `notrace` | `--notrace` is in the help (`main.cpp:88`), but refused as an unknown flag: `GetLongFlag` has no entry for it (33-42) |
| `overflow` | `ParseSizeT` misses an overflow by the last digit alone (`main.cpp:127`): `18446744073709551616` to `...619` are read as 0 to 3, and digits that follow are read as if nothing had happened; the help promises the number (90-91) |

Met while modelling, and not shown by a run:

- the empty argument is read as the number 0 (`main.cpp:122`);
- a stage that ends the process takes the files behind with it (`main.cpp:312`), see `Die`;
- of the diagnostics of `lexer/README.md` `WrongEscapeSequenceError` is never raised;
- two fields of one name in a tuple literal are reported from the third on (`expressionChecker.cpp:749`,
  against `semantic/README.md:44`); with two the program stops (`execution.cpp:629`);
- the type of `"".Slice` is said to return an array (`types.cpp:171`), and
  `FuncType::StrictTypeEq` compares the types of parameters with the sense reversed
  (`types.cpp:289`).

## 6. Not modelled

- `AstDeepCopier`, `PrecomputedValue`, diagnostics: a copy node by node and the wording of
  messages; they keep no state, and nothing depends on an order.
- `locators`, `complog`: lines, columns and layout for messages. That something
  was logged is `logged` in `Main`.
- the syntax explorer: an interactive viewer, input and output.
- the native stack: calls and nested expressions are visited recursively, so a large
  `--callstack` or a deep tree may end the process. The code has no bound to model; that the process may end so is an outcome
  of each stage in `Main`.
- closures share the `Variable` objects they capture: `Executor` has the names of
  scopes, `Objects` the contents of one scope; `Analyzer` has the effect of calls on captured
  variables, from the side of the analysis.
- tuple and array literals in the checkers; the tree of a literal whose items the
  timeline knows. Their execution is in `Objects`.
- `input()`: a Push, a line read, a Pop within one visit.
- the postfix `++` and `--` of `BigInt` (`bigint.cpp:553`, `568`): nothing in the interpreter calls them. (Both leave the number as it is, and `++` returns 1.)
- Lower, Upper, the rounding of reals, floats of `bigint`, names of types, `StrictTypeEq`:
  functions without state and without a boundary of their own, or about reals.
- programs that the analyzer rejects: they are not executed.
