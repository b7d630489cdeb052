------------------------------- MODULE Parser -------------------------------
(***************************************************************************)
(* The parser (src/src/syntax): recursive descent with backtracking over a *)
(* vector of tokens.  The productions are data, read by one operator that  *)
(* does what TokenScanner does: a block that fails puts the position back, *)
(* a block may ignore line breaks or use them, and the farthest token that *)
(* was not what was read for is remembered for the error message.          *)
(*                                                                         *)
(* A token is its type, its value plays no role.  A node of the tree has a *)
(* kind and parts, tokens included, but for line breaks and semicolons.    *)
(* The position of a token is its index.  Left out: spans, and the extra   *)
(* message about a "var" without names.                                    *)
(***************************************************************************)
EXTENDS Integers, Sequences, SequencesExt

CONSTANTS
  Tokens,   \* types of tokens a program may have
  Families  \* beginnings of programs, the tokens by which each is continued,
            \* and up to which length

ASSUME ParserAssumption ==
  \A family \in Families :
    family.program \in Seq(Tokens) /\ family.tokens \subseteq Tokens /\ family.length \in Nat

VARIABLES
  family,   \* one of Families
  program,  \* the tokens, without the end of file
  outcome   \* what the parser makes of them

vars == <<family, program, outcome>>

-----------------------------------------------------------------------------
(* Forms of productions.                                                   *)

Token(type) == [op |-> "token", arg |-> type]
Rule(name) == [op |-> "rule", arg |-> name]
Block(items) == [op |-> "block", arg |-> items]             \* AutoStart
IgnoreEoln(items) == [op |-> "ignoreEoln", arg |-> items]   \* AutoStartIgnoreEoln
UseEoln(items) == [op |-> "useEoln", arg |-> items]         \* AutoStartUseEoln
Choice(items) == [op |-> "choice", arg |-> items]
Many(item) == [op |-> "many", arg |-> item]
UpTo(precedence) == [op |-> "expression", arg |-> precedence]

Opt(item) == Choice(<<item, Block(<<>>)>>)
List(item) == Block(<<item, Many(Block(<<Token("comma"), item>>))>>)

\* BinaryPrecedence.
NotPrecedence == 3
Loosest == 7
Precedence ==
  [times |-> 0, divide |-> 0, plus |-> 1, minus |-> 1, less |-> 2, lessEq |-> 2,
   greater |-> 2, greaterEq |-> 2, equal |-> 2, notEqual |-> 2, and |-> 4, or |-> 5, xor |-> 6]
Composite(precedence) ==
  <<"Term", "Sum", "BinaryRelation", "UnaryNot", "AndOperator", "OrOperator", "XorOperator">>
    [precedence + 1]

Expression == UpTo(Loosest)
Sep == Choice(<<Token("newline"), Token("semicolon")>>)
OptNewLine == Opt(Token("newline"))

-----------------------------------------------------------------------------
(* Statements.                                                             *)

\* A statement without a separator after it is not read.
BodyItem == Block(<<Opt(Rule("Statement")), Sep>>)
Body == UseEoln(<<Many(BodyItem)>>)
LoopBody == Block(<<Token("loop"), Rule("Body"), Token("end")>>)

Statement ==
  Choice(<<Rule("VarStatement"), Rule("IfStatement"), Rule("ShortIfStatement"),
           Rule("WhileStatement"), Rule("ForStatement"), Rule("LoopStatement"),
           Rule("ExitStatement"), Rule("AssignStatement"), Rule("PrintStatement"),
           Rule("ReturnStatement"), Rule("ExpressionStatement")>>)

VarDefinition ==
  Block(<<Token("ident"), Opt(Block(<<Token("assign"), Expression>>))>>)
VarStatement ==
  Block(<<Token("var"), OptNewLine, VarDefinition,
          Many(Block(<<Token("comma"), OptNewLine, VarDefinition>>))>>)
IfStatement ==
  Block(<<Token("if"), IgnoreEoln(<<Expression>>), Token("then"), Rule("Body"),
          Opt(Block(<<Token("else"), Rule("Body")>>)), Token("end")>>)
ShortIfStatement ==
  Block(<<Token("if"), IgnoreEoln(<<Expression>>), Token("arrow"), OptNewLine,
          Rule("Statement")>>)
WhileStatement == Block(<<Token("while"), IgnoreEoln(<<Expression>>), LoopBody>>)
ForStatement ==
  Block(<<Token("for"), Opt(Block(<<Token("ident"), Token("in")>>)), IgnoreEoln(<<Expression>>),
          Opt(Block(<<Token("range"), IgnoreEoln(<<Expression>>)>>)), LoopBody>>)
LoopStatement == Block(<<LoopBody>>)
ExitStatement == Block(<<Token("exit")>>)
AssignStatement == Block(<<Rule("Reference"), Token("assign"), Expression>>)
PrintStatement == Block(<<Token("print"), Opt(List(Expression))>>)
ReturnStatement == Block(<<Token("return"), Opt(Expression)>>)

-----------------------------------------------------------------------------
(* Expressions.                                                            *)

IdentMemberAccessor == Block(<<Token("dot"), Token("ident")>>)
IntLiteralMemberAccessor == Block(<<Token("dot"), Token("intLiteral")>>)
ParenMemberAccessor == Block(<<Token("dot"), Rule("ParenthesesExpression")>>)
IndexAccessor ==
  Block(<<Token("openBracket"), IgnoreEoln(<<Expression>>), Token("closedBracket")>>)
Accessor ==
  Choice(<<Rule("IdentMemberAccessor"), Rule("IntLiteralMemberAccessor"),
           Rule("ParenMemberAccessor"), Rule("IndexAccessor")>>)
Reference == Block(<<Token("ident"), Many(Accessor)>>)

BinaryOperator ==
  Choice(<<Token("times"), Token("divide"), Token("plus"), Token("minus"), Token("less"),
           Token("lessEq"), Token("greater"), Token("greaterEq"), Token("equal"),
           Token("notEqual"), Token("and"), Token("or"), Token("xor")>>)
Operand == Choice(<<Rule("UnaryNot"), Rule("Unary")>>)
UnaryNot == Block(<<Token("not"), UpTo(NotPrecedence)>>)
Unary == Block(<<Many(Rule("PrefixOperator")), Rule("Primary"), Many(Rule("PostfixOperator"))>>)
PrefixOperator == Block(<<Choice(<<Token("minus"), Token("plus")>>)>>)
PostfixOperator == Choice(<<Rule("TypecheckOperator"), Rule("Call"), Accessor>>)

TypeId ==
  Choice(<<Token("int"), Token("real"), Token("string"), Token("bool"), Token("none"),
           Token("func"), Block(<<Token("openBracket"), Token("closedBracket")>>),
           Block(<<Token("openBrace"), Token("closedBrace")>>)>>)
TypecheckOperator == Block(<<Token("is"), TypeId>>)
Call ==
  Block(<<Token("openParen"), IgnoreEoln(<<Opt(List(Expression))>>), Token("closedParen")>>)

Primary ==
  Choice(<<Rule("PrimaryIdent"), Rule("ParenthesesExpression"), Rule("FuncLiteral"),
           Rule("TokenLiteral"), Rule("ArrayLiteral"), Rule("TupleLiteral")>>)
PrimaryIdent == Block(<<Token("ident")>>)
ParenthesesExpression ==
  Block(<<Token("openParen"), IgnoreEoln(<<Expression>>), Token("closedParen")>>)
TupleLiteralElement == Block(<<Opt(Block(<<Token("ident"), Token("assign")>>)), Expression>>)
TupleLiteral ==
  Block(<<Token("openBrace"), IgnoreEoln(<<Opt(List(TupleLiteralElement))>>),
          Token("closedBrace")>>)
ShortFuncBody == Block(<<Token("arrow"), Expression>>)
LongFuncBody == Block(<<Token("is"), Rule("Body"), Token("end")>>)
FuncLiteral ==
  Block(<<Token("func"), Token("openParen"), IgnoreEoln(<<Opt(List(Token("ident")))>>),
          Token("closedParen"), Choice(<<ShortFuncBody, LongFuncBody>>)>>)
TokenLiteral ==
  Block(<<Choice(<<Token("stringLiteral"), Token("intLiteral"), Token("realLiteral"),
                   Token("true"), Token("false"), Token("none")>>)>>)
ArrayLiteral ==
  Block(<<Token("openBracket"), IgnoreEoln(<<Opt(List(Expression))>>), Token("closedBracket")>>)

Grammar ==
  [Body |-> Body, Statement |-> Statement, VarStatement |-> VarStatement,
   IfStatement |-> IfStatement, ShortIfStatement |-> ShortIfStatement,
   WhileStatement |-> WhileStatement, ForStatement |-> ForStatement,
   LoopStatement |-> LoopStatement, ExitStatement |-> ExitStatement,
   AssignStatement |-> AssignStatement, PrintStatement |-> PrintStatement,
   ReturnStatement |-> ReturnStatement, ExpressionStatement |-> Expression,
   IdentMemberAccessor |-> IdentMemberAccessor,
   IntLiteralMemberAccessor |-> IntLiteralMemberAccessor,
   ParenMemberAccessor |-> ParenMemberAccessor, IndexAccessor |-> IndexAccessor,
   Reference |-> Reference, UnaryNot |-> UnaryNot, Unary |-> Unary,
   PrefixOperator |-> PrefixOperator, PostfixOperator |-> PostfixOperator,
   TypecheckOperator |-> TypecheckOperator, Call |-> Call, Primary |-> Primary,
   PrimaryIdent |-> PrimaryIdent, ParenthesesExpression |-> ParenthesesExpression,
   TupleLiteral |-> TupleLiteral, FuncLiteral |-> FuncLiteral, TokenLiteral |-> TokenLiteral,
   ArrayLiteral |-> ArrayLiteral]

-----------------------------------------------------------------------------
(* TokenScanner and SyntaxErrorReport: the tokens, the position and        *)
(* whether line breaks are ignored; the position of the error and the      *)
(* types that were expected there.                                         *)

NewScanner(tokens) ==
  [tokens |-> tokens, index |-> 1, ignoreEoln |-> FALSE, rightmostPos |-> 1, expected |-> {}]
Peek(s) == s.tokens[s.index]

\* (Mutant: what was expected at an earlier position is kept.)
ReportedToo(s, type) ==
  IF s.rightmostPos > s.index THEN s
  ELSE [s EXCEPT !.rightmostPos = s.index, !.expected = @ \cup {type}]
ReportUnexpectedToken(s, type) ==
  IF s.rightmostPos > s.index THEN s
  ELSE [s EXCEPT !.rightmostPos = s.index,
                 !.expected = {type} \cup IF s.rightmostPos = s.index THEN @ ELSE {}]

Advance(s) == IF s.index = Len(s.tokens) THEN s ELSE [s EXCEPT !.index = @ + 1]
SkipEolns(s) ==
  LET next == {i \in s.index .. Len(s.tokens) : s.tokens[i] # "newline"}
  IN ReportUnexpectedToken([s EXCEPT !.index = Min(next)], "newline")

\* The scanner in a block, and after a block began at s and ended at t.
\* (Mutants: a block does not ignore what the block around it ignores; a block
\* that fails leaves the position where it is.)
StartUsing(s) == [s EXCEPT !.ignoreEoln = FALSE]
Start(s) == s
StartIgnoreEoln(s) == SkipEolns([s EXCEPT !.ignoreEoln = TRUE])
StartUseEoln(s) == [s EXCEPT !.ignoreEoln = FALSE]
EndSuccess(s, t) ==
  LET back == [t EXCEPT !.ignoreEoln = s.ignoreEoln]
  IN IF s.ignoreEoln THEN SkipEolns(back) ELSE back
EndWhereItIs(s, t) == [t EXCEPT !.ignoreEoln = s.ignoreEoln]
EndFail(s, t) == [t EXCEPT !.index = s.index, !.ignoreEoln = s.ignoreEoln]

Node(kind, parts) == [kind |-> kind, parts |-> parts]
Match(s, parts) == [ok |-> TRUE, scanner |-> s, parts |-> parts]
Mismatch(s) == [ok |-> FALSE, scanner |-> s, parts |-> <<>>]

IsSeparator(type) == type \in {"newline", "semicolon"}
Read(s, type) ==
  IF Peek(s) # type THEN Mismatch(ReportUnexpectedToken(s, type))
  ELSE Match(IF s.ignoreEoln THEN SkipEolns(Advance(s)) ELSE Advance(s),
             IF IsSeparator(type) THEN <<>> ELSE <<Node(type, <<>>)>>)

-----------------------------------------------------------------------------
(* CollapseOperandStack: operators that bind tighter than what comes next  *)
(* become a node with their operands, all that are in a row on one level.  *)

\* (Mutant: operators of the same level, too, one at a time.)
BindsAsTight(precedence, next) == precedence <= next
BindsTighter(precedence, next) == precedence < next
Alternated(operands, operators) ==
  FlattenSeq([i \in 1 .. Len(operators) |-> <<operators[i], operands[i]>>])

RECURSIVE CollapseOperandStack(_, _, _)
CollapseOperandStack(operands, operators, next) ==
  LET Level(i) == Precedence[operators[i].kind]
      n == Len(operators)
      kept == Max({0} \cup {i \in 1 .. n : Level(i) # Level(n)})
      row == <<operands[kept + 1]>> \o
               Alternated(SubSeq(operands, kept + 2, n + 1), SubSeq(operators, kept + 1, n))
  IN IF n = 0 THEN operands
     ELSE IF ~BindsTighter(Level(n), next) THEN operands
     ELSE CollapseOperandStack(
            SubSeq(operands, 1, kept) \o <<Node(Composite(Level(n)), row)>>,
            SubSeq(operators, 1, kept), next)
Uncollapsed(operands, operators) == SubSeq(operators, 1, Len(operands) - 1)

-----------------------------------------------------------------------------
(* Parsing.                                                                *)

RECURSIVE Parse(_, _), ParseItems(_, _, _), ParseChoice(_, _), ParseMany(_, _, _),
          ParseOperands(_, _, _, _)

ParseItems(items, s, parts) ==
  LET first == Parse(Head(items), s)
  IN IF items = <<>> THEN Match(s, parts)
     ELSE IF ~first.ok THEN first
     ELSE ParseItems(Tail(items), first.scanner, parts \o first.parts)

ParseBlock(items, s, start) ==
  LET result == ParseItems(items, start, <<>>)
  IN IF result.ok THEN [result EXCEPT !.scanner = EndSuccess(s, @)]
     ELSE [result EXCEPT !.scanner = EndFail(s, @)]

ParseChoice(items, s) ==
  LET first == Parse(Head(items), s)
  IN IF items = <<>> THEN Mismatch(s)
     ELSE IF first.ok THEN first
     ELSE ParseChoice(Tail(items), first.scanner)

ParseMany(item, s, parts) ==
  LET next == Parse(item, s)
  IN IF next.ok THEN ParseMany(item, next.scanner, parts \o next.parts)
     ELSE Match(next.scanner, parts)

\* The loop of Expression::parse after the first operand.
ParseOperands(s, operands, operators, max) ==
  LET operator == Parse(BinaryOperator, s)
      level == Precedence[operator.parts[1].kind]
      operand == Parse(Operand, operator.scanner)
      collapsed == CollapseOperandStack(operands, operators, level)
  IN IF ~operator.ok THEN Match(operator.scanner, CollapseOperandStack(operands, operators, Loosest))
     ELSE IF level > max \/ ~operand.ok
     THEN Match(EndFail(s, IF level > max THEN operator.scanner ELSE operand.scanner),
                CollapseOperandStack(operands, operators, Loosest))
     ELSE ParseOperands(EndSuccess(s, operand.scanner), collapsed \o operand.parts,
                        Uncollapsed(collapsed, operators) \o operator.parts, max)

Parse(form, s) ==
  CASE form.op = "token" -> Read(s, form.arg)
    [] form.op = "block" -> ParseBlock(form.arg, s, Start(s))
    [] form.op = "ignoreEoln" -> ParseBlock(form.arg, s, StartIgnoreEoln(s))
    [] form.op = "useEoln" -> ParseBlock(form.arg, s, StartUseEoln(s))
    [] form.op = "choice" -> ParseChoice(form.arg, s)
    [] form.op = "many" -> ParseMany(form.arg, s, <<>>)
    [] form.op = "rule" ->
         LET result == Parse(Grammar[form.arg], s)
         IN IF result.ok THEN [result EXCEPT !.parts = <<Node(form.arg, @)>>] ELSE result
    [] form.op = "expression" ->
         LET first == Parse(Operand, s)
         IN IF first.ok THEN ParseOperands(first.scanner, first.parts, <<>>, form.arg) ELSE first

\* parseProgram: the last statement needs no separator.
RECURSIVE ParseProgram(_, _)
ParseProgram(s, parts) ==
  LET end == Read(s, "eof")
      statement == Parse(Opt(Rule("Statement")), end.scanner)
      sep == Parse(Sep, statement.scanner)
      lateEnd == Read(sep.scanner, "eof")
      read == parts \o statement.parts
  IN IF end.ok THEN Match(end.scanner, parts)
     ELSE IF sep.ok THEN ParseProgram(sep.scanner, read)
     ELSE IF lateEnd.ok THEN Match(lateEnd.scanner, read)
     ELSE Mismatch(lateEnd.scanner)

\* SyntaxAnalyzer::analyze: the tree, or where the error is and what was
\* expected there.
Analyze(tokens) ==
  LET result == ParseProgram(NewScanner(Append(tokens, "eof")), <<>>)
  IN [ok |-> result.ok, tree |-> result.parts, at |-> result.scanner.rightmostPos,
      expected |-> result.scanner.expected]

-----------------------------------------------------------------------------
(* Programs, one token longer at a time as long as they could be continued. *)

CouldBeContinued == outcome.at = Len(program) + 1 \/ outcome.ok

Init == family \in Families /\ program = family.program /\ outcome = Analyze(program)

Extend ==
  /\ Len(program) < family.length
  /\ CouldBeContinued
  /\ \E type \in family.tokens :
       /\ program' = Append(program, type)
       /\ outcome' = Analyze(program')
  /\ UNCHANGED family

Next == Extend

Spec == Init /\ [][Next]_vars

-----------------------------------------------------------------------------
(* Properties.                                                             *)

RECURSIVE Leaves(_)
Leaves(nodes) ==
  IF nodes = <<>> THEN <<>>
  ELSE (IF Head(nodes).parts = <<>> /\ Head(nodes).kind \in Tokens
        THEN <<Head(nodes).kind>> ELSE Leaves(Head(nodes).parts)) \o Leaves(Tail(nodes))

\* The tree has every token of the program once and in order, however often
\* the parser went back, and whatever operands were collapsed.
TreeHasTheTokens ==
  outcome.ok =>
    Leaves(outcome.tree) = SelectSeq(program, LAMBDA type : ~IsSeparator(type))

\* The levels of the table in syntax/README.md ("Operator precedence").
LevelOf(node) ==
  CASE node.kind = "Term" -> 0 [] node.kind = "Sum" -> 1 [] node.kind = "BinaryRelation" -> 2
    [] node.kind = "UnaryNot" -> 3 [] node.kind = "AndOperator" -> 4
    [] node.kind = "OrOperator" -> 5 [] node.kind = "XorOperator" -> 6 [] OTHER -> -1
RECURSIVE EndsInNot(_)
EndsInNot(node) ==
  \/ LevelOf(node) = 3
  \/ LevelOf(node) \in 0 .. 2 /\ EndsInNot(Last(node.parts))

\* An operand binds tighter than its operator.  "not" takes all it can, so it
\* is the last operand of an operator that binds tighter than itself.
OperandFits(node, i) ==
  LET operand == node.parts[i]
  IN IF LevelOf(node) <= 2
     THEN IF i = Len(node.parts)
          THEN LevelOf(operand) < LevelOf(node) \/ LevelOf(operand) = 3
          ELSE LevelOf(operand) < LevelOf(node) /\ ~EndsInNot(operand)
     ELSE LevelOf(operand) < LevelOf(node)
RECURSIVE Fits(_)
Fits(node) ==
  /\ CASE LevelOf(node) = -1 -> TRUE
       [] LevelOf(node) = 3 -> LevelOf(node.parts[2]) <= 3
       [] OTHER -> \A i \in {j \in DOMAIN node.parts : j % 2 = 1} : OperandFits(node, i)
  /\ \A i \in DOMAIN node.parts : Fits(node.parts[i])

\* Every tree of operators is the one the precedence of operators describes.
PrecedenceIsRight == \A i \in DOMAIN outcome.tree : Fits(outcome.tree[i])

\* Expressions of names, "not", "-" and other operators are accepted if they
\* alternate as they should: "operand" is due first, "primary" after a sign.
Due(state, type) ==
  IF state = "operator"
  THEN IF type \in DOMAIN Precedence THEN "operand" ELSE "error"
  ELSE CASE type = "ident" /\ state # "error" -> "operator"
         [] type = "not" /\ state = "operand" -> "operand"
         [] type = "minus" /\ state # "error" -> "primary"
         [] OTHER -> "error"
ExpressionsAreAccepted ==
  ToSet(program) \subseteq {"ident", "not"} \cup DOMAIN Precedence
    => (outcome.ok <=> program = <<>> \/ FoldLeft(Due, "operand", program) = "operator")

ExpressionsAreRight == PrecedenceIsRight /\ ExpressionsAreAccepted

\* The report of a rejected program is exact: another token gets the parser
\* past the end of what it had if and only if it is reported as expected there.
ReportIsExact ==
  [][~outcome.ok =>
       (outcome'.ok \/ outcome'.at > Len(program') <=> Last(program') \in outcome.expected)]_vars

\* What is open after some tokens ("if", a parenthesis, a function before its
\* body, a body, a type in brackets), the innermost last; whether the last
\* token is the "is" of a type test.
Opened(s, type) ==
  LET top == IF s.open = <<>> THEN "none" ELSE Last(s.open)
      Opening(open) == [open |-> open, test |-> FALSE]
      Replaced(by) == Opening(Append(Front(s.open), by))
  IN CASE s.test -> Opening(IF type \in {"openBracket", "openBrace"} THEN Append(s.open, "type") ELSE s.open)
       [] type \in {"openParen", "openBracket", "openBrace", "if", "while", "func"} ->
            Opening(Append(s.open, type))
       [] type \in {"closedParen", "closedBracket", "closedBrace", "end"} -> Opening(Front(s.open))
       [] type = "is" -> IF top = "func" THEN Replaced("body") ELSE [s EXCEPT !.test = TRUE]
       [] type = "then" -> Replaced("body")
       [] type = "loop" -> IF top = "while" THEN Replaced("body") ELSE Opening(Append(s.open, "body"))
       [] type = "arrow" /\ top \in {"if", "func"} -> Opening(Front(s.open))
       [] OTHER -> Opening(s.open)
LineBreakIgnored(n) ==
  LET open == FoldLeft(Opened, [open |-> <<>>, test |-> FALSE], SubSeq(program, 1, n)).open
  IN open # <<>> /\ Last(open) \notin {"body", "type", "func"}

\* A line break makes no difference between an opening and a closing
\* parenthesis, bracket or brace, nor between "if" and "then", unless in the
\* body of a function ("sections where line breaks must be ignored",
\* syntax/README.md).
LineBreaksAreIgnored ==
  outcome.ok =>
    \A n \in DOMAIN program :
      LineBreakIgnored(n) => Analyze(InsertAt(program, n + 1, "newline")).tree = outcome.tree
=============================================================================
