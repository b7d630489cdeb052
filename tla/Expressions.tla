---------------------------- MODULE Expressions ----------------------------
(***************************************************************************)
(* ExpressionChecker and UnaryOpChecker (src/src/semantic) beside the      *)
(* visitors of the interpreter for the same expressions (src/src/interp):  *)
(* what the analyzer concludes of an expression (its type or value, its    *)
(* purity) and how it rewrites it, given its operands.                     *)
(*                                                                         *)
(* An operand stands for any expression about which the conclusion is      *)
(* right.  If then what is concluded of the operators is right, it is for  *)
(* expressions of any depth.  An operand has res (TypeOrValue), pure, and  *)
(* what it does when it is executed: outcome.                              *)
(*                                                                         *)
(* Left out: the timeline (see Analyzer), warnings, identifiers and        *)
(* literals.  Constructs are those about which the analyzer is wrong, they *)
(* are listed at Known below.                                              *)
(***************************************************************************)
EXTENDS Values

CONSTANTS
  Operands,     \* what operands may be
  Postfixes,    \* operations after an operand, see Operation
  Constructs    \* the misjudged constructs that programs have

VARIABLES
  operands,   \* the operands chosen so far
  checked     \* the expression made of them: verdict, res, pure, before, after

vars == <<operands, checked>>

-----------------------------------------------------------------------------
(* Operands.                                                               *)

\* TypeOrValue; the value of a type plays no role.
Known(value) == [known |-> TRUE, type |-> TypeOfValue(value), value |-> value]
Typed(type) == [known |-> FALSE, type |-> type, value |-> None]
IsUnknown(res) == ~res.known /\ TypeEq(res.type, UnknownType)

\* The value an expression has and its side effects; whether an operator
\* did not need all of its operands.
Outcome(value, does, stopped) == [value |-> value, does |-> does, stopped |-> stopped]
Done(value, does) == Outcome(value, does, FALSE)

Operand(res, pure, outcome) == [res |-> res, pure |-> pure, outcome |-> outcome]
PrecomputedValue(value) == Operand(Known(value), TRUE, Done(value, <<>>))

\* A conclusion is right: the value or type, unless there is an error, and
\* that what is pure neither has side effects nor errors.
Fits(res, value) ==
  \/ value = Fails
  \/ IF res.known THEN value = res.value
     ELSE res.type = UnknownType \/ res.type = TypeOfValue(value)
IsRight(operand) ==
  /\ Fits(operand.res, operand.outcome.value)
  /\ operand.pure => operand.outcome.does = <<>> /\ operand.outcome.value # Fails

ASSUME OperandsAreRight == \A operand \in Operands : IsRight(operand)

-----------------------------------------------------------------------------
(* The interpreter.                                                        *)

\* ExecuteExpressionInThis: the next operand, and a value made of it.
AndThen(now, next, value) ==
  Done(IF next.outcome.value = Fails THEN Fails ELSE value, now.does \o next.outcome.does)

\* VisitSum and VisitTerm.
ExecuteOperators(ops, terms) ==
  LET Step(now, i) ==
        IF now.value = Fails THEN now
        ELSE AndThen(now, terms[i + 1], Arith(ops[i], now.value, terms[i + 1].outcome.value))
  IN FoldLeftDomain(Step, terms[1].outcome, ops)

\* VisitAndOperator, VisitOrOperator and VisitXorOperator.
StopValue(kind) == CASE kind = "and" -> {Bool(FALSE)} [] kind = "or" -> {Bool(TRUE)} [] OTHER -> {}
ExecuteLogicalOperators(kind, terms) ==
  LET first == terms[1].outcome
      Step(now, i) ==
        IF now.value = Fails THEN now
        ELSE IF now.value \in StopValue(kind) THEN Outcome(now.value, now.does, TRUE)
        ELSE AndThen(now, terms[i + 1], Logical(kind, now.value, terms[i + 1].outcome.value))
  IN FoldLeftDomain(Step,
                    IF first.value.kind = "bool" THEN first ELSE Done(Fails, first.does),
                    Tail(terms))

\* VisitBinaryRelation: TRUE means that it goes on.
ExecuteRelation(ops, terms) ==
  LET Step(now, i) ==
        CASE now.value = Fails -> now
          [] now.value = Bool(FALSE) -> Outcome(now.value, now.does, TRUE)
          [] OTHER -> AndThen(now, terms[i + 1],
                              Compare(ops[i], terms[i].outcome.value, terms[i + 1].outcome.value))
      first == terms[1].outcome
  IN IF first.value = Fails THEN first
     ELSE FoldLeftDomain(Step, Done(Bool(TRUE), first.does), ops)

ExecuteNot(term) ==
  IF term.outcome.value = Fails THEN term.outcome
  ELSE Done(Not(term.outcome.value), term.outcome.does)

\* Prefixes and postfixes.  kind: "sign" (name), "is" (name of a type),
\* "field" (name), "at" (args: an index in the program), "paren" and "index"
\* (args: one), "call" (args).
Operation(kind, name, args) == [kind |-> kind, name |-> name, args |-> args]
Precedence(op) == CASE op.kind = "sign" -> 2 [] op.kind = "is" -> 3 [] OTHER -> 1

\* Both visitors merge prefixes and postfixes; a postfix they hold back, holds
\* back those after it.
Merge(prefixes, postfixes, Postpones(_)) ==
  LET n == SelectInSeq(postfixes, Postpones)
      first == IF n = 0 THEN Len(postfixes) ELSE n - 1
  IN SubSeq(postfixes, 1, first) \o prefixes \o SubSeq(postfixes, first + 1, Len(postfixes))
ExecutionOrder(prefixes, postfixes) ==
  Merge(prefixes, postfixes, LAMBDA op : 2 < Precedence(op))

\* UnaryOpExecutor.
Apply(op, value, args) ==
  CASE op.kind = "sign" -> Sign(op.name, value)
    [] op.kind = "is" -> Bool(value.kind = op.name)
    [] op.kind = "field" -> Field(value, op.name)
    [] op.kind = "index" -> Subscript(value, args[1])
    [] op.kind = "call" -> Call(value, args)
    [] OTHER -> FieldAt(value, args[1])  \* "at" and "paren"
Acts(op, value) ==
  IF op.kind = "call" /\ value.kind = "func" /\ ~TypeOfValue(value).pure THEN <<"call">> ELSE <<>>
ExecuteOperation(now, op) ==
  LET args == [i \in DOMAIN op.args |-> op.args[i].outcome.value]
      does == now.does \o FlattenSeq([i \in DOMAIN op.args |-> op.args[i].outcome.does])
  IN CASE now.value = Fails -> now
       [] Fails \in Range(args) -> Done(Fails, does)
       [] OTHER -> Done(Apply(op, now.value, args), does \o Acts(op, now.value))
ExecuteUnary(term, prefixes, postfixes) ==
  FoldLeft(ExecuteOperation, term.outcome, ExecutionOrder(prefixes, postfixes))

-----------------------------------------------------------------------------
(* The analyzer.  A check that accepts says what the expression is and     *)
(* what the rewritten expression does.                                     *)

Accept(res, pure, after) == [verdict |-> "accepted", res |-> res, pure |-> pure, after |-> after]
Reject == [verdict |-> "rejected", res |-> Typed(NoneType), pure |-> TRUE, after |-> Done(None, <<>>)]
Crash == [Reject EXCEPT !.verdict = "crashed"]  \* std::bad_variant_access
Precomputed(value) == Accept(Known(value), TRUE, Done(value, <<>>))

AllPure(terms) == \A i \in DOMAIN terms : terms[i].pure /\ ~IsUnknown(terms[i].res)
KnownPure(term) == term.res.known /\ term.pure
IndicesOf(terms, Test(_)) ==
  SelectSeq([i \in DOMAIN terms |-> i], LAMBDA i : Test(terms[i]))
At(seq, indices) == [k \in DOMAIN indices |-> seq[indices[k]]]

\* The type of operators, and Unsupported if one is not.
TypeOfOperators(ops, terms) ==
  FoldLeftDomain(LAMBDA type, i : ArithType(ops[i], type, terms[i + 1].res.type),
                 terms[1].res.type, ops)

\* VisitSum with a number: known values move to the front.  A term has the
\* operator before it, the first one "plus".  (Mutant: a minus before the
\* first known value is lost.)
SignOfFirstLost(op, value) == value
SignOfFirst(op, value) == IF op = "minus" THEN Sign("minus", value) ELSE value
MergeKnown(ops, terms) ==
  LET signs == <<"plus">> \o ops
      known == IndicesOf(terms, KnownPure)
      rest == IndicesOf(terms, LAMBDA term : ~KnownPure(term))
      value == FoldLeft(LAMBDA sum, i : Arith(signs[i], sum, terms[i].res.value),
                        SignOfFirst(signs[known[1]], terms[known[1]].res.value), Tail(known))
  IN [value |-> value, ops |-> At(signs, rest),
      terms |-> <<PrecomputedValue(value)>> \o At(terms, rest)]

\* VisitSum without numbers: known neighbours are merged.
MergeSequential(ops, terms) ==
  LET signs == <<"plus">> \o ops
      Step(sum, i) ==
        LET last == Last(sum.terms)
            op == IF Last(sum.signs) = ops[i] THEN "plus" ELSE "minus"
            value == Arith(op, last.res.value, terms[i + 1].res.value)
        IN IF sum.value = Fails THEN sum
           ELSE IF KnownPure(last) /\ KnownPure(terms[i + 1])
           THEN [value |-> value, signs |-> sum.signs,
                 terms |-> Append(Front(sum.terms), PrecomputedValue(value))]
           ELSE [value |-> None, signs |-> Append(sum.signs, ops[i]),
                 terms |-> Append(sum.terms, terms[i + 1])]
      merged == FoldLeftDomain(Step, [value |-> None, signs |-> <<"plus">>, terms |-> <<terms[1]>>], ops)
  IN [value |-> merged.value, ops |-> Tail(merged.signs), terms |-> merged.terms]

CheckSum(ops, terms) ==
  LET numeric == \E i \in DOMAIN terms : terms[i].res.type.kind \in {"int", "real"}
      merged == IF Len(SelectSeq(terms, KnownPure)) > 1 /\ numeric
                THEN MergeKnown(ops, terms) ELSE MergeSequential(ops, terms)
      first == merged.terms[1]
      type == TypeOfOperators(merged.ops, merged.terms)
  IN CASE merged.value = Fails -> Reject
       [] Len(merged.terms) = 1 /\ AllPure(terms) /\ first.res.known -> Precomputed(first.res.value)
       [] type = Unsupported -> Reject
       [] OTHER -> Accept(Typed(type), AllPure(terms), ExecuteOperators(merged.ops, merged.terms))

\* VisitTerm.  (Mutant: only division by something unknown is not pure.)
DivisionMayFailUnknown(prevtype, divisor) == IsUnknown(divisor.res)
DivisionMayFail(prevtype, divisor) ==
  divisor.res.type.kind \in {"int", "unknown"} /\ ~TypeEq(prevtype, RealType) /\ ~divisor.res.known
CheckTerm(ops, terms) ==
  LET value == FoldLeftDomain(LAMBDA cur, i : Arith(ops[i], cur, terms[i + 1].res.value),
                              terms[1].res.value, ops)
      TypeBefore(i) == TypeOfOperators(SubSeq(ops, 1, i - 1), terms)
      mayFail == \E i \in DOMAIN ops : ops[i] = "divide" /\ DivisionMayFail(TypeBefore(i), terms[i + 1])
      type == TypeOfOperators(ops, terms)
  IN CASE \A i \in DOMAIN terms : KnownPure(terms[i]) ->
            IF value = Fails THEN Reject ELSE Precomputed(value)
       [] type = Unsupported -> Reject
       [] OTHER -> Accept(Typed(type), AllPure(terms) /\ ~mayFail, ExecuteOperators(ops, terms))

\* VisitBinaryRelation: true relations of known values are dropped.
RelationApplies(op, a, b) ==
  IF op \in {"equal", "notEqual"} THEN BinaryEq(a.res.type, b.res.type)
  ELSE BinaryOrdering(a.res.type, b.res.type)
RECURSIVE DropTrue(_, _)
DropTrue(ops, terms) ==
  IF \/ Len(terms) = 1
     \/ ~KnownPure(terms[1]) \/ ~terms[2].res.known
     \/ ~terms[2].pure /\ Len(terms) = 2
  THEN [value |-> Bool(TRUE), ops |-> ops, terms |-> terms]
  ELSE LET value == Compare(Head(ops), terms[1].res.value, terms[2].res.value)
       IN IF value = Bool(TRUE) THEN DropTrue(Tail(ops), Tail(terms))
          ELSE [value |-> value, ops |-> ops, terms |-> terms]
CheckRelation(ops, terms) ==
  LET rest == DropTrue(ops, terms)
  IN CASE \E i \in DOMAIN ops : ~RelationApplies(ops[i], terms[i], terms[i + 1]) -> Reject
       [] rest.value = Fails -> Reject
       [] rest.value = Bool(FALSE) /\ AllPure(terms) -> Precomputed(Bool(FALSE))
       [] Len(rest.terms) = 1 -> Accept(Known(Bool(TRUE)), AllPure(terms), Done(Bool(TRUE), <<>>))
       [] OTHER -> Accept(Typed(BoolType), AllPure(terms), ExecuteRelation(rest.ops, rest.terms))

\* VisitAndOrOperator: cur is known or not of the operands so far, cut of them
\* are dropped, or those after end are.
CheckAndOr(kind, terms) ==
  LET idempotent == Bool(kind = "and")
      Begin ==
        LET cur == terms[1].res
            pure == terms[1].pure
        IN [verdict |-> IF cur.known /\ cur.type # BoolType THEN "rejected" ELSE "accepted",
            cur |-> cur, pure |-> pure,
            cut |-> IF cur.known /\ cur.value = idempotent /\ pure THEN 1 ELSE 0,
            end |-> IF cur.known /\ cur.value # idempotent THEN 1 ELSE 0]
      Continue(s, i) ==
        LET term == terms[i + 1]
            pure == s.pure /\ term.pure
            value == Logical(kind, s.cur.value, term.res.value)
            type == BinaryLogical(s.cur.type, term.res.type)
        IN CASE s.verdict # "accepted" \/ s.end # 0 -> s
             [] s.cur.known /\ term.res.known ->
                  [verdict |-> IF value = Fails THEN "rejected" ELSE "accepted",
                   cur |-> Known(value), pure |-> pure,
                   cut |-> IF value = idempotent /\ pure THEN i + 1 ELSE s.cut,
                   end |-> IF value = idempotent THEN 0 ELSE i + 1]
             [] OTHER ->
                  [s EXCEPT !.verdict = IF type = Unsupported THEN "crashed" ELSE "accepted",
                            !.cur = Typed(type), !.pure = pure]
      s == FoldLeftDomain(Continue, Begin, Tail(terms))
      rest == SubSeq(terms, s.cut + 1, Len(terms))
  IN CASE s.verdict = "rejected" -> Reject
       [] s.verdict = "crashed" -> Crash
       [] s.end # 0 ->
            IF s.pure THEN Precomputed(s.cur.value)
            ELSE Accept(s.cur, FALSE, ExecuteLogicalOperators(kind, SubSeq(terms, 1, s.end)))
       [] rest = <<>> -> Precomputed(idempotent)
       [] OTHER -> Accept(s.cur, s.pure, ExecuteLogicalOperators(kind, rest))

\* VisitXorOperator: known values move to the front.
CheckXor(terms) ==
  LET known == SelectSeq(terms, LAMBDA term : term.res.known)
      others == SelectSeq(terms, LAMBDA term : ~term.res.known)
      merges == AllPure(terms) /\ Len(known) >= 2
      value == FoldLeft(LAMBDA cur, term : Logical("xor", cur, term.res.value),
                        known[1].res.value, Tail(known))
      rest == IF merges THEN <<PrecomputedValue(value)>> \o others ELSE terms
  IN CASE merges /\ value = Fails -> Reject
       [] \E i \in DOMAIN rest : rest[i].res.type.kind \notin {"bool", "unknown"} -> Reject
       [] Len(rest) = 1 -> Precomputed(value)
       [] OTHER -> Accept(Typed(BoolType), AllPure(terms), ExecuteLogicalOperators("xor", rest))

\* VisitUnaryNot: what is known is not negated.
CheckNot(term) ==
  LET pure == AllPure(<<term>>)
      type == NotType(term.res.type)
  IN CASE term.res.known -> Accept(term.res, pure, IF pure THEN term.outcome ELSE ExecuteNot(term))
       [] type = Unsupported -> Reject
       [] OTHER -> Accept(Typed(type), pure, ExecuteNot(term))

\* UnaryOpChecker: an operation on what is concluded so far, cur.
OfValue(value, pure) == IF value = Fails THEN Reject ELSE Accept(Known(value), pure, Done(value, <<>>))
OfType(type, pure) == IF type = Unsupported THEN Reject ELSE Accept(Typed(type), pure, Done(None, <<>>))

CheckCall(cur, args) ==
  LET pure == ~IsUnknown(cur) /\ AllPure(args)
      given == [i \in DOMAIN args |-> args[i].res]
      type == cur.type
      Matches(i) == {type.argTypes[i].kind, given[i].type.kind} \cap {"unknown"} # {}
                      \/ TypeEq(type.argTypes[i], given[i].type)
  IN CASE IsUnknown(cur) -> OfType(UnknownType, FALSE)
       [] type.kind # "func" -> Reject
       [] cur.known /\ pure /\ type.pure /\ \A i \in DOMAIN given : given[i].known ->
            OfValue(Call(cur.value, [i \in DOMAIN given |-> given[i].value]), TRUE)
       [] Len(type.argTypes) # Len(args) -> Reject
       [] \E i \in DOMAIN given : ~Matches(i) -> Reject
       [] OTHER -> OfType(type.returnType, pure /\ type.pure)

CheckOperation(cur, op) ==
  LET pure == ~IsUnknown(cur)
      arg == op.args[1]
      Item(value, type, isPure) ==
        CASE cur.known /\ arg.res.known -> OfValue(value, isPure)
          [] cur.known -> Crash
          [] OTHER -> OfType(type, isPure)
  IN CASE op.kind = "call" -> CheckCall(cur, op.args)
       [] op.kind = "paren" ->
            Item(FieldAt(cur.value, arg.res.value), FieldTypeAt(cur.type, arg.res.type), arg.pure)
       [] op.kind = "index" ->
            Item(Subscript(cur.value, arg.res.value), SubscriptType(cur.type, arg.res.type), arg.pure)
       [] op.kind = "at" ->
            Item(FieldAt(cur.value, arg.res.value), FieldTypeAt(cur.type, IntegerType), pure)
       [] op.kind = "field" ->
            IF cur.known THEN OfValue(Field(cur.value, op.name), pure)
            ELSE OfType(FieldType(cur.type, op.name), pure)
       [] op.kind = "sign" ->
            IF cur.known THEN OfValue(Sign(op.name, cur.value), pure) ELSE OfType(SignType(cur.type), pure)
       [] IsUnknown(cur) -> OfType(BoolType, pure)  \* "is"
       [] OTHER -> OfValue(Bool(cur.type.kind = op.name), pure)

\* VisitUnary: while values are known and immutable they replace operations.
CheckingOrder(prefixes, postfixes) ==
  Merge(prefixes, postfixes, LAMBDA op : ~(2 < Precedence(op)))
CheckUnary(term, prefixes, postfixes) ==
  LET Begin ==
        [verdict |-> "accepted", res |-> term.res, pure |-> AllPure(<<term>>), base |-> term,
         precomp |-> AllPure(<<term>>) /\ term.res.known, left |-> <<>>]
      Step(s, op) ==
        LET check == CheckOperation(s.res, op)
            pure == s.pure /\ check.pure
            precomp == s.precomp /\ pure /\ check.res.known /\ ~Mutable(check.res.type)
        IN IF s.verdict # "accepted" THEN s
           ELSE [verdict |-> check.verdict, res |-> check.res, pure |-> pure, precomp |-> precomp,
                 base |-> IF precomp THEN PrecomputedValue(check.res.value) ELSE s.base,
                 left |-> IF precomp THEN s.left ELSE Append(s.left, op)]
      s == FoldLeft(Step, Begin, CheckingOrder(prefixes, postfixes))
  IN CASE s.verdict = "rejected" -> Reject
       [] s.verdict = "crashed" -> Crash
       [] OTHER -> Accept(s.res, s.pure,
                     ExecuteUnary(s.base, SelectSeq(s.left, LAMBDA op : op.kind = "sign"),
                                  SelectSeq(s.left, LAMBDA op : op.kind # "sign")))

-----------------------------------------------------------------------------
(* Expressions.  A misjudged construct needs to be in Constructs.          *)

Has(construct, condition) == condition => construct \in Constructs

\* The result of "not" of a known value is that value.
NotOfKnown(term) == Has("not of known", term.res.known)

\* "and" and "or" of other types than bool: the checker dies of a
\* bad_variant_access, or takes what may fail for pure.
LogicalOfOthers(terms) ==
  Has("logical of others",
      /\ \E i \in DOMAIN terms : ~terms[i].res.known
      /\ \E i \in DOMAIN terms : terms[i].res.type # BoolType)

\* Division of an int by 0 is taken for pure.
DivisionByZero(ops, terms) ==
  Has("division by zero",
      \E i \in DOMAIN ops : ops[i] = "divide" /\ terms[i + 1].res.value = Integer(0))

\* An order of arrays is rejected, but executed it is FALSE.
OrderOfArrays(ops, terms) ==
  Has("order of arrays",
      \E i \in DOMAIN ops :
        ops[i] \notin {"equal", "notEqual"}
          /\ ArrayType \in {terms[i].res.type, terms[i + 1].res.type})

\* Prefixes and postfixes are checked in another order than executed.
SignedPostfix(prefixes, postfixes) ==
  Has("signed postfix", prefixes # <<>> /\ postfixes # <<>>)

\* An index that is not known, of a known value: bad_variant_access.
IndexOfKnown(cur, op) ==
  Has("index of known", op.kind \in {"paren", "index"} /\ cur.known /\ ~op.args[1].res.known)

\* Items and fields that may not be there, and Join of what may not be
\* strings, are taken for pure; a field t.(x) is rejected if x is unknown.
ItemOfTyped(cur, op) ==
  Has("item of typed",
      \/ ~cur.known /\ cur.type.kind = "tuple" /\ op.kind \in {"field", "at", "paren"}
      \/ ~cur.known /\ cur.type.kind \in {"array", "string"} /\ op.kind = "index"
      \/ /\ op.kind = "call" /\ cur.type = FieldType(StringType, "Join")
         /\ ~cur.known \/ \E i \in DOMAIN op.args : ~op.args[i].res.known)

Nothing == [verdict |-> "none"]

Init == operands = <<>> /\ checked = Nothing

Push ==
  /\ checked = Nothing /\ Len(operands) < 3
  /\ \E operand \in Operands : operands' = Append(operands, operand)
  /\ UNCHANGED checked

Check(check, before) ==
  /\ checked = Nothing
  /\ checked' = [verdict |-> check.verdict, res |-> check.res, pure |-> check.pure,
                 before |-> before, after |-> check.after]
  /\ UNCHANGED operands

OperatorsOf(names) == [1 .. Len(operands) - 1 -> names]

Sum ==
  /\ Len(operands) > 1
  /\ \E ops \in OperatorsOf({"plus", "minus"}) :
       Check(CheckSum(ops, operands), ExecuteOperators(ops, operands))

Term ==
  /\ Len(operands) > 1
  /\ \E ops \in OperatorsOf({"times", "divide"}) :
       /\ DivisionByZero(ops, operands)
       /\ Check(CheckTerm(ops, operands), ExecuteOperators(ops, operands))

BinaryRelation ==
  /\ Len(operands) > 1
  /\ \E ops \in OperatorsOf({"less", "lessEq", "equal", "notEqual"}) :
       /\ OrderOfArrays(ops, operands)
       /\ Check(CheckRelation(ops, operands), ExecuteRelation(ops, operands))

AndOrOperator ==
  /\ Len(operands) > 1
  /\ LogicalOfOthers(operands)
  /\ \E kind \in {"and", "or"} :
       Check(CheckAndOr(kind, operands), ExecuteLogicalOperators(kind, operands))

XorOperator ==
  /\ Len(operands) > 1
  /\ Check(CheckXor(operands), ExecuteLogicalOperators("xor", operands))

UnaryNot ==
  /\ Len(operands) = 1
  /\ NotOfKnown(operands[1])
  /\ Check(CheckNot(operands[1]), ExecuteNot(operands[1]))

\* The second operand is the argument of an operation that needs one.
Postfix(op) == IF op.name = "argument" THEN [op EXCEPT !.args = <<operands[2]>>] ELSE op
BaseOf(postfixes, i) ==
  FoldLeft(LAMBDA cur, op : CheckOperation(cur, op).res, operands[1].res, SubSeq(postfixes, 1, i - 1))
Unary ==
  /\ Len(operands) \in 1 .. 2
  /\ \E prefixes \in {<<>>, <<Operation("sign", "plus", <<>>)>>, <<Operation("sign", "minus", <<>>)>>},
        forms \in Postfixes :
       LET postfixes == [i \in DOMAIN forms |-> Postfix(forms[i])]
       IN /\ prefixes # <<>> \/ forms # <<>>
          /\ Len(operands) = 2 <=> \E i \in DOMAIN forms : forms[i].name = "argument"
          /\ SignedPostfix(prefixes, postfixes)
          /\ \A i \in DOMAIN postfixes :
               /\ ItemOfTyped(BaseOf(postfixes, i), postfixes[i])
               /\ IndexOfKnown(BaseOf(postfixes, i), postfixes[i])
          /\ Check(CheckUnary(operands[1], prefixes, postfixes),
                   ExecuteUnary(operands[1], prefixes, postfixes))

Next ==
  \/ Push \/ Sum \/ Term \/ BinaryRelation \/ AndOrOperator \/ XorOperator \/ UnaryNot \/ Unary

Spec == Init /\ [][Next]_vars

-----------------------------------------------------------------------------
(* Properties.                                                             *)

Accepted == checked.verdict = "accepted"

\* The checker never dies of a bad_variant_access, and no type is unsupported.
TypeOK ==
  /\ operands \in Seq(Operands)
  /\ checked.verdict \in {"none", "accepted", "rejected"}
  /\ Accepted => checked.pure \in BOOLEAN /\ checked.res.type # Unsupported

\* The type or value concluded for an expression is that of every execution
\* that does not end in an error.
ResultIsRight == Accepted => Fits(checked.res, checked.before.value)

\* A pure expression has no side effects and does not fail ("Division is pure
\* iff it is known that it will be real division because integer division may
\* throw", runtime/README.md): statements that are pure are removed.
PureNeitherActsNorFails ==
  Accepted /\ checked.pure => checked.before.does = <<>> /\ checked.before.value # Fails

\* Values precomputed, operands dropped, merged or moved to the front: the
\* rewritten expression has the same value and side effects, or fails as well.
RewritingIsRight ==
  Accepted =>
    /\ checked.after.value = checked.before.value
    /\ checked.before.value # Fails => checked.after.does = checked.before.does

\* What is rejected would have been an error, if all of it were executed.
RejectedFails ==
  checked.verdict = "rejected" => checked.before.value = Fails \/ checked.before.stopped

\* Arrays and tuples are not among the known values: "array values are never
\* precomputed" (runtime/README.md).
KnownIsImmutable ==
  /\ Accepted /\ checked.res.known
  /\ \A i \in DOMAIN operands : operands[i].res.known => ~Mutable(operands[i].res.type)
  => ~Mutable(checked.res.type)
=============================================================================
