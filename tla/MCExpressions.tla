--------------------------- MODULE MCExpressions ---------------------------
(* Expressions with operands for TLC.                                      *)
EXTENDS Expressions

Letter == String(<<1>>)
Words == String(<<1, 0, 2>>)
List == Array(<<1, 2>>, <<Letter, Integer(1)>>)
Pair == Tuple(<<Integer(1), Bool(TRUE)>>)

Knowns ==
  {Integer(0), Integer(2), Real(1), Words, Bool(TRUE), Bool(FALSE), None, List,
   Function("Join", Letter)}
TypedValues ==
  {Integer(0), Integer(2), Real(0), Letter, Bool(TRUE), Bool(FALSE), List, Pair,
   Function("pure", Integer(1)), Function("impure", Letter)}
UnknownValues == {Integer(2), Real(1), Letter, Bool(FALSE), List, Pair}

\* Operands that act when they are executed, and may fail.
Calls ==
  {Operand(Known(Bool(TRUE)), FALSE, Done(Bool(TRUE), <<"f">>)),
   Operand(Known(Integer(1)), FALSE, Done(Integer(1), <<"f">>)),
   Operand(Typed(IntegerType), FALSE, Done(Integer(3), <<"f">>)),
   Operand(Typed(BoolType), FALSE, Done(Fails, <<"f">>)),
   Operand(Typed(UnknownType), FALSE, Done(Letter, <<"f">>))}

SomeOperands ==
  {PrecomputedValue(v) : v \in Knowns}
    \cup {Operand(Typed(TypeOfValue(v)), TRUE, Done(v, <<>>)) : v \in TypedValues}
    \cup {Operand(Typed(UnknownType), TRUE, Done(v, <<>>)) : v \in UnknownValues}
    \cup Calls

Argument(kind) == Operation(kind, "argument", <<>>)
Fields == {Operation("field", name, <<>>) : name \in {"Length", "Join", "SplitWS", "Round", "Del", "last"}}
Operations ==
  Fields \cup {Operation("is", type, <<>>) : type \in {"int", "func"}}
    \cup {Operation("call", "", <<>>), Operation("at", "", <<PrecomputedValue(Integer(1))>>)}
    \cup {Argument(kind) : kind \in {"call", "paren", "index"}}
SomePostfixes ==
  {ops \in UNION {[1 .. n -> Operations] : n \in 0 .. 2} :
     Cardinality({i \in DOMAIN ops : ops[i].name = "argument"}) <= 1}
=============================================================================
