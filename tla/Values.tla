------------------------------- MODULE Values -------------------------------
(***************************************************************************)
(* Types and values (src/src/runtime): the tables of operators on types    *)
(* (types.cpp), which the analyzer uses, and the operators on values       *)
(* (values.cpp), which the interpreter and the analyzer use.               *)
(*                                                                         *)
(* A value has the kind of its type, data (the number, the characters, the *)
(* code of a function) and items (the elements; for a function the value   *)
(* it is a method of, or returns).  Reals are whole numbers, or Inexact,   *)
(* which no operand of a relation is.                                      *)
(* Characters are numbers, 0 is white space.  Arrays have the indices 1 to *)
(* their length, data says which objects their elements are.               *)
(*                                                                         *)
(* Left out: Split, Slice, Lower, Upper, and Floor and Ceil, which are as  *)
(* Round for whole numbers.                                                *)
(***************************************************************************)
EXTENDS Integers, Sequences, SequencesExt

-----------------------------------------------------------------------------
(* Types.                                                                  *)

Type(kind) == [kind |-> kind]
IntegerType == Type("int")
RealType == Type("real")
StringType == Type("string")
NoneType == Type("none")
BoolType == Type("bool")
ArrayType == Type("array")
TupleType == Type("tuple")
UnknownType == Type("unknown")

\* All arguments of closures are unknown, those of methods are not.
FuncType(pure, argTypes, returnType) ==
  [kind |-> "func", pure |-> pure, argTypes |-> argTypes, returnType |-> returnType]

\* The result of an operator that a type or a value does not support.
Unsupported == Type("unsupported")

TypeEq(a, b) == a.kind = b.kind
Mutable(type) == type.kind \in {"array", "tuple", "unknown"}

\* (Mutant: an int and something unknown are taken for an int.)
NumericArithGuess(a, b) ==
  IF {a.kind, b.kind} = {"int", "unknown"} THEN IntegerType
  ELSE IF a.kind = b.kind THEN a ELSE UnknownType
NumericArith(a, b) ==
  LET kinds == {a.kind, b.kind}
  IN IF ~(kinds \subseteq {"int", "real", "unknown"}) THEN Unsupported
     ELSE IF "real" \in kinds THEN RealType
     ELSE IF "unknown" \in kinds THEN UnknownType ELSE IntegerType

\* BinaryPlus; BinaryMinus, BinaryMul and BinaryDiv.
PlusType(a, b) ==
  CASE {a.kind, b.kind} \cap {"int", "real"} # {} -> NumericArith(a, b)
    [] a.kind \in {"string", "array", "tuple"} /\ b.kind \in {a.kind, "unknown"} -> a
    [] a.kind = "unknown" /\ b.kind \in {"string", "array", "tuple", "unknown"} -> b
    [] OTHER -> Unsupported
ArithType(op, a, b) == IF op = "plus" THEN PlusType(a, b) ELSE NumericArith(a, b)

\* (Mutant: an int and a real are not compared.)
BinaryEqSame(a, b) == a.kind \in {b.kind, "unknown"} \/ b.kind = "unknown"
BinaryEq(a, b) ==
  CASE a.kind \in {"int", "real"} -> b.kind \in {"int", "real", "unknown"}
    [] a.kind \in {"string", "array"} -> b.kind \in {a.kind, "unknown"}
    [] a.kind = "unknown" -> b.kind \in {"unknown", "int", "real", "string", "array"}
    [] OTHER -> FALSE
BinaryOrdering(a, b) == BinaryEq(a, b) /\ "array" \notin {a.kind, b.kind}

\* (Mutant: two bools are not supported.)
BinaryLogicalUnknown(a, b) ==
  IF a.kind = "unknown" /\ b.kind \in {"unknown", "bool"} THEN BoolType ELSE Unsupported
BinaryLogical(a, b) ==
  IF \/ a.kind = "bool" /\ b.kind = "bool"
     \/ a.kind = "unknown" /\ b.kind \in {"unknown", "bool"}
  THEN BoolType ELSE Unsupported

\* UnaryMinus and UnaryPlus; UnaryNot.
SignType(a) == IF a.kind \in {"int", "real", "unknown"} THEN a ELSE Unsupported
NotType(a) == IF a.kind \in {"bool", "unknown"} THEN BoolType ELSE Unsupported

\* Field, by name and by index, and Subscript.
FieldType(a, name) ==
  CASE a.kind \in {"int", "real"} /\ name = "Round" -> IntegerType
    [] a.kind \in {"int", "real"} /\ name = "Frac" -> RealType
    [] a.kind \in {"string", "array"} /\ name = "Length" -> IntegerType
    [] a.kind = "string" /\ name = "Join" -> FuncType(TRUE, <<ArrayType>>, StringType)
    [] a.kind = "string" /\ name = "SplitWS" -> FuncType(TRUE, <<>>, ArrayType)
    [] a.kind = "array" /\ name = "Indices" -> ArrayType
    [] a.kind = "array" /\ name = "Del" -> FuncType(FALSE, <<IntegerType>>, NoneType)
    [] a.kind \in {"tuple", "unknown"} -> UnknownType
    [] OTHER -> Unsupported
FieldTypeAt(a, index) ==
  IF \/ a.kind = "tuple" /\ index.kind = "int"
     \/ a.kind = "unknown" /\ index.kind \in {"int", "unknown"}
  THEN UnknownType ELSE Unsupported
SubscriptType(a, index) ==
  CASE index.kind \notin {"int", "unknown"} -> Unsupported
    [] a.kind = "string" -> StringType
    [] a.kind \in {"array", "unknown"} -> UnknownType
    [] OTHER -> Unsupported

-----------------------------------------------------------------------------
(* Values.                                                                 *)

Value(kind, data, items) == [kind |-> kind, data |-> data, items |-> items]
Integer(n) == Value("int", <<n>>, <<>>)
Real(n) == Value("real", <<n>>, <<>>)
Inexact == Value("real", <<>>, <<>>)
String(chars) == Value("string", chars, <<>>)
Bool(b) == Value("bool", <<IF b THEN 1 ELSE 0>>, <<>>)
None == Value("none", <<>>, <<>>)
Array(objects, items) == Value("array", objects, items)
Tuple(items) == Value("tuple", <<>>, items)  \* the last one is named "last"

\* No value: an operator that is not supported, or a DRuntimeError.
Fails == Value("error", <<>>, <<>>)

\* Callables, whose data is an index: methods, and closures without parameters
\* that return the same value whenever they are called.
Callables == <<"Join", "SplitWS", "Del", "pure", "impure">>
Function(name, item) ==
  Value("func", <<CHOOSE i \in DOMAIN Callables : Callables[i] = name>>, <<item>>)
NameOf(f) == Callables[f.data[1]]

IsNumber(v) == v.kind \in {"int", "real"}
Number(v) == v.data[1]

TypeOfFunc(f) ==
  IF NameOf(f) \in {"pure", "impure"}
  THEN FuncType(NameOf(f) = "pure", <<>>, Type(f.items[1].kind))
  ELSE FieldType(Type(f.items[1].kind), NameOf(f))
TypeOfValue(v) == IF v.kind = "func" THEN TypeOfFunc(v) ELSE Type(v.kind)

\* BinaryPlus, BinaryMinus, BinaryMul and BinaryDiv.
FloorDiv(a, b) == IF b > 0 THEN a \div b ELSE (-a) \div (-b)
WholeNumber(op, a, b) ==
  CASE op = "plus" -> a + b [] op = "minus" -> a - b [] op = "times" -> a * b
    [] OTHER -> FloorDiv(a, b)
NumericReal(op, a, b) ==
  IF \/ Inexact \in {a, b}
     \/ op = "divide" /\ (Number(b) = 0 \/ FloorDiv(Number(a), Number(b)) * Number(b) # Number(a))
  THEN Inexact ELSE Real(WholeNumber(op, Number(a), Number(b)))
Arith(op, a, b) ==
  CASE a.kind = "int" /\ b.kind = "int" ->
         IF op = "divide" /\ Number(b) = 0 THEN Fails
         ELSE Integer(WholeNumber(op, Number(a), Number(b)))
    [] IsNumber(a) /\ IsNumber(b) -> NumericReal(op, a, b)
    [] op = "plus" /\ a.kind = b.kind /\ a.kind \in {"string", "array", "tuple"} ->
         Value(a.kind, a.data \o b.data, a.items \o b.items)
    [] OTHER -> Fails

\* BinaryComparison.
Lexicographic(s, t) ==
  LET differ == {i \in DOMAIN s \cap DOMAIN t : s[i] # t[i]}
  IN IF s = t THEN "equivalent"
     ELSE IF differ = {} THEN (IF Len(s) < Len(t) THEN "less" ELSE "greater")
     ELSE IF s[Min(differ)] < t[Min(differ)] THEN "less" ELSE "greater"
BinaryComparison(a, b) ==
  CASE {a.kind, b.kind} \subseteq {"int", "real"} \/ {a.kind, b.kind} = {"string"} ->
         Lexicographic(a.data, b.data)
    [] a.kind = "array" /\ b.kind = "array" ->
         IF a.data = b.data THEN "equivalent" ELSE "unordered"
    [] OTHER -> "incomparable"

\* What a relation makes of an ordering.
Compare(op, a, b) ==
  LET order == BinaryComparison(a, b)
  IN IF order = "incomparable" THEN Fails
     ELSE Bool(CASE op = "less" -> order = "less"
                 [] op = "lessEq" -> order \in {"less", "equivalent"}
                 [] op = "greater" -> order = "greater"
                 [] op = "greaterEq" -> order \in {"greater", "equivalent"}
                 [] op = "equal" -> order = "equivalent"
                 [] OTHER -> order # "equivalent")

\* BinaryAnd, BinaryOr and BinaryXor.
Logical(op, a, b) ==
  IF a.kind # "bool" \/ b.kind # "bool" THEN Fails
  ELSE Bool(CASE op = "and" -> Bool(TRUE) = a /\ Bool(TRUE) = b
              [] op = "or" -> Bool(TRUE) \in {a, b}
              [] OTHER -> a # b)

\* UnaryMinus and UnaryPlus; UnaryNot.
Sign(op, v) ==
  CASE ~IsNumber(v) -> Fails
    [] op = "plus" \/ v = Inexact -> v
    [] OTHER -> Value(v.kind, <<-Number(v)>>, <<>>)
Not(v) == IF v.kind = "bool" THEN Bool(v = Bool(FALSE)) ELSE Fails

\* Field, by name and by index, and Subscript.
Field(v, name) ==
  CASE IsNumber(v) /\ name = "Round" -> Value("int", IF v = Inexact THEN <<0>> ELSE v.data, <<>>)
    [] IsNumber(v) /\ name = "Frac" -> IF v = Inexact THEN v ELSE Real(0)
    [] v.kind = "string" /\ name = "Length" -> Integer(Len(v.data))
    [] v.kind = "array" /\ name = "Length" -> Integer(Len(v.items))
    [] <<v.kind, name>> \in {<<"string", "Join">>, <<"string", "SplitWS">>, <<"array", "Del">>} ->
         Function(name, v)
    [] v.kind = "array" /\ name = "Indices" ->
         Array([i \in DOMAIN v.items |-> 0], [i \in DOMAIN v.items |-> Integer(i)])
    [] v.kind = "tuple" /\ name = "last" /\ v.items # <<>> -> Last(v.items)
    [] OTHER -> Fails
ItemAt(items, index) ==
  IF index.kind = "int" /\ Number(index) \in DOMAIN items THEN items[Number(index)] ELSE Fails
FieldAt(v, index) == IF v.kind = "tuple" THEN ItemAt(v.items, index) ELSE Fails
Subscript(v, index) ==
  CASE v.kind = "array" -> ItemAt(v.items, index)
    [] v.kind = "string" -> ItemAt([i \in DOMAIN v.data |-> String(<<v.data[i]>>)], index)
    [] OTHER -> Fails

\* StringValue::Join and StringValue::SplitWS.
Join(string, strings) ==
  String(FlattenSeq([i \in DOMAIN strings |->
           IF i = 1 THEN strings[i].data ELSE string.data \o strings[i].data]))
RECURSIVE WordsOf(_, _)
WordsOf(chars, word) ==
  IF chars # <<>> /\ Head(chars) # 0 THEN WordsOf(Tail(chars), Append(word, Head(chars)))
  ELSE (IF word = <<>> THEN <<>> ELSE <<String(word)>>)
         \o (IF chars = <<>> THEN <<>> ELSE WordsOf(Tail(chars), <<>>))
SplitWS(string) ==
  LET words == WordsOf(string.data, <<>>) IN Array([i \in DOMAIN words |-> 0], words)

\* FuncValue::Call and UserCallable::UserCall.
CallMethod(name, this, args) ==
  CASE name = "SplitWS" /\ args = <<>> -> SplitWS(this)
    [] name = "Join" /\ Len(args) = 1 ->
         IF args[1].kind = "array" /\ \A i \in DOMAIN args[1].items : args[1].items[i].kind = "string"
         THEN Join(this, args[1].items) ELSE Fails
    [] name = "Del" /\ Len(args) = 1 ->
         IF ItemAt(this.items, args[1]) = Fails THEN Fails ELSE None
    [] OTHER -> Fails
Call(f, args) ==
  CASE f.kind # "func" -> Fails
    [] NameOf(f) \notin {"pure", "impure"} -> CallMethod(NameOf(f), f.items[1], args)
    [] OTHER -> IF args = <<>> THEN f.items[1] ELSE Fails
=============================================================================
