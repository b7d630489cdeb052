------------------------------- MODULE BigInt -------------------------------
(***************************************************************************)
(* The integers of the language (src/src/bigint/bigint.cpp): a sign and a  *)
(* vector of chunks of Bits bits, the lowest first; a "long" has two       *)
(* chunks.  The algorithms on chunks are operators; the state is one       *)
(* BigInt that is assigned to by +=, -=, *=, / and %, and by the ++ and -- *)
(* of "for", next to the integer it should be.                             *)
(*                                                                         *)
(* BigAdd and AddFrom add the last carry to the chunk above without        *)
(* carrying on from there.  Every operator that adds says in "exact"       *)
(* whether that chunk could take the carry.                                *)
(*                                                                         *)
(* Left out: conversions from and to floating point and to bases that are  *)
(* powers of two, and the postfix ++ and --, which the interpreter does    *)
(* not use.                                                                *)
(***************************************************************************)
EXTENDS Integers, Sequences, SequencesExt

CONSTANTS
  Bits,      \* bits of a chunk: 32 in the code
  Operands,  \* right operands of the operators, as integers
  Bound,     \* numbers beyond it that are no operands are only divided and negated
  Lossy      \* may an operation lose a carry?

ASSUME BitsAssumption == Bits \in Nat \ {0}
ASSUME OperandsAssumption == Operands \subseteq Int /\ Bound \in Nat /\ Lossy \in BOOLEAN

VARIABLES
  number,   \* a BigInt
  meaning   \* the integer it stands for

vars == <<number, meaning>>

Base == 2 ^ Bits
Chunk == 0 .. Base - 1

-----------------------------------------------------------------------------
(* Vectors of chunks.  A chunk that a vector does not have is zero.        *)

At(v, i) == IF i \in DOMAIN v THEN v[i] ELSE 0
Resize(v, n) == [i \in 1 .. n |-> At(v, i)]
Longer(a, b) == IF a > b THEN a ELSE b

\* UnsignedBigCompare: -1, 0 or 1.
UnsignedBigCompare(a, b) ==
  LET differ == {i \in 1 .. Longer(Len(a), Len(b)) : At(a, i) # At(b, i)}
      i == Max(differ)
  IN IF differ = {} THEN 0 ELSE IF At(a, i) > At(b, i) THEN 1 ELSE -1

\* The carry goes into chunk n, a new one if there is none.  (Mutant: it is
\* dropped when a new one would be needed.)
CarryIntoExisting(v, n, carry) ==
  [v |-> [i \in DOMAIN v |-> IF i = n THEN (v[i] + carry) % Base ELSE v[i]],
   exact |-> At(v, n) + carry < Base]
CarryInto(v, n, carry) ==
  LET size == IF carry = 0 THEN Len(v) ELSE Longer(n, Len(v))
  IN [v |-> [i \in 1 .. size |-> IF i = n THEN (At(v, i) + carry) % Base ELSE At(v, i)],
      exact |-> At(v, n) + carry < Base]

\* AddFrom: src shifted by start chunks is added to dest.
AddFrom(dest, start, src) ==
  LET v == Resize(dest, Longer(start + Len(src), Len(dest)))
      carry[i \in 0 .. Len(src)] ==
        IF i = 0 THEN 0 ELSE (v[start + i] + src[i] + carry[i - 1]) \div Base
      sum == [i \in DOMAIN v |->
                IF i - start \in DOMAIN src
                THEN (v[i] + src[i - start] + carry[i - start - 1]) % Base ELSE v[i]]
  IN CarryInto(sum, start + Len(src) + 1, carry[Len(src)])
BigAdd(dest, src) == AddFrom(dest, 0, src)

\* BigSub, of a vector that is not less.  (Mutant: a borrow ends with src.)
BorrowedWhileSrc(dest, src, i, borrow) ==
  IF i \in DOMAIN src /\ dest[i] - At(src, i) - borrow < 0 THEN 1 ELSE 0
Borrowed(dest, src, i, borrow) ==
  IF dest[i] - At(src, i) - borrow < 0 THEN 1 ELSE 0
BigSub(dest, src) ==
  LET borrow[i \in 0 .. Len(dest)] ==
        IF i = 0 THEN 0 ELSE Borrowed(dest, src, i, borrow[i - 1])
  IN [i \in DOMAIN dest |-> (dest[i] - At(src, i) - borrow[i - 1]) % Base]

\* OutOfPlaceMul and BigMul: by one chunk, with room for the carry.
OutOfPlaceMul(a, b) ==
  LET carry[i \in 0 .. Len(a)] == IF i = 0 THEN 0 ELSE (a[i] * b + carry[i - 1]) \div Base
  IN [i \in 1 .. Len(a) + 1 |-> (At(a, i) * b + carry[i - 1]) % Base]
BigMul(a, b) ==
  LET product == OutOfPlaceMul(a, b) IN IF Last(product) = 0 THEN Front(product) ELSE product

\* KaratsubaMul, by halves of the longer vector.
Low(v, half) == SubSeq(v, 1, half)
High(v, half) == SubSeq(v, half + 1, Len(v))

RECURSIVE KaratsubaMul(_, _)
KaratsubaMul(a, b) ==
  IF Len(a) < Len(b) THEN KaratsubaMul(b, a)
  ELSE IF Len(b) = 1 THEN [v |-> BigMul(a, b[1]), exact |-> TRUE]
  ELSE
    LET half == Len(a) \div 2
        x == Low(a, half)
        w == High(a, half)
    IN IF half >= Len(b)
       THEN LET low == KaratsubaMul(x, b)
                high == KaratsubaMul(w, b)
                sum == AddFrom(low.v, half, high.v)
            IN [v |-> sum.v, exact |-> sum.exact /\ low.exact /\ high.exact]
       ELSE LET z == Low(b, half)
                y == High(b, half)
                wy == KaratsubaMul(w, y)
                xz == KaratsubaMul(x, z)
                wplusx == BigAdd(w, x)
                yplusz == BigAdd(y, z)
                product == KaratsubaMul(wplusx.v, yplusz.v)
                mid == BigSub(BigSub(product.v, wy.v), xz.v)
                once == AddFrom(xz.v, half, mid)
                twice == AddFrom(once.v, half * 2, wy.v)
            IN [v |-> twice.v,
                exact |-> \A part \in {wy, xz, wplusx, yplusz, product, once, twice} : part.exact]

\* BigDiv leaves the remainder in a.  A digit of the quotient is found bit by
\* bit.  (Mutant: a bit that gives exactly what is left is not taken.)
TooMuchIfEqual(product, rest) == UnsignedBigCompare(product, rest) >= 0
TooMuch(product, rest) == UnsignedBigCompare(product, rest) > 0
Digit(rest, b) ==
  LET digit[k \in 0 .. Bits] ==
        IF k = 0 THEN 0
        ELSE LET d == digit[k - 1] + 2 ^ (Bits - k)
             IN IF TooMuch(OutOfPlaceMul(b, d), rest) THEN digit[k - 1] ELSE d
  IN digit[Bits]

Significant(v) == Max({0} \cup {i \in DOMAIN v : v[i] # 0})

BigDiv(a, b) ==
  LET n == IF Len(b) > Len(a) THEN 0 ELSE Len(a) - Len(b) + 1
      \* After the digits n, n - 1, ... n - k + 1.
      step[k \in 0 .. n] ==
        IF k = 0 THEN [rest |-> a, high |-> Len(a), quot |-> <<>>]
        ELSE
          LET s == step[k - 1]
              low == n - k
              view == SubSeq(s.rest, low + 1, s.high)
              digit == Digit(view, b)
              left == BigSub(view, OutOfPlaceMul(b, digit))
              rest == SubSeq(s.rest, 1, low) \o left \o SubSeq(s.rest, s.high + 1, Len(a))
          IN IF s.high - low < Len(b) THEN [rest |-> s.rest, high |-> s.high, quot |-> <<0>> \o s.quot]
             ELSE [rest |-> rest, high |-> Significant(SubSeq(rest, 1, s.high)),
                   quot |-> <<digit>> \o s.quot]
  IN step[n]

-----------------------------------------------------------------------------
(* BigInt.                                                                 *)

\* (Mutant: zero keeps its sign.)
NormalizedKeepingSign(v, sign) ==
  LET n == Significant(v)
  IN IF n = 0 THEN [v |-> <<0>>, sign |-> sign] ELSE [v |-> SubSeq(v, 1, n), sign |-> sign]
Normalize(v, sign) ==
  LET n == Significant(v)
  IN IF n = 0 THEN [v |-> <<0>>, sign |-> FALSE] ELSE [v |-> SubSeq(v, 1, n), sign |-> sign]

Zero == [v |-> <<0>>, sign |-> FALSE]
IsZero(x) == x.v = <<0>>
Exactly(x, exact) == [num |-> x, exact |-> exact]
Summed(sum, sign) == Exactly(Normalize(sum.v, sign), sum.exact)

\* BigInt(long): the smallest long has an entry of its own.
LongMax == Base ^ 2 \div 2 - 1
LongMin == -LongMax - 1
Abs(n) == IF n < 0 THEN -n ELSE n
FromLong(val) ==
  IF val = LongMin THEN [v |-> <<0, Base \div 16>>, sign |-> TRUE]
  ELSE Normalize(<<Abs(val) % Base, Abs(val) \div Base>>, val < 0)

\* operator+= and operator-=: y is added with the sign it has, or the other.
Added(x, y, sign) ==
  LET order == UnsignedBigCompare(x.v, y.v)
  IN IF x.sign = sign THEN Summed(BigAdd(x.v, y.v), x.sign)
     ELSE IF order = 0 THEN Exactly(Zero, TRUE)
     ELSE IF order = 1 THEN Exactly(Normalize(BigSub(x.v, y.v), x.sign), TRUE)
     ELSE Exactly(Normalize(BigSub(y.v, x.v), sign), TRUE)
Plus(x, y) == Added(x, y, y.sign)
Minus(x, y) == Added(x, y, ~y.sign)

\* The prefix ++ and --, which normalize only after subtracting.
OneMore(x, sign) ==
  LET sum == BigAdd(x.v, <<1>>) IN Exactly([v |-> sum.v, sign |-> sign], sum.exact)
OneLess(x) == Exactly(Normalize(BigSub(x.v, <<1>>), x.sign), TRUE)
Incremented(x) == IF x.sign THEN OneLess(x) ELSE OneMore(x, FALSE)
Decremented(x) ==
  IF x.sign THEN OneMore(x, TRUE)
  ELSE IF IsZero(x) THEN Exactly([v |-> <<1>>, sign |-> TRUE], TRUE) ELSE OneLess(x)

Times(x, y) == Summed(KaratsubaMul(x.v, y.v), x.sign # y.sign)
Negated(x) == Normalize(x.v, ~x.sign)

\* DivLeaveMod: the quotient is rounded down, the remainder has the sign of y.
DivLeaveMod(x, y) ==
  LET div == BigDiv(x.v, y.v)
      rest == Normalize(div.rest, x.sign)
      next == BigAdd(div.quot, <<1>>)
  IN IF IsZero(x) THEN [quot |-> Zero, rem |-> x, exact |-> TRUE]
     ELSE IF x.sign = y.sign
     THEN [quot |-> Normalize(div.quot, FALSE), rem |-> rest, exact |-> TRUE]
     ELSE IF IsZero(rest)
     THEN [quot |-> Normalize(div.quot, TRUE), rem |-> rest, exact |-> TRUE]
     ELSE [quot |-> Normalize(next.v, TRUE),
           rem |-> Normalize(BigSub(y.v, rest.v), y.sign), exact |-> next.exact]

\* operator<=>.  (Mutant: of two negative numbers too, the one with the larger
\* vector is the greater.)
CompareOfPositive(x, y) ==
  IF x.sign # y.sign THEN (IF x.sign THEN -1 ELSE 1) ELSE UnsignedBigCompare(x.v, y.v)
Compare(x, y) ==
  IF x.sign # y.sign THEN (IF x.sign THEN -1 ELSE 1)
  ELSE IF x.sign THEN -UnsignedBigCompare(x.v, y.v) ELSE UnsignedBigCompare(x.v, y.v)

\* The bounds first, so that what is left has two chunks at most.  (Mutant: a
\* number with more chunks is cut.)
CutToLong(x) ==
  LET n == x.v[1] + At(x.v, 2) * Base IN IF x.sign THEN -n ELSE n
ClampToLong(x) ==
  IF Compare(x, FromLong(LongMax)) >= 0 THEN LongMax
  ELSE IF Compare(x, FromLong(LongMin)) <= 0 THEN LongMin
  ELSE CutToLong(x)

\* Repr in base ten, lowest digit first, and the constructor that reads it.
Ten == FromLong(10)
RECURSIVE Repr(_)
Repr(x) ==
  IF IsZero(x) THEN <<>>
  ELSE LET div == DivLeaveMod([x EXCEPT !.sign = FALSE], Ten)
       IN <<ClampToLong(div.rem)>> \o Repr(div.quot)

FromRepr(digits, minus) ==
  LET Read(digit, n) ==
        LET product == Times(n.num, Ten)
            sum == Plus(product.num, FromLong(digit))
        IN Exactly(sum.num, n.exact /\ product.exact /\ sum.exact)
      n == FoldRight(Read, digits, Exactly(Zero, TRUE))
  IN Exactly(Normalize(n.num.v, minus), n.exact)

-----------------------------------------------------------------------------
(* A BigInt that is assigned to.                                           *)

RECURSIVE Chunks(_)
Chunks(n) == IF n < Base THEN <<n>> ELSE <<n % Base>> \o Chunks(n \div Base)
BigIntOf(n) == [v |-> Chunks(Abs(n)), sign |-> n < 0]

Becomes(result, n) ==
  /\ result.exact \/ Lossy
  /\ number' = result.num
  /\ meaning' = n

InBound == Abs(meaning) <= Bound \/ meaning \in Operands

Add == InBound /\ \E n \in Operands : Becomes(Plus(number, BigIntOf(n)), meaning + n)
Subtract == InBound /\ \E n \in Operands : Becomes(Minus(number, BigIntOf(n)), meaning - n)
Multiply == InBound /\ \E n \in Operands : Becomes(Times(number, BigIntOf(n)), meaning * n)
Increment == InBound /\ Becomes(Incremented(number), meaning + 1)
Decrement == InBound /\ Becomes(Decremented(number), meaning - 1)
Negate == Becomes(Exactly(Negated(number), TRUE), -meaning)

FloorDiv(a, b) == IF b > 0 THEN a \div b ELSE (-a) \div (-b)
Divide ==
  \E n \in Operands \ {0} :
    LET div == DivLeaveMod(number, BigIntOf(n))
    IN Becomes(Exactly(div.quot, div.exact), FloorDiv(meaning, n))
Modulo ==
  \E n \in Operands \ {0} :
    LET div == DivLeaveMod(number, BigIntOf(n))
    IN Becomes(Exactly(div.rem, div.exact), meaning - n * FloorDiv(meaning, n))

Init == number = Zero /\ meaning = 0

Next ==
  Add \/ Subtract \/ Multiply \/ Increment \/ Decrement \/ Negate \/ Divide \/ Modulo

Spec == Init /\ [][Next]_vars

-----------------------------------------------------------------------------
(* Properties.                                                             *)

\* The operators agree with the integers: the representation is the one that
\* stands for the result ("an arbitrarily-huge integer", README.md), with chunks
\* in range, no leading zeros and no negative zero, on which operator<=> and
\* operator bool rely.
MeaningIsKept == number = BigIntOf(meaning)

\* Comparison agrees with the integers.
ComparesRight ==
  \A n \in Operands :
    Compare(number, BigIntOf(n)) =
      (IF meaning < n THEN -1 ELSE IF meaning = n THEN 0 ELSE 1)

\* ClampToLong is the number or the nearest long, but for those numbers above the
\* smallest long that are not above what BigInt(long) makes of it (-2^60): all of
\* them are taken for the smallest long, which Slice does not expect (module
\* Strings).
FarBelow == LongMin .. -(Base * (Base \div 16))
ClampsRight ==
  LET nearest == IF meaning > LongMax THEN LongMax ELSE IF meaning < LongMin THEN LongMin ELSE meaning
  IN ClampToLong(number) = IF meaning \in FarBelow THEN LongMin ELSE nearest

\* What is printed can be read back, unless reading it loses a carry.
ReadsBackWhatIsPrinted ==
  \A digits \in {Repr(number)} :
    LET read == FromRepr(digits, number.sign) IN read.exact => read.num = number
=============================================================================
