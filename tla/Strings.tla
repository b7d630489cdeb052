------------------------------ MODULE Strings -------------------------------
(***************************************************************************)
(* The methods of strings (src/src/runtime/values.cpp, called through      *)
(* stringFunctions.cpp): Split with its Z-function, SplitWS, Join and      *)
(* Slice, next to what they promise.  A string is a sequence of            *)
(* characters; positions are counted from 0, as the code does, and only At *)
(* and Substr count from 1.                                                *)
(*                                                                         *)
(* Some calls do not do what they promise; Oddities names them.  The       *)
(* properties about results are stated for calls with no oddity outside of *)
(* Constructs, the others for all calls.                                   *)
(*                                                                         *)
(* Left out: bytes outside of ASCII (isspace of a negative char), Lower    *)
(* and Upper, which map each character, and the comparison of strings,     *)
(* which is that of the C++ library.                                       *)
(***************************************************************************)
EXTENDS Integers, Sequences, SequencesExt

CONSTANTS
  Characters,  \* what strings are made of
  Texts,       \* strings that are split
  Separators,  \* separators they are split by
  White,       \* characters that are white space
  Rows,        \* strings that are sliced
  Bounds,      \* start and stop of slices
  Steps,       \* steps of slices
  LongMax,     \* the largest "long"; the smallest is - LongMax - 1
  Constructs   \* oddities that the promises are to cover

ASSUME StringsAssumption ==
  /\ Texts \cup Separators \cup Rows \subseteq Seq(Characters)
  /\ LongMax \in Nat /\ LongMax >= 7 /\ Bounds \subseteq Int /\ Steps \subseteq Int
  /\ \A row \in Rows : Len(row) <= LongMax

VARIABLES
  value,  \* the string whose method is called
  array,  \* the strings of the array that Split or SplitWS has made
  call    \* the last call: its method, arguments and result

vars == <<value, array, call>>

At(s, i) == s[i + 1]
Substr(s, from, to) == SubSeq(s, from + 1, to)
Largest(a, b) == IF a > b THEN a ELSE b
Least(S) == CHOOSE x \in S : \A y \in S : x <= y

-----------------------------------------------------------------------------
(* Split: the Z-function of the separator, then that of the text against   *)
(* the separator, by the same loop: z[i] is how much of sep begins at i.   *)

\* How far sep agrees with s from i on, if the first "known" characters do.
Extend(s, i, sep, known) ==
  Least({k \in known .. Largest(known, Len(sep)) :
           \/ i + k >= Len(s) \/ k >= Len(sep)
           \/ At(s, i + k) # At(sep, k)})

\* The box from l to r is known to agree with the beginning of sep.  (The
\* algorithm takes the smaller of the two.)
TakenOver(rest, inner) == Largest(rest, inner)
Known(acc, zsep, i) ==
  IF i < acc.r THEN TakenOver(acc.r - i, At(zsep, i - acc.l)) ELSE 0

ZStep(s, sep, acc, zsep, i) ==
  LET res == Extend(s, i, sep, Known(acc, zsep, i))
  IN [z |-> Append(acc.z, res),
      l |-> IF i + res > acc.r THEN i ELSE acc.l,
      r |-> Largest(acc.r, i + res)]

ZOfSeparator(sep) ==
  LET boxes[i \in 0 .. Len(sep) - 1] ==
        IF i = 0 THEN [z |-> <<0>>, l |-> 0, r |-> 0]
        ELSE LET acc == boxes[i - 1] IN ZStep(sep, sep, acc, acc.z, i)
  IN boxes[Len(sep) - 1].z

ZOfText(s, sep) ==
  LET zsep == ZOfSeparator(sep)
      boxes[i \in 0 .. Len(s)] ==
        IF i = 0 THEN [z |-> <<>>, l |-> 0, r |-> 0]
        ELSE LET acc == boxes[i - 1] IN ZStep(s, sep, acc, zsep, i - 1)
  IN boxes[Len(s)].z

\* The last loop: where a separator is found, the piece before it is cut off,
\* and the search goes on behind it.  (Mutants: it goes on inside of it; an empty
\* piece at the end is left out.)
ResumeInside(i, sep) == i + 1
Resume(i, sep) == i + Len(sep)
LastPieceIfAny(s, pos) == IF pos = Len(s) THEN <<>> ELSE <<Substr(s, pos, Len(s))>>
LastPiece(s, pos) == <<Substr(s, pos, Len(s))>>
Split(s, sep) ==
  IF sep = <<>> THEN [i \in DOMAIN s |-> <<s[i]>>]
  ELSE LET z == ZOfText(s, sep)
           pieces[pos \in 0 .. Len(s)] ==
             LET found == {i \in pos .. Len(s) - 1 : At(z, i) = Len(sep)}
                 i == Least(found)
             IN IF found = {} THEN LastPiece(s, pos)
                ELSE <<Substr(s, pos, i)>> \o pieces[Resume(i, sep)]
       IN pieces[0]

\* SplitWS: from the beginning of each word to its end.
NextThat(s, i, white) ==
  Least({k \in i .. Len(s) : k = Len(s) \/ (At(s, k) \in White) = white})
\* (Mutant: one character is skipped.)
SkipOne(s, i) == IF i = Len(s) THEN i ELSE i + 1
SkipWhite(s, i) == NextThat(s, i, FALSE)
SplitWS(s) ==
  LET words[pos \in 0 .. Len(s)] ==
        IF pos = Len(s) THEN <<>>
        ELSE LET i == NextThat(s, pos + 1, TRUE)
             IN <<Substr(s, pos, i)>> \o words[SkipWhite(s, i)]
  IN words[NextThat(s, 0, FALSE)]

\* (Mutant: the strings come in the opposite order.)
JoinTwoReversed(sep, s, t) == t \o sep \o s
JoinTwo(sep, s, t) == s \o sep \o t
Join(sep, strings) ==
  LET joined[k \in 0 .. Len(strings)] ==
        IF k = 0 THEN <<>>
        ELSE IF k = 1 THEN strings[1] ELSE JoinTwo(sep, joined[k - 1], strings[k])
  IN joined[Len(strings)]

-----------------------------------------------------------------------------
(* Slice.  start, stop and step are BigInts, which ClampToLong makes longs *)
(* before the loop; arithmetic on longs wraps around.  What is returned is *)
(* the sequence of positions whose characters are read.                    *)

LongMin == - LongMax - 1

\* What BigInt(long) makes of the smallest long: -2^60 instead of -2^63.
\* ClampToLong compares with it, and takes all below for the smallest long.
BigIntOfLongMin == - ((LongMax + 1) \div 8)
ClampToLong(x) ==
  IF x >= LongMax THEN LongMax ELSE IF x <= BigIntOfLongMin THEN LongMin ELSE x
Long(x) == ((x - LongMin) % (2 * LongMax + 2)) + LongMin

\* The values of the loop "for (i = from; i < to; i += step)".
Count(from, to, step) ==
  [k \in 1 .. (IF from < to THEN (to - from + step - 1) \div step ELSE 0) |-> from + (k - 1) * step]

\* A start above the length is moved down, but "n - start - 1" takes start as a
\* bool: it is n - 2 for every start but 0.
SliceDown(n, start, stop, step) ==
  IF start <= 0 \/ stop >= start THEN <<>>
  ELSE LET lstop == Largest(0, ClampToLong(stop)) - 1
           down == Count(0, n - 2 - lstop, ClampToLong(- step))
       IN [k \in DOMAIN down |-> n - 2 - down[k]]

\* (Mutants: a start below 1 is moved up to 1; a start behind the end is let
\* through; stop belongs to the slice.)
FirstFromOne(start, step) == IF start < 1 THEN 0 ELSE start - 1
FirstFrom(start, step) == IF start < 1 THEN (start - 1) % step ELSE start - 1
EndAfter(n, stop) == IF stop > n THEN n ELSE ClampToLong(stop)
EndAt(n, stop) == IF stop > n THEN n ELSE Long(ClampToLong(stop) - 1)
OnlyStartBehindEnd(n, start, first) == start > n
BehindEnd(n, start, first) == start > n \/ (start < 1 /\ first >= n)

SliceUp(n, start, stop, step) ==
  LET first == FirstFrom(start, step)
  IN IF stop <= start \/ BehindEnd(n, start, first) THEN <<>>
     ELSE IF step > n THEN <<ClampToLong(first)>>
     ELSE Count(ClampToLong(first), EndAt(n, stop), ClampToLong(step))

Slice(n, start, stop, step) ==
  IF step < 0 THEN SliceDown(n, start, stop, step) ELSE SliceUp(n, start, stop, step)

-----------------------------------------------------------------------------
(* The program: one call, or Split and then Join with the separator.       *)

NoCall == [method |-> "none"]

Init ==
  /\ value \in Texts \cup Rows
  /\ array = <<>>
  /\ call = NoCall

CallSplit(sep) ==
  /\ array' = Split(value, sep)
  /\ call' = [method |-> "Split", this |-> value, sep |-> sep]
  /\ UNCHANGED value

CallSplitWS ==
  /\ array' = SplitWS(value)
  /\ call' = [method |-> "SplitWS", this |-> value]
  /\ UNCHANGED value

CallJoin ==
  /\ call.method = "Split"
  /\ value' = Join(call.sep, array)
  /\ call' = [call EXCEPT !.method = "Join"]
  /\ UNCHANGED array

\* StringSliceFunction::Call stops with an error where step is 0.
CallSlice(start, stop, step) ==
  /\ call' = IF step = 0 THEN [method |-> "error"]
             ELSE [method |-> "Slice", this |-> value,
                   start |-> start, stop |-> stop, step |-> step,
                   read |-> Slice(Len(value), start, stop, step)]
  /\ UNCHANGED <<value, array>>

Next ==
  \/ /\ call = NoCall /\ value \in Texts
     /\ CallSplitWS \/ \E sep \in Separators : CallSplit(sep)
  \/ CallJoin
  \/ /\ call = NoCall /\ value \in Rows
     /\ \E start, stop \in Bounds, step \in Steps : CallSlice(start, stop, step)

Spec == Init /\ [][Next]_vars

-----------------------------------------------------------------------------
(* Calls whose result is not the one promised:                             *)
(*  - the maximum in TakenOver is a minimum in the algorithm, so that      *)
(*    places are taken for a separator that are not;                       *)
(*  - a slice downwards begins at the last character but one;              *)
(*  - a step beyond the length reads one character without asking stop;    *)
(*  - a stop that ClampToLong takes for the smallest long, less one, is    *)
(*    the largest long.                                                    *)
OddConstructs == {"long_separator", "step_down", "step_over_the_end", "stop_far_below"}

Oddities ==
  CASE call.method \in {"Split", "Join"} ->
         IF Len(call.sep) > 1 THEN {"long_separator"} ELSE {}
    [] call.method = "Slice" ->
         (IF call.step < 0 THEN {"step_down"} ELSE {})
         \cup (IF call.step > Len(call.this) /\ call.read # <<>>
                  /\ At(call.read, 0) >= EndAt(Len(call.this), call.stop)
               THEN {"step_over_the_end"} ELSE {})
         \cup (IF call.step > 0 /\ call.start < call.stop /\ call.stop <= BigIntOfLongMin
               THEN {"stop_far_below"} ELSE {})
    [] OTHER -> {}

Promised == Oddities \subseteq Constructs

\* Is sep at position i of s?
IsAt(s, sep, i) == i + Len(sep) <= Len(s) /\ Substr(s, i, i + Len(sep)) = sep

-----------------------------------------------------------------------------
(* Properties.                                                             *)

\* Split cuts at the separators from left to right, and Join puts the pieces
\* together again (StringValue::Split and Join; an empty separator is not
\* put between the characters it was found between).
SplitIsRight ==
  call.method = "Split" /\ Promised =>
    IF call.sep = <<>> THEN array = [i \in DOMAIN value |-> <<value[i]>>]
    ELSE /\ Join(call.sep, array) = value
         /\ \A k \in DOMAIN array :
              LET rest == Join(call.sep, SubSeq(array, k, Len(array)))
                  found == {i \in 0 .. Len(rest) : IsAt(rest, call.sep, i)}
              IN Len(array[k]) = IF found = {} THEN Len(rest) ELSE Least(found)

\* Join of what Split has made is the string that was split.
JoinUndoesSplit == call.method = "Join" /\ Promised => value = call.this

\* SplitWS gives the longest runs of characters that are not white, in order.
WordsAreRight ==
  call.method = "SplitWS" =>
    LET Dark(i) == i \in 0 .. Len(value) - 1 /\ At(value, i) \notin White
        begins == {i \in 0 .. Len(value) : Dark(i) /\ ~ Dark(i - 1)}
        End(b) == Least({i \in b .. Len(value) : ~ Dark(i)})
    IN /\ Len(array) = Cardinality(begins)
       /\ \A b \in begins :
            array[Cardinality({i \in begins : i <= b})] = Substr(value, b, End(b))

PiecesAreRight == SplitIsRight /\ JoinUndoesSplit /\ WordsAreRight

\* Slice takes the characters at start, start + step, ... before stop, as far
\* as there are any (the comment at values.h:123).
SliceIsRight ==
  call.method = "Slice" /\ Promised =>
    LET taken == {i \in 0 .. Len(value) - 1 :
                    /\ (i + 1 - call.start) % (IF call.step < 0 THEN - call.step ELSE call.step) = 0
                    /\ IF call.step > 0 THEN call.start <= i + 1 /\ i + 1 < call.stop
                       ELSE call.start >= i + 1 /\ i + 1 > call.stop}
    IN /\ ToSet(call.read) = taken
       /\ \A k \in 2 .. Len(call.read) :
            IF call.step > 0 THEN call.read[k - 1] < call.read[k]
            ELSE call.read[k - 1] > call.read[k]

\* Whatever the arguments, nothing outside of the string is read: Split leaves
\* no separator in a piece, and pieces and separators are together as long as
\* the string, so that substr is never asked for what lies behind the end
\* (std::out_of_range); Slice takes characters of the string, unless stop is so
\* far below that ClampToLong takes it for the smallest long.
StaysInside ==
  /\ call.method = "Split" /\ call.sep # <<>> =>
       /\ \A k \in DOMAIN array : \A i \in 0 .. Len(array[k]) : ~ IsAt(array[k], call.sep, i)
       /\ Len(Join(call.sep, array)) = Len(value)
  /\ call.method = "Slice" /\ "stop_far_below" \notin Oddities =>
       \A k \in DOMAIN call.read : call.read[k] \in 0 .. Len(value) - 1
=============================================================================
