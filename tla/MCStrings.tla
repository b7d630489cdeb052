----------------------------- MODULE MCStrings ------------------------------
(* Strings of two letters and a blank, and rows of different characters,   *)
(* with a "long" of -64 .. 63, for TLC.                                    *)
EXTENDS Strings

Letters == {"a", "b", " ", "1", "2", "3", "4"}
ShortTexts == BoundedSeq({"a", "b", " "}, 6)
ShortSeparators == BoundedSeq({"a", "b"}, 4)
Blank == {" "}
ShortRows == {SubSeq(<<"1", "2", "3", "4">>, 1, n) : n \in 0 .. 4}

\* Around the ends of the strings and of the longs, and around the bound that
\* ClampToLong compares with (-8).
NearBounds == (-11 .. 6) \cup {-66, -65, -64, -63, 62, 63, 64, 65}
NearSteps == (-6 .. 6) \cup {-65, -64, -9, 9, 63, 64}
=============================================================================
