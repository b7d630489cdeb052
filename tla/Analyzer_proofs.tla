--------------------------- MODULE Analyzer_proofs ---------------------------
(***************************************************************************)
(* For all values of the constants, whatever the program: the timelines of *)
(* the analyzer stay what they have to be, above all that the timelines of *)
(* the branches of an `if` can be merged and that what a body has done to  *)
(* the stack of scopes is undone with it, and a function captures all the  *)
(* names it uses from outside.                                             *)
(*                                                                         *)
(* Every checker has kept the timeline around its body, and the timeline   *)
(* inside differs from it by the scopes the body has started: the          *)
(* invariant says so of each checker and the timeline inside its body,     *)
(* which is the one the next checker has kept or, for the last, "values".  *)
(***************************************************************************)
EXTENDS Analyzer, Timeline_proofs

-----------------------------------------------------------------------------
(* The invariant.                                                          *)

Terms == {"end", "exited", "returned"}
Timelines == [stack : Seq(Scope), blind : Seq(Nat)]
Pairs == Stores \X Stores
CondSet ==
  [kind : {"is", "unknown", "comparison", "call", "true call", "false call",
           "always", "true", "false"},
   name : Names \cup {None}, type : Types]
BranchSet ==
  [term : Terms, pure : BOOLEAN, returned : ReturnTypes, uses : SUBSET Names,
   exits : SUBSET Pairs]
CheckerSet ==
  [what : {"program", "then", "else", "cycle", "function"},
   inFunction : BOOLEAN, inCycle : BOOLEAN, cond : CondSet,
   saved : Timelines, reach : SUBSET Pairs, branch : BranchSet,
   exits : SUBSET Pairs, term : Terms, pure : BOOLEAN, returned : ReturnTypes,
   odd : BOOLEAN, uses : SUBSET Names, does : SUBSET (Names \cup {Output}),
   gives : SUBSET Types]

\* The timeline inside body j; body 0 is around the program.
TimelineAt(cs, v, j) == IF j = Len(cs) THEN v ELSE cs[j + 1].saved

\* What a body does to the timeline it began with: its own scope, for a cycle
\* or function in a blind one; the branches of an `if` differ in the uses.
Blinding(c) == c.what \in {"cycle", "function"}
Inside(c, T) ==
  LET n == Height(c.saved)
  IN /\ Height(T) = n + (IF Blinding(c) THEN 2 ELSE 1)
     /\ T.blind = IF Blinding(c) THEN Append(c.saved.blind, n) ELSE c.saved.blind
     /\ \A i \in 1 .. n : DOMAIN VarsAt(T, i) = DOMAIN VarsAt(c.saved, i)
     /\ \A i \in 1 .. n : ExtAt(T, i) = ExtAt(c.saved, i) \/ (i = n /\ c.what = "else")

\* What a condition checked on a dropped copy of the timeline mentions is used
\* and not referred to.
NothingForgotten == "call in a false while" \notin Constructs

\* The names xs, used in scope n or inside, are referred to from there.
Referred(xs, T, n) ==
  NothingForgotten => \A x \in xs : (\E i \in 1 .. n - 1 : x \in DOMAIN VarsAt(T, i)) => x \in DOMAIN ExtAt(T, n)

\* The condition of a cycle is checked inside its blind scope.
ReferredOrIn(xs, T, n) ==
  NothingForgotten => \A x \in xs : (\E i \in 1 .. n - 1 : x \in DOMAIN VarsAt(T, i)) =>
    x \in DOMAIN ExtAt(T, n) \cup DOMAIN ExtAt(T, n + 1)
\* So are the names used by the checker around c and, for an `else`, those
\* used by the other branch.
ReferredAround(xs, c, T) ==
  LET n == Height(c.saved)
  IN IF c.what = "cycle" THEN ReferredOrIn(xs, T, n)
     ELSE Referred(xs, T, n) /\ Referred(xs, c.saved, n)
ReferredBefore(c) == c.what = "else" => Referred(c.branch.uses, c.saved, Height(c.saved))

UsesUnder(cs, i) == IF i = 1 THEN {} ELSE cs[i - 1].uses
FrameOk(xs, c, T) ==
  Sane(c.saved) /\ Inside(c, T) /\ ReferredAround(xs, c, T) /\ ReferredBefore(c)

Framed(cs, v) ==
  /\ cs \in Seq(CheckerSet)
  /\ Sane(v)
  /\ \A i \in 1 .. Len(cs) :
       /\ FrameOk(UsesUnder(cs, i), cs[i], TimelineAt(cs, v, i))
       /\ cs[i].what = "program" <=> i = 1
       /\ i = 1 => cs[i].saved = Outermost

ShapeInv == Framed(checkers, values) /\ (checkers # <<>> => Referred(Top.uses, values, Height(values)))
DataInv ==
  /\ reach \in SUBSET Pairs
  /\ effects \in [BOOLEAN -> SUBSET (Names \cup {Output})]
  /\ size \in 0 .. MaxSize

AInv == ShapeInv /\ DataInv

-----------------------------------------------------------------------------
(* Steps of the timeline: with a scope of its own, a body changes only what *)
(* is known of the variables below.                                        *)

SameBelow(a, b) ==
  /\ Height(b) = Height(a) /\ b.blind = a.blind
  /\ \A i \in 1 .. Height(a) - 1 :
       DOMAIN VarsAt(b, i) = DOMAIN VarsAt(a, i) /\ ExtAt(b, i) = ExtAt(a, i)
Grows(a, b) ==
  SameBelow(a, b) /\ DOMAIN ExtAt(a, Height(a)) \subseteq DOMAIN ExtAt(b, Height(a))

LEMMA GrowsIsPreorder ==
  /\ \A a : Grows(a, a)
  /\ \A a, b, c : Grows(a, b) /\ Grows(b, c) => Grows(a, c)
BY DEF Grows, SameBelow

LEMMA ReferGrows ==
  ASSUME NEW tl, Sane(tl), NEW x \in Names, NEW b \in BOOLEAN
  PROVE  LET T == Refer(tl, x, b)
         IN Sane(T) /\ Grows(tl, T) /\ Referred({x}, T, Height(T))
<1> DEFINE T == Refer(tl, x, b)
           n == Height(tl)
<1>1. /\ Sane(T) /\ Height(T) = n /\ T.blind = tl.blind
      /\ \A i \in 1 .. n : VarsAt(T, i) = VarsAt(tl, i)
      /\ \A i \in 1 .. n : i # n => ExtAt(T, i) = ExtAt(tl, i)
      /\ ExtAt(T, n) = IF Lookup(tl, x) = n THEN ExtAt(tl, n) ELSE With(ExtAt(tl, n), x, b)
  BY ReferIs, Zenon
<1>2. n \in Nat /\ n >= 1
  BY SaneParts
<1> HIDE DEF T
<1>3. /\ DOMAIN ExtAt(tl, n) \subseteq DOMAIN ExtAt(T, n)
      /\ Lookup(tl, x) # n => x \in DOMAIN ExtAt(T, n)
  <2>1. DOMAIN With(ExtAt(tl, n), x, b) = DOMAIN ExtAt(tl, n) \cup {x}
    BY WithIs
  <2>2. QED
    BY <1>1, <2>1
<1>4. Grows(tl, T)
  <2>1. \A i \in 1 .. n - 1 : i \in 1 .. n /\ i # n
    BY <1>2
  <2>2. QED
    BY <1>1, <1>3, <2>1 DEF Grows, SameBelow
<1>5. ASSUME NEW i \in 1 .. n - 1, x \in DOMAIN VarsAt(T, i) PROVE x \in DOMAIN ExtAt(T, n)
  <2>1. i \in 1 .. n /\ i # n
    BY <1>2
  <2>2. Lookup(tl, x) = i
    BY <1>1, <1>5, <2>1, LookupIs
  <2>3. QED
    BY <1>3, <2>1, <2>2
<1>6. QED
  BY <1>1, <1>4, <1>5 DEF Referred, T

LEMMA AssignGrows ==
  ASSUME NEW tl, Sane(tl), NEW x, IsDeclared(tl, x), NEW e \in Entry
  PROVE  LET T == Assign(tl, x, e)
         IN Sane(T) /\ Grows(tl, T) /\ Referred({x}, T, Height(T))
<1> DEFINE T == Assign(tl, x, e)
           n == Height(tl)
           l == Lookup(tl, x)
<1>1. /\ Sane(T) /\ Height(T) = n /\ T.blind = tl.blind
      /\ l \in 1 .. n /\ x \in DOMAIN VarsAt(tl, l)
      /\ \A i \in 1 .. n : i # l => VarsAt(T, i) = VarsAt(tl, i)
      /\ \A i \in 1 .. n : DOMAIN VarsAt(T, i) = DOMAIN VarsAt(tl, i)
      /\ VarsAt(T, l)[x] = e
      /\ \A y \in DOMAIN VarsAt(tl, l) : y # x => VarsAt(T, l)[y] = VarsAt(tl, l)[y]
      /\ \A i \in 1 .. n : i # n => ExtAt(T, i) = ExtAt(tl, i)
      /\ ExtAt(T, n) = IF l = n THEN ExtAt(tl, n) ELSE With(ExtAt(tl, n), x, TRUE)
  BY AssignIs, Zenon
<1>2. n \in Nat /\ n >= 1
  BY SaneParts
<1> HIDE DEF T
<1>3. /\ DOMAIN ExtAt(tl, n) \subseteq DOMAIN ExtAt(T, n)
      /\ l # n => x \in DOMAIN ExtAt(T, n)
  <2>1. DOMAIN With(ExtAt(tl, n), x, TRUE) = DOMAIN ExtAt(tl, n) \cup {x}
    BY WithIs
  <2>2. QED
    BY <1>1, <2>1
<1>4. Grows(tl, T)
  <2>1. \A i \in 1 .. n - 1 : i \in 1 .. n /\ i # n
    BY <1>2
  <2>2. QED
    BY <1>1, <1>3, <2>1 DEF Grows, SameBelow
<1>5. ASSUME NEW i \in 1 .. n - 1, x \in DOMAIN VarsAt(T, i) PROVE x \in DOMAIN ExtAt(T, n)
  <2>1. i \in 1 .. n /\ i # n
    BY <1>2
  <2>2. l = i
    BY <1>1, <1>5, <2>1, LookupIs
  <2>3. QED
    BY <1>3, <2>1, <2>2
<1>6. QED
  BY <1>1, <1>4, <1>5 DEF Referred, T

LEMMA DeclareGrows ==
  ASSUME NEW tl, Sane(tl), NEW x \in Names, ~IsDeclared(tl, x), NEW o \in Nat \ {NoObject}
  PROVE  LET T == Declare(tl, x, o)
         IN Sane(T) /\ Grows(tl, T) /\ IsDeclared(T, x)
<1> DEFINE T == Declare(tl, x, o)
           n == Height(tl)
<1>1. /\ Sane(T) /\ Height(T) = n /\ T.blind = tl.blind
      /\ \A i \in 1 .. n : i # n => VarsAt(T, i) = VarsAt(tl, i)
      /\ DOMAIN VarsAt(T, n) = DOMAIN VarsAt(tl, n) \cup {x}
      /\ \A i \in 1 .. n : ExtAt(T, i) = ExtAt(tl, i)
  BY DeclareIs
<1>2. n \in Nat /\ n >= 1 /\ n \in 1 .. n
  BY SaneParts
<1> HIDE DEF T
<1>3. Grows(tl, T)
  BY <1>1, <1>2 DEF Grows, SameBelow
<1>4. IsDeclared(T, x)
  BY <1>1, <1>2, LookupIs
<1>5. QED
  BY <1>1, <1>3, <1>4 DEF T

LEMMA MakeAllUnknownGrows ==
  ASSUME NEW tl, Sane(tl)
  PROVE  Sane(MakeAllUnknown(tl)) /\ Grows(tl, MakeAllUnknown(tl))
<1> DEFINE T == MakeAllUnknown(tl)
           n == Height(tl)
<1>1. /\ Sane(T) /\ Height(T) = Height(tl) /\ T.blind = tl.blind
      /\ \A i \in 1 .. Height(tl) : /\ DOMAIN VarsAt(T, i) = DOMAIN VarsAt(tl, i)
                                    /\ \A x \in DOMAIN VarsAt(tl, i) : VarsAt(T, i)[x] = Unknown
                                    /\ ExtAt(T, i) = ExtAt(tl, i)
  BY MakeAllUnknownIs, Zenon
<1>2. n \in Nat /\ n >= 1
  BY SaneParts
<1> HIDE DEF T
<1>4. Grows(tl, T)
  BY <1>1, <1>2 DEF Grows, SameBelow
<1>5. QED
  BY <1>1, <1>4 DEF T

LEMMA AssignAllUnknownGrows ==
  ASSUME NEW tl, Sane(tl), NEW xs, xs \subseteq Names
  PROVE  LET T == AssignAllUnknown(tl, xs)
         IN Sane(T) /\ Grows(tl, T) /\ Referred(xs, T, Height(T))
<1> DEFINE T == AssignAllUnknown(tl, xs)
           n == Height(tl)
           outer == {x \in xs : Lookup(tl, x) # n}
<1>1. /\ Sane(T) /\ Height(T) = n /\ T.blind = tl.blind
      /\ \A i \in 1 .. n : DOMAIN VarsAt(T, i) = DOMAIN VarsAt(tl, i)
      /\ \A i \in 1 .. n : i # n => ExtAt(T, i) = ExtAt(tl, i)
      /\ DOMAIN ExtAt(T, n) = DOMAIN ExtAt(tl, n) \cup outer
  BY AssignAllUnknownIs
<1>2. n \in Nat /\ n >= 1
  BY SaneParts
<1> HIDE DEF T
<1>3. Grows(tl, T)
  BY <1>1, <1>2 DEF Grows, SameBelow
<1>4. ASSUME NEW x \in xs, NEW i \in 1 .. n - 1, x \in DOMAIN VarsAt(T, i) PROVE x \in DOMAIN ExtAt(T, n)
  <2>1. i \in 1 .. n /\ i # n
    BY <1>2
  <2>2. Lookup(tl, x) = i
    BY <1>1, <1>4, <2>1, LookupIs
  <2>3. QED
    BY <1>1, <2>1, <2>2
<1>5. QED
  BY <1>1, <1>3, <1>4 DEF Referred, T

LEMMA ReferredGrows ==
  ASSUME NEW a, Sane(a), NEW b, Grows(a, b), NEW xs, Referred(xs, a, Height(a))
  PROVE  Referred(xs, b, Height(b))
BY SaneParts DEF Referred, Grows, SameBelow

-----------------------------------------------------------------------------
(* The end of a body.                                                      *)

EndOf(c, T) == IF Blinding(c) THEN EndScope(EndScope(T)) ELSE EndScope(T)

LEMMA BlindParts ==
  ASSUME NEW tl, Sane(tl), NEW n \in Nat, n >= Height(tl)
  PROVE  /\ BlindLeft(tl.blind, n) = tl.blind
         /\ BlindLeft(Append(tl.blind, n), n) = tl.blind
         /\ BlindLeft(Append(tl.blind, Height(tl)), Height(tl) + 1) = Append(tl.blind, Height(tl))
<1>1. tl.blind \in Seq(Nat) /\ Height(tl) \in Nat /\ Height(tl) >= 1
  BY SaneParts
<1>2. ASSUME tl.blind # <<>> PROVE Last(tl.blind) # n
  <2>1. Len(tl.blind) \in 1 .. Len(tl.blind)
    BY <1>1, <1>2
  <2>2. tl.blind[Len(tl.blind)] \in 1 .. Height(tl) - 1
    BY <2>1 DEF Sane
  <2>3. QED
    BY <1>1, <2>2 DEF Last
<1>3. ASSUME NEW k \in Nat
      PROVE  /\ Append(tl.blind, k) # <<>> /\ Last(Append(tl.blind, k)) = k
             /\ Front(Append(tl.blind, k)) = tl.blind
  <2> DEFINE s == Append(tl.blind, k)
  <2>1. s \in Seq(Nat) /\ Len(s) = Len(tl.blind) + 1 /\ s[Len(tl.blind) + 1] = k
        /\ \A i \in 1 .. Len(tl.blind) : s[i] = tl.blind[i]
    BY <1>1
  <2>2. Len(tl.blind) \in Nat /\ Len(s) - 1 = Len(tl.blind)
    BY <1>1, <2>1
  <2> HIDE DEF s
  <2>3. SubSeq(s, 1, Len(tl.blind)) \in Seq(Nat) /\ Len(SubSeq(s, 1, Len(tl.blind))) = Len(tl.blind)
        /\ \A i \in 1 .. Len(tl.blind) : SubSeq(s, 1, Len(tl.blind))[i] = s[i]
    <3>1. Len(tl.blind) <= Len(s)
      BY <2>1, <2>2
    <3>2. QED
      BY <2>1, <2>2, <3>1, FirstsOf
  <2>4. SubSeq(s, 1, Len(tl.blind)) = tl.blind
    BY <1>1, <2>1, <2>3
  <2>5. s # <<>> /\ Last(s) = k /\ Front(s) = tl.blind
    BY <2>1, <2>2, <2>4 DEF Last, Front
  <2>6. QED
    BY <2>5 DEF s
<1>4. BlindLeft(tl.blind, n) = tl.blind
  BY <1>2 DEF BlindLeft
<1>5. BlindLeft(Append(tl.blind, n), n) = tl.blind
  BY <1>3 DEF BlindLeft
<1>6. BlindLeft(Append(tl.blind, Height(tl)), Height(tl) + 1) = Append(tl.blind, Height(tl))
  <2>1. Last(Append(tl.blind, Height(tl))) = Height(tl) /\ Height(tl) # Height(tl) + 1
    BY <1>1, <1>3
  <2>2. QED
    BY <2>1 DEF BlindLeft
<1>7. QED
  BY <1>4, <1>5, <1>6

\* The uses handed on from a body to the scope n around it.
Uses1(T, n) == DOMAIN ExtAt(T, n) \cup (DOMAIN ExtAt(T, n + 1) \ DOMAIN VarsAt(T, n))
Assigned1(T, n, x) ==
  \/ x \in DOMAIN ExtAt(T, n) /\ ExtAt(T, n)[x]
  \/ x \in DOMAIN ExtAt(T, n + 1) \ DOMAIN VarsAt(T, n) /\ ExtAt(T, n + 1)[x]
Assigned2(T, n, x) ==
  \/ Assigned1(T, n, x)
  \/ /\ x \in DOMAIN ExtAt(T, n + 2) \ (DOMAIN VarsAt(T, n + 1) \cup DOMAIN VarsAt(T, n))
     /\ ExtAt(T, n + 2)[x]

\* An `if` leaves the scopes it has found.
LEMMA EndOfBranch ==
  ASSUME NEW c, Sane(c.saved), NEW T, Sane(T), Inside(c, T), ~Blinding(c)
  PROVE  LET A == EndScope(T)
             n == Height(c.saved)
         IN /\ Sane(A) /\ Height(A) = n /\ A.blind = c.saved.blind
            /\ \A i \in 1 .. n : VarsAt(A, i) = VarsAt(T, i)
            /\ \A i \in 1 .. n : DOMAIN VarsAt(A, i) = DOMAIN VarsAt(c.saved, i)
            /\ \A i \in 1 .. n : i # n => ExtAt(A, i) = ExtAt(T, i)
            /\ DOMAIN ExtAt(A, n) = Uses1(T, n)
            /\ \A x \in DOMAIN ExtAt(A, n) : ExtAt(A, n)[x] <=> Assigned1(T, n, x)
<1> DEFINE A == EndScope(T)
           n == Height(c.saved)
<1>1. n \in Nat /\ n >= 1
  BY SaneParts
<1>2. /\ Height(T) = n + 1 /\ T.blind = c.saved.blind
      /\ \A i \in 1 .. n : DOMAIN VarsAt(T, i) = DOMAIN VarsAt(c.saved, i)
  BY DEF Inside
<1>3. Height(T) > 1 /\ Height(T) - 1 = n
  BY <1>1, <1>2
<1>4. /\ Sane(A) /\ Height(A) = n /\ A.blind = BlindLeft(T.blind, n)
      /\ \A i \in 1 .. n : VarsAt(A, i) = VarsAt(T, i)
      /\ \A i \in 1 .. n : i # n => ExtAt(A, i) = ExtAt(T, i)
      /\ DOMAIN ExtAt(A, n) = DOMAIN ExtAt(T, n) \cup (DOMAIN ExtAt(T, n + 1) \ DOMAIN VarsAt(T, n))
      /\ \A x \in DOMAIN ExtAt(A, n) :
           ExtAt(A, n)[x] <=> \/ x \in DOMAIN ExtAt(T, n) /\ ExtAt(T, n)[x]
                              \/ /\ x \in DOMAIN ExtAt(T, n + 1) \ DOMAIN VarsAt(T, n)
                                 /\ ExtAt(T, n + 1)[x]
  BY <1>3, EndScopeIs
<1>5. A.blind = c.saved.blind
  BY <1>1, <1>2, <1>4, BlindParts
<1> HIDE DEF A
<1>6. \A i \in 1 .. n : DOMAIN VarsAt(A, i) = DOMAIN VarsAt(c.saved, i)
  BY <1>2, <1>4
<1>7. QED
  BY <1>4, <1>5, <1>6 DEF A, Uses1, Assigned1

\* A cycle or function leaves the scopes it has found.
EndsBlind(c, T, B, A) ==
  LET n == Height(c.saved)
  IN /\ Sane(B) /\ Height(B) = n + 1 /\ B.blind = T.blind
     /\ \A i \in 1 .. n + 1 : VarsAt(B, i) = VarsAt(T, i)
     /\ DOMAIN ExtAt(B, n + 1) = Uses1(T, n + 1)
     /\ \A x \in DOMAIN ExtAt(B, n + 1) : ExtAt(B, n + 1)[x] <=> Assigned1(T, n + 1, x)
     /\ Sane(A) /\ Height(A) = n /\ A.blind = c.saved.blind
     /\ \A i \in 1 .. n : VarsAt(A, i) = VarsAt(T, i)
     /\ \A i \in 1 .. n : DOMAIN VarsAt(A, i) = DOMAIN VarsAt(c.saved, i)
     /\ \A i \in 1 .. n : i # n => ExtAt(A, i) = ExtAt(T, i)
     /\ DOMAIN ExtAt(A, n) = DOMAIN ExtAt(T, n) \cup (Uses1(T, n + 1) \ DOMAIN VarsAt(T, n))
     /\ \A x \in DOMAIN ExtAt(A, n) : ExtAt(A, n)[x] <=> Assigned2(T, n, x)

LEMMA EndOfBlind ==
  ASSUME NEW c, Sane(c.saved), NEW T, Sane(T), Inside(c, T), Blinding(c)
  PROVE  EndsBlind(c, T, EndScope(T), EndScope(EndScope(T)))
<1> DEFINE B == EndScope(T)
           A == EndScope(B)
           n == Height(c.saved)
<1>1. n \in Nat /\ n >= 1
  BY SaneParts
<1>2. /\ Height(T) = n + 2 /\ T.blind = Append(c.saved.blind, n)
      /\ \A i \in 1 .. n : DOMAIN VarsAt(T, i) = DOMAIN VarsAt(c.saved, i)
  BY DEF Inside
<1>3. Height(T) > 1 /\ Height(T) - 1 = n + 1 /\ (n + 1) + 1 = n + 2 /\ Height(T) = (n + 1) + 1
  BY <1>1, <1>2
<1>4. /\ Sane(B) /\ Height(B) = Height(T) - 1 /\ B.blind = BlindLeft(T.blind, Height(T) - 1)
      /\ \A i \in 1 .. Height(T) - 1 : VarsAt(B, i) = VarsAt(T, i)
      /\ \A i \in 1 .. Height(T) - 1 : i # Height(T) - 1 => ExtAt(B, i) = ExtAt(T, i)
      /\ DOMAIN ExtAt(B, Height(T) - 1) = DOMAIN ExtAt(T, Height(T) - 1) \cup (DOMAIN ExtAt(T, (Height(T) - 1) + 1) \ DOMAIN VarsAt(T, Height(T) - 1))
      /\ \A x \in DOMAIN ExtAt(B, Height(T) - 1) :
           ExtAt(B, Height(T) - 1)[x] <=> \/ x \in DOMAIN ExtAt(T, Height(T) - 1) /\ ExtAt(T, Height(T) - 1)[x]
                                  \/ /\ x \in DOMAIN ExtAt(T, (Height(T) - 1) + 1) \ DOMAIN VarsAt(T, Height(T) - 1)
                                     /\ ExtAt(T, (Height(T) - 1) + 1)[x]
  BY <1>3, EndScopeIs, Zenon
<1> HIDE DEF B, n
<1>5. /\ Sane(B) /\ Height(B) = n + 1 /\ B.blind = T.blind
      /\ \A i \in 1 .. n + 1 : VarsAt(B, i) = VarsAt(T, i)
      /\ \A i \in 1 .. n + 1 : i # n + 1 => ExtAt(B, i) = ExtAt(T, i)
      /\ DOMAIN ExtAt(B, n + 1) = Uses1(T, n + 1)
      /\ \A x \in DOMAIN ExtAt(B, n + 1) : ExtAt(B, n + 1)[x] <=> Assigned1(T, n + 1, x)
  <2>1. BlindLeft(Append(c.saved.blind, n), n + 1) = Append(c.saved.blind, n)
    BY <1>1, BlindParts DEF n
  <2>2. B.blind = T.blind
    BY <1>2, <1>3, <1>4, <2>1
  <2>3. /\ Sane(B) /\ Height(B) = n + 1
        /\ \A i \in 1 .. n + 1 : VarsAt(B, i) = VarsAt(T, i)
        /\ \A i \in 1 .. n + 1 : i # n + 1 => ExtAt(B, i) = ExtAt(T, i)
    BY <1>3, <1>4
  <2>4. /\ DOMAIN ExtAt(B, n + 1) = Uses1(T, n + 1)
        /\ \A x \in DOMAIN ExtAt(B, n + 1) : ExtAt(B, n + 1)[x] <=> Assigned1(T, n + 1, x)
    BY <1>3, <1>4, Zenon DEF Uses1, Assigned1
  <2>5. QED
    BY <2>2, <2>3, <2>4
<1>6. Height(B) > 1 /\ Height(B) - 1 = n
  BY <1>1, <1>5
<1>7. /\ Sane(A) /\ Height(A) = n /\ A.blind = BlindLeft(B.blind, n)
      /\ \A i \in 1 .. n : VarsAt(A, i) = VarsAt(B, i)
      /\ \A i \in 1 .. n : i # n => ExtAt(A, i) = ExtAt(B, i)
      /\ DOMAIN ExtAt(A, n) = DOMAIN ExtAt(B, n) \cup (DOMAIN ExtAt(B, n + 1) \ DOMAIN VarsAt(B, n))
      /\ \A x \in DOMAIN ExtAt(A, n) :
           ExtAt(A, n)[x] <=> \/ x \in DOMAIN ExtAt(B, n) /\ ExtAt(B, n)[x]
                              \/ /\ x \in DOMAIN ExtAt(B, n + 1) \ DOMAIN VarsAt(B, n)
                                 /\ ExtAt(B, n + 1)[x]
  BY <1>5, <1>6, EndScopeIs
<1> HIDE DEF A
<1>8. A.blind = c.saved.blind
  <2>1. BlindLeft(Append(c.saved.blind, n), n) = c.saved.blind
    BY <1>1, BlindParts DEF n
  <2>2. QED
    BY <1>2, <1>5, <1>7, <2>1
<1>9. \A i \in 1 .. n : i \in 1 .. n + 1 /\ i # n + 1
  BY <1>1
<1>10. n \in 1 .. n
  BY <1>1
<1>11. /\ \A i \in 1 .. n : VarsAt(A, i) = VarsAt(T, i)
       /\ \A i \in 1 .. n : DOMAIN VarsAt(A, i) = DOMAIN VarsAt(c.saved, i)
       /\ \A i \in 1 .. n : i # n => ExtAt(A, i) = ExtAt(T, i)
       /\ ExtAt(B, n) = ExtAt(T, n) /\ VarsAt(B, n) = VarsAt(T, n)
  BY <1>2, <1>5, <1>7, <1>9, <1>10
<1>12. DOMAIN ExtAt(A, n) = DOMAIN ExtAt(T, n) \cup (Uses1(T, n + 1) \ DOMAIN VarsAt(T, n))
  BY <1>5, <1>7, <1>11
<1>13. ASSUME NEW x \in DOMAIN ExtAt(A, n)
       PROVE  ExtAt(A, n)[x] <=> Assigned2(T, n, x)
  <2>1. ExtAt(A, n)[x] <=> \/ x \in DOMAIN ExtAt(T, n) /\ ExtAt(T, n)[x]
                           \/ /\ x \in DOMAIN ExtAt(B, n + 1) \ DOMAIN VarsAt(T, n)
                              /\ ExtAt(B, n + 1)[x]
    BY <1>7, <1>11
  <2>2. x \in DOMAIN ExtAt(B, n + 1) => (ExtAt(B, n + 1)[x] <=>
             \/ x \in DOMAIN ExtAt(T, n + 1) /\ ExtAt(T, n + 1)[x]
             \/ x \in DOMAIN ExtAt(T, n + 2) \ DOMAIN VarsAt(T, n + 1) /\ ExtAt(T, n + 2)[x])
    BY <1>3, <1>5 DEF Assigned1
  <2>3. DOMAIN ExtAt(B, n + 1) = DOMAIN ExtAt(T, n + 1) \cup (DOMAIN ExtAt(T, n + 2) \ DOMAIN VarsAt(T, n + 1))
    BY <1>3, <1>5 DEF Uses1
  <2>4. QED
    BY <2>1, <2>2, <2>3, Zenon DEF Assigned2, Assigned1
<1>14. QED
  BY <1>5, <1>7, <1>8, <1>11, <1>12, <1>13, Zenon DEF n, A, B, EndsBlind

-----------------------------------------------------------------------------
(* Checkers that go on, are pushed and popped.                             *)

\* Of a checker's frame only these count.
Like(a, b) == a.what = b.what /\ a.saved = b.saved /\ a.branch = b.branch

LEMMA FrameGoesOn ==
  ASSUME NEW c, NEW d, Like(d, c), NEW xs,
         NEW W, Sane(W), NEW v, Sane(v), SameBelow(W, v), FrameOk(xs, c, W)
  PROVE  FrameOk(xs, d, v)
<1> DEFINE n == Height(c.saved)
<1>1. n \in Nat /\ n >= 1 /\ Sane(c.saved)
  BY SaneParts DEF FrameOk
<1>2. Height(W) = n + (IF Blinding(c) THEN 2 ELSE 1) /\ Height(v) = Height(W) /\ v.blind = W.blind
  BY DEF FrameOk, Inside, SameBelow
<1>3. \A i \in 1 .. n : i \in 1 .. Height(W) - 1
  BY <1>1, <1>2
<1>4. \A i \in 1 .. n : DOMAIN VarsAt(v, i) = DOMAIN VarsAt(W, i) /\ ExtAt(v, i) = ExtAt(W, i)
  BY <1>3 DEF SameBelow
<1>5. Inside(d, v)
  <2>1. d.what = c.what /\ d.saved = c.saved
    BY DEF Like
  <2>2. Inside(c, W)
    BY DEF FrameOk
  <2>3. QED
    BY <1>2, <1>4, <2>1, <2>2 DEF Inside, Blinding
<1>6. ReferredAround(xs, d, v)
  <2>1. \A i \in 1 .. n - 1 : i \in 1 .. n
    BY <1>1
  <2>2. n \in 1 .. n
    BY <1>1
  <2>3. CASE c.what = "cycle"
    <3>1. n + 1 \in 1 .. Height(W) - 1
      BY <1>1, <1>2, <2>3 DEF Blinding
    <3>2. ExtAt(v, n + 1) = ExtAt(W, n + 1)
      BY <3>1 DEF SameBelow
    <3>3. ReferredOrIn(xs, W, n)
      BY <2>3 DEF FrameOk, ReferredAround
    <3>4. ReferredOrIn(xs, v, n)
      BY <1>4, <2>1, <2>2, <3>2, <3>3 DEF ReferredOrIn
    <3>5. QED
      BY <2>3, <3>4 DEF ReferredAround, Like
  <2>4. CASE c.what # "cycle"
    <3>1. Referred(xs, W, n) /\ Referred(xs, c.saved, n)
      BY <2>4 DEF FrameOk, ReferredAround
    <3>2. Referred(xs, v, n)
      BY <1>4, <2>1, <2>2, <3>1 DEF Referred
    <3>3. QED
      BY <2>4, <3>1, <3>2 DEF ReferredAround, Like
  <2>5. QED
    BY <2>3, <2>4
<1>7. ReferredBefore(d)
  BY DEF FrameOk, ReferredBefore, Like
<1>8. QED
  BY <1>1, <1>5, <1>6, <1>7 DEF FrameOk, Like

\* A timeline inside a body is sane.
LEMMA SaneAt ==
  ASSUME NEW cs, NEW v, Framed(cs, v), NEW j \in 1 .. Len(cs)
  PROVE  Sane(TimelineAt(cs, v, j)) /\ FrameOk(UsesUnder(cs, j), cs[j], TimelineAt(cs, v, j))
<1>1. Len(cs) \in Nat
  BY DEF Framed
<1>2. CASE j = Len(cs)
  BY <1>2 DEF Framed, TimelineAt
<1>3. CASE j # Len(cs)
  <2>1. j + 1 \in 1 .. Len(cs)
    BY <1>1, <1>3
  <2>2. Sane(cs[j + 1].saved)
    BY <2>1 DEF Framed, FrameOk
  <2>3. QED
    BY <1>3, <2>2 DEF TimelineAt, Framed
<1>4. QED
  BY <1>2, <1>3

\* The checkers up to the k-th go on after what that one has done.
LEMMA GoOn ==
  ASSUME NEW cs, NEW v, Framed(cs, v),
         NEW ds \in Seq(CheckerSet), Len(ds) \in 1 .. Len(cs),
         \A i \in 1 .. Len(ds) : Like(ds[i], cs[i]),
         \A i \in 1 .. Len(ds) - 1 : ds[i].uses = cs[i].uses,
         NEW w, Sane(w), SameBelow(TimelineAt(cs, v, Len(ds)), w)
  PROVE  Framed(ds, w)
<1> DEFINE k == Len(ds)
<1>1. k \in Nat /\ k >= 1 /\ k <= Len(cs) /\ Len(cs) \in Nat
  BY DEF Framed
<1> HIDE DEF k
<1>2. ASSUME NEW i \in 1 .. k
      PROVE  /\ FrameOk(UsesUnder(ds, i), ds[i], TimelineAt(ds, w, i))
             /\ ds[i].what = "program" <=> i = 1
             /\ i = 1 => ds[i].saved = Outermost
  <2>1. i \in 1 .. Len(cs) /\ Like(ds[i], cs[i])
    BY <1>1 DEF k
  <2>2. UsesUnder(ds, i) = UsesUnder(cs, i)
    <3>1. CASE i = 1
      BY <3>1 DEF UsesUnder
    <3>2. CASE i # 1
      <4>1. i - 1 \in 1 .. Len(ds) - 1
        BY <1>1, <3>2 DEF k
      <4>2. QED
        BY <3>2, <4>1 DEF UsesUnder
    <3>3. QED
      BY <3>1, <3>2
  <2>3. FrameOk(UsesUnder(cs, i), cs[i], TimelineAt(cs, v, i)) /\ Sane(TimelineAt(cs, v, i))
    BY <2>1, SaneAt
  <2>4. FrameOk(UsesUnder(ds, i), ds[i], TimelineAt(ds, w, i))
    <3>1. CASE i = k
      <4>1. TimelineAt(ds, w, i) = w
        BY <3>1 DEF TimelineAt, k
      <4>2. SameBelow(TimelineAt(cs, v, i), w)
        BY <3>1 DEF k
      <4>3. QED
        BY <2>1, <2>2, <2>3, <4>1, <4>2, FrameGoesOn
    <3>2. CASE i # k
      <4>1. i + 1 \in 1 .. k /\ i # Len(cs)
        BY <1>1, <3>2
      <4>2. ds[i + 1].saved = cs[i + 1].saved
        BY <4>1 DEF k, Like
      <4>3. TimelineAt(ds, w, i) = TimelineAt(cs, v, i)
        BY <3>2, <4>1, <4>2 DEF k, TimelineAt
      <4>4. SameBelow(TimelineAt(cs, v, i), TimelineAt(cs, v, i))
        BY DEF SameBelow
      <4>5. QED
        BY <2>1, <2>2, <2>3, <4>3, <4>4, FrameGoesOn
    <3>3. QED
      BY <3>1, <3>2
  <2>5. /\ cs[i].what = "program" <=> i = 1
        /\ i = 1 => cs[i].saved = Outermost
    BY <2>1 DEF Framed
  <2>6. QED
    BY <2>1, <2>4, <2>5 DEF Like
<1>3. QED
  BY <1>2 DEF Framed, k

\* A body is begun.
LEMMA Pushed ==
  ASSUME NEW cs, cs # <<>>, NEW d \in CheckerSet, Framed(cs, d.saved), d.what # "program",
         NEW w, Sane(w), FrameOk(Last(cs).uses, d, w)
  PROVE  Framed(Append(cs, d), w)
<1> DEFINE ds == Append(cs, d)
           k == Len(cs)
<1>1. cs \in Seq(CheckerSet) /\ k \in Nat /\ k >= 1 /\ Last(cs) = cs[k]
  BY DEF Framed, Last
<1>2. ds \in Seq(CheckerSet) /\ Len(ds) = k + 1 /\ ds[k + 1] = d
      /\ \A i \in 1 .. k : ds[i] = cs[i]
  BY <1>1
<1> HIDE DEF ds
<1>3. ASSUME NEW i \in 1 .. k + 1
      PROVE  /\ FrameOk(UsesUnder(ds, i), ds[i], TimelineAt(ds, w, i))
             /\ ds[i].what = "program" <=> i = 1
             /\ i = 1 => ds[i].saved = Outermost
  <2>1. CASE i = k + 1
    <3>1. UsesUnder(ds, i) = Last(cs).uses
      BY <1>1, <1>2, <2>1 DEF UsesUnder
    <3>2. TimelineAt(ds, w, i) = w
      BY <1>2, <2>1 DEF TimelineAt
    <3>3. QED
      BY <1>1, <1>2, <2>1, <3>1, <3>2
  <2>2. CASE i # k + 1
    <3>1. i \in 1 .. k
      BY <1>1, <2>2
    <3>2. ds[i] = cs[i]
      BY <1>2, <3>1
    <3>3. UsesUnder(ds, i) = UsesUnder(cs, i)
      <4>1. i # 1 => i - 1 \in 1 .. k
        BY <1>1, <3>1
      <4>2. QED
        BY <1>2, <4>1 DEF UsesUnder
    <3>4. TimelineAt(ds, w, i) = TimelineAt(cs, d.saved, i)
      <4>1. CASE i = k
        BY <1>1, <1>2, <4>1 DEF TimelineAt
      <4>2. CASE i # k
        <5>1. i + 1 \in 1 .. k
          BY <1>1, <3>1, <4>2
        <5>2. QED
          BY <1>1, <1>2, <2>2, <4>2, <5>1 DEF TimelineAt
      <4>3. QED
        BY <4>1, <4>2
    <3>5. /\ FrameOk(UsesUnder(cs, i), cs[i], TimelineAt(cs, d.saved, i))
          /\ cs[i].what = "program" <=> i = 1
          /\ i = 1 => cs[i].saved = Outermost
      BY <3>1 DEF Framed
    <3>6. QED
      BY <3>2, <3>3, <3>4, <3>5
  <2>3. QED
    BY <2>1, <2>2
<1>4. QED
  BY <1>2, <1>3 DEF Framed, ds

-----------------------------------------------------------------------------
(* Records of the checkers.                                                *)

LEMMA CheckerParts ==
  ASSUME NEW c \in CheckerSet
  PROVE  /\ c.what \in {"program", "then", "else", "cycle", "function"}
         /\ c.inFunction \in BOOLEAN /\ c.inCycle \in BOOLEAN /\ c.cond \in CondSet
         /\ c.saved \in Timelines /\ c.reach \in SUBSET Pairs /\ c.branch \in BranchSet
         /\ c.exits \in SUBSET Pairs /\ c.term \in Terms /\ c.pure \in BOOLEAN
         /\ c.returned \in ReturnTypes /\ c.odd \in BOOLEAN /\ c.uses \in SUBSET Names
         /\ c.does \in SUBSET (Names \cup {Output}) /\ c.gives \in SUBSET Types
BY DEF CheckerSet

LEMMA TypesOf ==
  /\ \A x \in Values : TypeOf(x) \in Types
  /\ Types \subseteq ReturnTypes /\ UnknownType \in ReturnTypes /\ NoType \in ReturnTypes
  /\ \A a \in ReturnTypes, b \in ReturnTypes : AddReturnType(a, b) \in ReturnTypes
  /\ NoBranch \in BranchSet
BY DEF TypeOf, Types, ReturnTypes, AddReturnType, Generalize, NoType, UnknownType,
       NoBranch, BranchSet, Terms

LEMMA CheckerIs ==
  ASSUME NEW what \in {"program", "then", "else", "cycle", "function"},
         NEW inFunction \in BOOLEAN, NEW inCycle \in BOOLEAN, NEW cond \in CondSet,
         NEW saved \in Timelines, NEW R \in SUBSET Pairs, NEW branch \in BranchSet
  PROVE  LET c == Checker(what, inFunction, inCycle, cond, saved, R, branch)
         IN /\ c \in CheckerSet /\ c.what = what /\ c.saved = saved /\ c.branch = branch
            /\ c.uses = {}
<1>1. NoType \in ReturnTypes
  BY TypesOf
<1>2. QED
  BY <1>1 DEF Checker, CheckerSet, Terms

LEMMA CheckedIs ==
  ASSUME NEW c \in CheckerSet, NEW pure \in BOOLEAN, NEW xs \in SUBSET Names,
         NEW does \in SUBSET (Names \cup {Output})
  PROVE  LET d == Checked(c, pure, xs, does)
         IN /\ d \in CheckerSet /\ Like(d, c)
            /\ d.uses \subseteq c.uses \cup xs
            /\ d.returned = c.returned /\ d.gives = c.gives
BY DEF Checked, CheckerSet, Like

\* What `return` does to the checker.
LEMMA ReturnedIs ==
  ASSUME NEW c \in CheckerSet, NEW returned \in ReturnTypes, NEW gives \in SUBSET Types
  PROVE  LET d == [c EXCEPT !.term = "returned", !.returned = returned, !.gives = gives]
         IN d \in CheckerSet /\ Like(d, c) /\ d.uses = c.uses
BY DEF CheckerSet, Like, Terms

-----------------------------------------------------------------------------
(* The stack of checkers.                                                  *)

LEMMA FrontIs ==
  ASSUME NEW S, NEW s \in Seq(S), s # <<>>
  PROVE  /\ Front(s) \in Seq(S) /\ Len(Front(s)) = Len(s) - 1
         /\ \A i \in 1 .. Len(s) - 1 : Front(s)[i] = s[i]
<1>1. Len(s) \in Nat /\ Len(s) >= 1
  OBVIOUS
<1>2. Len(s) - 1 \in Nat /\ Len(s) - 1 <= Len(s)
  BY <1>1
<1>3. \A i \in 1 .. Len(s) - 1 : s[i] \in S
  BY <1>1
<1>4. SubSeq(s, 1, Len(s) - 1) = [i \in 1 .. Len(s) - 1 |-> s[i]]
  BY <1>1, <1>2
<1> DEFINE k == Len(s) - 1
           f == [i \in 1 .. k |-> s[i]]
<1>5. Front(s) = f
  BY <1>4 DEF Front
<1> HIDE DEF k
<1>6. k \in Nat /\ \A i \in 1 .. k : s[i] \in S
  BY <1>2, <1>3 DEF k
<1>7. f \in Seq(S) /\ Len(f) = k
  BY <1>6
<1>8. \A i \in 1 .. k : f[i] = s[i]
  OBVIOUS
<1> HIDE DEF f
<1>9. QED
  BY <1>5, <1>7, <1>8 DEF k

\* The checker on top goes on with its body.
LEMMA TopGoesOn ==
  ASSUME NEW cs, NEW v, Framed(cs, v), cs # <<>>,
         NEW c \in CheckerSet, Like(c, Last(cs)),
         NEW w, Sane(w), SameBelow(v, w)
  PROVE  LET ds == [cs EXCEPT ![Len(cs)] = c]
         IN Framed(ds, w) /\ ds # <<>> /\ Last(ds) = c
<1> DEFINE ds == [cs EXCEPT ![Len(cs)] = c]
           m == Len(cs)
<1>1. cs \in Seq(CheckerSet) /\ m \in Nat /\ m >= 1 /\ Last(cs) = cs[m] /\ m \in 1 .. m
  BY DEF Framed, Last
<1>2. ds \in Seq(CheckerSet) /\ Len(ds) = m /\ ds[m] = c /\ \A i \in 1 .. m : i # m => ds[i] = cs[i]
  BY <1>1
<1> HIDE DEF ds
<1>3. \A i \in 1 .. Len(ds) : Like(ds[i], cs[i])
  <2>1. \A a : Like(a, a)
    BY DEF Like
  <2>2. Like(ds[m], cs[m])
    BY <1>1, <1>2
  <2>3. QED
    BY <1>2, <2>1, <2>2
<1>4. \A i \in 1 .. Len(ds) - 1 : ds[i].uses = cs[i].uses
  <2>1. \A i \in 1 .. m - 1 : i \in 1 .. m /\ i # m
    BY <1>1
  <2>2. QED
    BY <1>2, <2>1
<1>5. SameBelow(TimelineAt(cs, v, Len(ds)), w)
  BY <1>2 DEF TimelineAt
<1>6. Framed(ds, w)
  BY <1>1, <1>2, <1>3, <1>4, <1>5, GoOn
<1>7. ds # <<>> /\ Last(ds) = c
  BY <1>1, <1>2 DEF Last
<1>8. QED
  BY <1>6, <1>7 DEF ds

\* A body is begun from the timeline its checker keeps.
LEMMA Begun ==
  ASSUME NEW cs, NEW v, Framed(cs, v), cs # <<>>,
         NEW c \in CheckerSet, Like(c, Last(cs)),
         NEW d \in CheckerSet, d.what # "program", SameBelow(v, d.saved), Sane(d.saved),
         NEW w, Sane(w), FrameOk(c.uses, d, w)
  PROVE  LET ds == Append([cs EXCEPT ![Len(cs)] = c], d)
         IN Framed(ds, w) /\ ds # <<>> /\ Last(ds) = d
<1> DEFINE bs == [cs EXCEPT ![Len(cs)] = c]
<1>1. Framed(bs, d.saved) /\ bs # <<>> /\ Last(bs) = c
  BY TopGoesOn
<1> HIDE DEF bs
<1>2. Framed(Append(bs, d), w)
  BY <1>1, Pushed
<1>3. bs \in Seq(CheckerSet)
  BY <1>1 DEF Framed
<1>4. Append(bs, d) # <<>> /\ Last(Append(bs, d)) = d
  BY <1>3 DEF Last
<1>5. QED
  BY <1>2, <1>4 DEF bs

\* A body is over, and the checker around it goes on.
LEMMA Popped ==
  ASSUME NEW cs, NEW v, Framed(cs, v), cs # <<>>, Last(cs).what # "program"
  PROVE  LET m == Len(cs)
             rest == Front(Front(cs))
         IN /\ m - 1 \in 1 .. m /\ cs[m - 1] \in CheckerSet
            /\ UsesUnder(cs, m) = cs[m - 1].uses
            /\ \A c \in CheckerSet : \A w :
                 Like(c, cs[m - 1]) /\ Sane(w) /\ SameBelow(Last(cs).saved, w) =>
                   /\ Framed(Append(rest, c), w) /\ Append(rest, c) # <<>>
                   /\ Last(Append(rest, c)) = c
<1> DEFINE m == Len(cs)
           rest == Front(Front(cs))
<1>1. cs \in Seq(CheckerSet) /\ m \in Nat /\ m >= 1 /\ Last(cs) = cs[m] /\ m \in 1 .. m
  BY DEF Framed, Last
<1>2. m # 1
  BY <1>1 DEF Framed
<1> HIDE DEF m
<1>3. m - 1 \in 1 .. m /\ cs[m - 1] \in CheckerSet
  <2>1. m - 1 \in 1 .. m
    BY <1>1, <1>2
  <2>2. QED
    BY <1>1, <2>1 DEF m
<1>4. UsesUnder(cs, m) = cs[m - 1].uses
  BY <1>2 DEF UsesUnder
<1>5. rest \in Seq(CheckerSet) /\ Len(rest) = m - 2 /\ \A i \in 1 .. m - 2 : rest[i] = cs[i]
  <2>1. Front(cs) \in Seq(CheckerSet) /\ Len(Front(cs)) = m - 1
        /\ \A i \in 1 .. m - 1 : Front(cs)[i] = cs[i]
    BY <1>1, FrontIs DEF m
  <2>2. m - 1 \in Nat /\ m - 1 >= 1 /\ (m - 1) - 1 = m - 2 /\ m - 2 <= m - 1 /\ m - 2 \in Nat
    BY <1>1, <1>2
  <2>3. Front(cs) # <<>>
    BY <2>1, <2>2
  <2>4. /\ rest \in Seq(CheckerSet) /\ Len(rest) = (m - 1) - 1
        /\ \A i \in 1 .. (m - 1) - 1 : rest[i] = Front(cs)[i]
    BY <2>1, <2>3, FrontIs
  <2>5. \A i \in 1 .. m - 2 : i \in 1 .. m - 1
    BY <2>2
  <2>6. QED
    BY <2>1, <2>2, <2>4, <2>5
<1> HIDE DEF rest
<1>6. ASSUME NEW c \in CheckerSet, NEW w, Like(c, cs[m - 1]), Sane(w), SameBelow(Last(cs).saved, w)
      PROVE  /\ Framed(Append(rest, c), w) /\ Append(rest, c) # <<>>
             /\ Last(Append(rest, c)) = c
  <2> DEFINE ds == Append(rest, c)
  <2>1. ds \in Seq(CheckerSet) /\ Len(ds) = m - 1 /\ ds[m - 1] = c /\ \A i \in 1 .. m - 2 : ds[i] = cs[i]
    <3>1. ds \in Seq(CheckerSet) /\ Len(ds) = Len(rest) + 1 /\ ds[Len(rest) + 1] = c
          /\ \A i \in 1 .. Len(rest) : ds[i] = rest[i]
      BY <1>5
    <3>2. m - 2 + 1 = m - 1
      BY <1>1
    <3>3. QED
      BY <1>5, <3>1, <3>2
  <2> HIDE DEF ds
  <2>2. \A i \in 1 .. Len(ds) : Like(ds[i], cs[i])
    <3>1. \A a : Like(a, a)
      BY DEF Like
    <3>2. \A i \in 1 .. m - 1 : i # m - 1 => i \in 1 .. m - 2
      BY <1>1
    <3>3. QED
      BY <1>6, <2>1, <3>1, <3>2
  <2>3. \A i \in 1 .. Len(ds) - 1 : ds[i].uses = cs[i].uses
    <3>1. (m - 1) - 1 = m - 2
      BY <1>1
    <3>2. QED
      BY <2>1, <3>1
  <2>4. TimelineAt(cs, v, Len(ds)) = Last(cs).saved
    <3>1. m - 1 # m /\ (m - 1) + 1 = m
      BY <1>1
    <3>2. QED
      BY <1>1, <2>1, <3>1 DEF TimelineAt, m
  <2>5. Len(ds) \in 1 .. Len(cs)
    BY <1>3, <2>1 DEF m
  <2>6. Framed(ds, w)
    BY <1>6, <2>1, <2>2, <2>3, <2>4, <2>5, GoOn
  <2>7. ds # <<>> /\ Last(ds) = c
    BY <1>3, <2>1 DEF Last
  <2>8. QED
    BY <2>6, <2>7 DEF ds
<1>7. QED
  BY <1>3, <1>4, <1>6 DEF rest, m

-----------------------------------------------------------------------------
(* Fresh objects, and sets of pairs.                                       *)

LEMMA FreshIs ==
  ASSUME Framed(checkers, values)
  PROVE  Fresh \in Nat \ {NoObject} /\ Fresh \notin Objects
<1> DEFINE n == Cardinality(Objects)
           S == (1 .. n + 1) \ Objects
           g == [i \in DOMAIN checkers |-> ObjectsOf(checkers[i].saved)]
<1>1. checkers \in Seq(CheckerSet) /\ Len(checkers) \in Nat /\ DOMAIN checkers = 1 .. Len(checkers)
  BY DEF Framed
<1>2. IsFiniteSet(ObjectsOf(values))
  BY FinitelyMany DEF Framed, ObjectsOf
<1>3. \A i \in DOMAIN checkers : IsFiniteSet(ObjectsOf(checkers[i].saved))
  BY <1>1, FinitelyMany DEF Framed, FrameOk, ObjectsOf
<1>4. IsFiniteSet({g[i] : i \in DOMAIN checkers})
  <2>1. IsFiniteSet(1 .. Len(checkers))
    BY <1>1, FS_Interval
  <2>2. IsFiniteSet(DOMAIN checkers)
    BY <1>1, <2>1
  <2> HIDE DEF g
  <2>3. QED
    BY <2>2, ImageIsFinite
<1>5. {g[i] : i \in DOMAIN checkers} = {ObjectsOf(checkers[i].saved) : i \in DOMAIN checkers}
  OBVIOUS
<1>6. \A T \in {g[i] : i \in DOMAIN checkers} : IsFiniteSet(T)
  BY <1>3
<1>7. IsFiniteSet(Objects)
  BY <1>2, <1>4, <1>5, <1>6, FS_UNION, FS_Union DEF Objects
<1>8. n \in Nat
  BY <1>7, FS_CardinalityType
<1> HIDE DEF n
<1>9. S # {}
  <2>1. SUFFICES ASSUME 1 .. n + 1 \subseteq Objects PROVE FALSE
    OBVIOUS
  <2>2. Cardinality(1 .. n + 1) <= Cardinality(Objects)
    BY <1>7, <2>1, FS_Subset
  <2>3. Cardinality(1 .. n + 1) = n + 1
    BY <1>8, FS_Interval
  <2>4. QED
    BY <1>8, <2>2, <2>3 DEF n
<1>10. S \in SUBSET Nat /\ NoObject \notin S
  BY <1>8 DEF NoObject
<1>11. Min(S) \in S
  BY <1>9, <1>10, LeastIs
<1>12. QED
  BY <1>10, <1>11 DEF Fresh, n

LEMMA StoresFinite == IsFiniteSet(Stores)
<1> DEFINE P == SUBSET (Names \X Values)
           f == [s \in Stores |-> {<<x, s[x]>> : x \in Names}]
<1>1. IsFiniteSet(Names) /\ IsFiniteSet(Values)
  BY TimelineAssumption, FS_Union, FS_Singleton DEF Values
<1>2. IsFiniteSet(P)
  BY <1>1, FS_Product, FS_SUBSET
<1>3. f \in [Stores -> P]
  BY DEF Stores
<1>4. ASSUME NEW s \in Stores, NEW t \in Stores, f[s] = f[t] PROVE s = t
  <2>1. ASSUME NEW x \in Names PROVE s[x] = t[x]
    <3>1. <<x, s[x]>> \in f[s]
      OBVIOUS
    <3>2. <<x, s[x]>> \in f[t]
      BY <1>4, <3>1
    <3>3. QED
      BY <3>2
  <2>2. QED
    BY <2>1 DEF Stores
<1>5. f \in Injection(Stores, P)
  <2> HIDE DEF f
  <2>1. QED
    BY <1>3, <1>4 DEF Injection, IsInjective
<1>6. QED
  BY <1>2, <1>5, FS_Injection

OneTurn(B, body) == B \cup UNION {{<<p[1], q[2]>> : q \in {r \in body : r[1] = p[2]}} : p \in B}
IsTurns(t, n, entry, body) ==
  t = [i \in 0 .. n |-> IF i = 0 THEN entry ELSE OneTurn(t[i - 1], body)]

LEMMA TurnsExist ==
  ASSUME NEW entry, NEW body, NEW n \in Nat
  PROVE  \E t : IsTurns(t, n, entry, body)
<1> DEFINE D == {k \in Nat : ~ \E t : IsTurns(t, k, entry, body)}
<1> SUFFICES ASSUME D # {} PROVE FALSE
  OBVIOUS
<1> DEFINE R == {p \in Nat \X Nat : p[1] < p[2]}
<1>1. PICK k \in D : \A y \in D : ~(<<y, k>> \in R)
  <2>1. IsWellFoundedOn(R, Nat)
    BY NatLessThanWellFounded DEF OpToRel
  <2>2. QED
    BY <2>1, WFMin
<1>2. k # 0
  <2> DEFINE t == [i \in 0 .. 0 |-> entry]
  <2>1. t = [i \in 0 .. 0 |-> IF i = 0 THEN entry ELSE OneTurn(t[i - 1], body)]
    OBVIOUS
  <2>2. IsTurns(t, 0, entry, body)
    BY <2>1 DEF IsTurns
  <2>3. QED
    BY <2>2
<1>3. k \in Nat /\ k - 1 \in Nat /\ k - 1 < k
  BY <1>2
<1>4. PICK t : IsTurns(t, k - 1, entry, body)
  BY <1>1, <1>3
<1> DEFINE u == [i \in 0 .. k |-> IF i = k THEN OneTurn(t[k - 1], body) ELSE t[i]]
<1>5. ASSUME NEW i \in 0 .. k PROVE u[i] = IF i = 0 THEN entry ELSE OneTurn(u[i - 1], body)
  <2>1. CASE i = k
    <3>1. k - 1 \in 0 .. k /\ k - 1 # k
      BY <1>3
    <3>2. u[k - 1] = t[k - 1] /\ u[k] = OneTurn(t[k - 1], body)
      BY <3>1, <1>3
    <3>3. QED
      BY <1>2, <2>1, <3>2
  <2>2. CASE i # k
    <3>1. i \in 0 .. k - 1 /\ u[i] = t[i]
      BY <1>3, <2>2
    <3>2. i # 0 => i - 1 \in 0 .. k /\ i - 1 # k
      BY <1>3, <3>1
    <3>3. i # 0 => u[i - 1] = t[i - 1]
      BY <3>2
    <3>4. t[i] = IF i = 0 THEN entry ELSE OneTurn(t[i - 1], body)
      BY <1>4, <3>1 DEF IsTurns
    <3>5. QED
      BY <3>1, <3>3, <3>4
  <2>3. QED
    BY <2>1, <2>2
<1>6. IsTurns(u, k, entry, body)
  <2>1. u = [i \in 0 .. k |-> u[i]]
    OBVIOUS
  <2> HIDE DEF u
  <2>2. u = [i \in 0 .. k |-> IF i = 0 THEN entry ELSE OneTurn(u[i - 1], body)]
    BY <1>5, <2>1
  <2>3. QED
    BY <2>2 DEF IsTurns
<1>7. QED
  BY <1>1, <1>6

\* A set that has the entry and is closed under turns has all of Repeated.
LEMMA RepeatedIn ==
  ASSUME NEW entry, NEW body, NEW S, entry \subseteq S,
         \A p \in S, q \in body : q[1] = p[2] => <<p[1], q[2]>> \in S
  PROVE  Repeated(entry, body) \subseteq S
<1> DEFINE n == Cardinality(Stores)
           t == CHOOSE t : IsTurns(t, n, entry, body)
<1>1. Repeated(entry, body) = t[n]
  BY Zenon DEF Repeated, OneTurn, IsTurns
<1>2. n \in Nat
  BY StoresFinite, FS_CardinalityType
<1>3. IsTurns(t, n, entry, body)
  BY <1>2, TurnsExist
<1> HIDE DEF t, n
<1> DEFINE D == {k \in 0 .. n : ~(t[k] \subseteq S)}
<1>4. D = {}
  <2> SUFFICES ASSUME D # {} PROVE FALSE
    OBVIOUS
  <2> DEFINE R == {p \in Nat \X Nat : p[1] < p[2]}
  <2>1. PICK k \in D : \A y \in D : ~(<<y, k>> \in R)
    <3>1. IsWellFoundedOn(R, Nat)
      BY NatLessThanWellFounded DEF OpToRel
    <3>2. D \subseteq Nat
      BY <1>2
    <3>3. QED
      BY <3>1, <3>2, WFMin
  <2>2. k \in Nat /\ k \in 0 .. n
    BY <1>2
  <2>3. CASE k = 0
    BY <1>3, <2>2, <2>3 DEF IsTurns
  <2>4. CASE k # 0
    <3>1. k - 1 \in 0 .. n /\ k - 1 \in Nat /\ k - 1 < k
      BY <1>2, <2>2, <2>4
    <3>2. t[k - 1] \subseteq S
      BY <2>1, <2>2, <3>1
    <3>3. t[k] = OneTurn(t[k - 1], body)
      BY <1>3, <2>2, <2>4 DEF IsTurns
    <3> DEFINE B == t[k - 1]
    <3> HIDE DEF B
    <3>4. OneTurn(B, body) \subseteq S
      BY <3>2 DEF OneTurn, B
    <3>5. QED
      BY <3>3, <3>4 DEF B
  <2>5. QED
    BY <2>3, <2>4
<1>5. QED
  BY <1>1, <1>2, <1>4

LEMMA PairIs ==
  /\ \A p \in Pairs : p[1] \in Stores /\ p[2] \in Stores
  /\ \A s, t \in Stores : <<s, t>> \in Pairs
  /\ \A s \in Stores, x \in Names : s[x] \in Values
BY DEF Pairs, Stores

LEMMA SetToIn ==
  ASSUME NEW R \in SUBSET Pairs, NEW x \in Names, NEW vs, vs \subseteq Values
  PROVE  SetTo(R, x, vs) \in SUBSET Pairs
<1>1. ASSUME NEW p \in R, NEW v \in vs PROVE <<p[1], [p[2] EXCEPT ![x] = v]>> \in Pairs
  <2>1. p[1] \in Stores /\ [p[2] EXCEPT ![x] = v] \in Stores
    BY DEF Pairs, Stores
  <2>2. QED
    BY <2>1, PairIs
<1>2. QED
  BY <1>1 DEF SetTo

LEMMA CopiedIn ==
  ASSUME NEW R \in SUBSET Pairs, NEW x \in Names, NEW y \in Names
  PROVE  Copied(R, x, y) \in SUBSET Pairs
<1>1. ASSUME NEW p \in R PROVE <<p[1], [p[2] EXCEPT ![x] = p[2][y]]>> \in Pairs
  <2>1. p[1] \in Stores /\ [p[2] EXCEPT ![x] = p[2][y]] \in Stores
    BY DEF Pairs, Stores
  <2>2. QED
    BY <2>1, PairIs
<1>2. QED
  BY <1>1 DEF Copied

LEMMA VisibleOnlyIn ==
  ASSUME NEW R \in SUBSET Pairs, NEW xs
  PROVE  VisibleOnly(R, xs) \in SUBSET Pairs
<1>1. ASSUME NEW p \in R PROVE <<p[1], Visible(p[2], xs)>> \in Pairs
  <2>1. p[1] \in Stores /\ Visible(p[2], xs) \in Stores
    BY DEF Pairs, Stores, Visible, Values
  <2>2. QED
    BY <2>1, PairIs
<1>2. QED
  BY <1>1 DEF VisibleOnly

LEMMA CalledIn ==
  ASSUME NEW R \in SUBSET Pairs, NEW does
  PROVE  Called(R, does) \in SUBSET Pairs
<1> DEFINE xs == does \cap Names
           after(p, w) == [x \in Names |-> IF x \in xs THEN w[x] ELSE p[2][x]]
<1>1. ASSUME NEW p \in R, NEW w \in [xs -> Values] PROVE <<p[1], after(p, w)>> \in Pairs
  <2>1. p[1] \in Stores /\ p[2] \in Stores
    BY PairIs
  <2>2. \A x \in Names : (IF x \in xs THEN w[x] ELSE p[2][x]) \in Values
    BY <2>1, PairIs
  <2>3. after(p, w) \in Stores
    BY <2>2 DEF Stores
  <2>4. QED
    BY <2>1, <2>3, PairIs
<1>2. QED
  BY <1>1 DEF Called

LEMMA IdentityIn ==
  ASSUME NEW visible
  PROVE  Identity(AnyStore(visible)) \in SUBSET Pairs
BY PairIs DEF Identity, AnyStore

LEMMA RepeatedPairs ==
  ASSUME NEW R \in SUBSET Pairs, NEW body \in SUBSET Pairs
  PROVE  Repeated(R, body) \in SUBSET Pairs
<1>1. \A p \in Pairs, q \in body : q[1] = p[2] => <<p[1], q[2]>> \in Pairs
  BY PairIs
<1>2. QED
  BY <1>1, RepeatedIn

LEMMA ThenIn ==
  ASSUME NEW R \in SUBSET Pairs, NEW S \in SUBSET Pairs
  PROVE  Then(R, S) \in SUBSET Pairs
<1>1. \A p \in R, q \in S : <<p[1], q[2]>> \in Pairs
  BY PairIs
<1>2. QED
  BY <1>1 DEF Then

LEMMA ConditionParts ==
  /\ \A c \in CondSet : \A R : Pass(R, c) \subseteq R /\ Fail(R, c) \subseteq R
  /\ \A c \in CondSet, R \in SUBSET Pairs : Evaluated(R, c) \in SUBSET Pairs
  /\ \A k \in {"unknown", "comparison", "always", "true", "false"} :
       Other(k) \in CondSet /\ Other(k).kind = k /\ Other(k).name = None
  /\ Always \in CondSet
  /\ \A tl, c : Outcome(tl, c) \in {"true", "false", "unknown"}
<1>1. \A c \in CondSet : \A R : Pass(R, c) \subseteq R /\ Fail(R, c) \subseteq R
  BY DEF Pass, Fail
<1>2. \A c \in CondSet, R \in SUBSET Pairs : Evaluated(R, c) \in SUBSET Pairs
  BY CalledIn DEF Evaluated
<1>3. \A k \in {"unknown", "comparison", "always", "true", "false"} :
        Other(k) \in CondSet /\ Other(k).kind = k /\ Other(k).name = None
  BY DEF Other, CondSet, None, Types
<1>4. \A tl, c : Outcome(tl, c) \in {"true", "false", "unknown"}
  BY DEF Outcome
<1>5. QED
  BY <1>1, <1>2, <1>3, <1>4 DEF Always

LEMMA ConditionIs ==
  ASSUME NEW c \in Conditions
  PROVE  /\ c \in CondSet
         /\ c.kind \in {"is", "unknown", "comparison", "call", "true call", "false call"}
         /\ c.kind = "is" => c.name \in DeclaredNames(values)
         /\ c.kind # "is" /\ ~Calls(c) => c.name = None
         /\ c.name \in DeclaredNames(values) \cup {None} /\ c.name \in Names \cup {None}
<1>1. \A x \in DeclaredNames(values) : x \in Names
  BY DEF DeclaredNames
<1>2. CASE c \in Tests
  <2>1. PICK x \in DeclaredNames(values), t \in Types : c = Test(x, t)
    BY <1>2, SMT DEF Tests
  <2>2. Test(x, t) \in CondSet /\ Test(x, t).kind = "is" /\ Test(x, t).name = x
    BY <1>1 DEF Test, CondSet
  <2>3. QED
    BY <1>1, <2>1, <2>2
<1>3. CASE c \in CallTests
  <2>1. PICK k \in CallKinds, x \in DeclaredNames(values) \cup {None} : c = Call(k, x)
    BY <1>3, SMT DEF CallTests
  <2>2. /\ Call(k, x) \in CondSet /\ Call(k, x).kind = k /\ Call(k, x).name = x
        /\ k \in {"call", "true call", "false call"}
    BY <1>1 DEF Call, CondSet, CallKinds, None, Types
  <2>3. Calls(c) /\ c.kind # "is"
    BY <2>1, <2>2 DEF Calls, CallKinds
  <2>4. QED
    BY <1>1, <2>1, <2>2, <2>3
<1>4. CASE c \in {Other("unknown"), Other("comparison")}
  BY <1>4, ConditionParts
<1>5. c \in Tests \/ c \in CallTests \/ c \in {Other("unknown"), Other("comparison")}
  BY Zenon DEF Conditions
<1>6. QED
  BY <1>2, <1>3, <1>4, <1>5

-----------------------------------------------------------------------------
(* Statements without a body.                                              *)

LEMMA SameNames ==
  ASSUME NEW a, Sane(a), NEW b, Sane(b), Height(b) = Height(a),
         \A i \in 1 .. Height(a) : DOMAIN VarsAt(b, i) = DOMAIN VarsAt(a, i)
  PROVE  /\ \A x : IsDeclared(b, x) <=> IsDeclared(a, x)
         /\ \A x : IsDeclared(a, x) => Lookup(b, x) = Lookup(a, x)
         /\ DeclaredNames(b) = DeclaredNames(a)
<1>1. ASSUME NEW x, IsDeclared(a, x) PROVE IsDeclared(b, x) /\ Lookup(b, x) = Lookup(a, x)
  BY <1>1, DeclaredSomewhere, LookupIs
<1>2. ASSUME NEW x, IsDeclared(b, x) PROVE IsDeclared(a, x)
  BY <1>2, DeclaredSomewhere, LookupIs
<1>3. QED
  BY <1>1, <1>2 DEF DeclaredNames

LEMMA DeclaredIs ==
  ASSUME NEW tl, Sane(tl)
  PROVE  \A x : IsDeclared(tl, x) <=> x \in DeclaredNames(tl)
BY DeclaredSomewhere, LookupIs DEF DeclaredNames

LEMMA KnownIs ==
  ASSUME NEW tl, Sane(tl), NEW x, IsDeclared(tl, x)
  PROVE  Known(tl, x) \in Entry
<1>1. Lookup(tl, x) \in 1 .. Height(tl) /\ x \in DOMAIN VarsAt(tl, Lookup(tl, x))
  BY DeclaredSomewhere
<1>2. VarsAt(tl, Lookup(tl, x)) \in [DOMAIN VarsAt(tl, Lookup(tl, x)) -> Entry]
  BY <1>1, SaneParts, MapParts
<1>3. tl.stack[Lookup(tl, x)].vars[x] \in Entry
  BY <1>1, <1>2 DEF VarsAt
<1>4. Unknown \in Entry
  BY DEF Entry, Unknown
<1>5. QED
  BY <1>3, <1>4 DEF Known

LEMMA LookupVariableIs ==
  ASSUME NEW tl, Sane(tl), NEW x \in Names
  PROVE  LET T == LookupVariable(tl, x)
         IN /\ Sane(T) /\ Grows(tl, T) /\ Referred({x}, T, Height(T))
            /\ DeclaredNames(T) = DeclaredNames(tl)
<1> DEFINE T == Refer(tl, x, FALSE)
<1>1. Sane(T) /\ Grows(tl, T) /\ Referred({x}, T, Height(T))
  BY ReferGrows
<1>2. Height(T) = Height(tl) /\ \A i \in 1 .. Height(tl) : VarsAt(T, i) = VarsAt(tl, i)
  BY ReferIs
<1> HIDE DEF T
<1>3. DeclaredNames(T) = DeclaredNames(tl)
  BY <1>1, <1>2, SameNames
<1>4. QED
  BY <1>1, <1>3 DEF T, LookupVariable

LEMMA ReferredSets ==
  ASSUME NEW T, NEW n, NEW xs, NEW ys, Referred(xs, T, n)
  PROVE  /\ ys \subseteq xs => Referred(ys, T, n)
         /\ Referred(ys, T, n) => Referred(xs \cup ys, T, n)
BY DEF Referred

LEMMA NothingReferred == \A T, n : Referred({}, T, n)
BY DEF Referred

LEMMA SourceIs ==
  ASSUME Framed(checkers, values), NEW src \in Sources
  PROVE  /\ src.known \in Entry /\ Sane(src.tl) /\ Grows(values, src.tl)
         /\ DeclaredNames(src.tl) = DeclaredNames(values)
         /\ Uses(src) \in SUBSET Names /\ Referred(Uses(src), src.tl, Height(src.tl))
         /\ \/ src.from = None /\ src.value \in Values
            \/ src.from \in DeclaredNames(values) /\ src.from # None
         /\ src.known.type \in ReturnTypes
<1>1. Sane(values) /\ None \notin Names
  BY TimelineAssumption DEF Framed
<1>2. CASE \E v \in Values : src = Literal(v)
  <2>1. PICK v \in Values : src = Literal(v)
    BY <1>2
  <2>2. src.tl = values /\ src.known = OfValue(v, Fresh) /\ src.from = None /\ src.value = v
    BY <2>1 DEF Literal
  <2>3. src.known \in Entry /\ src.known.type \in ReturnTypes
    BY <2>2, FreshIs, TypesOf DEF Entry, OfValue
  <2>4. Uses(src) = {}
    BY <1>1, <2>2 DEF Uses
  <2>5. QED
    BY <1>1, <2>2, <2>3, <2>4, NothingReferred, GrowsIsPreorder
<1>3. CASE \E y \in DeclaredNames(values) : src = Variable(y)
  <2>1. PICK y \in DeclaredNames(values) : src = Variable(y)
    BY <1>3
  <2>2. src.tl = LookupVariable(values, y) /\ src.known = Known(values, y) /\ src.from = y
    BY <2>1 DEF Variable
  <2>3. y \in Names /\ IsDeclared(values, y)
    BY DEF DeclaredNames
  <2>4. src.known \in Entry
    BY <1>1, <2>2, <2>3, KnownIs
  <2>5. src.known.type \in ReturnTypes
    BY <2>4, EntryParts, TypesOf
  <2>6. Uses(src) = {y}
    BY <2>2, <2>3 DEF Uses
  <2>7. QED
    BY <1>1, <2>2, <2>3, <2>4, <2>5, <2>6, LookupVariableIs
<1>4. src \in {Literal(v) : v \in Values} \/
      src \in {Variable(y) : y \in {z \in DeclaredNames(values) : MayRead(values, z)}}
  BY DEF Sources
<1>5. QED
  BY <1>2, <1>3, <1>4

LEMMA MovedIn ==
  ASSUME Framed(checkers, values), reach \in SUBSET Pairs, NEW src \in Sources, NEW x \in Names
  PROVE  Moved(x, src) \in SUBSET Pairs
<1>1. CASE src.from = None /\ src.value \in Values
  BY <1>1, SetToIn DEF Moved
<1>2. CASE src.from \in DeclaredNames(values) /\ src.from # None
  <2>1. src.from \in Names
    BY <1>2 DEF DeclaredNames
  <2>2. QED
    BY <1>2, <2>1, CopiedIn DEF Moved
<1>3. QED
  BY <1>1, <1>2, SourceIs

\* The checker on top has checked a statement.
LEMMA TopStep ==
  ASSUME ShapeInv, checkers # <<>>, NEW c \in CheckerSet, Like(c, Top),
         Sane(values'), Grows(values, values'), Referred(c.uses, values', Height(values')),
         checkers' = SetTop(c)
  PROVE  ShapeInv'
<1> DEFINE ds == [checkers EXCEPT ![Len(checkers)] = c]
<1>1. Framed(checkers, values)
  BY DEF ShapeInv
<1>2. SameBelow(values, values') /\ Like(c, Last(checkers))
  BY DEF Grows, Top
<1>3. Framed(ds, values') /\ ds # <<>> /\ Last(ds) = c
  BY <1>1, <1>2, TopGoesOn
<1>4. checkers' = ds
  BY DEF SetTop
<1> HIDE DEF ds
<1>5. QED
  BY <1>3, <1>4 DEF ShapeInv, Top

LEMMA TopIs ==
  ASSUME ShapeInv, checkers # <<>>
  PROVE  /\ Top \in CheckerSet /\ Top = checkers[Len(checkers)] /\ Len(checkers) \in Nat
         /\ Len(checkers) \in 1 .. Len(checkers) /\ DOMAIN checkers = 1 .. Len(checkers)
         /\ checkers \in Seq(CheckerSet) /\ Framed(checkers, values) /\ Sane(values)
         /\ Referred(Top.uses, values, Height(values))
<1>1. Framed(checkers, values) /\ checkers \in Seq(CheckerSet) /\ Sane(values)
      /\ Referred(Top.uses, values, Height(values))
  BY DEF ShapeInv, Framed
<1>2. QED
  BY <1>1 DEF Top, Last

LEMMA UsesKept ==
  ASSUME ShapeInv, checkers # <<>>, NEW W, Grows(values, W),
         NEW xs, Referred(xs, W, Height(W)), NEW ys, ys \subseteq Top.uses \cup xs
  PROVE  Referred(ys, W, Height(W))
<1>1. Referred(Top.uses, W, Height(W))
  BY TopIs, ReferredGrows
<1>2. QED
  BY <1>1, ReferredSets

LEMMA VarKeeps == AInv /\ VarStatement => AInv'
<1> SUFFICES ASSUME AInv, VarStatement PROVE AInv'
  OBVIOUS
<1>1. checkers # <<>> /\ size' \in 0 .. MaxSize
  BY AnalyzerAssumption DEF AInv, DataInv, VarStatement, NextStatement
<1>2. ShapeInv /\ DataInv
  BY DEF AInv
<1>3. PICK x \in Names \ DeclaredNames(values), src \in Sources :
        /\ values' = Assign(Declare(src.tl, x, Fresh), x, src.known)
        /\ reach' = Moved(x, src)
        /\ checkers' = SetTop(Checked(Top, IsPure(src), Uses(src), {}))
  BY DEF VarStatement
<1> DEFINE D == Declare(src.tl, x, Fresh)
           W == Assign(D, x, src.known)
           c == Checked(Top, IsPure(src), Uses(src), {})
<1>4. Top \in CheckerSet /\ Sane(values) /\ Framed(checkers, values)
  BY <1>1, <1>2, TopIs
<1>5. /\ src.known \in Entry /\ Sane(src.tl) /\ Grows(values, src.tl)
      /\ DeclaredNames(src.tl) = DeclaredNames(values)
      /\ Uses(src) \in SUBSET Names /\ Referred(Uses(src), src.tl, Height(src.tl))
  BY <1>4, SourceIs
<1>6. ~IsDeclared(src.tl, x) /\ Fresh \in Nat \ {NoObject}
  BY <1>4, <1>5, FreshIs, DeclaredIs
<1>7. Sane(D) /\ Grows(src.tl, D) /\ IsDeclared(D, x)
  BY <1>5, <1>6, DeclareGrows
<1> HIDE DEF D
<1>8. Sane(W) /\ Grows(D, W)
  BY <1>5, <1>7, AssignGrows
<1> HIDE DEF W
<1>9. Grows(values, W) /\ Grows(src.tl, W)
  BY <1>5, <1>7, <1>8, GrowsIsPreorder
<1>10. c \in CheckerSet /\ Like(c, Top) /\ c.uses \subseteq Top.uses \cup Uses(src)
  BY <1>4, <1>5, CheckedIs DEF IsPure
<1> HIDE DEF c
<1>11. Referred(c.uses, W, Height(W))
  <2>1. Referred(Uses(src), W, Height(W))
    BY <1>5, <1>9, ReferredGrows
  <2>2. QED
    BY <1>1, <1>2, <1>9, <1>10, <2>1, UsesKept
<1>12. ShapeInv'
  <2>1. values' = W /\ checkers' = SetTop(c)
    BY <1>3 DEF W, D, c
  <2>2. QED
    BY <1>1, <1>2, <1>8, <1>9, <1>10, <1>11, <2>1, TopStep
<1>13. DataInv'
  <2>1. reach' \in SUBSET Pairs
    BY <1>2, <1>3, <1>4, MovedIn DEF DataInv
  <2>2. effects' = effects
    BY DEF VarStatement
  <2>3. QED
    BY <1>1, <1>2, <2>1, <2>2 DEF DataInv
<1>14. QED
  BY <1>12, <1>13 DEF AInv

LEMMA AssignKeeps == AInv /\ AssignStatement => AInv'
<1> SUFFICES ASSUME AInv, AssignStatement PROVE AInv'
  OBVIOUS
<1>1. checkers # <<>> /\ size' \in 0 .. MaxSize
  BY AnalyzerAssumption DEF AInv, DataInv, AssignStatement, NextStatement
<1>2. ShapeInv /\ DataInv
  BY DEF AInv
<1>3. PICK x \in DeclaredNames(values), src \in Sources :
        /\ values' = Assign(src.tl, x, src.known)
        /\ reach' = Moved(x, src)
        /\ checkers' = SetTop(Checked(Top, FALSE, Uses(src) \cup {x}, {x}))
  BY DEF AssignStatement
<1> DEFINE W == Assign(src.tl, x, src.known)
           c == Checked(Top, FALSE, Uses(src) \cup {x}, {x})
<1>4. Top \in CheckerSet /\ Sane(values) /\ Framed(checkers, values) /\ x \in Names
  BY <1>1, <1>2, TopIs DEF DeclaredNames
<1>5. /\ src.known \in Entry /\ Sane(src.tl) /\ Grows(values, src.tl)
      /\ DeclaredNames(src.tl) = DeclaredNames(values)
      /\ Uses(src) \in SUBSET Names /\ Referred(Uses(src), src.tl, Height(src.tl))
  BY <1>4, SourceIs
<1>6. IsDeclared(src.tl, x)
  BY <1>4, <1>5, DeclaredIs
<1>8. Sane(W) /\ Grows(src.tl, W) /\ Referred({x}, W, Height(W))
  BY <1>5, <1>6, AssignGrows
<1> HIDE DEF W
<1>9. Grows(values, W)
  BY <1>5, <1>8, GrowsIsPreorder
<1>10. c \in CheckerSet /\ Like(c, Top) /\ c.uses \subseteq Top.uses \cup (Uses(src) \cup {x})
  <2>1. Uses(src) \cup {x} \in SUBSET Names /\ {x} \in SUBSET (Names \cup {Output})
    BY <1>4, <1>5
  <2>2. QED
    BY <1>4, <2>1, CheckedIs
<1> HIDE DEF c
<1>11. Referred(c.uses, W, Height(W))
  <2>1. Referred(Uses(src), W, Height(W))
    BY <1>5, <1>8, ReferredGrows
  <2>2. Referred(Uses(src) \cup {x}, W, Height(W))
    BY <1>8, <2>1, ReferredSets
  <2>3. QED
    BY <1>1, <1>2, <1>9, <1>10, <2>2, UsesKept
<1>12. ShapeInv'
  <2>1. values' = W /\ checkers' = SetTop(c)
    BY <1>3 DEF W, c
  <2>2. QED
    BY <1>1, <1>2, <1>8, <1>9, <1>10, <1>11, <2>1, TopStep
<1>13. DataInv'
  <2>1. reach' \in SUBSET Pairs
    BY <1>2, <1>3, <1>4, MovedIn DEF DataInv
  <2>2. effects' = effects
    BY DEF AssignStatement
  <2>3. QED
    BY <1>1, <1>2, <2>1, <2>2 DEF DataInv
<1>14. QED
  BY <1>12, <1>13 DEF AInv

LEMMA PrintKeeps == AInv /\ PrintStatement => AInv'
<1> SUFFICES ASSUME AInv, PrintStatement PROVE AInv'
  OBVIOUS
<1>1. checkers # <<>> /\ size' \in 0 .. MaxSize
  BY AnalyzerAssumption DEF AInv, DataInv, PrintStatement, NextStatement
<1>2. ShapeInv /\ DataInv
  BY DEF AInv
<1>3. PICK x \in DeclaredNames(values) :
        /\ values' = LookupVariable(values, x)
        /\ checkers' = SetTop(Checked(Top, FALSE, {x}, {Output}))
  BY DEF PrintStatement
<1> DEFINE W == LookupVariable(values, x)
           c == Checked(Top, FALSE, {x}, {Output})
<1>4. Top \in CheckerSet /\ Sane(values) /\ Framed(checkers, values) /\ x \in Names
  BY <1>1, <1>2, TopIs DEF DeclaredNames
<1>5. Sane(W) /\ Grows(values, W) /\ Referred({x}, W, Height(W))
  BY <1>4, LookupVariableIs
<1> HIDE DEF W
<1>6. c \in CheckerSet /\ Like(c, Top) /\ c.uses \subseteq Top.uses \cup {x}
  <2>1. {x} \in SUBSET Names /\ {Output} \in SUBSET (Names \cup {Output})
    BY <1>4
  <2>2. QED
    BY <1>4, <2>1, CheckedIs
<1> HIDE DEF c
<1>7. Referred(c.uses, W, Height(W))
  BY <1>1, <1>2, <1>5, <1>6, UsesKept
<1>8. ShapeInv'
  <2>1. values' = W /\ checkers' = SetTop(c)
    BY <1>3 DEF W, c
  <2>2. QED
    BY <1>1, <1>2, <1>5, <1>6, <1>7, <2>1, TopStep
<1>9. DataInv'
  BY <1>1, <1>2 DEF DataInv, PrintStatement
<1>10. QED
  BY <1>8, <1>9 DEF AInv

LEMMA MentionedIs ==
  ASSUME NEW tl, Sane(tl), NEW x \in Names \cup {None}
  PROVE  LET T == Mentioned(tl, x)
         IN Sane(T) /\ Grows(tl, T) /\ Referred({x} \cap Names, T, Height(T))
<1>1. CASE x = None
  <2>1. {x} \cap Names = {}
    BY <1>1, TimelineAssumption
  <2>2. QED
    BY <1>1, <2>1, NothingReferred, GrowsIsPreorder DEF Mentioned
<1>2. CASE x # None
  <2>1. x \in Names /\ {x} \cap Names = {x}
    BY <1>2
  <2>2. QED
    BY <1>2, <2>1, LookupVariableIs DEF Mentioned
<1>3. QED
  BY <1>1, <1>2

\* What is mentioned stays referred to when everything becomes unknown.
LEMMA MentionedInCallIs ==
  ASSUME NEW tl, Sane(tl), NEW x \in Names \cup {None}
  PROVE  LET T == MakeAllUnknown(Mentioned(tl, x))
         IN Sane(T) /\ Grows(tl, T) /\ Referred({x} \cap Names, T, Height(T))
<1> DEFINE M == Mentioned(tl, x)
<1>1. Sane(M) /\ Grows(tl, M) /\ Referred({x} \cap Names, M, Height(M))
  BY MentionedIs
<1> HIDE DEF M
<1>2. Sane(MakeAllUnknown(M)) /\ Grows(M, MakeAllUnknown(M))
  BY <1>1, MakeAllUnknownGrows
<1>3. QED
  BY <1>1, <1>2, GrowsIsPreorder, ReferredGrows DEF M

LEMMA CallKeeps == AInv /\ CallStatement => AInv'
<1> SUFFICES ASSUME AInv, CallStatement PROVE AInv'
  OBVIOUS
<1>1. checkers # <<>> /\ size' \in 0 .. MaxSize
  BY AnalyzerAssumption DEF AInv, DataInv, CallStatement, NextStatement
<1>2. ShapeInv /\ DataInv
  BY DEF AInv
<1>3. PICK pure \in BOOLEAN, x \in DeclaredNames(values) \cup {None} :
        /\ values' = IF pure THEN Mentioned(values, x) ELSE MakeAllUnknown(Mentioned(values, x))
        /\ reach' = Called(reach, effects[pure])
        /\ checkers' = SetTop(Checked(Top, pure, {x} \cap Names,
                                     effects[pure] \cup (IF pure THEN {} ELSE {Output})))
  BY DEF CallStatement
<1> DEFINE does == effects[pure] \cup (IF pure THEN {} ELSE {Output})
           xs == {x} \cap Names
           c == Checked(Top, pure, xs, does)
<1>4. Top \in CheckerSet /\ Sane(values) /\ Framed(checkers, values) /\ x \in Names \cup {None}
  BY <1>1, <1>2, TopIs DEF DeclaredNames
<1>5. Sane(values') /\ Grows(values, values') /\ Referred(xs, values', Height(values'))
  BY <1>3, <1>4, MentionedIs, MentionedInCallIs
<1>6. c \in CheckerSet /\ Like(c, Top) /\ c.uses \subseteq Top.uses \cup xs
  <2>1. does \in SUBSET (Names \cup {Output}) /\ xs \in SUBSET Names
    BY <1>2 DEF DataInv
  <2> HIDE DEF does, xs
  <2>2. QED
    BY <1>4, <2>1, CheckedIs
<1> HIDE DEF c
<1>7. Referred(c.uses, values', Height(values'))
  <2> HIDE DEF xs
  <2>1. QED
    BY <1>1, <1>2, <1>5, <1>6, UsesKept
<1>8. ShapeInv'
  <2>1. checkers' = SetTop(c)
    BY <1>3 DEF c
  <2>2. QED
    BY <1>1, <1>2, <1>5, <1>6, <1>7, <2>1, TopStep
<1>9. DataInv'
  <2>1. reach' \in SUBSET Pairs
    BY <1>2, <1>3, CalledIn DEF DataInv
  <2>2. effects' = effects
    BY DEF CallStatement
  <2>3. QED
    BY <1>1, <1>2, <2>1, <2>2 DEF DataInv
<1>10. QED
  BY <1>8, <1>9 DEF AInv

LEMMA ReturnKeeps == AInv /\ ReturnStatement => AInv'
<1> SUFFICES ASSUME AInv, ReturnStatement PROVE AInv'
  OBVIOUS
<1>1. checkers # <<>> /\ size' \in 0 .. MaxSize
  BY AnalyzerAssumption DEF AInv, DataInv, ReturnStatement, NextStatement
<1>2. ShapeInv /\ DataInv
  BY DEF AInv
<1>3. PICK src \in Sources :
       /\ values' = src.tl
       /\ checkers' = SetTop(
            [Checked(Top, IsPure(src), Uses(src), {}) EXCEPT
               !.term = "returned",
               !.returned = AddReturnType(@, src.known.type),
               !.gives = @ \cup {TypeOf(IF src.from = None THEN src.value ELSE p[2][src.from]) :
                                   p \in reach}])
  BY DEF ReturnStatement
<1> DEFINE b == Checked(Top, IsPure(src), Uses(src), {})
           more == {TypeOf(IF src.from = None THEN src.value ELSE p[2][src.from]) : p \in reach}
           c == [b EXCEPT !.term = "returned", !.returned = AddReturnType(b.returned, src.known.type),
                          !.gives = b.gives \cup more]
<1>4. Top \in CheckerSet /\ Sane(values) /\ Framed(checkers, values)
  BY <1>1, <1>2, TopIs
<1>5. /\ Sane(src.tl) /\ Grows(values, src.tl) /\ src.known.type \in ReturnTypes
      /\ Uses(src) \in SUBSET Names /\ Referred(Uses(src), src.tl, Height(src.tl))
  BY <1>4, SourceIs
<1>6. b \in CheckerSet /\ Like(b, Top) /\ b.uses \subseteq Top.uses \cup Uses(src)
  BY <1>4, <1>5, CheckedIs DEF IsPure
<1>7. more \in SUBSET Types
  <2>1. ASSUME NEW p \in reach
        PROVE  (IF src.from = None THEN src.value ELSE p[2][src.from]) \in Values
    <3>1. CASE src.from = None /\ src.value \in Values
      BY <3>1
    <3>2. CASE src.from \in DeclaredNames(values) /\ src.from # None
      BY <1>2, <3>2, PairIs DEF DataInv, DeclaredNames
    <3>3. QED
      BY <1>4, <3>1, <3>2, SourceIs
  <2>2. QED
    BY <2>1, TypesOf
<1> HIDE DEF b, more
<1>8. c \in CheckerSet /\ Like(c, b) /\ c.uses = b.uses
  <2>1. b.returned \in ReturnTypes /\ b.gives \in SUBSET Types
    BY <1>6, CheckerParts
  <2>2. AddReturnType(b.returned, src.known.type) \in ReturnTypes /\ b.gives \cup more \in SUBSET Types
    BY <1>5, <1>7, <2>1, TypesOf
  <2>3. QED
    BY <1>6, <2>2, ReturnedIs
<1>9. checkers' = SetTop(c)
  BY <1>3, Zenon DEF b, more
<1> HIDE DEF c
<1>10. Like(c, Top)
  BY <1>6, <1>8 DEF Like
<1>11. Referred(c.uses, src.tl, Height(src.tl))
  BY <1>1, <1>2, <1>5, <1>6, <1>8, UsesKept
<1>12. ShapeInv'
  <2>1. values' = src.tl
    BY <1>3
  <2>2. QED
    BY <1>1, <1>2, <1>5, <1>8, <1>9, <1>10, <1>11, <2>1, TopStep
<1>13. DataInv'
  BY <1>1, <1>2 DEF DataInv, ReturnStatement
<1>14. QED
  BY <1>12, <1>13 DEF AInv

LEMMA ExitKeeps == AInv /\ ExitStatement => AInv'
<1> SUFFICES ASSUME AInv, ExitStatement PROVE AInv'
  OBVIOUS
<1>1. checkers # <<>> /\ size' \in 0 .. MaxSize
  BY AnalyzerAssumption DEF AInv, DataInv, ExitStatement, NextStatement
<1>2. ShapeInv /\ DataInv
  BY DEF AInv
<1> DEFINE c == [Top EXCEPT !.term = "exited", !.pure = FALSE, !.exits = Top.exits \cup reach]
<1>3. checkers' = SetTop(c) /\ values' = values
  BY DEF ExitStatement
<1>4. Top \in CheckerSet /\ Sane(values) /\ Referred(Top.uses, values, Height(values))
  BY <1>1, <1>2, TopIs
<1>5. c \in CheckerSet /\ Like(c, Top) /\ c.uses = Top.uses
  BY <1>2, <1>4 DEF CheckerSet, Like, Terms, DataInv
<1> HIDE DEF c
<1>6. ShapeInv'
  BY <1>1, <1>2, <1>3, <1>4, <1>5, TopStep, GrowsIsPreorder
<1>7. DataInv'
  BY <1>1, <1>2 DEF DataInv, ExitStatement
<1>8. QED
  BY <1>6, <1>7 DEF AInv

-----------------------------------------------------------------------------
(* Bodies are begun.                                                       *)

LEMMA BeginStep ==
  ASSUME ShapeInv, checkers # <<>>, NEW c \in CheckerSet, Like(c, Top),
         NEW d \in CheckerSet, d.what # "program", d.uses = {},
         SameBelow(values, d.saved), Sane(d.saved),
         Sane(values'), FrameOk(c.uses, d, values'),
         checkers' = Append(SetTop(c), d)
  PROVE  ShapeInv'
<1> DEFINE ds == Append([checkers EXCEPT ![Len(checkers)] = c], d)
<1>1. Framed(checkers, values) /\ Like(c, Last(checkers))
  BY DEF ShapeInv, Top
<1>2. Framed(ds, values') /\ ds # <<>> /\ Last(ds) = d
  BY <1>1, Begun
<1>3. checkers' = ds
  BY DEF SetTop
<1> HIDE DEF ds
<1>4. QED
  BY <1>2, <1>3, NothingReferred DEF ShapeInv, Top

LEMMA ThenFrame ==
  ASSUME NEW tl, Sane(tl), NEW d, d.what = "then", d.saved = tl,
         NEW xs, Referred(xs, tl, Height(tl))
  PROVE  Sane(StartScope(tl)) /\ FrameOk(xs, d, StartScope(tl))
<1> DEFINE T == StartScope(tl)
           n == Height(tl)
<1>1. /\ Sane(T) /\ Height(T) = n + 1 /\ T.blind = tl.blind
      /\ \A i \in 1 .. n : VarsAt(T, i) = VarsAt(tl, i) /\ ExtAt(T, i) = ExtAt(tl, i)
  BY StartScopeIs
<1>2. n \in Nat /\ n \in 1 .. n /\ \A i \in 1 .. n - 1 : i \in 1 .. n
  BY SaneParts
<1> HIDE DEF T
<1>3. Inside(d, T)
  BY <1>1 DEF Inside, Blinding
<1>4. Referred(xs, T, n)
  BY <1>1, <1>2 DEF Referred
<1>5. QED
  BY <1>1, <1>3, <1>4 DEF FrameOk, ReferredAround, ReferredBefore, T

\* The timeline tl in the blind scope of a cycle or function.
LEMMA BlindFrame ==
  ASSUME NEW v, Sane(v), NEW tl, Sane(tl), Grows(StartBlindScope(v), tl),
         NEW d, d.saved = v, NEW xs, Referred(xs, v, Height(v)),
         NEW ys, Referred(ys, tl, Height(tl)),
         d.what = "cycle" \/ (d.what = "function" /\ ys = {})
  PROVE  Sane(StartScope(tl)) /\ FrameOk(xs \cup ys, d, StartScope(tl))
<1> DEFINE T == StartScope(tl)
           B == StartBlindScope(v)
           n == Height(v)
<1>1. /\ Height(B) = n + 1 /\ B.blind = Append(v.blind, n)
      /\ \A i \in 1 .. n : VarsAt(B, i) = VarsAt(v, i) /\ ExtAt(B, i) = ExtAt(v, i)
  BY StartBlindScopeIs
<1>2. n \in Nat /\ n \in 1 .. n /\ \A i \in 1 .. n - 1 : i \in 1 .. n
  BY SaneParts
<1> HIDE DEF B
<1>3. Height(tl) = n + 1 /\ (n + 1) - 1 = n /\ \A i \in 1 .. n : i \in 1 .. n + 1
  BY <1>1, <1>2 DEF Grows, SameBelow, B
<1>4. tl.blind = Append(v.blind, n)
  BY <1>1 DEF Grows, SameBelow, B
<1>5. \A i \in 1 .. n : DOMAIN VarsAt(tl, i) = DOMAIN VarsAt(v, i) /\ ExtAt(tl, i) = ExtAt(v, i)
  BY <1>1, <1>3 DEF Grows, SameBelow, B
<1>6. /\ Sane(T) /\ Height(T) = (n + 1) + 1 /\ T.blind = tl.blind
      /\ \A i \in 1 .. n + 1 : VarsAt(T, i) = VarsAt(tl, i) /\ ExtAt(T, i) = ExtAt(tl, i)
  BY <1>3, StartScopeIs
<1> HIDE DEF T
<1>7. \A i \in 1 .. n : DOMAIN VarsAt(T, i) = DOMAIN VarsAt(v, i) /\ ExtAt(T, i) = ExtAt(v, i)
  BY <1>3, <1>5, <1>6
<1>8. Inside(d, T)
  <2>1. Height(T) = n + 2
    BY <1>2, <1>6
  <2>2. Blinding(d)
    BY DEF Blinding
  <2>3. QED
    BY <1>4, <1>6, <1>7, <2>1, <2>2 DEF Inside
<1>9. Referred(xs, T, n)
  BY <1>2, <1>7 DEF Referred
<1>10. CASE d.what = "cycle"
  <2>1. n + 1 \in 1 .. n + 1
    BY <1>2
  <2>2. ASSUME NothingForgotten, NEW x \in ys, NEW i \in 1 .. n - 1, x \in DOMAIN VarsAt(T, i)
        PROVE  x \in DOMAIN ExtAt(T, n + 1)
    <3>1. x \in DOMAIN VarsAt(tl, i) /\ i \in 1 .. (n + 1) - 1
      BY <1>2, <1>3, <1>6, <2>2
    <3>2. x \in DOMAIN ExtAt(tl, n + 1)
      BY <1>3, <2>2, <3>1 DEF Referred
    <3>3. QED
      BY <1>6, <2>1, <3>2
  <2>3. ReferredOrIn(xs \cup ys, T, n)
    BY <1>9, <2>2 DEF ReferredOrIn, Referred
  <2>4. QED
    BY <1>6, <1>8, <1>10, <2>3 DEF FrameOk, ReferredAround, ReferredBefore, T
<1>11. CASE d.what = "function" /\ ys = {}
  <2>1. xs \cup ys = xs
    BY <1>11
  <2>2. d.what # "cycle" /\ d.what # "else"
    BY <1>11
  <2>3. QED
    BY <1>6, <1>8, <1>9, <1>11, <2>1, <2>2 DEF FrameOk, ReferredAround, ReferredBefore, T
<1>12. QED
  BY <1>10, <1>11

LEMMA FrameForLess ==
  ASSUME NEW xs, NEW ys, ys \subseteq xs, NEW d, NEW T, FrameOk(xs, d, T)
  PROVE  FrameOk(ys, d, T)
BY DEF FrameOk, ReferredAround, ReferredOrIn, Referred

LEMMA BlindScopeIs ==
  ASSUME NEW v, Sane(v)
  PROVE  LET B == StartBlindScope(v)
         IN /\ Sane(B) /\ VarsAt(B, Height(B)) = <<>>
            /\ \A x : IsDeclared(B, x) <=> IsDeclared(v, x)
<1> DEFINE B == StartBlindScope(v)
           n == Height(v)
<1>1. /\ Sane(B) /\ Height(B) = n + 1
      /\ \A i \in 1 .. n : VarsAt(B, i) = VarsAt(v, i)
      /\ VarsAt(B, n + 1) = <<>>
  BY StartBlindScopeIs
<1>2. n \in Nat /\ DOMAIN <<>> = {}
  BY SaneParts
<1> HIDE DEF B
<1>3. ASSUME NEW x, IsDeclared(v, x) PROVE IsDeclared(B, x)
  <2>1. PICK i \in 1 .. n : x \in DOMAIN VarsAt(v, i)
    BY <1>3, DeclaredSomewhere
  <2>2. i \in 1 .. n + 1 /\ x \in DOMAIN VarsAt(B, i)
    BY <1>1, <1>2, <2>1
  <2>3. QED
    BY <1>1, <2>2, LookupIs
<1>4. ASSUME NEW x, IsDeclared(B, x) PROVE IsDeclared(v, x)
  <2>1. PICK i \in 1 .. n + 1 : x \in DOMAIN VarsAt(B, i)
    BY <1>1, <1>4, DeclaredSomewhere
  <2>2. i \in 1 .. n /\ x \in DOMAIN VarsAt(v, i)
    BY <1>1, <1>2, <2>1
  <2>3. QED
    BY <2>2, LookupIs
<1>5. QED
  BY <1>1, <1>3, <1>4 DEF B

LEMMA AfterConditionIs ==
  ASSUME NEW tl, Sane(tl), NEW c \in Conditions
  PROVE  LET T == AfterCondition(tl, c)
         IN Sane(T) /\ Grows(tl, T) /\ Referred({c.name} \cap Names, T, Height(T))
<1>1. c.name \in Names \cup {None}
  BY ConditionIs
<1>2. QED
  BY <1>1, MentionedIs, MentionedInCallIs DEF AfterCondition

LEMMA ConditionCheckedIs ==
  ASSUME AInv, checkers # <<>>, NEW c \in Conditions, NEW pure \in BOOLEAN
  PROVE  LET d == ConditionChecked(c, pure)
         IN d \in CheckerSet /\ Like(d, Top) /\ d.uses \subseteq Top.uses \cup ({c.name} \cap Names)
<1> DEFINE does == IF Calls(c) THEN effects[FALSE] \cup {Output} ELSE {}
<1>1. does \in SUBSET (Names \cup {Output})
  BY DEF AInv, DataInv
<1>2. Top \in CheckerSet
  BY TopIs DEF AInv
<1> HIDE DEF does
<1>3. QED
  BY <1>1, <1>2, CheckedIs DEF ConditionChecked, does

LEMMA AnyTurnIn == AnyTurn \in SUBSET Pairs
BY IdentityIn DEF AnyTurn

LEMMA IfBeginKeeps == AInv /\ IfBegin => AInv'
<1> SUFFICES ASSUME AInv, IfBegin PROVE AInv'
  OBVIOUS
<1>1. checkers # <<>> /\ size' \in 0 .. MaxSize
  BY AnalyzerAssumption DEF AInv, DataInv, IfBegin, NextStatement
<1>2. ShapeInv /\ DataInv
  BY DEF AInv
<1> DEFINE pure(c) == c.kind = "comparison" \/ (c.kind = "is" /\ Outcome(values, c) # "unknown")
           tl(c) == AfterCondition(values, c)
           R(c) == Evaluated(reach, c)
           body(c) == Checker("then", Top.inFunction, Top.inCycle, Other(Outcome(values, c)), tl(c),
                              Fail(R(c), c), NoBranch)
<1>3. PICK c \in Conditions :
        Begin(ConditionChecked(c, pure(c)), body(c), tl(c), Pass(R(c), c))
  BY Zenon DEF IfBegin
<1> DEFINE b == ConditionChecked(c, pure(c))
           d == body(c)
           w == tl(c)
<1>4. /\ checkers' = Append(SetTop(b), d) /\ values' = StartScope(w) /\ reach' = Pass(R(c), c)
  BY <1>3, Zenon DEF Begin
<1>5. Top \in CheckerSet /\ Sane(values)
  BY <1>1, <1>2, TopIs
<1>6. Sane(w) /\ Grows(values, w) /\ Referred({c.name} \cap Names, w, Height(w))
  BY <1>5, AfterConditionIs
<1>7. b \in CheckerSet /\ Like(b, Top) /\ b.uses \subseteq Top.uses \cup ({c.name} \cap Names)
  BY <1>1, ConditionCheckedIs
<1>8. R(c) \in SUBSET Pairs
  BY <1>2, ConditionIs, ConditionParts DEF DataInv
<1>9. d \in CheckerSet /\ d.what = "then" /\ d.saved = w /\ d.uses = {}
  <2>1. Other(Outcome(values, c)) \in CondSet
    BY ConditionParts
  <2>2. w \in Timelines
    BY <1>6 DEF Sane, Timelines
  <2>3. Fail(R(c), c) \in SUBSET Pairs
    BY <1>8, ConditionIs, ConditionParts
  <2>4. Top.inFunction \in BOOLEAN /\ Top.inCycle \in BOOLEAN
    BY <1>5, CheckerParts
  <2> HIDE DEF w
  <2>5. QED
    BY <2>1, <2>2, <2>3, <2>4, CheckerIs, TypesOf DEF w
<1> HIDE DEF b, d, w
<1>10. Referred(b.uses, w, Height(w))
  BY <1>1, <1>2, <1>6, <1>7, UsesKept
<1>11. ShapeInv'
  <2>1. Sane(values') /\ FrameOk(b.uses, d, values')
    BY <1>4, <1>6, <1>9, <1>10, ThenFrame
  <2>2. SameBelow(values, d.saved) /\ Sane(d.saved) /\ d.what # "program"
    BY <1>6, <1>9 DEF Grows
  <2>3. QED
    BY <1>1, <1>2, <1>4, <1>7, <1>9, <2>1, <2>2, BeginStep
<1>12. DataInv'
  <2>1. reach' \in SUBSET Pairs
    BY <1>4, <1>8, ConditionIs, ConditionParts
  <2>2. effects' = effects
    BY DEF IfBegin
  <2>3. QED
    BY <1>1, <1>2, <2>1, <2>2 DEF DataInv
<1>13. QED
  BY <1>11, <1>12 DEF AInv

\* The body of a cycle or function is begun.
LEMMA BlindBegins ==
  ASSUME AInv, checkers # <<>>, NEW c \in CheckerSet, Like(c, Top),
         NEW tl, Sane(tl), Grows(StartBlindScope(values), tl),
         NEW ys, Referred(ys, tl, Height(tl)), c.uses \subseteq Top.uses \cup ys,
         NEW d \in CheckerSet, d.saved = values, d.uses = {},
         d.what = "cycle" \/ (d.what = "function" /\ ys = {}),
         checkers' = Append(SetTop(c), d), values' = StartScope(tl)
  PROVE  ShapeInv'
<1>1. ShapeInv /\ Sane(values) /\ Referred(Top.uses, values, Height(values))
  BY TopIs DEF AInv
<1>2. Sane(values') /\ FrameOk(Top.uses \cup ys, d, values')
  BY <1>1, BlindFrame
<1>3. FrameOk(c.uses, d, values')
  BY <1>2, FrameForLess
<1>4. SameBelow(values, d.saved) /\ Sane(d.saved) /\ d.what # "program"
  BY <1>1 DEF SameBelow
<1>5. QED
  BY <1>1, <1>2, <1>3, <1>4, BeginStep

LEMMA CycleCheckerIs ==
  ASSUME AInv, checkers # <<>>, NEW c \in CondSet
  PROVE  LET d == Checker("cycle", Top.inFunction, TRUE, c, values, reach, NoBranch)
         IN d \in CheckerSet /\ d.saved = values /\ d.uses = {} /\ d.what = "cycle"
<1>1. Top.inFunction \in BOOLEAN /\ values \in Timelines /\ reach \in SUBSET Pairs
  BY TopIs, CheckerParts DEF AInv, DataInv, Sane, Timelines
<1>2. NoBranch \in BranchSet /\ TRUE \in BOOLEAN
      /\ "cycle" \in {"program", "then", "else", "cycle", "function"}
  BY TypesOf
<1>3. QED
  BY <1>1, <1>2, TypesOf DEF Checker, CheckerSet, Terms

LEMMA WhileBeginKeeps == AInv /\ WhileBegin => AInv'
<1> SUFFICES ASSUME AInv, WhileBegin PROVE AInv'
  OBVIOUS
<1>1. checkers # <<>> /\ size' \in 0 .. MaxSize
  BY AnalyzerAssumption DEF AInv, DataInv, WhileBegin, NextStatement
<1> DEFINE B == StartBlindScope(values)
<1>2. PICK c \in Conditions :
        CycleBegin(ConditionChecked(c, FALSE), c, AfterCondition(B, c), Pass(Evaluated(AnyTurn, c), c))
  BY Zenon DEF WhileBegin
<1> DEFINE b == ConditionChecked(c, FALSE)
           d == Checker("cycle", Top.inFunction, TRUE, c, values, reach, NoBranch)
           w == AfterCondition(B, c)
<1>3. checkers' = Append(SetTop(b), d) /\ values' = StartScope(w)
      /\ reach' = Pass(Evaluated(AnyTurn, c), c)
  BY <1>2, Zenon DEF CycleBegin, Begin
<1>4. Sane(values)
  BY <1>1, TopIs DEF AInv
<1>5. Sane(B)
  BY <1>4, BlindScopeIs
<1> HIDE DEF B
<1>6. Sane(w) /\ Grows(B, w) /\ Referred({c.name} \cap Names, w, Height(w))
  BY <1>5, AfterConditionIs
<1>7. b \in CheckerSet /\ Like(b, Top) /\ b.uses \subseteq Top.uses \cup ({c.name} \cap Names)
  BY <1>1, ConditionCheckedIs
<1>8. d \in CheckerSet /\ d.saved = values /\ d.uses = {} /\ d.what = "cycle"
  BY <1>1, ConditionIs, CycleCheckerIs
<1> HIDE DEF b, d, w
<1>9. ShapeInv'
  BY <1>1, <1>3, <1>6, <1>7, <1>8, BlindBegins DEF B
<1>10. DataInv'
  <2>1. reach' \in SUBSET Pairs
    BY <1>3, AnyTurnIn, ConditionIs, ConditionParts
  <2>2. effects' = effects
    BY DEF WhileBegin
  <2>3. QED
    BY <1>1, <2>1, <2>2 DEF AInv, DataInv
<1>11. QED
  BY <1>9, <1>10 DEF AInv

LEMMA ForBeginKeeps == AInv /\ ForBegin => AInv'
<1> SUFFICES ASSUME AInv, ForBegin PROVE AInv'
  OBVIOUS
<1>1. checkers # <<>> /\ size' \in 0 .. MaxSize
  BY AnalyzerAssumption DEF AInv, DataInv, ForBegin, NextStatement
<1> DEFINE B == StartBlindScope(values)
           b == Checked(Top, FALSE, {}, {})
           d == Checker("cycle", Top.inFunction, TRUE, Other("unknown"), values, reach, NoBranch)
<1>2. Sane(values) /\ Top \in CheckerSet
  BY <1>1, TopIs DEF AInv
<1>3. Sane(B) /\ \A x : IsDeclared(B, x) <=> IsDeclared(values, x)
  BY <1>2, BlindScopeIs
<1>4. b \in CheckerSet /\ Like(b, Top) /\ b.uses \subseteq Top.uses \cup {}
  BY <1>2, CheckedIs
<1>5. d \in CheckerSet /\ d.saved = values /\ d.uses = {} /\ d.what = "cycle"
  BY <1>1, ConditionParts, CycleCheckerIs
<1>6. effects' = effects
  BY DEF ForBegin
<1>7. CASE CycleBegin(b, Other("unknown"), B, AnyTurn)
  <2>1. checkers' = Append(SetTop(b), d) /\ values' = StartScope(B) /\ reach' = AnyTurn
    BY <1>7, Zenon DEF CycleBegin, Begin
  <2>2. Grows(B, B) /\ Referred({}, B, Height(B))
    BY GrowsIsPreorder, NothingReferred
  <2> HIDE DEF b, d
  <2>3. ShapeInv'
    BY <1>1, <1>3, <1>4, <1>5, <2>1, <2>2, BlindBegins
  <2>4. DataInv'
    BY <1>1, <1>6, <2>1, AnyTurnIn DEF AInv, DataInv
  <2>5. QED
    BY <2>3, <2>4 DEF AInv
<1>8. CASE \E x \in Names \ DeclaredNames(values), item \in {"int", UnknownType} :
             CycleBegin(b, Other("unknown"), Assign(Declare(B, x, Fresh), x, OfType(item)),
                        SetTo(AnyTurn, x, IF item = "int" THEN Ints ELSE Values))
  <2>1. PICK x \in Names \ DeclaredNames(values), item \in {"int", UnknownType} :
             CycleBegin(b, Other("unknown"), Assign(Declare(B, x, Fresh), x, OfType(item)),
                        SetTo(AnyTurn, x, IF item = "int" THEN Ints ELSE Values))
    BY <1>8
  <2> DEFINE D == Declare(B, x, Fresh)
             w == Assign(D, x, OfType(item))
             vs == IF item = "int" THEN Ints ELSE Values
  <2>2. checkers' = Append(SetTop(b), d) /\ values' = StartScope(w) /\ reach' = SetTo(AnyTurn, x, vs)
    BY <2>1, Zenon DEF CycleBegin, Begin
  <2>3. Fresh \in Nat \ {NoObject}
    BY FreshIs DEF AInv, ShapeInv
  <2>4. ~IsDeclared(B, x)
    BY <1>2, <1>3, DeclaredIs
  <2>5. Sane(D) /\ Grows(B, D) /\ IsDeclared(D, x)
    BY <1>3, <2>3, <2>4, DeclareGrows
  <2>6. OfType(item) \in Entry
    BY DEF Entry, Types
  <2> HIDE DEF D
  <2>7. Sane(w) /\ Grows(D, w)
    BY <2>5, <2>6, AssignGrows
  <2> HIDE DEF w
  <2>8. Grows(B, w) /\ Referred({}, w, Height(w))
    BY <2>5, <2>7, GrowsIsPreorder, NothingReferred
  <2> HIDE DEF b, d
  <2>9. ShapeInv'
    BY <1>1, <1>3, <1>4, <1>5, <2>2, <2>7, <2>8, BlindBegins
  <2>10. vs \subseteq Values
    BY DEF Values
  <2> HIDE DEF vs
  <2>11. DataInv'
    BY <1>1, <1>6, <2>2, <2>10, AnyTurnIn, SetToIn DEF AInv, DataInv
  <2>12. QED
    BY <2>9, <2>11 DEF AInv
<1>9. QED
  BY <1>7, <1>8, Zenon DEF ForBegin

LEMMA LoopBeginKeeps == AInv /\ LoopBegin => AInv'
<1> SUFFICES ASSUME AInv, LoopBegin PROVE AInv'
  OBVIOUS
<1>1. checkers # <<>> /\ size' \in 0 .. MaxSize
  BY AnalyzerAssumption DEF AInv, DataInv, LoopBegin, NextStatement
<1> DEFINE B == StartBlindScope(values)
           d == Checker("cycle", Top.inFunction, TRUE, Always, values, reach, NoBranch)
<1>2. Sane(values) /\ Top \in CheckerSet
  BY <1>1, TopIs DEF AInv
<1>3. Sane(B) /\ Grows(B, B) /\ Referred({}, B, Height(B))
  BY <1>2, BlindScopeIs, GrowsIsPreorder, NothingReferred
<1>4. Like(Top, Top) /\ Top.uses \subseteq Top.uses \cup {}
  BY DEF Like
<1>5. d \in CheckerSet /\ d.saved = values /\ d.uses = {} /\ d.what = "cycle"
  BY <1>1, ConditionParts, CycleCheckerIs
<1>6. checkers' = Append(SetTop(Top), d) /\ values' = StartScope(B) /\ reach' = AnyTurn
      /\ effects' = effects
  BY Zenon DEF LoopBegin, CycleBegin, Begin
<1> HIDE DEF d
<1>7. ShapeInv'
  BY <1>1, <1>2, <1>3, <1>4, <1>5, <1>6, BlindBegins
<1>8. DataInv'
  BY <1>1, <1>6, AnyTurnIn DEF AInv, DataInv
<1>9. QED
  BY <1>7, <1>8 DEF AInv

LEMMA FunctionBeginKeeps == AInv /\ FunctionBegin => AInv'
<1> SUFFICES ASSUME AInv, FunctionBegin PROVE AInv'
  OBVIOUS
<1>1. checkers # <<>> /\ size' \in 0 .. MaxSize
  BY AnalyzerAssumption DEF AInv, DataInv, FunctionBegin, NextStatement
<1> DEFINE B == StartBlindScope(values)
           w(params) == DeclareParameters(B, params)
           d == Checker("function", TRUE, FALSE, Always, values, reach, NoBranch)
<1>2. PICK params \in SUBSET (Names \ DeclaredNames(values)) :
        Begin(Top, d, w(params), Identity(AnyStore(DeclaredNames(w(params)))))
  BY Zenon DEF FunctionBegin
<1> DEFINE W == w(params)
<1>3. checkers' = Append(SetTop(Top), d) /\ values' = StartScope(W)
      /\ reach' = Identity(AnyStore(DeclaredNames(W)))
  BY <1>2, Zenon DEF Begin
<1>4. Sane(values) /\ Top \in CheckerSet
  BY <1>1, TopIs DEF AInv
<1>5. Sane(B) /\ VarsAt(B, Height(B)) = <<>> /\ \A x : IsDeclared(B, x) <=> IsDeclared(values, x)
  BY <1>4, BlindScopeIs
<1>6. params \subseteq Names /\ \A x \in params : ~IsDeclared(B, x)
  BY <1>4, <1>5, DeclaredIs
<1> HIDE DEF B
<1>7. Sane(W) /\ Grows(B, W)
  <2>1. /\ Sane(W) /\ Height(W) = Height(B) /\ W.blind = B.blind
        /\ \A i \in 1 .. Height(B) : i # Height(B) => VarsAt(W, i) = VarsAt(B, i)
        /\ \A i \in 1 .. Height(B) : ExtAt(W, i) = ExtAt(B, i)
    BY <1>5, <1>6, DeclareParametersIs
  <2>2. Height(B) \in 1 .. Height(B) /\ \A i \in 1 .. Height(B) - 1 : i \in 1 .. Height(B) /\ i # Height(B)
    BY <1>5, SaneParts
  <2> HIDE DEF W
  <2>3. QED
    BY <2>1, <2>2 DEF Grows, SameBelow
<1> HIDE DEF W
<1>8. Like(Top, Top) /\ Top.uses \subseteq Top.uses \cup {} /\ Referred({}, W, Height(W))
  BY NothingReferred DEF Like
<1>9. d \in CheckerSet /\ d.saved = values /\ d.uses = {} /\ d.what = "function"
  <2>1. values \in Timelines /\ reach \in SUBSET Pairs
    BY <1>4 DEF AInv, DataInv, Sane, Timelines
  <2>2. NoBranch \in BranchSet /\ TRUE \in BOOLEAN /\ FALSE \in BOOLEAN /\ Always \in CondSet
        /\ "function" \in {"program", "then", "else", "cycle", "function"}
    BY TypesOf, ConditionParts
  <2>3. QED
    BY <2>1, <2>2, TypesOf DEF Checker, CheckerSet, Terms
<1> HIDE DEF d
<1>10. ShapeInv'
  BY <1>1, <1>3, <1>4, <1>7, <1>8, <1>9, BlindBegins DEF B
<1>11. DataInv'
  <2>1. effects' = effects
    BY DEF FunctionBegin
  <2>2. QED
    BY <1>1, <1>3, <2>1, IdentityIn DEF AInv, DataInv
<1>12. QED
  BY <1>10, <1>11 DEF AInv

LEMMA WhileRemovedKeeps == AInv /\ WhileRemoved => AInv'
<1> SUFFICES ASSUME AInv, WhileRemoved PROVE AInv'
  OBVIOUS
<1>1. checkers # <<>> /\ size' \in 0 .. MaxSize
  <2>1. NextStatement
    BY DEF WhileRemoved
  <2>2. QED
    BY <2>1, AnalyzerAssumption DEF AInv, DataInv, NextStatement
<1>2. PICK c \in Conditions :
        /\ Calls(c) => "call in a false while" \in Constructs
        /\ reach' = Fail(Evaluated(reach, c), c)
        /\ checkers' = SetTop(IF Calls(c) THEN ConditionChecked(c, FALSE)
                             ELSE [ConditionChecked(c, FALSE) EXCEPT !.uses = Top.uses])
  BY DEF WhileRemoved
<1> DEFINE b == ConditionChecked(c, FALSE)
           d == IF Calls(c) THEN b ELSE [b EXCEPT !.uses = Top.uses]
<1>3. Top \in CheckerSet /\ Sane(values) /\ Referred(Top.uses, values, Height(values)) /\ ShapeInv
  BY <1>1, TopIs DEF AInv
<1>4. b \in CheckerSet /\ Like(b, Top)
  BY <1>1, ConditionCheckedIs
<1> HIDE DEF b
<1>5. d \in CheckerSet /\ Like(d, Top) /\ (~Calls(c) => d.uses = Top.uses)
  <2>1. Top.uses \in SUBSET Names
    BY <1>3, CheckerParts
  <2>2. CASE Calls(c)
    BY <1>4, <2>2
  <2>3. CASE ~Calls(c)
    BY <1>4, <2>1, <2>3 DEF CheckerSet, Like
  <2>4. QED
    BY <2>2, <2>3
<1> HIDE DEF d
<1>6. values' = values /\ effects' = effects
  BY DEF WhileRemoved
<1>7. ShapeInv'
  <2>1. Grows(values, values')
    BY <1>6, GrowsIsPreorder
  <2>2. checkers' = SetTop(d)
    BY <1>2 DEF d, b
  <2>3. Referred(d.uses, values', Height(values'))
    BY <1>2, <1>3, <1>5, <1>6 DEF Referred, NothingForgotten
  <2>4. QED
    BY <1>1, <1>3, <1>5, <1>6, <2>1, <2>2, <2>3, TopStep
<1>8. DataInv'
  <2>1. Evaluated(reach, c) \in SUBSET Pairs
    BY ConditionIs, ConditionParts DEF AInv, DataInv
  <2>2. reach' \in SUBSET Pairs
    BY <1>2, <2>1, ConditionIs, ConditionParts
  <2>3. QED
    BY <1>1, <1>6, <2>2 DEF AInv, DataInv
<1>9. QED
  BY <1>7, <1>8 DEF AInv

-----------------------------------------------------------------------------
(* Bodies are over.                                                        *)

\* What a body leaves of the timeline it has found.
LEMMA AroundIs ==
  ASSUME ShapeInv, checkers # <<>>, Top.what # "program"
  PROVE  LET n == Height(Top.saved)
         IN /\ Sane(Top.saved) /\ Sane(Around) /\ SameBelow(Top.saved, Around)
            /\ \A i \in 1 .. n : DOMAIN VarsAt(Around, i) = DOMAIN VarsAt(Top.saved, i)
            /\ VisibleNames = DeclaredNames(Top.saved)
            /\ Referred(Outer.uses, Around, n) /\ Referred(Top.uses, Around, n)
            /\ Top.what # "cycle" => Referred(Outer.uses, Top.saved, n)
            /\ Top.what = "else" => Referred(Top.branch.uses, Top.saved, n)
<1> DEFINE c == Top
           T == values
           n == Height(c.saved)
           us == Outer.uses
<1>1. /\ Framed(checkers, values) /\ c = Last(checkers) /\ Sane(T)
      /\ Referred(c.uses, T, Height(T))
  BY TopIs DEF Top
<1>2. FrameOk(us, c, T)
  <2>1. UsesUnder(checkers, Len(checkers)) = us
    BY <1>1, Popped DEF Outer
  <2>2. Len(checkers) \in 1 .. Len(checkers) /\ c = checkers[Len(checkers)]
    BY TopIs
  <2>3. QED
    BY <1>1, <2>1, <2>2, SaneAt DEF TimelineAt
<1>3. Sane(c.saved) /\ Inside(c, T) /\ ReferredAround(us, c, T) /\ ReferredBefore(c)
  BY <1>2 DEF FrameOk
<1>4. Around = EndOf(c, T)
  BY DEF Around, BodyTimeline, EndOf, Blinding
<1>5. n \in Nat /\ n \in 1 .. n /\ \A i \in 1 .. n - 1 : i \in 1 .. n /\ i # n
  BY <1>3, SaneParts
<1> DEFINE A == Around
<1> HIDE DEF c, T, A, us
\* A name that is declared below n is not declared anywhere else.
<1>6. \A i \in 1 .. n - 1, j \in 1 .. Height(T) : \A x \in DOMAIN VarsAt(T, i) :
        x \in DOMAIN VarsAt(T, j) => i = j
  <2>1. \A i \in 1 .. n - 1 : i \in 1 .. Height(T)
    BY <1>3, <1>5 DEF Inside
  <2>2. QED
    BY <1>1, <2>1, LookupIs
<1>7. CASE ~Blinding(c)
  <2>1. A = EndScope(T)
    BY <1>4, <1>7 DEF EndOf, A
  <2>2. /\ Sane(A) /\ Height(A) = n /\ A.blind = c.saved.blind
        /\ \A i \in 1 .. n : VarsAt(A, i) = VarsAt(T, i)
        /\ \A i \in 1 .. n : DOMAIN VarsAt(A, i) = DOMAIN VarsAt(c.saved, i)
        /\ \A i \in 1 .. n : i # n => ExtAt(A, i) = ExtAt(T, i)
        /\ DOMAIN ExtAt(A, n) = Uses1(T, n)
    BY <1>1, <1>3, <1>7, <2>1, EndOfBranch
  <2>3. Height(T) = n + 1 /\ n \in 1 .. Height(T)
    BY <1>3, <1>5, <1>7 DEF Inside
  <2>4. \A i \in 1 .. n - 1 : ExtAt(T, i) = ExtAt(c.saved, i)
    BY <1>3, <1>5 DEF Inside
  <2>5. SameBelow(c.saved, A)
    BY <1>5, <2>2, <2>4 DEF SameBelow
  <2>6. Referred(us, T, n) /\ Referred(us, c.saved, n)
    BY <1>3, <1>7 DEF ReferredAround, Blinding
  <2>7. Referred(us, A, n)
    BY <1>5, <2>2, <2>6 DEF Referred, Uses1
  <2>8. Referred(c.uses, A, n)
    <3>1. SUFFICES ASSUME NothingForgotten, NEW x \in c.uses, NEW i \in 1 .. n - 1,
                          x \in DOMAIN VarsAt(A, i)
                   PROVE  x \in DOMAIN ExtAt(A, n)
      BY DEF Referred
    <3>2. i \in 1 .. Height(T) - 1 /\ x \in DOMAIN VarsAt(T, i) /\ i # n
      BY <1>5, <2>2, <2>3, <3>1
    <3>3. x \in DOMAIN ExtAt(T, n + 1)
      BY <1>1, <2>3, <3>1, <3>2 DEF Referred
    <3>4. x \notin DOMAIN VarsAt(T, n)
      BY <1>6, <2>3, <3>2
    <3>5. QED
      BY <2>2, <3>3, <3>4 DEF Uses1
  <2>9. DeclaredNames(A) = DeclaredNames(c.saved)
    BY <1>3, <2>2, SameNames
  <2>10. c.what = "else" => Referred(c.branch.uses, c.saved, n)
    BY <1>3 DEF ReferredBefore
  <2>11. QED
    BY <1>3, <2>2, <2>5, <2>6, <2>7, <2>8, <2>9, <2>10 DEF c, A, us, VisibleNames
<1>8. CASE Blinding(c)
  <2>1. A = EndScope(EndScope(T))
    BY <1>4, <1>8 DEF EndOf, A
  <2>2. /\ Sane(A) /\ Height(A) = n /\ A.blind = c.saved.blind
        /\ \A i \in 1 .. n : VarsAt(A, i) = VarsAt(T, i)
        /\ \A i \in 1 .. n : DOMAIN VarsAt(A, i) = DOMAIN VarsAt(c.saved, i)
        /\ \A i \in 1 .. n : i # n => ExtAt(A, i) = ExtAt(T, i)
        /\ DOMAIN ExtAt(A, n) = DOMAIN ExtAt(T, n) \cup (Uses1(T, n + 1) \ DOMAIN VarsAt(T, n))
    <3>1. EndsBlind(c, T, EndScope(T), A)
      BY <1>1, <1>3, <1>8, <2>1, EndOfBlind
    <3>2. QED
      BY <3>1 DEF EndsBlind
  <2>3. Height(T) = n + 2 /\ n \in 1 .. Height(T) /\ n + 1 \in 1 .. Height(T) /\ (n + 1) + 1 = n + 2
    BY <1>3, <1>5, <1>8 DEF Inside
  <2>4. \A i \in 1 .. n - 1 : ExtAt(T, i) = ExtAt(c.saved, i)
    BY <1>3, <1>5 DEF Inside
  <2>5. SameBelow(c.saved, A)
    BY <1>5, <2>2, <2>4 DEF SameBelow
  <2>6. c.what # "cycle" => Referred(us, T, n) /\ Referred(us, c.saved, n)
    BY <1>3 DEF ReferredAround
  <2>7. ASSUME NEW x, NEW i \in 1 .. n - 1, x \in DOMAIN VarsAt(T, i)
        PROVE  x \notin DOMAIN VarsAt(T, n) /\ x \notin DOMAIN VarsAt(T, n + 1)
    <3>1. i # n /\ i # n + 1
      BY <1>5
    <3>2. QED
      BY <1>6, <2>3, <2>7, <3>1
  <2>8. Referred(us, A, n)
    <3>1. SUFFICES ASSUME NothingForgotten, NEW x \in us, NEW i \in 1 .. n - 1,
                          x \in DOMAIN VarsAt(A, i)
                   PROVE  x \in DOMAIN ExtAt(A, n)
      BY DEF Referred
    <3>2. x \in DOMAIN VarsAt(T, i)
      BY <1>5, <2>2, <3>1
    <3>3. x \in DOMAIN ExtAt(T, n) \cup DOMAIN ExtAt(T, n + 1)
      BY <1>3, <2>6, <3>1, <3>2 DEF ReferredAround, ReferredOrIn, Referred
    <3>4. x \notin DOMAIN VarsAt(T, n)
      BY <2>7, <3>2
    <3>5. QED
      BY <2>2, <3>3, <3>4 DEF Uses1
  <2>9. Referred(c.uses, A, n)
    <3>1. SUFFICES ASSUME NothingForgotten, NEW x \in c.uses, NEW i \in 1 .. n - 1,
                          x \in DOMAIN VarsAt(A, i)
                   PROVE  x \in DOMAIN ExtAt(A, n)
      BY DEF Referred
    <3>2. x \in DOMAIN VarsAt(T, i) /\ i \in 1 .. Height(T) - 1
      BY <1>5, <2>2, <2>3, <3>1
    <3>3. x \in DOMAIN ExtAt(T, n + 2)
      BY <1>1, <2>3, <3>1, <3>2 DEF Referred
    <3>4. x \notin DOMAIN VarsAt(T, n) /\ x \notin DOMAIN VarsAt(T, n + 1)
      BY <2>7, <3>2
    <3>5. x \in Uses1(T, n + 1)
      BY <2>3, <3>3, <3>4 DEF Uses1
    <3>6. QED
      BY <2>2, <3>4, <3>5
  <2>10. DeclaredNames(A) = DeclaredNames(c.saved)
    BY <1>3, <2>2, SameNames
  <2>11. c.what # "else"
    BY <1>8 DEF Blinding
  <2>12. QED
    BY <1>3, <2>2, <2>5, <2>6, <2>8, <2>9, <2>10, <2>11 DEF c, A, us, VisibleNames
<1>9. QED
  BY <1>7, <1>8

LEMMA OuterIs ==
  ASSUME ShapeInv, checkers # <<>>, Top.what # "program"
  PROVE  /\ Outer \in CheckerSet /\ Top \in CheckerSet /\ Framed(checkers, values)
         /\ Top = Last(checkers) /\ Outer = checkers[Len(checkers) - 1]
BY TopIs, Popped DEF Outer, Top

\* The body on top is over.
LEMMA EndStep ==
  ASSUME ShapeInv, checkers # <<>>, Top.what # "program",
         NEW c \in CheckerSet, Like(c, Outer),
         Sane(values'), SameBelow(Top.saved, values'), Referred(c.uses, values', Height(values')),
         checkers' = Append(Front(Front(checkers)), c)
  PROVE  ShapeInv'
<1> DEFINE rest == Front(Front(checkers))
<1>1. /\ Framed(checkers, values) /\ Top = Last(checkers) /\ Outer = checkers[Len(checkers) - 1]
  BY OuterIs
<1>2. \A d \in CheckerSet : \A w :
        Like(d, checkers[Len(checkers) - 1]) /\ Sane(w) /\ SameBelow(Last(checkers).saved, w) =>
          /\ Framed(Append(rest, d), w) /\ Append(rest, d) # <<>>
          /\ Last(Append(rest, d)) = d
  BY <1>1, Popped
<1> DEFINE ds == Append(rest, c)
<1>3. Framed(ds, values') /\ ds # <<>> /\ Last(ds) = c
  BY <1>1, <1>2
<1>4. checkers' = ds
  OBVIOUS
<1> HIDE DEF ds
<1>5. QED
  BY <1>3, <1>4 DEF ShapeInv, Top

LEMMA EndedStep ==
  ASSUME ShapeInv, checkers # <<>>, Top.what # "program",
         NEW pure \in BOOLEAN, NEW term \in Terms, NEW returned \in ReturnTypes, NEW uses \in SUBSET Names,
         Sane(values'), SameBelow(Top.saved, values'),
         Referred(Outer.uses, values', Height(values')),
         Referred(uses \cap VisibleNames, values', Height(values')),
         checkers' = Ended(pure, term, returned, uses)
  PROVE  ShapeInv'
<1> DEFINE b == Outer
           type == AddReturnType(b.returned, returned)
           odd == b.odd \/ Top.odd \/ LoneReturn
           does == b.does \cup (Top.does \cap (VisibleNames \cup {Output}))
           gives == b.gives \cup Top.gives
           us == b.uses \cup (uses \cap VisibleNames)
           exits == b.exits \cup Exits
           c == [b EXCEPT !.pure = b.pure /\ pure, !.term = term, !.returned = type,
                          !.uses = us, !.odd = odd, !.does = does, !.gives = gives,
                          !.exits = exits]
<1>1. b \in CheckerSet /\ Top \in CheckerSet
  BY OuterIs
<1>2. checkers' = Append(Front(Front(checkers)), c)
  BY Zenon DEF Ended
<1>3. /\ type \in ReturnTypes /\ does \in SUBSET (Names \cup {Output})
      /\ gives \in SUBSET Types /\ us \in SUBSET Names
  BY <1>1, CheckerParts, TypesOf DEF VisibleNames, DeclaredNames
<1>4. exits \in SUBSET Pairs
  BY <1>1, CheckerParts DEF Exits, BranchSet
<1>5. odd \in BOOLEAN
  OBVIOUS
<1> HIDE DEF type, does, gives, us, odd, exits, b
<1>6. c \in CheckerSet /\ Like(c, b) /\ c.uses = us
  <2>1. c \in CheckerSet
    BY <1>1, <1>3, <1>4, <1>5, ZenonT(40) DEF CheckerSet
  <2>2. c.what = b.what /\ c.saved = b.saved /\ c.branch = b.branch /\ c.uses = us
    BY <1>1 DEF CheckerSet
  <2>3. QED
    BY <2>1, <2>2 DEF Like
<1> HIDE DEF c
<1>7. Referred(c.uses, values', Height(values'))
  BY <1>6, ReferredSets DEF us, b
<1>8. QED
  BY <1>2, <1>6, <1>7, EndStep DEF b

LEMMA MergeIs ==
  ASSUME NEW a, Sane(a), NEW b, Sane(b), SameBelow(a, b),
         \A i \in 1 .. Height(a) : DOMAIN VarsAt(b, i) = DOMAIN VarsAt(a, i)
  PROVE  LET T == MergeTimelines(a, b)
             n == Height(a)
         IN /\ Sane(T) /\ SameBelow(a, T)
            /\ DOMAIN ExtAt(T, n) = DOMAIN ExtAt(a, n) \cup DOMAIN ExtAt(b, n)
            /\ \A xs : Referred(xs, a, n) \/ Referred(xs, b, n) => Referred(xs, T, n)
<1> DEFINE T == MergeTimelines(a, b)
           n == Height(a)
<1>1. /\ Sane(T) /\ Height(T) = n /\ T.blind = a.blind
      /\ \A i \in 1 .. n :
           /\ DOMAIN VarsAt(T, i) = DOMAIN VarsAt(a, i)
           /\ \A x \in DOMAIN VarsAt(a, i) :
                VarsAt(T, i)[x] = GeneralizeValue(VarsAt(a, i)[x], VarsAt(b, i)[x])
           /\ DOMAIN ExtAt(T, i) = DOMAIN ExtAt(a, i) \cup DOMAIN ExtAt(b, i)
           /\ \A x \in DOMAIN ExtAt(T, i) :
                ExtAt(T, i)[x] <=> (x \in DOMAIN ExtAt(a, i) /\ ExtAt(a, i)[x])
                                    \/ (x \in DOMAIN ExtAt(b, i) /\ ExtAt(b, i)[x])
  <2>1. Mergeable(a, b)
    BY DEF Mergeable, SameBelow
  <2>2. QED
    BY <2>1, MergeTimelinesIs, Zenon
<1> HIDE DEF T
<1>2. n \in Nat /\ n \in 1 .. n /\ \A i \in 1 .. n - 1 : i \in 1 .. n
  BY SaneParts
<1>3. ASSUME NEW i \in 1 .. n - 1 PROVE ExtAt(T, i) = ExtAt(a, i)
  <2> DEFINE f == ExtAt(T, i)
             g == ExtAt(a, i)
  <2>1. f \in [DOMAIN f -> BOOLEAN] /\ g \in [DOMAIN g -> BOOLEAN] /\ ExtAt(b, i) = g
    BY <1>1, <1>2, SaneParts, MapParts DEF SameBelow
  <2>2. DOMAIN f = DOMAIN g /\ \A x \in DOMAIN f : f[x] <=> g[x]
    BY <1>1, <1>2, <2>1
  <2> HIDE DEF f, g
  <2>3. \A x \in DOMAIN f : f[x] \in BOOLEAN /\ g[x] \in BOOLEAN
    BY <2>1, <2>2
  <2>4. f = g
    BY <2>1, <2>2, <2>3
  <2>5. QED
    BY <2>4 DEF f, g
<1>4. SameBelow(a, T)
  BY <1>1, <1>2, <1>3 DEF SameBelow
<1>5. DOMAIN ExtAt(T, n) = DOMAIN ExtAt(a, n) \cup DOMAIN ExtAt(b, n)
  BY <1>1, <1>2
<1>6. ASSUME NEW xs, Referred(xs, a, n) \/ Referred(xs, b, n) PROVE Referred(xs, T, n)
  <2>1. \A i \in 1 .. n - 1 : DOMAIN VarsAt(T, i) = DOMAIN VarsAt(a, i) /\ DOMAIN VarsAt(T, i) = DOMAIN VarsAt(b, i)
    BY <1>1, <1>2
  <2>2. QED
    BY <1>5, <1>6, <2>1 DEF Referred
<1>7. QED
  BY <1>1, <1>4, <1>5, <1>6 DEF T


LEMMA DataKeeps ==
  ASSUME AInv, reach' \in SUBSET Pairs, effects' = KeptEffects(effects), size' = size
  PROVE  DataInv'
<1>1. KeptEffects(effects) \in [BOOLEAN -> SUBSET (Names \cup {Output})]
  BY DEF AInv, DataInv, KeptEffects
<1>2. QED
  BY <1>1 DEF AInv, DataInv

LEMMA SameSequence ==
  ASSUME NEW S, NEW s \in Seq(S), NEW t \in Seq(S), Len(s) = Len(t),
         \A i \in 1 .. Len(s) : s[i] = t[i]
  PROVE  s = t
OBVIOUS

LEMMA IfElseKeeps == AInv /\ IfElse => AInv'
<1> SUFFICES ASSUME AInv, IfElse PROVE AInv'
  OBVIOUS
<1>1. checkers # <<>> /\ Top.what = "then" /\ ShapeInv
  BY DEF IfElse, AInv
<1> DEFINE e == Checker("else", Top.inFunction, Top.inCycle, Top.cond, BodyTimeline, BodyReach, Branch(Top))
           d == [e EXCEPT !.does = Top.does, !.gives = Top.gives, !.odd = Top.odd]
           g == Top.saved
           A == BodyTimeline
           n == Height(g)
           w == StartScope(g)
           m == Len(checkers)
<1>2. /\ checkers' = SetTop(d) /\ values' = w /\ reach' = Top.reach
      /\ effects' = KeptEffects(effects) /\ size' = size
  BY Zenon DEF IfElse, ElseTimeline
<1>3. A = Around
  BY <1>1 DEF Around
<1>4. /\ Sane(g) /\ Sane(A) /\ SameBelow(g, A)
      /\ \A i \in 1 .. n : DOMAIN VarsAt(A, i) = DOMAIN VarsAt(g, i)
      /\ Referred(Outer.uses, A, n) /\ Referred(Top.uses, A, n) /\ Referred(Outer.uses, g, n)
  BY <1>1, <1>3, AroundIs
<1>5. /\ Outer \in CheckerSet /\ Top \in CheckerSet /\ Framed(checkers, values)
      /\ Top = Last(checkers) /\ Outer = checkers[m - 1] /\ checkers \in Seq(CheckerSet)
      /\ m \in Nat /\ m - 1 \in 1 .. m
  BY <1>1, OuterIs, TopIs, Popped
<1>6. d \in CheckerSet /\ d.what = "else" /\ d.saved = A /\ d.branch = Branch(Top) /\ d.uses = {}
  <2>1. A \in Timelines
    BY <1>4 DEF Sane, Timelines
  <2>2. BodyReach \in SUBSET Pairs
    BY VisibleOnlyIn DEF BodyReach, AInv, DataInv
  <2>3. Branch(Top) \in BranchSet
    BY <1>5, CheckerParts DEF Branch, BranchSet
  <2>4. /\ Top.inFunction \in BOOLEAN /\ Top.inCycle \in BOOLEAN /\ Top.cond \in CondSet /\ Top.odd \in BOOLEAN
        /\ Top.does \in SUBSET (Names \cup {Output}) /\ Top.gives \in SUBSET Types
    BY <1>5, CheckerParts
  <2> HIDE DEF A
  <2>5. e \in CheckerSet /\ e.what = "else" /\ e.saved = A /\ e.branch = Branch(Top) /\ e.uses = {}
    BY <2>1, <2>2, <2>3, <2>4, CheckerIs DEF A
  <2> HIDE DEF e
  <2>6. QED
    BY <2>4, <2>5 DEF CheckerSet
<1> HIDE DEF d, A
<1> DEFINE bs == Front(checkers)
<1>7. bs \in Seq(CheckerSet) /\ Len(bs) = m - 1 /\ \A i \in 1 .. m - 1 : bs[i] = checkers[i]
  BY <1>1, <1>5, FrontIs
<1>8. checkers' = Append(bs, d)
  <2>1. [checkers EXCEPT ![m] = d] = Append(bs, d)
    <3>1. Len(Append(bs, d)) = m /\ Append(bs, d)[m] = d /\ \A i \in 1 .. m - 1 : Append(bs, d)[i] = checkers[i]
      BY <1>5, <1>6, <1>7
    <3>2. \A i \in 1 .. m : i # m => i \in 1 .. m - 1
      BY <1>5
    <3>3. Append(bs, d) \in Seq(CheckerSet)
      BY <1>6, <1>7
    <3>4. [checkers EXCEPT ![m] = d] \in Seq(CheckerSet) /\ Len([checkers EXCEPT ![m] = d]) = m
          /\ \A i \in 1 .. m : [checkers EXCEPT ![m] = d][i] = IF i = m THEN d ELSE checkers[i]
      BY <1>5, <1>6
    <3>5. \A i \in 1 .. m : [checkers EXCEPT ![m] = d][i] = Append(bs, d)[i]
      BY <3>1, <3>2, <3>4
    <3> DEFINE u == [checkers EXCEPT ![m] = d]
               v == Append(bs, d)
    <3>6. u \in Seq(CheckerSet) /\ v \in Seq(CheckerSet) /\ Len(u) = Len(v)
          /\ \A i \in 1 .. Len(u) : u[i] = v[i]
      BY <3>1, <3>3, <3>4, <3>5
    <3> HIDE DEF u, v
    <3>7. u = v
      BY <3>6, SameSequence
    <3>8. QED
      BY <3>7 DEF u, v
  <2>2. QED
    BY <1>2, <2>1 DEF SetTop
<1> HIDE DEF bs
<1>9. Framed(bs, A)
  <2>1. \A i \in 1 .. Len(bs) : Like(bs[i], checkers[i])
    BY <1>7 DEF Like
  <2>2. \A i \in 1 .. Len(bs) - 1 : bs[i].uses = checkers[i].uses
    <3>1. \A i \in 1 .. (m - 1) - 1 : i \in 1 .. m - 1
      BY <1>5
    <3>2. QED
      BY <1>7, <3>1
  <2>3. TimelineAt(checkers, values, Len(bs)) = g
    <3>1. m - 1 # m /\ (m - 1) + 1 = m
      BY <1>5
    <3>2. QED
      BY <1>1, <1>5, <1>7, <3>1, TopIs DEF TimelineAt
  <2>4. QED
    BY <1>4, <1>5, <1>7, <2>1, <2>2, <2>3, GoOn
<1>10. Last(bs) = Outer /\ bs # <<>>
  BY <1>5, <1>7 DEF Last
<1>11. Sane(w) /\ FrameOk(Outer.uses, d, w)
  <2>1. /\ Sane(w) /\ Height(w) = n + 1 /\ w.blind = g.blind
        /\ \A i \in 1 .. n : VarsAt(w, i) = VarsAt(g, i) /\ ExtAt(w, i) = ExtAt(g, i)
    BY <1>4, StartScopeIs
  <2>2. n \in Nat /\ n \in 1 .. n /\ \A i \in 1 .. n - 1 : i \in 1 .. n
    BY <1>4, SaneParts
  <2> HIDE DEF w
  <2>3. Height(A) = n /\ A.blind = g.blind /\ \A i \in 1 .. n - 1 : ExtAt(A, i) = ExtAt(g, i)
    BY <1>4 DEF SameBelow
  <2>4. \A i \in 1 .. n : i # n => i \in 1 .. n - 1
    BY <2>2
  <2>5. Inside(d, w)
    BY <1>4, <1>6, <2>1, <2>3, <2>4 DEF Inside, Blinding
  <2>6. Referred(Outer.uses, w, n)
    BY <1>4, <2>1, <2>2 DEF Referred
  <2>7. Referred(d.branch.uses, A, n)
    <3>1. d.branch.uses \subseteq Top.uses
      BY <1>6 DEF Branch
    <3>2. QED
      BY <1>4, <3>1, ReferredSets
  <2>8. QED
    BY <1>4, <1>6, <2>1, <2>3, <2>5, <2>6, <2>7 DEF FrameOk, ReferredAround, ReferredBefore
<1> HIDE DEF w
<1>12. ShapeInv'
  <2>1. Framed(Append(bs, d), w)
    BY <1>6, <1>9, <1>10, <1>11, Pushed
  <2>2. Last(Append(bs, d)) = d /\ Append(bs, d) # <<>>
    BY <1>7 DEF Last
  <2>3. QED
    BY <1>2, <1>6, <1>8, <2>1, <2>2, NothingReferred DEF ShapeInv, Top, w
<1>13. DataInv'
  <2>1. Top.reach \in SUBSET Pairs
    BY <1>5, CheckerParts
  <2>2. QED
    BY <1>2, <2>1, DataKeeps
<1>14. QED
  BY <1>12, <1>13 DEF AInv

LEMMA IfEndKeeps == AInv /\ IfEnd => AInv'
<1> SUFFICES ASSUME AInv, IfEnd PROVE AInv'
  OBVIOUS
<1>1. checkers # <<>> /\ Top.what = "then" /\ ShapeInv /\ Top.what # "program"
  BY DEF IfEnd, AInv
<1> DEFINE g == Top.saved
           A == BodyTimeline
           n == Height(g)
           V == VisibleNames
<1>2. /\ reach' = BodyReach \cup Top.reach /\ effects' = KeptEffects(effects) /\ size' = size
  BY DEF IfEnd
<1>3. A = Around
  BY <1>1 DEF Around
<1>4. /\ Sane(g) /\ Sane(A) /\ SameBelow(g, A) /\ Height(A) = n
      /\ \A i \in 1 .. n : DOMAIN VarsAt(A, i) = DOMAIN VarsAt(g, i)
      /\ Referred(Outer.uses, A, n) /\ Referred(Top.uses, A, n) /\ Referred(Outer.uses, g, n)
  BY <1>1, <1>3, AroundIs DEF SameBelow
<1>5. Outer \in CheckerSet /\ Top \in CheckerSet
  BY <1>1, OuterIs
<1>6. Top.uses \in SUBSET Names /\ Top.pure \in BOOLEAN /\ Top.term \in Terms /\ Top.returned \in ReturnTypes
      /\ {} \in SUBSET Names /\ NoType \in ReturnTypes /\ "end" \in Terms /\ TRUE \in BOOLEAN
  BY <1>5, CheckerParts, TypesOf DEF Terms
<1>7. Referred(Top.uses \cap V, A, n) /\ Referred({} \cap V, g, n)
  <2>1. Top.uses \cap V \subseteq Top.uses /\ {} \cap V = {}
    OBVIOUS
  <2>2. QED
    BY <1>4, <2>1, ReferredSets, NothingReferred
<1>8. \/ /\ checkers' = Ended(Top.pure, Top.term, Top.returned, Top.uses)
         /\ values' = A
      \/ /\ checkers' = Ended(TRUE, "end", NoType, {})
         /\ values' = g
      \/ /\ checkers' = Ended(Top.pure, "end", NoType, Top.uses)
         /\ values' = MergeTimelines(A, g)
  BY Zenon DEF IfEnd
<1> HIDE DEF A, V
<1>9. ShapeInv'
  <2>1. CASE /\ checkers' = Ended(Top.pure, Top.term, Top.returned, Top.uses)
             /\ values' = A
    BY <1>1, <1>4, <1>6, <1>7, <2>1, EndedStep DEF V
  <2>2. CASE /\ checkers' = Ended(TRUE, "end", NoType, {})
             /\ values' = g
    <3>1. SameBelow(g, g)
      BY DEF SameBelow
    <3>2. QED
      BY <1>1, <1>4, <1>6, <1>7, <2>2, <3>1, EndedStep DEF V
  <2>3. CASE /\ checkers' = Ended(Top.pure, "end", NoType, Top.uses)
             /\ values' = MergeTimelines(A, g)
    <3> DEFINE M == MergeTimelines(A, g)
    <3>1. SameBelow(A, g) /\ \A i \in 1 .. Height(A) : DOMAIN VarsAt(g, i) = DOMAIN VarsAt(A, i)
      BY <1>4 DEF SameBelow
    <3>2. Sane(M) /\ SameBelow(A, M) /\ \A xs : Referred(xs, A, Height(A)) => Referred(xs, M, Height(A))
      BY <1>4, <3>1, MergeIs
    <3> HIDE DEF M
    <3>3. Height(M) = n /\ SameBelow(g, M)
      BY <1>4, <3>2 DEF SameBelow
    <3>4. Referred(Outer.uses, M, n) /\ Referred(Top.uses \cap V, M, n)
      BY <1>4, <1>7, <3>2
    <3>5. QED
      BY <1>1, <1>6, <2>3, <3>2, <3>3, <3>4, EndedStep DEF V, M
  <2>4. QED
    BY <1>8, <2>1, <2>2, <2>3
<1>10. DataInv'
  <2>1. BodyReach \in SUBSET Pairs /\ Top.reach \in SUBSET Pairs
    BY <1>5, CheckerParts, VisibleOnlyIn DEF BodyReach, AInv, DataInv
  <2>2. QED
    BY <1>2, <2>1, DataKeeps
<1>11. QED
  BY <1>9, <1>10 DEF AInv

LEMMA IfElseEndKeeps == AInv /\ IfElseEnd => AInv'
<1> SUFFICES ASSUME AInv, IfElseEnd PROVE AInv'
  OBVIOUS
<1>1. checkers # <<>> /\ Top.what = "else" /\ ShapeInv /\ Top.what # "program"
  BY DEF IfElseEnd, AInv
<1> DEFINE g == Top.saved
           b == Top.branch
           A == BodyTimeline
           n == Height(g)
           V == VisibleNames
<1>2. /\ reach' = BodyReach \cup Top.reach /\ effects' = KeptEffects(effects) /\ size' = size
  BY DEF IfElseEnd
<1>3. A = Around
  BY <1>1 DEF Around
<1>4. /\ Sane(g) /\ Sane(A) /\ SameBelow(g, A) /\ Height(A) = n
      /\ \A i \in 1 .. n : DOMAIN VarsAt(A, i) = DOMAIN VarsAt(g, i)
      /\ Referred(Outer.uses, A, n) /\ Referred(Top.uses, A, n) /\ Referred(Outer.uses, g, n)
      /\ Referred(b.uses, g, n)
  BY <1>1, <1>3, AroundIs DEF SameBelow
<1>5. Outer \in CheckerSet /\ Top \in CheckerSet
  BY <1>1, OuterIs
<1>6. /\ Top.uses \in SUBSET Names /\ Top.pure \in BOOLEAN /\ Top.term \in Terms /\ Top.returned \in ReturnTypes
      /\ b.uses \in SUBSET Names /\ b.pure \in BOOLEAN /\ b.term \in Terms /\ b.returned \in ReturnTypes
      /\ Top.uses \cup b.uses \in SUBSET Names /\ BothPure(b.pure, Top.pure) \in BOOLEAN
      /\ BothTerms(b.term, Top.term) \in Terms /\ AddReturnType(b.returned, Top.returned) \in ReturnTypes
  <2>1. Top.uses \in SUBSET Names /\ Top.pure \in BOOLEAN /\ Top.term \in Terms /\ Top.returned \in ReturnTypes
        /\ b \in BranchSet
    BY <1>5, CheckerParts
  <2>2. b.uses \in SUBSET Names /\ b.pure \in BOOLEAN /\ b.term \in Terms /\ b.returned \in ReturnTypes
    BY <2>1 DEF BranchSet
  <2>3. BothPure(b.pure, Top.pure) \in BOOLEAN /\ BothTerms(b.term, Top.term) \in Terms
    BY <2>1, <2>2 DEF BothPure, BothTerms, Terms
  <2>4. QED
    BY <2>1, <2>2, <2>3, TypesOf
<1>7. Referred(Top.uses \cap V, A, n) /\ Referred(b.uses \cap V, g, n)
  <2>1. Top.uses \cap V \subseteq Top.uses /\ b.uses \cap V \subseteq b.uses
    OBVIOUS
  <2>2. QED
    BY <1>4, <2>1, ReferredSets
<1>8. \/ /\ checkers' = Ended(b.pure, b.term, b.returned, b.uses)
         /\ values' = g
      \/ /\ checkers' = Ended(Top.pure, Top.term, Top.returned, Top.uses)
         /\ values' = A
      \/ /\ checkers' = Ended(BothPure(b.pure, Top.pure), BothTerms(b.term, Top.term),
                              AddReturnType(b.returned, Top.returned), Top.uses \cup b.uses)
         /\ values' = MergeTimelines(g, A)
  BY Zenon DEF IfElseEnd
<1> HIDE DEF A, V, b
<1>9. ShapeInv'
  <2>1. CASE /\ checkers' = Ended(b.pure, b.term, b.returned, b.uses)
             /\ values' = g
    <3>1. SameBelow(g, g)
      BY DEF SameBelow
    <3>2. QED
      BY <1>1, <1>4, <1>6, <1>7, <2>1, <3>1, EndedStep DEF V
  <2>2. CASE /\ checkers' = Ended(Top.pure, Top.term, Top.returned, Top.uses)
             /\ values' = A
    BY <1>1, <1>4, <1>6, <1>7, <2>2, EndedStep DEF V
  <2>3. CASE /\ checkers' = Ended(BothPure(b.pure, Top.pure), BothTerms(b.term, Top.term),
                              AddReturnType(b.returned, Top.returned), Top.uses \cup b.uses)
             /\ values' = MergeTimelines(g, A)
    <3> DEFINE M == MergeTimelines(g, A)
               us == Top.uses \cup b.uses
    <3>2. Sane(M) /\ SameBelow(g, M) /\ Height(M) = n
          /\ \A xs : Referred(xs, g, n) \/ Referred(xs, A, n) => Referred(xs, M, n)
      BY <1>4, MergeIs DEF SameBelow
    <3> HIDE DEF M
    <3>4. Referred(Outer.uses, M, n) /\ Referred(us \cap V, M, n)
      <4>1. Referred(Top.uses \cap V, M, n) /\ Referred(b.uses \cap V, M, n)
        BY <1>7, <3>2
      <4>2. us \cap V = (Top.uses \cap V) \cup (b.uses \cap V)
        OBVIOUS
      <4>3. QED
        BY <1>4, <3>2, <4>1, <4>2, ReferredSets
    <3> HIDE DEF us
    <3>5. us \in SUBSET Names
      BY <1>6 DEF us
    <3>6. QED
      BY <1>1, <1>6, <2>3, <3>2, <3>4, <3>5, EndedStep DEF V, M, us
  <2>4. QED
    BY <1>8, <2>1, <2>2, <2>3
<1>10. DataInv'
  <2>1. BodyReach \in SUBSET Pairs /\ Top.reach \in SUBSET Pairs
    BY <1>5, CheckerParts, VisibleOnlyIn DEF BodyReach, AInv, DataInv
  <2>2. QED
    BY <1>2, <2>1, DataKeeps
<1>11. QED
  BY <1>9, <1>10 DEF AInv

\* The names a cycle or function refers to.
LEMMA ReferencedIs ==
  ASSUME ShapeInv, checkers # <<>>, Blinding(Top)
  PROVE  LET ext == ReferencedExternals(BodyTimeline)
         IN /\ DOMAIN ext \subseteq Names
            /\ NothingForgotten => Top.uses \cap VisibleNames \subseteq DOMAIN ext
<1> DEFINE c == Top
           T == values
           B == BodyTimeline
           n == Height(c.saved)
<1>1. Top.what # "program"
  BY DEF Blinding
<1>2. Framed(checkers, values) /\ Sane(T) /\ Referred(c.uses, T, Height(T))
      /\ checkers[Len(checkers)] = c /\ Len(checkers) \in 1 .. Len(checkers)
  BY TopIs
<1>3. Sane(c.saved) /\ Inside(c, T)
  BY <1>2, SaneAt DEF TimelineAt, FrameOk
<1>4. EndsBlind(c, T, B, Around)
  BY <1>2, <1>3, EndOfBlind DEF BodyTimeline, Around, Blinding
<1> HIDE DEF c, T, B
<1>5. Sane(B) /\ Height(B) = n + 1 /\ DOMAIN ExtAt(B, n + 1) = Uses1(T, n + 1)
  BY <1>4 DEF EndsBlind
<1>6. n \in Nat /\ n + 1 \in 1 .. n + 1
  BY <1>3, SaneParts
<1>7. ReferencedExternals(B) = ExtAt(B, n + 1)
  BY <1>5 DEF ReferencedExternals, Last, ExtAt, Height
<1>8. DOMAIN ExtAt(B, n + 1) \subseteq Names
  BY <1>5, <1>6, SaneParts, MapParts
<1>9. ASSUME NothingForgotten, NEW x \in c.uses, x \in VisibleNames PROVE x \in DOMAIN ExtAt(B, n + 1)
  <2>1. x \in DeclaredNames(c.saved)
    BY <1>1, <1>9, AroundIs DEF c
  <2>2. PICK i \in 1 .. n : x \in DOMAIN VarsAt(c.saved, i)
    BY <1>3, <2>1, DeclaredIs, DeclaredSomewhere
  <2>3. x \in DOMAIN VarsAt(T, i) /\ Height(T) = n + 2
    BY <1>3, <2>2 DEF Inside, c
  <2>4. i \in 1 .. Height(T) - 1 /\ i \in 1 .. Height(T) /\ n + 1 \in 1 .. Height(T) /\ i # n + 1
        /\ (n + 1) + 1 = n + 2
    BY <1>6, <2>2, <2>3
  <2>5. x \in DOMAIN ExtAt(T, n + 2)
    BY <1>2, <1>9, <2>3, <2>4 DEF Referred
  <2>6. x \notin DOMAIN VarsAt(T, n + 1)
    BY <1>2, <2>3, <2>4, LookupIs
  <2>7. QED
    BY <1>5, <2>4, <2>5, <2>6 DEF Uses1
<1>10. QED
  BY <1>7, <1>8, <1>9 DEF B, c

LEMMA CycleEndKeeps == AInv /\ CycleEnd => AInv'
<1> SUFFICES ASSUME AInv, CycleEnd PROVE AInv'
  OBVIOUS
<1>1. checkers # <<>> /\ Top.what = "cycle" /\ ShapeInv /\ Top.what # "program"
  BY DEF CycleEnd, AInv
<1> DEFINE g == Top.saved
           A == Around
           n == Height(g)
           V == VisibleNames
           ext == ReferencedExternals(BodyTimeline)
           xs == {x \in DOMAIN ext : ext[x]}
           W == AssignAllUnknown(A, xs)
           body == VisibleOnly(reach, V)
           again == Repeated(Top.reach, body)
           exits == VisibleOnly(Top.exits, V)
           pure == Top.cond.kind = "always"
           term == IF Top.term = "returned" THEN "returned" ELSE "end"
<1>2. /\ values' = W
      /\ reach' = Fail(Evaluated(again, Top.cond), Top.cond) \cup Then(again, exits)
      /\ checkers' = Ended(pure, term, Top.returned, Top.uses)
      /\ effects' = KeptEffects(effects) /\ size' = size
  BY Zenon DEF CycleEnd, ForgetAssigned
<1>3. /\ Sane(g) /\ Sane(A) /\ SameBelow(g, A) /\ Height(A) = n
      /\ Referred(Outer.uses, A, n) /\ Referred(Top.uses, A, n)
  BY <1>1, AroundIs DEF SameBelow
<1>4. Outer \in CheckerSet /\ Top \in CheckerSet
  BY <1>1, OuterIs
<1>5. xs \subseteq Names
  BY <1>1, ReferencedIs DEF Blinding
<1> HIDE DEF A, V, xs
<1>6. Sane(W) /\ Grows(A, W)
  BY <1>3, <1>5, AssignAllUnknownGrows
<1> HIDE DEF W
<1>7. SameBelow(g, W) /\ Height(W) = n
  BY <1>3, <1>6 DEF Grows, SameBelow
<1>8. Referred(Outer.uses, W, n) /\ Referred(Top.uses \cap V, W, n)
  <2>1. Referred(Outer.uses, W, n) /\ Referred(Top.uses, W, n)
    BY <1>3, <1>6, <1>7, ReferredGrows
  <2>2. Top.uses \cap V \subseteq Top.uses
    OBVIOUS
  <2>3. QED
    BY <2>1, <2>2, ReferredSets
<1>9. ShapeInv'
  <2>1. pure \in BOOLEAN /\ term \in Terms /\ Top.returned \in ReturnTypes /\ Top.uses \in SUBSET Names
    BY <1>4, CheckerParts DEF Terms
  <2> HIDE DEF pure, term
  <2>2. QED
    BY <1>1, <1>2, <1>6, <1>7, <1>8, <2>1, EndedStep DEF V
<1>10. DataInv'
  <2>1. Top.reach \in SUBSET Pairs /\ Top.cond \in CondSet /\ body \in SUBSET Pairs /\ exits \in SUBSET Pairs
    BY <1>4, CheckerParts, VisibleOnlyIn DEF AInv, DataInv
  <2>2. again \in SUBSET Pairs
    BY <2>1, RepeatedPairs
  <2> HIDE DEF again, exits, body
  <2>3. reach' \in SUBSET Pairs
    BY <1>2, <2>1, <2>2, ConditionParts, ThenIn
  <2>4. QED
    BY <1>2, <2>3, DataKeeps
<1>11. QED
  BY <1>9, <1>10 DEF AInv

LEMMA FunctionEndKeeps == AInv /\ FunctionEnd => AInv'
<1> SUFFICES ASSUME AInv, FunctionEnd PROVE AInv'
  OBVIOUS
<1>1. checkers # <<>> /\ Top.what = "function" /\ ShapeInv /\ Top.what # "program"
  BY DEF FunctionEnd, AtFunctionEnd, AInv
<1> DEFINE g == Top.saved
           n == Height(g)
           xs == Captured
           W == AssignAllUnknown(g, xs)
           c == Checked(Outer, TRUE, xs, {})
           more == Top.does \cap (VisibleNames \cup {Output})
<1>2. /\ values' = W /\ reach' = Top.reach
      /\ effects' = [KeptEffects(effects) EXCEPT ![Top.pure] = @ \cup more]
      /\ checkers' = Append(Front(Front(checkers)), c) /\ size' = size
  BY Zenon DEF FunctionEnd
<1>3. Sane(g) /\ Referred(Outer.uses, g, n)
  BY <1>1, AroundIs
<1>4. Outer \in CheckerSet /\ Top \in CheckerSet
  BY <1>1, OuterIs
<1>5. xs \subseteq Names
  BY <1>1, ReferencedIs DEF Blinding, Captured
<1> HIDE DEF xs
<1>6. Sane(W) /\ Grows(g, W) /\ Referred(xs, W, Height(W))
  BY <1>3, <1>5, AssignAllUnknownGrows
<1> HIDE DEF W
<1>7. c \in CheckerSet /\ Like(c, Outer) /\ c.uses \subseteq Outer.uses \cup xs
  BY <1>4, <1>5, CheckedIs
<1> HIDE DEF c
<1>8. Referred(c.uses, W, Height(W))
  <2>1. Referred(Outer.uses, W, Height(W))
    BY <1>3, <1>6, ReferredGrows
  <2>2. Referred(Outer.uses \cup xs, W, Height(W))
    BY <1>6, <2>1, ReferredSets
  <2>3. QED
    BY <1>7, <2>2, ReferredSets
<1>9. ShapeInv'
  BY <1>1, <1>2, <1>6, <1>7, <1>8, EndStep DEF Grows
<1>10. DataInv'
  <2>1. Top.reach \in SUBSET Pairs /\ Top.pure \in BOOLEAN /\ more \in SUBSET (Names \cup {Output})
    BY <1>4, CheckerParts
  <2> HIDE DEF more
  <2>2. KeptEffects(effects) \in [BOOLEAN -> SUBSET (Names \cup {Output})]
    BY DEF AInv, DataInv, KeptEffects
  <2>3. effects' \in [BOOLEAN -> SUBSET (Names \cup {Output})]
    BY <1>2, <2>1, <2>2
  <2>4. QED
    BY <1>2, <2>1, <2>3 DEF AInv, DataInv
<1>11. QED
  BY <1>9, <1>10 DEF AInv

LEMMA ProgramEndKeeps == AInv /\ ProgramEnd => AInv'
<1> SUFFICES ASSUME AInv, ProgramEnd PROVE AInv'
  OBVIOUS
<1>1. /\ checkers # <<>> /\ Top.what = "program" /\ ShapeInv
      /\ checkers' = <<>> /\ values' = BodyTimeline /\ reach' = BodyReach
      /\ effects' = KeptEffects(effects) /\ size' = size
  BY DEF ProgramEnd, AInv
<1>2. Sane(values')
  <2>1. /\ Framed(checkers, values) /\ Sane(values)
        /\ checkers[Len(checkers)] = Top /\ Len(checkers) \in 1 .. Len(checkers)
    BY <1>1, TopIs
  <2>2. Sane(Top.saved) /\ Inside(Top, values)
    BY <2>1, SaneAt DEF TimelineAt, FrameOk
  <2>3. ~Blinding(Top)
    BY <1>1 DEF Blinding
  <2>4. QED
    BY <1>1, <2>1, <2>2, <2>3, EndOfBranch DEF BodyTimeline
<1>3. Framed(<<>>, values')
  <2>1. <<>> \in Seq(CheckerSet) /\ Len(<<>>) = 0
    OBVIOUS
  <2>2. QED
    BY <1>2, <2>1 DEF Framed
<1>4. ShapeInv'
  BY <1>1, <1>3 DEF ShapeInv
<1>5. DataInv'
  BY <1>1, VisibleOnlyIn, DataKeeps DEF BodyReach, AInv, DataInv
<1>6. QED
  BY <1>4, <1>5 DEF AInv

-----------------------------------------------------------------------------
(* The invariant holds.                                                    *)

LEMMA OutermostIs == Sane(Outermost) /\ Height(Outermost) = 1 /\ Outermost \in Timelines
<1>1. NewScope \in Scope /\ <<NewScope>> \in Seq(Scope) /\ <<>> \in Seq(Nat) /\ Len(<<>>) = 0
  BY NewScopeIs
<1>2. /\ Outermost.stack = <<NewScope>> /\ Outermost.blind = <<>> /\ Height(Outermost) = 1
      /\ Outermost \in [stack : Seq(Scope), blind : Seq(Nat)]
  BY <1>1 DEF Outermost, Height
<1>3. NoShadowing(Outermost)
  BY <1>2 DEF NoShadowing
<1>4. QED
  BY <1>1, <1>2, <1>3 DEF Sane, Timelines

LEMMA InitKeeps == Init => AInv
<1> SUFFICES ASSUME Init PROVE AInv
  OBVIOUS
<1> DEFINE v == StartScope(Outermost)
           c == Checker("program", FALSE, FALSE, Always, Outermost, {}, NoBranch)
<1>1. /\ values = v /\ checkers = <<c>> /\ reach = Identity(AnyStore({}))
      /\ effects = [pure \in BOOLEAN |-> {}] /\ size = 0
  BY DEF Init
<1>2. Sane(v) /\ Height(v) = 2 /\ v.blind = Outermost.blind
      /\ VarsAt(v, 1) = VarsAt(Outermost, 1) /\ ExtAt(v, 1) = ExtAt(Outermost, 1)
  BY OutermostIs, StartScopeIs
<1>3. /\ c \in CheckerSet /\ c.what = "program" /\ c.saved = Outermost /\ c.uses = {}
  BY OutermostIs, TypesOf, ConditionParts DEF Checker, CheckerSet, Terms
<1> HIDE DEF v, c
<1>4. Inside(c, v)
  BY <1>2, <1>3, OutermostIs DEF Inside, Blinding
<1>5. FrameOk({}, c, v)
  BY <1>2, <1>3, <1>4, OutermostIs DEF FrameOk, ReferredAround, ReferredBefore, Referred
<1>6. Framed(checkers, values)
  <2>1. checkers \in Seq(CheckerSet) /\ Len(checkers) = 1 /\ checkers[1] = c
    BY <1>1, <1>3
  <2>2. UsesUnder(checkers, 1) = {} /\ TimelineAt(checkers, values, 1) = v
    BY <1>1, <2>1 DEF UsesUnder, TimelineAt
  <2>3. QED
    BY <1>1, <1>2, <1>3, <1>5, <2>1, <2>2 DEF Framed
<1>7. Top.uses = {}
  BY <1>1, <1>3 DEF Top, Last
<1>8. ShapeInv
  BY <1>6, <1>7 DEF ShapeInv, Referred
<1>9. DataInv
  BY <1>1, IdentityIn, AnalyzerAssumption DEF DataInv
<1>10. QED
  BY <1>8, <1>9 DEF AInv

LEMMA StepKeeps == AInv /\ [Next]_vars => AInv'
<1>1. AInv /\ UNCHANGED vars => AInv'
  <2> SUFFICES ASSUME AInv, UNCHANGED vars PROVE AInv'
    OBVIOUS
  <2>1. /\ values' = values /\ checkers' = checkers /\ reach' = reach /\ effects' = effects
        /\ size' = size
    BY DEF vars
  <2>2. QED
    BY <2>1 DEF AInv, ShapeInv, DataInv, Top
<1>2. AInv /\ Terminated => AInv'
  BY <1>1 DEF Terminated
<1>3. QED
  BY <1>1, <1>2, VarKeeps, AssignKeeps, PrintKeeps, CallKeeps, ExitKeeps, ReturnKeeps,
     IfBeginKeeps, IfElseKeeps, IfEndKeeps, IfElseEndKeeps, WhileBeginKeeps, WhileRemovedKeeps,
     ForBeginKeeps, LoopBeginKeeps, CycleEndKeeps, FunctionBeginKeeps, FunctionEndKeeps,
     ProgramEndKeeps
  DEF Next

\* The timeline and all it has been made from are what they should be.
THEOREM ShapeIsKept == Spec => []AInv
<1>1. QED
  BY InitKeeps, StepKeeps, PTL DEF Spec

-----------------------------------------------------------------------------
(* What follows from it.                                                   *)

LEMMA SaneIsTimeline ==
  ASSUME NEW tl, Sane(tl)
  PROVE  IsTimeline(tl)
<1> DEFINE n == Height(tl)
<1>1. /\ n \in Nat /\ DOMAIN tl.stack = 1 .. n /\ tl.blind \in Seq(Nat)
      /\ \A i \in 1 .. n : VarsAt(tl, i) \in Vars /\ ExtAt(tl, i) \in Exts
  BY SaneParts
<1>2. Entry \subseteq KnownSet
  BY EntryParts DEF Entry, KnownSet, OfType, OfValue, Values, TypeOf, Types, NoObject
<1>3. ASSUME NEW i \in 1 .. n
      PROVE  IsFunctionTo(tl.stack[i].vars, KnownSet) /\ IsFunctionTo(tl.stack[i].ext, BOOLEAN)
  <2>1. /\ VarsAt(tl, i) \in [DOMAIN VarsAt(tl, i) -> Entry] /\ DOMAIN VarsAt(tl, i) \subseteq Names
        /\ ExtAt(tl, i) \in [DOMAIN ExtAt(tl, i) -> BOOLEAN] /\ DOMAIN ExtAt(tl, i) \subseteq Names
    BY <1>1, MapParts
  <2>2. \A x \in DOMAIN VarsAt(tl, i) : VarsAt(tl, i)[x] \in KnownSet
    BY <1>2, <2>1
  <2>3. QED
    BY <2>1, <2>2 DEF IsFunctionTo, VarsAt, ExtAt
<1>4. tl.blind \in Seq(1 .. Len(tl.stack) - 1)
  <2>1. \A b \in 1 .. Len(tl.blind) : tl.blind[b] \in 1 .. n - 1
    BY DEF Sane
  <2>2. QED
    BY <1>1, <2>1 DEF Height
<1>5. QED
  BY <1>1, <1>3, <1>4 DEF IsTimeline

LEMMA TypeFollows == AInv => TypeOK
<1> SUFFICES ASSUME AInv PROVE TypeOK
  OBVIOUS
<1>1. Framed(checkers, values) /\ Sane(values) /\ checkers \in Seq(CheckerSet)
  BY DEF AInv, ShapeInv, Framed
<1>2. IsTimeline(values)
  BY <1>1, SaneIsTimeline
<1>3. reach \subseteq Stores \X Stores /\ effects \in [BOOLEAN -> SUBSET (Names \cup {Output})]
      /\ size \in 0 .. MaxSize
  BY DEF AInv, DataInv, Pairs
<1>4. ASSUME NEW i \in DOMAIN checkers
      PROVE  /\ checkers[i].term \in {"end", "exited", "returned"}
             /\ checkers[i].returned \in ReturnTypes /\ checkers[i].odd \in BOOLEAN
             /\ IsTimeline(checkers[i].saved)
             /\ checkers[i].exits \subseteq Stores \X Stores
             /\ checkers[i].uses \subseteq Names
  <2>1. i \in 1 .. Len(checkers) /\ checkers[i] \in CheckerSet
    BY <1>1
  <2>2. Sane(checkers[i].saved)
    BY <1>1, <2>1 DEF Framed, FrameOk
  <2>3. QED
    BY <2>1, <2>2, SaneIsTimeline DEF CheckerSet, Pairs, Terms
<1>5. ASSUME checkers # <<>>, Top.what \in {"then", "else"} PROVE SameShape(BodyTimeline, Top.saved)
  <2>1. Top.what # "program" /\ Around = BodyTimeline /\ ShapeInv
    BY <1>5 DEF Around, AInv
  <2>2. /\ Sane(Top.saved) /\ Sane(BodyTimeline) /\ SameBelow(Top.saved, BodyTimeline)
        /\ \A i \in 1 .. Height(Top.saved) : DOMAIN VarsAt(BodyTimeline, i) = DOMAIN VarsAt(Top.saved, i)
    BY <1>5, <2>1, AroundIs
  <2>3. DOMAIN BodyTimeline.stack = 1 .. Height(BodyTimeline)
    BY <2>2, SaneParts
  <2>4. QED
    BY <2>2, <2>3 DEF SameShape, SameBelow, Height, VarsAt
<1>6. QED
  BY <1>2, <1>3, <1>4, <1>5 DEF TypeOK

\* TypeOK of every state, the part of it that MergeTimelines asserts included:
\* the timelines of the branches of an `if` have the same scopes, blind ones
\* and variables (valueTimeline.cpp, MergeTimelines).
THEOREM AnalyzerTypes == Spec => []TypeOK
<1>1. QED
  BY ShapeIsKept, TypeFollows, PTL

\* A function captures every name from outside that is used in its body, by
\* the bodies and functions inside it too (VisitFuncLiteral): its closure has
\* all the variables the interpreter will look up in it, unless a `while` of
\* the program is false from the start and its condition is kept as a statement
\* (statementChecker.cpp, VisitWhileStatement).
THEOREM ClosuresAreComplete ==
  "call in a false while" \notin Constructs => (Spec => []CapturesWhatIsUsed)
<1> SUFFICES ASSUME NothingForgotten PROVE Spec => []CapturesWhatIsUsed
  BY DEF NothingForgotten
<1>1. AInv => CapturesWhatIsUsed
  <2>1. SUFFICES ASSUME AInv, AtFunctionEnd PROVE Top.uses \cap VisibleNames \subseteq Captured
    BY DEF CapturesWhatIsUsed
  <2>2. ShapeInv /\ checkers # <<>> /\ Blinding(Top)
    BY <2>1 DEF AInv, AtFunctionEnd, Blinding
  <2>3. QED
    BY <2>2, ReferencedIs DEF Captured
<1>2. QED
  BY <1>1, ShapeIsKept, PTL
=============================================================================
