--------------------------- MODULE Soundness_proofs ---------------------------
(***************************************************************************)
(* For all values of the constants, whatever the program: what the         *)
(* analyzer knows of a variable holds on every execution, the code it      *)
(* drops is not reached, the functions it takes for pure do nothing, and a *)
(* function returns what it is said to return; this in programs without    *)
(* the constructs the analyzer misjudges.                                  *)
(*                                                                         *)
(* In the body of a cycle nothing is known of the variables outside, yet   *)
(* after the cycle those it has not assigned are known again, as they were *)
(* before it.  The invariant therefore says of the executions of a body    *)
(* that they leave the variables "kept" by the timeline as they have found *)
(* them: those that are not unknown and were not assigned since.           *)
(***************************************************************************)
EXTENDS Analyzer_proofs

-----------------------------------------------------------------------------
(* A timeline without its levels.                                          *)

\* The scopes up to this one are blind to the top.
Base(T) == IF T.blind = <<>> THEN 0 ELSE Last(T.blind)
Hidden(T, x) == Lookup(T, x) <= Base(T)
Raw(T, x) == VarsAt(T, Lookup(T, x))[x]
ExtTrue(T, l, x) == x \in DOMAIN ExtAt(T, l) /\ ExtAt(T, l)[x]
Touched(T, x) == \E l \in Base(T) + 1 .. Height(T) : ExtTrue(T, l, x)
KeptIn(T, x) ==
  x \in DeclaredNames(T) /\ Hidden(T, x) /\ Raw(T, x) # Unknown /\ ~Touched(T, x)

\* W keeps no more than T, and knows of it the same.
Shrinks(T, W) == \A x \in Names : KeptIn(W, x) => KeptIn(T, x) /\ Raw(W, x) = Raw(T, x)

\* The variables of W are those of T, and of x it knows e(x).
SameVariables(T, W) ==
  /\ DeclaredNames(W) = DeclaredNames(T)
  /\ \A x \in DeclaredNames(T) : (Hidden(W, x) <=> Hidden(T, x))

LEMMA BaseIs ==
  ASSUME NEW T, Sane(T)
  PROVE  /\ Base(T) \in Nat /\ Base(T) < Height(T)
         /\ \A i \in Nat : i >= 1 => (IsBlindTo(T, i) <=> i <= Base(T))
<1>1. T.blind \in Seq(Nat) /\ Height(T) \in Nat /\ Height(T) >= 1
  BY SaneParts
<1>2. CASE T.blind = <<>>
  BY <1>1, <1>2 DEF Base, IsBlindTo
<1>3. CASE T.blind # <<>>
  <2>1. Len(T.blind) \in 1 .. Len(T.blind)
    BY <1>1, <1>3
  <2>2. Last(T.blind) \in 1 .. Height(T) - 1
    BY <2>1 DEF Sane, Last
  <2>3. QED
    BY <1>1, <1>3, <2>2 DEF Base, IsBlindTo
<1>4. QED
  BY <1>2, <1>3

LEMMA RawIs ==
  ASSUME NEW T, Sane(T), NEW x \in DeclaredNames(T)
  PROVE  /\ x \in Names /\ IsDeclared(T, x)
         /\ Lookup(T, x) \in 1 .. Height(T) /\ x \in DOMAIN VarsAt(T, Lookup(T, x))
         /\ Raw(T, x) \in Entry
         /\ Known(T, x) = IF Hidden(T, x) THEN Unknown ELSE Raw(T, x)
<1>1. x \in Names /\ IsDeclared(T, x)
  BY DEF DeclaredNames
<1>2. Lookup(T, x) \in 1 .. Height(T) /\ x \in DOMAIN VarsAt(T, Lookup(T, x))
  BY <1>1, DeclaredSomewhere
<1>3. VarsAt(T, Lookup(T, x)) \in Vars
  BY <1>2, SaneParts
<1>4. Raw(T, x) \in Entry
  BY <1>2, <1>3, MapParts DEF Raw
<1>5. IsBlindTo(T, Lookup(T, x)) <=> Hidden(T, x)
  <2>1. Height(T) \in Nat
    BY SaneParts
  <2>2. Lookup(T, x) \in Nat /\ Lookup(T, x) >= 1
    BY <1>2, <2>1
  <2>3. QED
    BY <2>2, BaseIs DEF Hidden
<1>6. Known(T, x) = IF Hidden(T, x) THEN Unknown ELSE Raw(T, x)
  BY <1>5 DEF Known, Raw, VarsAt
<1>7. QED
  BY <1>1, <1>2, <1>4, <1>6

LEMMA FoundAt ==
  ASSUME NEW T, Sane(T), NEW i \in 1 .. Height(T), NEW x \in DOMAIN VarsAt(T, i)
  PROVE  x \in DeclaredNames(T) /\ Lookup(T, x) = i /\ Raw(T, x) = VarsAt(T, i)[x]
BY LookupIs DEF Raw

LEMMA ShrinksIsPreorder ==
  /\ \A T : Shrinks(T, T)
  /\ \A S, T, W : Shrinks(S, T) /\ Shrinks(T, W) => Shrinks(S, W)
BY DEF Shrinks

\* Timelines of the same shape.
LEMMA ShapeOf ==
  ASSUME NEW a, Sane(a), NEW b, Sane(b), Height(b) = Height(a), b.blind = a.blind,
         \A i \in 1 .. Height(a) : DOMAIN VarsAt(b, i) = DOMAIN VarsAt(a, i)
  PROVE  /\ SameVariables(a, b) /\ Base(b) = Base(a)
         /\ \A x \in DeclaredNames(a) : Lookup(b, x) = Lookup(a, x)
<1>1. Base(b) = Base(a)
  BY DEF Base
<1>2. DeclaredNames(b) = DeclaredNames(a) /\ \A x \in DeclaredNames(a) : Lookup(b, x) = Lookup(a, x)
  BY SameNames, DeclaredIs
<1>3. QED
  BY <1>1, <1>2 DEF SameVariables, Hidden

LEMMA LessTouched ==
  ASSUME NEW a, NEW b, Height(b) = Height(a), Base(b) = Base(a),
         NEW x, \A l \in Base(a) + 1 .. Height(a) : ExtTrue(a, l, x) => ExtTrue(b, l, x)
  PROVE  Touched(a, x) => Touched(b, x)
BY DEF Touched

-----------------------------------------------------------------------------
(* What the operations of the timeline do to that.                         *)

\* Reading again what was assigned would hide the assignment.
ReadAgain(T, x) == ExtTrue(T, Height(T), x)

LEMMA ReferView ==
  ASSUME NEW tl, Sane(tl), NEW x \in Names, NEW b \in BOOLEAN
  PROVE  LET T == Refer(tl, x, b)
         IN /\ SameVariables(tl, T)
            /\ \A y \in DeclaredNames(tl) : Raw(T, y) = Raw(tl, y)
            /\ b \/ ~ReadAgain(tl, x) => Shrinks(tl, T)
            /\ b => ~KeptIn(T, x)
<1> DEFINE T == Refer(tl, x, b)
           n == Height(tl)
<1>1. /\ Sane(T) /\ Height(T) = n /\ T.blind = tl.blind
      /\ \A i \in 1 .. n : VarsAt(T, i) = VarsAt(tl, i)
      /\ \A i \in 1 .. n : i # n => ExtAt(T, i) = ExtAt(tl, i)
      /\ ExtAt(T, n) = IF Lookup(tl, x) = n THEN ExtAt(tl, n) ELSE With(ExtAt(tl, n), x, b)
  BY ReferIs, Zenon
<1>2. n \in Nat /\ n >= 1 /\ Base(tl) \in Nat /\ Base(tl) < n
  BY SaneParts, BaseIs
<1> HIDE DEF T
<1>3. /\ SameVariables(tl, T) /\ Base(T) = Base(tl)
      /\ \A y \in DeclaredNames(tl) : Lookup(T, y) = Lookup(tl, y)
  BY <1>1, ShapeOf
<1>4. \A y \in DeclaredNames(tl) : Raw(T, y) = Raw(tl, y)
  BY <1>1, <1>3, RawIs DEF Raw
<1>5. ASSUME b \/ ~ReadAgain(tl, x), NEW y, NEW l \in Base(tl) + 1 .. n, ExtTrue(tl, l, y)
      PROVE  ExtTrue(T, l, y)
  <2>1. CASE l # n
    BY <1>1, <1>2, <1>5, <2>1 DEF ExtTrue
  <2>2. CASE l = n /\ Lookup(tl, x) = n
    BY <1>1, <1>5, <2>2 DEF ExtTrue
  <2>3. CASE l = n /\ Lookup(tl, x) # n
    <3>1. ExtAt(T, n) = With(ExtAt(tl, n), x, b)
      BY <1>1, <2>3
    <3>2. y = x => b
      BY <1>5, <2>3 DEF ReadAgain
    <3> DEFINE E == ExtAt(tl, n)
               F == With(E, x, b)
    <3>3. /\ DOMAIN F = DOMAIN E \cup {x} /\ F[x] = b
          /\ \A z \in DOMAIN E : z # x => F[z] = E[z]
      BY DEF With
    <3> HIDE DEF F
    <3>4. ExtTrue(tl, n, y) <=> y \in DOMAIN E /\ E[y]
      BY DEF ExtTrue
    <3>5. ExtTrue(T, n, y) <=> y \in DOMAIN F /\ F[y]
      BY <3>1 DEF ExtTrue, F
    <3> HIDE DEF E
    <3>6. QED
      BY <1>5, <2>3, <3>2, <3>3, <3>4, <3>5
  <2>4. QED
    BY <2>1, <2>2, <2>3
<1>6. b \/ ~ReadAgain(tl, x) => Shrinks(tl, T)
  <2> SUFFICES ASSUME b \/ ~ReadAgain(tl, x), NEW y \in Names, KeptIn(T, y)
               PROVE  KeptIn(tl, y) /\ Raw(T, y) = Raw(tl, y)
    BY DEF Shrinks
  <2>1. Touched(tl, y) => Touched(T, y)
    BY <1>1, <1>3, <1>5, LessTouched
  <2>2. QED
    BY <1>3, <1>4, <2>1 DEF KeptIn, SameVariables
<1>7. b => ~KeptIn(T, x)
  <2> SUFFICES ASSUME b, KeptIn(T, x) PROVE FALSE
    OBVIOUS
  <2>1. x \in DeclaredNames(tl) /\ Hidden(tl, x)
    BY <1>3 DEF KeptIn, SameVariables
  <2>2. Lookup(tl, x) # n
    BY <1>2, <2>1 DEF Hidden
  <2>3. ExtTrue(T, n, x)
    <3> DEFINE F == With(ExtAt(tl, n), x, b)
    <3>1. DOMAIN F = DOMAIN ExtAt(tl, n) \cup {x} /\ F[x] = b
      BY DEF With
    <3> HIDE DEF F
    <3>2. ExtAt(T, n) = F
      BY <1>1, <2>2 DEF F
    <3>3. QED
      BY <3>1, <3>2 DEF ExtTrue
  <2>4. n \in Base(T) + 1 .. Height(T)
    BY <1>1, <1>2, <1>3
  <2>5. QED
    BY <2>3, <2>4 DEF KeptIn, Touched
<1>8. QED
  BY <1>3, <1>4, <1>6, <1>7 DEF T

LEMMA SetVarView ==
  ASSUME NEW tl, Sane(tl), NEW x \in DeclaredNames(tl), NEW e \in Entry
  PROVE  LET T == SetVar(tl, x, e)
         IN /\ Sane(T) /\ SameVariables(tl, T) /\ Raw(T, x) = e
            /\ \A y \in DeclaredNames(tl) : y # x => Raw(T, y) = Raw(tl, y)
            /\ \A y \in Names : y # x /\ KeptIn(T, y) => KeptIn(tl, y)
<1> DEFINE T == SetVar(tl, x, e)
           n == Height(tl)
           l == Lookup(tl, x)
<1>1. /\ Sane(T) /\ Height(T) = n /\ T.blind = tl.blind
      /\ l \in 1 .. n /\ x \in DOMAIN VarsAt(tl, l)
      /\ \A i \in 1 .. n : i # l => VarsAt(T, i) = VarsAt(tl, i)
      /\ \A i \in 1 .. n : ExtAt(T, i) = ExtAt(tl, i)
      /\ VarsAt(T, l) = [VarsAt(tl, l) EXCEPT ![x] = e]
      /\ DOMAIN VarsAt(T, l) = DOMAIN VarsAt(tl, l)
  BY RawIs, SetVarIs
<1> HIDE DEF T
<1>2. \A i \in 1 .. n : DOMAIN VarsAt(T, i) = DOMAIN VarsAt(tl, i)
  BY <1>1
<1>3. /\ SameVariables(tl, T) /\ Base(T) = Base(tl)
      /\ \A y \in DeclaredNames(tl) : Lookup(T, y) = Lookup(tl, y)
  BY <1>1, <1>2, ShapeOf
<1>4. Raw(T, x) = e
  BY <1>1, <1>3 DEF Raw
<1>5. ASSUME NEW y \in DeclaredNames(tl), y # x PROVE Raw(T, y) = Raw(tl, y)
  <2>1. Lookup(tl, y) \in 1 .. n /\ y \in DOMAIN VarsAt(tl, Lookup(tl, y)) /\ Lookup(T, y) = Lookup(tl, y)
    BY <1>3, RawIs
  <2>2. CASE Lookup(tl, y) = l
    BY <1>1, <1>5, <2>1, <2>2 DEF Raw
  <2>3. CASE Lookup(tl, y) # l
    BY <1>1, <2>1, <2>3 DEF Raw
  <2>4. QED
    BY <2>2, <2>3
<1>6. ASSUME NEW y \in Names, y # x, KeptIn(T, y) PROVE KeptIn(tl, y)
  <2>0. Base(tl) \in Nat /\ n \in Nat
    BY SaneParts, BaseIs
  <2>1. Touched(tl, y) => Touched(T, y)
    BY <1>1, <1>3, <2>0, LessTouched DEF ExtTrue
  <2>2. QED
    BY <1>3, <1>5, <1>6, <2>1 DEF KeptIn, SameVariables
<1>7. QED
  BY <1>1, <1>3, <1>4, <1>5, <1>6 DEF T

LEMMA AssignView ==
  ASSUME NEW tl, Sane(tl), NEW x \in DeclaredNames(tl), NEW e \in Entry
  PROVE  LET T == Assign(tl, x, e)
         IN /\ Sane(T) /\ SameVariables(tl, T) /\ Raw(T, x) = e
            /\ \A y \in DeclaredNames(tl) : y # x => Raw(T, y) = Raw(tl, y)
            /\ Shrinks(tl, T) /\ ~KeptIn(T, x)
<1> DEFINE S == SetVar(tl, x, e)
           T == Refer(S, x, TRUE)
<1>1. /\ Sane(S) /\ SameVariables(tl, S) /\ Raw(S, x) = e
      /\ \A y \in DeclaredNames(tl) : y # x => Raw(S, y) = Raw(tl, y)
      /\ \A y \in Names : y # x /\ KeptIn(S, y) => KeptIn(tl, y)
  BY SetVarView
<1>2. x \in Names
  BY RawIs
<1> HIDE DEF S
<1>3. /\ SameVariables(S, T)
      /\ \A y \in DeclaredNames(S) : Raw(T, y) = Raw(S, y)
      /\ Shrinks(S, T) /\ ~KeptIn(T, x)
  BY <1>1, <1>2, ReferView
<1>4. Sane(T)
  BY <1>1, <1>2, ReferIs, Zenon
<1>5. Assign(tl, x, e) = T
  BY DEF Assign, S
<1> HIDE DEF T
<1>6. SameVariables(tl, T) /\ DeclaredNames(S) = DeclaredNames(tl)
  BY <1>1, <1>3 DEF SameVariables
<1>7. Raw(T, x) = e /\ \A y \in DeclaredNames(tl) : y # x => Raw(T, y) = Raw(tl, y)
  BY <1>1, <1>3, <1>6
<1>8. Shrinks(tl, T)
  <2> SUFFICES ASSUME NEW y \in Names, KeptIn(T, y)
               PROVE  KeptIn(tl, y) /\ Raw(T, y) = Raw(tl, y)
    BY DEF Shrinks
  <2>1. y # x /\ KeptIn(S, y)
    BY <1>3 DEF Shrinks
  <2>2. KeptIn(tl, y)
    BY <1>1, <2>1
  <2>3. y \in DeclaredNames(tl)
    BY <2>2 DEF KeptIn
  <2>4. QED
    BY <1>7, <2>1, <2>2, <2>3
<1>9. QED
  BY <1>3, <1>4, <1>5, <1>6, <1>7, <1>8

LEMMA DeclareView ==
  ASSUME NEW tl, Sane(tl), NEW x \in Names \ DeclaredNames(tl), NEW o \in Nat \ {NoObject}
  PROVE  LET T == Declare(tl, x, o)
         IN /\ Sane(T) /\ DeclaredNames(T) = DeclaredNames(tl) \cup {x}
            /\ ~Hidden(T, x)
            /\ \A y \in DeclaredNames(tl) : Raw(T, y) = Raw(tl, y) /\ (Hidden(T, y) <=> Hidden(tl, y))
            /\ Shrinks(tl, T)
<1> DEFINE T == Declare(tl, x, o)
           n == Height(tl)
<1>1. /\ Sane(T) /\ Height(T) = n /\ T.blind = tl.blind
      /\ \A i \in 1 .. n : i # n => VarsAt(T, i) = VarsAt(tl, i)
      /\ VarsAt(T, n) = With(VarsAt(tl, n), x, OfValue(None, o))
      /\ DOMAIN VarsAt(T, n) = DOMAIN VarsAt(tl, n) \cup {x}
      /\ \A i \in 1 .. n : ExtAt(T, i) = ExtAt(tl, i)
  BY DeclareIs, DeclaredIs
<1>2. n \in Nat /\ n >= 1 /\ Base(tl) \in Nat /\ Base(tl) < n /\ Base(T) = Base(tl)
  BY <1>1, SaneParts, BaseIs DEF Base
<1> HIDE DEF T
<1>3. x \in DeclaredNames(T) /\ Lookup(T, x) = n
  BY <1>1, <1>2, FoundAt
<1>4. ASSUME NEW y \in DeclaredNames(tl)
      PROVE  y \in DeclaredNames(T) /\ Lookup(T, y) = Lookup(tl, y) /\ Raw(T, y) = Raw(tl, y)
  <2>1. Lookup(tl, y) \in 1 .. n /\ y \in DOMAIN VarsAt(tl, Lookup(tl, y)) /\ y # x
    BY RawIs
  <2>2. VarsAt(T, Lookup(tl, y))[y] = VarsAt(tl, Lookup(tl, y))[y] /\ y \in DOMAIN VarsAt(T, Lookup(tl, y))
    <3> DEFINE F == With(VarsAt(tl, n), x, OfValue(None, o))
    <3>1. \A z \in DOMAIN VarsAt(tl, n) : z # x => F[z] = VarsAt(tl, n)[z]
      BY DEF With
    <3> HIDE DEF F
    <3>2. VarsAt(T, n) = F
      BY <1>1 DEF F
    <3>3. CASE Lookup(tl, y) = n
      BY <1>1, <2>1, <3>1, <3>2, <3>3
    <3>4. CASE Lookup(tl, y) # n
      BY <1>1, <2>1, <3>4
    <3>5. QED
      BY <3>3, <3>4
  <2>3. QED
    BY <1>1, <2>1, <2>2, FoundAt DEF Raw
<1>5. ASSUME NEW y \in DeclaredNames(T), y # x PROVE y \in DeclaredNames(tl)
  <2>1. Lookup(T, y) \in 1 .. n /\ y \in DOMAIN VarsAt(T, Lookup(T, y))
    BY <1>1, RawIs
  <2>2. y \in DOMAIN VarsAt(tl, Lookup(T, y))
    BY <1>1, <1>5, <2>1
  <2>3. QED
    BY <2>1, <2>2, FoundAt
<1>6. DeclaredNames(T) = DeclaredNames(tl) \cup {x}
  BY <1>3, <1>4, <1>5
<1>7. ~Hidden(T, x)
  BY <1>2, <1>3 DEF Hidden
<1>8. \A y \in DeclaredNames(tl) : Hidden(T, y) <=> Hidden(tl, y)
  BY <1>2, <1>4 DEF Hidden
<1>9. Shrinks(tl, T)
  <2> SUFFICES ASSUME NEW y \in Names, KeptIn(T, y)
               PROVE  KeptIn(tl, y) /\ Raw(T, y) = Raw(tl, y)
    BY DEF Shrinks
  <2>1. y \in DeclaredNames(tl)
    BY <1>5, <1>7 DEF KeptIn
  <2>2. Touched(tl, y) => Touched(T, y)
    BY <1>1, <1>2, LessTouched DEF ExtTrue
  <2>3. QED
    BY <1>4, <1>8, <2>1, <2>2 DEF KeptIn
<1>10. QED
  BY <1>1, <1>4, <1>6, <1>7, <1>8, <1>9 DEF T

LEMMA MakeAllUnknownView ==
  ASSUME NEW tl, Sane(tl)
  PROVE  LET T == MakeAllUnknown(tl)
         IN /\ Sane(T) /\ SameVariables(tl, T)
            /\ \A y \in DeclaredNames(tl) : Raw(T, y) = Unknown
            /\ \A y \in Names : ~KeptIn(T, y)
<1> DEFINE T == MakeAllUnknown(tl)
<1>1. /\ Sane(T) /\ Height(T) = Height(tl) /\ T.blind = tl.blind
      /\ \A i \in 1 .. Height(tl) : /\ DOMAIN VarsAt(T, i) = DOMAIN VarsAt(tl, i)
                                    /\ \A x \in DOMAIN VarsAt(tl, i) : VarsAt(T, i)[x] = Unknown
  BY MakeAllUnknownIs
<1> HIDE DEF T
<1>2. SameVariables(tl, T) /\ \A x \in DeclaredNames(tl) : Lookup(T, x) = Lookup(tl, x)
  BY <1>1, ShapeOf
<1>3. \A y \in DeclaredNames(tl) : Raw(T, y) = Unknown
  BY <1>1, <1>2, RawIs DEF Raw
<1>4. \A y \in Names : ~KeptIn(T, y)
  BY <1>2, <1>3 DEF KeptIn, SameVariables
<1>5. QED
  BY <1>1, <1>2, <1>3, <1>4 DEF T

LEMMA AssignAllUnknownView ==
  ASSUME NEW tl, Sane(tl), NEW xs, xs \subseteq Names
  PROVE  LET T == AssignAllUnknown(tl, xs)
         IN /\ Sane(T) /\ SameVariables(tl, T)
            /\ \A y \in DeclaredNames(tl) : Raw(T, y) = IF y \in xs THEN Unknown ELSE Raw(tl, y)
            /\ Shrinks(tl, T)
<1> DEFINE T == AssignAllUnknown(tl, xs)
           n == Height(tl)
           outer == {x \in xs : Lookup(tl, x) # n}
<1>1. /\ Sane(T) /\ Height(T) = n /\ T.blind = tl.blind
      /\ \A i \in 1 .. n : DOMAIN VarsAt(T, i) = DOMAIN VarsAt(tl, i)
      /\ \A i \in 1 .. n : \A x \in DOMAIN VarsAt(tl, i) :
           VarsAt(T, i)[x] = IF x \in xs THEN Unknown ELSE VarsAt(tl, i)[x]
      /\ \A i \in 1 .. n : i # n => ExtAt(T, i) = ExtAt(tl, i)
      /\ DOMAIN ExtAt(T, n) = DOMAIN ExtAt(tl, n) \cup outer
      /\ \A x \in DOMAIN ExtAt(T, n) :
           ExtAt(T, n)[x] <=> x \in outer \/ (x \in DOMAIN ExtAt(tl, n) /\ ExtAt(tl, n)[x])
  BY AssignAllUnknownIs
<1>2. n \in Nat /\ Base(tl) \in Nat
  BY SaneParts, BaseIs
<1> HIDE DEF T, outer
<1>3. /\ SameVariables(tl, T) /\ Base(T) = Base(tl)
      /\ \A x \in DeclaredNames(tl) : Lookup(T, x) = Lookup(tl, x)
  BY <1>1, ShapeOf
<1>4. \A y \in DeclaredNames(tl) : Raw(T, y) = IF y \in xs THEN Unknown ELSE Raw(tl, y)
  BY <1>1, <1>3, RawIs DEF Raw
<1>5. ASSUME NEW y, NEW l \in Base(tl) + 1 .. n, ExtTrue(tl, l, y) PROVE ExtTrue(T, l, y)
  <2>1. CASE l # n
    BY <1>1, <1>2, <1>5, <2>1 DEF ExtTrue
  <2>2. CASE l = n
    BY <1>1, <1>5, <2>2 DEF ExtTrue
  <2>3. QED
    BY <2>1, <2>2
<1>6. Shrinks(tl, T)
  <2> SUFFICES ASSUME NEW y \in Names, KeptIn(T, y)
               PROVE  KeptIn(tl, y) /\ Raw(T, y) = Raw(tl, y)
    BY DEF Shrinks
  <2>1. Touched(tl, y) => Touched(T, y)
    BY <1>1, <1>3, <1>5, LessTouched
  <2>2. y \in DeclaredNames(tl) /\ Hidden(tl, y) /\ Raw(T, y) # Unknown
    BY <1>3 DEF KeptIn, SameVariables
  <2>3. Raw(T, y) = Raw(tl, y)
    BY <1>4, <2>2
  <2>4. QED
    BY <2>1, <2>2, <2>3 DEF KeptIn
<1>7. QED
  BY <1>1, <1>3, <1>4, <1>6 DEF T

LEMMA StartScopeView ==
  ASSUME NEW tl, Sane(tl)
  PROVE  LET T == StartScope(tl)
         IN /\ Sane(T) /\ SameVariables(tl, T)
            /\ \A y \in DeclaredNames(tl) : Raw(T, y) = Raw(tl, y)
            /\ Shrinks(tl, T)
<1> DEFINE T == StartScope(tl)
           n == Height(tl)
<1>1. /\ Sane(T) /\ Height(T) = n + 1 /\ T.blind = tl.blind
      /\ \A i \in 1 .. n : VarsAt(T, i) = VarsAt(tl, i) /\ ExtAt(T, i) = ExtAt(tl, i)
      /\ VarsAt(T, n + 1) = <<>> /\ ExtAt(T, n + 1) = <<>>
  BY StartScopeIs
<1>2. n \in Nat /\ n >= 1 /\ Base(tl) \in Nat /\ Base(tl) < n /\ Base(T) = Base(tl)
  BY <1>1, SaneParts, BaseIs DEF Base
<1> HIDE DEF T
<1>3. ASSUME NEW y \in DeclaredNames(tl)
      PROVE  y \in DeclaredNames(T) /\ Lookup(T, y) = Lookup(tl, y) /\ Raw(T, y) = Raw(tl, y)
  <2>1. Lookup(tl, y) \in 1 .. n /\ y \in DOMAIN VarsAt(tl, Lookup(tl, y))
    BY RawIs
  <2>2. Lookup(tl, y) \in 1 .. Height(T) /\ VarsAt(T, Lookup(tl, y)) = VarsAt(tl, Lookup(tl, y))
    BY <1>1, <1>2, <2>1
  <2>3. QED
    BY <1>1, <2>1, <2>2, FoundAt DEF Raw
<1>4. ASSUME NEW y \in DeclaredNames(T) PROVE y \in DeclaredNames(tl)
  <2>1. Lookup(T, y) \in 1 .. n + 1 /\ y \in DOMAIN VarsAt(T, Lookup(T, y))
    BY <1>1, RawIs
  <2>2. Lookup(T, y) # n + 1
    BY <1>1, <2>1
  <2>3. Lookup(T, y) \in 1 .. n /\ y \in DOMAIN VarsAt(tl, Lookup(T, y))
    BY <1>1, <1>2, <2>1, <2>2
  <2>4. QED
    BY <2>3, FoundAt
<1>5. SameVariables(tl, T)
  BY <1>2, <1>3, <1>4 DEF SameVariables, Hidden
<1>6. Shrinks(tl, T)
  <2> SUFFICES ASSUME NEW y \in Names, KeptIn(T, y)
               PROVE  KeptIn(tl, y) /\ Raw(T, y) = Raw(tl, y)
    BY DEF Shrinks
  <2>1. y \in DeclaredNames(tl)
    BY <1>4 DEF KeptIn
  <2>2. Touched(tl, y) => Touched(T, y)
    <3> SUFFICES ASSUME NEW l \in Base(tl) + 1 .. n, ExtTrue(tl, l, y) PROVE Touched(T, y)
      BY DEF Touched
    <3>1. l \in 1 .. n /\ l \in Base(T) + 1 .. Height(T)
      BY <1>1, <1>2
    <3>2. ExtTrue(T, l, y)
      BY <1>1, <3>1 DEF ExtTrue
    <3>3. QED
      BY <3>1, <3>2 DEF Touched
  <2>3. QED
    BY <1>3, <1>5, <2>1, <2>2 DEF KeptIn, SameVariables
<1>7. QED
  BY <1>1, <1>3, <1>5, <1>6 DEF T

LEMMA StartBlindScopeView ==
  ASSUME NEW tl, Sane(tl)
  PROVE  LET T == StartBlindScope(tl)
         IN /\ Sane(T) /\ DeclaredNames(T) = DeclaredNames(tl)
            /\ \A y \in DeclaredNames(tl) : Raw(T, y) = Raw(tl, y) /\ Hidden(T, y)
<1> DEFINE T == StartBlindScope(tl)
           n == Height(tl)
<1>1. /\ Sane(T) /\ Height(T) = n + 1 /\ T.blind = Append(tl.blind, n)
      /\ \A i \in 1 .. n : VarsAt(T, i) = VarsAt(tl, i)
      /\ VarsAt(T, n + 1) = <<>>
  BY StartBlindScopeIs
<1>2. n \in Nat /\ n >= 1 /\ tl.blind \in Seq(Nat)
  BY SaneParts
<1>3. Base(T) = n
  <2>1. Append(tl.blind, n) # <<>> /\ Last(Append(tl.blind, n)) = n
    <3> DEFINE s == Append(tl.blind, n)
    <3>1. s \in Seq(Nat) /\ Len(s) = Len(tl.blind) + 1 /\ s[Len(tl.blind) + 1] = n /\ Len(tl.blind) \in Nat
      BY <1>2
    <3> HIDE DEF s
    <3>2. s # <<>> /\ Last(s) = n
      BY <3>1 DEF Last
    <3>3. QED
      BY <3>2 DEF s
  <2>2. QED
    BY <1>1, <2>1 DEF Base
<1> HIDE DEF T
<1>4. ASSUME NEW y \in DeclaredNames(tl)
      PROVE  y \in DeclaredNames(T) /\ Lookup(T, y) \in 1 .. n /\ Raw(T, y) = Raw(tl, y)
  <2>1. Lookup(tl, y) \in 1 .. n /\ y \in DOMAIN VarsAt(tl, Lookup(tl, y))
    BY RawIs
  <2>2. Lookup(tl, y) \in 1 .. Height(T) /\ VarsAt(T, Lookup(tl, y)) = VarsAt(tl, Lookup(tl, y))
    BY <1>1, <1>2, <2>1
  <2>3. QED
    BY <1>1, <2>1, <2>2, FoundAt DEF Raw
<1>5. ASSUME NEW y \in DeclaredNames(T) PROVE y \in DeclaredNames(tl)
  <2>1. Lookup(T, y) \in 1 .. n + 1 /\ y \in DOMAIN VarsAt(T, Lookup(T, y))
    BY <1>1, RawIs
  <2>2. Lookup(T, y) # n + 1
    BY <1>1, <2>1
  <2>3. Lookup(T, y) \in 1 .. n /\ y \in DOMAIN VarsAt(tl, Lookup(T, y))
    BY <1>1, <1>2, <2>1, <2>2
  <2>4. QED
    BY <2>3, FoundAt
<1>6. \A y \in DeclaredNames(tl) : Raw(T, y) = Raw(tl, y) /\ Hidden(T, y)
  BY <1>2, <1>3, <1>4 DEF Hidden
<1>7. QED
  BY <1>1, <1>4, <1>5, <1>6 DEF T

\* The parameters of a function and what is outside are unknown to its body.
LEMMA ParametersView ==
  ASSUME NEW tl, Sane(tl), NEW xs, xs \subseteq Names \ DeclaredNames(tl)
  PROVE  LET T == DeclareParameters(StartBlindScope(tl), xs)
         IN Sane(T) /\ \A y \in DeclaredNames(T) :
              /\ Known(T, y) = Unknown
              /\ Raw(T, y) = Unknown \/ (y \in DeclaredNames(tl) /\ Raw(T, y) = Raw(tl, y))
<1> DEFINE B == StartBlindScope(tl)
           T == DeclareParameters(B, xs)
           n == Height(B)
<1>1. /\ Sane(B) /\ DeclaredNames(B) = DeclaredNames(tl)
      /\ \A y \in DeclaredNames(tl) : Hidden(B, y) /\ Raw(B, y) = Raw(tl, y)
  BY StartBlindScopeView
<1>2. VarsAt(B, n) = <<>> /\ \A x \in xs : ~IsDeclared(B, x)
  BY BlindScopeIs, DeclaredIs
<1> HIDE DEF B
<1>3. /\ Sane(T) /\ Height(T) = n /\ T.blind = B.blind
      /\ \A i \in 1 .. n : i # n => VarsAt(T, i) = VarsAt(B, i)
      /\ VarsAt(T, n) = [x \in xs |-> Unknown]
  BY <1>1, <1>2, DeclareParametersIs
<1>4. Base(T) = Base(B)
  BY <1>3 DEF Base
<1> HIDE DEF T
<1>5. ASSUME NEW y \in DeclaredNames(T)
      PROVE  /\ Known(T, y) = Unknown
             /\ Raw(T, y) = Unknown \/ (y \in DeclaredNames(tl) /\ Raw(T, y) = Raw(tl, y))
  <2>1. /\ Lookup(T, y) \in 1 .. n /\ y \in DOMAIN VarsAt(T, Lookup(T, y))
        /\ Known(T, y) = IF Hidden(T, y) THEN Unknown ELSE Raw(T, y)
    BY <1>3, RawIs
  <2>2. CASE Lookup(T, y) = n
    <3>1. Raw(T, y) = Unknown
      BY <1>3, <2>1, <2>2 DEF Raw
    <3>2. QED
      BY <2>1, <3>1
  <2>3. CASE Lookup(T, y) # n
    <3>1. y \in DOMAIN VarsAt(B, Lookup(T, y))
      BY <1>3, <2>1, <2>3
    <3>2. y \in DeclaredNames(B) /\ Lookup(B, y) = Lookup(T, y)
      BY <1>1, <2>1, <3>1, FoundAt
    <3>3. Hidden(T, y)
      BY <1>1, <1>4, <3>2 DEF Hidden
    <3>4. Raw(T, y) = Raw(B, y)
      BY <1>3, <2>1, <2>3, <3>2 DEF Raw
    <3>5. QED
      BY <1>1, <2>1, <3>2, <3>3, <3>4
  <2>4. QED
    BY <2>2, <2>3
<1>6. QED
  BY <1>3, <1>5 DEF B, T

\* The end of a branch of an `if`.
LEMMA BranchEndView ==
  ASSUME NEW c, Sane(c.saved), NEW T, Sane(T), Inside(c, T), ~Blinding(c)
  PROVE  LET A == EndScope(T)
         IN /\ Sane(A) /\ A.blind = c.saved.blind /\ Mergeable(A, c.saved)
            /\ DeclaredNames(A) = DeclaredNames(c.saved)
            /\ \A x \in DeclaredNames(A) :
                 x \in DeclaredNames(T) /\ Raw(A, x) = Raw(T, x) /\ (Hidden(A, x) <=> Hidden(T, x))
            /\ Shrinks(T, A)
<1> DEFINE A == EndScope(T)
           n == Height(c.saved)
<1>1. /\ Sane(A) /\ Height(A) = n /\ A.blind = c.saved.blind
      /\ \A i \in 1 .. n : VarsAt(A, i) = VarsAt(T, i)
      /\ \A i \in 1 .. n : DOMAIN VarsAt(A, i) = DOMAIN VarsAt(c.saved, i)
      /\ \A i \in 1 .. n : i # n => ExtAt(A, i) = ExtAt(T, i)
      /\ DOMAIN ExtAt(A, n) = Uses1(T, n)
      /\ \A x \in DOMAIN ExtAt(A, n) : ExtAt(A, n)[x] <=> Assigned1(T, n, x)
  BY EndOfBranch
<1>2. n \in Nat /\ n >= 1 /\ Height(T) = n + 1 /\ T.blind = c.saved.blind
  BY SaneParts DEF Inside
<1> HIDE DEF A
<1>3. Base(A) = Base(T) /\ Base(T) \in Nat /\ Base(T) < n
  <2>1. Base(A) = Base(T)
    BY <1>1, <1>2 DEF Base
  <2>2. QED
    BY <1>1, <2>1, BaseIs
<1>4. DeclaredNames(A) = DeclaredNames(c.saved)
  BY <1>1, SameNames
<1>5. ASSUME NEW x \in DeclaredNames(A)
      PROVE  /\ x \in DeclaredNames(T) /\ Raw(A, x) = Raw(T, x)
             /\ Lookup(T, x) = Lookup(A, x) /\ (Hidden(A, x) <=> Hidden(T, x))
  <2>1. Lookup(A, x) \in 1 .. n /\ x \in DOMAIN VarsAt(A, Lookup(A, x))
    BY <1>1, RawIs
  <2>2. Lookup(A, x) \in 1 .. Height(T) /\ VarsAt(T, Lookup(A, x)) = VarsAt(A, Lookup(A, x))
    BY <1>1, <1>2, <2>1
  <2>3. x \in DeclaredNames(T) /\ Lookup(T, x) = Lookup(A, x)
    BY <2>1, <2>2, FoundAt
  <2>4. QED
    BY <1>3, <2>2, <2>3 DEF Raw, Hidden
<1>6. Shrinks(T, A)
  <2> SUFFICES ASSUME NEW x \in Names, KeptIn(A, x), Touched(T, x) PROVE FALSE
    BY <1>5 DEF Shrinks, KeptIn
  <2>1. x \in DeclaredNames(A) /\ Hidden(A, x)
    BY DEF KeptIn
  <2>2. PICK l \in Base(T) + 1 .. n + 1 : ExtTrue(T, l, x)
    BY <1>2 DEF Touched
  <2>3. x \notin DOMAIN VarsAt(T, n)
    <3>1. Lookup(T, x) < n
      <4>1. Lookup(T, x) \in 1 .. n /\ Lookup(T, x) = Lookup(A, x)
        BY <1>1, <1>5, <2>1, RawIs
      <4>2. Lookup(A, x) <= Base(A)
        BY <2>1 DEF Hidden
      <4>3. QED
        BY <1>2, <1>3, <4>1, <4>2
    <3>2. n \in 1 .. Height(T)
      BY <1>2
    <3>3. QED
      BY <3>1, <3>2, FoundAt
  <2>4. CASE l \in 1 .. n /\ l # n
    <3>1. ExtTrue(A, l, x) /\ l \in Base(A) + 1 .. Height(A)
      BY <1>1, <1>2, <1>3, <2>2, <2>4 DEF ExtTrue
    <3>2. QED
      BY <3>1 DEF KeptIn, Touched
  <2>5. CASE l = n \/ l = n + 1
    <3>1. Assigned1(T, n, x) /\ x \in Uses1(T, n)
      BY <2>2, <2>3, <2>5 DEF Assigned1, Uses1, ExtTrue
    <3>2. ExtTrue(A, n, x) /\ n \in Base(A) + 1 .. Height(A)
      BY <1>1, <1>2, <1>3, <3>1 DEF ExtTrue
    <3>3. QED
      BY <3>2 DEF KeptIn, Touched
  <2>6. QED
    BY <1>2, <1>3, <2>2, <2>4, <2>5
<1>7. QED
  BY <1>1, <1>4, <1>5, <1>6 DEF A, Mergeable

\* The end of a cycle: what it has assigned is forgotten.
CycleLeaves(c, T, W) ==
  /\ Sane(W) /\ DeclaredNames(W) = DeclaredNames(c.saved)
  /\ \A x \in DeclaredNames(W) : /\ Hidden(W, x) <=> Hidden(c.saved, x)
                                 /\ Raw(W, x) # Unknown => KeptIn(T, x) /\ Raw(W, x) = Raw(T, x)
  /\ \A x \in Names : KeptIn(W, x) /\ Raw(W, x) = Raw(c.saved, x) => KeptIn(c.saved, x)

LEMMA CycleEndView ==
  ASSUME NEW c, Sane(c.saved), NEW T, Sane(T), Inside(c, T), c.what = "cycle"
  PROVE  LET B == EndScope(T)
             ext == ReferencedExternals(B)
         IN CycleLeaves(c, T, AssignAllUnknown(EndScope(B), {x \in DOMAIN ext : ext[x]}))
<1> DEFINE B == EndScope(T)
           A == EndScope(B)
           ext == ReferencedExternals(B)
           xs == {x \in DOMAIN ext : ext[x]}
           W == AssignAllUnknown(A, xs)
           n == Height(c.saved)
<1>1. EndsBlind(c, T, B, A) /\ Blinding(c)
  BY EndOfBlind DEF Blinding
<1>2. n \in Nat /\ n >= 1 /\ Height(T) = n + 2 /\ T.blind = Append(c.saved.blind, n)
      /\ c.saved.blind \in Seq(Nat)
  BY <1>1, SaneParts DEF Inside
<1> HIDE DEF A, B
<1>3. /\ Sane(B) /\ Height(B) = n + 1
      /\ DOMAIN ExtAt(B, n + 1) = Uses1(T, n + 1)
      /\ \A x \in DOMAIN ExtAt(B, n + 1) : ExtAt(B, n + 1)[x] <=> Assigned1(T, n + 1, x)
      /\ Sane(A) /\ Height(A) = n /\ A.blind = c.saved.blind
      /\ \A i \in 1 .. n : VarsAt(A, i) = VarsAt(T, i)
      /\ \A i \in 1 .. n : DOMAIN VarsAt(A, i) = DOMAIN VarsAt(c.saved, i)
      /\ \A i \in 1 .. n : i # n => ExtAt(A, i) = ExtAt(T, i)
      /\ DOMAIN ExtAt(A, n) = DOMAIN ExtAt(T, n) \cup (Uses1(T, n + 1) \ DOMAIN VarsAt(T, n))
      /\ \A x \in DOMAIN ExtAt(A, n) : ExtAt(A, n)[x] <=> Assigned2(T, n, x)
  BY <1>1 DEF EndsBlind
<1>4. ext = ExtAt(B, n + 1)
  <2>1. B.stack \in Seq(Scope) /\ Len(B.stack) = n + 1
    BY <1>3, SaneParts DEF Height
  <2>2. QED
    BY <1>2, <2>1 DEF ReferencedExternals, Last, ExtAt
<1> HIDE DEF ext
<1>5. xs \subseteq Names
  <2>1. ext \in Exts
    <3>1. n + 1 \in 1 .. Height(B)
      BY <1>2, <1>3
    <3>2. QED
      BY <1>3, <1>4, <3>1, SaneParts
  <2>2. QED
    BY <2>1, MapParts
<1> HIDE DEF xs
<1>6. /\ Sane(W) /\ SameVariables(A, W)
      /\ \A y \in DeclaredNames(A) : Raw(W, y) = IF y \in xs THEN Unknown ELSE Raw(A, y)
      /\ Shrinks(A, W)
  BY <1>3, <1>5, AssignAllUnknownView
<1> HIDE DEF W
<1>7. DeclaredNames(A) = DeclaredNames(c.saved)
      /\ \A x \in DeclaredNames(c.saved) : Lookup(A, x) = Lookup(c.saved, x)
  BY <1>3, SameNames, DeclaredIs
<1>8. Base(A) = Base(c.saved) /\ Base(T) = n /\ Base(A) \in Nat /\ Base(A) < n
  <2> DEFINE s == Append(c.saved.blind, n)
  <2>1. s \in Seq(Nat) /\ Len(s) = Len(c.saved.blind) + 1 /\ s[Len(c.saved.blind) + 1] = n /\ Len(c.saved.blind) \in Nat
    BY <1>2
  <2> HIDE DEF s
  <2>2. s # <<>> /\ Last(s) = n
    BY <2>1 DEF Last
  <2>3. Base(A) = Base(c.saved) /\ Base(T) = n
    BY <1>2, <1>3, <2>2 DEF Base, s
  <2>4. QED
    BY <1>3, <2>3, BaseIs
<1>9. ASSUME NEW x \in DeclaredNames(A)
      PROVE  /\ Lookup(A, x) \in 1 .. n
             /\ x \in DeclaredNames(T) /\ Lookup(T, x) = Lookup(A, x) /\ Raw(A, x) = Raw(T, x)
             /\ Hidden(T, x)
  <2>1. Lookup(A, x) \in 1 .. n /\ x \in DOMAIN VarsAt(A, Lookup(A, x))
    BY <1>3, RawIs
  <2>2. Lookup(A, x) \in 1 .. Height(T) /\ VarsAt(T, Lookup(A, x)) = VarsAt(A, Lookup(A, x))
    BY <1>2, <1>3, <2>1
  <2>3. x \in DeclaredNames(T) /\ Lookup(T, x) = Lookup(A, x)
    BY <2>1, <2>2, FoundAt
  <2>4. QED
    BY <1>2, <1>8, <2>1, <2>2, <2>3 DEF Raw, Hidden
<1>10. ASSUME NEW x \in DeclaredNames(A), x \notin xs, Touched(T, x) PROVE FALSE
  <2>1. PICK l \in n + 1 .. n + 2 : ExtTrue(T, l, x)
    BY <1>2, <1>8, <1>10 DEF Touched
  <2>2. x \notin DOMAIN VarsAt(T, n + 1)
    <3>1. n + 1 \in 1 .. Height(T) /\ Lookup(T, x) # n + 1
      BY <1>2, <1>9, <1>10
    <3>2. QED
      BY <3>1, FoundAt
  <2>3. l = n + 1 \/ l = n + 1 + 1
    BY <1>2, <2>1
  <2>4. Assigned1(T, n + 1, x) /\ x \in Uses1(T, n + 1)
    BY <2>1, <2>2, <2>3 DEF Assigned1, Uses1, ExtTrue
  <2>5. QED
    BY <1>3, <1>4, <1>10, <2>4 DEF xs
<1>11. ASSUME NEW x \in DeclaredNames(W)
       PROVE  /\ x \in DeclaredNames(A) /\ (Hidden(W, x) <=> Hidden(c.saved, x))
              /\ Raw(W, x) # Unknown => KeptIn(T, x) /\ Raw(W, x) = Raw(T, x)
  <2>1. x \in DeclaredNames(A) /\ (Hidden(W, x) <=> Hidden(A, x))
    BY <1>6, <1>11 DEF SameVariables
  <2>2. Hidden(A, x) <=> Hidden(c.saved, x)
    BY <1>7, <1>8, <2>1 DEF Hidden
  <2>3. Raw(W, x) # Unknown => KeptIn(T, x) /\ Raw(W, x) = Raw(T, x)
    BY <1>6, <1>9, <1>10, <2>1 DEF KeptIn
  <2>4. QED
    BY <2>1, <2>2, <2>3
<1>12. ASSUME NEW x \in Names, KeptIn(W, x), Raw(W, x) = Raw(c.saved, x) PROVE KeptIn(c.saved, x)
  <2>1. KeptIn(A, x)
    BY <1>6, <1>12 DEF Shrinks
  <2>2. x \in DeclaredNames(c.saved) /\ Hidden(c.saved, x) /\ Raw(c.saved, x) # Unknown
    BY <1>7, <1>8, <1>12, <2>1 DEF KeptIn, Hidden
  <2>3. ASSUME NEW l \in Base(c.saved) + 1 .. n, ExtTrue(c.saved, l, x) PROVE FALSE
    <3>1. l \in 1 .. n /\ l \in Base(A) + 1 .. Height(A)
      BY <1>2, <1>3, <1>8, <2>3
    <3>2. ExtTrue(T, l, x)
      BY <2>3, <3>1 DEF Inside, ExtTrue
    <3>3. ExtTrue(A, l, x)
      <4>1. CASE l # n
        BY <1>3, <3>1, <3>2, <4>1 DEF ExtTrue
      <4>2. CASE l = n
        BY <1>3, <3>2, <4>2 DEF ExtTrue, Assigned2, Assigned1
      <4>3. QED
        BY <4>1, <4>2
    <3>4. QED
      BY <2>1, <3>1, <3>3 DEF KeptIn, Touched
  <2>4. QED
    BY <2>2, <2>3 DEF KeptIn, Touched
<1>13. DeclaredNames(W) = DeclaredNames(c.saved)
  BY <1>6, <1>7 DEF SameVariables
<1>14. CycleLeaves(c, T, W)
  BY <1>6, <1>11, <1>12, <1>13 DEF CycleLeaves
<1>15. QED
  BY <1>14 DEF W, A, B, ext, xs

\* The branches of an `if` merged.
LEMMA MergeView ==
  ASSUME NEW a, Sane(a), NEW b, Sane(b), Mergeable(a, b), a.blind = b.blind
  PROVE  LET M == MergeTimelines(a, b)
         IN /\ Sane(M) /\ DeclaredNames(M) = DeclaredNames(a) /\ DeclaredNames(b) = DeclaredNames(a)
            /\ \A x \in DeclaredNames(a) :
                 /\ Hidden(M, x) <=> Hidden(a, x)
                 /\ Hidden(b, x) <=> Hidden(a, x)
                 /\ Raw(M, x) = GeneralizeValue(Raw(a, x), Raw(b, x))
            /\ \A x \in Names : KeptIn(M, x) => KeptIn(a, x) /\ KeptIn(b, x)
<1> DEFINE M == MergeTimelines(a, b)
           n == Height(a)
<1>1. /\ Sane(M) /\ Height(M) = n /\ M.blind = a.blind
      /\ \A i \in 1 .. n :
           /\ DOMAIN VarsAt(M, i) = DOMAIN VarsAt(a, i)
           /\ \A x \in DOMAIN VarsAt(a, i) :
                VarsAt(M, i)[x] = GeneralizeValue(VarsAt(a, i)[x], VarsAt(b, i)[x])
           /\ DOMAIN ExtAt(M, i) = DOMAIN ExtAt(a, i) \cup DOMAIN ExtAt(b, i)
           /\ \A x \in DOMAIN ExtAt(M, i) :
                ExtAt(M, i)[x] <=> (x \in DOMAIN ExtAt(a, i) /\ ExtAt(a, i)[x])
                                    \/ (x \in DOMAIN ExtAt(b, i) /\ ExtAt(b, i)[x])
  BY MergeTimelinesIs
<1> HIDE DEF M
<1>2. Height(b) = n /\ \A i \in 1 .. n : DOMAIN VarsAt(b, i) = DOMAIN VarsAt(a, i)
  BY DEF Mergeable
<1>3. /\ SameVariables(a, M) /\ Base(M) = Base(a)
      /\ \A x \in DeclaredNames(a) : Lookup(M, x) = Lookup(a, x)
  BY <1>1, ShapeOf
<1>4. /\ SameVariables(a, b) /\ Base(b) = Base(a)
      /\ \A x \in DeclaredNames(a) : Lookup(b, x) = Lookup(a, x)
  BY <1>2, ShapeOf
<1>5. ASSUME NEW x \in DeclaredNames(a) PROVE Raw(M, x) = GeneralizeValue(Raw(a, x), Raw(b, x))
  <2>1. /\ Lookup(a, x) \in 1 .. n /\ x \in DOMAIN VarsAt(a, Lookup(a, x))
        /\ Lookup(M, x) = Lookup(a, x) /\ Lookup(b, x) = Lookup(a, x)
    BY <1>3, <1>4, RawIs
  <2>2. VarsAt(M, Lookup(a, x))[x] = GeneralizeValue(VarsAt(a, Lookup(a, x))[x], VarsAt(b, Lookup(a, x))[x])
    BY <1>1, <2>1
  <2>3. QED
    BY <2>1, <2>2, Zenon DEF Raw
<1>6. ASSUME NEW x \in Names, KeptIn(M, x) PROVE KeptIn(a, x) /\ KeptIn(b, x)
  <2>1. x \in DeclaredNames(a) /\ Hidden(a, x) /\ x \in DeclaredNames(b) /\ Hidden(b, x)
    BY <1>3, <1>4, <1>6 DEF KeptIn, SameVariables
  <2>2. Raw(a, x) # Unknown /\ Raw(b, x) # Unknown
    <3>1. Raw(a, x) \in Entry /\ Raw(b, x) \in Entry
      BY <2>1, RawIs
    <3>2. GeneralizeValue(Raw(a, x), Raw(b, x)) # Unknown
      BY <1>5, <1>6, <2>1 DEF KeptIn
    <3>3. QED
      BY <3>1, <3>2, GeneralizeValueIs
  <2>3. Base(a) \in Nat /\ n \in Nat
    BY BaseIs, SaneParts
  <2>4. \A l \in Base(a) + 1 .. n : ExtTrue(a, l, x) \/ ExtTrue(b, l, x) => ExtTrue(M, l, x)
    <3> SUFFICES ASSUME NEW l \in Base(a) + 1 .. n, ExtTrue(a, l, x) \/ ExtTrue(b, l, x)
                 PROVE  ExtTrue(M, l, x)
      OBVIOUS
    <3>1. l \in 1 .. n
      BY <2>3
    <3>2. x \in DOMAIN ExtAt(M, l)
      BY <1>1, <3>1 DEF ExtTrue
    <3>3. QED
      BY <1>1, <3>1, <3>2 DEF ExtTrue
  <2>5. ~Touched(a, x) /\ ~Touched(b, x)
    BY <1>1, <1>2, <1>3, <1>4, <1>6, <2>4 DEF KeptIn, Touched
  <2>6. QED
    BY <2>1, <2>2, <2>5 DEF KeptIn
<1>7. QED
  BY <1>1, <1>3, <1>4, <1>5, <1>6 DEF M, SameVariables

-----------------------------------------------------------------------------
(* The invariant.                                                          *)

\* What is known of a value holds; h gives what the objects hold.
Fits(e, v) == (IsValue(e) => v = e.value) /\ (e.type # UnknownType => TypeOf(v) = e.type)
Valid(T, R) == \A x \in DeclaredNames(T), p \in R : Fits(Known(T, x), p[2][x])
Holding(h, e) == IsValue(e) => e.value = h[e.object]
Agreed(h, T) == \A x \in DeclaredNames(T) : Holding(h, Raw(T, x))

\* What is kept is as it was at the start of the turn, and as it is around the cycle.
Keeps(R, T) == \A p \in R : \A x \in Names : KeptIn(T, x) => p[2][x] = p[1][x]
AsAround(c, T) ==
  \A x \in Names : KeptIn(T, x) =>
    ~Calls(c.cond) /\ x \in DeclaredNames(c.saved) /\ Raw(T, x) = Raw(c.saved, x)

\* Body j belongs to a turn of the cycle k; it is in the dead branch i.
CycleOf(cs, k, j) == cs[k].what = "cycle" /\ \A i \in k + 1 .. j : ~Blinding(cs[i])
DeadBranch(c) ==
  (c.what = "then" /\ c.cond.kind = "false") \/ (c.what = "else" /\ c.cond.kind = "true")
DeadIn(cs, i, j) == DeadBranch(cs[i]) /\ \A l \in i + 1 .. j : cs[l].what # "function"

\* The timeline T and the executions R that are in body j.
InTurn(cs, k, j, T, R) ==
  AsAround(cs[k], T) /\ Keeps(R, T) /\ \A i \in k .. j : Keeps(cs[i].exits, T)
Place(h, cs, j, T, R) ==
  /\ Valid(T, R) /\ Agreed(h, T)
  /\ \A i \in 1 .. j : DeadIn(cs, i, j) => R = {}
  /\ \A k \in 1 .. j : CycleOf(cs, k, j) => InTurn(cs, k, j, T, R)

\* What has been found of the statement so far, the other branch included.
SoFarPure(c) ==
  IF c.what = "else" /\ c.cond.kind = "true" THEN c.branch.pure
  ELSE IF c.what = "else" /\ c.cond.kind = "unknown" THEN c.pure /\ c.branch.pure
  ELSE c.pure
SoFarReturned(c) ==
  IF c.what = "else" /\ c.cond.kind = "true" THEN c.branch.returned
  ELSE IF c.what = "else" /\ c.cond.kind = "unknown" THEN AddReturnType(c.branch.returned, c.returned)
  ELSE c.returned
Cover(t) == IF t = NoType THEN {} ELSE IF t = UnknownType THEN Types ELSE {t}

\* Of a checker itself,
Own(c) ==
  /\ c.what = "then" /\ c.cond.kind = "true" => c.reach = {}
  /\ c.what = "else" /\ c.cond.kind = "false" => c.reach = {} /\ c.branch.exits = {}
  /\ c.branch.term # "end" => c.reach = {}
  /\ c.what # "else" => c.branch.exits = {}
  /\ c.what \in {"then", "else"} => c.cond.kind \in {"true", "false", "unknown"}
  /\ c.what = "cycle" => c.cond.kind # "false call"
  /\ SoFarPure(c) => c.does = {}
  /\ c.odd \/ c.gives \subseteq Cover(SoFarReturned(c))

\* and where it is.
InDead(c, inner) ==
  /\ c.exits = {}
  /\ inner => c.branch.exits = {}
  /\ inner \/ c.what = "then" => c.does = {} /\ c.gives = {}
Part(cs, i) ==
  /\ Own(cs[i])
  /\ i < Len(cs) => cs[i].term = "end"
  /\ \A l \in 1 .. i : DeadIn(cs, l, i) => InDead(cs[i], l < i)
  /\ \A k \in 1 .. i : CycleOf(cs, k, i) => Keeps(cs[i].branch.exits, cs[i].saved)

ReachAt(cs, R, j) == IF j = Len(cs) THEN R ELSE cs[j + 1].reach
Left(cs, R) == cs # <<>> /\ Last(cs).term # "end" => R = {}
Sound(h, cs, v, R) ==
  /\ \A j \in 0 .. Len(cs) : Place(h, cs, j, TimelineAt(cs, v, j), ReachAt(cs, R, j))
  /\ \A i \in 1 .. Len(cs) : Part(cs, i)
  /\ Left(cs, R)

Holdings == [Nat -> Values]
SoundInv ==
  /\ \E h \in Holdings : Sound(h, checkers, values, reach)
  /\ effects[TRUE] = {}

-----------------------------------------------------------------------------
(* The checkers on the stack.                                              *)

\* Of a checker's frame only these do not change.
Framing(c, d) ==
  c.what = d.what /\ c.cond = d.cond /\ c.saved = d.saved /\ c.reach = d.reach /\ c.branch = d.branch

LEMMA ContextOf ==
  ASSUME NEW cs, NEW ds, NEW n \in Nat, \A i \in 1 .. n : ds[i].what = cs[i].what /\ ds[i].cond = cs[i].cond
  PROVE  \A j \in 0 .. n : \A k \in 1 .. j :
           (CycleOf(ds, k, j) <=> CycleOf(cs, k, j)) /\ (DeadIn(ds, k, j) <=> DeadIn(cs, k, j))
<1> SUFFICES ASSUME NEW j \in 0 .. n, NEW k \in 1 .. j
             PROVE  (CycleOf(ds, k, j) <=> CycleOf(cs, k, j)) /\ (DeadIn(ds, k, j) <=> DeadIn(cs, k, j))
  OBVIOUS
<1>1. k \in 1 .. n /\ \A i \in k + 1 .. j : i \in 1 .. n
  OBVIOUS
<1>2. /\ ds[k].what = cs[k].what /\ ds[k].cond = cs[k].cond
      /\ \A i \in k + 1 .. j : ds[i].what = cs[i].what
  BY <1>1
<1>3. QED
  BY <1>2 DEF CycleOf, DeadIn, DeadBranch, Blinding

LEMMA PlaceOf ==
  ASSUME NEW cs, NEW ds, NEW n \in Nat,
         \A i \in 1 .. n : /\ ds[i].what = cs[i].what /\ ds[i].cond = cs[i].cond
                           /\ ds[i].saved = cs[i].saved /\ ds[i].exits = cs[i].exits,
         NEW h, NEW T, NEW R, NEW j \in 0 .. n, Place(h, cs, j, T, R)
  PROVE  Place(h, ds, j, T, R)
<1>1. \A k \in 1 .. j : (CycleOf(ds, k, j) <=> CycleOf(cs, k, j)) /\ (DeadIn(ds, k, j) <=> DeadIn(cs, k, j))
  BY ContextOf
<1>2. \A k \in 1 .. j : k \in 1 .. n
  OBVIOUS
<1>3. \A k \in 1 .. j : InTurn(cs, k, j, T, R) => InTurn(ds, k, j, T, R)
  <2> SUFFICES ASSUME NEW k \in 1 .. j, InTurn(cs, k, j, T, R) PROVE InTurn(ds, k, j, T, R)
    OBVIOUS
  <2>1. AsAround(ds[k], T)
    BY <1>2 DEF InTurn, AsAround
  <2>2. \A i \in k .. j : i \in 1 .. n
    OBVIOUS
  <2>3. QED
    BY <2>1, <2>2 DEF InTurn
<1>4. QED
  BY <1>1, <1>3 DEF Place

LEMMA PartOf ==
  ASSUME NEW cs, NEW ds, NEW n \in Nat, \A i \in 1 .. n : ds[i] = cs[i],
         n <= Len(cs), Len(cs) \in Nat, NEW i \in 1 .. n, i < Len(ds) => i < Len(cs) \/ cs[i].term = "end",
         Part(cs, i)
  PROVE  Part(ds, i)
<1>1. \A k \in 1 .. i : (CycleOf(ds, k, i) <=> CycleOf(cs, k, i)) /\ (DeadIn(ds, k, i) <=> DeadIn(cs, k, i))
  BY ContextOf
<1>2. ds[i] = cs[i]
  OBVIOUS
<1>3. QED
  BY <1>1, <1>2 DEF Part

\* Checkers that have been left; those on the stack do not change.
LEMMA Rebuilt ==
  ASSUME NEW h, NEW cs \in Seq(CheckerSet), NEW v, NEW R, Sound(h, cs, v, R),
         NEW ds \in Seq(CheckerSet), Len(ds) \in 1 .. Len(cs),
         \A i \in 1 .. Len(ds) - 1 : ds[i] = cs[i],
         Framing(ds[Len(ds)], cs[Len(ds)]),
         NEW w, NEW S, Place(h, ds, Len(ds), w, S), Part(ds, Len(ds)), Left(ds, S)
  PROVE  Sound(h, ds, w, S)
<1> DEFINE n == Len(ds)
<1>1. n \in Nat /\ n >= 1 /\ Len(cs) \in Nat /\ n <= Len(cs)
  OBVIOUS
<1>2. ASSUME NEW j \in 0 .. n PROVE Place(h, ds, j, TimelineAt(ds, w, j), ReachAt(ds, S, j))
  <2>1. CASE j = n
    BY <2>1 DEF TimelineAt, ReachAt
  <2>2. CASE j # n
    <3>1. j \in 0 .. n - 1 /\ j \in 0 .. Len(cs) /\ j # Len(cs) /\ j + 1 \in 1 .. n /\ n - 1 \in Nat
      BY <1>1, <2>2
    <3>2. ds[j + 1].saved = cs[j + 1].saved /\ ds[j + 1].reach = cs[j + 1].reach
      BY <3>1 DEF Framing
    <3>3. TimelineAt(ds, w, j) = TimelineAt(cs, v, j) /\ ReachAt(ds, S, j) = ReachAt(cs, R, j)
      BY <2>2, <3>1, <3>2 DEF TimelineAt, ReachAt
    <3>4. Place(h, cs, j, TimelineAt(cs, v, j), ReachAt(cs, R, j))
      BY <3>1 DEF Sound
    <3>5. QED
      BY <3>1, <3>3, <3>4, PlaceOf
  <2>3. QED
    BY <2>1, <2>2
<1>3. ASSUME NEW i \in 1 .. n PROVE Part(ds, i)
  <2>1. CASE i = n
    BY <2>1
  <2>2. CASE i # n
    <3>1. i \in 1 .. n - 1 /\ i \in 1 .. Len(cs) /\ i < Len(cs) /\ n - 1 \in Nat /\ n - 1 <= Len(cs)
      BY <1>1, <2>2
    <3>2. Part(cs, i)
      BY <3>1 DEF Sound
    <3> HIDE DEF n
    <3>3. QED
      BY <1>1, <3>1, <3>2, PartOf DEF n
  <2>3. QED
    BY <2>1, <2>2
<1>4. QED
  BY <1>2, <1>3 DEF Sound

\* The body of d begins; its checker has kept what is around it.
LEMMA PushedSound ==
  ASSUME NEW h, NEW cs \in Seq(CheckerSet), NEW d \in CheckerSet, Sound(h, cs, d.saved, d.reach),
         cs # <<>>, Last(cs).term = "end",
         NEW w, NEW S, NEW ds, ds = Append(cs, d),
         Place(h, ds, Len(cs) + 1, w, S), Part(ds, Len(cs) + 1), Left(ds, S)
  PROVE  Sound(h, ds, w, S)
<1> DEFINE m == Len(cs)
<1>1. /\ m \in Nat /\ m >= 1 /\ Len(ds) = m + 1 /\ ds[m + 1] = d
      /\ \A i \in 1 .. m : ds[i] = cs[i]
  OBVIOUS
<1>2. cs[m].term = "end"
  BY DEF Last
<1>3. ASSUME NEW j \in 0 .. m + 1 PROVE Place(h, ds, j, TimelineAt(ds, w, j), ReachAt(ds, S, j))
  <2>1. CASE j = m + 1
    BY <1>1, <2>1 DEF TimelineAt, ReachAt
  <2>2. CASE j # m + 1
    <3>1. j \in 0 .. m /\ j # Len(ds)
      BY <1>1, <2>2
    <3>2. TimelineAt(ds, w, j) = TimelineAt(cs, d.saved, j) /\ ReachAt(ds, S, j) = ReachAt(cs, d.reach, j)
      <4>1. CASE j = m
        BY <1>1, <3>1, <4>1 DEF TimelineAt, ReachAt
      <4>2. CASE j # m
        <5>1. j + 1 \in 1 .. m
          BY <1>1, <3>1, <4>2
        <5>2. QED
          BY <1>1, <3>1, <4>2, <5>1 DEF TimelineAt, ReachAt
      <4>3. QED
        BY <4>1, <4>2
    <3>3. Place(h, cs, j, TimelineAt(cs, d.saved, j), ReachAt(cs, d.reach, j))
      BY <3>1 DEF Sound
    <3>4. QED
      BY <1>1, <3>1, <3>2, <3>3, PlaceOf
  <2>3. QED
    BY <2>1, <2>2
<1>4. ASSUME NEW i \in 1 .. m + 1 PROVE Part(ds, i)
  <2>1. CASE i = m + 1
    BY <2>1
  <2>2. CASE i # m + 1
    <3>1. i \in 1 .. m /\ (i < m \/ cs[i].term = "end") /\ m <= m
      BY <1>1, <1>2, <2>2
    <3>2. Part(cs, i)
      BY <3>1 DEF Sound
    <3>3. QED
      BY <1>1, <3>1, <3>2, PartOf
  <2>3. QED
    BY <2>1, <2>2
<1>5. QED
  BY <1>1, <1>3, <1>4 DEF Sound

\* Without the body on top, at its beginning.
LEMMA PoppedSound ==
  ASSUME NEW h, NEW cs \in Seq(CheckerSet), NEW v, NEW R, Sound(h, cs, v, R), cs # <<>>
  PROVE  /\ Sound(h, Front(cs), Last(cs).saved, Last(cs).reach)
         /\ \A i \in 1 .. Len(cs) - 1 : cs[i].term = "end"
<1> DEFINE m == Len(cs)
           ds == Front(cs)
           w == Last(cs).saved
           S == Last(cs).reach
<1>1. /\ ds \in Seq(CheckerSet) /\ Len(ds) = m - 1 /\ m \in Nat /\ m >= 1
      /\ \A i \in 1 .. m - 1 : ds[i] = cs[i]
  BY FrontIs
<1>2. w = cs[m].saved /\ S = cs[m].reach
  BY DEF Last
<1> HIDE DEF ds, w, S
<1>3. \A i \in 1 .. m - 1 : cs[i].term = "end"
  BY <1>1 DEF Sound, Part
<1>4. ASSUME NEW j \in 0 .. m - 1 PROVE Place(h, ds, j, TimelineAt(ds, w, j), ReachAt(ds, S, j))
  <2>1. TimelineAt(ds, w, j) = TimelineAt(cs, v, j) /\ ReachAt(ds, S, j) = ReachAt(cs, R, j)
    <3>1. CASE j = m - 1
      BY <1>1, <1>2, <3>1 DEF TimelineAt, ReachAt
    <3>2. CASE j # m - 1
      <4>1. j + 1 \in 1 .. m - 1 /\ j # m
        BY <1>1, <3>2
      <4>2. QED
        BY <1>1, <3>2, <4>1 DEF TimelineAt, ReachAt
    <3>3. QED
      BY <3>1, <3>2
  <2>2. j \in 0 .. m /\ m - 1 \in Nat
    BY <1>1
  <2>3. Place(h, cs, j, TimelineAt(cs, v, j), ReachAt(cs, R, j))
    BY <2>2 DEF Sound
  <2> HIDE DEF m
  <2>4. QED
    BY <1>1, <2>1, <2>2, <2>3, PlaceOf, ZenonT(60)
<1>5. ASSUME NEW i \in 1 .. m - 1 PROVE Part(ds, i)
  <2>1. i \in 1 .. m /\ i < m /\ m - 1 \in Nat /\ m - 1 <= m
    BY <1>1
  <2>2. Part(cs, i)
    BY <2>1 DEF Sound
  <2> HIDE DEF m
  <2>3. QED
    BY <1>1, <2>1, <2>2, PartOf DEF m
<1>6. Left(ds, S)
  <2> SUFFICES ASSUME ds # <<>> PROVE Last(ds).term = "end"
    BY DEF Left
  <2>1. m - 1 \in 1 .. m - 1
    BY <1>1
  <2>2. QED
    BY <1>1, <1>3, <2>1 DEF Last
<1>7. Sound(h, ds, w, S)
  BY <1>1, <1>4, <1>5, <1>6 DEF Sound
<1>8. QED
  BY <1>3, <1>7 DEF ds, w, S

-----------------------------------------------------------------------------
(* What a checker adds up.                                                 *)

LEMMA CoverIs ==
  /\ \A a, b \in ReturnTypes : Cover(a) \subseteq Cover(AddReturnType(a, b))
                               /\ Cover(b) \subseteq Cover(AddReturnType(a, b))
  /\ \A a \in ReturnTypes : AddReturnType(a, NoType) = a /\ AddReturnType(NoType, a) = a
  /\ \A a, b, t \in ReturnTypes :
       Cover(AddReturnType(a, b)) \subseteq Cover(AddReturnType(a, AddReturnType(b, t)))
<1> SUFFICES ASSUME NEW a \in ReturnTypes, NEW b \in ReturnTypes, NEW t \in ReturnTypes
             PROVE  /\ Cover(a) \subseteq Cover(AddReturnType(a, b))
                    /\ Cover(b) \subseteq Cover(AddReturnType(a, b))
                    /\ AddReturnType(a, NoType) = a /\ AddReturnType(NoType, a) = a
                    /\ Cover(AddReturnType(a, b)) \subseteq Cover(AddReturnType(a, AddReturnType(b, t)))
  OBVIOUS
<1>1. /\ Cover(a) \subseteq Cover(AddReturnType(a, b))
      /\ Cover(b) \subseteq Cover(AddReturnType(a, b))
  BY DEF ReturnTypes, Types, NoType, UnknownType, AddReturnType, Generalize, Cover
<1>2. AddReturnType(a, NoType) = a /\ AddReturnType(NoType, a) = a
  BY DEF AddReturnType
<1>3. Cover(AddReturnType(a, b)) \subseteq Cover(AddReturnType(a, AddReturnType(b, t)))
  BY DEF ReturnTypes, Types, NoType, UnknownType, AddReturnType, Generalize, Cover
<1>4. QED
  BY <1>1, <1>2, <1>3

\* c is d with a statement more.
Adds(c, d) ==
  /\ c.pure => d.pure /\ c.does = d.does
  /\ c.odd \/ (~d.odd /\ \E t \in ReturnTypes : /\ c.returned = AddReturnType(d.returned, t)
                                                /\ c.gives \subseteq d.gives \cup Cover(t))
Same(c, d) == c.does = d.does /\ c.gives = d.gives

LEMMA OwnAdds ==
  ASSUME NEW c \in CheckerSet, NEW d \in CheckerSet, Framing(c, d), Own(d), Adds(c, d),
         DeadBranch(d) => Same(c, d)
  PROVE  Own(c)
<1>1. c.what = d.what /\ c.cond = d.cond /\ c.reach = d.reach /\ c.branch = d.branch
  BY DEF Framing
<1>2. /\ d.branch.returned \in ReturnTypes /\ d.returned \in ReturnTypes
  BY CheckerParts DEF BranchSet
<1>3. SoFarPure(c) => c.does = {}
  <2>1. CASE c.what = "else" /\ c.cond.kind = "true"
    BY <1>1, <2>1 DEF SoFarPure, Own, DeadBranch, Same
  <2>2. CASE ~(c.what = "else" /\ c.cond.kind = "true")
    BY <1>1, <2>2 DEF SoFarPure, Own, Adds
  <2>3. QED
    BY <2>1, <2>2
<1>4. c.odd \/ c.gives \subseteq Cover(SoFarReturned(c))
  <2> SUFFICES ASSUME ~c.odd PROVE c.gives \subseteq Cover(SoFarReturned(c))
    OBVIOUS
  <2>1. PICK t \in ReturnTypes : c.returned = AddReturnType(d.returned, t) /\ c.gives \subseteq d.gives \cup Cover(t)
    BY DEF Adds
  <2>2. d.gives \subseteq Cover(SoFarReturned(d))
    BY DEF Adds, Own
  <2>3. CASE c.what = "else" /\ c.cond.kind = "true"
    BY <1>1, <2>2, <2>3 DEF SoFarReturned, DeadBranch, Same
  <2>4. CASE c.what = "else" /\ c.cond.kind = "unknown"
    <3> DEFINE b == d.branch.returned
    <3>1. SoFarReturned(d) = AddReturnType(b, d.returned) /\ SoFarReturned(c) = AddReturnType(b, AddReturnType(d.returned, t))
      BY <1>1, <2>1, <2>4 DEF SoFarReturned
    <3>2. Cover(AddReturnType(b, d.returned)) \subseteq Cover(AddReturnType(b, AddReturnType(d.returned, t)))
      BY <1>2, CoverIs
    <3>3. Cover(t) \subseteq Cover(AddReturnType(d.returned, t)) /\ AddReturnType(d.returned, t) \in ReturnTypes
      BY <1>2, CoverIs, TypesOf
    <3>4. Cover(AddReturnType(d.returned, t)) \subseteq Cover(AddReturnType(b, AddReturnType(d.returned, t)))
      BY <1>2, <3>3, CoverIs
    <3>5. QED
      BY <2>1, <2>2, <3>1, <3>2, <3>3, <3>4
  <2>5. CASE ~(c.what = "else" /\ c.cond.kind \in {"true", "unknown"})
    <3>1. SoFarReturned(d) = d.returned /\ SoFarReturned(c) = AddReturnType(d.returned, t)
      BY <1>1, <2>1, <2>5 DEF SoFarReturned
    <3>2. Cover(d.returned) \subseteq Cover(AddReturnType(d.returned, t)) /\ Cover(t) \subseteq Cover(AddReturnType(d.returned, t))
      BY <1>2, CoverIs
    <3>3. QED
      BY <2>1, <2>2, <3>1, <3>2
  <2>6. QED
    BY <2>3, <2>4, <2>5
<1>5. QED
  BY <1>1, <1>3, <1>4 DEF Own

-----------------------------------------------------------------------------
(* A statement without a body.                                             *)

\* The executions S come from R, and leave what T keeps.
Comes(S, R, T) ==
  \A q \in S : \E p \in R : q[1] = p[1] /\ \A x \in Names : KeptIn(T, x) => q[2][x] = p[2][x]
NoCycle(cs) == \A i \in 1 .. Len(cs) : cs[i].what # "cycle"
GoesOn(v, R, w, S) == Shrinks(v, w) /\ Comes(S, R, w)
\* c has gone on from d with a statement reached by R.
Goes(c, d, R) ==
  /\ Framing(c, d) /\ Adds(c, d)
  /\ c.exits \subseteq d.exits \cup R
  /\ R = {} => Same(c, d)

LEMMA KeepsMore ==
  ASSUME NEW R, NEW v, Keeps(R, v), NEW w, Shrinks(v, w)
  PROVE  Keeps(R, w) /\ \A S : Comes(S, R, w) => Keeps(S, w)
BY DEF Keeps, Shrinks, Comes

LEMMA AsAroundStill ==
  ASSUME NEW c, NEW v, AsAround(c, v), NEW w, Shrinks(v, w)
  PROVE  AsAround(c, w)
BY DEF AsAround, Shrinks

LEMMA TurnGoesOn ==
  ASSUME NEW cs, NEW ds, NEW m \in Nat, NEW k \in 1 .. m, NEW v, NEW R, InTurn(cs, k, m, v, R),
         NEW w, NEW S, GoesOn(v, R, w, S),
         ds[k].cond = cs[k].cond, ds[k].saved = cs[k].saved,
         \A i \in k .. m : ds[i].exits \subseteq cs[i].exits \cup R
  PROVE  InTurn(ds, k, m, w, S)
<1>1. AsAround(ds[k], w)
  <2>1. AsAround(cs[k], w)
    BY AsAroundStill DEF InTurn, GoesOn
  <2>2. QED
    BY <2>1 DEF AsAround
<1>2. Keeps(S, w) /\ Keeps(R, w)
  BY KeepsMore DEF InTurn, GoesOn
<1>3. ASSUME NEW i \in k .. m PROVE Keeps(ds[i].exits, w)
  <2>1. Keeps(cs[i].exits, w)
    BY KeepsMore DEF InTurn, GoesOn
  <2>2. QED
    BY <1>2, <2>1 DEF Keeps
<1>4. QED
  BY <1>1, <1>2, <1>3 DEF InTurn

Follows(c, cs, R) ==
  /\ Framing(c, Last(cs)) /\ Adds(c, Last(cs))
  /\ c.exits \subseteq Last(cs).exits \cup R
  /\ \A i \in 1 .. Len(cs) : DeadIn(cs, i, Len(cs)) => Same(c, Last(cs))

\* The checker on top goes on with the timeline w and the executions S.
LEMMA OntoTop ==
  ASSUME NEW cs \in Seq(CheckerSet), cs # <<>>, NEW c \in CheckerSet
  PROVE  LET ds == [cs EXCEPT ![Len(cs)] = c]
         IN /\ ds \in Seq(CheckerSet) /\ Len(ds) = Len(cs) /\ ds[Len(cs)] = c
            /\ \A i \in 1 .. Len(cs) - 1 : ds[i] = cs[i]
  OBVIOUS

LEMMA TopFollows ==
  ASSUME NEW h, NEW cs \in Seq(CheckerSet), cs # <<>>, NEW v, NEW R, Sound(h, cs, v, R),
         NEW c \in CheckerSet, Follows(c, cs, R),
         NEW w, NEW S, Valid(w, S), Agreed(h, w), R = {} => S = {},
         NoCycle(cs) \/ GoesOn(v, R, w, S),
         c.term # "end" => S = {},
         NEW ds \in Seq(CheckerSet), Len(ds) = Len(cs), ds[Len(cs)] = c,
         \A i \in 1 .. Len(cs) - 1 : ds[i] = cs[i]
  PROVE  Sound(h, ds, w, S)
<1> DEFINE m == Len(cs)
<1>1. /\ m \in Nat /\ m >= 1 /\ Len(ds) = m /\ ds \in Seq(CheckerSet) /\ ds[m] = c
      /\ m \in 1 .. m /\ \A i \in 1 .. m - 1 : ds[i] = cs[i]
  OBVIOUS
<1>2. Last(cs) = cs[m] /\ cs[m] \in CheckerSet /\ ds # <<>> /\ Last(ds) = c
  BY <1>1 DEF Last
<1>3. /\ Framing(c, cs[m]) /\ Adds(c, cs[m]) /\ c.exits \subseteq cs[m].exits \cup R
      /\ \A i \in 1 .. m : DeadIn(cs, i, m) => Same(c, cs[m])
  BY <1>2 DEF Follows
<1>4. Place(h, cs, m, v, R)
  BY <1>1 DEF Sound, TimelineAt, ReachAt
<1>5. Part(cs, m)
  BY <1>1 DEF Sound
<1>6. \A i \in 1 .. m : /\ ds[i].what = cs[i].what /\ ds[i].cond = cs[i].cond
                        /\ ds[i].saved = cs[i].saved /\ ds[i].exits \subseteq cs[i].exits \cup R
  <2> SUFFICES ASSUME NEW i \in 1 .. m
               PROVE  /\ ds[i].what = cs[i].what /\ ds[i].cond = cs[i].cond
                      /\ ds[i].saved = cs[i].saved /\ ds[i].exits \subseteq cs[i].exits \cup R
    OBVIOUS
  <2>1. CASE i = m
    BY <1>1, <1>3, <2>1 DEF Framing
  <2>2. CASE i # m
    <3>1. i \in 1 .. m - 1
      BY <1>1, <2>2
    <3>2. QED
      BY <1>1, <3>1
  <2>3. QED
    BY <2>1, <2>2
<1> HIDE DEF m
<1>7. \A k \in 1 .. m : (CycleOf(ds, k, m) <=> CycleOf(cs, k, m)) /\ (DeadIn(ds, k, m) <=> DeadIn(cs, k, m))
  <2>1. \A i \in 1 .. m : ds[i].what = cs[i].what /\ ds[i].cond = cs[i].cond
    BY <1>6
  <2>2. m \in Nat /\ m \in 0 .. m
    BY <1>1
  <2>3. QED
    BY <2>1, <2>2, ContextOf
<1>8. Place(h, ds, m, w, S)
  <2>1. ASSUME NEW i \in 1 .. m, DeadIn(ds, i, m) PROVE S = {}
    BY <1>4, <1>7, <2>1 DEF Place
  <2>2. ASSUME NEW k \in 1 .. m, CycleOf(ds, k, m) PROVE InTurn(ds, k, m, w, S)
    <3>1. InTurn(cs, k, m, v, R) /\ cs[k].what = "cycle"
      BY <1>4, <1>7, <2>2 DEF Place, CycleOf
    <3>2. GoesOn(v, R, w, S)
      BY <3>1 DEF NoCycle, m
    <3>3. \A i \in k .. m : i \in 1 .. m
      BY <1>1
    <3>4. \A i \in k .. m : ds[i].exits \subseteq cs[i].exits \cup R
      BY <1>6, <3>3
    <3>5. QED
      BY <1>1, <1>6, <3>1, <3>2, <3>4, TurnGoesOn
  <2>3. QED
    BY <2>1, <2>2 DEF Place
<1>9. Part(ds, m)
  <2>1. DeadBranch(cs[m]) => Same(c, cs[m])
    <3>1. DeadBranch(cs[m]) => DeadIn(cs, m, m)
      BY <1>1 DEF DeadIn
    <3>2. QED
      BY <1>1, <1>3, <3>1
  <2>2. Own(c)
    BY <1>2, <1>3, <1>5, <2>1, OwnAdds DEF Part
  <2>3. ASSUME NEW l \in 1 .. m, DeadIn(ds, l, m) PROVE InDead(c, l < m)
    <3>1. InDead(cs[m], l < m) /\ Same(c, cs[m])
      BY <1>3, <1>5, <1>7, <2>3 DEF Part
    <3>2. c.exits \subseteq cs[m].exits \cup R /\ R = {} /\ c.branch = cs[m].branch /\ c.what = cs[m].what
      BY <1>3, <1>4, <1>7, <2>3 DEF Place, Framing
    <3>3. QED
      BY <3>1, <3>2 DEF InDead, Same
  <2>4. ASSUME NEW k \in 1 .. m, CycleOf(ds, k, m) PROVE Keeps(c.branch.exits, c.saved)
    BY <1>3, <1>5, <1>7, <2>4 DEF Part, Framing
  <2>5. QED
    BY <1>1, <2>2, <2>3, <2>4 DEF Part
<1>10. Left(ds, S)
  BY <1>2 DEF Left
<1>11. Sound(h, ds, w, S)
  BY <1>1, <1>3, <1>8, <1>9, <1>10, Rebuilt
<1>12. QED
  BY <1>11

LEMMA TopSound ==
  ASSUME NEW h, NEW cs \in Seq(CheckerSet), cs # <<>>, NEW v, NEW R, Sound(h, cs, v, R),
         NEW c \in CheckerSet, Goes(c, Last(cs), R),
         NEW w, NEW S, Valid(w, S), Agreed(h, w), R = {} => S = {},
         NoCycle(cs) \/ GoesOn(v, R, w, S),
         c.term # "end" => S = {},
         NEW ds \in Seq(CheckerSet), Len(ds) = Len(cs), ds[Len(cs)] = c,
         \A i \in 1 .. Len(cs) - 1 : ds[i] = cs[i]
  PROVE  Sound(h, ds, w, S)
<1>1. Len(cs) \in 0 .. Len(cs)
  OBVIOUS
<1>2. Place(h, cs, Len(cs), v, R)
  BY <1>1 DEF Sound, TimelineAt, ReachAt
<1>3. Follows(c, cs, R)
  BY <1>2 DEF Place, Goes, Follows
<1>4. QED
  BY <1>3, TopFollows

\* The constructs the analyzer misjudges in what the timeline says.
Judged ==
  /\ "read what a cycle assigned" \notin Constructs
  /\ "return in a cycle" \notin Constructs
  /\ "call in a false while" \notin Constructs
  /\ "effect in a loop" \notin Constructs

LEMMA TopStepSound ==
  ASSUME AInv, checkers # <<>>, NEW h \in Holdings, Sound(h, checkers, values, reach), effects[TRUE] = {},
         NEW c \in CheckerSet, Goes(c, Top, reach), c.term # "end" => reach' = {},
         Valid(values', reach'), Agreed(h, values'), reach = {} => reach' = {},
         NoCycle(checkers) \/ GoesOn(values, reach, values', reach'),
         checkers' = SetTop(c), effects' = effects
  PROVE  SoundInv'
<1>1. checkers \in Seq(CheckerSet)
  BY TopIs DEF AInv
<1> DEFINE ds == SetTop(c)
<1>2. /\ ds \in Seq(CheckerSet) /\ Len(ds) = Len(checkers) /\ ds[Len(checkers)] = c
      /\ \A i \in 1 .. Len(checkers) - 1 : ds[i] = checkers[i]
  BY <1>1, OntoTop DEF SetTop
<1> HIDE DEF ds
<1>3. Goes(c, Last(checkers), reach)
  BY DEF Top
<1>4. Sound(h, ds, values', reach')
  BY <1>1, <1>2, <1>3, TopSound
<1>5. checkers' = ds
  BY DEF ds
<1>6. QED
  BY <1>4, <1>5 DEF SoundInv

LEMMA CheckedGoes ==
  ASSUME NEW c \in CheckerSet, NEW pure \in BOOLEAN, NEW xs \in SUBSET Names,
         NEW does \in SUBSET (Names \cup {Output}), pure => does = {}
  PROVE  LET d == Checked(c, pure, xs, does)
         IN d \in CheckerSet /\ Goes(d, c, reach) /\ d.term = c.term
<1> DEFINE d == Checked(c, pure, xs, does)
<1>1. d \in CheckerSet
  BY CheckedIs
<1>2. /\ d.what = c.what /\ d.cond = c.cond /\ d.saved = c.saved /\ d.reach = c.reach /\ d.branch = c.branch
      /\ d.exits = c.exits /\ d.term = c.term /\ d.returned = c.returned /\ d.odd = c.odd /\ d.gives = c.gives
      /\ d.pure = (c.pure /\ pure)
      /\ d.does = c.does \cup (IF c.inFunction /\ reach # {} THEN does ELSE {})
  BY DEF Checked, CheckerSet
<1> HIDE DEF d
<1>3. c.returned = AddReturnType(c.returned, NoType) /\ NoType \in ReturnTypes
  BY CheckerParts, CoverIs, TypesOf
<1>4. c.pure \in BOOLEAN
  BY CheckerParts
<1>5. d.pure => c.pure /\ d.does = c.does
  BY <1>2, <1>4
<1>6. Adds(d, c)
  BY <1>2, <1>3, <1>5 DEF Adds
<1>7. reach = {} => Same(d, c)
  BY <1>2 DEF Same
<1>8. QED
  BY <1>1, <1>2, <1>6, <1>7 DEF Goes, Framing, d

LEMMA RawObject ==
  ASSUME NEW T, Sane(T), NEW x \in DeclaredNames(T)
  PROVE  Raw(T, x).object \in ObjectsOf(T)
<1>1. /\ Lookup(T, x) \in DOMAIN T.stack
      /\ x \in DOMAIN T.stack[Lookup(T, x)].vars
  BY RawIs, SaneParts DEF VarsAt
<1>2. QED
  BY <1>1 DEF ObjectsOf, Raw, VarsAt

LEMMA NewObject ==
  ASSUME Framed(checkers, values), NEW h \in Holdings, Sound(h, checkers, values, reach), NEW v \in Values
  PROVE  LET g == [h EXCEPT ![Fresh] = v]
         IN g \in Holdings /\ g[Fresh] = v /\ Sound(g, checkers, values, reach)
<1> DEFINE g == [h EXCEPT ![Fresh] = v]
<1>1. Fresh \in Nat /\ Fresh \notin Objects
  BY FreshIs
<1>2. g \in Holdings /\ g[Fresh] = v /\ \A o \in Nat : o # Fresh => g[o] = h[o]
  BY <1>1 DEF Holdings
<1> HIDE DEF g
<1>3. Len(checkers) \in Nat /\ DOMAIN checkers = 1 .. Len(checkers)
  BY DEF Framed
<1>4. ASSUME NEW j \in 0 .. Len(checkers)
      PROVE  Agreed(h, TimelineAt(checkers, values, j)) => Agreed(g, TimelineAt(checkers, values, j))
  <2> DEFINE T == TimelineAt(checkers, values, j)
  <2>1. Sane(T) /\ ObjectsOf(T) \subseteq Objects
    <3>1. CASE j = Len(checkers)
      BY <3>1 DEF TimelineAt, Objects, Framed
    <3>2. CASE j # Len(checkers)
      <4>1. j + 1 \in 1 .. Len(checkers) /\ j + 1 \in DOMAIN checkers
        <5> DEFINE m == Len(checkers)
        <5>0. m \in Nat /\ j \in 0 .. m /\ j # m
          BY <1>3, <3>2
        <5> HIDE DEF m
        <5>1. j + 1 \in 1 .. m
          BY <5>0
        <5>2. QED
          BY <1>3, <5>1 DEF m
      <4>2. T = checkers[j + 1].saved
        BY <3>2 DEF TimelineAt
      <4>3. Sane(T)
        BY <4>1, <4>2 DEF Framed, FrameOk
      <4>4. ObjectsOf(T) \subseteq Objects
        BY <4>1, <4>2, Zenon DEF Objects
      <4>5. QED
        BY <4>3, <4>4
    <3>3. QED
      BY <3>1, <3>2
  <2> HIDE DEF T
  <2>2. ASSUME NEW x \in DeclaredNames(T), Holding(h, Raw(T, x)) PROVE Holding(g, Raw(T, x))
    <3>1. Raw(T, x).object \in Nat /\ Raw(T, x).object # Fresh
      BY <1>1, <2>1, RawIs, RawObject, EntryParts
    <3>2. QED
      BY <1>2, <2>2, <3>1 DEF Holding
  <2>3. QED
    BY <2>2 DEF Agreed, T
<1>5. \A j \in 0 .. Len(checkers) : Place(g, checkers, j, TimelineAt(checkers, values, j), ReachAt(checkers, reach, j))
  BY <1>4 DEF Place, Sound
<1>6. QED
  BY <1>2, <1>5 DEF Sound, g

-----------------------------------------------------------------------------
(* Sources.                                                                *)

LEMMA MayReadIs ==
  ASSUME Judged, Sane(values), DOMAIN checkers = 1 .. Len(checkers), NEW x, MayRead(values, x)
  PROVE  NoCycle(checkers) \/ ~ReadAgain(values, x)
<1>1. Last(values.stack).ext = ExtAt(values, Height(values))
  BY DEF Last, ExtAt, Height
<1>2. QED
  BY <1>1 DEF Judged, MayRead, NoCycle, ReadAgain, ExtTrue

LEMMA SourceView ==
  ASSUME Judged, Framed(checkers, values), NEW src \in Sources
  PROVE  /\ SameVariables(values, src.tl)
         /\ \A y \in DeclaredNames(values) : Raw(src.tl, y) = Raw(values, y)
         /\ NoCycle(checkers) \/ Shrinks(values, src.tl)
<1>1. Sane(values) /\ DOMAIN checkers = 1 .. Len(checkers)
  BY DEF Framed
<1>2. CASE \E v \in Values : src = Literal(v)
  <2>1. src.tl = values
    BY <1>2 DEF Literal
  <2>2. QED
    BY <2>1, ShrinksIsPreorder DEF SameVariables
<1>3. CASE \E y \in DeclaredNames(values) : MayRead(values, y) /\ src = Variable(y)
  <2>1. PICK y \in DeclaredNames(values) : MayRead(values, y) /\ src = Variable(y)
    BY <1>3
  <2>2. src.tl = Refer(values, y, FALSE) /\ y \in Names
    BY <1>1, <2>1, RawIs DEF Variable, LookupVariable
  <2>3. NoCycle(checkers) \/ ~ReadAgain(values, y)
    BY <1>1, <2>1, MayReadIs
  <2> DEFINE T == Refer(values, y, FALSE)
  <2>4. /\ SameVariables(values, T)
        /\ \A z \in DeclaredNames(values) : Raw(T, z) = Raw(values, z)
        /\ FALSE \/ ~ReadAgain(values, y) => Shrinks(values, T)
        /\ FALSE => ~KeptIn(T, y)
    <3>1. FALSE \in BOOLEAN
      OBVIOUS
    <3>2. QED
      BY <1>1, <2>2, <3>1, ReferView
  <2> HIDE DEF T
  <2>5. QED
    BY <2>2, <2>3, <2>4 DEF T
<1>4. QED
  BY <1>2, <1>3 DEF Sources

LEMMA UnknownFits ==
  /\ \A v : Fits(Unknown, v)
  /\ \A h : Holding(h, Unknown)
  /\ \A h, t : Holding(h, OfType(t))
BY DEF Fits, Holding, Unknown, OfType, IsValue

\* The body on top.
LEMMA PlaceNow ==
  ASSUME NEW h, NEW cs \in Seq(CheckerSet), NEW v, NEW R, Sound(h, cs, v, R)
  PROVE  Place(h, cs, Len(cs), v, R) /\ Valid(v, R) /\ Agreed(h, v)
<1>1. Len(cs) \in 0 .. Len(cs)
  OBVIOUS
<1>2. Place(h, cs, Len(cs), v, R)
  BY <1>1 DEF Sound, TimelineAt, ReachAt
<1>3. QED
  BY <1>2 DEF Place

SourceValue(src, p) == IF src.from = None THEN src.value ELSE p[2][src.from]

LEMMA SourceFits ==
  ASSUME Sane(values), Valid(values, reach), NEW src \in Sources, NEW p \in reach
  PROVE  Fits(src.known, SourceValue(src, p))
<1>1. CASE \E v \in Values : src = Literal(v)
  <2>1. PICK v \in Values : src = Literal(v)
    BY <1>1
  <2>2. src.known = OfValue(v, Fresh) /\ SourceValue(src, p) = v
    BY <2>1 DEF Literal, SourceValue
  <2>3. Fits(OfValue(v, Fresh), v)
    BY DEF Fits, OfValue
  <2>4. QED
    BY <2>2, <2>3
<1>2. CASE \E y \in DeclaredNames(values) : src = Variable(y)
  <2>1. PICK y \in DeclaredNames(values) : src = Variable(y)
    BY <1>2
  <2>2. y # None
    BY RawIs, TimelineAssumption
  <2>3. src.known = Known(values, y) /\ SourceValue(src, p) = p[2][y]
    BY <2>1, <2>2 DEF Variable, SourceValue
  <2>4. QED
    BY <2>3 DEF Valid
<1>3. QED
  BY <1>1, <1>2 DEF Sources

LEMMA SourceHolds ==
  ASSUME Framed(checkers, values), NEW g \in Holdings, Sound(g, checkers, values, reach), NEW src \in Sources
  PROVE  \E h \in Holdings : Sound(h, checkers, values, reach) /\ Holding(h, src.known)
<1>1. CASE \E v \in Values : src = Literal(v)
  <2>1. PICK v \in Values : src = Literal(v)
    BY <1>1
  <2> DEFINE h == [g EXCEPT ![Fresh] = v]
  <2>2. h \in Holdings /\ h[Fresh] = v /\ Sound(h, checkers, values, reach)
    BY NewObject
  <2> HIDE DEF h
  <2>3. src.known = OfValue(v, Fresh)
    BY <2>1 DEF Literal
  <2>4. Holding(h, OfValue(v, Fresh))
    BY <2>2 DEF Holding, OfValue
  <2>5. QED
    BY <2>2, <2>3, <2>4
<1>2. CASE \E y \in DeclaredNames(values) : src = Variable(y)
  <2>1. PICK y \in DeclaredNames(values) : src = Variable(y)
    BY <1>2
  <2>2. src.known = Known(values, y)
    BY <2>1 DEF Variable
  <2>3. Agreed(g, values) /\ Sane(values)
    BY PlaceNow DEF Framed
  <2>4. Known(values, y) = Unknown \/ Known(values, y) = Raw(values, y)
    BY <2>3, RawIs
  <2>5. Holding(g, Known(values, y))
    BY <2>3, <2>4, UnknownFits DEF Agreed
  <2>6. QED
    BY <2>2, <2>5
<1>3. QED
  BY <1>1, <1>2 DEF Sources

LEMMA MovedFrom ==
  ASSUME reach \in SUBSET Pairs, NEW src \in Sources, NEW x \in Names, NEW q \in Moved(x, src)
  PROVE  \E p \in reach : /\ q[1] = p[1] /\ q[2][x] = SourceValue(src, p)
                          /\ \A y \in Names : y # x => q[2][y] = p[2][y]
<1>1. CASE src.from = None
  <2>1. q \in UNION {{<<p[1], [p[2] EXCEPT ![x] = v]>> : v \in {src.value}} : p \in reach}
    BY <1>1 DEF Moved, SetTo
  <2>2. PICK p \in reach : q = <<p[1], [p[2] EXCEPT ![x] = src.value]>>
    BY <2>1
  <2>3. p[2] \in Stores
    BY PairIs
  <2>4. QED
    BY <1>1, <2>2, <2>3 DEF SourceValue, Stores
<1>2. CASE src.from # None
  <2>1. q \in {<<p[1], [p[2] EXCEPT ![x] = p[2][src.from]]>> : p \in reach}
    BY <1>2 DEF Moved, Copied
  <2>2. PICK p \in reach : q = <<p[1], [p[2] EXCEPT ![x] = p[2][src.from]]>>
    BY <2>1
  <2>3. p[2] \in Stores
    BY PairIs
  <2>4. QED
    BY <1>2, <2>2, <2>3 DEF SourceValue, Stores
<1>3. QED
  BY <1>1, <1>2

LEMMA AssignSound ==
  ASSUME Sane(values), reach \in SUBSET Pairs, Valid(values, reach), NEW h, Agreed(h, values),
         NEW src \in Sources, Holding(h, src.known), src.known \in Entry,
         NEW tl, Sane(tl), NEW x \in DeclaredNames(tl),
         \A y \in DeclaredNames(tl) : y # x =>
           y \in DeclaredNames(values) /\ Raw(tl, y) = Raw(values, y) /\ (Hidden(tl, y) <=> Hidden(values, y)),
         NoCycle(checkers) \/ Shrinks(values, tl),
         NEW T, T = Assign(tl, x, src.known), NEW S, S = Moved(x, src)
  PROVE  /\ Valid(T, S) /\ Agreed(h, T) /\ (reach = {} => S = {})
         /\ NoCycle(checkers) \/ GoesOn(values, reach, T, S)
<1> DEFINE W == Assign(tl, x, src.known)
<1>1. /\ Sane(W) /\ SameVariables(tl, W) /\ Raw(W, x) = src.known
      /\ \A y \in DeclaredNames(tl) : y # x => Raw(W, y) = Raw(tl, y)
      /\ Shrinks(tl, W) /\ ~KeptIn(W, x)
  BY AssignView
<1>2. W = T
  OBVIOUS
<1> HIDE DEF W
<1>3. x \in Names
  BY RawIs
<1>4. ASSUME NEW y \in DeclaredNames(W), NEW q \in S PROVE Fits(Known(W, y), q[2][y])
  <2>1. y \in DeclaredNames(tl) /\ y \in Names /\ (Hidden(W, y) <=> Hidden(tl, y))
        /\ Known(W, y) = IF Hidden(W, y) THEN Unknown ELSE Raw(W, y)
    BY <1>1, RawIs DEF SameVariables
  <2>2. PICK p \in reach : /\ q[1] = p[1] /\ q[2][x] = SourceValue(src, p)
                           /\ \A z \in Names : z # x => q[2][z] = p[2][z]
    BY <1>3, MovedFrom
  <2>3. CASE Hidden(W, y)
    BY <2>1, <2>3, UnknownFits
  <2>4. CASE ~Hidden(W, y) /\ y = x
    BY <1>1, <2>1, <2>2, <2>4, SourceFits
  <2>5. CASE ~Hidden(W, y) /\ y # x
    <3>1. Known(W, y) = Raw(values, y) /\ y \in DeclaredNames(values) /\ ~Hidden(values, y)
      BY <1>1, <2>1, <2>5
    <3>2. Known(values, y) = Raw(values, y)
      BY <3>1, RawIs
    <3>3. Fits(Known(values, y), p[2][y])
      BY <3>1 DEF Valid
    <3>4. QED
      BY <2>1, <2>2, <2>5, <3>1, <3>2, <3>3
  <2>6. QED
    BY <2>3, <2>4, <2>5
<1>5. Valid(W, S)
  BY <1>4 DEF Valid
<1>6. Agreed(h, W)
  BY <1>1 DEF Agreed, SameVariables
<1>7. reach = {} => S = {}
  BY <1>3, MovedFrom
<1>8. Comes(S, reach, W)
  <2> SUFFICES ASSUME NEW q \in S
               PROVE  \E p \in reach : q[1] = p[1] /\ \A y \in Names : KeptIn(W, y) => q[2][y] = p[2][y]
    BY DEF Comes
  <2>1. PICK p \in reach : /\ q[1] = p[1] /\ q[2][x] = SourceValue(src, p)
                           /\ \A z \in Names : z # x => q[2][z] = p[2][z]
    BY <1>3, MovedFrom
  <2>2. QED
    BY <1>1, <2>1
<1>9. Shrinks(values, tl) => Shrinks(values, W)
  BY <1>1, ShrinksIsPreorder
<1>10. NoCycle(checkers) \/ GoesOn(values, reach, W, S)
  BY <1>8, <1>9 DEF GoesOn
<1>11. QED
  BY <1>2, <1>5, <1>6, <1>7, <1>10

-----------------------------------------------------------------------------
(* Every statement without a body keeps the invariant.                     *)

LEMMA SameKnown ==
  ASSUME NEW T, Sane(T), NEW W, Sane(W), SameVariables(T, W),
         \A y \in DeclaredNames(T) : Raw(W, y) = Raw(T, y)
  PROVE  /\ \A R : Valid(T, R) => Valid(W, R)
         /\ \A h : Agreed(h, T) => Agreed(h, W)
<1>1. \A y \in DeclaredNames(W) : y \in DeclaredNames(T) /\ Known(W, y) = Known(T, y)
  BY RawIs DEF SameVariables
<1>2. QED
  BY <1>1 DEF Valid, Agreed, SameVariables

\* Fewer executions.
LEMMA FewerFit ==
  ASSUME NEW R, NEW S, S \subseteq R
  PROVE  /\ \A T : Valid(T, R) => Valid(T, S)
         /\ \A T : Comes(S, R, T)
         /\ \A T : Keeps(R, T) => Keeps(S, T)
BY DEF Valid, Comes, Keeps

LEMMA CalledFrom ==
  ASSUME NEW R \in SUBSET Pairs, NEW does
  PROVE  /\ \A q \in Called(R, does) : \E p \in R :
              q[1] = p[1] /\ \A x \in Names : x \notin does => q[2][x] = p[2][x]
         /\ does = {} => Called(R, does) \subseteq R
<1> DEFINE xs == does \cap Names
           New(p, w) == [x \in Names |-> IF x \in xs THEN w[x] ELSE p[2][x]]
<1>1. ASSUME NEW q \in Called(R, does)
      PROVE  \E p \in R : \E w \in [xs -> Values] : q = <<p[1], New(p, w)>>
  <2>1. q \in UNION {{<<p[1], New(p, w)>> : w \in [xs -> Values]} : p \in R}
    BY DEF Called
  <2> HIDE DEF New
  <2>2. QED
    BY <2>1
<1>2. ASSUME NEW p \in R, NEW w
      PROVE  /\ \A x \in Names : x \notin does => New(p, w)[x] = p[2][x]
             /\ does = {} => New(p, w) = p[2]
  <2>1. p[2] \in [Names -> Values]
    BY PairIs DEF Stores
  <2>2. QED
    BY <2>1
<1>3. \A p \in R : p = <<p[1], p[2]>>
  BY DEF Pairs
<1> HIDE DEF New
<1>4. \A q \in Called(R, does) : \E p \in R :
        q[1] = p[1] /\ \A x \in Names : x \notin does => q[2][x] = p[2][x]
  BY <1>1, <1>2
<1>5. does = {} => Called(R, does) \subseteq R
  <2> SUFFICES ASSUME does = {}, NEW q \in Called(R, does) PROVE q \in R
    OBVIOUS
  <2>1. PICK p \in R : \E w \in [xs -> Values] : q = <<p[1], New(p, w)>>
    BY <1>1
  <2>2. q = <<p[1], p[2]>>
    BY <1>2, <2>1
  <2>3. QED
    BY <1>3, <2>2
<1>6. QED
  BY <1>4, <1>5

LEMMA VarSound == Judged /\ AInv /\ SoundInv /\ VarStatement => SoundInv'
<1> SUFFICES ASSUME Judged, AInv, SoundInv, VarStatement PROVE SoundInv'
  OBVIOUS
<1>1. checkers # <<>> /\ Top.term = "end" /\ ShapeInv /\ DataInv
  BY DEF AInv, VarStatement, NextStatement
<1>2. PICK x \in Names \ DeclaredNames(values), src \in Sources :
        /\ values' = Assign(Declare(src.tl, x, Fresh), x, src.known)
        /\ reach' = Moved(x, src)
        /\ checkers' = SetTop(Checked(Top, IsPure(src), Uses(src), {}))
  BY DEF VarStatement
<1>3. /\ Top \in CheckerSet /\ Sane(values) /\ Framed(checkers, values) /\ checkers \in Seq(CheckerSet)
      /\ reach \in SUBSET Pairs
  BY <1>1, TopIs DEF DataInv
<1>4. PICK h \in Holdings : Sound(h, checkers, values, reach) /\ Holding(h, src.known)
  BY <1>3, SourceHolds DEF SoundInv
<1>5. Valid(values, reach) /\ Agreed(h, values) /\ effects[TRUE] = {}
  BY <1>3, <1>4, PlaceNow DEF SoundInv
<1>6. /\ src.known \in Entry /\ Sane(src.tl) /\ DeclaredNames(src.tl) = DeclaredNames(values)
      /\ Uses(src) \in SUBSET Names
  BY <1>3, SourceIs
<1>7. /\ SameVariables(values, src.tl)
      /\ \A y \in DeclaredNames(values) : Raw(src.tl, y) = Raw(values, y)
      /\ NoCycle(checkers) \/ Shrinks(values, src.tl)
  BY <1>3, SourceView
<1> DEFINE D == Declare(src.tl, x, Fresh)
           c == Checked(Top, IsPure(src), Uses(src), {})
<1>8. /\ Sane(D) /\ DeclaredNames(D) = DeclaredNames(src.tl) \cup {x}
      /\ ~Hidden(D, x)
      /\ \A y \in DeclaredNames(src.tl) : Raw(D, y) = Raw(src.tl, y) /\ (Hidden(D, y) <=> Hidden(src.tl, y))
      /\ Shrinks(src.tl, D)
  <2>1. Fresh \in Nat \ {NoObject} /\ x \in Names \ DeclaredNames(src.tl)
    BY <1>3, <1>6, FreshIs
  <2>2. QED
    BY <1>6, <2>1, DeclareView
<1>9. values' = Assign(D, x, src.known)
  BY <1>2
<1> HIDE DEF D
<1>10. /\ Valid(values', reach') /\ Agreed(h, values') /\ (reach = {} => reach' = {})
       /\ NoCycle(checkers) \/ GoesOn(values, reach, values', reach')
  <2>1. x \in DeclaredNames(D)
    BY <1>8
  <2>2. \A y \in DeclaredNames(D) : y # x =>
          y \in DeclaredNames(values) /\ Raw(D, y) = Raw(values, y) /\ (Hidden(D, y) <=> Hidden(values, y))
    BY <1>6, <1>7, <1>8 DEF SameVariables
  <2>3. NoCycle(checkers) \/ Shrinks(values, D)
    BY <1>7, <1>8, ShrinksIsPreorder
  <2>4. reach' = Moved(x, src)
    BY <1>2
  <2>5. QED
    BY <1>3, <1>4, <1>5, <1>6, <1>8, <1>9, <2>1, <2>2, <2>3, <2>4, AssignSound
<1>11. c \in CheckerSet /\ Goes(c, Top, reach) /\ c.term = Top.term
  BY <1>3, <1>6, CheckedGoes, ZenonT(60) DEF IsPure
<1> HIDE DEF c
<1>12. checkers' = SetTop(c) /\ effects' = effects
  BY <1>2 DEF c, VarStatement
<1>13. QED
  BY <1>1, <1>4, <1>5, <1>10, <1>11, <1>12, TopStepSound

LEMMA AssignKeepsSound == Judged /\ AInv /\ SoundInv /\ AssignStatement => SoundInv'
<1> SUFFICES ASSUME Judged, AInv, SoundInv, AssignStatement PROVE SoundInv'
  OBVIOUS
<1>1. checkers # <<>> /\ Top.term = "end" /\ ShapeInv /\ DataInv
  BY DEF AInv, AssignStatement, NextStatement
<1>2. PICK x \in DeclaredNames(values), src \in Sources :
        /\ values' = Assign(src.tl, x, src.known)
        /\ reach' = Moved(x, src)
        /\ checkers' = SetTop(Checked(Top, FALSE, Uses(src) \cup {x}, {x}))
  BY DEF AssignStatement
<1>3. /\ Top \in CheckerSet /\ Sane(values) /\ Framed(checkers, values) /\ checkers \in Seq(CheckerSet)
      /\ reach \in SUBSET Pairs /\ x \in Names
  BY <1>1, TopIs DEF DataInv, DeclaredNames
<1>4. PICK h \in Holdings : Sound(h, checkers, values, reach) /\ Holding(h, src.known)
  BY <1>3, SourceHolds DEF SoundInv
<1>5. Valid(values, reach) /\ Agreed(h, values) /\ effects[TRUE] = {}
  BY <1>3, <1>4, PlaceNow DEF SoundInv
<1>6. /\ src.known \in Entry /\ Sane(src.tl) /\ DeclaredNames(src.tl) = DeclaredNames(values)
      /\ Uses(src) \in SUBSET Names
  BY <1>3, SourceIs
<1>7. /\ SameVariables(values, src.tl)
      /\ \A y \in DeclaredNames(values) : Raw(src.tl, y) = Raw(values, y)
      /\ NoCycle(checkers) \/ Shrinks(values, src.tl)
  BY <1>3, SourceView
<1> DEFINE c == Checked(Top, FALSE, Uses(src) \cup {x}, {x})
<1>8. /\ Valid(values', reach') /\ Agreed(h, values') /\ (reach = {} => reach' = {})
      /\ NoCycle(checkers) \/ GoesOn(values, reach, values', reach')
  <2>1. x \in DeclaredNames(src.tl) /\ values' = Assign(src.tl, x, src.known) /\ reach' = Moved(x, src)
    BY <1>2, <1>6
  <2>2. \A y \in DeclaredNames(src.tl) : y # x =>
          y \in DeclaredNames(values) /\ Raw(src.tl, y) = Raw(values, y) /\ (Hidden(src.tl, y) <=> Hidden(values, y))
    BY <1>6, <1>7 DEF SameVariables
  <2>3. QED
    BY <1>3, <1>4, <1>5, <1>6, <1>7, <2>1, <2>2, AssignSound
<1>9. c \in CheckerSet /\ Goes(c, Top, reach) /\ c.term = Top.term
  <2>1. Uses(src) \cup {x} \in SUBSET Names /\ {x} \in SUBSET (Names \cup {Output})
    BY <1>3, <1>6
  <2>2. QED
    BY <1>3, <2>1, CheckedGoes
<1> HIDE DEF c
<1>10. checkers' = SetTop(c) /\ effects' = effects
  BY <1>2 DEF c, AssignStatement
<1>11. QED
  BY <1>1, <1>4, <1>5, <1>8, <1>9, <1>10, TopStepSound

LEMMA ReadView ==
  ASSUME Judged, Framed(checkers, values), NEW x \in DeclaredNames(values), MayRead(values, x)
  PROVE  LET T == LookupVariable(values, x)
         IN /\ Sane(T) /\ SameVariables(values, T)
            /\ \A y \in DeclaredNames(values) : Raw(T, y) = Raw(values, y)
            /\ NoCycle(checkers) \/ Shrinks(values, T)
<1> DEFINE T == LookupVariable(values, x)
<1>1. Sane(values) /\ DOMAIN checkers = 1 .. Len(checkers) /\ x \in Names /\ FALSE \in BOOLEAN
  BY DEF Framed, DeclaredNames
<1>2. NoCycle(checkers) \/ ~ReadAgain(values, x)
  BY <1>1, MayReadIs
<1>3. Sane(T)
  BY <1>1, LookupVariableIs
<1> DEFINE W == Refer(values, x, FALSE)
<1>4. /\ SameVariables(values, W)
      /\ \A z \in DeclaredNames(values) : Raw(W, z) = Raw(values, z)
      /\ FALSE \/ ~ReadAgain(values, x) => Shrinks(values, W)
      /\ FALSE => ~KeptIn(W, x)
  BY <1>1, ReferView
<1>5. W = T
  BY DEF LookupVariable
<1> HIDE DEF T, W
<1>6. QED
  BY <1>2, <1>3, <1>4, <1>5 DEF T

LEMMA PrintSound == Judged /\ AInv /\ SoundInv /\ PrintStatement => SoundInv'
<1> SUFFICES ASSUME Judged, AInv, SoundInv, PrintStatement PROVE SoundInv'
  OBVIOUS
<1>1. checkers # <<>> /\ Top.term = "end" /\ ShapeInv /\ DataInv
  BY DEF AInv, PrintStatement, NextStatement
<1>2. PICK x \in DeclaredNames(values) :
        /\ MayRead(values, x)
        /\ values' = LookupVariable(values, x)
        /\ checkers' = SetTop(Checked(Top, FALSE, {x}, {Output}))
  BY DEF PrintStatement
<1>3. /\ Top \in CheckerSet /\ Sane(values) /\ Framed(checkers, values) /\ checkers \in Seq(CheckerSet)
      /\ reach \in SUBSET Pairs /\ x \in Names
  BY <1>1, TopIs DEF DataInv, DeclaredNames
<1>4. PICK h \in Holdings : Sound(h, checkers, values, reach)
  BY DEF SoundInv
<1>5. Valid(values, reach) /\ Agreed(h, values) /\ effects[TRUE] = {}
  BY <1>3, <1>4, PlaceNow DEF SoundInv
<1> DEFINE W == LookupVariable(values, x)
           c == Checked(Top, FALSE, {x}, {Output})
<1>6. /\ Sane(W) /\ SameVariables(values, W)
      /\ \A y \in DeclaredNames(values) : Raw(W, y) = Raw(values, y)
      /\ NoCycle(checkers) \/ Shrinks(values, W)
  BY <1>2, <1>3, ReadView
<1> HIDE DEF W
<1>7. values' = W /\ reach' = reach /\ effects' = effects
  BY <1>2 DEF W, PrintStatement
<1>8. Valid(W, reach) /\ Agreed(h, W)
  BY <1>3, <1>5, <1>6, SameKnown
<1>9. NoCycle(checkers) \/ GoesOn(values, reach, W, reach)
  BY <1>6, FewerFit DEF GoesOn
<1>10. c \in CheckerSet /\ Goes(c, Top, reach) /\ c.term = Top.term
  <2>1. {x} \in SUBSET Names /\ {Output} \in SUBSET (Names \cup {Output})
    BY <1>3
  <2>2. QED
    BY <1>3, <2>1, CheckedGoes
<1> HIDE DEF c
<1>11. checkers' = SetTop(c)
  BY <1>2 DEF c
<1>12. QED
  BY <1>1, <1>4, <1>5, <1>7, <1>8, <1>9, <1>10, <1>11, TopStepSound

\* Nothing is known any more.
LEMMA NothingKnown ==
  ASSUME NEW T, Sane(T), \A y \in DeclaredNames(T) : Known(T, y) = Unknown
  PROVE  \A R : Valid(T, R)
BY UnknownFits DEF Valid

LEMMA ForgottenView ==
  ASSUME NEW tl, Sane(tl)
  PROVE  LET T == MakeAllUnknown(tl)
         IN /\ Sane(T) /\ SameVariables(tl, T)
            /\ \A R : Valid(T, R)
            /\ \A h : Agreed(h, T)
            /\ \A y \in Names : ~KeptIn(T, y)
<1> DEFINE T == MakeAllUnknown(tl)
<1>1. /\ Sane(T) /\ SameVariables(tl, T)
      /\ \A y \in DeclaredNames(tl) : Raw(T, y) = Unknown
      /\ \A y \in Names : ~KeptIn(T, y)
  BY MakeAllUnknownView
<1> HIDE DEF T
<1>2. \A y \in DeclaredNames(T) : Known(T, y) = Unknown /\ Raw(T, y) = Unknown
  BY <1>1, RawIs DEF SameVariables
<1>3. QED
  BY <1>1, <1>2, NothingKnown, UnknownFits DEF Agreed, T

\* What a call mentions is looked up.
LEMMA MentionView ==
  ASSUME Judged, Framed(checkers, values),
         NEW x \in DeclaredNames(values) \cup {None}, MayMention(values, x)
  PROVE  LET T == Mentioned(values, x)
         IN /\ Sane(T) /\ SameVariables(values, T)
            /\ \A y \in DeclaredNames(values) : Raw(T, y) = Raw(values, y)
            /\ NoCycle(checkers) \/ Shrinks(values, T)
<1>1. CASE x = None
  <2>1. Mentioned(values, x) = values /\ Sane(values)
    BY <1>1 DEF Mentioned, Framed
  <2>2. QED
    BY <2>1, ShrinksIsPreorder DEF SameVariables
<1>2. CASE x # None
  <2>1. x \in DeclaredNames(values) /\ MayRead(values, x) /\ Mentioned(values, x) = LookupVariable(values, x)
    BY <1>2 DEF MayMention, Mentioned
  <2>2. QED
    BY <2>1, ReadView
<1>3. QED
  BY <1>1, <1>2

LEMMA ForgottenMention ==
  ASSUME NEW tl, Sane(tl), NEW x \in Names \cup {None}
  PROVE  LET T == MakeAllUnknown(Mentioned(tl, x))
         IN /\ Sane(T)
            /\ \A R : Valid(T, R)
            /\ \A h : Agreed(h, T)
            /\ \A y \in Names : ~KeptIn(T, y)
<1> DEFINE M == Mentioned(tl, x)
<1>1. Sane(M)
  BY MentionedIs
<1> HIDE DEF M
<1>2. QED
  BY <1>1, ForgottenView DEF M

LEMMA CallSound == Judged /\ AInv /\ SoundInv /\ CallStatement => SoundInv'
<1> SUFFICES ASSUME Judged, AInv, SoundInv, CallStatement PROVE SoundInv'
  OBVIOUS
<1>1. checkers # <<>> /\ Top.term = "end" /\ ShapeInv /\ DataInv
  BY DEF AInv, CallStatement, NextStatement
<1>2. PICK pure \in BOOLEAN, x \in DeclaredNames(values) \cup {None} :
        /\ MayMention(values, x)
        /\ values' = IF pure THEN Mentioned(values, x) ELSE MakeAllUnknown(Mentioned(values, x))
        /\ reach' = Called(reach, effects[pure])
        /\ checkers' = SetTop(Checked(Top, pure, {x} \cap Names,
                                     effects[pure] \cup (IF pure THEN {} ELSE {Output})))
  BY DEF CallStatement
<1>3. /\ Top \in CheckerSet /\ Sane(values) /\ Framed(checkers, values) /\ checkers \in Seq(CheckerSet)
      /\ reach \in SUBSET Pairs /\ x \in Names \cup {None}
  BY <1>1, TopIs DEF DataInv, DeclaredNames
<1>4. PICK h \in Holdings : Sound(h, checkers, values, reach)
  BY DEF SoundInv
<1>5. Valid(values, reach) /\ Agreed(h, values) /\ effects[TRUE] = {}
  BY <1>3, <1>4, PlaceNow DEF SoundInv
<1> DEFINE does == effects[pure] \cup (IF pure THEN {} ELSE {Output})
           xs == {x} \cap Names
           c == Checked(Top, pure, xs, does)
<1>6. does \in SUBSET (Names \cup {Output}) /\ (pure => does = {})
  BY <1>1, <1>5 DEF DataInv
<1>7. checkers' = SetTop(c) /\ effects' = effects
  BY <1>2 DEF CallStatement
<1> HIDE DEF does
<1>8. c \in CheckerSet /\ Goes(c, Top, reach) /\ c.term = Top.term
  <2>1. xs \in SUBSET Names
    OBVIOUS
  <2> HIDE DEF xs
  <2>2. QED
    BY <1>3, <1>6, <2>1, CheckedGoes
<1> HIDE DEF c
<1>9. reach = {} => reach' = {}
  BY <1>2, <1>3, CalledFrom
<1>10. /\ Valid(values', reach') /\ Agreed(h, values')
       /\ NoCycle(checkers) \/ GoesOn(values, reach, values', reach')
  <2>1. CASE pure
    <3> DEFINE W == Mentioned(values, x)
    <3>1. values' = W /\ reach' \subseteq reach
      <4>1. pure = TRUE
        BY <2>1
      <4>2. QED
        BY <1>2, <1>3, <1>5, <4>1, CalledFrom
    <3>2. /\ Sane(W) /\ SameVariables(values, W)
          /\ \A y \in DeclaredNames(values) : Raw(W, y) = Raw(values, y)
          /\ NoCycle(checkers) \/ Shrinks(values, W)
      BY <1>2, <1>3, MentionView
    <3> HIDE DEF W
    <3>3. Valid(W, reach) /\ Agreed(h, W)
      BY <1>3, <1>5, <3>2, SameKnown
    <3>4. QED
      BY <3>1, <3>2, <3>3, FewerFit DEF GoesOn
  <2>2. CASE ~pure
    <3>1. values' = MakeAllUnknown(Mentioned(values, x))
      BY <1>2, <2>2
    <3>2. /\ Valid(values', reach') /\ Agreed(h, values')
          /\ \A y \in Names : ~KeptIn(values', y)
      BY <1>3, <3>1, ForgottenMention
    <3>3. \A q \in reach' : \E p \in reach : q[1] = p[1]
      <4> DEFINE E == effects[pure]
      <4>1. reach' = Called(reach, E)
        BY <1>2
      <4> HIDE DEF E
      <4>2. \A q \in Called(reach, E) : \E p \in reach :
              q[1] = p[1] /\ \A v \in Names : v \notin E => q[2][v] = p[2][v]
        BY <1>3, CalledFrom
      <4>3. QED
        BY <4>1, <4>2
    <3>4. QED
      BY <3>2, <3>3 DEF GoesOn, Shrinks, Comes
  <2>3. QED
    BY <2>1, <2>2
<1>11. QED
  BY <1>1, <1>4, <1>5, <1>7, <1>8, <1>9, <1>10, TopStepSound

LEMMA ExitSound == Judged /\ AInv /\ SoundInv /\ ExitStatement => SoundInv'
<1> SUFFICES ASSUME Judged, AInv, SoundInv, ExitStatement PROVE SoundInv'
  OBVIOUS
<1>1. checkers # <<>> /\ Top.term = "end" /\ ShapeInv /\ DataInv
  BY DEF AInv, ExitStatement, NextStatement
<1>2. Top \in CheckerSet /\ checkers \in Seq(CheckerSet) /\ reach \in SUBSET Pairs
  BY <1>1, TopIs DEF DataInv
<1>3. PICK h \in Holdings : Sound(h, checkers, values, reach)
  BY DEF SoundInv
<1>4. Agreed(h, values) /\ effects[TRUE] = {}
  BY <1>2, <1>3, PlaceNow DEF SoundInv
<1> DEFINE c == [Top EXCEPT !.term = "exited", !.pure = FALSE, !.exits = Top.exits \cup reach]
<1>5. checkers' = SetTop(c) /\ reach' = {} /\ values' = values /\ effects' = effects
  BY DEF ExitStatement
<1>6. /\ c \in CheckerSet /\ Framing(c, Top) /\ c.pure = FALSE /\ c.exits = Top.exits \cup reach
      /\ c.returned = Top.returned /\ c.gives = Top.gives /\ c.odd = Top.odd /\ c.does = Top.does
  <2>1. Top.exits \cup reach \in SUBSET Pairs
    BY <1>2, CheckerParts
  <2>2. QED
    BY <1>2, <2>1 DEF CheckerSet, Terms, Framing
<1> HIDE DEF c
<1>7. Goes(c, Top, reach)
  <2>1. Top.returned = AddReturnType(Top.returned, NoType) /\ NoType \in ReturnTypes
    BY <1>2, CheckerParts, CoverIs, TypesOf
  <2>2. QED
    BY <1>6, <2>1 DEF Goes, Adds, Same
<1>8. Valid(values, {}) /\ GoesOn(values, reach, values, {})
  BY ShrinksIsPreorder DEF Valid, GoesOn, Comes
<1>9. QED
  BY <1>1, <1>3, <1>4, <1>5, <1>6, <1>7, <1>8, TopStepSound

LEMMA ReturnSound == Judged /\ AInv /\ SoundInv /\ ReturnStatement => SoundInv'
<1> SUFFICES ASSUME Judged, AInv, SoundInv, ReturnStatement PROVE SoundInv'
  OBVIOUS
<1>1. checkers # <<>> /\ Top.term = "end" /\ ShapeInv /\ DataInv
  BY DEF AInv, ReturnStatement, NextStatement
<1>2. PICK src \in Sources :
       /\ values' = src.tl
       /\ checkers' = SetTop(
            [Checked(Top, IsPure(src), Uses(src), {}) EXCEPT
               !.term = "returned",
               !.returned = AddReturnType(@, src.known.type),
               !.gives = @ \cup {TypeOf(IF src.from = None THEN src.value ELSE p[2][src.from]) :
                                   p \in reach}])
  BY DEF ReturnStatement
<1>3. /\ Top \in CheckerSet /\ Sane(values) /\ Framed(checkers, values) /\ checkers \in Seq(CheckerSet)
      /\ reach \in SUBSET Pairs
  BY <1>1, TopIs DEF DataInv
<1>4. PICK h \in Holdings : Sound(h, checkers, values, reach)
  BY DEF SoundInv
<1>5. Valid(values, reach) /\ Agreed(h, values) /\ effects[TRUE] = {}
  BY <1>3, <1>4, PlaceNow DEF SoundInv
<1>6. /\ Sane(src.tl) /\ DeclaredNames(src.tl) = DeclaredNames(values)
      /\ Uses(src) \in SUBSET Names /\ src.known.type \in ReturnTypes
      /\ \/ src.from = None /\ src.value \in Values
         \/ src.from \in DeclaredNames(values) /\ src.from # None
  BY <1>3, SourceIs
<1>7. /\ SameVariables(values, src.tl)
      /\ \A y \in DeclaredNames(values) : Raw(src.tl, y) = Raw(values, y)
      /\ NoCycle(checkers) \/ Shrinks(values, src.tl)
  BY <1>3, SourceView
<1> DEFINE b == Checked(Top, IsPure(src), Uses(src), {})
           more == {TypeOf(SourceValue(src, p)) : p \in reach}
           t == src.known.type
           c == [b EXCEPT !.term = "returned", !.returned = AddReturnType(b.returned, t),
                          !.gives = b.gives \cup more]
<1>8. b \in CheckerSet /\ Goes(b, Top, reach) /\ b.returned = Top.returned /\ b.gives = Top.gives
  BY <1>3, <1>6, CheckedGoes, CheckedIs, ZenonT(60) DEF IsPure
<1>9. more \in SUBSET Types /\ more \subseteq Cover(t)
  <2>1. ASSUME NEW p \in reach PROVE SourceValue(src, p) \in Values
    <3>1. p[2] \in Stores /\ \A y \in Names : p[2][y] \in Values
      BY <1>3, PairIs
    <3>2. QED
      BY <1>6, <3>1 DEF SourceValue, DeclaredNames
  <2>2. more \in SUBSET Types
    BY <2>1, TypesOf
  <2>3. \A p \in reach : t # UnknownType => TypeOf(SourceValue(src, p)) = t
    BY <1>3, <1>5, SourceFits DEF Fits
  <2>4. t # NoType
    BY <1>3, SourceIs, EntryParts DEF Types, UnknownType, NoType
  <2>5. QED
    BY <2>2, <2>3, <2>4 DEF Cover
<1>10. checkers' = SetTop(c)
  BY <1>2, Zenon DEF SourceValue
<1>11. reach = {} => more = {}
  OBVIOUS
<1> HIDE DEF b, more
<1>12. /\ c \in CheckerSet /\ Framing(c, b) /\ c.pure = b.pure /\ c.exits = b.exits
       /\ c.returned = AddReturnType(b.returned, t) /\ c.gives = b.gives \cup more
       /\ c.odd = b.odd /\ c.does = b.does
  <2>1. b.gives \cup more \in SUBSET Types /\ AddReturnType(b.returned, t) \in ReturnTypes
    BY <1>6, <1>8, <1>9, CheckerParts, TypesOf
  <2> HIDE DEF t
  <2>2. QED
    BY <1>8, <2>1 DEF CheckerSet, Terms, Framing
<1> HIDE DEF c, t
<1>13. Goes(c, Top, reach)
  <2>1. Framing(c, Top)
    BY <1>8, <1>12 DEF Goes, Framing
  <2>2. c.pure => Top.pure /\ c.does = Top.does
    BY <1>8, <1>12 DEF Goes, Adds
  <2>3. c.odd \/ ~Top.odd
    BY <1>8, <1>12 DEF Goes, Adds
  <2>4. c.returned = AddReturnType(Top.returned, t) /\ c.gives \subseteq Top.gives \cup Cover(t) /\ t \in ReturnTypes
    BY <1>6, <1>8, <1>9, <1>12 DEF t
  <2>5. reach = {} => Same(c, Top)
    BY <1>8, <1>11, <1>12 DEF Goes, Same
  <2>6. c.exits \subseteq Top.exits \cup reach
    BY <1>8, <1>12 DEF Goes
  <2>7. QED
    BY <2>1, <2>2, <2>3, <2>4, <2>5, <2>6 DEF Goes, Adds
<1>14. reach' = {} /\ effects' = effects
  BY DEF ReturnStatement
<1>15. Valid(values', reach') /\ Agreed(h, values')
  <2>1. Agreed(h, src.tl)
    BY <1>3, <1>5, <1>6, <1>7, SameKnown
  <2>2. QED
    BY <1>2, <1>14, <2>1 DEF Valid
<1>16. NoCycle(checkers) \/ GoesOn(values, reach, values', reach')
  BY <1>2, <1>7, <1>14 DEF GoesOn, Comes
<1>17. QED
  BY <1>1, <1>4, <1>5, <1>10, <1>12, <1>13, <1>14, <1>15, <1>16, TopStepSound

-----------------------------------------------------------------------------
(* The body of a statement begins.                                         *)

LEMMA BegunSound ==
  ASSUME AInv, checkers # <<>>, NEW h \in Holdings, Sound(h, checkers, values, reach), effects[TRUE] = {},
         NEW c \in CheckerSet, Goes(c, Top, reach), c.term = "end",
         NEW d \in CheckerSet, d.term = "end",
         Valid(d.saved, d.reach), Agreed(h, d.saved), reach = {} => d.reach = {},
         NoCycle(checkers) \/ GoesOn(values, reach, d.saved, d.reach),
         Place(h, Append(SetTop(c), d), Len(checkers) + 1, values', reach'),
         Part(Append(SetTop(c), d), Len(checkers) + 1),
         checkers' = Append(SetTop(c), d), effects' = effects
  PROVE  SoundInv'
<1>1. checkers \in Seq(CheckerSet)
  BY TopIs DEF AInv
<1> DEFINE cs == SetTop(c)
           ds == Append(cs, d)
           w == d.saved
           S == d.reach
<1>2. /\ cs \in Seq(CheckerSet) /\ Len(cs) = Len(checkers) /\ cs[Len(checkers)] = c
      /\ \A i \in 1 .. Len(checkers) - 1 : cs[i] = checkers[i]
  BY <1>1, OntoTop DEF SetTop
<1>3. Len(ds) = Len(cs) + 1 /\ ds[Len(cs) + 1] = d /\ Len(cs) \in Nat
  BY <1>2
<1>4. ds = Append(cs, d) /\ Place(h, ds, Len(cs) + 1, values', reach') /\ Part(ds, Len(cs) + 1)
  BY <1>2
<1>5. checkers' = ds
  OBVIOUS
<1>6. Goes(c, Last(checkers), reach) /\ (c.term # "end" => S = {})
  BY DEF Top
<1> HIDE DEF cs, ds, w, S
<1>7. Sound(h, cs, w, S)
  <2>1. Valid(w, S) /\ Agreed(h, w) /\ (reach = {} => S = {}) /\ (NoCycle(checkers) \/ GoesOn(values, reach, w, S))
    BY DEF w, S
  <2>2. QED
    BY <1>1, <1>2, <1>6, <2>1, TopSound
<1>12. cs # <<>> /\ Last(cs) = c
  BY <1>1, <1>2 DEF Last
<1>8. ds # <<>> /\ Last(ds) = d
  BY <1>3 DEF Last
<1>9. Left(ds, reach')
  BY <1>8 DEF Left
<1>10. Sound(h, ds, values', reach')
  BY <1>2, <1>4, <1>7, <1>9, <1>12, PushedSound DEF w, S
<1>11. QED
  BY <1>5, <1>10 DEF SoundInv

\* The place of the checker that goes on is also known.
LEMMA TopPlace ==
  ASSUME AInv, checkers # <<>>, NEW h \in Holdings, Sound(h, checkers, values, reach),
         NEW c \in CheckerSet, Goes(c, Top, reach), c.term = "end",
         NEW w, NEW S, Valid(w, S), Agreed(h, w), reach = {} => S = {},
         NoCycle(checkers) \/ GoesOn(values, reach, w, S)
  PROVE  /\ Place(h, SetTop(c), Len(SetTop(c)), w, S) /\ SetTop(c) \in Seq(CheckerSet)
         /\ Len(SetTop(c)) = Len(checkers)
<1>1. checkers \in Seq(CheckerSet)
  BY TopIs DEF AInv
<1> DEFINE cs == SetTop(c)
<1>2. /\ cs \in Seq(CheckerSet) /\ Len(cs) = Len(checkers) /\ cs[Len(checkers)] = c
      /\ \A i \in 1 .. Len(checkers) - 1 : cs[i] = checkers[i]
  BY <1>1, OntoTop DEF SetTop
<1>3. Goes(c, Last(checkers), reach) /\ (c.term # "end" => S = {})
  BY DEF Top
<1> HIDE DEF cs
<1>4. Sound(h, cs, w, S)
  BY <1>1, <1>2, <1>3, TopSound
<1>5. QED
  BY <1>2, <1>4, PlaceNow DEF cs

\* Contexts with one body more.
Inner(cs, d, ds, m) ==
  /\ ds[m + 1] = d /\ Len(ds) = m + 1 /\ \A i \in 1 .. m : ds[i] = cs[i]
  /\ \A i \in 1 .. m : DeadIn(ds, i, m + 1) => DeadIn(cs, i, m) /\ d.what # "function"
  /\ \A k \in 1 .. m : CycleOf(ds, k, m + 1) => CycleOf(cs, k, m) /\ ~Blinding(d)
  /\ CycleOf(ds, m + 1, m + 1) => d.what = "cycle"
  /\ DeadIn(ds, m + 1, m + 1) => DeadBranch(d)

LEMMA InnerContext ==
  ASSUME NEW cs \in Seq(CheckerSet), NEW d
  PROVE  Inner(cs, d, Append(cs, d), Len(cs))
<1> DEFINE m == Len(cs)
           ds == Append(cs, d)
<1>0. m \in Nat
  OBVIOUS
<1>1. ds[m + 1] = d /\ Len(ds) = m + 1 /\ \A i \in 1 .. m : ds[i] = cs[i]
  OBVIOUS
<1> HIDE DEF m, ds
<1>2. ASSUME NEW i \in 1 .. m, DeadIn(ds, i, m + 1) PROVE DeadIn(cs, i, m) /\ d.what # "function"
  <2>1. m + 1 \in i + 1 .. m + 1 /\ \A l \in i + 1 .. m : l \in i + 1 .. m + 1 /\ l \in 1 .. m
    BY <1>0
  <2>2. QED
    BY <1>1, <1>2, <2>1 DEF DeadIn, DeadBranch
<1>3. ASSUME NEW k \in 1 .. m, CycleOf(ds, k, m + 1) PROVE CycleOf(cs, k, m) /\ ~Blinding(d)
  <2>1. m + 1 \in k + 1 .. m + 1 /\ \A l \in k + 1 .. m : l \in k + 1 .. m + 1 /\ l \in 1 .. m
    BY <1>0
  <2>2. QED
    BY <1>1, <1>3, <2>1 DEF CycleOf, Blinding
<1>4. QED
  BY <1>1, <1>2, <1>3 DEF CycleOf, DeadIn, Inner, m, ds

\* A branch begins where the executions R are with T.
LEMMA BranchPlace ==
  ASSUME NEW h, NEW cs \in Seq(CheckerSet), NEW T, NEW R, Place(h, cs, Len(cs), T, R),
         NEW d, ~Blinding(d), d.exits = {}, NEW ds, ds = Append(cs, d),
         NEW w, NEW S, Shrinks(T, w), S \subseteq R, Valid(w, S), Agreed(h, w),
         DeadBranch(d) => S = {}
  PROVE  Place(h, ds, Len(cs) + 1, w, S)
<1>1. PICK m \in Nat : m = Len(cs)
  OBVIOUS
<1>2. /\ ds[m + 1] = d /\ Len(ds) = m + 1 /\ (\A i \in 1 .. m : ds[i] = cs[i])
      /\ \A i \in 1 .. m : DeadIn(ds, i, m + 1) => DeadIn(cs, i, m) /\ d.what # "function"
      /\ \A k \in 1 .. m : CycleOf(ds, k, m + 1) => CycleOf(cs, k, m) /\ ~Blinding(d)
      /\ CycleOf(ds, m + 1, m + 1) => d.what = "cycle"
      /\ DeadIn(ds, m + 1, m + 1) => DeadBranch(d)
  <2>1. Inner(cs, d, ds, m)
    BY <1>1, InnerContext
  <2>2. QED
    BY <2>1 DEF Inner
<1>3. Place(h, cs, m, T, R)
  BY <1>1
<1>4. ASSUME NEW i \in 1 .. m + 1, DeadIn(ds, i, m + 1) PROVE S = {}
  <2>1. CASE i = m + 1
    BY <1>2, <1>4, <2>1
  <2>2. CASE i # m + 1
    <3>1. i \in 1 .. m
      BY <1>1, <2>2
    <3>2. R = {}
      BY <1>2, <1>3, <1>4, <3>1 DEF Place
    <3>3. QED
      BY <3>2
  <2>3. QED
    BY <2>1, <2>2
<1>5. ASSUME NEW k \in 1 .. m + 1, CycleOf(ds, k, m + 1) PROVE InTurn(ds, k, m + 1, w, S)
  <2>1. k # m + 1
    BY <1>2, <1>5 DEF Blinding
  <2>2. k \in 1 .. m
    BY <1>1, <2>1
  <2>3. InTurn(cs, k, m, T, R) /\ ds[k] = cs[k]
    BY <1>2, <1>3, <1>5, <2>2 DEF Place
  <2>4. AsAround(ds[k], w) /\ Keeps(S, w)
    BY <2>3, AsAroundStill, KeepsMore, FewerFit DEF InTurn
  <2>5. ASSUME NEW i \in k .. m + 1 PROVE Keeps(ds[i].exits, w)
    <3>1. CASE i = m + 1
      BY <1>2, <3>1 DEF Keeps
    <3>2. CASE i # m + 1
      <4>1. i \in k .. m /\ i \in 1 .. m
        BY <1>1, <2>2, <3>2
      <4>2. QED
        BY <1>2, <2>3, <4>1, KeepsMore DEF InTurn
    <3>3. QED
      BY <3>1, <3>2
  <2>6. QED
    BY <2>4, <2>5 DEF InTurn
<1>6. QED
  BY <1>1, <1>4, <1>5 DEF Place

\* A checker that has found nothing so far.
Empty(d) ==
  /\ d.exits = {} /\ d.does = {} /\ d.gives = {} /\ d.term = "end" /\ d.branch = NoBranch
  /\ d.what # "else"
  /\ d.what = "then" => /\ d.cond.kind \in {"true", "false", "unknown"}
                        /\ d.cond.kind = "true" => d.reach = {}
  /\ d.what = "cycle" => d.cond.kind # "false call"

LEMMA EmptyPart ==
  ASSUME NEW d, Empty(d), NEW cs \in Seq(CheckerSet), NEW ds, ds = Append(cs, d)
  PROVE  Part(ds, Len(cs) + 1)
<1>1. ds[Len(cs) + 1] = d /\ Len(ds) = Len(cs) + 1 /\ Len(cs) \in Nat
  OBVIOUS
<1>2. d.branch.exits = {} /\ d.branch.term = "end"
  <2>1. d.branch = NoBranch
    BY DEF Empty
  <2>2. QED
    BY <2>1 DEF NoBranch
<1>3. Own(d)
  BY <1>2 DEF Own, Empty
<1>4. \A b : InDead(d, b)
  BY <1>2 DEF InDead, Empty
<1>5. Keeps(d.branch.exits, d.saved)
  BY <1>2 DEF Keeps
<1>6. QED
  BY <1>1, <1>3, <1>4, <1>5 DEF Part

\* Of a condition.
LEMMA ConditionView ==
  ASSUME Judged, AInv, checkers # <<>>, NEW h \in Holdings, Sound(h, checkers, values, reach),
         NEW c \in Conditions, MayTest(values, c)
  PROVE  LET tl == AfterCondition(values, c)
             E == Evaluated(reach, c)
         IN /\ Sane(tl) /\ Valid(tl, E) /\ Agreed(h, tl) /\ (reach = {} => E = {})
            /\ NoCycle(checkers) \/ GoesOn(values, reach, tl, E)
<1> DEFINE tl == AfterCondition(values, c)
           E == Evaluated(reach, c)
<1>1. /\ Sane(values) /\ Framed(checkers, values) /\ checkers \in Seq(CheckerSet)
      /\ reach \in SUBSET Pairs
  BY TopIs DEF AInv, DataInv
<1>2. Valid(values, reach) /\ Agreed(h, values)
  BY <1>1, PlaceNow
<1>3. Sane(tl)
  BY <1>1, AfterConditionIs
<1>4. c.name \in DeclaredNames(values) \cup {None} /\ c.name \in Names \cup {None}
      /\ MayMention(values, c.name)
  BY ConditionIs DEF MayTest
<1>5. CASE ~Calls(c)
  <2> DEFINE W == Mentioned(values, c.name)
  <2>1. tl = W /\ E = reach
    BY <1>5 DEF AfterCondition, Evaluated
  <2>2. /\ Sane(W) /\ SameVariables(values, W)
        /\ \A y \in DeclaredNames(values) : Raw(W, y) = Raw(values, y)
        /\ NoCycle(checkers) \/ Shrinks(values, W)
    BY <1>1, <1>4, MentionView
  <2> HIDE DEF W, tl, E
  <2>3. Valid(W, reach) /\ Agreed(h, W)
    BY <1>1, <1>2, <2>2, SameKnown
  <2>4. QED
    BY <2>1, <2>2, <2>3, FewerFit DEF GoesOn, tl, E
<1>6. CASE Calls(c)
  <2> DEFINE e == effects[FALSE]
             W == MakeAllUnknown(Mentioned(values, c.name))
  <2>1. tl = W /\ E = Called(reach, e)
    BY <1>6 DEF AfterCondition, Evaluated
  <2>2. /\ Sane(W)
        /\ \A R : Valid(W, R)
        /\ \A g : Agreed(g, W)
        /\ \A y \in Names : ~KeptIn(W, y)
    BY <1>1, <1>4, ForgottenMention
  <2> HIDE DEF e, W
  <2>3. \A q \in Called(reach, e) : \E p \in reach :
          q[1] = p[1] /\ \A x \in Names : x \notin e => q[2][x] = p[2][x]
    BY <1>1, CalledFrom
  <2> HIDE DEF tl, E
  <2>4. GoesOn(values, reach, tl, E)
    BY <2>1, <2>2, <2>3 DEF GoesOn, Shrinks, Comes
  <2>5. QED
    BY <1>3, <2>1, <2>2, <2>3, <2>4 DEF tl, E
<1>7. QED
  BY <1>5, <1>6

\* A known outcome is that of every execution.
LEMMA OutcomeIsRight ==
  ASSUME Sane(values), Valid(values, reach), NEW c \in Conditions
  PROVE  /\ Outcome(values, c) = "true" => Fail(Evaluated(reach, c), c) = {}
         /\ Outcome(values, c) = "false" => Pass(Evaluated(reach, c), c) = {}
<1>1. CASE c.kind = "is"
  <2>1. c.name \in DeclaredNames(values)
    BY <1>1, ConditionIs
  <2>2. \A p \in reach : Known(values, c.name).type # UnknownType =>
          TypeOf(p[2][c.name]) = Known(values, c.name).type
    BY <2>1 DEF Valid, Fits
  <2>3. Evaluated(reach, c) = reach
    BY <1>1 DEF Evaluated, Calls, CallKinds
  <2>4. /\ Pass(reach, c) = {p \in reach : TypeOf(p[2][c.name]) = c.type}
        /\ Fail(reach, c) = {p \in reach : TypeOf(p[2][c.name]) # c.type}
    BY <1>1 DEF Pass, Fail
  <2>5. /\ Outcome(values, c) = "true" => Known(values, c.name).type # UnknownType /\ Known(values, c.name).type = c.type
        /\ Outcome(values, c) = "false" => Known(values, c.name).type # UnknownType /\ Known(values, c.name).type # c.type
    BY <1>1 DEF Outcome
  <2>6. QED
    BY <2>2, <2>3, <2>4, <2>5
<1>2. CASE c.kind # "is"
  BY <1>2 DEF Outcome, Pass, Fail
<1>3. QED
  BY <1>1, <1>2

LEMMA ConditionGoes ==
  ASSUME AInv, checkers # <<>>, NEW c \in Conditions, NEW pure \in BOOLEAN, pure => ~Calls(c)
  PROVE  LET d == ConditionChecked(c, pure)
         IN d \in CheckerSet /\ Goes(d, Top, reach) /\ d.term = Top.term
<1> DEFINE does == IF Calls(c) THEN effects[FALSE] \cup {Output} ELSE {}
           xs == {c.name} \cap Names
           d == Checked(Top, pure, xs, does)
<1>1. does \in SUBSET (Names \cup {Output}) /\ (pure => does = {}) /\ xs \in SUBSET Names
  BY DEF AInv, DataInv
<1>2. Top \in CheckerSet
  BY TopIs DEF AInv
<1>3. ConditionChecked(c, pure) = d
  BY DEF ConditionChecked
<1> HIDE DEF does, xs
<1>4. d \in CheckerSet /\ Goes(d, Top, reach) /\ d.term = Top.term
  BY <1>1, <1>2, CheckedGoes
<1>5. QED
  BY <1>3, <1>4

\* The checker of a body that begins.
Starts(d, what, cond, saved, R) ==
  /\ d \in CheckerSet /\ d.what = what /\ d.cond = cond /\ d.saved = saved /\ d.reach = R
  /\ d.exits = {} /\ d.does = {} /\ d.gives = {} /\ d.term = "end" /\ d.branch = NoBranch

LEMMA FreshChecker ==
  ASSUME NEW what \in {"program", "then", "else", "cycle", "function"},
         NEW inFunction \in BOOLEAN, NEW inCycle \in BOOLEAN, NEW cond \in CondSet,
         NEW saved \in Timelines, NEW R \in SUBSET Pairs
  PROVE  Starts(Checker(what, inFunction, inCycle, cond, saved, R, NoBranch), what, cond, saved, R)
<1>1. NoBranch \in BranchSet /\ NoType \in ReturnTypes
  BY TypesOf
<1>2. Checker(what, inFunction, inCycle, cond, saved, R, NoBranch) \in CheckerSet
  BY <1>1 DEF Checker, CheckerSet, Terms
<1>3. QED
  BY <1>2 DEF Checker, Starts

LEMMA ScopeStarted ==
  ASSUME NEW T, Sane(T)
  PROVE  /\ Sane(StartScope(T)) /\ Shrinks(T, StartScope(T))
         /\ \A R : Valid(T, R) => Valid(StartScope(T), R)
         /\ \A h : Agreed(h, T) => Agreed(h, StartScope(T))
<1> DEFINE W == StartScope(T)
<1>1. /\ Sane(W) /\ SameVariables(T, W)
      /\ \A y \in DeclaredNames(T) : Raw(W, y) = Raw(T, y)
      /\ Shrinks(T, W)
  BY StartScopeView
<1> HIDE DEF W
<1>2. /\ \A R : Valid(T, R) => Valid(W, R)
      /\ \A h : Agreed(h, T) => Agreed(h, W)
  BY <1>1, SameKnown
<1>3. QED
  BY <1>1, <1>2 DEF W

LEMMA IfBeginSound == Judged /\ AInv /\ SoundInv /\ IfBegin => SoundInv'
<1> SUFFICES ASSUME Judged, AInv, SoundInv, IfBegin PROVE SoundInv'
  OBVIOUS
<1>1. checkers # <<>> /\ Top.term = "end" /\ ShapeInv /\ DataInv
  BY DEF AInv, IfBegin, NextStatement
<1>2. PICK c \in Conditions :
       LET tl == AfterCondition(values, c)
           R == Evaluated(reach, c)
           outcome == Outcome(values, c)
           pure == c.kind = "comparison" \/ (c.kind = "is" /\ outcome # "unknown")
       IN /\ MayTest(values, c)
          /\ Begin(ConditionChecked(c, pure),
                   Checker("then", Top.inFunction, Top.inCycle, Other(outcome), tl,
                           Fail(R, c), NoBranch),
                   tl, Pass(R, c))
  BY DEF IfBegin
<1> DEFINE tl == AfterCondition(values, c)
           E == Evaluated(reach, c)
           outcome == Outcome(values, c)
           pure == c.kind = "comparison" \/ (c.kind = "is" /\ outcome # "unknown")
           b == ConditionChecked(c, pure)
           F == Fail(E, c)
           d == Checker("then", Top.inFunction, Top.inCycle, Other(outcome), tl, F, NoBranch)
           w == StartScope(tl)
           S == Pass(E, c)
<1>3. MayTest(values, c) /\ checkers' = Append(SetTop(b), d) /\ values' = w /\ reach' = S
  BY <1>2 DEF Begin
<1>4. effects' = effects
  BY DEF IfBegin
<1>5. /\ Top \in CheckerSet /\ Sane(values) /\ checkers \in Seq(CheckerSet) /\ reach \in SUBSET Pairs
  BY <1>1, TopIs DEF DataInv
<1>6. PICK h \in Holdings : Sound(h, checkers, values, reach)
  BY DEF SoundInv
<1>7. Valid(values, reach) /\ Agreed(h, values) /\ effects[TRUE] = {}
  BY <1>5, <1>6, PlaceNow DEF SoundInv
<1>8. /\ Sane(tl) /\ Valid(tl, E) /\ Agreed(h, tl) /\ (reach = {} => E = {})
      /\ NoCycle(checkers) \/ GoesOn(values, reach, tl, E)
  BY <1>1, <1>3, <1>6, ConditionView
<1>9. /\ S \subseteq E /\ F \subseteq E
      /\ outcome = "true" => F = {}
      /\ outcome = "false" => S = {}
  BY <1>5, <1>7, ConditionIs, ConditionParts, OutcomeIsRight
<1>10. E \in SUBSET Pairs
  BY <1>5, ConditionIs, ConditionParts
<1>11. outcome \in {"true", "false", "unknown"} /\ Other(outcome) \in CondSet /\ Other(outcome).kind = outcome
  <2>1. outcome \in {"true", "false", "unknown"}
    BY ConditionParts
  <2> HIDE DEF outcome
  <2>2. QED
    BY <2>1, ConditionParts
<1>12. b \in CheckerSet /\ Goes(b, Top, reach) /\ b.term = "end"
  <2>1. pure \in BOOLEAN /\ (pure => ~Calls(c))
    BY DEF Calls, CallKinds
  <2> HIDE DEF pure
  <2>2. QED
    BY <1>1, <2>1, ConditionGoes
<1>13. tl \in Timelines /\ Top.inFunction \in BOOLEAN /\ Top.inCycle \in BOOLEAN /\ F \in SUBSET Pairs
  BY <1>5, <1>8, <1>9, <1>10, CheckerParts DEF Sane, Timelines
<1> HIDE DEF b, F, S, E, tl, outcome, pure
<1>14. /\ d \in CheckerSet /\ d.what = "then" /\ d.cond = Other(outcome) /\ d.saved = tl /\ d.reach = F
       /\ d.exits = {} /\ d.does = {} /\ d.gives = {} /\ d.term = "end" /\ d.branch = NoBranch
  <2>1. Starts(d, "then", Other(outcome), tl, F)
    BY <1>11, <1>13, FreshChecker
  <2> HIDE DEF d
  <2>2. QED
    BY <2>1 DEF Starts
<1>15. Valid(tl, F) /\ (reach = {} => F = {}) /\ (NoCycle(checkers) \/ GoesOn(values, reach, tl, F))
  BY <1>8, <1>9, FewerFit DEF GoesOn, Comes
<1> HIDE DEF d
<1>16. /\ Place(h, SetTop(b), Len(SetTop(b)), tl, E) /\ SetTop(b) \in Seq(CheckerSet)
       /\ Len(SetTop(b)) = Len(checkers)
  BY <1>1, <1>6, <1>8, <1>12, TopPlace
<1>17. Place(h, Append(SetTop(b), d), Len(checkers) + 1, w, S)
  <2>1. ~Blinding(d) /\ (DeadBranch(d) => S = {})
    BY <1>9, <1>11, <1>14 DEF Blinding, DeadBranch
  <2>2. Shrinks(tl, w) /\ Valid(w, S) /\ Agreed(h, w)
    BY <1>8, <1>9, ScopeStarted, FewerFit
  <2> HIDE DEF w
  <2>3. Place(h, Append(SetTop(b), d), Len(SetTop(b)) + 1, w, S)
    BY <1>9, <1>14, <1>16, <2>1, <2>2, BranchPlace
  <2>4. QED
    BY <1>16, <2>3
<1>18. Part(Append(SetTop(b), d), Len(checkers) + 1)
  <2>1. Empty(d)
    BY <1>9, <1>11, <1>14 DEF Empty
  <2>2. QED
    BY <1>16, <2>1, EmptyPart
<1>19. Valid(d.saved, d.reach) /\ Agreed(h, d.saved) /\ (reach = {} => d.reach = {})
       /\ (NoCycle(checkers) \/ GoesOn(values, reach, d.saved, d.reach))
  BY <1>8, <1>14, <1>15
<1>20. Place(h, Append(SetTop(b), d), Len(checkers) + 1, values', reach')
  BY <1>3, <1>17
<1>21. checkers' = Append(SetTop(b), d)
  BY <1>3
<1>22. QED
  BY <1>1, <1>4, <1>6, <1>7, <1>12, <1>14, <1>18, <1>19, <1>20, <1>21, BegunSound

LEMMA WhileRemovedSound == Judged /\ AInv /\ SoundInv /\ WhileRemoved => SoundInv'
<1> SUFFICES ASSUME Judged, AInv, SoundInv, WhileRemoved PROVE SoundInv'
  OBVIOUS
<1>1. checkers # <<>> /\ Top.term = "end" /\ ShapeInv /\ DataInv
  BY DEF AInv, WhileRemoved, NextStatement
<1>2. PICK c \in Conditions :
       /\ Outcome(values, c) = "false"
       /\ Calls(c) => "call in a false while" \in Constructs
       /\ reach' = Fail(Evaluated(reach, c), c)
       /\ checkers' = SetTop(IF Calls(c) THEN ConditionChecked(c, FALSE)
                             ELSE [ConditionChecked(c, FALSE) EXCEPT !.uses = Top.uses])
  BY DEF WhileRemoved
<1>3. values' = values /\ effects' = effects
  BY DEF WhileRemoved
<1>4. Top \in CheckerSet /\ checkers \in Seq(CheckerSet)
  BY <1>1, TopIs
<1>5. PICK h \in Holdings : Sound(h, checkers, values, reach)
  BY DEF SoundInv
<1>6. Valid(values, reach) /\ Agreed(h, values) /\ effects[TRUE] = {}
  BY <1>4, <1>5, PlaceNow DEF SoundInv
<1>7. reach' \subseteq reach
  <2>1. Evaluated(reach, c) = reach
    BY <1>2 DEF Judged, Evaluated
  <2>2. QED
    BY <1>2, <2>1, ConditionIs, ConditionParts
<1> DEFINE d == ConditionChecked(c, FALSE)
           e == [d EXCEPT !.uses = Top.uses]
<1>8. d \in CheckerSet /\ Goes(d, Top, reach) /\ d.term = Top.term
  BY <1>1, ConditionGoes
<1>9. checkers' = SetTop(e)
  BY <1>2 DEF Judged
<1> HIDE DEF d
<1>10. e \in CheckerSet /\ Goes(e, Top, reach) /\ e.term = "end"
  <2>1. Top.uses \in SUBSET Names
    BY <1>4, CheckerParts
  <2>2. /\ e \in CheckerSet /\ Framing(e, d) /\ e.term = d.term /\ e.exits = d.exits /\ e.pure = d.pure
        /\ e.returned = d.returned /\ e.gives = d.gives /\ e.odd = d.odd /\ e.does = d.does
    BY <1>8, <2>1 DEF CheckerSet, Framing
  <2> HIDE DEF e
  <2>3. QED
    BY <1>1, <1>8, <2>2 DEF Goes, Framing, Adds, Same
<1> HIDE DEF e
<1>11. Valid(values, reach') /\ GoesOn(values, reach, values, reach') /\ (reach = {} => reach' = {})
  BY <1>6, <1>7, FewerFit, ShrinksIsPreorder DEF GoesOn
<1>12. QED
  BY <1>1, <1>3, <1>5, <1>6, <1>9, <1>10, <1>11, TopStepSound

-----------------------------------------------------------------------------
(* A cycle or a function begins.                                           *)

\* A turn begins with anything in the variables.
LEMMA AnyTurnIs ==
  /\ reach = {} => AnyTurn = {}
  /\ \A p \in AnyTurn : p[2] = p[1]
<1>1. \A p \in Identity(AnyStore(DeclaredNames(values))) : p[2] = p[1]
  BY DEF Identity
<1>2. QED
  BY <1>1 DEF AnyTurn

LEMMA UpTo ==
  \A m \in Nat : /\ \A i \in 1 .. m + 1 : i = m + 1 \/ i \in 1 .. m
                 /\ \A i \in m + 1 .. m + 1 : i = m + 1
OBVIOUS

LEMMA CycleBegun ==
  ASSUME AInv, checkers # <<>>, Top.term = "end",
         NEW h \in Holdings, Sound(h, checkers, values, reach), effects[TRUE] = {},
         NEW c \in CheckerSet, Goes(c, Top, reach), c.term = "end",
         NEW cond \in CondSet, cond.kind # "false call",
         NEW tl, Sane(tl), Valid(tl, reach'), Agreed(h, tl), Keeps(reach', tl),
         \A x \in Names : KeptIn(tl, x) =>
           ~Calls(cond) /\ x \in DeclaredNames(values) /\ Raw(tl, x) = Raw(values, x),
         reach = {} => reach' = {}, values' = StartScope(tl),
         checkers' = Append(SetTop(c), Checker("cycle", Top.inFunction, TRUE, cond, values, reach, NoBranch)),
         effects' = effects
  PROVE  SoundInv'
<1> DEFINE d == Checker("cycle", Top.inFunction, TRUE, cond, values, reach, NoBranch)
           ds == Append(SetTop(c), d)
<1>1. /\ Top \in CheckerSet /\ Sane(values) /\ checkers \in Seq(CheckerSet) /\ reach \in SUBSET Pairs
  BY TopIs DEF AInv, DataInv
<1>2. values \in Timelines /\ Top.inFunction \in BOOLEAN /\ TRUE \in BOOLEAN
  BY <1>1, CheckerParts DEF Sane, Timelines
<1>3. /\ d \in CheckerSet /\ d.what = "cycle" /\ d.cond = cond /\ d.saved = values /\ d.reach = reach
      /\ d.exits = {} /\ d.does = {} /\ d.gives = {} /\ d.term = "end" /\ d.branch = NoBranch
  <2>1. Starts(d, "cycle", cond, values, reach)
    BY <1>1, <1>2, FreshChecker
  <2> HIDE DEF d
  <2>2. QED
    BY <2>1 DEF Starts
<1>4. checkers' = Append(SetTop(c), d)
  OBVIOUS
<1> HIDE DEF d
<1>5. Valid(values, reach) /\ Agreed(h, values) /\ GoesOn(values, reach, values, reach)
  BY <1>1, PlaceNow, ShrinksIsPreorder, FewerFit DEF GoesOn
<1>6. /\ Place(h, SetTop(c), Len(SetTop(c)), values, reach) /\ SetTop(c) \in Seq(CheckerSet)
      /\ Len(SetTop(c)) = Len(checkers)
  BY <1>5, TopPlace
<1>7. PICK m \in Nat : m = Len(checkers)
  BY TopIs, Zenon DEF AInv
<1>8. Inner(SetTop(c), d, ds, m)
  BY <1>6, <1>7, InnerContext
<1> HIDE DEF ds
<1>9. Shrinks(tl, values') /\ Valid(values', reach') /\ Agreed(h, values')
  BY ScopeStarted
<1>10. ds[m + 1] = d
  BY <1>8 DEF Inner
<1>11. ASSUME NEW i \in 1 .. m + 1, DeadIn(ds, i, m + 1) PROVE reach' = {}
  <2>1. i # m + 1
    BY <1>3, <1>8, <1>11 DEF Inner, DeadBranch
  <2>2. i \in 1 .. m
    BY <2>1, UpTo
  <2>3. DeadIn(SetTop(c), i, m)
    BY <1>8, <1>11, <2>2 DEF Inner
  <2>4. reach = {}
    BY <1>6, <1>7, <2>2, <2>3 DEF Place
  <2>5. QED
    BY <2>4
<1>12. ASSUME NEW k \in 1 .. m + 1, CycleOf(ds, k, m + 1) PROVE InTurn(ds, k, m + 1, values', reach')
  <2>1. k = m + 1
    <3>1. ~(k \in 1 .. m)
      BY <1>3, <1>8, <1>12 DEF Inner, Blinding
    <3>2. QED
      BY <3>1, UpTo
  <2>2. AsAround(d, tl) /\ AsAround(d, values')
    <3>1. AsAround(d, tl)
      BY <1>3 DEF AsAround
    <3>2. QED
      BY <1>9, <3>1, AsAroundStill
  <2>3. Keeps(reach', values')
    BY <1>9, KeepsMore
  <2>4. \A i \in k .. m + 1 : i = m + 1
    BY <2>1, UpTo
  <2>5. \A i \in k .. m + 1 : Keeps(ds[i].exits, values')
    BY <1>3, <1>10, <2>4 DEF Keeps
  <2>6. QED
    BY <1>10, <2>1, <2>2, <2>3, <2>5 DEF InTurn
<1>13. Place(h, ds, m + 1, values', reach')
  BY <1>9, <1>11, <1>12 DEF Place
<1>14. Part(ds, m + 1)
  <2>1. Empty(d)
    BY <1>3 DEF Empty
  <2>2. QED
    BY <1>6, <1>7, <2>1, EmptyPart DEF ds
<1>15. Valid(d.saved, d.reach) /\ Agreed(h, d.saved) /\ (reach = {} => d.reach = {})
       /\ (NoCycle(checkers) \/ GoesOn(values, reach, d.saved, d.reach))
  BY <1>3, <1>5
<1>16. Place(h, Append(SetTop(c), d), Len(checkers) + 1, values', reach')
       /\ Part(Append(SetTop(c), d), Len(checkers) + 1)
  BY <1>7, <1>13, <1>14 DEF ds
<1>17. QED
  BY <1>3, <1>4, <1>15, <1>16, BegunSound

LEMMA BlindView ==
  ASSUME NEW tl, Sane(tl), NEW h, Agreed(h, tl)
  PROVE  LET B == StartBlindScope(tl)
         IN /\ Sane(B) /\ DeclaredNames(B) = DeclaredNames(tl)
            /\ \A y \in DeclaredNames(tl) : Raw(B, y) = Raw(tl, y) /\ Hidden(B, y)
            /\ Agreed(h, B)
<1> DEFINE B == StartBlindScope(tl)
<1>1. /\ Sane(B) /\ DeclaredNames(B) = DeclaredNames(tl)
      /\ \A y \in DeclaredNames(tl) : Raw(B, y) = Raw(tl, y) /\ Hidden(B, y)
  BY StartBlindScopeView
<1> HIDE DEF B
<1>2. QED
  BY <1>1 DEF Agreed, B

\* All variables of T are those around the cycle.
FromAround(h, T) ==
  /\ Sane(T) /\ Agreed(h, T) /\ \A R : Valid(T, R)
  /\ \A x \in Names : KeptIn(T, x) => x \in DeclaredNames(values) /\ Raw(T, x) = Raw(values, x)

LEMMA AllHidden ==
  ASSUME NEW h, NEW T, Sane(T), DeclaredNames(T) = DeclaredNames(values), Agreed(h, T),
         \A y \in DeclaredNames(values) : Raw(T, y) = Raw(values, y) /\ Hidden(T, y)
  PROVE  FromAround(h, T)
<1>1. \A y \in DeclaredNames(T) : Known(T, y) = Unknown
  BY RawIs
<1>2. \A R : Valid(T, R)
  BY <1>1, NothingKnown
<1>3. QED
  BY <1>2 DEF FromAround, KeptIn

LEMMA BlindCondition ==
  ASSUME Sane(values), NEW h, Agreed(h, values), NEW c \in Conditions
  PROVE  LET w == AfterCondition(StartBlindScope(values), c)
         IN FromAround(h, w) /\ \A x \in Names : KeptIn(w, x) => ~Calls(c)
<1> DEFINE B == StartBlindScope(values)
<1>1. /\ Sane(B) /\ DeclaredNames(B) = DeclaredNames(values)
      /\ \A y \in DeclaredNames(values) : Raw(B, y) = Raw(values, y) /\ Hidden(B, y)
      /\ Agreed(h, B)
  BY BlindView
<1> HIDE DEF B
<1> DEFINE w == AfterCondition(B, c)
<1>2. Sane(w)
  BY <1>1, AfterConditionIs
<1>3. CASE ~Calls(c) /\ c.name # None
  <2> DEFINE x == c.name
             W == Refer(B, x, FALSE)
  <2>1. w = W /\ ~Calls(c)
    BY <1>3 DEF AfterCondition, Mentioned, LookupVariable
  <2>2. x \in Names /\ FALSE \in BOOLEAN
    BY <1>3, ConditionIs
  <2> HIDE DEF x
  <2>3. /\ SameVariables(B, W)
        /\ \A y \in DeclaredNames(B) : Raw(W, y) = Raw(B, y)
        /\ FALSE \/ ~ReadAgain(B, x) => Shrinks(B, W)
        /\ FALSE => ~KeptIn(W, x)
    BY <1>1, <2>2, ReferView
  <2>4. Sane(W)
    BY <1>2, <2>1
  <2> HIDE DEF W, w
  <2>5. Agreed(h, W)
    BY <1>1, <2>3, <2>4, SameKnown
  <2>6. DeclaredNames(W) = DeclaredNames(values) /\
        \A y \in DeclaredNames(values) : Raw(W, y) = Raw(values, y) /\ Hidden(W, y)
    BY <1>1, <2>3 DEF SameVariables
  <2>7. FromAround(h, W)
    BY <2>4, <2>5, <2>6, AllHidden
  <2>8. QED
    BY <2>1, <2>7 DEF B, w
<1>4. CASE ~Calls(c) /\ c.name = None
  <2>1. w = B
    BY <1>4 DEF AfterCondition, Mentioned
  <2>2. FromAround(h, B)
    BY <1>1, AllHidden
  <2>3. QED
    BY <1>4, <2>1, <2>2 DEF B
<1>5. CASE Calls(c)
  <2> DEFINE W == MakeAllUnknown(Mentioned(B, c.name))
  <2>1. w = W
    BY <1>5 DEF AfterCondition
  <2>2. /\ Sane(W)
        /\ \A R : Valid(W, R)
        /\ \A g : Agreed(g, W)
        /\ \A y \in Names : ~KeptIn(W, y)
    BY <1>1, ConditionIs, ForgottenMention
  <2> HIDE DEF W
  <2>3. QED
    BY <2>1, <2>2 DEF FromAround, B
<1>6. QED
  BY <1>3, <1>4, <1>5

LEMMA WhileBeginSound == Judged /\ AInv /\ SoundInv /\ WhileBegin => SoundInv'
<1> SUFFICES ASSUME Judged, AInv, SoundInv, WhileBegin PROVE SoundInv'
  OBVIOUS
<1>1. checkers # <<>> /\ Top.term = "end" /\ ShapeInv /\ DataInv
  BY DEF AInv, WhileBegin, NextStatement
<1> DEFINE B == StartBlindScope(values)
<1>2. PICK c \in Conditions :
        /\ Outcome(values, c) # "false"
        /\ CycleBegin(ConditionChecked(c, FALSE), c, AfterCondition(B, c), Pass(Evaluated(AnyTurn, c), c))
  BY DEF WhileBegin
<1> DEFINE b == ConditionChecked(c, FALSE)
           w == AfterCondition(B, c)
           S == Pass(Evaluated(AnyTurn, c), c)
<1>3. /\ checkers' = Append(SetTop(b), Checker("cycle", Top.inFunction, TRUE, c, values, reach, NoBranch))
      /\ values' = StartScope(w) /\ reach' = S
  BY <1>2, Zenon DEF CycleBegin, Begin
<1>4. effects' = effects
  BY DEF WhileBegin
<1>5. Sane(values) /\ checkers \in Seq(CheckerSet)
  BY <1>1, TopIs
<1>6. PICK h \in Holdings : Sound(h, checkers, values, reach)
  BY DEF SoundInv
<1>7. Agreed(h, values) /\ effects[TRUE] = {}
  BY <1>5, <1>6, PlaceNow DEF SoundInv
<1>8. FromAround(h, w) /\ \A x \in Names : KeptIn(w, x) => ~Calls(c)
  BY <1>5, <1>7, BlindCondition
<1>9. b \in CheckerSet /\ Goes(b, Top, reach) /\ b.term = "end"
  BY <1>1, ConditionGoes
<1>10. c \in CondSet /\ c.kind # "false call"
  BY <1>2, ConditionIs DEF Outcome
<1>11. (reach = {} => S = {}) /\ (~Calls(c) => S \subseteq AnyTurn)
  <2>1. S \subseteq Evaluated(AnyTurn, c)
    BY <1>10, ConditionParts
  <2>2. ~Calls(c) => Evaluated(AnyTurn, c) = AnyTurn
    BY DEF Evaluated
  <2>3. AnyTurn = {} => Evaluated(AnyTurn, c) = {}
    <3> DEFINE e == effects[FALSE]
               A == AnyTurn
    <3>1. A \in SUBSET Pairs
      BY AnyTurnIn
    <3>2. Evaluated(A, c) = IF Calls(c) THEN Called(A, e) ELSE A
      BY DEF Evaluated
    <3> HIDE DEF e, A
    <3>3. \A q \in Called(A, e) : \E p \in A :
            q[1] = p[1] /\ \A x \in Names : x \notin e => q[2][x] = p[2][x]
      BY <3>1, CalledFrom
    <3>4. A = {} => Evaluated(A, c) = {}
      BY <3>2, <3>3
    <3>5. QED
      BY <3>4 DEF A
  <2> HIDE DEF S
  <2>4. QED
    BY <2>1, <2>2, <2>3, AnyTurnIs
<1> HIDE DEF b, w, S
<1>12. Keeps(reach', w)
  BY <1>3, <1>8, <1>11, AnyTurnIs DEF Keeps
<1>13. /\ Sane(w) /\ Valid(w, reach') /\ Agreed(h, w)
       /\ \A x \in Names : KeptIn(w, x) =>
            ~Calls(c) /\ x \in DeclaredNames(values) /\ Raw(w, x) = Raw(values, x)
  BY <1>8 DEF FromAround
<1>14. reach = {} => reach' = {}
  BY <1>3, <1>11
<1>15. values' = StartScope(w) /\
       checkers' = Append(SetTop(b), Checker("cycle", Top.inFunction, TRUE, c, values, reach, NoBranch))
  BY <1>3
<1>16. QED
  BY <1>1, <1>4, <1>6, <1>7, <1>9, <1>10, <1>12, <1>13, <1>14, <1>15, CycleBegun

LEMMA LoopBeginSound == Judged /\ AInv /\ SoundInv /\ LoopBegin => SoundInv'
<1> SUFFICES ASSUME Judged, AInv, SoundInv, LoopBegin PROVE SoundInv'
  OBVIOUS
<1>1. checkers # <<>> /\ Top.term = "end" /\ ShapeInv /\ DataInv
  BY DEF AInv, LoopBegin, NextStatement
<1> DEFINE w == StartBlindScope(values)
<1>2. /\ checkers' = Append(SetTop(Top), Checker("cycle", Top.inFunction, TRUE, Always, values, reach, NoBranch))
      /\ values' = StartScope(w) /\ reach' = AnyTurn
  BY Zenon DEF LoopBegin, CycleBegin, Begin
<1>3. effects' = effects
  BY DEF LoopBegin
<1>4. Sane(values) /\ checkers \in Seq(CheckerSet) /\ Top \in CheckerSet
  BY <1>1, TopIs
<1>5. PICK h \in Holdings : Sound(h, checkers, values, reach)
  BY DEF SoundInv
<1>6. Agreed(h, values) /\ effects[TRUE] = {}
  BY <1>4, <1>5, PlaceNow DEF SoundInv
<1>7. /\ Sane(w) /\ DeclaredNames(w) = DeclaredNames(values)
      /\ \A y \in DeclaredNames(values) : Raw(w, y) = Raw(values, y) /\ Hidden(w, y)
      /\ Agreed(h, w)
  BY <1>4, <1>6, BlindView
<1> HIDE DEF w
<1>8. FromAround(h, w)
  BY <1>7, AllHidden
<1>9. Goes(Top, Top, reach)
  <2>1. Top.returned = AddReturnType(Top.returned, NoType) /\ NoType \in ReturnTypes
    BY <1>4, CheckerParts, CoverIs, TypesOf
  <2>2. QED
    BY <2>1 DEF Goes, Framing, Adds, Same
<1>10. Always \in CondSet /\ Always.kind # "false call" /\ ~Calls(Always)
  BY ConditionParts DEF Always, Other, Calls, CallKinds
<1>11. /\ Keeps(reach', w) /\ (reach = {} => reach' = {})
  BY <1>2, AnyTurnIs DEF Keeps
<1> DEFINE a == Always
<1>12. /\ Valid(w, reach')
       /\ \A x \in Names : KeptIn(w, x) =>
            ~Calls(a) /\ x \in DeclaredNames(values) /\ Raw(w, x) = Raw(values, x)
  BY <1>8, <1>10 DEF FromAround
<1>13. a \in CondSet /\ a.kind # "false call" /\ values' = StartScope(w) /\
       checkers' = Append(SetTop(Top), Checker("cycle", Top.inFunction, TRUE, a, values, reach, NoBranch))
  BY <1>2, <1>10
<1> HIDE DEF a
<1>14. QED
  BY <1>1, <1>3, <1>4, <1>5, <1>6, <1>7, <1>9, <1>11, <1>12, <1>13, CycleBegun

LEMMA ForBeginSound == Judged /\ AInv /\ SoundInv /\ ForBegin => SoundInv'
<1> SUFFICES ASSUME Judged, AInv, SoundInv, ForBegin PROVE SoundInv'
  OBVIOUS
<1>1. checkers # <<>> /\ Top.term = "end" /\ ShapeInv /\ DataInv
  BY DEF AInv, ForBegin, NextStatement
<1> DEFINE B == StartBlindScope(values)
           b == Checked(Top, FALSE, {}, {})
           a == Other("unknown")
<1>2. /\ Sane(values) /\ checkers \in Seq(CheckerSet) /\ Top \in CheckerSet
      /\ Framed(checkers, values)
  BY <1>1, TopIs
<1>3. PICK h \in Holdings : Sound(h, checkers, values, reach)
  BY DEF SoundInv
<1>4. Agreed(h, values) /\ effects[TRUE] = {} /\ effects' = effects
  BY <1>2, <1>3, PlaceNow DEF SoundInv, ForBegin
<1>5. /\ Sane(B) /\ DeclaredNames(B) = DeclaredNames(values)
      /\ \A y \in DeclaredNames(values) : Raw(B, y) = Raw(values, y) /\ Hidden(B, y)
      /\ Agreed(h, B)
  BY <1>2, <1>4, BlindView
<1>6. b \in CheckerSet /\ Goes(b, Top, reach) /\ b.term = "end"
  <2>1. {} \in SUBSET Names /\ {} \in SUBSET (Names \cup {Output})
    OBVIOUS
  <2>2. QED
    BY <1>1, <1>2, <2>1, CheckedGoes
<1>7. a \in CondSet /\ a.kind # "false call" /\ ~Calls(a)
  BY ConditionParts DEF Calls, CallKinds, Other
<1> DEFINE d == Checker("cycle", Top.inFunction, TRUE, a, values, reach, NoBranch)
<1>8. CASE CycleBegin(b, a, B, AnyTurn)
  <2>1. checkers' = Append(SetTop(b), d) /\ values' = StartScope(B) /\ reach' = AnyTurn
    BY <1>8, Zenon DEF CycleBegin, Begin
  <2> HIDE DEF a, b, B
  <2>2. FromAround(h, B)
    BY <1>5, AllHidden
  <2>3. Keeps(reach', B) /\ (reach = {} => reach' = {})
    BY <2>1, AnyTurnIs DEF Keeps
  <2>4. /\ Valid(B, reach')
        /\ \A x \in Names : KeptIn(B, x) =>
             ~Calls(a) /\ x \in DeclaredNames(values) /\ Raw(B, x) = Raw(values, x)
    BY <1>7, <2>2 DEF FromAround
  <2>5. QED
    BY <1>1, <1>3, <1>4, <1>5, <1>6, <1>7, <2>1, <2>3, <2>4, CycleBegun
<1>9. ASSUME NEW x \in Names \ DeclaredNames(values), NEW item \in {"int", UnknownType},
             CycleBegin(b, a, Assign(Declare(B, x, Fresh), x, OfType(item)),
                        SetTo(AnyTurn, x, IF item = "int" THEN Ints ELSE Values))
      PROVE  SoundInv'
  <2> DEFINE D == Declare(B, x, Fresh)
             e == OfType(item)
             W == Assign(D, x, e)
             vs == IF item = "int" THEN Ints ELSE Values
  <2>1. checkers' = Append(SetTop(b), d) /\ values' = StartScope(W) /\ reach' = SetTo(AnyTurn, x, vs)
    BY <1>9, Zenon DEF CycleBegin, Begin
  <2> HIDE DEF a, b, B
  <2>2. Fresh \in Nat \ {NoObject} /\ x \in Names \ DeclaredNames(B) /\ e \in Entry
    <3>1. item \in Types \cup {UnknownType}
      BY DEF Types
    <3>2. e \in Entry
      BY <3>1 DEF Entry
    <3>3. Fresh \in Nat \ {NoObject}
      BY <1>2, FreshIs
    <3>4. QED
      BY <1>5, <3>2, <3>3
  <2>3. /\ Sane(D) /\ DeclaredNames(D) = DeclaredNames(B) \cup {x}
        /\ ~Hidden(D, x)
        /\ \A y \in DeclaredNames(B) : Raw(D, y) = Raw(B, y) /\ (Hidden(D, y) <=> Hidden(B, y))
        /\ Shrinks(B, D)
    BY <1>5, <2>2, DeclareView
  <2>4. x \in DeclaredNames(D)
    BY <2>3
  <2> HIDE DEF D
  <2>5. /\ Sane(W) /\ SameVariables(D, W) /\ Raw(W, x) = e
        /\ \A y \in DeclaredNames(D) : y # x => Raw(W, y) = Raw(D, y)
        /\ Shrinks(D, W) /\ ~KeptIn(W, x)
    BY <2>2, <2>3, <2>4, AssignView
  <2> HIDE DEF W
  <2>6. \A y \in DeclaredNames(W) : y # x =>
          y \in DeclaredNames(values) /\ Raw(W, y) = Raw(values, y) /\ Hidden(W, y)
    BY <1>5, <2>3, <2>5 DEF SameVariables
  <2>7. Agreed(h, W)
    <3>1. Holding(h, e)
      BY UnknownFits
    <3>2. ASSUME NEW y \in DeclaredNames(W), y # x PROVE Holding(h, Raw(W, y))
      BY <1>4, <2>6, <3>2 DEF Agreed
    <3>3. QED
      BY <2>5, <3>1, <3>2 DEF Agreed
  <2>8. \A q \in reach' : \E p \in AnyTurn : \E v \in vs :
          q[1] = p[1] /\ q[2][x] = v /\ \A y \in Names : y # x => q[2][y] = p[2][y]
    <3> SUFFICES ASSUME NEW q \in reach'
                 PROVE  \E p \in AnyTurn : \E v \in vs :
                          q[1] = p[1] /\ q[2][x] = v /\ \A y \in Names : y # x => q[2][y] = p[2][y]
      OBVIOUS
    <3> DEFINE A == AnyTurn
    <3>1. q \in UNION {{<<p[1], [p[2] EXCEPT ![x] = v]>> : v \in vs} : p \in A}
      BY <2>1 DEF SetTo
    <3> HIDE DEF vs
    <3>2. A \in SUBSET Pairs
      BY AnyTurnIn
    <3> HIDE DEF A
    <3>3. PICK p \in A : \E v \in vs : q = <<p[1], [p[2] EXCEPT ![x] = v]>>
      BY <3>1
    <3>4. PICK v \in vs : q = <<p[1], [p[2] EXCEPT ![x] = v]>>
      BY <3>3
    <3>5. p[2] \in [Names -> Values]
      BY <3>2, PairIs DEF Stores
    <3>6. q[1] = p[1] /\ q[2][x] = v /\ \A y \in Names : y # x => q[2][y] = p[2][y]
      BY <3>4, <3>5
    <3>7. QED
      BY <3>6 DEF A
  <2>9. Valid(W, reach')
    <3> SUFFICES ASSUME NEW y \in DeclaredNames(W), NEW q \in reach' PROVE Fits(Known(W, y), q[2][y])
      BY DEF Valid
    <3>1. Known(W, y) = IF Hidden(W, y) THEN Unknown ELSE Raw(W, y)
      BY <2>5, RawIs
    <3>2. CASE y # x
      BY <2>6, <3>1, <3>2, UnknownFits
    <3>3. CASE y = x
      <4>1. Known(W, y) = Unknown \/ Known(W, y) = e
        BY <2>5, <3>1, <3>3
      <4>2. item = "int" => q[2][x] \in Ints
        BY <2>8
      <4>3. Fits(e, q[2][x])
        BY <4>2 DEF Fits, OfType, IsValue, TypeOf, UnknownType
      <4>4. QED
        BY <3>3, <4>1, <4>3, UnknownFits
    <3>4. QED
      BY <3>2, <3>3
  <2> HIDE DEF vs, e
  <2>10. Keeps(reach', W)
    BY <2>5, <2>8, AnyTurnIs DEF Keeps
  <2>11. reach = {} => reach' = {}
    BY <2>8, AnyTurnIs
  <2>12. \A y \in Names : KeptIn(W, y) => ~Calls(a) /\ y \in DeclaredNames(values) /\ Raw(W, y) = Raw(values, y)
    BY <1>7, <2>5, <2>6 DEF KeptIn
  <2>13. checkers' = Append(SetTop(b), d) /\ values' = StartScope(W)
    BY <2>1
  <2>14. QED
    BY <1>1, <1>3, <1>4, <1>6, <1>7, <2>5, <2>7, <2>9, <2>10, <2>11, <2>12, <2>13, CycleBegun
<1>10. QED
  BY <1>8, <1>9 DEF ForBegin

LEMMA FunctionBeginSound == Judged /\ AInv /\ SoundInv /\ FunctionBegin => SoundInv'
<1> SUFFICES ASSUME Judged, AInv, SoundInv, FunctionBegin PROVE SoundInv'
  OBVIOUS
<1>1. checkers # <<>> /\ Top.term = "end" /\ ShapeInv /\ DataInv
  BY DEF AInv, FunctionBegin, NextStatement
<1>2. PICK params \in SUBSET (Names \ DeclaredNames(values)) :
       LET declared == DeclareParameters(StartBlindScope(values), params)
       IN Begin(Top, Checker("function", TRUE, FALSE, Always, values, reach, NoBranch),
                declared, Identity(AnyStore(DeclaredNames(declared))))
  BY DEF FunctionBegin
<1> DEFINE w == DeclareParameters(StartBlindScope(values), params)
           d == Checker("function", TRUE, FALSE, Always, values, reach, NoBranch)
           ds == Append(SetTop(Top), d)
<1>3. checkers' = Append(SetTop(Top), d) /\ values' = StartScope(w)
  BY <1>2, Zenon DEF Begin
<1>4. /\ Sane(values) /\ checkers \in Seq(CheckerSet) /\ Top \in CheckerSet /\ reach \in SUBSET Pairs
      /\ effects' = effects
  BY <1>1, TopIs DEF DataInv, FunctionBegin
<1>5. PICK h \in Holdings : Sound(h, checkers, values, reach)
  BY DEF SoundInv
<1>6. Agreed(h, values) /\ Valid(values, reach) /\ effects[TRUE] = {}
  BY <1>4, <1>5, PlaceNow DEF SoundInv
<1>7. Sane(w) /\ \A y \in DeclaredNames(w) :
              /\ Known(w, y) = Unknown
              /\ Raw(w, y) = Unknown \/ (y \in DeclaredNames(values) /\ Raw(w, y) = Raw(values, y))
  BY <1>4, ParametersView
<1> HIDE DEF w
<1>8. Valid(w, reach') /\ Agreed(h, w)
  BY <1>6, <1>7, NothingKnown, UnknownFits DEF Agreed
<1>9. Valid(values', reach') /\ Agreed(h, values')
  BY <1>3, <1>7, <1>8, ScopeStarted
<1>10. Goes(Top, Top, reach)
  <2>1. Top.returned = AddReturnType(Top.returned, NoType) /\ NoType \in ReturnTypes
    BY <1>4, CheckerParts, CoverIs, TypesOf
  <2>2. QED
    BY <2>1 DEF Goes, Framing, Adds, Same
<1>11. /\ d \in CheckerSet /\ d.what = "function" /\ d.cond = Always /\ d.saved = values /\ d.reach = reach
       /\ d.exits = {} /\ d.does = {} /\ d.gives = {} /\ d.term = "end" /\ d.branch = NoBranch
  <2>1. values \in Timelines /\ Always \in CondSet
    BY <1>4, ConditionParts DEF Sane, Timelines
  <2>2. Starts(d, "function", Always, values, reach)
    BY <1>4, <2>1, FreshChecker
  <2> HIDE DEF d
  <2>3. QED
    BY <2>2 DEF Starts
<1> HIDE DEF d
<1>12. GoesOn(values, reach, values, reach)
  BY ShrinksIsPreorder, FewerFit DEF GoesOn
<1>13. /\ Place(h, SetTop(Top), Len(SetTop(Top)), values, reach) /\ SetTop(Top) \in Seq(CheckerSet)
       /\ Len(SetTop(Top)) = Len(checkers)
  BY <1>1, <1>4, <1>5, <1>6, <1>10, <1>12, TopPlace
<1>14. PICK m \in Nat : m = Len(checkers)
  BY <1>1, TopIs, Zenon
<1>15. Inner(SetTop(Top), d, ds, m)
  BY <1>13, <1>14, InnerContext
<1>16. Place(h, ds, m + 1, values', reach')
  <2>1. \A i \in 1 .. m + 1 : ~DeadIn(ds, i, m + 1)
    BY <1>11, <1>15, UpTo DEF Inner, DeadBranch
  <2>2. \A k \in 1 .. m + 1 : ~CycleOf(ds, k, m + 1)
    BY <1>11, <1>15, UpTo DEF Inner, Blinding
  <2>3. QED
    BY <1>9, <2>1, <2>2 DEF Place
<1>17. Part(ds, m + 1)
  <2>1. Empty(d)
    BY <1>11 DEF Empty
  <2>2. QED
    BY <1>13, <1>14, <2>1, EmptyPart
<1>18. Place(h, Append(SetTop(Top), d), Len(checkers) + 1, values', reach')
       /\ Part(Append(SetTop(Top), d), Len(checkers) + 1)
  BY <1>14, <1>16, <1>17
<1>19. Valid(d.saved, d.reach) /\ Agreed(h, d.saved) /\ (reach = {} => d.reach = {})
       /\ (NoCycle(checkers) \/ GoesOn(values, reach, d.saved, d.reach))
  BY <1>6, <1>11, <1>12
<1>20. checkers' = Append(SetTop(Top), d)
  BY <1>3
<1>21. QED
  BY <1>1, <1>4, <1>5, <1>6, <1>10, <1>11, <1>18, <1>19, <1>20, BegunSound

-----------------------------------------------------------------------------
(* The end of a branch.                                                    *)

\* The checkers around the one on top.
Under(cs, fs, n) ==
  /\ n \in Nat /\ Len(cs) = n + 1 /\ Len(fs) = n /\ fs \in Seq(CheckerSet)
  /\ cs[n + 1] = Last(cs) /\ Last(cs) \in CheckerSet
  /\ \A i \in 1 .. n : fs[i] = cs[i]
  /\ \A i \in 1 .. n : DeadIn(fs, i, n) /\ Last(cs).what # "function" => DeadIn(cs, i, n + 1)
  /\ \A k \in 1 .. n : CycleOf(fs, k, n) /\ ~Blinding(Last(cs)) => CycleOf(cs, k, n + 1)

LEMMA FrontUnder ==
  ASSUME NEW cs \in Seq(CheckerSet), cs # <<>>
  PROVE  \E n : Under(cs, Front(cs), n)
<1> DEFINE n == Len(cs) - 1
           fs == Front(cs)
           d == Last(cs)
<1>1. /\ fs \in Seq(CheckerSet) /\ Len(fs) = n /\ n \in Nat /\ Len(cs) = n + 1
      /\ \A i \in 1 .. n : fs[i] = cs[i]
  BY FrontIs
<1>2. cs[n + 1] = d /\ d \in CheckerSet
  BY DEF Last
<1> HIDE DEF n, fs, d
<1>3. ASSUME NEW i \in 1 .. n, DeadIn(fs, i, n), d.what # "function" PROVE DeadIn(cs, i, n + 1)
  <2>1. \A l \in i + 1 .. n + 1 : l = n + 1 \/ (l \in i + 1 .. n /\ l \in 1 .. n)
    BY <1>1
  <2>2. QED
    BY <1>1, <1>2, <1>3, <2>1 DEF DeadIn, DeadBranch
<1>4. ASSUME NEW k \in 1 .. n, CycleOf(fs, k, n), ~Blinding(d) PROVE CycleOf(cs, k, n + 1)
  <2>1. \A l \in k + 1 .. n + 1 : l = n + 1 \/ (l \in k + 1 .. n /\ l \in 1 .. n)
    BY <1>1
  <2>2. QED
    BY <1>1, <1>2, <1>4, <2>1 DEF CycleOf
<1>5. Under(cs, fs, n)
  BY <1>1, <1>2, <1>3, <1>4 DEF Under, d
<1>6. QED
  BY <1>5 DEF fs

LEMMA VisibleOnlyIs ==
  ASSUME NEW R \in SUBSET Pairs, NEW xs
  PROVE  \A q \in VisibleOnly(R, xs) : \E p \in R :
           q[1] = p[1] /\ \A x \in Names : q[2][x] = IF x \in xs THEN p[2][x] ELSE None
<1> SUFFICES ASSUME NEW q \in VisibleOnly(R, xs)
             PROVE  \E p \in R : q[1] = p[1] /\ \A x \in Names : q[2][x] = IF x \in xs THEN p[2][x] ELSE None
  OBVIOUS
<1>1. PICK p \in R : q = <<p[1], Visible(p[2], xs)>>
  BY DEF VisibleOnly
<1>2. QED
  BY <1>1 DEF Visible

\* Where the executions that leave the branch c with R go on, with A.
Leaves(h, fs, n, c, A, R, S) ==
  /\ Place(h, fs, n, A, S) /\ Sane(A) /\ (R = {} => S = {})
  /\ A.blind = c.saved.blind /\ Mergeable(A, c.saved)
  /\ \A k \in 1 .. n : CycleOf(fs, k, n) => Keeps(c.exits, A)

LEMMA BranchLeaves ==
  ASSUME NEW h, NEW cs \in Seq(CheckerSet), NEW fs, NEW n, Under(cs, fs, n),
         NEW T, Sane(T), NEW R \in SUBSET Pairs, Place(h, cs, n + 1, T, R),
         Sane(Last(cs).saved), Inside(Last(cs), T), ~Blinding(Last(cs)),
         NEW A, A = EndScope(T), NEW S, S = VisibleOnly(R, DeclaredNames(A))
  PROVE  Leaves(h, fs, n, Last(cs), A, R, S)
<1> DEFINE c == Last(cs)
           W == EndScope(T)
<1>1. /\ Sane(W) /\ W.blind = c.saved.blind /\ Mergeable(W, c.saved)
      /\ DeclaredNames(W) = DeclaredNames(c.saved)
      /\ \A x \in DeclaredNames(W) :
           x \in DeclaredNames(T) /\ Raw(W, x) = Raw(T, x) /\ (Hidden(W, x) <=> Hidden(T, x))
      /\ Shrinks(T, W)
  BY BranchEndView
<1>2. W = A
  OBVIOUS
<1>3. \A q \in S : \E p \in R :
        q[1] = p[1] /\ \A x \in Names : q[2][x] = IF x \in DeclaredNames(A) THEN p[2][x] ELSE None
  BY VisibleOnlyIs
<1>4. /\ n \in Nat /\ \A i \in 1 .. n : fs[i] = cs[i]
      /\ \A i \in 1 .. n : DeadIn(fs, i, n) => DeadIn(cs, i, n + 1)
      /\ \A k \in 1 .. n : CycleOf(fs, k, n) => CycleOf(cs, k, n + 1)
      /\ c = cs[n + 1]
  BY DEF Under, Blinding
<1> HIDE DEF W, c
<1>5. \A x \in DeclaredNames(A) : x \in Names /\ x \in DeclaredNames(T) /\ Known(A, x) = Known(T, x)
  BY <1>1, <1>2, RawIs
<1>6. Valid(A, S)
  <2>1. Valid(T, R)
    BY DEF Place
  <2>2. QED
    BY <1>3, <1>5, <2>1 DEF Valid
<1>7. Agreed(h, A)
  BY <1>1, <1>2 DEF Place, Agreed
<1>8. Comes(S, R, A)
  BY <1>3 DEF Comes, KeptIn
<1>9. ASSUME NEW k \in 1 .. n, CycleOf(fs, k, n)
      PROVE  InTurn(fs, k, n, A, S) /\ Keeps(c.exits, A)
  <2>1. k \in 1 .. n + 1 /\ n + 1 \in k .. n + 1 /\ \A i \in k .. n : i \in k .. n + 1 /\ i \in 1 .. n
    BY <1>4
  <2>2. InTurn(cs, k, n + 1, T, R) /\ fs[k] = cs[k]
    BY <1>4, <1>9, <2>1 DEF Place
  <2>3. AsAround(cs[k], A) /\ Keeps(S, A)
    BY <1>1, <1>2, <1>8, <2>2, AsAroundStill, KeepsMore DEF InTurn
  <2>4. \A i \in k .. n + 1 : Keeps(cs[i].exits, A)
    BY <1>1, <1>2, <2>2, KeepsMore DEF InTurn
  <2>5. QED
    BY <1>4, <2>1, <2>2, <2>3, <2>4 DEF InTurn
<1>10. \A i \in 1 .. n : i \in 1 .. n + 1
  BY <1>4
<1>11. R = {} => S = {}
  BY <1>3
<1>12. Place(h, fs, n, A, S)
  BY <1>4, <1>6, <1>7, <1>9, <1>10, <1>11 DEF Place
<1>13. QED
  BY <1>1, <1>2, <1>9, <1>11, <1>12 DEF c, Leaves

\* The branch on top is over; around it, what the branches leave.
Ending(h, fs, n) ==
  /\ Under(checkers, fs, n) /\ n >= 1
  /\ Place(h, fs, n, BodyTimeline, BodyReach)
  /\ Sane(BodyTimeline) /\ BodyTimeline.blind = Top.saved.blind /\ Mergeable(BodyTimeline, Top.saved)
  /\ reach = {} => BodyReach = {}
  /\ \A k \in 1 .. n : CycleOf(fs, k, n) => Keeps(Top.exits, BodyTimeline) /\ Keeps(Top.branch.exits, Top.saved)
  /\ Sane(Top.saved) /\ Sound(h, fs, Top.saved, Top.reach) /\ Place(h, fs, n, Top.saved, Top.reach)
  /\ \A i \in 1 .. n : checkers[i].term = "end" /\ (DeadIn(fs, i, n) => InDead(Top, TRUE))
  /\ Own(Top) /\ (DeadBranch(Top) => BodyReach = {} /\ InDead(Top, FALSE)) /\ Left(checkers, reach)
  /\ BodyReach \in SUBSET Pairs /\ Top \in CheckerSet

LEMMA BranchEnds ==
  ASSUME AInv, checkers # <<>>, Top.what \in {"then", "else"}, NEW h, Sound(h, checkers, values, reach)
  PROVE  \E n : Ending(h, Front(checkers), n)
<1> DEFINE fs == Front(checkers)
           A == BodyTimeline
           S == BodyReach
<1>1. /\ ShapeInv /\ DataInv /\ Top.what # "program" /\ ~Blinding(Top) /\ Top.what # "function"
      /\ Top = Last(checkers)
  BY DEF AInv, Blinding, Top
<1>2. checkers \in Seq(CheckerSet) /\ Framed(checkers, values) /\ Sane(values) /\ reach \in SUBSET Pairs
  BY <1>1, TopIs DEF DataInv
<1>3. PICK n : Under(checkers, fs, n)
  BY <1>2, FrontUnder
<1>4. /\ n \in Nat /\ Len(checkers) = n + 1 /\ Len(fs) = n /\ fs \in Seq(CheckerSet)
      /\ checkers[n + 1] = Top /\ Top \in CheckerSet /\ n + 1 \in 1 .. n + 1
      /\ \A i \in 1 .. n : fs[i] = checkers[i] /\ i \in 1 .. n + 1 /\ i < n + 1
      /\ \A i \in 1 .. n : DeadIn(fs, i, n) => DeadIn(checkers, i, n + 1)
      /\ \A k \in 1 .. n : CycleOf(fs, k, n) => CycleOf(checkers, k, n + 1)
  BY <1>1, <1>3 DEF Under
<1> HIDE DEF fs
<1>5. n >= 1
  <2>1. n # 0
    <3> SUFFICES ASSUME n = 0 PROVE FALSE
      OBVIOUS
    <3>1. n + 1 \in 1 .. Len(checkers) /\ n + 1 = 1
      BY <1>4
    <3>2. checkers[n + 1].what = "program"
      BY <1>2, <3>1 DEF Framed
    <3>3. QED
      BY <1>1, <1>4, <3>2
  <2>2. QED
    BY <1>4, <2>1
<1>6. Sane(Top.saved) /\ Inside(Top, values)
  <2>1. n + 1 \in 1 .. Len(checkers) /\ TimelineAt(checkers, values, n + 1) = values
    BY <1>4 DEF TimelineAt
  <2>2. FrameOk(UsesUnder(checkers, n + 1), checkers[n + 1], values)
    BY <1>2, <2>1, SaneAt
  <2>3. QED
    BY <1>4, <2>2 DEF FrameOk
<1>7. Place(h, checkers, n + 1, values, reach)
  BY <1>2, <1>4, PlaceNow
<1>8. A = EndScope(values) /\ S = VisibleOnly(reach, DeclaredNames(A))
  <2>1. Around = A
    BY <1>1 DEF Around, Blinding
  <2>2. QED
    BY <2>1 DEF BodyTimeline, BodyReach, VisibleNames
<1> HIDE DEF A, S
<1>9. /\ Place(h, fs, n, A, S) /\ Sane(A) /\ (reach = {} => S = {})
      /\ A.blind = Last(checkers).saved.blind /\ Mergeable(A, Last(checkers).saved)
      /\ \A k \in 1 .. n : CycleOf(fs, k, n) => Keeps(Last(checkers).exits, A)
  <2>1. Sane(Last(checkers).saved) /\ Inside(Last(checkers), values) /\ ~Blinding(Last(checkers))
    BY <1>1, <1>6
  <2>2. Leaves(h, fs, n, Last(checkers), A, reach, S)
    BY <1>2, <1>3, <1>7, <1>8, <2>1, BranchLeaves
  <2>3. QED
    BY <2>2 DEF Leaves
<1>10. /\ Sound(h, fs, Last(checkers).saved, Last(checkers).reach)
       /\ \A i \in 1 .. Len(checkers) - 1 : checkers[i].term = "end"
  BY <1>2, PoppedSound DEF fs
<1>11. Sound(h, fs, Top.saved, Top.reach) /\ \A i \in 1 .. n : checkers[i].term = "end"
  BY <1>1, <1>4, <1>10
<1>12. Place(h, fs, n, Top.saved, Top.reach)
  BY <1>4, <1>11, PlaceNow
<1>13. Part(checkers, n + 1) /\ Left(checkers, reach)
  BY <1>4 DEF Sound
<1>14. Own(Top)
  BY <1>4, <1>13 DEF Part
<1>15. \A i \in 1 .. n : DeadIn(fs, i, n) => InDead(Top, TRUE)
  BY <1>4, <1>13 DEF Part
<1>16. DeadBranch(Top) => S = {} /\ InDead(Top, FALSE)
  <2> SUFFICES ASSUME DeadBranch(Top) PROVE S = {} /\ InDead(Top, FALSE)
    OBVIOUS
  <2>1. DeadIn(checkers, n + 1, n + 1)
    BY <1>4 DEF DeadIn
  <2>2. reach = {}
    BY <1>4, <1>7, <2>1 DEF Place
  <2>3. InDead(Top, n + 1 < n + 1) /\ ~(n + 1 < n + 1)
    BY <1>4, <1>13, <2>1 DEF Part
  <2>4. QED
    BY <1>9, <2>2, <2>3 DEF InDead
<1>17. \A k \in 1 .. n : CycleOf(fs, k, n) => Keeps(Top.branch.exits, Top.saved)
  BY <1>4, <1>13 DEF Part
<1>18. S \in SUBSET Pairs
  BY <1>2, <1>8, VisibleOnlyIn
<1>19. Ending(h, fs, n)
  BY <1>1, <1>3, <1>4, <1>5, <1>6, <1>9, <1>11, <1>12, <1>13, <1>14, <1>15, <1>16, <1>17, <1>18 DEF Ending, A, S
<1>20. QED
  BY <1>19 DEF fs

LEMMA KeptNothing == effects[TRUE] = {} => KeptEffects(effects)[TRUE] = {}
BY DEF KeptEffects

LEMMA ElseBegins ==
  ASSUME AInv, checkers # <<>>, Top.what = "then", NEW h \in Holdings, Sound(h, checkers, values, reach),
         NEW d \in CheckerSet, d.what = "else", d.cond = Top.cond, d.saved = BodyTimeline, d.reach = BodyReach,
         d.branch = Branch(Top), d.exits = {}, d.term = "end", d.pure = TRUE, d.returned = NoType,
         d.odd = Top.odd, d.does = Top.does, d.gives = Top.gives,
         NEW fs, fs = Front(checkers), NEW ds, ds = Append(fs, d),
         NEW w, w = StartScope(Top.saved)
  PROVE  Sound(h, ds, w, Top.reach)
<1>1. PICK n : Ending(h, fs, n)
  BY BranchEnds
<1>2. /\ n \in Nat /\ n >= 1 /\ n \in 1 .. n /\ Len(fs) = n /\ fs \in Seq(CheckerSet)
      /\ \A i \in 1 .. n : fs[i] = checkers[i]
      /\ fs # <<>> /\ Last(fs).term = "end"
  <2>1. Under(checkers, fs, n) /\ n >= 1 /\ \A i \in 1 .. n : checkers[i].term = "end"
    BY <1>1 DEF Ending
  <2>2. n \in Nat /\ Len(fs) = n /\ fs \in Seq(CheckerSet) /\ \A i \in 1 .. n : fs[i] = checkers[i]
    BY <2>1 DEF Under
  <2>3. n \in 1 .. n
    BY <2>1, <2>2
  <2>4. fs # <<>> /\ Last(fs) = fs[n]
    BY <2>1, <2>2 DEF Last
  <2>5. QED
    BY <2>1, <2>2, <2>3, <2>4
<1>3. /\ Place(h, fs, n, BodyTimeline, BodyReach)
      /\ reach = {} => BodyReach = {}
      /\ \A k \in 1 .. n : CycleOf(fs, k, n) => Keeps(Top.exits, BodyTimeline)
      /\ Sane(Top.saved) /\ Sound(h, fs, Top.saved, Top.reach) /\ Place(h, fs, n, Top.saved, Top.reach)
      /\ \A i \in 1 .. n : DeadIn(fs, i, n) => InDead(Top, TRUE)
      /\ Own(Top) /\ (DeadBranch(Top) => BodyReach = {} /\ InDead(Top, FALSE)) /\ Left(checkers, reach)
      /\ Top \in CheckerSet
  BY <1>1 DEF Ending
<1>4. d.branch.exits = Top.exits /\ d.branch.term = Top.term /\ d.branch.pure = Top.pure
      /\ d.branch.returned = Top.returned
  BY DEF Branch
<1>5. Sound(h, fs, d.saved, d.reach)
  <2>1. Part(fs, n)
    BY <1>2, <1>3 DEF Sound
  <2>2. Left(fs, BodyReach)
    BY <1>2 DEF Left
  <2>3. Framing(fs[n], fs[n])
    BY DEF Framing
  <2>4. \A i \in 1 .. Len(fs) - 1 : fs[i] = fs[i]
    OBVIOUS
  <2>5. Sound(h, fs, BodyTimeline, BodyReach)
    BY <1>2, <1>3, <2>1, <2>2, <2>3, <2>4, Rebuilt
  <2>6. QED
    BY <2>5
<1>6. Place(h, ds, n + 1, w, Top.reach)
  <2>1. Place(h, fs, Len(fs), Top.saved, Top.reach)
    BY <1>2, <1>3
  <2>2. ~Blinding(d) /\ (DeadBranch(d) => Top.reach = {}) /\ Top.reach \subseteq Top.reach
    BY <1>3 DEF Blinding, DeadBranch, Own
  <2>3. Shrinks(Top.saved, w) /\ Valid(w, Top.reach) /\ Agreed(h, w)
    <3>1. Valid(Top.saved, Top.reach) /\ Agreed(h, Top.saved)
      BY <1>3 DEF Place
    <3>2. QED
      BY <1>3, <3>1, ScopeStarted
  <2>4. Place(h, ds, Len(fs) + 1, w, Top.reach)
    BY <1>2, <2>1, <2>2, <2>3, BranchPlace
  <2>5. QED
    BY <1>2, <2>4
<1>7. Inner(fs, d, ds, n)
  BY <1>2, InnerContext
<1>8. ds[n + 1] = d /\ Len(ds) = n + 1 /\ ~(n + 1 < n + 1)
  BY <1>2, <1>7 DEF Inner
<1>9. Own(d)
  <2>1. Top.cond.kind \in {"true", "false", "unknown"} /\ (SoFarPure(Top) => Top.does = {})
        /\ (Top.odd \/ Top.gives \subseteq Cover(SoFarReturned(Top)))
    BY <1>3 DEF Own
  <2>2. SoFarPure(Top) = Top.pure /\ SoFarReturned(Top) = Top.returned
    BY DEF SoFarPure, SoFarReturned
  <2>3. Top.cond.kind = "false" => BodyReach = {} /\ Top.exits = {} /\ Top.does = {} /\ Top.gives = {}
    BY <1>3 DEF DeadBranch, InDead
  <2>4. Top.term # "end" => BodyReach = {}
    BY <1>3 DEF Left, Top
  <2>5. AddReturnType(Top.returned, NoType) = Top.returned
    BY <1>3, CheckerParts, CoverIs
  <2>6. SoFarPure(d) => d.does = {}
    <3>1. Top.pure \in BOOLEAN
      BY <1>3, CheckerParts
    <3>2. CASE Top.cond.kind = "true"
      BY <1>4, <2>1, <2>2, <3>2 DEF SoFarPure
    <3>3. CASE Top.cond.kind = "unknown"
      BY <1>4, <2>1, <2>2, <3>1, <3>3 DEF SoFarPure
    <3>4. QED
      BY <2>1, <2>3, <3>2, <3>3
  <2>7. d.odd \/ d.gives \subseteq Cover(SoFarReturned(d))
    <3>1. CASE Top.cond.kind = "true"
      BY <1>4, <2>1, <2>2, <3>1 DEF SoFarReturned
    <3>2. CASE Top.cond.kind = "unknown"
      BY <1>4, <2>1, <2>2, <2>5, <3>2 DEF SoFarReturned
    <3>3. QED
      BY <2>1, <2>3, <3>1, <3>2
  <2>8. QED
    BY <1>4, <2>1, <2>3, <2>4, <2>6, <2>7 DEF Own
<1>10. ASSUME NEW l \in 1 .. n + 1, DeadIn(ds, l, n + 1) PROVE InDead(d, l < n + 1)
  <2>1. CASE l = n + 1
    BY <1>8, <2>1 DEF InDead
  <2>2. CASE l # n + 1
    <3>1. l \in 1 .. n /\ l < n + 1
      BY <1>2, <2>2
    <3>2. InDead(Top, TRUE)
      BY <1>3, <1>7, <1>10, <3>1 DEF Inner
    <3>3. InDead(d, TRUE)
      BY <1>4, <3>2 DEF InDead
    <3>4. QED
      BY <3>1, <3>3 DEF InDead
  <2>3. QED
    BY <2>1, <2>2
<1>11. ASSUME NEW k \in 1 .. n + 1, CycleOf(ds, k, n + 1) PROVE Keeps(d.branch.exits, d.saved)
  <2>1. k \in 1 .. n
    <3>1. k # n + 1
      BY <1>7, <1>11 DEF Inner
    <3>2. QED
      BY <1>2, <3>1
  <2>2. CycleOf(fs, k, n)
    BY <1>7, <1>11, <2>1 DEF Inner
  <2>3. QED
    BY <1>3, <1>4, <2>1, <2>2
<1>12. Part(ds, n + 1)
  BY <1>8, <1>9, <1>10, <1>11 DEF Part
<1>13. Left(ds, Top.reach)
  BY <1>8 DEF Left, Last
<1>14. Place(h, ds, Len(fs) + 1, w, Top.reach) /\ Part(ds, Len(fs) + 1)
  BY <1>2, <1>6, <1>12
<1>15. QED
  BY <1>2, <1>5, <1>13, <1>14, PushedSound

LEMMA TopReplaced ==
  ASSUME NEW S, NEW s \in Seq(S), s # <<>>, NEW d \in S
  PROVE  [s EXCEPT ![Len(s)] = d] = Append(Front(s), d)
<1> DEFINE m == Len(s)
           u == [s EXCEPT ![m] = d]
           b == Front(s)
           v == Append(b, d)
<1>1. m \in Nat /\ m - 1 \in Nat /\ b \in Seq(S) /\ Len(b) = m - 1 /\ \A i \in 1 .. m - 1 : b[i] = s[i]
  BY FrontIs
<1>2. u \in Seq(S) /\ Len(u) = m /\ \A i \in 1 .. m : u[i] = IF i = m THEN d ELSE s[i]
  OBVIOUS
<1> HIDE DEF b, m, u
<1>3. v \in Seq(S) /\ Len(v) = m /\ v[m] = d /\ \A i \in 1 .. m - 1 : v[i] = s[i]
  BY <1>1
<1>4. \A i \in 1 .. m : i # m => i \in 1 .. m - 1
  BY <1>1
<1>5. \A i \in 1 .. Len(u) : u[i] = v[i]
  BY <1>2, <1>3, <1>4
<1> HIDE DEF v
<1>6. u = v
  BY <1>2, <1>3, <1>5, SameSequence
<1>7. QED
  BY <1>6 DEF u, v, b, m

LEMMA IfElseSound == AInv /\ SoundInv /\ IfElse => SoundInv'
<1> SUFFICES ASSUME AInv, SoundInv, IfElse PROVE SoundInv'
  OBVIOUS
<1>1. checkers # <<>> /\ Top.what = "then" /\ ShapeInv
  BY DEF IfElse, AInv
<1> DEFINE e == Checker("else", Top.inFunction, Top.inCycle, Top.cond, BodyTimeline, BodyReach, Branch(Top))
           d == [e EXCEPT !.does = Top.does, !.gives = Top.gives, !.odd = Top.odd]
           w == StartScope(Top.saved)
           fs == Front(checkers)
           ds == Append(fs, d)
<1>2. /\ checkers' = SetTop(d) /\ values' = w /\ reach' = Top.reach
      /\ effects' = KeptEffects(effects)
  BY Zenon DEF IfElse, ElseTimeline
<1>3. PICK h \in Holdings : Sound(h, checkers, values, reach)
  BY DEF SoundInv
<1>4. PICK n : Ending(h, fs, n)
  BY <1>1, <1>3, BranchEnds
<1>5. Top \in CheckerSet /\ checkers \in Seq(CheckerSet) /\ Sane(BodyTimeline) /\ BodyReach \in SUBSET Pairs
  BY <1>1, <1>4, TopIs DEF Ending
<1>6. /\ d \in CheckerSet /\ d.what = "else" /\ d.cond = Top.cond /\ d.saved = BodyTimeline /\ d.reach = BodyReach
      /\ d.branch = Branch(Top) /\ d.exits = {} /\ d.term = "end" /\ d.pure = TRUE /\ d.returned = NoType
      /\ d.odd = Top.odd /\ d.does = Top.does /\ d.gives = Top.gives
  <2> DEFINE A == BodyTimeline
             R == BodyReach
             b == Branch(Top)
  <2>1. A \in Timelines /\ R \in SUBSET Pairs
    BY <1>5 DEF Sane, Timelines
  <2>2. b \in BranchSet
    BY <1>5, CheckerParts DEF Branch, BranchSet
  <2>3. /\ Top.inFunction \in BOOLEAN /\ Top.inCycle \in BOOLEAN /\ Top.cond \in CondSet /\ Top.odd \in BOOLEAN
        /\ Top.does \in SUBSET (Names \cup {Output}) /\ Top.gives \in SUBSET Types
    BY <1>5, CheckerParts
  <2> HIDE DEF A, R, b
  <2>4. e \in CheckerSet /\ e.what = "else" /\ e.saved = A /\ e.branch = b /\ e.uses = {}
    BY <2>1, <2>2, <2>3, CheckerIs DEF A, R, b
  <2>5. /\ e.what = "else" /\ e.cond = Top.cond /\ e.saved = A /\ e.reach = R
        /\ e.branch = b /\ e.exits = {} /\ e.term = "end" /\ e.pure = TRUE /\ e.returned = NoType
    BY DEF Checker, A, R, b
  <2> HIDE DEF e
  <2>6. QED
    BY <2>3, <2>4, <2>5 DEF CheckerSet, A, R, b
<1> HIDE DEF d, w
<1>7. checkers' = ds
  BY <1>1, <1>2, <1>5, <1>6, TopReplaced DEF SetTop
<1> HIDE DEF fs, ds
<1>8. Sound(h, ds, w, Top.reach)
  BY <1>1, <1>3, <1>6, ElseBegins DEF fs, ds, w
<1>9. QED
  BY <1>2, <1>3, <1>7, <1>8, KeptNothing DEF SoundInv

-----------------------------------------------------------------------------
(* The end of an `if`.                                                     *)

\* c is the checker around the body on top, with the statement that is over.
Takes(c, pure, term, returned) ==
  /\ c \in CheckerSet /\ Framing(c, Outer) /\ c.term = term
  /\ c.pure = (Outer.pure /\ pure) /\ c.returned = AddReturnType(Outer.returned, returned)
  /\ c.odd = (Outer.odd \/ Top.odd \/ LoneReturn)
  /\ c.does = Outer.does \cup (Top.does \cap (VisibleNames \cup {Output}))
  /\ c.gives = Outer.gives \cup Top.gives /\ c.exits = Outer.exits \cup Exits

LEMMA EndedIs ==
  ASSUME ShapeInv, checkers # <<>>, Top.what # "program",
         NEW pure \in BOOLEAN, NEW term \in Terms, NEW returned \in ReturnTypes, NEW uses \in SUBSET Names
  PROVE  \E c : /\ Takes(c, pure, term, returned)
                /\ Ended(pure, term, returned, uses) = Append(Front(Front(checkers)), c)
<1> DEFINE b == Outer
           type == AddReturnType(b.returned, returned)
           odd == b.odd \/ Top.odd \/ LoneReturn
           does == b.does \cup (Top.does \cap (VisibleNames \cup {Output}))
           gives == b.gives \cup Top.gives
           us == b.uses \cup (uses \cap VisibleNames)
           exits == b.exits \cup Exits
           p == b.pure /\ pure
           c == [b EXCEPT !.pure = p, !.term = term, !.returned = type,
                          !.uses = us, !.odd = odd, !.does = does, !.gives = gives,
                          !.exits = exits]
<1>1. b \in CheckerSet /\ Top \in CheckerSet
  BY OuterIs
<1>2. Ended(pure, term, returned, uses) = Append(Front(Front(checkers)), c)
  BY Zenon DEF Ended
<1>3. /\ type \in ReturnTypes /\ does \in SUBSET (Names \cup {Output})
      /\ gives \in SUBSET Types /\ us \in SUBSET Names /\ odd \in BOOLEAN
  BY <1>1, CheckerParts, TypesOf DEF VisibleNames, DeclaredNames
<1>4. exits \in SUBSET Pairs
  BY <1>1, CheckerParts DEF Exits, BranchSet
<1>5. p \in BOOLEAN
  OBVIOUS
<1> HIDE DEF type, does, gives, us, odd, exits, b, p
<1>6. c \in CheckerSet
  BY <1>1, <1>3, <1>4, <1>5, ZenonT(40) DEF CheckerSet
<1>7. /\ c.what = b.what /\ c.cond = b.cond /\ c.saved = b.saved /\ c.reach = b.reach /\ c.branch = b.branch
      /\ c.term = term /\ c.pure = p /\ c.returned = type /\ c.odd = odd /\ c.does = does /\ c.gives = gives
      /\ c.exits = exits
  BY <1>1 DEF CheckerSet
<1> HIDE DEF c
<1>8. Framing(c, b)
  BY <1>7 DEF Framing
<1>9. Takes(c, pure, term, returned)
  BY <1>6, <1>7, <1>8 DEF Takes, b, type, odd, does, gives, exits, p
<1>10. QED
  BY <1>2, <1>9

\* The checkers around the body on top, the last of them now as c.
Beside(fs, ds, c, n) ==
  /\ ds \in Seq(CheckerSet) /\ Len(ds) = n /\ ds[n] = c /\ fs[n] = Outer /\ ds # <<>> /\ Last(ds) = c
  /\ n \in Nat /\ \A i \in 1 .. n : i # n => i \in 1 .. n - 1
  /\ \A i \in 1 .. n - 1 : ds[i] = fs[i] /\ i \in 1 .. n
  /\ \A i \in 1 .. n : ds[i].what = fs[i].what /\ ds[i].cond = fs[i].cond /\ ds[i].saved = fs[i].saved
  /\ \A k \in 1 .. n : (CycleOf(ds, k, n) <=> CycleOf(fs, k, n)) /\ (DeadIn(ds, k, n) <=> DeadIn(fs, k, n))

LEMMA OuterContext ==
  ASSUME AInv, checkers # <<>>, Top.what # "program", NEW c \in CheckerSet, Framing(c, Outer),
         NEW fs, NEW n, Under(checkers, fs, n), fs = Front(checkers), n >= 1,
         NEW ds, ds = Append(Front(fs), c)
  PROVE  Beside(fs, ds, c, n)
<1>1. /\ n \in Nat /\ Len(fs) = n /\ fs \in Seq(CheckerSet) /\ Len(checkers) = n + 1
      /\ \A i \in 1 .. n : fs[i] = checkers[i]
  BY DEF Under
<1>2. n \in 1 .. n /\ fs # <<>> /\ \A i \in 1 .. n : i # n => i \in 1 .. n - 1
  BY <1>1
<1>3. Outer = checkers[Len(checkers) - 1] /\ Len(checkers) - 1 = n
  BY <1>1, OuterIs DEF AInv
<1>4. fs[n] = Outer
  BY <1>1, <1>2, <1>3
<1> DEFINE bs == Front(fs)
<1>5. bs \in Seq(CheckerSet) /\ Len(bs) = n - 1 /\ \A i \in 1 .. n - 1 : bs[i] = fs[i]
  BY <1>1, <1>2, FrontIs
<1>6. ds = Append(bs, c)
  OBVIOUS
<1> HIDE DEF bs
<1>7. /\ ds \in Seq(CheckerSet) /\ Len(ds) = n /\ ds[n] = c /\ ds # <<>>
      /\ \A i \in 1 .. n - 1 : ds[i] = fs[i] /\ i \in 1 .. n
  BY <1>1, <1>2, <1>5, <1>6
<1>8. Last(ds) = c
  BY <1>7 DEF Last
<1>9. \A i \in 1 .. n : ds[i].what = fs[i].what /\ ds[i].cond = fs[i].cond /\ ds[i].saved = fs[i].saved
  BY <1>2, <1>4, <1>7 DEF Framing
<1>10. \A k \in 1 .. n : (CycleOf(ds, k, n) <=> CycleOf(fs, k, n)) /\ (DeadIn(ds, k, n) <=> DeadIn(fs, k, n))
  <2>1. \A i \in 1 .. n : ds[i].what = fs[i].what /\ ds[i].cond = fs[i].cond
    BY <1>9, Zenon
  <2>2. \A j \in 0 .. n : \A k \in 1 .. j :
          (CycleOf(ds, k, j) <=> CycleOf(fs, k, j)) /\ (DeadIn(ds, k, j) <=> DeadIn(fs, k, j))
    BY <1>1, <2>1, ContextOf, ZenonT(60)
  <2>3. n \in 0 .. n
    BY <1>1
  <2>4. QED
    BY <2>2, <2>3
<1>11. QED
  BY <1>1, <1>2, <1>4, <1>7, <1>8, <1>9, <1>10 DEF Beside

\* Both branches are over: the executions that leave them go on with what the
\* timeline then says.
LEMMA ClosedSound ==
  ASSUME AInv, checkers # <<>>, Top.what \in {"then", "else"}, NEW h \in Holdings,
         Sound(h, checkers, values, reach), effects[TRUE] = {},
         NEW pure \in BOOLEAN, NEW term \in Terms, NEW returned \in ReturnTypes, NEW uses \in SUBSET Names,
         checkers' = Ended(pure, term, returned, uses), effects' = KeptEffects(effects),
         reach' = BodyReach \cup Top.reach, Valid(values', reach'), Agreed(h, values'),
         \A c : AsAround(c, BodyTimeline) /\ AsAround(c, Top.saved) =>
           /\ Shrinks(BodyTimeline, values') \/ Shrinks(Top.saved, values')
           /\ Shrinks(BodyTimeline, values') \/ (BodyReach = {} /\ Top.exits = {})
           /\ Shrinks(Top.saved, values') \/ (Top.reach = {} /\ Top.branch.exits = {}),
         term # "end" => reach' = {}, pure => Top.does = {},
         Top.odd \/ LoneReturn \/ Top.gives \subseteq Cover(returned)
  PROVE  SoundInv'
<1> DEFINE A == BodyTimeline
           B == Top.saved
           fs == Front(checkers)
           W == values'
           S == reach'
<1>1. ShapeInv /\ Top.what # "program" /\ Top.what # "cycle"
  BY DEF AInv
<1>2. PICK c : Takes(c, pure, term, returned)
               /\ Ended(pure, term, returned, uses) = Append(Front(Front(checkers)), c)
  BY <1>1, EndedIs
<1> DEFINE ds == Append(Front(fs), c)
<1>3. /\ c \in CheckerSet /\ Framing(c, Outer) /\ c.term = term
      /\ c.pure = (Outer.pure /\ pure) /\ c.returned = AddReturnType(Outer.returned, returned)
      /\ c.odd = (Outer.odd \/ Top.odd \/ LoneReturn)
      /\ c.does = Outer.does \cup (Top.does \cap (VisibleNames \cup {Output}))
      /\ c.gives = Outer.gives \cup Top.gives /\ c.exits = Outer.exits \cup Top.exits \cup Top.branch.exits
  BY <1>1, <1>2 DEF Takes, Exits
<1>4. PICK n : Ending(h, fs, n)
  BY <1>1, BranchEnds
<1>5. /\ Under(checkers, fs, n) /\ n >= 1
      /\ Place(h, fs, n, A, BodyReach)
      /\ \A k \in 1 .. n : CycleOf(fs, k, n) => Keeps(Top.exits, A) /\ Keeps(Top.branch.exits, B)
      /\ Sound(h, fs, B, Top.reach) /\ Place(h, fs, n, B, Top.reach)
      /\ \A i \in 1 .. n : DeadIn(fs, i, n) => InDead(Top, TRUE)
  BY <1>4 DEF Ending
<1>6. checkers' = ds
  BY <1>2
<1>7. fs = Front(checkers) /\ ds = Append(Front(fs), c)
  OBVIOUS
<1>8. fs \in Seq(CheckerSet) /\ Len(fs) = n
  BY <1>5 DEF Under
<1> HIDE DEF fs, ds
<1>9. /\ ds \in Seq(CheckerSet) /\ Len(ds) = n /\ ds[n] = c /\ fs[n] = Outer /\ ds # <<>> /\ Last(ds) = c
      /\ n \in Nat /\ \A i \in 1 .. n : i # n => i \in 1 .. n - 1
      /\ \A i \in 1 .. n - 1 : ds[i] = fs[i] /\ i \in 1 .. n
      /\ \A i \in 1 .. n : ds[i].what = fs[i].what /\ ds[i].cond = fs[i].cond /\ ds[i].saved = fs[i].saved
      /\ \A k \in 1 .. n : (CycleOf(ds, k, n) <=> CycleOf(fs, k, n)) /\ (DeadIn(ds, k, n) <=> DeadIn(fs, k, n))
  <2>1. Beside(fs, ds, c, n)
    BY <1>1, <1>3, <1>5, <1>7, OuterContext
  <2>2. QED
    BY <2>1 DEF Beside
<1>10. n \in 1 .. n /\ Part(fs, n) /\ Outer \in CheckerSet
  BY <1>1, <1>5, <1>8, <1>9, OuterIs DEF Sound
<1> HIDE DEF A, B, W, S
<1>11. \A k \in 1 .. n : CycleOf(ds, k, n) => InTurn(ds, k, n, W, S)
  <2> SUFFICES ASSUME NEW k \in 1 .. n, CycleOf(ds, k, n) PROVE InTurn(ds, k, n, W, S)
    OBVIOUS
  <2>1. InTurn(fs, k, n, A, BodyReach) /\ InTurn(fs, k, n, B, Top.reach)
        /\ Keeps(Top.exits, A) /\ Keeps(Top.branch.exits, B)
    BY <1>5, <1>9 DEF Place
  <2>2. AsAround(fs[k], A) /\ AsAround(fs[k], B) /\ Keeps(BodyReach, A) /\ Keeps(Top.reach, B)
        /\ \A i \in k .. n : Keeps(fs[i].exits, A) /\ Keeps(fs[i].exits, B)
    BY <2>1 DEF InTurn
  <2>3. /\ Shrinks(A, W) \/ Shrinks(B, W)
        /\ Shrinks(A, W) \/ (BodyReach = {} /\ Top.exits = {})
        /\ Shrinks(B, W) \/ (Top.reach = {} /\ Top.branch.exits = {})
    BY <2>2 DEF A, B, W
  <2>4. AsAround(fs[k], W) /\ \A i \in k .. n : Keeps(fs[i].exits, W)
    BY <2>2, <2>3, AsAroundStill, KeepsMore
  <2>5. AsAround(ds[k], W)
    BY <1>9, <2>4 DEF AsAround
  <2>6. Keeps(BodyReach, W) /\ Keeps(Top.exits, W)
    <3>1. CASE Shrinks(A, W)
      BY <2>1, <2>2, <3>1, KeepsMore
    <3>2. CASE BodyReach = {} /\ Top.exits = {}
      BY <3>2 DEF Keeps
    <3>3. QED
      BY <2>3, <3>1, <3>2
  <2>7. Keeps(Top.reach, W) /\ Keeps(Top.branch.exits, W)
    <3>1. CASE Shrinks(B, W)
      BY <2>1, <2>2, <3>1, KeepsMore
    <3>2. CASE Top.reach = {} /\ Top.branch.exits = {}
      BY <3>2 DEF Keeps
    <3>3. QED
      BY <2>3, <3>1, <3>2
  <2>8. Keeps(S, W)
    BY <2>6, <2>7 DEF Keeps, S
  <2>9. ASSUME NEW i \in k .. n PROVE Keeps(ds[i].exits, W)
    <3>1. CASE i = n
      <4>1. Keeps(Outer.exits, W) /\ ds[i].exits = Outer.exits \cup Top.exits \cup Top.branch.exits
        BY <1>3, <1>9, <2>4, <3>1
      <4>2. QED
        BY <2>6, <2>7, <4>1 DEF Keeps
    <3>2. CASE i # n
      <4>1. i \in 1 .. n - 1
        BY <1>9, <3>2
      <4>2. QED
        BY <1>9, <2>4, <4>1
    <3>3. QED
      BY <3>1, <3>2
  <2>10. QED
    BY <2>5, <2>8, <2>9 DEF InTurn
<1>12. Place(h, ds, n, W, S)
  <2>1. Valid(W, S) /\ Agreed(h, W)
    BY DEF W, S
  <2>2. ASSUME NEW i \in 1 .. n, DeadIn(ds, i, n) PROVE S = {}
    <3>1. BodyReach = {} /\ Top.reach = {}
      BY <1>5, <1>9, <2>2 DEF Place
    <3>2. QED
      BY <3>1 DEF S
  <2>3. QED
    BY <1>11, <2>1, <2>2 DEF Place
<1>13. Part(ds, n)
  <2>1. Adds(c, Outer)
    <3>1. c.pure => Outer.pure /\ c.does = Outer.does
      BY <1>3, <1>10, CheckerParts
    <3>2. c.odd \/ (~Outer.odd /\ c.gives \subseteq Outer.gives \cup Cover(returned))
      BY <1>3
    <3>3. QED
      BY <1>3, <3>1, <3>2 DEF Adds
  <2>2. DeadBranch(Outer) => Same(c, Outer)
    <3>1. DeadBranch(Outer) => DeadIn(fs, n, n)
      BY <1>9 DEF DeadIn
    <3>2. DeadBranch(Outer) => InDead(Top, TRUE)
      BY <1>5, <1>10, <3>1
    <3>3. QED
      BY <1>3, <3>2 DEF InDead, Same
  <2>3. Own(Outer)
    BY <1>9, <1>10 DEF Part
  <2>4. Own(c)
    BY <1>3, <1>10, <2>1, <2>2, <2>3, OwnAdds
  <2>5. ASSUME NEW l \in 1 .. n, DeadIn(ds, l, n) PROVE InDead(c, l < n)
    <3>1. InDead(Outer, l < n) /\ InDead(Top, TRUE)
      BY <1>5, <1>9, <1>10, <2>5 DEF Part
    <3>2. c.what = Outer.what /\ c.branch = Outer.branch
      BY <1>3 DEF Framing
    <3>3. Top.exits = {} /\ Top.branch.exits = {} /\ Top.does = {} /\ Top.gives = {}
      BY <3>1 DEF InDead
    <3>4. c.exits = Outer.exits /\ c.does = Outer.does /\ c.gives = Outer.gives
      BY <1>3, <3>3
    <3>5. QED
      BY <3>1, <3>2, <3>4 DEF InDead
  <2>6. ASSUME NEW k \in 1 .. n, CycleOf(ds, k, n) PROVE Keeps(c.branch.exits, c.saved)
    BY <1>3, <1>9, <1>10, <2>6 DEF Part, Framing
  <2>7. ~(n < n)
    BY <1>9
  <2>8. QED
    BY <1>9, <2>4, <2>5, <2>6, <2>7 DEF Part
<1>14. Left(ds, S)
  BY <1>3, <1>9 DEF Left, S
<1>15. Sound(h, ds, W, S)
  BY <1>3, <1>5, <1>8, <1>9, <1>10, <1>12, <1>13, <1>14, Rebuilt
<1>16. effects'[TRUE] = {}
  BY KeptNothing
<1>17. QED
  BY <1>6, <1>15, <1>16 DEF SoundInv, W, S

LEMMA MergedEntry ==
  ASSUME NEW a \in Entry, NEW b \in Entry, NEW h, Holding(h, a), Holding(h, b)
  PROVE  LET g == GeneralizeValue(a, b)
         IN /\ Holding(h, g) /\ (a = b => g = a)
            /\ \A v : Fits(a, v) \/ Fits(b, v) => Fits(g, v)
<1> DEFINE g == GeneralizeValue(a, b)
<1>1. /\ g \in Entry
      /\ g # Unknown => a # Unknown /\ b # Unknown
      /\ a = b => g = a
      /\ IsValue(g) => g = a /\ a.object = b.object /\ IsValue(b)
      /\ ~IsValue(g) => g = OfType(g.type)
      /\ g.type # UnknownType => g.type = a.type /\ (IsValue(g) \/ g.type = b.type)
  BY GeneralizeValueIs
<1> HIDE DEF g
<1>2. Holding(h, g)
  BY <1>1 DEF Holding
<1>3. ASSUME NEW v, Fits(a, v) PROVE Fits(g, v)
  BY <1>1, <1>3 DEF Fits
<1>4. ASSUME NEW v, Fits(b, v) PROVE Fits(g, v)
  <2>1. CASE IsValue(g)
    <3>1. g = a /\ a.object = b.object /\ IsValue(b) /\ IsValue(a)
      BY <1>1, <2>1
    <3>2. a.value = b.value
      BY <3>1 DEF Holding
    <3>3. a.type = TypeOf(a.value) /\ b.type = TypeOf(b.value)
      BY <3>1, EntryParts
    <3>4. QED
      BY <1>4, <3>1, <3>2, <3>3 DEF Fits
  <2>2. CASE ~IsValue(g)
    BY <1>1, <1>4, <2>2 DEF Fits
  <2>3. QED
    BY <2>1, <2>2
<1>5. QED
  BY <1>1, <1>2, <1>3, <1>4 DEF g

LEMMA Merged ==
  ASSUME NEW a, Sane(a), NEW b, Sane(b), Mergeable(a, b), a.blind = b.blind,
         NEW h, Agreed(h, a), Agreed(h, b), NEW R, Valid(a, R), NEW S, Valid(b, S),
         NEW M, M = MergeTimelines(a, b)
  PROVE  /\ Valid(M, R \cup S) /\ Agreed(h, M)
         /\ \A c : AsAround(c, a) /\ AsAround(c, b) => Shrinks(a, M) /\ Shrinks(b, M)
<1> DEFINE W == MergeTimelines(a, b)
<1>1. /\ Sane(W) /\ DeclaredNames(W) = DeclaredNames(a) /\ DeclaredNames(b) = DeclaredNames(a)
      /\ \A x \in DeclaredNames(a) :
           /\ Hidden(W, x) <=> Hidden(a, x)
           /\ Hidden(b, x) <=> Hidden(a, x)
           /\ Raw(W, x) = GeneralizeValue(Raw(a, x), Raw(b, x))
      /\ \A x \in Names : KeptIn(W, x) => KeptIn(a, x) /\ KeptIn(b, x)
  BY MergeView
<1>2. W = M
  OBVIOUS
<1> HIDE DEF W
<1>3. \A x \in DeclaredNames(a) : /\ Raw(a, x) \in Entry /\ Raw(b, x) \in Entry
                                  /\ Holding(h, Raw(a, x)) /\ Holding(h, Raw(b, x))
  BY <1>1, RawIs DEF Agreed
<1>4. ASSUME NEW x \in DeclaredNames(a)
      PROVE  /\ Holding(h, Raw(M, x)) /\ (Raw(a, x) = Raw(b, x) => Raw(M, x) = Raw(a, x))
             /\ \A v : Fits(Known(a, x), v) \/ Fits(Known(b, x), v) => Fits(Known(M, x), v)
  <2> DEFINE e == Raw(a, x)
             f == Raw(b, x)
             g == GeneralizeValue(e, f)
  <2>1. /\ Holding(h, g) /\ (e = f => g = e)
        /\ \A v : Fits(e, v) \/ Fits(f, v) => Fits(g, v)
    <3>1. e \in Entry /\ f \in Entry /\ Holding(h, e) /\ Holding(h, f)
      BY <1>3
    <3> HIDE DEF e, f
    <3>2. QED
      BY <3>1, MergedEntry
  <2>2. Raw(M, x) = g
    BY <1>1, <1>2
  <2>3. Known(M, x) = IF Hidden(M, x) THEN Unknown ELSE g
    BY <1>1, <1>2, <2>2, RawIs
  <2>4. /\ Known(a, x) = IF Hidden(a, x) THEN Unknown ELSE e
        /\ Known(b, x) = IF Hidden(b, x) THEN Unknown ELSE f
    BY <1>1, RawIs
  <2> HIDE DEF e, f, g
  <2>5. \A v : Fits(Known(a, x), v) \/ Fits(Known(b, x), v) => Fits(Known(M, x), v)
    <3>1. (Hidden(M, x) <=> Hidden(a, x)) /\ (Hidden(b, x) <=> Hidden(a, x))
      BY <1>1, <1>2
    <3>2. CASE Hidden(a, x)
      BY <2>3, <3>1, <3>2, UnknownFits
    <3>3. CASE ~Hidden(a, x)
      BY <2>1, <2>3, <2>4, <3>1, <3>3
    <3>4. QED
      BY <3>2, <3>3
  <2>6. QED
    BY <2>1, <2>2, <2>5 DEF e, f
<1>5. Valid(M, R \cup S)
  BY <1>1, <1>2, <1>4 DEF Valid
<1>6. Agreed(h, M)
  BY <1>1, <1>2, <1>4 DEF Agreed
<1>7. ASSUME NEW c, AsAround(c, a), AsAround(c, b) PROVE Shrinks(a, M) /\ Shrinks(b, M)
  <2> SUFFICES ASSUME NEW x \in Names, KeptIn(M, x)
               PROVE  KeptIn(a, x) /\ KeptIn(b, x) /\ Raw(M, x) = Raw(a, x) /\ Raw(M, x) = Raw(b, x)
    BY DEF Shrinks
  <2>1. KeptIn(a, x) /\ KeptIn(b, x) /\ x \in DeclaredNames(a)
    BY <1>1, <1>2 DEF KeptIn
  <2>2. Raw(a, x) = Raw(c.saved, x) /\ Raw(b, x) = Raw(c.saved, x)
    BY <1>7, <2>1 DEF AsAround
  <2>3. QED
    BY <1>4, <2>1, <2>2
<1>8. QED
  BY <1>5, <1>6, <1>7

\* What the end of an `if` may leave.
LEMMA EndLeaves ==
  ASSUME NEW h, NEW fs, NEW n, Ending(h, fs, n), NEW W, NEW S, S = BodyReach \cup Top.reach,
         \/ W = BodyTimeline /\ Top.reach = {} /\ Top.branch.exits = {}
         \/ W = Top.saved /\ BodyReach = {} /\ Top.exits = {}
         \/ W = MergeTimelines(BodyTimeline, Top.saved)
         \/ W = MergeTimelines(Top.saved, BodyTimeline)
  PROVE  /\ Valid(W, S) /\ Agreed(h, W)
         /\ \A c : AsAround(c, BodyTimeline) /\ AsAround(c, Top.saved) =>
              /\ Shrinks(BodyTimeline, W) \/ Shrinks(Top.saved, W)
              /\ Shrinks(BodyTimeline, W) \/ (BodyReach = {} /\ Top.exits = {})
              /\ Shrinks(Top.saved, W) \/ (Top.reach = {} /\ Top.branch.exits = {})
<1> DEFINE A == BodyTimeline
           B == Top.saved
<1>1. /\ Sane(A) /\ Sane(B) /\ A.blind = B.blind /\ Mergeable(A, B) /\ Mergeable(B, A)
      /\ Place(h, fs, n, A, BodyReach) /\ Place(h, fs, n, B, Top.reach)
  BY DEF Ending, Mergeable
<1>2. Valid(A, BodyReach) /\ Valid(B, Top.reach) /\ Agreed(h, A) /\ Agreed(h, B)
  BY <1>1 DEF Place
<1> HIDE DEF A, B
<1>3. CASE W = A /\ Top.reach = {} /\ Top.branch.exits = {}
  BY <1>2, <1>3, ShrinksIsPreorder DEF A, B
<1>4. CASE W = B /\ BodyReach = {} /\ Top.exits = {}
  BY <1>2, <1>4, ShrinksIsPreorder DEF A, B
<1>5. CASE W = MergeTimelines(A, B)
  <2>1. /\ Valid(W, BodyReach \cup Top.reach) /\ Agreed(h, W)
        /\ \A c : AsAround(c, A) /\ AsAround(c, B) => Shrinks(A, W) /\ Shrinks(B, W)
    BY <1>1, <1>2, <1>5, Merged
  <2>2. QED
    BY <2>1 DEF A, B
<1>6. CASE W = MergeTimelines(B, A)
  <2>1. /\ Valid(W, Top.reach \cup BodyReach) /\ Agreed(h, W)
        /\ \A c : AsAround(c, B) /\ AsAround(c, A) => Shrinks(B, W) /\ Shrinks(A, W)
    BY <1>1, <1>2, <1>6, Merged
  <2>2. Top.reach \cup BodyReach = S
    OBVIOUS
  <2>3. QED
    BY <2>1, <2>2 DEF A, B
<1>7. QED
  BY <1>3, <1>4, <1>5, <1>6 DEF A, B

LEMMA IfEndSound == AInv /\ SoundInv /\ IfEnd => SoundInv'
<1> SUFFICES ASSUME AInv, SoundInv, IfEnd PROVE SoundInv'
  OBVIOUS
<1>1. checkers # <<>> /\ Top.what = "then" /\ Top.what \in {"then", "else"} /\ ShapeInv
  BY DEF IfEnd, AInv
<1>2. reach' = BodyReach \cup Top.reach /\ effects' = KeptEffects(effects)
  BY DEF IfEnd
<1>3. PICK h \in Holdings : Sound(h, checkers, values, reach)
  BY DEF SoundInv
<1>4. effects[TRUE] = {}
  BY DEF SoundInv
<1>5. PICK n : Ending(h, Front(checkers), n)
  BY <1>1, <1>3, BranchEnds
<1>6. /\ Own(Top) /\ (DeadBranch(Top) => BodyReach = {} /\ InDead(Top, FALSE))
      /\ Top \in CheckerSet /\ (Top.term # "end" => BodyReach = {})
  BY <1>1, <1>5 DEF Ending, Left, Top
<1>7. /\ Top.cond.kind = "true" => Top.reach = {}
      /\ Top.branch.exits = {} /\ Top.cond.kind \in {"true", "false", "unknown"}
      /\ Top.pure => Top.does = {}
      /\ Top.odd \/ Top.gives \subseteq Cover(Top.returned)
  BY <1>1, <1>6 DEF Own, SoFarPure, SoFarReturned
<1>8. /\ Top.pure \in BOOLEAN /\ Top.term \in Terms /\ Top.returned \in ReturnTypes /\ Top.uses \in SUBSET Names
      /\ TRUE \in BOOLEAN /\ "end" \in Terms /\ NoType \in ReturnTypes /\ {} \in SUBSET Names
  BY <1>6, CheckerParts, TypesOf DEF Terms
<1>9. CASE Top.cond.kind = "true"
  <2>1. checkers' = Ended(Top.pure, Top.term, Top.returned, Top.uses) /\ values' = BodyTimeline
    BY <1>9 DEF IfEnd
  <2>2. /\ Valid(values', reach') /\ Agreed(h, values')
        /\ \A c : AsAround(c, BodyTimeline) /\ AsAround(c, Top.saved) =>
             /\ Shrinks(BodyTimeline, values') \/ Shrinks(Top.saved, values')
             /\ Shrinks(BodyTimeline, values') \/ (BodyReach = {} /\ Top.exits = {})
             /\ Shrinks(Top.saved, values') \/ (Top.reach = {} /\ Top.branch.exits = {})
    BY <1>2, <1>5, <1>7, <1>9, <2>1, EndLeaves
  <2>3. (Top.term # "end" => reach' = {})
    BY <1>2, <1>6, <1>7, <1>9
  <2>4. Top.odd \/ LoneReturn \/ Top.gives \subseteq Cover(Top.returned)
    BY <1>7
  <2>5. QED
    BY <1>1, <1>2, <1>3, <1>4, <1>7, <1>8, <2>1, <2>2, <2>3, <2>4, ClosedSound
<1>10. CASE Top.cond.kind = "false"
  <2>1. checkers' = Ended(TRUE, "end", NoType, {}) /\ values' = Top.saved
    BY <1>10 DEF IfEnd
  <2>2. BodyReach = {} /\ Top.exits = {} /\ Top.does = {} /\ Top.gives = {}
    BY <1>1, <1>6, <1>10 DEF DeadBranch, InDead
  <2>3. /\ Valid(values', reach') /\ Agreed(h, values')
        /\ \A c : AsAround(c, BodyTimeline) /\ AsAround(c, Top.saved) =>
             /\ Shrinks(BodyTimeline, values') \/ Shrinks(Top.saved, values')
             /\ Shrinks(BodyTimeline, values') \/ (BodyReach = {} /\ Top.exits = {})
             /\ Shrinks(Top.saved, values') \/ (Top.reach = {} /\ Top.branch.exits = {})
    BY <1>2, <1>5, <2>1, <2>2, EndLeaves
  <2>4. Top.odd \/ LoneReturn \/ Top.gives \subseteq Cover(NoType)
    BY <2>2
  <2>5. QED
    BY <1>1, <1>2, <1>3, <1>4, <1>8, <2>1, <2>2, <2>3, <2>4, ClosedSound
<1>11. CASE Top.cond.kind = "unknown"
  <2>1. checkers' = Ended(Top.pure, "end", NoType, Top.uses)
        /\ values' = MergeTimelines(BodyTimeline, Top.saved)
    BY <1>11 DEF IfEnd
  <2>2. /\ Valid(values', reach') /\ Agreed(h, values')
        /\ \A c : AsAround(c, BodyTimeline) /\ AsAround(c, Top.saved) =>
             /\ Shrinks(BodyTimeline, values') \/ Shrinks(Top.saved, values')
             /\ Shrinks(BodyTimeline, values') \/ (BodyReach = {} /\ Top.exits = {})
             /\ Shrinks(Top.saved, values') \/ (Top.reach = {} /\ Top.branch.exits = {})
    BY <1>2, <1>5, <2>1, EndLeaves
  <2>3. Top.odd \/ LoneReturn \/ Top.gives \subseteq Cover(NoType)
    BY <1>1, <1>7, <1>11 DEF LoneReturn
  <2>4. QED
    BY <1>1, <1>2, <1>3, <1>4, <1>7, <1>8, <2>1, <2>2, <2>3, ClosedSound
<1>12. QED
  BY <1>7, <1>9, <1>10, <1>11

LEMMA IfElseEndSound == AInv /\ SoundInv /\ IfElseEnd => SoundInv'
<1> SUFFICES ASSUME AInv, SoundInv, IfElseEnd PROVE SoundInv'
  OBVIOUS
<1>1. checkers # <<>> /\ Top.what = "else" /\ Top.what \in {"then", "else"} /\ ShapeInv
  BY DEF IfElseEnd, AInv
<1>2. reach' = BodyReach \cup Top.reach /\ effects' = KeptEffects(effects)
  BY DEF IfElseEnd
<1>3. PICK h \in Holdings : Sound(h, checkers, values, reach)
  BY DEF SoundInv
<1>4. effects[TRUE] = {}
  BY DEF SoundInv
<1>5. PICK n : Ending(h, Front(checkers), n)
  BY <1>1, <1>3, BranchEnds
<1>6. /\ Own(Top) /\ (DeadBranch(Top) => BodyReach = {} /\ InDead(Top, FALSE))
      /\ Top \in CheckerSet /\ (Top.term # "end" => BodyReach = {})
  BY <1>1, <1>5 DEF Ending, Left, Top
<1> DEFINE b == Top.branch
<1>7. /\ Top.cond.kind = "false" => Top.reach = {} /\ b.exits = {}
      /\ b.term # "end" => Top.reach = {}
      /\ Top.cond.kind \in {"true", "false", "unknown"}
      /\ SoFarPure(Top) => Top.does = {}
      /\ Top.odd \/ Top.gives \subseteq Cover(SoFarReturned(Top))
  BY <1>1, <1>6 DEF Own
<1>8. /\ Top.pure \in BOOLEAN /\ Top.term \in Terms /\ Top.returned \in ReturnTypes /\ Top.uses \in SUBSET Names
      /\ b.pure \in BOOLEAN /\ b.term \in Terms /\ b.returned \in ReturnTypes /\ b.uses \in SUBSET Names
  BY <1>6, CheckerParts DEF BranchSet
<1>9. CASE Top.cond.kind = "true"
  <2>1. checkers' = Ended(b.pure, b.term, b.returned, b.uses) /\ values' = Top.saved
    BY <1>9 DEF IfElseEnd
  <2>2. BodyReach = {} /\ Top.exits = {}
    BY <1>1, <1>6, <1>9 DEF DeadBranch, InDead
  <2>3. /\ Valid(values', reach') /\ Agreed(h, values')
        /\ \A c : AsAround(c, BodyTimeline) /\ AsAround(c, Top.saved) =>
             /\ Shrinks(BodyTimeline, values') \/ Shrinks(Top.saved, values')
             /\ Shrinks(BodyTimeline, values') \/ (BodyReach = {} /\ Top.exits = {})
             /\ Shrinks(Top.saved, values') \/ (Top.reach = {} /\ Top.branch.exits = {})
    BY <1>2, <1>5, <2>1, <2>2, EndLeaves
  <2>4. b.term # "end" => reach' = {}
    BY <1>2, <1>7, <2>2
  <2>5. SoFarPure(Top) = b.pure /\ SoFarReturned(Top) = b.returned
    BY <1>1, <1>9 DEF SoFarPure, SoFarReturned
  <2>6. (b.pure => Top.does = {}) /\ (Top.odd \/ LoneReturn \/ Top.gives \subseteq Cover(b.returned))
    BY <1>7, <2>5
  <2> HIDE DEF b
  <2>7. QED
    BY <1>1, <1>2, <1>3, <1>4, <1>8, <2>1, <2>3, <2>4, <2>6, ClosedSound
<1>10. CASE Top.cond.kind = "false"
  <2>1. checkers' = Ended(Top.pure, Top.term, Top.returned, Top.uses) /\ values' = BodyTimeline
    BY <1>10 DEF IfElseEnd
  <2>2. /\ Valid(values', reach') /\ Agreed(h, values')
        /\ \A c : AsAround(c, BodyTimeline) /\ AsAround(c, Top.saved) =>
             /\ Shrinks(BodyTimeline, values') \/ Shrinks(Top.saved, values')
             /\ Shrinks(BodyTimeline, values') \/ (BodyReach = {} /\ Top.exits = {})
             /\ Shrinks(Top.saved, values') \/ (Top.reach = {} /\ Top.branch.exits = {})
    BY <1>2, <1>5, <1>7, <1>10, <2>1, EndLeaves
  <2>3. Top.term # "end" => reach' = {}
    BY <1>2, <1>6, <1>7, <1>10
  <2>4. SoFarPure(Top) = Top.pure /\ SoFarReturned(Top) = Top.returned
    BY <1>1, <1>10 DEF SoFarPure, SoFarReturned
  <2>5. (Top.pure => Top.does = {}) /\ (Top.odd \/ LoneReturn \/ Top.gives \subseteq Cover(Top.returned))
    BY <1>7, <2>4
  <2>6. QED
    BY <1>1, <1>2, <1>3, <1>4, <1>8, <2>1, <2>2, <2>3, <2>5, ClosedSound
<1>11. CASE Top.cond.kind = "unknown"
  <2> DEFINE pure == BothPure(b.pure, Top.pure)
             term == BothTerms(b.term, Top.term)
             returned == AddReturnType(b.returned, Top.returned)
             uses == Top.uses \cup b.uses
  <2>1. checkers' = Ended(pure, term, returned, uses) /\ values' = MergeTimelines(Top.saved, BodyTimeline)
    BY <1>11 DEF IfElseEnd
  <2>2. /\ Valid(values', reach') /\ Agreed(h, values')
        /\ \A c : AsAround(c, BodyTimeline) /\ AsAround(c, Top.saved) =>
             /\ Shrinks(BodyTimeline, values') \/ Shrinks(Top.saved, values')
             /\ Shrinks(BodyTimeline, values') \/ (BodyReach = {} /\ Top.exits = {})
             /\ Shrinks(Top.saved, values') \/ (Top.reach = {} /\ Top.branch.exits = {})
    BY <1>2, <1>5, <2>1, EndLeaves
  <2>3. term # "end" => reach' = {}
    BY <1>2, <1>6, <1>7 DEF BothTerms
  <2>4. SoFarPure(Top) = (Top.pure /\ b.pure) /\ SoFarReturned(Top) = returned
    BY <1>1, <1>11 DEF SoFarPure, SoFarReturned
  <2>5. (pure => Top.does = {}) /\ (Top.odd \/ LoneReturn \/ Top.gives \subseteq Cover(returned))
    BY <1>7, <2>4 DEF BothPure
  <2>6. pure \in BOOLEAN /\ term \in Terms /\ returned \in ReturnTypes /\ uses \in SUBSET Names
    BY <1>8, TypesOf DEF BothPure, BothTerms, Terms
  <2> HIDE DEF pure, term, returned, uses, b
  <2>7. QED
    BY <1>1, <1>2, <1>3, <1>4, <2>1, <2>2, <2>3, <2>5, <2>6, ClosedSound
<1>12. QED
  BY <1>7, <1>9, <1>10, <1>11

-----------------------------------------------------------------------------
(* The end of a cycle.                                                     *)

\* The executions S come from E and have not changed the variables X.
From(S, E, X) == \A q \in S : \E e \in E : q[1] = e[1] /\ \A x \in X : q[2][x] = e[2][x]
Leaving(body, X) == \A q \in body : \A x \in X : q[2][x] = q[1][x]

LEMMA RepeatedKeeps ==
  ASSUME NEW E \in SUBSET Pairs, NEW body \in SUBSET Pairs, NEW X, Leaving(body, X)
  PROVE  From(Repeated(E, body), E, X)
<1> DEFINE S == {q \in Pairs : \E e \in E : q[1] = e[1] /\ \A x \in X : q[2][x] = e[2][x]}
<1>1. E \subseteq S
  OBVIOUS
<1>2. ASSUME NEW p \in S, NEW q \in body, q[1] = p[2] PROVE <<p[1], q[2]>> \in S
  <2>1. <<p[1], q[2]>> \in Pairs
    BY PairIs
  <2>2. PICK e \in E : p[1] = e[1] /\ \A x \in X : p[2][x] = e[2][x]
    OBVIOUS
  <2>3. \A x \in X : q[2][x] = e[2][x]
    BY <1>2, <2>2 DEF Leaving
  <2>4. QED
    BY <2>1, <2>2, <2>3
<1> HIDE DEF S
<1>3. \A p \in S, q \in body : q[1] = p[2] => <<p[1], q[2]>> \in S
  BY <1>2
<1>4. Repeated(E, body) \subseteq S
  BY <1>1, <1>3, RepeatedIn
<1>5. QED
  BY <1>4 DEF From, S

\* Out of the cycle, when its condition fails or by `exit`.
LEMMA CycleKeeps ==
  ASSUME NEW E \in SUBSET Pairs, NEW body \in SUBSET Pairs, NEW exits \in SUBSET Pairs,
         NEW X, X \subseteq Names, Leaving(body, X), Leaving(exits, X), NEW c \in CondSet, X # {} => ~Calls(c),
         NEW again, again = Repeated(E, body)
  PROVE  From(Fail(Evaluated(again, c), c) \cup Then(again, exits), E, X)
<1>1. again \in SUBSET Pairs /\ From(again, E, X)
  BY RepeatedPairs, RepeatedKeeps
<1>2. From(Evaluated(again, c), E, X)
  <2>1. CASE ~Calls(c)
    BY <1>1, <2>1 DEF Evaluated
  <2>2. CASE Calls(c)
    <3> DEFINE does == effects[FALSE]
    <3>1. Evaluated(again, c) = Called(again, does) /\ X = {}
      BY <2>2 DEF Evaluated
    <3> HIDE DEF does
    <3>2. \A q \in Called(again, does) : \E p \in again :
            q[1] = p[1] /\ \A x \in Names : x \notin does => q[2][x] = p[2][x]
      BY <1>1, CalledFrom
    <3>3. From(Called(again, does), E, X)
      BY <1>1, <3>1, <3>2 DEF From
    <3>4. QED
      BY <3>1, <3>3
  <2>3. QED
    BY <2>1, <2>2
<1>3. Fail(Evaluated(again, c), c) \subseteq Evaluated(again, c)
  BY ConditionParts
<1>4. From(Then(again, exits), E, X)
  <2> SUFFICES ASSUME NEW q \in Then(again, exits)
               PROVE  \E e \in E : q[1] = e[1] /\ \A x \in X : q[2][x] = e[2][x]
    BY DEF From
  <2>1. PICK p \in again, r \in exits : r[1] = p[2] /\ q = <<p[1], r[2]>>
    BY DEF Then
  <2>2. PICK e \in E : p[1] = e[1] /\ \A x \in X : p[2][x] = e[2][x]
    BY <1>1 DEF From
  <2>3. \A x \in X : q[2][x] = e[2][x]
    BY <2>1, <2>2 DEF Leaving
  <2>4. QED
    BY <2>1, <2>2, <2>3
<1>5. QED
  BY <1>2, <1>3, <1>4 DEF From

\* The variables of which something is known, were they seen.
Remembered(W) == {x \in DeclaredNames(W) : Raw(W, x) # Unknown}

\* What the timeline knows after the cycle it knew before, and it holds.
LEMMA CycleGoesOn ==
  ASSUME NEW h, NEW c, Sane(c.saved), NEW T, Sane(T), NEW W, CycleLeaves(c, T, W), AsAround(c, T),
         NEW E \in SUBSET Pairs, Valid(c.saved, E), Agreed(h, T),
         NEW S, From(S, E, Remembered(W))
  PROVE  Valid(W, S) /\ Agreed(h, W) /\ GoesOn(c.saved, E, W, S) /\ (E = {} => S = {})
<1> DEFINE X == Remembered(W)
<1>1. /\ Sane(W) /\ DeclaredNames(W) = DeclaredNames(c.saved)
      /\ \A x \in DeclaredNames(W) : /\ Hidden(W, x) <=> Hidden(c.saved, x)
                                     /\ Raw(W, x) # Unknown => KeptIn(T, x) /\ Raw(W, x) = Raw(T, x)
      /\ \A x \in Names : KeptIn(W, x) /\ Raw(W, x) = Raw(c.saved, x) => KeptIn(c.saved, x)
  BY DEF CycleLeaves
<1>2. \A x \in DeclaredNames(W) : x \in Names
  BY DEF DeclaredNames
<1>3. \A x \in X : x \in DeclaredNames(W) /\ x \in DeclaredNames(T) /\ Raw(W, x) = Raw(T, x) /\ Raw(W, x) = Raw(c.saved, x)
  BY <1>1, <1>2 DEF AsAround, KeptIn, Remembered
<1>4. Valid(W, S)
  <2> SUFFICES ASSUME NEW x \in DeclaredNames(W), NEW q \in S PROVE Fits(Known(W, x), q[2][x])
    BY DEF Valid
  <2>1. /\ Known(W, x) = IF Hidden(W, x) THEN Unknown ELSE Raw(W, x)
        /\ Known(c.saved, x) = IF Hidden(c.saved, x) THEN Unknown ELSE Raw(c.saved, x)
    BY <1>1, RawIs
  <2>2. CASE x \notin X
    <3>1. Known(W, x) = Unknown
      BY <2>1, <2>2 DEF Remembered
    <3>2. QED
      BY <3>1, UnknownFits
  <2>3. CASE x \in X
    <3>1. Known(W, x) = Known(c.saved, x)
      BY <1>1, <1>3, <2>1, <2>3
    <3>2. PICK e \in E : q[1] = e[1] /\ \A y \in X : q[2][y] = e[2][y]
      BY DEF From
    <3>3. Fits(Known(c.saved, x), e[2][x]) /\ q[2][x] = e[2][x]
      BY <1>1, <2>3, <3>2 DEF Valid
    <3>4. QED
      BY <3>1, <3>3
  <2>4. QED
    BY <2>2, <2>3
<1>5. Agreed(h, W)
  <2> SUFFICES ASSUME NEW x \in DeclaredNames(W) PROVE Holding(h, Raw(W, x))
    BY DEF Agreed
  <2>1. CASE x \notin X
    <3>1. Raw(W, x) = Unknown
      BY <2>1 DEF Remembered
    <3>2. QED
      BY <3>1, UnknownFits
  <2>2. CASE x \in X
    BY <1>3, <2>2 DEF Agreed
  <2>3. QED
    BY <2>1, <2>2
<1>6. \A x \in Names : KeptIn(W, x) => x \in X
  BY DEF KeptIn, Remembered
<1>7. Shrinks(c.saved, W)
  BY <1>1, <1>3, <1>6 DEF Shrinks
<1>8. Comes(S, E, W)
  BY <1>6 DEF Comes, From
<1>9. E = {} => S = {}
  BY DEF From
<1>10. QED
  BY <1>4, <1>5, <1>7, <1>8, <1>9 DEF GoesOn

\* The body of a cycle or function is over.
BlindEnding(h, fs, n) ==
  /\ Under(checkers, fs, n) /\ n >= 1 /\ fs # <<>> /\ Last(fs) = Outer
  /\ Sane(values) /\ Sane(Top.saved) /\ Inside(Top, values)
  /\ Sound(h, fs, Top.saved, Top.reach) /\ Valid(Top.saved, Top.reach) /\ Agreed(h, Top.saved)
  /\ Place(h, checkers, n + 1, values, reach) /\ Part(checkers, n + 1) /\ Left(checkers, reach)
  /\ reach \in SUBSET Pairs /\ Top \in CheckerSet /\ Outer \in CheckerSet /\ Outer.term = "end"

LEMMA BlindEnds ==
  ASSUME AInv, checkers # <<>>, Blinding(Top), NEW h, Sound(h, checkers, values, reach)
  PROVE  \E n : BlindEnding(h, Front(checkers), n)
<1> DEFINE fs == Front(checkers)
<1>1. ShapeInv /\ DataInv /\ Top.what # "program" /\ Top = Last(checkers)
  BY DEF AInv, Blinding, Top
<1>2. checkers \in Seq(CheckerSet) /\ Framed(checkers, values) /\ Sane(values) /\ reach \in SUBSET Pairs
  BY <1>1, TopIs DEF DataInv
<1>3. PICK n : Under(checkers, fs, n)
  BY <1>2, FrontUnder
<1>4. /\ n \in Nat /\ Len(checkers) = n + 1 /\ Len(fs) = n /\ fs \in Seq(CheckerSet)
      /\ checkers[n + 1] = Top /\ Top \in CheckerSet /\ n + 1 \in 1 .. n + 1
      /\ \A i \in 1 .. n : fs[i] = checkers[i]
  BY <1>1, <1>3 DEF Under
<1> HIDE DEF fs
<1>5. n >= 1
  <2>1. n # 0
    <3> SUFFICES ASSUME n = 0 PROVE FALSE
      OBVIOUS
    <3>1. n + 1 \in 1 .. Len(checkers) /\ n + 1 = 1
      BY <1>4
    <3>2. checkers[n + 1].what = "program"
      BY <1>2, <3>1 DEF Framed
    <3>3. QED
      BY <1>1, <1>4, <3>2
  <2>2. QED
    BY <1>4, <2>1
<1>6. Sane(Top.saved) /\ Inside(Top, values)
  <2>1. n + 1 \in 1 .. Len(checkers) /\ TimelineAt(checkers, values, n + 1) = values
    BY <1>4 DEF TimelineAt
  <2>2. FrameOk(UsesUnder(checkers, n + 1), checkers[n + 1], values)
    BY <1>2, <2>1, SaneAt
  <2>3. QED
    BY <1>4, <2>2 DEF FrameOk
<1>7. Place(h, checkers, n + 1, values, reach)
  BY <1>2, <1>4, PlaceNow
<1>8. /\ Sound(h, fs, Last(checkers).saved, Last(checkers).reach)
      /\ \A i \in 1 .. Len(checkers) - 1 : checkers[i].term = "end"
  BY <1>2, PoppedSound DEF fs
<1>9. Sound(h, fs, Top.saved, Top.reach) /\ \A i \in 1 .. n : checkers[i].term = "end"
  BY <1>1, <1>4, <1>8
<1>10. Valid(Top.saved, Top.reach) /\ Agreed(h, Top.saved)
  BY <1>4, <1>9, PlaceNow
<1>11. Part(checkers, n + 1) /\ Left(checkers, reach)
  BY <1>4 DEF Sound
<1>12. /\ fs # <<>> /\ Last(fs) = fs[n] /\ n \in 1 .. n /\ Len(checkers) - 1 = n
  BY <1>4, <1>5 DEF Last
<1>13. Outer = checkers[Len(checkers) - 1] /\ Outer \in CheckerSet
  BY <1>1, OuterIs
<1>14. Last(fs) = Outer /\ Outer.term = "end"
  BY <1>4, <1>9, <1>12, <1>13
<1>15. BlindEnding(h, fs, n)
  BY <1>1, <1>2, <1>3, <1>4, <1>5, <1>6, <1>7, <1>9, <1>10, <1>11, <1>12, <1>13, <1>14 DEF BlindEnding
<1>16. QED
  BY <1>15 DEF fs

\* The checker around the body on top goes on as c.
LEMMA BlindClosed ==
  ASSUME AInv, checkers # <<>>, Blinding(Top), NEW h \in Holdings, NEW n, BlindEnding(h, Front(checkers), n),
         NEW c \in CheckerSet, c.term = "end", Follows(c, Front(checkers), Top.reach),
         Valid(values', reach'), Agreed(h, values'), Top.reach = {} => reach' = {},
         NoCycle(Front(checkers)) \/ GoesOn(Top.saved, Top.reach, values', reach'),
         checkers' = Append(Front(Front(checkers)), c), effects'[TRUE] = {}
  PROVE  SoundInv'
<1> DEFINE fs == Front(checkers)
           ds == Append(Front(fs), c)
<1>1. /\ Under(checkers, fs, n) /\ n >= 1 /\ fs # <<>> /\ Sound(h, fs, Top.saved, Top.reach) /\ Last(fs) = Outer
  BY DEF BlindEnding
<1>2. fs \in Seq(CheckerSet) /\ Len(fs) = n
  BY <1>1 DEF Under
<1>3. fs = Front(checkers) /\ ds = Append(Front(fs), c) /\ checkers' = ds /\ Follows(c, fs, Top.reach)
      /\ (NoCycle(fs) \/ GoesOn(Top.saved, Top.reach, values', reach'))
  OBVIOUS
<1> HIDE DEF fs, ds
<1>4. Beside(fs, ds, c, n)
  <2>1. Framing(c, Outer)
    BY <1>1, <1>3 DEF Follows
  <2>2. Top.what # "program"
    BY DEF Blinding
  <2>3. QED
    BY <1>1, <1>3, <2>1, <2>2, OuterContext
<1>5. /\ ds \in Seq(CheckerSet) /\ Len(ds) = Len(fs) /\ ds[Len(fs)] = c
      /\ \A i \in 1 .. Len(fs) - 1 : ds[i] = fs[i]
  BY <1>2, <1>4 DEF Beside
<1>6. c.term # "end" => reach' = {}
  OBVIOUS
<1>7. Sound(h, ds, values', reach')
  BY <1>1, <1>2, <1>3, <1>5, <1>6, TopFollows, ZenonT(60)
<1>8. QED
  BY <1>3, <1>7 DEF SoundInv

LEMMA CycleEndSound == Judged /\ AInv /\ SoundInv /\ CycleEnd => SoundInv'
<1> SUFFICES ASSUME Judged, AInv, SoundInv, CycleEnd PROVE SoundInv'
  OBVIOUS
<1> DEFINE c == Top
           T == values
           W == values'
           body == VisibleOnly(reach, VisibleNames)
           exits == VisibleOnly(Top.exits, VisibleNames)
           again == Repeated(Top.reach, body)
           term == IF Top.term = "returned" THEN "returned" ELSE "end"
           pure == Top.cond.kind = "always"
           fs == Front(checkers)
<1>1. checkers # <<>> /\ Top.what = "cycle" /\ ~Excluded /\ ShapeInv /\ Top.what # "program" /\ Blinding(Top)
  BY DEF CycleEnd, AInv, Blinding
<1>2. /\ values' = ForgetAssigned(Around, ReferencedExternals(BodyTimeline))
      /\ reach' = Fail(Evaluated(again, Top.cond), Top.cond) \cup Then(again, exits)
      /\ checkers' = Ended(pure, term, Top.returned, Top.uses)
      /\ effects' = KeptEffects(effects)
  BY DEF CycleEnd
<1>3. PICK h \in Holdings : Sound(h, checkers, values, reach)
  BY DEF SoundInv
<1>4. effects[TRUE] = {}
  BY DEF SoundInv
<1>5. PICK n : BlindEnding(h, fs, n)
  BY <1>1, <1>3, BlindEnds
<1>6. /\ Under(checkers, fs, n) /\ n >= 1 /\ fs # <<>> /\ Last(fs) = Outer
      /\ Sane(T) /\ Sane(c.saved) /\ Inside(c, T)
      /\ Sound(h, fs, c.saved, c.reach) /\ Valid(c.saved, c.reach) /\ Agreed(h, c.saved)
      /\ Place(h, checkers, n + 1, T, reach) /\ Part(checkers, n + 1)
      /\ reach \in SUBSET Pairs /\ c \in CheckerSet /\ Outer \in CheckerSet /\ Outer.term = "end"
  BY <1>5 DEF BlindEnding
<1>7. /\ n \in Nat /\ Len(fs) = n /\ checkers[n + 1] = c /\ n + 1 \in 1 .. n + 1
      /\ n + 1 \in n + 1 .. n + 1
      /\ \A i \in 1 .. n : DeadIn(fs, i, n) => DeadIn(checkers, i, n + 1) /\ i < n + 1 /\ i \in 1 .. n + 1
  BY <1>1, <1>6 DEF Under, Top
<1>8. term = "end" /\ (pure => c.does \cap (VisibleNames \cup {Output}) = {})
  BY <1>1 DEF Excluded, Judged
<1>9. /\ c.cond \in CondSet /\ c.reach \in SUBSET Pairs /\ c.exits \in SUBSET Pairs
      /\ c.returned \in ReturnTypes /\ c.uses \in SUBSET Names /\ pure \in BOOLEAN /\ "end" \in Terms
  BY <1>6, CheckerParts DEF Terms
<1>10. body \in SUBSET Pairs /\ exits \in SUBSET Pairs
  BY <1>6, <1>9, VisibleOnlyIn
<1>11. CycleLeaves(c, T, W)
  <2> DEFINE B == EndScope(T)
             ext == ReferencedExternals(B)
             V == AssignAllUnknown(EndScope(B), {x \in DOMAIN ext : ext[x]})
  <2>1. CycleLeaves(c, T, V)
    BY <1>1, <1>6, CycleEndView
  <2>2. W = V
    BY <1>1, <1>2 DEF ForgetAssigned, Around, BodyTimeline
  <2>3. QED
    BY <2>1, <2>2
<1>12. AsAround(c, T) /\ Keeps(reach, T) /\ Keeps(c.exits, T) /\ Agreed(h, T)
  <2>1. CycleOf(checkers, n + 1, n + 1)
    BY <1>1, <1>7 DEF CycleOf
  <2>2. InTurn(checkers, n + 1, n + 1, T, reach)
    BY <1>6, <1>7, <2>1 DEF Place
  <2>3. QED
    BY <1>6, <1>7, <2>2 DEF InTurn, Place
<1> DEFINE X == Remembered(W)
<1>13. /\ X \subseteq Names /\ \A x \in X : x \in VisibleNames /\ KeptIn(T, x)
       /\ X # {} => ~Calls(c.cond)
  <2>1. VisibleNames = DeclaredNames(c.saved)
    BY <1>1, AroundIs
  <2>2. \A x \in X : x \in VisibleNames /\ KeptIn(T, x) /\ x \in Names
    BY <1>11, <2>1 DEF CycleLeaves, KeptIn, DeclaredNames, Remembered
  <2>3. QED
    BY <1>12, <2>2 DEF AsAround
<1>14. ASSUME NEW R \in SUBSET Pairs, Keeps(R, T) PROVE Leaving(VisibleOnly(R, VisibleNames), X)
  <2>1. \A q \in VisibleOnly(R, VisibleNames) : \E p \in R :
          q[1] = p[1] /\ \A x \in Names : q[2][x] = IF x \in VisibleNames THEN p[2][x] ELSE None
    BY VisibleOnlyIs
  <2> HIDE DEF X
  <2> SUFFICES ASSUME NEW q \in VisibleOnly(R, VisibleNames), NEW x \in X PROVE q[2][x] = q[1][x]
    BY DEF Leaving
  <2>2. PICK p \in R : q[1] = p[1] /\ \A y \in Names : q[2][y] = IF y \in VisibleNames THEN p[2][y] ELSE None
    BY <2>1
  <2>3. x \in Names /\ x \in VisibleNames /\ KeptIn(T, x)
    BY <1>13
  <2>4. p[2][x] = p[1][x]
    BY <1>14, <2>3 DEF Keeps
  <2>5. QED
    BY <2>2, <2>3, <2>4
<1>15. Leaving(body, X) /\ Leaving(exits, X)
  BY <1>6, <1>9, <1>12, <1>14
<1> HIDE DEF X
<1>16. From(reach', c.reach, X)
  <2> HIDE DEF body, exits
  <2>1. From(Fail(Evaluated(again, c.cond), c.cond) \cup Then(again, exits), c.reach, X)
    BY <1>9, <1>10, <1>13, <1>15, CycleKeeps
  <2>2. QED
    BY <1>2, <2>1
<1>17. Valid(W, reach') /\ Agreed(h, W) /\ GoesOn(c.saved, c.reach, W, reach') /\ (c.reach = {} => reach' = {})
  <2> DEFINE S == reach'
             V == values'
  <2>2. CycleLeaves(c, T, V) /\ From(S, c.reach, Remembered(V))
    BY <1>11, <1>16 DEF X
  <2> HIDE DEF S, V, c, T
  <2>3. Valid(V, S) /\ Agreed(h, V) /\ GoesOn(c.saved, c.reach, V, S) /\ (c.reach = {} => S = {})
    BY <1>6, <1>9, <1>12, <2>2, CycleGoesOn, ZenonT(60)
  <2>4. QED
    BY <2>3 DEF S, V
<1>18. PICK d : Takes(d, pure, "end", c.returned)
                /\ Ended(pure, "end", c.returned, c.uses) = Append(Front(Front(checkers)), d)
  BY <1>1, <1>9, EndedIs
<1>19. /\ d \in CheckerSet /\ Framing(d, Outer) /\ d.term = "end"
       /\ d.pure = (Outer.pure /\ pure) /\ d.returned = AddReturnType(Outer.returned, c.returned)
       /\ d.odd = (Outer.odd \/ c.odd \/ LoneReturn)
       /\ d.does = Outer.does \cup (c.does \cap (VisibleNames \cup {Output}))
       /\ d.gives = Outer.gives \cup c.gives /\ d.exits = Outer.exits
  BY <1>1, <1>18 DEF Takes, Exits
<1>20. c.odd \/ c.gives \subseteq Cover(c.returned)
  <2>1. Own(c)
    BY <1>6, <1>7 DEF Part
  <2>2. QED
    BY <1>1, <2>1 DEF Own, SoFarReturned
<1>21. Adds(d, Outer)
  <2>1. d.pure => Outer.pure /\ d.does = Outer.does
    <3>1. Outer.pure \in BOOLEAN
      BY <1>6, CheckerParts
    <3>2. QED
      BY <1>8, <1>9, <1>19, <3>1
  <2>2. d.odd \/ (~Outer.odd /\ d.gives \subseteq Outer.gives \cup Cover(c.returned))
    <3>1. Outer.odd \in BOOLEAN /\ c.odd \in BOOLEAN
      BY <1>6, CheckerParts
    <3>2. QED
      BY <1>19, <1>20, <3>1
  <2>3. QED
    BY <1>9, <1>19, <2>1, <2>2 DEF Adds
<1>22. \A i \in 1 .. Len(fs) : DeadIn(fs, i, Len(fs)) => Same(d, Outer)
  <2> SUFFICES ASSUME NEW i \in 1 .. n, DeadIn(fs, i, n) PROVE Same(d, Outer)
    BY <1>7
  <2>1. InDead(c, i < n + 1) /\ i < n + 1
    BY <1>6, <1>7 DEF Part
  <2>2. c.does = {} /\ c.gives = {}
    BY <2>1 DEF InDead
  <2>3. QED
    BY <1>19, <2>2 DEF Same
<1>23. Follows(d, fs, c.reach)
  BY <1>6, <1>19, <1>21, <1>22 DEF Follows
<1>24. effects'[TRUE] = {}
  BY <1>2, <1>4, KeptNothing
<1>25. checkers' = Append(Front(Front(checkers)), d)
  BY <1>2, <1>8, <1>18
<1> HIDE DEF body, exits, again, term, pure
<1>26. QED
  BY <1>1, <1>5, <1>17, <1>19, <1>23, <1>24, <1>25, BlindClosed

-----------------------------------------------------------------------------
(* The end of a function, and of the program.                              *)

LEMMA FunctionEndSound == AInv /\ SoundInv /\ FunctionEnd => SoundInv'
<1> SUFFICES ASSUME AInv, SoundInv, FunctionEnd PROVE SoundInv'
  OBVIOUS
<1> DEFINE R == Top.reach
           fs == Front(checkers)
           b == Outer
           W == AssignAllUnknown(Top.saved, Captured)
           d == Checked(b, TRUE, Captured, {})
<1>1. checkers # <<>> /\ Top.what = "function" /\ ShapeInv /\ Blinding(Top)
  BY DEF FunctionEnd, AtFunctionEnd, AInv, Blinding
<1>2. /\ values' = W /\ reach' = R
      /\ effects' = [KeptEffects(effects) EXCEPT ![Top.pure] =
                       KeptEffects(effects)[Top.pure] \cup (Top.does \cap (VisibleNames \cup {Output}))]
      /\ checkers' = Append(Front(fs), d)
  BY Zenon DEF FunctionEnd
<1>3. PICK h \in Holdings : Sound(h, checkers, values, reach)
  BY DEF SoundInv
<1>4. PICK n : BlindEnding(h, fs, n)
  BY <1>1, <1>3, BlindEnds
<1>5. /\ Under(checkers, fs, n) /\ fs # <<>> /\ Last(fs) = b
      /\ Sane(Top.saved) /\ Valid(Top.saved, R) /\ Agreed(h, Top.saved)
      /\ Part(checkers, n + 1) /\ Top \in CheckerSet /\ b \in CheckerSet /\ b.term = "end"
  BY <1>4 DEF BlindEnding
<1>6. Captured \subseteq Names
  <2> DEFINE ext == ReferencedExternals(BodyTimeline)
  <2>1. DOMAIN ext \subseteq Names
    BY <1>1, ReferencedIs
  <2>2. QED
    BY <2>1 DEF Captured
<1>7. d \in CheckerSet
  <2>1. TRUE \in BOOLEAN /\ Captured \in SUBSET Names /\ {} \in SUBSET (Names \cup {Output})
    BY <1>6
  <2>2. QED
    BY <1>5, <2>1, CheckedGoes
<1>8. /\ Framing(d, b) /\ d.term = "end" /\ d.pure = (b.pure /\ TRUE) /\ d.returned = b.returned /\ d.odd = b.odd
      /\ d.does = b.does /\ d.gives = b.gives /\ d.exits = b.exits
  BY <1>5 DEF Checked, CheckerSet, Framing
<1> HIDE DEF d, fs, b
<1>9. Adds(d, b)
  <2>1. b.returned = AddReturnType(b.returned, NoType) /\ NoType \in ReturnTypes /\ b.pure \in BOOLEAN
    BY <1>5, CheckerParts, CoverIs, TypesOf
  <2>2. d.pure => b.pure
    BY <1>8, <2>1
  <2>3. QED
    BY <1>8, <2>1, <2>2 DEF Adds
<1>10. Follows(d, fs, R)
  BY <1>5, <1>8, <1>9 DEF Follows, Same
<1>11. /\ Sane(W) /\ SameVariables(Top.saved, W)
       /\ \A y \in DeclaredNames(Top.saved) : Raw(W, y) = IF y \in Captured THEN Unknown ELSE Raw(Top.saved, y)
       /\ Shrinks(Top.saved, W)
  BY <1>5, <1>6, AssignAllUnknownView
<1> HIDE DEF W
<1>12. Valid(W, R)
  <2> SUFFICES ASSUME NEW x \in DeclaredNames(W), NEW p \in R PROVE Fits(Known(W, x), p[2][x])
    BY DEF Valid
  <2>1. x \in DeclaredNames(Top.saved) /\ (Hidden(W, x) <=> Hidden(Top.saved, x))
    BY <1>11 DEF SameVariables
  <2>2. /\ Known(W, x) = IF Hidden(W, x) THEN Unknown ELSE Raw(W, x)
        /\ Known(Top.saved, x) = IF Hidden(Top.saved, x) THEN Unknown ELSE Raw(Top.saved, x)
    BY <1>5, <1>11, <2>1, RawIs
  <2>3. Known(W, x) = Unknown \/ Known(W, x) = Known(Top.saved, x)
    BY <1>11, <2>1, <2>2
  <2>4. Fits(Known(Top.saved, x), p[2][x])
    BY <1>5, <2>1 DEF Valid
  <2>5. QED
    BY <2>3, <2>4, UnknownFits
<1>13. Agreed(h, W)
  <2> SUFFICES ASSUME NEW x \in DeclaredNames(W) PROVE Holding(h, Raw(W, x))
    BY DEF Agreed
  <2>1. x \in DeclaredNames(Top.saved)
    BY <1>11 DEF SameVariables
  <2>2. QED
    BY <1>5, <1>11, <2>1, UnknownFits DEF Agreed
<1>14. GoesOn(Top.saved, R, W, R)
  BY <1>11 DEF GoesOn, Comes
<1>15. effects'[TRUE] = {}
  <2> DEFINE e == KeptEffects(effects)
             xs == Top.does \cap (VisibleNames \cup {Output})
  <2>1. e[TRUE] = {} /\ e = [p \in BOOLEAN |-> e[p]]
    BY KeptNothing DEF SoundInv, KeptEffects
  <2>2. effects' = [e EXCEPT ![Top.pure] = e[Top.pure] \cup xs] /\ Top.pure \in BOOLEAN
    BY <1>2, <1>5, CheckerParts
  <2>3. Top.pure => xs = {}
    <3>1. Own(Top)
      BY <1>5 DEF Part, Under, Top
    <3>2. QED
      BY <1>1, <3>1 DEF Own, SoFarPure
  <2> HIDE DEF e, xs
  <2>4. CASE Top.pure
    <3>1. Top.pure = TRUE
      BY <2>2, <2>4
    <3>2. QED
      BY <2>1, <2>2, <2>3, <3>1
  <2>5. CASE ~Top.pure
    <3>1. Top.pure = FALSE /\ TRUE # FALSE
      BY <2>2, <2>5
    <3>2. QED
      BY <2>1, <2>2, <3>1
  <2>6. QED
    BY <2>4, <2>5
<1>16. /\ Valid(values', reach') /\ Agreed(h, values') /\ (Top.reach = {} => reach' = {})
       /\ (NoCycle(Front(checkers)) \/ GoesOn(Top.saved, Top.reach, values', reach'))
  BY <1>2, <1>12, <1>13, <1>14
<1>17. checkers' = Append(Front(Front(checkers)), d) /\ Follows(d, Front(checkers), Top.reach)
       /\ BlindEnding(h, Front(checkers), n)
  BY <1>2, <1>4, <1>10 DEF fs
<1> HIDE DEF R
<1>18. QED
  BY <1>1, <1>7, <1>8, <1>15, <1>16, <1>17, BlindClosed

LEMMA ProgramEndSound == AInv /\ SoundInv /\ ProgramEnd => SoundInv'
<1> SUFFICES ASSUME AInv, SoundInv, ProgramEnd PROVE SoundInv'
  OBVIOUS
<1> DEFINE fs == Front(checkers)
           A == BodyTimeline
           S == BodyReach
<1>1. checkers # <<>> /\ Top.what = "program" /\ ShapeInv /\ DataInv /\ ~Blinding(Top) /\ Top = Last(checkers)
  BY DEF ProgramEnd, AInv, Blinding, Top
<1>2. checkers' = <<>> /\ values' = A /\ reach' = S /\ effects' = KeptEffects(effects)
  BY DEF ProgramEnd
<1>3. PICK h \in Holdings : Sound(h, checkers, values, reach)
  BY DEF SoundInv
<1>4. checkers \in Seq(CheckerSet) /\ Framed(checkers, values) /\ Sane(values) /\ reach \in SUBSET Pairs
  BY <1>1, TopIs DEF DataInv
<1>5. PICK n : Under(checkers, fs, n)
  BY <1>1, <1>4, FrontUnder
<1>6. /\ n \in Nat /\ Len(checkers) = n + 1 /\ checkers[n + 1] = Top
  BY <1>1, <1>5 DEF Under
<1> HIDE DEF fs
<1>7. Sane(Top.saved) /\ Inside(Top, values)
  <2>1. n + 1 \in 1 .. Len(checkers) /\ TimelineAt(checkers, values, n + 1) = values
    BY <1>6 DEF TimelineAt
  <2>2. FrameOk(UsesUnder(checkers, n + 1), checkers[n + 1], values)
    BY <1>4, <2>1, SaneAt
  <2>3. QED
    BY <1>6, <2>2 DEF FrameOk
<1>8. Place(h, checkers, n + 1, values, reach)
  BY <1>3, <1>4, <1>6, PlaceNow
<1>9. A = EndScope(values) /\ S = VisibleOnly(reach, DeclaredNames(A))
  <2>1. Around = A
    BY <1>1 DEF Around, Blinding
  <2>2. QED
    BY <2>1 DEF BodyTimeline, BodyReach, VisibleNames
<1> HIDE DEF A, S
<1>10. Valid(A, S) /\ Agreed(h, A)
  <2>1. Sane(Last(checkers).saved) /\ Inside(Last(checkers), values) /\ ~Blinding(Last(checkers))
    BY <1>1, <1>7
  <2>2. Leaves(h, fs, n, Last(checkers), A, reach, S)
    BY <1>4, <1>5, <1>8, <1>9, <2>1, BranchLeaves
  <2>3. QED
    BY <2>2 DEF Leaves, Place
<1>11. Sound(h, <<>>, A, S)
  <2> DEFINE ds == <<>>
  <2>1. Len(ds) = 0 /\ ds = <<>> /\ (\A j \in 0 .. Len(ds) : j = Len(ds)) /\ 1 .. Len(ds) = {} /\ 1 .. 0 = {}
    OBVIOUS
  <2> HIDE DEF ds
  <2>2. ASSUME NEW j \in 0 .. Len(ds) PROVE Place(h, ds, j, TimelineAt(ds, A, j), ReachAt(ds, S, j))
    <3>1. j = 0 /\ TimelineAt(ds, A, j) = A /\ ReachAt(ds, S, j) = S
      BY <2>1 DEF TimelineAt, ReachAt
    <3>2. Place(h, ds, 0, A, S)
      BY <1>10, <2>1 DEF Place
    <3>3. QED
      BY <3>1, <3>2
  <2>3. \A i \in 1 .. Len(ds) : Part(ds, i)
    BY <2>1
  <2>4. Left(ds, S)
    BY <2>1 DEF Left
  <2>5. Sound(h, ds, A, S)
    BY <2>2, <2>3, <2>4 DEF Sound
  <2>6. QED
    BY <2>5 DEF ds
<1>12. effects'[TRUE] = {}
  BY <1>2, KeptNothing DEF SoundInv
<1>13. QED
  BY <1>2, <1>11, <1>12 DEF SoundInv

-----------------------------------------------------------------------------
(* The theorems.                                                           *)

LEMMA InitSound == Init => SoundInv
<1> SUFFICES ASSUME Init PROVE SoundInv
  OBVIOUS
<1> DEFINE d == Checker("program", FALSE, FALSE, Always, Outermost, {}, NoBranch)
           W == StartScope(Outermost)
           cs == <<d>>
<1>1. values = W /\ checkers = cs /\ effects = [pure \in BOOLEAN |-> {}]
  BY DEF Init
<1>2. Sane(Outermost) /\ \A x : ~IsDeclared(Outermost, x)
  <2>1. Sane(Outermost)
    BY OutermostIs
  <2>2. QED
    BY <2>1 DEF IsDeclared, DeclaredIn, Outermost, NewScope
<1>3. DeclaredNames(Outermost) = {}
  BY <1>2 DEF DeclaredNames
<1>4. DeclaredNames(W) = {}
  <2>1. /\ Sane(W) /\ SameVariables(Outermost, W)
        /\ \A y \in DeclaredNames(Outermost) : Raw(W, y) = Raw(Outermost, y)
        /\ Shrinks(Outermost, W)
    BY <1>2, StartScopeView
  <2>2. QED
    BY <1>3, <2>1 DEF SameVariables
<1>5. \A h, T, R : DeclaredNames(T) = {} => Valid(T, R) /\ Agreed(h, T)
  BY DEF Valid, Agreed
<1>6. /\ d.what = "program" /\ d.exits = {} /\ d.does = {} /\ d.gives = {} /\ d.term = "end"
      /\ d.branch = NoBranch /\ d.saved = Outermost /\ d.reach = {}
  BY DEF Checker
<1>7. Empty(d)
  BY <1>6 DEF Empty
<1> HIDE DEF d, W
<1>8. Len(cs) = 1 /\ cs[1] = d /\ cs # <<>> /\ Last(cs) = d /\ (\A j \in 0 .. 1 : j = 0 \/ j = 1)
      /\ (\A j \in 1 .. 1 : j = 1) /\ 1 .. 0 = {} /\ 0 # 1 /\ cs = Append(<<>>, d) /\ Len(<<>>) + 1 = 1
  BY DEF Last
<1>9. Part(cs, 1)
  <2> DEFINE es == <<>>
  <2>1. es \in Seq(CheckerSet) /\ cs = Append(es, d) /\ Len(es) + 1 = 1
    BY <1>8
  <2> HIDE DEF es, cs
  <2>2. Part(cs, Len(es) + 1)
    BY <1>7, <2>1, EmptyPart
  <2>3. QED
    BY <2>1, <2>2
<1> HIDE DEF cs
<1> DEFINE h == [o \in Nat |-> None]
<1>10. h \in Holdings
  BY DEF Holdings, Values
<1> HIDE DEF h
<1>11. Place(h, cs, 0, TimelineAt(cs, W, 0), ReachAt(cs, reach, 0))
  <2>1. TimelineAt(cs, W, 0) = Outermost
    BY <1>6, <1>8 DEF TimelineAt
  <2>2. QED
    BY <1>3, <1>5, <1>8, <2>1 DEF Place
<1>12. Place(h, cs, 1, TimelineAt(cs, W, 1), ReachAt(cs, reach, 1))
  <2>1. TimelineAt(cs, W, 1) = W
    BY <1>8 DEF TimelineAt
  <2>2. \A k \in 1 .. 1 : ~DeadIn(cs, k, 1) /\ ~CycleOf(cs, k, 1)
    BY <1>6, <1>8 DEF DeadIn, DeadBranch, CycleOf
  <2>3. QED
    BY <1>4, <1>5, <2>1, <2>2 DEF Place
<1>13. Sound(h, cs, W, reach)
  <2>1. \A j \in 0 .. Len(cs) : Place(h, cs, j, TimelineAt(cs, W, j), ReachAt(cs, reach, j))
    BY <1>8, <1>11, <1>12
  <2>2. \A i \in 1 .. Len(cs) : Part(cs, i)
    BY <1>8, <1>9
  <2>3. Left(cs, reach)
    BY <1>6, <1>8 DEF Left
  <2>4. QED
    BY <2>1, <2>2, <2>3 DEF Sound
<1>14. QED
  BY <1>1, <1>10, <1>13 DEF SoundInv

LEMMA StepSound == Judged /\ AInv /\ SoundInv /\ [Next]_vars => SoundInv'
<1> SUFFICES ASSUME Judged, AInv, SoundInv, [Next]_vars PROVE SoundInv'
  OBVIOUS
<1>1. CASE VarStatement
  BY <1>1, VarSound
<1>2. CASE AssignStatement
  BY <1>2, AssignKeepsSound
<1>3. CASE PrintStatement
  BY <1>3, PrintSound
<1>4. CASE CallStatement
  BY <1>4, CallSound
<1>5. CASE ExitStatement
  BY <1>5, ExitSound
<1>6. CASE ReturnStatement
  BY <1>6, ReturnSound
<1>7. CASE IfBegin
  BY <1>7, IfBeginSound
<1>8. CASE IfElse
  BY <1>8, IfElseSound
<1>9. CASE IfEnd
  BY <1>9, IfEndSound
<1>10. CASE IfElseEnd
  BY <1>10, IfElseEndSound
<1>11. CASE WhileBegin
  BY <1>11, WhileBeginSound
<1>12. CASE WhileRemoved
  BY <1>12, WhileRemovedSound
<1>13. CASE ForBegin
  BY <1>13, ForBeginSound
<1>14. CASE LoopBegin
  BY <1>14, LoopBeginSound
<1>15. CASE CycleEnd
  BY <1>15, CycleEndSound
<1>16. CASE FunctionBegin
  BY <1>16, FunctionBeginSound
<1>17. CASE FunctionEnd
  BY <1>17, FunctionEndSound
<1>18. CASE ProgramEnd
  BY <1>18, ProgramEndSound
<1>19. CASE UNCHANGED vars
  <2>1. values' = values /\ checkers' = checkers /\ reach' = reach /\ effects' = effects
    BY <1>19 DEF vars
  <2>2. QED
    BY <2>1 DEF SoundInv
<1>20. QED
  BY <1>1, <1>2, <1>3, <1>4, <1>5, <1>6, <1>7, <1>8, <1>9, <1>10, <1>11, <1>12, <1>13, <1>14,
     <1>15, <1>16, <1>17, <1>18, <1>19, Zenon DEF Next, Terminated

LEMMA WhatIsKnown == AInv /\ SoundInv => KnownValuesAreRight /\ DroppedIsUnreachable /\ PureIsEffectless
<1> SUFFICES ASSUME AInv, SoundInv PROVE KnownValuesAreRight /\ DroppedIsUnreachable /\ PureIsEffectless
  OBVIOUS
<1>1. PICK h \in Holdings : Sound(h, checkers, values, reach)
  BY DEF SoundInv
<1>2. ASSUME checkers # <<>> PROVE checkers \in Seq(CheckerSet) /\ Top = checkers[Len(checkers)]
  BY <1>2, TopIs DEF AInv
<1>3. KnownValuesAreRight
  <2>1. checkers # <<>> => Valid(values, reach)
    BY <1>1, <1>2, PlaceNow
  <2>2. QED
    BY <2>1 DEF KnownValuesAreRight, Valid, Fits
<1>4. DroppedIsUnreachable
  <2>1. Left(checkers, reach)
    BY <1>1 DEF Sound
  <2>2. Framed(checkers, values)
    BY DEF AInv, ShapeInv
  <2>3. checkers \in Seq(CheckerSet)
    BY <2>2 DEF Framed
  <2>4. QED
    BY <2>1, <2>3 DEF Left, DroppedIsUnreachable, Last
<1>5. PureIsEffectless
  BY DEF SoundInv, PureIsEffectless
<1>6. QED
  BY <1>3, <1>4, <1>5

LEMMA WhatIsReturned == Constructs = {} /\ AInv /\ SoundInv => ReturnTypeIsRight
<1> SUFFICES ASSUME Constructs = {}, AInv, SoundInv, AtFunctionEnd, OddReturns \subseteq Constructs
             PROVE  \/ ReturnType = UnknownType
                    \/ Top.gives \cup (IF reach = {} THEN {} ELSE {"none"}) \subseteq {ReturnType}
  BY DEF ReturnTypeIsRight
<1>1. PICK h \in Holdings : Sound(h, checkers, values, reach)
  BY DEF SoundInv
<1>2. checkers # <<>> /\ Top.what = "function"
  BY DEF AtFunctionEnd
<1>3. Top = checkers[Len(checkers)] /\ Len(checkers) \in 1 .. Len(checkers)
  BY <1>2, TopIs DEF AInv
<1>4. Own(Top)
  BY <1>1, <1>3 DEF Sound, Part
<1>5. ~Top.odd /\ (reach = {} \/ Top.returned = NoType)
  BY DEF OddReturns
<1>6. Top.gives \subseteq Cover(Top.returned)
  BY <1>2, <1>4, <1>5 DEF Own, SoFarReturned
<1>7. QED
  BY <1>5, <1>6 DEF Cover, ReturnType

\* The invariant holds in every program that has none of the four constructs
\* with which the code concludes too much (Judged): whatever visitor runs, what
\* the timeline, the results and the purity say goes on to hold for every
\* execution (StatementChecker::Visit... in statementChecker.cpp).
THEOREM SoundnessIsKept == Judged => (Spec => []SoundInv)
<1> SUFFICES ASSUME Judged PROVE Spec => []SoundInv
  OBVIOUS
<1>1. AInv /\ SoundInv /\ [Next]_vars => SoundInv'
  BY StepSound
<1>2. QED
  BY <1>1, InitSound, ShapeIsKept, PTL DEF Spec

\* What the analyzer knows of a variable where it reads it (ValueTimeline::LookupVariable)
\* is what the variable holds in every execution that gets there.
THEOREM KnownIsRight == Judged => (Spec => []KnownValuesAreRight)
<1> SUFFICES ASSUME Judged PROVE Spec => []KnownValuesAreRight
  OBVIOUS
<1>1. Spec => []SoundInv
  BY SoundnessIsKept
<1>2. AInv /\ SoundInv => KnownValuesAreRight
  BY WhatIsKnown
<1>3. QED
  BY <1>1, <1>2, ShapeIsKept, PTL

\* Statements behind one that always ends the body, which VisitBody drops
\* (statementChecker.cpp), are reached by no execution.
THEOREM DroppedIsDead == Judged => (Spec => []DroppedIsUnreachable)
<1> SUFFICES ASSUME Judged PROVE Spec => []DroppedIsUnreachable
  OBVIOUS
<1>1. Spec => []SoundInv
  BY SoundnessIsKept
<1>2. AInv /\ SoundInv => DroppedIsUnreachable
  BY WhatIsKnown
<1>3. QED
  BY <1>1, <1>2, ShapeIsKept, PTL

\* A function the analyzer takes for pure, whose calls it may leave out or
\* evaluate in advance, has no effect that can be seen (`pure` of the checkers).
THEOREM PureHasNoEffect == Judged => (Spec => []PureIsEffectless)
<1> SUFFICES ASSUME Judged PROVE Spec => []PureIsEffectless
  OBVIOUS
<1>1. Spec => []SoundInv
  BY SoundnessIsKept
<1>2. AInv /\ SoundInv => PureIsEffectless
  BY WhatIsKnown
<1>3. QED
  BY <1>1, <1>2, ShapeIsKept, PTL

\* The type a function is said to return (AddReturnType and VisitFuncLiteral),
\* if it is said to return a type, is that of what every execution returns, the
\* end of its body included.
THEOREM ReturnsWhatIsSaid == Constructs = {} => (Spec => []ReturnTypeIsRight)
<1> SUFFICES ASSUME Constructs = {} PROVE Spec => []ReturnTypeIsRight
  OBVIOUS
<1>1. Judged
  BY DEF Judged
<1>2. Spec => []SoundInv
  BY <1>1, SoundnessIsKept
<1>3. AInv /\ SoundInv => ReturnTypeIsRight
  BY WhatIsReturned
<1>4. QED
  BY <1>2, <1>3, ShapeIsKept, PTL
=============================================================================
