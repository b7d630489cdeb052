--------------------------- MODULE Strings_proofs ----------------------------
(***************************************************************************)
(* For all strings and arguments: the pieces of Split and SplitWS are the  *)
(* right ones, Join undoes Split, Slice takes the right characters, and    *)
(* nothing outside of a string is read.                                    *)
(*                                                                         *)
(* The invariant only says that `array` and `call` are what the methods    *)
(* return; the work is in the lemmas about what the loops compute.         *)
(***************************************************************************)
EXTENDS Strings, SequenceTheorems, FiniteSetTheorems, WellFoundedInduction, TLAPS

-----------------------------------------------------------------------------
(* Least numbers, and recursive functions of positions.                    *)

\* A set of natural numbers without a least element is empty.
LEMMA SmallestOf ==
  ASSUME NEW D \in SUBSET Nat, D # {}
  PROVE  \E k \in D : \A m \in D : k <= m
<1> DEFINE R == {p \in Nat \X Nat : p[1] < p[2]}
<1>1. IsWellFoundedOn(R, Nat)
  BY NatLessThanWellFounded DEF OpToRel
<1>2. PICK k \in D : \A m \in D : ~(<<m, k>> \in R)
  BY <1>1, WFMin
<1>3. \A m \in D : ~(m < k)
  BY <1>2
<1>4. QED
  BY <1>3

LEMMA LeastIs ==
  ASSUME NEW S \in SUBSET Nat, S # {}
  PROVE  Least(S) \in S /\ Least(S) \in Nat /\ \A y \in S : Least(S) <= y
<1>1. \E x \in S : \A y \in S : x <= y
  BY SmallestOf
<1>2. QED
  BY <1>1 DEF Least

\* The one that all others are above is the least.
LEMMA LeastIsThis ==
  ASSUME NEW S \in SUBSET Nat, NEW x \in S, \A y \in S : x <= y
  PROVE  Least(S) = x
<1>1. Least(S) \in S /\ Least(S) \in Nat /\ Least(S) <= x
  BY LeastIs
<1>2. x <= Least(S) /\ x \in Nat
  BY <1>1
<1>3. QED
  BY <1>1, <1>2

LEMMA Upward ==
  ASSUME NEW m \in Nat, NEW P, 0 \in P, \A k \in 1 .. m : k - 1 \in P => k \in P
  PROVE  \A k \in 0 .. m : k \in P
<1> DEFINE D == {k \in 0 .. m : k \notin P}
<1>1. ASSUME D # {} PROVE FALSE
  <2>1. D \in SUBSET Nat
    OBVIOUS
  <2>2. PICK k \in D : \A e \in D : k <= e
    BY <1>1, <2>1, SmallestOf
  <2>3. k \in 0 .. m /\ k \notin P /\ k # 0
    OBVIOUS
  <2>4. k \in 1 .. m /\ k - 1 \in 0 .. m /\ ~(k <= k - 1)
    BY <2>3
  <2>5. k - 1 \in P
    BY <2>2, <2>4
  <2>6. QED
    BY <2>3, <2>4, <2>5
<1>2. QED
  BY <1>1

LEMMA Downward ==
  ASSUME NEW m \in Nat, NEW P, \A k \in 0 .. m : (\A j \in k + 1 .. m : j \in P) => k \in P
  PROVE  \A k \in 0 .. m : k \in P
<1> DEFINE D == {d \in 0 .. m : m - d \notin P}
<1>1. ASSUME D # {} PROVE FALSE
  <2>1. D \in SUBSET Nat
    OBVIOUS
  <2>2. PICK d \in D : \A e \in D : d <= e
    BY <1>1, <2>1, SmallestOf
  <2>3. m - d \in 0 .. m /\ m - d \notin P /\ d \in 0 .. m
    OBVIOUS
  <2>4. ASSUME NEW j \in (m - d) + 1 .. m PROVE j \in P
    <3>1. m - j \in 0 .. m /\ ~(d <= m - j) /\ m - (m - j) = j
      BY <2>3
    <3>2. m - j \notin D
      BY <2>2, <3>1
    <3>3. QED
      BY <3>1, <3>2
  <2>5. QED
    BY <2>3, <2>4
<1>2. ASSUME NEW k \in 0 .. m PROVE k \in P
  <2>1. m - k \in 0 .. m /\ m - (m - k) = k
    OBVIOUS
  <2>2. QED
    BY <1>1, <2>1
<1>3. QED
  BY <1>2

\* What the loops of Split and SplitWS have in common: at a position they stop, or
\* they put down one item and go on at a later position.
Chain(f, m, ended, last, item, next) ==
  f = [k \in 0 .. m |-> IF k \in ended THEN last[k] ELSE <<item[k]>> \o f[next[k]]]

LEMMA ChainExists ==
  ASSUME NEW m \in Nat, NEW ended, NEW last, NEW item, NEW next,
         \A k \in 0 .. m : k \notin ended => next[k] \in k + 1 .. m
  PROVE  \E f : Chain(f, m, ended, last, item, next)
<1> DEFINE From(f, k) == IF k \in ended THEN last[k] ELSE <<item[k]>> \o f[next[k]]
           Good(f, k) == \A j \in k .. m : f[j] = From(f, j)
           P == {k \in 0 .. m : \E f : Good(f, k)}
<1>1. ASSUME NEW k \in 0 .. m, \A j \in k + 1 .. m : j \in P
      PROVE  \E f : Good(f, k)
  <2>1. \E f : Good(f, k + 1)
    <3>1. CASE k = m
      <4>1. k + 1 .. m = {}
        BY <3>1
      <4>2. QED
        BY <4>1
    <3>2. CASE k # m
      <4>1. k + 1 \in k + 1 .. m
        BY <3>2
      <4>2. QED
        BY <1>1, <4>1
    <3>3. QED
      BY <3>1, <3>2
  <2>2. PICK f : Good(f, k + 1)
    BY <2>1
  <2> DEFINE g == [j \in k .. m |-> IF j = k THEN From(f, k) ELSE f[j]]
  <2>3. \A j \in k .. m : /\ j = k \/ j \in k + 1 .. m
                          /\ j \notin ended => next[j] \in k .. m /\ next[j] # k
    <3>1. ASSUME NEW j \in k .. m
          PROVE  j = k \/ j \in k + 1 .. m
      OBVIOUS
    <3>2. ASSUME NEW j \in k .. m, j \notin ended
          PROVE  next[j] \in k .. m /\ next[j] # k
      <4>1. j \in 0 .. m
        OBVIOUS
      <4>2. next[j] \in j + 1 .. m
        BY <3>2, <4>1
      <4>3. QED
        BY <4>2
    <3>3. QED
      BY <3>1, <3>2
  <2>4. k \in k .. m
    OBVIOUS
  <2>5. ASSUME NEW j \in k .. m PROVE g[j] = From(g, j)
    <3>1. From(g, j) = From(f, j)
      <4>1. j \notin ended => g[next[j]] = f[next[j]]
        BY <2>3
      <4> HIDE DEF g
      <4>2. QED
        BY <4>1
    <3>2. g[j] = From(f, j)
      <4>1. CASE j = k
        BY <4>1
      <4>2. CASE j # k
        <5>1. g[j] = f[j] /\ j \in k + 1 .. m
          BY <2>3, <4>2
        <5> HIDE DEF g, From
        <5>2. QED
          BY <2>2, <5>1
      <4>3. QED
        BY <4>1, <4>2
    <3> HIDE DEF g, From
    <3>3. QED
      BY <3>1, <3>2
  <2> HIDE DEF g, From
  <2>6. Good(g, k)
    BY <2>5
  <2>7. QED
    BY <2>6
<1> HIDE DEF Good
<1>2. \A k \in 0 .. m : (\A j \in k + 1 .. m : j \in P) => k \in P
  BY <1>1
<1> HIDE DEF P
<1>3. 0 \in P
  <2>1. \A k \in 0 .. m : k \in P
    BY <1>2, Downward
  <2>2. 0 \in 0 .. m
    OBVIOUS
  <2>3. QED
    BY <2>1, <2>2
<1>4. PICK f : Good(f, 0)
  BY <1>3 DEF P
<1> DEFINE h == [k \in 0 .. m |-> f[k]]
<1>5. ASSUME NEW k \in 0 .. m PROVE h[k] = From(h, k)
  <2>1. f[k] = From(f, k)
    BY <1>4 DEF Good
  <2>2. k \notin ended => next[k] \in 0 .. m
    <3>1. k \notin ended => next[k] \in k + 1 .. m
      OBVIOUS
    <3>2. QED
      BY <3>1
  <2>3. k \notin ended => h[next[k]] = f[next[k]]
    BY <2>2
  <2>4. h[k] = f[k]
    OBVIOUS
  <2> HIDE DEF h
  <2>5. QED
    BY <2>1, <2>3, <2>4
<1>6. h = [k \in 0 .. m |-> h[k]]
  OBVIOUS
<1> HIDE DEF h
<1>7. Chain(h, m, ended, last, item, next)
  BY <1>5, <1>6 DEF Chain
<1>8. QED
  BY <1>7

LEMMA ChainIs ==
  ASSUME NEW m \in Nat, NEW ended, NEW last, NEW item, NEW next, NEW f,
         Chain(f, m, ended, last, item, next), NEW k \in 0 .. m
  PROVE  f[k] = IF k \in ended THEN last[k] ELSE <<item[k]>> \o f[next[k]]
  BY DEF Chain

-----------------------------------------------------------------------------
(* The Z-function.  It may find a separator where there is none, but never *)
(* misses one, and never finds one that would end behind the string.       *)

LEMMA AppendIs ==
  ASSUME NEW S, NEW z \in Seq(S), NEW e \in S
  PROVE  /\ Append(z, e) \in Seq(S) /\ Len(Append(z, e)) = Len(z) + 1
         /\ \A j \in 1 .. Len(z) : Append(z, e)[j] = z[j]
         /\ Append(z, e)[Len(z) + 1] = e
  BY AppendProperties

Extended(s, i, sep, known, res) ==
  /\ res \in known .. Len(sep)
  /\ i + res >= Len(s) \/ res >= Len(sep) \/ At(s, i + res) # At(sep, res)
  /\ \A k \in known .. res - 1 :
       ~(i + k >= Len(s) \/ k >= Len(sep) \/ At(s, i + k) # At(sep, k))

LEMMA ExtendIs ==
  ASSUME NEW s, Len(s) \in Nat, NEW sep, Len(sep) \in Nat, NEW i \in Nat,
         NEW known \in 0 .. Len(sep) - 1
  PROVE  Extended(s, i, sep, known, Extend(s, i, sep, known))
<1> DEFINE res == Extend(s, i, sep, known)
           Stops(k) == i + k >= Len(s) \/ k >= Len(sep) \/ At(s, i + k) # At(sep, k)
           S == {k \in known .. Len(sep) : Stops(k)}
<1>1. Largest(known, Len(sep)) = Len(sep)
  BY DEF Largest
<1>2. res = Least(S)
  BY <1>1 DEF Extend
<1> HIDE DEF res
<1>3. S \in SUBSET Nat /\ Len(sep) \in S
  OBVIOUS
<1>4. res \in S /\ \A k \in S : res <= k
  BY <1>2, <1>3, LeastIs
<1>5. \A k \in known .. res - 1 : k \in known .. Len(sep) /\ ~(res <= k)
  BY <1>4
<1> HIDE DEF Stops
<1>6. \A k \in known .. res - 1 : ~ Stops(k)
  BY <1>4, <1>5
<1>7. res \in known .. Len(sep) /\ Stops(res)
  BY <1>4
<1>8. QED
  BY <1>6, <1>7 DEF Stops, Extended, res

\* Positions of a box that begins before i.
LEMMA BeforeInBox ==
  ASSUME NEW i \in Nat, NEW low \in Nat, NEW x \in low .. i - 1
  PROVE  x \in low .. i /\ x + 1 \in 1 .. i /\ x < i
  OBVIOUS

LEMMA RestOfBox ==
  ASSUME NEW i \in Nat, NEW x \in 1 .. i - 1
  PROVE  (i - x) + 1 \in 1 .. i
  OBVIOUS

\* The z of a separator and the box, up to position i.
InBox(acc, low, i) == acc.r = 0 \/ (acc.l \in low .. i /\ acc.r = acc.l + acc.z[acc.l + 1])
SepBox(acc, sep, i) ==
  /\ acc.z \in Seq(Nat) /\ Len(acc.z) = i + 1
  /\ \A j \in 1 .. i + 1 : acc.z[j] \in 0 .. Len(sep) - 1
  /\ acc.l \in Nat /\ acc.r \in Nat /\ InBox(acc, 1, i)

LEMMA KnownIs ==
  ASSUME NEW N \in Nat \ {0}, NEW acc, NEW zsep, NEW i \in Nat,
         acc.l \in Nat, acc.r \in Nat,
         acc.r # 0 => /\ acc.l < i /\ acc.z[acc.l + 1] \in 0 .. N
                      /\ acc.r = acc.l + acc.z[acc.l + 1],
         acc.r # 0 /\ i - acc.l < N => At(zsep, i - acc.l) \in 0 .. N - 1
  PROVE  Known(acc, zsep, i) \in 0 .. N - 1
<1>1. CASE i < acc.r
  <2> DEFINE l == acc.l
             r == acc.r
             z == acc.z[l + 1]
  <2>1. r \in Nat /\ l \in Nat /\ l < i /\ z \in 0 .. N /\ r = l + z /\ i < r
    BY <1>1
  <2> HIDE DEF l, r, z
  <2>2. r - i \in 0 .. N - 1 /\ i - l < N
    BY <2>1
  <2>3. At(zsep, i - l) \in 0 .. N - 1
    BY <2>1, <2>2 DEF l, r
  <2>4. Largest(r - i, At(zsep, i - l)) \in 0 .. N - 1
    BY <2>2, <2>3 DEF Largest
  <2>5. QED
    BY <1>1, <2>4 DEF Known, TakenOver, l, r
<1>2. CASE ~(i < acc.r)
  <2>1. Known(acc, zsep, i) = 0
    BY <1>2 DEF Known
  <2>2. QED
    BY <2>1
<1>3. QED
  BY <1>1, <1>2

\* The box after a step reaches as far as the farthest that is known.
Boxed(new, acc, low, i, res) ==
  /\ new.z \in Seq(Nat) /\ Len(new.z) = i + 1 /\ new.z[i + 1] = res
  /\ \A j \in 1 .. i : new.z[j] = acc.z[j]
  /\ new.l \in Nat /\ new.r \in Nat /\ InBox(new, low, i)

LEMMA BoxIs ==
  ASSUME NEW s, NEW sep, NEW acc, NEW zsep, NEW i \in Nat, NEW low \in Nat, low <= i,
         acc.z \in Seq(Nat), Len(acc.z) = i,
         acc.l \in Nat, acc.r \in Nat, InBox(acc, low, i - 1),
         NEW res \in Nat, res = Extend(s, i, sep, Known(acc, zsep, i))
  PROVE  Boxed(ZStep(s, sep, acc, zsep, i), acc, low, i, res)
<1> DEFINE new == ZStep(s, sep, acc, zsep, i)
<1>1. /\ new.z = Append(acc.z, res)
      /\ new.l = (IF i + res > acc.r THEN i ELSE acc.l)
      /\ new.r = Largest(acc.r, i + res)
  BY DEF ZStep
<1> HIDE DEF new
<1>2. /\ new.z \in Seq(Nat) /\ Len(new.z) = i + 1 /\ new.z[i + 1] = res
      /\ \A j \in 1 .. i : new.z[j] = acc.z[j]
  <2>1. acc.z \in Seq(Nat) /\ res \in Nat /\ Len(acc.z) = i
    OBVIOUS
  <2>2. /\ Append(acc.z, res) \in Seq(Nat) /\ Len(Append(acc.z, res)) = Len(acc.z) + 1
        /\ Append(acc.z, res)[Len(acc.z) + 1] = res
    BY <2>1, AppendIs
  <2>3. \A j \in 1 .. Len(acc.z) : Append(acc.z, res)[j] = acc.z[j]
    BY <2>1, AppendIs
  <2>4. QED
    BY <1>1, <2>1, <2>2, <2>3
<1>3. new.l \in Nat /\ new.r \in Nat
  BY <1>1 DEF Largest
<1>4. InBox(new, low, i)
  <2>1. CASE i + res > acc.r
    <3>1. new.l = i /\ new.r = i + res
      BY <1>1, <2>1 DEF Largest
    <3>2. i \in low .. i
      OBVIOUS
    <3>3. QED
      BY <1>2, <3>1, <3>2 DEF InBox
  <2>2. CASE ~(i + res > acc.r)
    <3>1. new.l = acc.l /\ new.r = acc.r
      <4>1. acc.r \in Nat /\ i + res \in Nat
        OBVIOUS
      <4>2. Largest(acc.r, i + res) = acc.r
        BY <2>2, <4>1 DEF Largest
      <4>3. QED
        BY <1>1, <2>2, <4>2
    <3>2. \A x \in low .. i - 1 : x \in low .. i /\ x + 1 \in 1 .. i
      BY BeforeInBox
    <3>3. QED
      BY <1>2, <3>1, <3>2 DEF InBox
  <2>3. QED
    BY <2>1, <2>2
<1>5. QED
  BY <1>2, <1>3, <1>4 DEF Boxed, new

LEMMA SepStep ==
  ASSUME NEW sep, Len(sep) \in Nat, NEW i \in 1 .. Len(sep) - 1, NEW acc, SepBox(acc, sep, i - 1)
  PROVE  SepBox(ZStep(sep, sep, acc, acc.z, i), sep, i)
<1> DEFINE N == Len(sep)
           known == Known(acc, acc.z, i)
           res == Extend(sep, i, sep, known)
           new == ZStep(sep, sep, acc, acc.z, i)
<1>1. N \in Nat \ {0} /\ i \in Nat /\ 1 <= i /\ i < N /\ (i - 1) + 1 = i /\ 1 \in Nat
  OBVIOUS
<1>2. /\ acc.z \in Seq(Nat) /\ Len(acc.z) = i /\ acc.l \in Nat /\ acc.r \in Nat
      /\ \A j \in 1 .. i : acc.z[j] \in 0 .. N - 1
      /\ InBox(acc, 1, i - 1)
  BY <1>1 DEF SepBox
<1> HIDE DEF N
<1>3. known \in 0 .. N - 1
  <2>1. acc.r # 0 => acc.l \in 1 .. i - 1 /\ acc.r = acc.l + acc.z[acc.l + 1]
    BY <1>2 DEF InBox
  <2>2. acc.l \in 1 .. i - 1 => acc.l < i /\ acc.l + 1 \in 1 .. i /\ (i - acc.l) + 1 \in 1 .. i
    BY <1>1, BeforeInBox, RestOfBox
  <2>3. /\ acc.r # 0 => acc.z[acc.l + 1] \in 0 .. N - 1
        /\ acc.r # 0 => At(acc.z, i - acc.l) \in 0 .. N - 1
    BY <1>2, <2>1, <2>2 DEF At
  <2>4. \A x \in 0 .. N - 1 : x \in 0 .. N
    BY <1>1
  <2>5. QED
    BY <1>1, <1>2, <2>1, <2>2, <2>3, <2>4, KnownIs
<1> HIDE DEF known
<1>4. res \in 0 .. N - 1
  <2>1. /\ res \in known .. N
        /\ \A k \in known .. res - 1 : ~(i + k >= N \/ k >= N \/ At(sep, i + k) # At(sep, k))
    <3>1. Extended(sep, i, sep, known, res)
      BY <1>1, <1>3, ExtendIs DEF N
    <3> HIDE DEF res
    <3>2. QED
      BY <3>1 DEF Extended, N
  <2> HIDE DEF res
  <2>2. res # N
    <3>1. ASSUME res = N PROVE FALSE
      <4>1. N - 1 \in known .. res - 1 /\ i + (N - 1) >= N
        BY <1>1, <1>3, <3>1
      <4>2. QED
        BY <2>1, <4>1
    <3>2. QED
      BY <3>1
  <2>3. QED
    BY <1>1, <1>3, <2>1, <2>2
<1> HIDE DEF res
<1>5. /\ new.z \in Seq(Nat) /\ Len(new.z) = i + 1 /\ new.z[i + 1] = res
      /\ \A j \in 1 .. i : new.z[j] = acc.z[j]
      /\ new.l \in Nat /\ new.r \in Nat /\ InBox(new, 1, i)
  <2>1. res \in Nat
    BY <1>1, <1>4
  <2>2. res = Extend(sep, i, sep, Known(acc, acc.z, i))
    BY Zenon DEF res, known
  <2>3. Boxed(new, acc, 1, i, res)
    BY <1>1, <1>2, <2>1, <2>2, BoxIs
  <2> HIDE DEF new
  <2>4. QED
    BY <2>3 DEF Boxed
<1> HIDE DEF new
<1>6. \A j \in 1 .. i + 1 : new.z[j] \in 0 .. N - 1
  <2>1. \A j \in 1 .. i + 1 : j = i + 1 \/ j \in 1 .. i
    BY <1>1
  <2>2. QED
    BY <1>2, <1>4, <1>5, <2>1
<1>7. SepBox(new, sep, i)
  BY <1>5, <1>6 DEF SepBox, N
<1>8. QED
  BY <1>7 DEF new

SepBoxes(f, sep) ==
  f = [i \in 0 .. Len(sep) - 1 |->
         IF i = 0 THEN [z |-> <<0>>, l |-> 0, r |-> 0]
         ELSE LET acc == f[i - 1] IN ZStep(sep, sep, acc, acc.z, i)]

LEMMA SepBoxesExist ==
  ASSUME NEW sep, Len(sep) \in Nat \ {0}
  PROVE  \E f : SepBoxes(f, sep)
<1> DEFINE m == Len(sep) - 1
           From(f, i) == IF i = 0 THEN [z |-> <<0>>, l |-> 0, r |-> 0]
                         ELSE ZStep(sep, sep, f[i - 1], f[i - 1].z, i)
           Good(f, k) == \A i \in 0 .. k : f[i] = From(f, i)
           P == {k \in 0 .. m : \E f : Good(f, k)}
<1>1. m \in Nat
  OBVIOUS
<1>2. 0 \in P
  <2> DEFINE f == [i \in 0 .. 0 |-> [z |-> <<0>>, l |-> 0, r |-> 0]]
  <2>1. \A i \in 0 .. 0 : i = 0 /\ f[i] = [z |-> <<0>>, l |-> 0, r |-> 0]
    OBVIOUS
  <2> HIDE DEF f
  <2>2. Good(f, 0)
    BY <2>1
  <2> HIDE DEF Good
  <2>3. 0 \in 0 .. m
    BY <1>1
  <2>4. QED
    BY <2>2, <2>3
<1> HIDE DEF m
<1>3. ASSUME NEW k \in 1 .. m, k - 1 \in P PROVE k \in P
  <2>1. PICK f : Good(f, k - 1)
    BY <1>3
  <2> DEFINE g == [i \in 0 .. k |-> IF i = k THEN From(f, k) ELSE f[i]]
  <2>2. \A i \in 0 .. k : /\ i = k \/ i \in 0 .. k - 1
                          /\ i = 0 \/ (i - 1 \in 0 .. k /\ i - 1 # k)
    BY <1>1
  <2>3. ASSUME NEW i \in 0 .. k PROVE g[i] = From(g, i)
    <3>1. i = 0 \/ g[i - 1] = f[i - 1]
      BY <2>2
    <3>2. g[i] = IF i = k THEN From(f, k) ELSE f[i]
      OBVIOUS
    <3> HIDE DEF g
    <3>3. From(g, i) = From(f, i)
      BY <3>1
    <3>4. i = k \/ f[i] = From(f, i)
      BY <2>1, <2>2
    <3> HIDE DEF From
    <3>5. QED
      BY <3>2, <3>3, <3>4
  <2> HIDE DEF g, From
  <2>4. Good(g, k)
    BY <2>3
  <2> HIDE DEF Good
  <2>5. k \in 0 .. m
    BY <1>1
  <2>6. QED
    BY <2>4, <2>5
<1> HIDE DEF Good, P
<1>4. \A k \in 0 .. m : k \in P
  BY <1>1, <1>2, <1>3, Upward
<1>5. m \in 0 .. m
  BY <1>1
<1>6. PICK f : Good(f, m)
  BY <1>4, <1>5 DEF P
<1> DEFINE h == [i \in 0 .. m |-> f[i]]
<1>7. ASSUME NEW i \in 0 .. m PROVE h[i] = From(h, i)
  <2>1. f[i] = From(f, i) /\ h[i] = f[i]
    BY <1>6 DEF Good
  <2>2. i = 0 \/ i - 1 \in 0 .. m
    BY <1>1
  <2>3. i = 0 \/ h[i - 1] = f[i - 1]
    BY <2>2
  <2> HIDE DEF h
  <2>4. From(h, i) = From(f, i)
    BY <2>3
  <2> HIDE DEF From
  <2>5. QED
    BY <2>1, <2>4
<1>8. h = [i \in 0 .. m |-> h[i]]
  OBVIOUS
<1> HIDE DEF h
<1>9. h = [i \in 0 .. m |-> From(h, i)]
  <2> HIDE DEF From
  <2>1. QED
    BY <1>7, <1>8
<1>10. SepBoxes(h, sep)
  BY Zenon, <1>9 DEF SepBoxes, m
<1>11. QED
  BY <1>10

LEMMA ZOfSeparatorIs ==
  ASSUME NEW sep, Len(sep) \in Nat \ {0}, NEW j \in 0 .. Len(sep) - 1
  PROVE  At(ZOfSeparator(sep), j) \in 0 .. Len(sep) - 1
<1> DEFINE N == Len(sep)
           f == CHOOSE f : SepBoxes(f, sep)
           P == {k \in 0 .. N - 1 : SepBox(f[k], sep, k)}
<1>1. SepBoxes(f, sep)
  BY SepBoxesExist
<1>2. ZOfSeparator(sep) = f[N - 1].z
  BY Zenon DEF ZOfSeparator, SepBoxes
<1>3. N \in Nat /\ N - 1 \in Nat /\ N - 1 \in 0 .. N - 1 /\ 0 \in 0 .. N - 1
  OBVIOUS
<1> HIDE DEF f, N
<1>4. 0 \in P
  <2>1. f[0] = [z |-> <<0>>, l |-> 0, r |-> 0]
    BY <1>1, <1>3 DEF SepBoxes, N
  <2>2. /\ f[0].z = <<0>> /\ f[0].l = 0 /\ f[0].r = 0
    BY <2>1
  <2>3. <<0>> \in Seq(Nat) /\ Len(<<0>>) = 1 /\ <<0>>[1] = 0
    OBVIOUS
  <2>4. \A k \in 1 .. 0 + 1 : k = 1
    OBVIOUS
  <2>5. 0 + 1 = 1
    OBVIOUS
  <2>6. SepBox(f[0], sep, 0)
    BY <1>3, <2>2, <2>3, <2>4, <2>5 DEF SepBox, InBox, N
  <2>7. QED
    BY <1>3, <2>6
<1>5. ASSUME NEW k \in 1 .. N - 1, k - 1 \in P PROVE k \in P
  <2>1. k \in 0 .. N - 1 /\ k # 0
    BY <1>3
  <2>2. f[k] = ZStep(sep, sep, f[k - 1], f[k - 1].z, k)
    BY <1>1, <2>1 DEF SepBoxes, N
  <2>3. SepBox(f[k - 1], sep, k - 1)
    BY <1>5
  <2>4. SepBox(f[k], sep, k)
    BY <1>3, <2>2, <2>3, SepStep DEF N
  <2>5. QED
    BY <2>1, <2>4
<1> HIDE DEF P
<1>6. N - 1 \in P
  <2>1. \A k \in 0 .. N - 1 : k \in P
    BY <1>3, <1>4, <1>5, Upward
  <2>2. QED
    BY <1>3, <2>1
<1>7. SepBox(f[N - 1], sep, N - 1)
  BY <1>6 DEF P
<1>8. j + 1 \in 1 .. (N - 1) + 1
  BY <1>3 DEF N
<1>9. f[N - 1].z[j + 1] \in 0 .. N - 1
  BY <1>7, <1>8 DEF SepBox, N
<1>10. QED
  BY <1>2, <1>9 DEF At, N

\* What z says of position j of s.
Finding(s, sep, j, res) ==
  /\ res \in 0 .. Len(sep)
  /\ res = Len(sep) => j + Len(sep) <= Len(s)
  /\ IsAt(s, sep, j) => res = Len(sep)
  /\ Len(sep) = 1 /\ res = 1 => IsAt(s, sep, j)
TextBox(acc, s, sep, i) ==
  /\ acc.z \in Seq(Nat) /\ Len(acc.z) = i
  /\ \A j \in 1 .. i : Finding(s, sep, j - 1, acc.z[j])
  /\ acc.l \in Nat /\ acc.r \in Nat /\ InBox(acc, 0, i - 1)

\* A separator is where all of its characters are.
LEMMA IsAtIs ==
  ASSUME NEW C, NEW s \in Seq(C), NEW sep \in Seq(C), NEW i \in Nat
  PROVE  IsAt(s, sep, i) <=> /\ i + Len(sep) <= Len(s)
                             /\ \A k \in 0 .. Len(sep) - 1 : At(s, i + k) = At(sep, k)
<1> DEFINE N == Len(sep)
           t == SubSeq(s, i + 1, i + N)
<1>1. N \in Nat /\ Len(s) \in Nat
  OBVIOUS
<1>2. IsAt(s, sep, i) <=> i + N <= Len(s) /\ t = sep
  BY DEF IsAt, Substr
<1>3. ASSUME i + N <= Len(s)
      PROVE  t = sep <=> \A k \in 0 .. N - 1 : At(s, i + k) = At(sep, k)
  <2>1. /\ t \in Seq(C) /\ Len(t) = N
        /\ \A k \in 1 .. N : t[k] = s[i + k]
    <3>1. i + 1 \in Int /\ i + N \in Int /\ \A k \in i + 1 .. i + N : s[k] \in C
      <4>1. \A k \in i + 1 .. i + N : k \in 1 .. Len(s)
        BY <1>1, <1>3
      <4>2. QED
        BY <1>1, <4>1
    <3>2. /\ t \in Seq(C)
          /\ Len(t) = IF i + 1 <= i + N THEN (i + N) - (i + 1) + 1 ELSE 0
          /\ \A k \in 1 .. (i + N) - (i + 1) + 1 : t[k] = s[(i + 1) + k - 1]
      BY <3>1, SubSeqProperties
    <3> HIDE DEF t, N
    <3>3. /\ (IF i + 1 <= i + N THEN (i + N) - (i + 1) + 1 ELSE 0) = N
          /\ (i + N) - (i + 1) + 1 = N
          /\ \A k \in 1 .. N : (i + 1) + k - 1 = i + k
      BY <1>1
    <3>4. QED
      BY <3>2, <3>3
  <2> HIDE DEF t
  <2>2. t = sep <=> \A k \in 1 .. N : t[k] = sep[k]
    <3>1. (\A k \in 1 .. Len(t) : t[k] = sep[k]) => t = sep
      BY <2>1, SeqEqual
    <3>2. QED
      BY <2>1, <3>1
  <2>3. (\A k \in 1 .. N : s[i + k] = sep[k]) <=> \A k \in 0 .. N - 1 : At(s, i + k) = At(sep, k)
    <3>1. /\ \A k \in 0 .. N - 1 : k + 1 \in 1 .. N /\ i + k + 1 = i + (k + 1)
          /\ \A k \in 1 .. N : k - 1 \in 0 .. N - 1 /\ (i + (k - 1)) + 1 = i + k /\ (k - 1) + 1 = k
      BY <1>1
    <3> DEFINE Same(k) == s[i + k] = sep[k]
    <3>2. \A k \in 0 .. N - 1 : At(s, i + k) = At(sep, k) <=> Same(k + 1)
      BY <3>1 DEF At
    <3> HIDE DEF Same
    <3>3. (\A k \in 1 .. N : Same(k)) <=> \A k \in 0 .. N - 1 : Same(k + 1)
      <4>1. ASSUME \A k \in 0 .. N - 1 : Same(k + 1), NEW k \in 1 .. N PROVE Same(k)
        <5>1. k - 1 \in 0 .. N - 1 /\ (k - 1) + 1 = k
          BY <3>1
        <5>2. Same((k - 1) + 1)
          BY <4>1, <5>1
        <5>3. QED
          BY <5>1, <5>2
      <4>2. QED
        BY <3>1, <4>1
    <3>4. QED
      BY <3>2, <3>3 DEF Same
  <2>4. QED
    BY <2>1, <2>2, <2>3
<1>4. QED
  BY <1>2, <1>3

LEMMA TextStep ==
  ASSUME NEW C, NEW s \in Seq(C), NEW sep \in Seq(C), Len(sep) # 0,
         NEW i \in 0 .. Len(s) - 1, NEW acc, TextBox(acc, s, sep, i)
  PROVE  TextBox(ZStep(s, sep, acc, ZOfSeparator(sep), i), s, sep, i + 1)
<1> DEFINE N == Len(sep)
           zsep == ZOfSeparator(sep)
           known == Known(acc, zsep, i)
           res == Extend(s, i, sep, known)
           new == ZStep(s, sep, acc, zsep, i)
<1>1. N \in Nat \ {0} /\ i \in Nat /\ Len(s) \in Nat /\ 0 \in Nat /\ 0 <= i
  OBVIOUS
<1>2. /\ acc.z \in Seq(Nat) /\ Len(acc.z) = i /\ acc.l \in Nat /\ acc.r \in Nat
      /\ \A j \in 1 .. i : Finding(s, sep, j - 1, acc.z[j])
      /\ InBox(acc, 0, i - 1)
  BY DEF TextBox
<1>3. \A j \in 0 .. N - 1 : At(zsep, j) \in 0 .. N - 1
  BY <1>1, ZOfSeparatorIs
<1>4. IsAt(s, sep, i) <=> i + N <= Len(s) /\ \A k \in 0 .. N - 1 : At(s, i + k) = At(sep, k)
  BY <1>1, IsAtIs
<1> HIDE DEF N, zsep
<1>5. known \in 0 .. N - 1
  <2>1. acc.r # 0 => acc.l \in 0 .. i - 1 /\ acc.r = acc.l + acc.z[acc.l + 1]
    BY <1>2 DEF InBox
  <2>2. acc.l \in 0 .. i - 1 => acc.l < i /\ acc.l + 1 \in 1 .. i
    BY <1>1, <1>2
  <2>3. acc.r # 0 => acc.z[acc.l + 1] \in 0 .. N
    BY <1>2, <2>1, <2>2 DEF Finding, N
  <2>4. acc.l < i /\ i - acc.l < N => At(zsep, i - acc.l) \in 0 .. N - 1
    <3>1. acc.l < i /\ i - acc.l < N => i - acc.l \in 0 .. N - 1
      BY <1>1, <1>2
    <3>2. QED
      BY <1>3, <3>1
  <2>5. QED
    BY <1>1, <1>2, <2>1, <2>2, <2>3, <2>4, KnownIs
<1> HIDE DEF known
<1>6. /\ res \in known .. N
      /\ i + res >= Len(s) \/ res >= N \/ At(s, i + res) # At(sep, res)
      /\ \A k \in known .. res - 1 : ~(i + k >= Len(s) \/ k >= N \/ At(s, i + k) # At(sep, k))
  <2>1. Len(s) \in Nat /\ Len(sep) \in Nat /\ i \in Nat /\ known \in 0 .. Len(sep) - 1
    BY <1>1, <1>5 DEF N
  <2>2. Extended(s, i, sep, known, res)
    BY <2>1, ExtendIs
  <2> HIDE DEF res
  <2>3. QED
    BY <2>2 DEF Extended, N
<1> HIDE DEF res
<1>7. Finding(s, sep, i, res)
  <2>1. res \in 0 .. N
    BY <1>1, <1>5, <1>6
  <2>2. ASSUME res = N PROVE i + N <= Len(s)
    <3>1. N - 1 \in known .. res - 1
      BY <1>1, <1>5, <2>2
    <3>2. ~(i + (N - 1) >= Len(s))
      BY <1>6, <3>1
    <3>3. QED
      BY <1>1, <3>2
  <2>3. ASSUME IsAt(s, sep, i) PROVE res = N
    <3>1. ASSUME res # N PROVE FALSE
      <4>1. res \in 0 .. N - 1 /\ i + N <= Len(s)
        BY <1>1, <1>4, <2>1, <2>3, <3>1
      <4>2. At(s, i + res) = At(sep, res)
        BY <1>4, <2>3, <4>1
      <4>3. ~(i + res >= Len(s)) /\ ~(res >= N)
        BY <1>1, <4>1
      <4>4. QED
        BY <1>6, <4>2, <4>3
    <3>2. QED
      BY <3>1
  <2>4. ASSUME N = 1, res = 1 PROVE IsAt(s, sep, i)
    <3>1. 0 \in known .. res - 1 /\ \A k \in 0 .. N - 1 : k = 0
      BY <1>1, <1>5, <2>4
    <3>2. ~(i + 0 >= Len(s)) /\ At(s, i + 0) = At(sep, 0)
      BY <1>6, <3>1
    <3>3. i + N <= Len(s)
      BY <1>1, <2>4, <3>2
    <3>4. QED
      BY <1>4, <3>1, <3>2, <3>3
  <2>5. QED
    BY <2>1, <2>2, <2>3, <2>4 DEF Finding, N
<1>8. /\ new.z \in Seq(Nat) /\ Len(new.z) = i + 1 /\ new.z[i + 1] = res
      /\ \A j \in 1 .. i : new.z[j] = acc.z[j]
      /\ new.l \in Nat /\ new.r \in Nat /\ InBox(new, 0, i)
  <2>1. res \in Nat
    BY <1>1, <1>5, <1>6
  <2>2. res = Extend(s, i, sep, Known(acc, zsep, i))
    BY Zenon DEF res, known
  <2>3. /\ i \in Nat /\ 0 \in Nat /\ 0 <= i /\ acc.z \in Seq(Nat) /\ Len(acc.z) = i
        /\ acc.l \in Nat /\ acc.r \in Nat /\ InBox(acc, 0, i - 1)
    BY <1>1, <1>2
  <2>4. Boxed(new, acc, 0, i, res)
    BY <2>1, <2>2, <2>3, BoxIs
  <2> HIDE DEF new
  <2>5. QED
    BY <2>4 DEF Boxed
<1> HIDE DEF new
<1>9. \A j \in 1 .. i + 1 : Finding(s, sep, j - 1, new.z[j])
  <2>1. \A j \in 1 .. i + 1 : j = i + 1 \/ j \in 1 .. i
    BY <1>1
  <2>2. (i + 1) - 1 = i
    BY <1>1
  <2>3. QED
    BY <1>2, <1>7, <1>8, <2>1, <2>2
<1>10. (i + 1) - 1 = i
  BY <1>1
<1>11. TextBox(new, s, sep, i + 1)
  BY <1>8, <1>9, <1>10 DEF TextBox
<1>12. QED
  BY <1>11 DEF new, zsep

TextBoxes(f, s, sep, zsep) ==
  f = [i \in 0 .. Len(s) |->
         IF i = 0 THEN [z |-> <<>>, l |-> 0, r |-> 0]
         ELSE LET acc == f[i - 1] IN ZStep(s, sep, acc, zsep, i - 1)]

LEMMA TextBoxesExist ==
  ASSUME NEW s, Len(s) \in Nat, NEW sep, NEW zsep
  PROVE  \E f : TextBoxes(f, s, sep, zsep)
<1> DEFINE m == Len(s)
           From(f, i) == IF i = 0 THEN [z |-> <<>>, l |-> 0, r |-> 0]
                         ELSE ZStep(s, sep, f[i - 1], zsep, i - 1)
           Good(f, k) == \A i \in 0 .. k : f[i] = From(f, i)
           P == {k \in 0 .. m : \E f : Good(f, k)}
<1>1. m \in Nat
  OBVIOUS
<1>2. 0 \in P
  <2> DEFINE f == [i \in 0 .. 0 |-> [z |-> <<>>, l |-> 0, r |-> 0]]
  <2>1. \A i \in 0 .. 0 : i = 0 /\ f[i] = [z |-> <<>>, l |-> 0, r |-> 0]
    OBVIOUS
  <2> HIDE DEF f
  <2>2. Good(f, 0)
    BY <2>1
  <2> HIDE DEF Good
  <2>3. 0 \in 0 .. m
    BY <1>1
  <2>4. QED
    BY <2>2, <2>3
<1> HIDE DEF m
<1>3. ASSUME NEW k \in 1 .. m, k - 1 \in P PROVE k \in P
  <2>1. PICK f : Good(f, k - 1)
    BY <1>3
  <2> DEFINE g == [i \in 0 .. k |-> IF i = k THEN From(f, k) ELSE f[i]]
  <2>2. \A i \in 0 .. k : /\ i = k \/ i \in 0 .. k - 1
                          /\ i = 0 \/ (i - 1 \in 0 .. k /\ i - 1 # k)
    BY <1>1
  <2>3. ASSUME NEW i \in 0 .. k PROVE g[i] = From(g, i)
    <3>1. i = 0 \/ g[i - 1] = f[i - 1]
      BY <2>2
    <3>2. g[i] = IF i = k THEN From(f, k) ELSE f[i]
      OBVIOUS
    <3> HIDE DEF g
    <3>3. From(g, i) = From(f, i)
      BY <3>1
    <3>4. i = k \/ f[i] = From(f, i)
      BY <2>1, <2>2
    <3> HIDE DEF From
    <3>5. QED
      BY <3>2, <3>3, <3>4
  <2> HIDE DEF g, From
  <2>4. Good(g, k)
    BY <2>3
  <2> HIDE DEF Good
  <2>5. k \in 0 .. m
    BY <1>1
  <2>6. QED
    BY <2>4, <2>5
<1> HIDE DEF Good, P
<1>4. \A k \in 0 .. m : k \in P
  BY <1>1, <1>2, <1>3, Upward
<1>5. m \in 0 .. m
  BY <1>1
<1>6. PICK f : Good(f, m)
  BY <1>4, <1>5 DEF P
<1> DEFINE h == [i \in 0 .. m |-> f[i]]
<1>7. ASSUME NEW i \in 0 .. m PROVE h[i] = From(h, i)
  <2>1. f[i] = From(f, i) /\ h[i] = f[i]
    BY <1>6 DEF Good
  <2>2. i = 0 \/ i - 1 \in 0 .. m
    BY <1>1
  <2>3. i = 0 \/ h[i - 1] = f[i - 1]
    BY <2>2
  <2> HIDE DEF h
  <2>4. From(h, i) = From(f, i)
    BY <2>3
  <2> HIDE DEF From
  <2>5. QED
    BY <2>1, <2>4
<1>8. h = [i \in 0 .. m |-> h[i]]
  OBVIOUS
<1> HIDE DEF h
<1>9. h = [i \in 0 .. m |-> From(h, i)]
  <2> HIDE DEF From
  <2>1. QED
    BY <1>7, <1>8
<1>10. TextBoxes(h, s, sep, zsep)
  BY Zenon, <1>9 DEF TextBoxes, m
<1>11. QED
  BY <1>10

LEMMA ZOfTextIs ==
  ASSUME NEW C, NEW s \in Seq(C), NEW sep \in Seq(C), Len(sep) # 0, NEW j \in 0 .. Len(s) - 1
  PROVE  Finding(s, sep, j, At(ZOfText(s, sep), j))
<1> DEFINE N == Len(s)
           zsep == ZOfSeparator(sep)
           f == CHOOSE f : TextBoxes(f, s, sep, zsep)
           P == {k \in 0 .. N : TextBox(f[k], s, sep, k)}
<1>1. TextBoxes(f, s, sep, zsep)
  BY TextBoxesExist
<1>2. ZOfText(s, sep) = f[N].z
  BY Zenon DEF ZOfText, TextBoxes
<1>3. N \in Nat /\ N \in 0 .. N /\ 0 \in 0 .. N /\ j \in Nat /\ j < N
  OBVIOUS
<1> HIDE DEF f, N
<1>4. 0 \in P
  <2>1. f[0] = [z |-> <<>>, l |-> 0, r |-> 0]
    BY <1>1, <1>3 DEF TextBoxes, N
  <2>2. f[0].z = <<>> /\ f[0].l = 0 /\ f[0].r = 0
    BY <2>1
  <2>3. <<>> \in Seq(Nat) /\ Len(<<>>) = 0
    OBVIOUS
  <2>4. 1 .. 0 = {}
    OBVIOUS
  <2>5. TextBox(f[0], s, sep, 0)
    BY <2>2, <2>3, <2>4 DEF TextBox, InBox
  <2>6. QED
    BY <1>3, <2>5
<1>5. ASSUME NEW k \in 1 .. N, k - 1 \in P PROVE k \in P
  <2>1. k \in 0 .. N /\ k # 0 /\ k - 1 \in 0 .. N - 1 /\ (k - 1) + 1 = k
    BY <1>3
  <2>2. f[k] = ZStep(s, sep, f[k - 1], zsep, k - 1)
    BY <1>1, <2>1 DEF TextBoxes, N
  <2>3. TextBox(f[k - 1], s, sep, k - 1)
    BY <1>5
  <2>4. TextBox(ZStep(s, sep, f[k - 1], zsep, k - 1), s, sep, (k - 1) + 1)
    BY <2>1, <2>3, TextStep DEF N
  <2>5. QED
    BY <2>1, <2>2, <2>4
<1> HIDE DEF P
<1>6. N \in P
  <2>1. \A k \in 0 .. N : k \in P
    BY <1>3, <1>4, <1>5, Upward
  <2>2. QED
    BY <1>3, <2>1
<1>7. TextBox(f[N], s, sep, N)
  BY <1>6 DEF P
<1>8. j + 1 \in 1 .. N /\ (j + 1) - 1 = j
  BY <1>3
<1>9. Finding(s, sep, j, f[N].z[j + 1])
  <2>1. \A k \in 1 .. N : Finding(s, sep, k - 1, f[N].z[k])
    BY <1>7 DEF TextBox
  <2>2. QED
    BY <1>8, <2>1
<1>10. QED
  BY <1>2, <1>9 DEF At

-----------------------------------------------------------------------------
(* Join.                                                                   *)

Joined(f, sep, strings) ==
  f = [k \in 0 .. Len(strings) |->
         IF k = 0 THEN <<>>
         ELSE IF k = 1 THEN strings[1] ELSE JoinTwo(sep, f[k - 1], strings[k])]
Joining(sep, strings) == CHOOSE f : Joined(f, sep, strings)

\* What has been joined after k strings.
Joins(f, C, sep, strings) ==
  /\ f[0] = <<>>
  /\ Len(strings) # 0 => f[1] = strings[1]
  /\ \A k \in 2 .. Len(strings) : f[k] = (f[k - 1] \o sep) \o strings[k]
  /\ \A k \in 0 .. Len(strings) : f[k] \in Seq(C)

LEMMA JoinedExists ==
  ASSUME NEW sep, NEW strings, Len(strings) \in Nat
  PROVE  \E f : Joined(f, sep, strings)
<1> DEFINE m == Len(strings)
           From(f, k) == IF k = 0 THEN <<>>
                         ELSE IF k = 1 THEN strings[1] ELSE JoinTwo(sep, f[k - 1], strings[k])
           Good(f, k) == \A j \in 0 .. k : f[j] = From(f, j)
           P == {k \in 0 .. m : \E f : Good(f, k)}
<1>1. m \in Nat
  OBVIOUS
<1>2. 0 \in P
  <2> DEFINE f == [j \in 0 .. 0 |-> <<>>]
  <2>1. \A j \in 0 .. 0 : j = 0 /\ f[j] = <<>>
    OBVIOUS
  <2> HIDE DEF f
  <2>2. Good(f, 0)
    BY <2>1
  <2> HIDE DEF Good
  <2>3. 0 \in 0 .. m
    BY <1>1
  <2>4. QED
    BY <2>2, <2>3
<1> HIDE DEF m
<1>3. ASSUME NEW k \in 1 .. m, k - 1 \in P PROVE k \in P
  <2>1. PICK f : Good(f, k - 1)
    BY <1>3
  <2> DEFINE g == [j \in 0 .. k |-> IF j = k THEN From(f, k) ELSE f[j]]
  <2>2. \A j \in 0 .. k : /\ j = k \/ j \in 0 .. k - 1
                          /\ j = 0 \/ (j - 1 \in 0 .. k /\ j - 1 # k)
    BY <1>1
  <2>3. ASSUME NEW j \in 0 .. k PROVE g[j] = From(g, j)
    <3>1. j = 0 \/ g[j - 1] = f[j - 1]
      BY <2>2
    <3>2. g[j] = IF j = k THEN From(f, k) ELSE f[j]
      OBVIOUS
    <3> HIDE DEF g
    <3>3. From(g, j) = From(f, j)
      BY <3>1
    <3>4. j = k \/ f[j] = From(f, j)
      BY <2>1, <2>2
    <3> HIDE DEF From
    <3>5. QED
      BY <3>2, <3>3, <3>4
  <2> HIDE DEF g, From
  <2>4. Good(g, k)
    BY <2>3
  <2> HIDE DEF Good
  <2>5. k \in 0 .. m
    BY <1>1
  <2>6. QED
    BY <2>4, <2>5
<1> HIDE DEF Good, P
<1>4. \A k \in 0 .. m : k \in P
  BY <1>1, <1>2, <1>3, Upward
<1>5. m \in 0 .. m
  BY <1>1
<1>6. PICK f : Good(f, m)
  BY <1>4, <1>5 DEF P
<1> DEFINE h == [j \in 0 .. m |-> f[j]]
<1>7. ASSUME NEW j \in 0 .. m PROVE h[j] = From(h, j)
  <2>1. f[j] = From(f, j) /\ h[j] = f[j]
    BY <1>6 DEF Good
  <2>2. j = 0 \/ j - 1 \in 0 .. m
    BY <1>1
  <2>3. j = 0 \/ h[j - 1] = f[j - 1]
    BY <2>2
  <2> HIDE DEF h
  <2>4. From(h, j) = From(f, j)
    BY <2>3
  <2> HIDE DEF From
  <2>5. QED
    BY <2>1, <2>4
<1>8. h = [j \in 0 .. m |-> h[j]]
  OBVIOUS
<1> HIDE DEF h
<1>9. h = [j \in 0 .. m |-> From(h, j)]
  <2> HIDE DEF From
  <2>1. QED
    BY <1>7, <1>8
<1>10. Joined(h, sep, strings)
  BY Zenon, <1>9 DEF Joined, m
<1>11. QED
  BY <1>10

LEMMA JoiningIs ==
  ASSUME NEW C, NEW sep \in Seq(C), NEW strings \in Seq(Seq(C))
  PROVE  /\ Joins(Joining(sep, strings), C, sep, strings)
         /\ Join(sep, strings) = Joining(sep, strings)[Len(strings)]
         /\ Join(sep, strings) \in Seq(C)
<1> DEFINE f == Joining(sep, strings)
           m == Len(strings)
           P == {k \in 0 .. m : f[k] \in Seq(C)}
<1>1. m \in Nat /\ m \in 0 .. m /\ 0 \in 0 .. m
  OBVIOUS
<1>2. Joined(f, sep, strings)
  BY <1>1, JoinedExists DEF Joining
<1>3. Join(sep, strings) = f[m]
  BY Zenon DEF Join, Joining, Joined
<1> HIDE DEF f, m
<1>4. \A k \in 0 .. m : f[k] = IF k = 0 THEN <<>>
                               ELSE IF k = 1 THEN strings[1] ELSE JoinTwo(sep, f[k - 1], strings[k])
  BY <1>2 DEF Joined, m
<1>5. \A k \in 1 .. m : strings[k] \in Seq(C)
  BY DEF m
<1>6. f[0] = <<>> /\ (m # 0 => f[1] = strings[1])
  <2>1. m # 0 => 1 \in 0 .. m
    BY <1>1
  <2>2. QED
    BY <1>1, <1>4, <2>1
<1>7. \A k \in 2 .. m : f[k] = (f[k - 1] \o sep) \o strings[k]
  <2>1. \A k \in 2 .. m : k \in 0 .. m /\ k # 0 /\ k # 1
    BY <1>1
  <2>2. QED
    BY <1>4, <2>1 DEF JoinTwo
<1>8. 0 \in P
  <2>1. <<>> \in Seq(C)
    OBVIOUS
  <2>2. QED
    BY <1>1, <1>6, <2>1
<1>9. ASSUME NEW k \in 1 .. m, k - 1 \in P PROVE k \in P
  <2>1. k \in 0 .. m /\ strings[k] \in Seq(C) /\ f[k - 1] \in Seq(C)
    BY <1>1, <1>5, <1>9
  <2>2. k = 1 \/ k \in 2 .. m
    BY <1>1
  <2>3. (f[k - 1] \o sep) \o strings[k] \in Seq(C)
    BY <2>1, ConcatProperties
  <2>4. f[k] \in Seq(C)
    <3>1. m # 0
      BY <1>1
    <3>2. CASE k = 1
      BY <1>6, <2>1, <3>1, <3>2
    <3>3. CASE k \in 2 .. m
      BY <1>7, <2>3, <3>3
    <3>4. QED
      BY <2>2, <3>2, <3>3
  <2>5. QED
    BY <2>1, <2>4
<1> HIDE DEF P
<1>10. \A k \in 0 .. m : k \in P
  BY <1>1, <1>8, <1>9, Upward
<1>11. \A k \in 0 .. m : f[k] \in Seq(C)
  BY <1>10 DEF P
<1>12. Joins(f, C, sep, strings)
  BY <1>6, <1>7, <1>11 DEF Joins, m
<1>13. QED
  BY <1>1, <1>3, <1>11, <1>12 DEF f, m

LEMMA JoinNone ==
  ASSUME NEW C, NEW sep \in Seq(C)
  PROVE  Join(sep, <<>>) = <<>>
<1>1. <<>> \in Seq(Seq(C)) /\ Len(<<>>) = 0
  OBVIOUS
<1>2. /\ Joins(Joining(sep, <<>>), C, sep, <<>>)
      /\ Join(sep, <<>>) = Joining(sep, <<>>)[Len(<<>>)]
  BY <1>1, JoiningIs
<1>3. Joining(sep, <<>>)[0] = <<>>
  BY <1>2 DEF Joins
<1>4. QED
  BY <1>1, <1>2, <1>3

LEMMA JoinOne ==
  ASSUME NEW C, NEW sep \in Seq(C), NEW p \in Seq(C)
  PROVE  Join(sep, <<p>>) = p
<1>1. <<p>> \in Seq(Seq(C)) /\ Len(<<p>>) = 1 /\ <<p>>[1] = p /\ 1 # 0
  OBVIOUS
<1>2. /\ Joins(Joining(sep, <<p>>), C, sep, <<p>>)
      /\ Join(sep, <<p>>) = Joining(sep, <<p>>)[Len(<<p>>)]
  BY <1>1, JoiningIs
<1>3. Joining(sep, <<p>>)[1] = p
  BY <1>1, <1>2 DEF Joins
<1>4. QED
  BY <1>1, <1>2, <1>3

\* Sequences of strings, the first taken apart.
LEMMA OneAndMore ==
  ASSUME NEW S, NEW p \in S, NEW a \in Seq(S)
  PROVE  /\ <<p>> \o a \in Seq(S) /\ Len(<<p>> \o a) = Len(a) + 1 /\ (<<p>> \o a)[1] = p
         /\ \A k \in 1 .. Len(a) : (<<p>> \o a)[k + 1] = a[k]
<1>1. <<p>> \in Seq(S) /\ Len(<<p>>) = 1 /\ <<p>>[1] = p /\ Len(a) \in Nat
  OBVIOUS
<1> DEFINE b == <<p>> \o a
<1>2. /\ b \in Seq(S) /\ Len(b) = 1 + Len(a)
      /\ \A i \in 1 .. 1 + Len(a) : b[i] = IF i <= 1 THEN <<p>>[i] ELSE a[i - 1]
  BY <1>1, ConcatProperties
<1> HIDE DEF b
<1>3. b[1] = p
  <2>1. 1 \in 1 .. 1 + Len(a) /\ 1 <= 1
    BY <1>1
  <2>2. QED
    BY <1>1, <1>2, <2>1
<1>4. ASSUME NEW k \in 1 .. Len(a) PROVE b[k + 1] = a[k]
  <2>1. k + 1 \in 1 .. 1 + Len(a) /\ ~(k + 1 <= 1) /\ (k + 1) - 1 = k
    BY <1>1
  <2>2. QED
    BY <1>2, <2>1
<1>5. Len(b) = Len(a) + 1
  BY <1>1, <1>2
<1>6. QED
  BY <1>2, <1>3, <1>4, <1>5 DEF b

Regrouped(p, q, r, t) == ((p \o q) \o r) \o t = p \o ((q \o r) \o t)

LEMMA Associative ==
  ASSUME NEW C, NEW p \in Seq(C), NEW q \in Seq(C), NEW r \in Seq(C), NEW t \in Seq(C)
  PROVE  Regrouped(p, q, r, t)
<1>1. (p \o q) \o r = p \o (q \o r)
  BY ConcatAssociative
<1>2. q \o r \in Seq(C)
  BY ConcatProperties
<1>3. \A s \in Seq(C) : (p \o s) \o t = p \o (s \o t)
  <2>1. TAKE s \in Seq(C)
  <2>2. QED
    BY SMTT(30), ConcatAssociative
<1>4. (p \o (q \o r)) \o t = p \o ((q \o r) \o t)
  BY <1>2, <1>3
<1>5. QED
  BY <1>1, <1>4 DEF Regrouped

LEMMA JoinMore ==
  ASSUME NEW C, NEW sep \in Seq(C), NEW p \in Seq(C), NEW a \in Seq(Seq(C)), Len(a) # 0
  PROVE  Join(sep, <<p>> \o a) = (p \o sep) \o Join(sep, a)
<1> DEFINE b == <<p>> \o a
           m == Len(a)
           f == Joining(sep, b)
           g == Joining(sep, a)
           P == {k \in 0 .. m - 1 : f[k + 2] = (p \o sep) \o g[k + 1]}
<1>1. m \in Nat /\ m # 0 /\ m - 1 \in Nat /\ 0 \in 0 .. m - 1 /\ m - 1 \in 0 .. m - 1
  OBVIOUS
<1>2. /\ b \in Seq(Seq(C)) /\ Len(b) = m + 1 /\ b[1] = p
      /\ \A k \in 1 .. m : b[k + 1] = a[k]
  BY OneAndMore
<1> HIDE DEF b
<1>3. Joins(f, C, sep, b) /\ Join(sep, b) = f[m + 1]
  BY <1>2, JoiningIs
<1>4. Joins(g, C, sep, a) /\ Join(sep, a) = g[m]
  BY JoiningIs
<1> HIDE DEF f, g
<1>5. /\ f[1] = p /\ g[1] = a[1]
      /\ \A k \in 2 .. m + 1 : f[k] = (f[k - 1] \o sep) \o b[k]
      /\ \A k \in 2 .. m : g[k] = (g[k - 1] \o sep) \o a[k]
      /\ \A k \in 0 .. m : g[k] \in Seq(C)
  <2>1. m + 1 # 0
    BY <1>1
  <2>2. QED
    BY <1>1, <1>2, <1>3, <1>4, <2>1 DEF Joins
<1>6. \A k \in 1 .. m : a[k] \in Seq(C)
  OBVIOUS
<1> HIDE DEF m
<1>7. 0 \in P
  <2>1. 2 \in 2 .. m + 1 /\ 1 \in 1 .. m /\ 1 + 1 = 2 /\ 2 - 1 = 1 /\ 0 + 2 = 2 /\ 0 + 1 = 1
    BY <1>1
  <2>2. f[2] = (f[2 - 1] \o sep) \o b[2] /\ b[1 + 1] = a[1]
    BY <1>2, <1>5, <2>1
  <2>3. f[2] = (p \o sep) \o g[1]
    BY <1>5, <2>1, <2>2
  <2>4. QED
    BY <1>1, <2>1, <2>3
<1>8. ASSUME NEW k \in 1 .. m - 1, k - 1 \in P PROVE k \in P
  <2>1. /\ k + 2 \in 2 .. m + 1 /\ k + 1 \in 2 .. m /\ k + 1 \in 1 .. m /\ k \in 0 .. m
        /\ (k + 1) + 1 = k + 2 /\ (k + 2) - 1 = k + 1 /\ (k + 1) - 1 = k
        /\ (k - 1) + 2 = k + 1 /\ (k - 1) + 1 = k /\ k \in 0 .. m - 1
    BY <1>1
  <2>2. f[k + 1] = (p \o sep) \o g[k]
    BY <1>8, <2>1
  <2>3. f[k + 2] = (f[k + 1] \o sep) \o b[k + 2] /\ b[k + 2] = a[k + 1]
    <3>1. f[k + 2] = (f[(k + 2) - 1] \o sep) \o b[k + 2]
      BY <1>5, <2>1
    <3>2. b[(k + 1) + 1] = a[k + 1]
      BY <1>2, <2>1
    <3>3. QED
      BY <2>1, <3>1, <3>2
  <2>4. g[k + 1] = (g[k] \o sep) \o a[k + 1]
    <3>1. g[k + 1] = (g[(k + 1) - 1] \o sep) \o a[k + 1]
      BY <1>5, <2>1
    <3>2. QED
      BY <2>1, <3>1
  <2> DEFINE ps == p \o sep
             gk == g[k]
             t == a[k + 1]
  <2>5. ps \in Seq(C) /\ gk \in Seq(C) /\ t \in Seq(C)
    BY <1>5, <1>6, <2>1, ConcatProperties
  <2> HIDE DEF ps, gk, t
  <2>6. ((ps \o gk) \o sep) \o t = ps \o ((gk \o sep) \o t)
    <3>1. sep \in Seq(C)
      OBVIOUS
    <3>2. Regrouped(ps, gk, sep, t)
      BY <2>5, <3>1, Associative
    <3>3. QED
      BY <3>2 DEF Regrouped
  <2>7. f[k + 2] = ps \o g[k + 1]
    BY <2>2, <2>3, <2>4, <2>6 DEF ps, gk, t
  <2>8. QED
    BY <2>1, <2>7 DEF ps
<1> HIDE DEF P
<1>9. m - 1 \in P
  <2>1. \A k \in 0 .. m - 1 : k \in P
    BY <1>1, <1>7, <1>8, Upward
  <2>2. QED
    BY <1>1, <2>1
<1>10. (m - 1) + 2 = m + 1 /\ (m - 1) + 1 = m
  BY <1>1
<1>11. f[m + 1] = (p \o sep) \o g[m]
  BY <1>9, <1>10 DEF P
<1>12. QED
  BY <1>3, <1>4, <1>11 DEF b

-----------------------------------------------------------------------------
(* Split.                                                                  *)

\* Where Split finds separators from pos on, and the first of them.
FoundIn(s, sep, pos) == {i \in pos .. Len(s) - 1 : At(ZOfText(s, sep), i) = Len(sep)}
FirstIn(s, sep, pos) == Least(FoundIn(s, sep, pos))
PieceEnd(s, sep, pos) ==
  IF FoundIn(s, sep, pos) = {} THEN Len(s) ELSE FirstIn(s, sep, pos)
Cuts(f, s, sep) ==
  f = [pos \in 0 .. Len(s) |->
         IF FoundIn(s, sep, pos) = {} THEN LastPiece(s, pos)
         ELSE <<Substr(s, pos, FirstIn(s, sep, pos))>> \o f[Resume(FirstIn(s, sep, pos), sep)]]
Cutting(s, sep) == CHOOSE f : Cuts(f, s, sep)

LEMMA SplitIs ==
  ASSUME NEW s, NEW sep
  PROVE  Split(s, sep) = IF sep = <<>> THEN [i \in DOMAIN s |-> <<s[i]>>]
                         ELSE Cutting(s, sep)[0]
BY Zenon DEF Split, Cutting, Cuts, FoundIn, FirstIn

FirstFound(s, sep, pos, i) ==
  /\ i \in pos .. Len(s) - 1 /\ i + Len(sep) <= Len(s)
  /\ \A j \in pos .. i - 1 : ~ IsAt(s, sep, j)
  /\ \A j \in FoundIn(s, sep, pos) : i <= j
  /\ Len(sep) = 1 => IsAt(s, sep, i)

LEMMA FoundIs ==
  ASSUME NEW C, NEW s \in Seq(C), NEW sep \in Seq(C), Len(sep) # 0, NEW pos \in 0 .. Len(s)
  PROVE  /\ FoundIn(s, sep, pos) # {} => FirstFound(s, sep, pos, FirstIn(s, sep, pos))
         /\ FoundIn(s, sep, pos) = {} => \A j \in pos .. Len(s) - 1 : ~ IsAt(s, sep, j)
<1> DEFINE F == FoundIn(s, sep, pos)
           i == FirstIn(s, sep, pos)
           z == ZOfText(s, sep)
<1>1. Len(s) \in Nat /\ Len(sep) \in Nat \ {0} /\ pos \in Nat /\ pos <= Len(s)
  OBVIOUS
<1>2. \A j \in pos .. Len(s) - 1 : j \in 0 .. Len(s) - 1 /\ j \in Nat
  BY <1>1
<1>3. \A j \in pos .. Len(s) - 1 : Finding(s, sep, j, At(z, j))
  BY <1>2, ZOfTextIs
<1>4. \A j \in F : j \in pos .. Len(s) - 1 /\ At(z, j) = Len(sep)
  BY DEF FoundIn
<1>5. \A j \in pos .. Len(s) - 1 : IsAt(s, sep, j) => j \in F
  BY <1>3 DEF FoundIn, Finding
<1> HIDE DEF F, z
<1>6. ASSUME F # {} PROVE FirstFound(s, sep, pos, i)
  <2>1. F \in SUBSET Nat
    BY <1>2, <1>4
  <2>2. i \in F /\ \A j \in F : i <= j
    BY <1>6, <2>1, LeastIs DEF FirstIn, F
  <2> HIDE DEF i
  <2>3. i \in pos .. Len(s) - 1 /\ At(z, i) = Len(sep)
    BY <1>4, <2>2
  <2>4. Finding(s, sep, i, Len(sep))
    BY <1>3, <2>3
  <2>5. i + Len(sep) <= Len(s) /\ (Len(sep) = 1 => IsAt(s, sep, i))
    BY <2>4 DEF Finding
  <2>6. \A j \in pos .. i - 1 : j \in pos .. Len(s) - 1 /\ ~(i <= j)
    BY <1>1, <2>3
  <2>7. \A j \in pos .. i - 1 : ~ IsAt(s, sep, j)
    BY <1>5, <2>2, <2>6
  <2>8. QED
    BY <2>2, <2>3, <2>5, <2>7 DEF FirstFound, F
<1>7. QED
  BY <1>5, <1>6 DEF F

LEMMA ResumesLater ==
  ASSUME NEW C, NEW s \in Seq(C), NEW sep \in Seq(C), Len(sep) # 0, NEW pos \in 0 .. Len(s),
         FoundIn(s, sep, pos) # {}
  PROVE  Resume(FirstIn(s, sep, pos), sep) \in pos + 1 .. Len(s)
<1> DEFINE i == FirstIn(s, sep, pos)
<1>1. i \in pos .. Len(s) - 1 /\ i + Len(sep) <= Len(s)
  BY FoundIs DEF FirstFound
<1>2. Len(s) \in Nat /\ Len(sep) \in Nat \ {0} /\ pos \in Nat
  OBVIOUS
<1> HIDE DEF i
<1>3. i + Len(sep) \in pos + 1 .. Len(s)
  BY <1>1, <1>2
<1>4. QED
  BY <1>3 DEF Resume, i

LEMMA CuttingIs ==
  ASSUME NEW C, NEW s \in Seq(C), NEW sep \in Seq(C), Len(sep) # 0, NEW pos \in 0 .. Len(s)
  PROVE  Cutting(s, sep)[pos] =
           IF FoundIn(s, sep, pos) = {} THEN <<Substr(s, pos, Len(s))>>
           ELSE <<Substr(s, pos, FirstIn(s, sep, pos))>>
                  \o Cutting(s, sep)[Resume(FirstIn(s, sep, pos), sep)]
<1> DEFINE m == Len(s)
           ended == {k \in 0 .. m : FoundIn(s, sep, k) = {}}
           last == [k \in 0 .. m |-> LastPiece(s, k)]
           item == [k \in 0 .. m |-> Substr(s, k, FirstIn(s, sep, k))]
           next == [k \in 0 .. m |-> Resume(FirstIn(s, sep, k), sep)]
<1>1. m \in Nat
  OBVIOUS
<1>2. \A k \in 0 .. m : k \notin ended => next[k] \in k + 1 .. m
  BY ResumesLater
<1>3. \A k \in 0 .. m : /\ k \in ended <=> FoundIn(s, sep, k) = {}
                        /\ last[k] = LastPiece(s, k)
                        /\ item[k] = Substr(s, k, FirstIn(s, sep, k))
                        /\ next[k] = Resume(FirstIn(s, sep, k), sep)
  OBVIOUS
<1> HIDE DEF m, ended, last, item, next
<1>4. PICK f : Chain(f, m, ended, last, item, next)
  BY <1>1, <1>2, ChainExists
<1>5. Cuts(f, s, sep)
  <2>1. f = [k \in 0 .. m |-> IF k \in ended THEN last[k] ELSE <<item[k]>> \o f[next[k]]]
    BY <1>4 DEF Chain
  <2>2. f = [k \in 0 .. m |-> IF FoundIn(s, sep, k) = {} THEN LastPiece(s, k)
              ELSE <<Substr(s, k, FirstIn(s, sep, k))>> \o f[Resume(FirstIn(s, sep, k), sep)]]
    BY <1>3, <2>1
  <2>3. QED
    BY <2>2 DEF Cuts, m
<1>6. Cuts(Cutting(s, sep), s, sep)
  BY <1>5 DEF Cutting
<1>7. QED
  BY <1>6 DEF Cuts, LastPiece

\* Parts of a string.
Part(t, C, s, from, to) ==
  /\ t \in Seq(C) /\ Len(t) = to - from
  /\ \A k \in 0 .. to - from - 1 : At(t, k) = At(s, from + k)

LEMMA SubstrIs ==
  ASSUME NEW C, NEW s \in Seq(C), NEW to \in 0 .. Len(s), NEW from \in 0 .. to
  PROVE  Part(Substr(s, from, to), C, s, from, to)
<1> DEFINE t == SubSeq(s, from + 1, to)
           d == to - from
<1>1. from \in Nat /\ to \in Nat /\ d \in Nat /\ Len(s) \in Nat /\ to <= Len(s) /\ from <= to
  OBVIOUS
<1>2. \A k \in from + 1 .. to : s[k] \in C
  <2>1. \A k \in from + 1 .. to : k \in 1 .. Len(s)
    BY <1>1
  <2>2. QED
    BY <2>1
<1>3. /\ t \in Seq(C) /\ Len(t) = IF from + 1 <= to THEN to - (from + 1) + 1 ELSE 0
      /\ \A i \in 1 .. to - (from + 1) + 1 : t[i] = s[(from + 1) + i - 1]
  BY <1>1, <1>2, SubSeqProperties
<1> HIDE DEF t
<1>4. /\ (IF from + 1 <= to THEN to - (from + 1) + 1 ELSE 0) = d
      /\ \A k \in 0 .. d - 1 : /\ k + 1 \in 1 .. to - (from + 1) + 1
                               /\ (from + 1) + (k + 1) - 1 = (from + k) + 1
  BY <1>1
<1>5. \A k \in 0 .. d - 1 : t[k + 1] = s[(from + k) + 1]
  BY <1>3, <1>4
<1>6. Part(t, C, s, from, to)
  BY <1>3, <1>4, <1>5 DEF Part, At
<1>7. QED
  BY <1>6 DEF Substr, t

LEMMA IsAtPart ==
  ASSUME NEW C, NEW s \in Seq(C), NEW sep \in Seq(C), NEW to \in 0 .. Len(s), NEW from \in 0 .. to,
         NEW i \in Nat
  PROVE  IsAt(Substr(s, from, to), sep, i) <=> i + Len(sep) <= to - from /\ IsAt(s, sep, from + i)
<1> DEFINE t == Substr(s, from, to)
           N == Len(sep)
           d == to - from
<1>1. N \in Nat /\ d \in Nat /\ from \in Nat /\ to \in Nat /\ to <= Len(s) /\ from + i \in Nat
      /\ Len(s) \in Nat
  OBVIOUS
<1>2. t \in Seq(C) /\ Len(t) = d /\ \A k \in 0 .. d - 1 : At(t, k) = At(s, from + k)
  BY SubstrIs DEF Part
<1> HIDE DEF t
<1>3. IsAt(t, sep, i) <=> i + N <= d /\ \A k \in 0 .. N - 1 : At(t, i + k) = At(sep, k)
  <2>1. t \in Seq(C) /\ Len(t) = d
    BY <1>2
  <2>2. IsAt(t, sep, i) <=> /\ i + Len(sep) <= Len(t)
                            /\ \A k \in 0 .. Len(sep) - 1 : At(t, i + k) = At(sep, k)
    BY <2>1, IsAtIs
  <2>3. QED
    BY <2>1, <2>2
<1>4. IsAt(s, sep, from + i) <=> /\ (from + i) + N <= Len(s)
                                 /\ \A k \in 0 .. N - 1 : At(s, (from + i) + k) = At(sep, k)
  BY <1>1, IsAtIs
<1>5. ASSUME i + N <= d
      PROVE  IsAt(t, sep, i) <=> IsAt(s, sep, from + i)
  <2>1. (from + i) + N <= Len(s)
    BY <1>1, <1>5
  <2>2. \A k \in 0 .. N - 1 : i + k \in 0 .. d - 1 /\ (from + i) + k = from + (i + k)
    BY <1>1, <1>5
  <2>3. \A k \in 0 .. N - 1 : At(t, i + k) = At(s, (from + i) + k)
    BY <1>2, <2>2
  <2>4. QED
    BY <1>3, <1>4, <1>5, <2>1, <2>3
<1>6. QED
  BY <1>3, <1>5 DEF t

\* Pieces and the separator between them fit together.
LEMMA PartsFit ==
  ASSUME NEW C, NEW s \in Seq(C), NEW sep \in Seq(C), NEW from \in 0 .. Len(s),
         NEW i \in from .. Len(s), i + Len(sep) <= Len(s), IsAt(s, sep, i)
  PROVE  (Substr(s, from, i) \o sep) \o Substr(s, i + Len(sep), Len(s)) = Substr(s, from, Len(s))
<1> DEFINE e == i + Len(sep)
           n == Len(s)
<1>1. n \in Nat /\ Len(sep) \in Nat /\ from \in Nat /\ i \in Nat /\ e \in Nat /\ e <= n /\ i <= e
      /\ from <= i
  OBVIOUS
<1>2. SubSeq(s, i + 1, e) = sep
  BY DEF IsAt, Substr
<1> HIDE DEF e, n
<1>3. SubSeq(s, from + 1, i) \o SubSeq(s, i + 1, e) = SubSeq(s, from + 1, e)
  <2>1. from + 1 \in 1 .. n + 1 /\ i \in (from + 1) - 1 .. n /\ e \in i .. n
    BY <1>1
  <2>2. QED
    BY <2>1, ConcatAdjacentSubSeq DEF n
<1>4. SubSeq(s, from + 1, e) \o SubSeq(s, e + 1, n) = SubSeq(s, from + 1, n)
  <2>1. from + 1 \in 1 .. n + 1 /\ e \in (from + 1) - 1 .. n /\ n \in e .. n
    BY <1>1
  <2>2. QED
    BY <2>1, ConcatAdjacentSubSeq DEF n
<1>5. QED
  BY <1>2, <1>3, <1>4 DEF Substr, e, n

LEMMA SuffixMore ==
  ASSUME NEW S, NEW p \in S, NEW a \in Seq(S), NEW k \in 1 .. Len(a)
  PROVE  SubSeq(<<p>> \o a, k + 1, Len(a) + 1) = SubSeq(a, k, Len(a))
<1>1. <<p>> \in Seq(S) /\ Len(<<p>>) = 1 /\ Len(a) \in Nat
  OBVIOUS
<1>2. /\ k + 1 \in 1 + 1 .. 1 + Len(a) /\ Len(a) + 1 \in 1 + 1 .. 1 + Len(a)
      /\ (k + 1) - 1 = k /\ (Len(a) + 1) - 1 = Len(a)
  BY <1>1
<1>3. SubSeq(<<p>> \o a, k + 1, Len(a) + 1) = SubSeq(a, (k + 1) - 1, (Len(a) + 1) - 1)
  BY <1>1, <1>2, SubSeqOfConcat2
<1>4. QED
  BY <1>2, <1>3

\* What the pieces from position pos on are.
Pieced(a, C, s, sep, pos) ==
  /\ a \in Seq(Seq(C)) /\ Len(a) # 0
  /\ a[1] = Substr(s, pos, PieceEnd(s, sep, pos))
  /\ Len(Join(sep, a)) = Len(s) - pos
  /\ Len(sep) = 1 => Join(sep, a) = Substr(s, pos, Len(s))
  /\ \A k \in 1 .. Len(a) : \E q \in pos .. Len(s) : SubSeq(a, k, Len(a)) = Cutting(s, sep)[q]

LEMMA LastPieced ==
  ASSUME NEW C, NEW s \in Seq(C), NEW sep \in Seq(C), Len(sep) # 0, NEW pos \in 0 .. Len(s),
         FoundIn(s, sep, pos) = {}
  PROVE  Pieced(Cutting(s, sep)[pos], C, s, sep, pos)
<1> DEFINE p == Substr(s, pos, Len(s))
           a == Cutting(s, sep)[pos]
<1>1. a = <<p>>
  BY CuttingIs
<1>2. p \in Seq(C) /\ Len(p) = Len(s) - pos
  <2>1. Len(s) \in 0 .. Len(s) /\ pos \in 0 .. Len(s) /\ pos <= Len(s)
    OBVIOUS
  <2>2. Part(p, C, s, pos, Len(s))
    BY <2>1, SubstrIs
  <2>3. QED
    BY <2>2 DEF Part
<1>3. PieceEnd(s, sep, pos) = Len(s)
  BY DEF PieceEnd
<1> HIDE DEF p
<1>4. <<p>> \in Seq(Seq(C)) /\ Len(<<p>>) = 1 /\ <<p>>[1] = p
  BY <1>2
<1>5. Join(sep, <<p>>) = p
  BY <1>2, JoinOne
<1>6. SubSeq(<<p>>, 1, 1) = <<p>> /\ \A k \in 1 .. 1 : k = 1
  <2>1. SubSeq(<<p>>, 1, Len(<<p>>)) = <<p>>
    BY <1>4, SubSeqFull
  <2>2. \A k \in 1 .. 1 : k = 1
    OBVIOUS
  <2>3. QED
    BY <1>4, <2>1, <2>2
<1>7. pos \in pos .. Len(s)
  OBVIOUS
<1> HIDE DEF a
<1>8. /\ a \in Seq(Seq(C)) /\ Len(a) = 1 /\ a[1] = p /\ Join(sep, a) = p
      /\ SubSeq(a, 1, Len(a)) = a
  BY <1>1, <1>4, <1>5, <1>6
<1>9. \A k \in 1 .. Len(a) : \E q \in pos .. Len(s) : SubSeq(a, k, Len(a)) = Cutting(s, sep)[q]
  BY <1>6, <1>7, <1>8 DEF a
<1>10. 1 # 0
  OBVIOUS
<1>11. Pieced(a, C, s, sep, pos)
  BY <1>2, <1>3, <1>8, <1>9, <1>10 DEF Pieced, p
<1>12. QED
  BY <1>11 DEF a

LEMMA NextPieced ==
  ASSUME NEW C, NEW s \in Seq(C), NEW sep \in Seq(C), Len(sep) # 0, NEW pos \in 0 .. Len(s),
         FoundIn(s, sep, pos) # {}, NEW e \in pos + 1 .. Len(s),
         e = Resume(FirstIn(s, sep, pos), sep), Pieced(Cutting(s, sep)[e], C, s, sep, e)
  PROVE  Pieced(Cutting(s, sep)[pos], C, s, sep, pos)
<1> DEFINE i == FirstIn(s, sep, pos)
           n == Len(s)
           N == Len(sep)
           p == Substr(s, pos, i)
           a == Cutting(s, sep)[e]
           b == Cutting(s, sep)[pos]
<1>1. n \in Nat /\ N \in Nat \ {0} /\ pos \in Nat /\ pos <= n
  OBVIOUS
<1>2. FirstFound(s, sep, pos, i)
  BY FoundIs
<1>3. e = i + N
  BY DEF Resume
<1>4. b = <<p>> \o a
  BY CuttingIs
<1>5. PieceEnd(s, sep, pos) = i
  BY DEF PieceEnd
<1> HIDE DEF i
<1>6. i \in pos .. n /\ i \in Nat /\ e \in Nat /\ e <= n
  BY <1>1, <1>2 DEF FirstFound
<1>7. p \in Seq(C) /\ Len(p) = i - pos
  <2>1. i \in 0 .. Len(s) /\ pos \in 0 .. i
    BY <1>1, <1>6
  <2>2. QED
    BY <2>1, SubstrIs DEF Part
<1>8. /\ a \in Seq(Seq(C)) /\ Len(a) # 0 /\ Len(a) \in Nat
      /\ Len(Join(sep, a)) = n - e
      /\ N = 1 => Join(sep, a) = Substr(s, e, n)
      /\ \A k \in 1 .. Len(a) : \E q \in e .. n : SubSeq(a, k, Len(a)) = Cutting(s, sep)[q]
  <2> HIDE DEF a
  <2>1. Pieced(a, C, s, sep, e)
    BY DEF a
  <2>2. a \in Seq(Seq(C)) => Len(a) \in Nat
    BY LenProperties
  <2>3. QED
    BY <2>1, <2>2 DEF Pieced
<1> HIDE DEF a, b, p, n, N
<1>9. b \in Seq(Seq(C)) /\ Len(b) = Len(a) + 1 /\ b[1] = p
  BY <1>4, <1>7, <1>8, OneAndMore
<1>10. Join(sep, b) = (p \o sep) \o Join(sep, a) /\ Join(sep, a) \in Seq(C)
  BY <1>4, <1>7, <1>8, JoinMore, JoiningIs
<1>11. Len(Join(sep, b)) = n - pos
  <2>1. p \o sep \in Seq(C) /\ Len(p \o sep) = Len(p) + N
    BY <1>7, ConcatProperties DEF N
  <2>2. Len((p \o sep) \o Join(sep, a)) = Len(p \o sep) + Len(Join(sep, a))
    BY <1>10, <2>1, ConcatProperties
  <2>3. Len(Join(sep, b)) = ((i - pos) + N) + (n - e)
    BY <1>7, <1>8, <1>10, <2>1, <2>2
  <2>4. QED
    BY <1>1, <1>3, <1>6, <2>3
<1>12. ASSUME N = 1 PROVE Join(sep, b) = Substr(s, pos, n)
  <2>1. IsAt(s, sep, i) /\ i + Len(sep) <= Len(s)
    BY <1>2, <1>12 DEF FirstFound, N
  <2>2. pos \in 0 .. Len(s) /\ i \in pos .. Len(s)
    BY <1>6 DEF n
  <2>3. (Substr(s, pos, i) \o sep) \o Substr(s, i + Len(sep), Len(s)) = Substr(s, pos, Len(s))
    BY <2>1, <2>2, PartsFit
  <2>4. QED
    BY <1>3, <1>8, <1>10, <1>12, <2>3 DEF n, N, p
<1>13. ASSUME NEW k \in 1 .. Len(b)
       PROVE  \E q \in pos .. n : SubSeq(b, k, Len(b)) = Cutting(s, sep)[q]
  <2>1. CASE k = 1
    <3>1. SubSeq(b, 1, Len(b)) = b
      BY <1>9, SubSeqFull
    <3>2. pos \in pos .. n
      BY <1>1
    <3>3. QED
      BY <2>1, <3>1, <3>2 DEF b
  <2>2. CASE k # 1
    <3>1. k - 1 \in 1 .. Len(a) /\ (k - 1) + 1 = k
      BY <1>8, <1>9, <2>2
    <3>2. SubSeq(<<p>> \o a, (k - 1) + 1, Len(a) + 1) = SubSeq(a, k - 1, Len(a))
      BY <1>7, <1>8, <3>1, SuffixMore
    <3>3. SubSeq(b, k, Len(b)) = SubSeq(a, k - 1, Len(a))
      BY <1>4, <1>9, <3>1, <3>2
    <3>4. PICK q \in e .. n : SubSeq(a, k - 1, Len(a)) = Cutting(s, sep)[q]
      BY <1>8, <3>1
    <3>5. q \in pos .. n
      BY <1>1, <1>6
    <3>6. QED
      BY <3>3, <3>4, <3>5
  <2>3. QED
    BY <2>1, <2>2
<1>14. Len(b) # 0
  BY <1>8, <1>9
<1>15. Pieced(b, C, s, sep, pos)
  BY <1>5, <1>9, <1>11, <1>12, <1>13, <1>14 DEF Pieced, n, N, p
<1>16. QED
  BY <1>15 DEF b

LEMMA PiecesAre ==
  ASSUME NEW C, NEW s \in Seq(C), NEW sep \in Seq(C), Len(sep) # 0
  PROVE  \A pos \in 0 .. Len(s) : Pieced(Cutting(s, sep)[pos], C, s, sep, pos)
<1> DEFINE P == {pos \in 0 .. Len(s) : Pieced(Cutting(s, sep)[pos], C, s, sep, pos)}
<1>1. ASSUME NEW pos \in 0 .. Len(s), \A e \in pos + 1 .. Len(s) : e \in P
      PROVE  pos \in P
  <2>1. CASE FoundIn(s, sep, pos) = {}
    BY <2>1, LastPieced
  <2>2. CASE FoundIn(s, sep, pos) # {}
    <3> DEFINE e == Resume(FirstIn(s, sep, pos), sep)
    <3>1. e \in pos + 1 .. Len(s)
      BY <2>2, ResumesLater
    <3>2. Pieced(Cutting(s, sep)[e], C, s, sep, e)
      BY <1>1, <3>1
    <3> HIDE DEF e
    <3>3. Pieced(Cutting(s, sep)[pos], C, s, sep, pos)
      BY <2>2, <3>1, <3>2, NextPieced DEF e
    <3>4. QED
      BY <3>3
  <2>3. QED
    BY <2>1, <2>2
<1> HIDE DEF P
<1>2. Len(s) \in Nat
  OBVIOUS
<1>3. \A pos \in 0 .. Len(s) : pos \in P
  BY <1>1, <1>2, Downward
<1>4. QED
  BY <1>3 DEF P

LEMMA SplitTypes ==
  ASSUME NEW C, NEW s \in Seq(C), NEW sep \in Seq(C)
  PROVE  Split(s, sep) \in Seq(Seq(C))
<1>1. CASE sep = <<>>
  <2>1. DOMAIN s = 1 .. Len(s) /\ Len(s) \in Nat
    OBVIOUS
  <2>2. \A i \in 1 .. Len(s) : <<s[i]>> \in Seq(C)
    OBVIOUS
  <2>3. Split(s, sep) = [i \in 1 .. Len(s) |-> <<s[i]>>]
    BY <1>1, <2>1, SplitIs
  <2>4. QED
    BY <2>1, <2>2, <2>3
<1>2. CASE sep # <<>>
  <2>1. Len(sep) # 0 /\ 0 \in 0 .. Len(s)
    BY <1>2
  <2>2. Pieced(Cutting(s, sep)[0], C, s, sep, 0)
    BY <2>1, PiecesAre
  <2>3. QED
    BY <1>2, <2>2, SplitIs DEF Pieced
<1>3. QED
  BY <1>1, <1>2

\* Each of the pieces begins somewhere and ends at the first separator after that.
LEMMA PieceIs ==
  ASSUME NEW C, NEW s \in Seq(C), NEW sep \in Seq(C), Len(sep) # 0, NEW a, a = Split(s, sep),
         NEW k \in 1 .. Len(a)
  PROVE  \E q \in 0 .. Len(s) : /\ SubSeq(a, k, Len(a)) = Cutting(s, sep)[q]
                                /\ a[k] = Substr(s, q, PieceEnd(s, sep, q))
                                /\ PieceEnd(s, sep, q) \in q .. Len(s)
<1>1. sep # <<>> /\ 0 \in 0 .. Len(s)
  OBVIOUS
<1>2. Pieced(a, C, s, sep, 0)
  BY <1>1, SplitIs, PiecesAre
<1>3. PICK q \in 0 .. Len(s) : SubSeq(a, k, Len(a)) = Cutting(s, sep)[q]
  BY <1>2 DEF Pieced
<1>4. Pieced(Cutting(s, sep)[q], C, s, sep, q)
  BY PiecesAre
<1>5. SubSeq(a, k, Len(a))[1] = a[k]
  <2>1. a \in Seq(Seq(C)) /\ Len(a) \in Nat
    BY <1>2 DEF Pieced
  <2>2. k \in Int /\ Len(a) \in Int /\ \A i \in k .. Len(a) : a[i] \in Seq(C)
    BY <2>1
  <2>3. \A i \in 1 .. Len(a) - k + 1 : SubSeq(a, k, Len(a))[i] = a[k + i - 1]
    BY <2>1, <2>2, SubSeqProperties
  <2>4. 1 \in 1 .. Len(a) - k + 1 /\ k + 1 - 1 = k
    BY <2>1
  <2>5. QED
    BY <2>3, <2>4
<1>6. PieceEnd(s, sep, q) \in q .. Len(s)
  <2>1. CASE FoundIn(s, sep, q) = {}
    BY <2>1 DEF PieceEnd
  <2>2. CASE FoundIn(s, sep, q) # {}
    <3>1. FirstIn(s, sep, q) \in q .. Len(s) - 1
      BY <2>2, FoundIs DEF FirstFound
    <3>2. FirstIn(s, sep, q) \in q .. Len(s)
      BY <3>1
    <3>3. QED
      BY <2>2, <3>2 DEF PieceEnd
  <2>3. QED
    BY <2>1, <2>2
<1>7. a[k] = Substr(s, q, PieceEnd(s, sep, q))
  BY <1>3, <1>4, <1>5 DEF Pieced
<1>8. QED
  BY <1>3, <1>6, <1>7

\* What the properties say of the pieces a of s.
SplitResult(s, sep, a) ==
  /\ Join(sep, a) = s
  /\ \A k \in DOMAIN a :
       LET rest == Join(sep, SubSeq(a, k, Len(a)))
           found == {i \in 0 .. Len(rest) : IsAt(rest, sep, i)}
       IN Len(a[k]) = IF found = {} THEN Len(rest) ELSE Least(found)
SplitInside(s, sep, a) ==
  /\ \A k \in DOMAIN a : \A i \in 0 .. Len(a[k]) : ~ IsAt(a[k], sep, i)
  /\ Len(Join(sep, a)) = Len(s)

LEMMA SplitByOne ==
  ASSUME NEW C, NEW s \in Seq(C), NEW sep \in Seq(C), Len(sep) = 1
  PROVE  SplitResult(s, sep, Split(s, sep))
<1> DEFINE a == Split(s, sep)
           n == Len(s)
<1>1. n \in Nat /\ 0 \in 0 .. n /\ sep # <<>> /\ Len(sep) # 0
  <2>1. ASSUME sep = <<>> PROVE FALSE
    <3>1. Len(<<>>) = 0
      OBVIOUS
    <3>2. QED
      BY <2>1, <3>1
  <2>2. n \in Nat /\ 0 \in 0 .. n
    OBVIOUS
  <2>3. Len(sep) # 0
    OBVIOUS
  <2>4. QED
    BY <2>1, <2>2, <2>3
<1>2. a = Cutting(s, sep)[0] /\ Pieced(a, C, s, sep, 0)
  BY <1>1, SplitIs, PiecesAre
<1> HIDE DEF a
<1>3. Join(sep, a) = s
  <2>1. Join(sep, a) = Substr(s, 0, n)
    BY <1>2 DEF Pieced
  <2>2. SubSeq(s, 0 + 1, n) = s
    BY SubSeqFull
  <2>3. QED
    BY <2>1, <2>2 DEF Substr
<1>4. DOMAIN a = 1 .. Len(a)
  BY <1>2 DEF Pieced
<1> HIDE DEF n
<1>5. ASSUME NEW k \in 1 .. Len(a), NEW rest, rest = Join(sep, SubSeq(a, k, Len(a))),
             NEW found, found = {i \in 0 .. Len(rest) : IsAt(rest, sep, i)}
      PROVE  Len(a[k]) = IF found = {} THEN Len(rest) ELSE Least(found)
  <2>1. PICK q \in 0 .. n : /\ SubSeq(a, k, Len(a)) = Cutting(s, sep)[q]
                            /\ a[k] = Substr(s, q, PieceEnd(s, sep, q))
                            /\ PieceEnd(s, sep, q) \in q .. n
    BY <1>1, PieceIs DEF a, n
  <2> DEFINE e == PieceEnd(s, sep, q)
  <2>2. Len(a[k]) = e - q
    <3>1. e \in 0 .. Len(s) /\ q \in 0 .. e
      BY <2>1 DEF n
    <3> HIDE DEF e
    <3>2. Len(Substr(s, q, e)) = e - q
      BY <3>1, SubstrIs DEF Part
    <3>3. QED
      BY <2>1, <3>2 DEF e
  <2>3. rest = Substr(s, q, n)
    <3>1. Pieced(Cutting(s, sep)[q], C, s, sep, q)
      BY <1>1, <2>1, PiecesAre DEF n
    <3>2. QED
      BY <1>5, <2>1, <3>1 DEF Pieced, n
  <2>4. Len(rest) = n - q
    <3>1. n \in 0 .. Len(s) /\ q \in 0 .. n
      BY <1>1, <2>1 DEF n
    <3>2. Len(Substr(s, q, n)) = n - q
      BY <3>1, SubstrIs DEF Part
    <3>3. QED
      BY <2>3, <3>2
  <2>5. ASSUME NEW i \in Nat
        PROVE  IsAt(rest, sep, i) <=> i + 1 <= n - q /\ IsAt(s, sep, q + i)
    <3>1. n \in 0 .. Len(s) /\ q \in 0 .. n
      BY <1>1, <2>1 DEF n
    <3>2. IsAt(Substr(s, q, n), sep, i) <=> i + Len(sep) <= n - q /\ IsAt(s, sep, q + i)
      BY <3>1, IsAtPart
    <3>3. QED
      BY <2>3, <3>2
  <2>6. q \in Nat /\ q <= n
    BY <1>1, <2>1
  <2>7. CASE FoundIn(s, sep, q) = {}
    <3>1. e = n
      BY <2>7 DEF PieceEnd, n
    <3>2. \A j \in q .. n - 1 : ~ IsAt(s, sep, j)
      BY <1>1, <2>1, <2>7, FoundIs DEF n
    <3>3. \A i \in found : i \in Nat /\ IsAt(rest, sep, i)
      BY <1>1, <1>5, <2>4, <2>6
    <3>4. ASSUME NEW i \in found PROVE FALSE
      <4>1. i \in Nat /\ i + 1 <= n - q /\ IsAt(s, sep, q + i)
        BY <2>5, <3>3
      <4>2. q + i \in q .. n - 1
        BY <1>1, <2>6, <4>1
      <4>3. QED
        BY <3>2, <4>1, <4>2
    <3>5. found = {}
      BY <3>4
    <3>6. QED
      BY <2>2, <2>4, <3>1, <3>5
  <2>8. CASE FoundIn(s, sep, q) # {}
    <3> HIDE DEF e
    <3>1. FirstFound(s, sep, q, e)
      <4>1. e = FirstIn(s, sep, q)
        BY <2>8 DEF PieceEnd, e
      <4>2. FirstFound(s, sep, q, FirstIn(s, sep, q))
        BY <1>1, <2>1, <2>8, FoundIs DEF n
      <4>3. QED
        BY <4>1, <4>2
    <3>2. /\ e \in q .. n - 1 /\ e + 1 <= n /\ IsAt(s, sep, e)
          /\ \A j \in q .. e - 1 : ~ IsAt(s, sep, j)
      BY <3>1 DEF FirstFound, n
    <3>3. e - q \in Nat /\ e - q \in 0 .. n - q /\ (e - q) + 1 <= n - q /\ q + (e - q) = e
      BY <1>1, <2>6, <3>2
    <3>4. e - q \in found
      BY <1>5, <2>4, <2>5, <3>2, <3>3
    <3>5. found \in SUBSET Nat
      BY <1>1, <1>5, <2>4, <2>6
    <3>6. ASSUME NEW y \in found PROVE e - q <= y
      <4>1. y \in Nat /\ IsAt(rest, sep, y)
        BY <1>5, <3>5
      <4>2. y + 1 <= n - q /\ IsAt(s, sep, q + y)
        BY <2>5, <4>1
      <4>3. q + y \notin q .. e - 1
        BY <3>2, <4>2
      <4>4. QED
        BY <1>1, <2>6, <3>2, <4>1, <4>3
    <3>7. Least(found) = e - q
      BY <3>4, <3>5, <3>6, LeastIsThis
    <3>8. found # {}
      BY <3>4
    <3>9. QED
      BY <2>2, <3>7, <3>8 DEF e
  <2>9. QED
    BY <2>7, <2>8
<1>6. SplitResult(s, sep, a)
  BY <1>3, <1>4, <1>5 DEF SplitResult
<1>7. QED
  BY <1>6 DEF a

LEMMA SplitStaysInside ==
  ASSUME NEW C, NEW s \in Seq(C), NEW sep \in Seq(C), Len(sep) # 0
  PROVE  SplitInside(s, sep, Split(s, sep))
<1> DEFINE a == Split(s, sep)
           n == Len(s)
           N == Len(sep)
<1>1. n \in Nat /\ 0 \in 0 .. n /\ sep # <<>> /\ N \in Nat \ {0}
  OBVIOUS
<1>2. Pieced(a, C, s, sep, 0)
  BY <1>1, SplitIs, PiecesAre
<1> HIDE DEF a
<1>3. Len(Join(sep, a)) = n
  BY <1>1, <1>2 DEF Pieced
<1>4. DOMAIN a = 1 .. Len(a)
  BY <1>2 DEF Pieced
<1> HIDE DEF n, N
<1>5. ASSUME NEW k \in 1 .. Len(a), NEW i \in 0 .. Len(a[k]), IsAt(a[k], sep, i)
      PROVE  FALSE
  <2>1. PICK q \in 0 .. n : /\ a[k] = Substr(s, q, PieceEnd(s, sep, q))
                            /\ PieceEnd(s, sep, q) \in q .. n
    BY <1>1, PieceIs DEF a, n
  <2> DEFINE e == PieceEnd(s, sep, q)
  <2>2. e \in 0 .. Len(s) /\ q \in 0 .. e /\ q \in Nat /\ e \in Nat
    BY <1>1, <2>1 DEF n
  <2>3. i \in Nat
    <3> HIDE DEF e
    <3>1. Len(Substr(s, q, e)) = e - q
      BY <2>2, SubstrIs DEF Part
    <3>2. Len(a[k]) \in Nat
      BY <2>1, <2>2, <3>1 DEF e
    <3>3. QED
      BY <3>2
  <2>4. i + N <= e - q /\ IsAt(s, sep, q + i)
    <3> HIDE DEF e
    <3>1. IsAt(Substr(s, q, e), sep, i) <=> i + Len(sep) <= e - q /\ IsAt(s, sep, q + i)
      BY <2>2, <2>3, IsAtPart
    <3>2. a[k] = Substr(s, q, e)
      BY <2>1 DEF e
    <3>3. QED
      BY <1>5, <3>1, <3>2 DEF N
  <2>5. q + i \in q .. e - 1
    <3> HIDE DEF e
    <3>1. QED
      BY <1>1, <2>2, <2>3, <2>4
  <2>6. CASE FoundIn(s, sep, q) = {}
    <3>1. e = n
      BY <2>6 DEF PieceEnd, n
    <3>2. \A j \in q .. n - 1 : ~ IsAt(s, sep, j)
      BY <1>1, <2>1, <2>6, FoundIs DEF n, N
    <3>3. QED
      BY <2>4, <2>5, <3>1, <3>2
  <2>7. CASE FoundIn(s, sep, q) # {}
    <3>1. e = FirstIn(s, sep, q)
      BY <2>7 DEF PieceEnd
    <3>2. FirstFound(s, sep, q, FirstIn(s, sep, q))
      BY <1>1, <2>1, <2>7, FoundIs DEF n, N
    <3> HIDE DEF e
    <3>3. \A j \in q .. e - 1 : ~ IsAt(s, sep, j)
      BY <3>1, <3>2 DEF FirstFound
    <3>4. QED
      BY <2>4, <2>5, <3>3
  <2>8. QED
    BY <2>6, <2>7
<1>6. SplitInside(s, sep, a)
  BY <1>3, <1>4, <1>5 DEF SplitInside, n
<1>7. QED
  BY <1>6 DEF a

\* Nothing between the characters, and nothing to be cut off.
LEMMA SplitByNothing ==
  ASSUME NEW C, NEW s \in Seq(C)
  PROVE  Split(s, <<>>) = [i \in DOMAIN s |-> <<s[i]>>] /\ Join(<<>>, Split(s, <<>>)) = s
<1> DEFINE a == Split(s, <<>>)
           n == Len(s)
           f == Joining(<<>>, a)
           P == {k \in 0 .. n : f[k] = SubSeq(s, 1, k)}
<1>1. a = [i \in DOMAIN s |-> <<s[i]>>]
  BY SplitIs
<1>2. n \in Nat /\ DOMAIN s = 1 .. n /\ n \in 0 .. n /\ 0 \in 0 .. n
  OBVIOUS
<1>3. a \in Seq(Seq(C)) /\ <<>> \in Seq(C)
  <2>1. <<>> \in Seq(C)
    OBVIOUS
  <2>2. QED
    BY <2>1, SplitTypes
<1>4. Len(a) = n /\ \A k \in 1 .. n : a[k] = <<s[k]>>
  <2> HIDE DEF a, n
  <2>1. DOMAIN a = 1 .. n
    BY <1>1, <1>2
  <2>2. DOMAIN a = 1 .. Len(a) /\ Len(a) \in Nat
    BY <1>3, LenProperties
  <2>3. Len(a) = n
    BY <1>2, <2>1, <2>2
  <2>4. \A k \in 1 .. n : a[k] = <<s[k]>>
    BY <1>1, <1>2
  <2>5. QED
    BY <2>3, <2>4
<1> HIDE DEF a
<1>5. Joins(f, C, <<>>, a) /\ Join(<<>>, a) = f[Len(a)]
  BY <1>3, JoiningIs
<1> HIDE DEF f, n
<1>6. /\ f[0] = <<>> /\ (n # 0 => f[1] = a[1])
      /\ \A k \in 2 .. n : f[k] = (f[k - 1] \o <<>>) \o a[k]
      /\ \A k \in 0 .. n : f[k] \in Seq(C)
  BY <1>4, <1>5 DEF Joins
<1>7. 0 \in P
  <2>1. SubSeq(s, 1, 0) = <<>>
    BY SubSeqEmpty
  <2>2. QED
    BY <1>2, <1>6, <2>1
<1>8. ASSUME NEW k \in 1 .. n, k - 1 \in P PROVE k \in P
  <2>1. k \in 0 .. n /\ k - 1 \in 0 .. n /\ n # 0 /\ k \in 1 .. Len(s) /\ k \in k .. Len(s)
    BY <1>2 DEF n
  <2>2. f[k - 1] = SubSeq(s, 1, k - 1) /\ f[k - 1] \in Seq(C)
    BY <1>6, <1>8, <2>1
  <2>3. a[k] = <<s[k]>>
    BY <1>4
  <2>4. SubSeq(s, 1, k) = SubSeq(s, 1, k - 1) \o <<s[k]>>
    <3>1. 1 \in 1 .. Len(s) /\ k \in 1 .. Len(s)
      BY <2>1
    <3>2. QED
      BY <3>1, SubSeqRecursiveSecond
  <2>5. CASE k = 1
    <3>1. SubSeq(s, 1, 0) = <<>> /\ <<s[1]>> \in Seq(C) /\ k - 1 = 0
      BY <2>1, <2>5, SubSeqEmpty
    <3>2. SubSeq(s, 1, k) = <<s[1]>>
      BY <2>4, <2>5, <3>1, ConcatEmptySeq
    <3>3. QED
      BY <1>6, <2>1, <2>3, <2>5, <3>2
  <2>6. CASE k # 1
    <3>1. k \in 2 .. n
      BY <2>1, <2>6
    <3>2. f[k - 1] \o <<>> = f[k - 1]
      BY <2>2, ConcatEmptySeq
    <3>3. QED
      BY <1>6, <2>1, <2>2, <2>3, <2>4, <3>1, <3>2
  <2>7. QED
    BY <2>5, <2>6
<1> HIDE DEF P
<1>9. n \in P
  <2>1. \A k \in 0 .. n : k \in P
    BY <1>2, <1>7, <1>8, Upward
  <2>2. QED
    BY <1>2, <2>1
<1>10. SubSeq(s, 1, n) = s
  BY SubSeqFull DEF n
<1>11. QED
  BY <1>1, <1>4, <1>5, <1>9, <1>10 DEF P, a


-----------------------------------------------------------------------------
(* SplitWS.                                                                *)

Dark(s, i) == i \in 0 .. Len(s) - 1 /\ At(s, i) \notin White
Begins(s) == {i \in 0 .. Len(s) : Dark(s, i) /\ ~ Dark(s, i - 1)}
WordEnd(s, b) == Least({i \in b .. Len(s) : ~ Dark(s, i)})
BeginsFrom(s, pos) == {b \in Begins(s) : pos <= b}
ToWhite(s, i) == NextThat(s, i, TRUE)
ToDark(s, i) == NextThat(s, i, FALSE)
UpTo(s, pos, b) == {i \in BeginsFrom(s, pos) : i <= b}

\* The search for white space finds the end of a word, ...
LEMMA NextWhiteIs ==
  ASSUME NEW s, Len(s) \in Nat, NEW i \in 0 .. Len(s), NEW e, e = ToWhite(s, i)
  PROVE  /\ e \in i .. Len(s) /\ ~ Dark(s, e)
         /\ \A j \in i .. e - 1 : Dark(s, j)
<1> DEFINE n == Len(s)
           S == {k \in i .. Len(s) : k = Len(s) \/ (At(s, k) \in White) = TRUE}
<1>1. S \in SUBSET Nat /\ n \in i .. n /\ n \in S
  OBVIOUS
<1>2. e = Least(S)
  BY DEF NextThat, ToWhite
<1>3. \A k \in i .. n : k \in S <=> k = n \/ At(s, k) \in White
  OBVIOUS
<1>4. \A k \in S : k \in i .. n
  OBVIOUS
<1> HIDE DEF S, n
<1>5. e \in S /\ e \in Nat /\ \A k \in S : e <= k
  <2>1. S # {}
    BY <1>1
  <2>2. Least(S) \in S /\ Least(S) \in Nat /\ \A k \in S : Least(S) <= k
    BY <1>1, <2>1, LeastIs
  <2>3. QED
    BY <1>2, <2>2
<1>6. e \in i .. n /\ (e = n \/ At(s, e) \in White)
  BY <1>3, <1>4, <1>5
<1>7. ~ Dark(s, e)
  <2>1. n \notin 0 .. n - 1
    BY DEF n
  <2>2. QED
    BY <1>6, <2>1 DEF Dark, n
<1>8. ASSUME NEW j \in i .. e - 1 PROVE Dark(s, j)
  <2>1. n \in Nat /\ i \in Nat /\ e \in Nat /\ e <= n
    BY <1>5, <1>6 DEF n
  <2>2. j \in i .. n /\ j \in 0 .. n - 1 /\ ~(e <= j) /\ j # n
    BY <2>1
  <2>3. At(s, j) \notin White
    BY <1>3, <1>5, <2>2
  <2>4. QED
    BY <2>2, <2>3 DEF Dark, n
<1>9. QED
  BY <1>6, <1>7, <1>8 DEF n

\* ... and the one for anything else the beginning of the next.
LEMMA NextDarkIs ==
  ASSUME NEW s, Len(s) \in Nat, NEW i \in 0 .. Len(s), NEW q, q = ToDark(s, i)
  PROVE  /\ q \in i .. Len(s) /\ (q = Len(s) \/ Dark(s, q))
         /\ \A j \in i .. q - 1 : ~ Dark(s, j)
<1> DEFINE n == Len(s)
           S == {k \in i .. Len(s) : k = Len(s) \/ (At(s, k) \in White) = FALSE}
<1>1. S \in SUBSET Nat /\ n \in i .. n /\ n \in S
  OBVIOUS
<1>2. q = Least(S)
  BY DEF NextThat, ToDark
<1>3. \A k \in i .. n : k \in S <=> k = n \/ At(s, k) \notin White
  OBVIOUS
<1>4. \A k \in S : k \in i .. n
  OBVIOUS
<1> HIDE DEF S, n
<1>5. q \in S /\ q \in Nat /\ \A k \in S : q <= k
  <2>1. S # {}
    BY <1>1
  <2>2. Least(S) \in S /\ Least(S) \in Nat /\ \A k \in S : Least(S) <= k
    BY <1>1, <2>1, LeastIs
  <2>3. QED
    BY <1>2, <2>2
<1>6. q \in i .. n /\ (q = n \/ At(s, q) \notin White)
  BY <1>3, <1>4, <1>5
<1>7. q = n \/ Dark(s, q)
  <2>1. ASSUME q # n PROVE q \in 0 .. n - 1
    <3>1. n \in Nat /\ q \in Nat /\ q <= n
      BY <1>5, <1>6 DEF n
    <3>2. QED
      BY <2>1, <3>1
  <2>2. QED
    BY <1>6, <2>1 DEF Dark, n
<1>8. ASSUME NEW j \in i .. q - 1 PROVE ~ Dark(s, j)
  <2>1. n \in Nat /\ i \in Nat /\ q \in Nat /\ q <= n
    BY <1>5, <1>6 DEF n
  <2>2. j \in i .. n /\ ~(q <= j)
    BY <2>1
  <2>3. At(s, j) \in White
    BY <1>3, <1>5, <2>2
  <2>4. QED
    BY <2>3 DEF Dark
<1>9. QED
  BY <1>6, <1>7, <1>8 DEF n

\* What SplitWS does at a position that is not the end.
Turn(s, pos, e, q) ==
  /\ e \in pos + 1 .. Len(s) /\ ~ Dark(s, e) /\ q \in e .. Len(s) /\ (q = Len(s) \/ Dark(s, q))
  /\ \A j \in pos + 1 .. e - 1 : Dark(s, j)
  /\ \A j \in e .. q - 1 : ~ Dark(s, j)

LEMMA TurnIs ==
  ASSUME NEW s, Len(s) \in Nat, NEW pos \in 0 .. Len(s), pos # Len(s),
         NEW e, e = ToWhite(s, pos + 1), NEW q, q = ToDark(s, e)
  PROVE  Turn(s, pos, e, q)
<1>1. pos + 1 \in 0 .. Len(s)
  OBVIOUS
<1>2. e \in pos + 1 .. Len(s) /\ ~ Dark(s, e) /\ \A j \in pos + 1 .. e - 1 : Dark(s, j)
  BY <1>1, NextWhiteIs
<1>3. e \in 0 .. Len(s)
  <2>1. \A k \in pos + 1 .. Len(s) : k \in 0 .. Len(s)
    OBVIOUS
  <2>2. QED
    BY <1>2, <2>1
<1>4. /\ q \in e .. Len(s) /\ (q = Len(s) \/ Dark(s, q))
      /\ \A j \in e .. q - 1 : ~ Dark(s, j)
  BY <1>3, NextDarkIs
<1>5. QED
  BY <1>2, <1>4 DEF Turn

\* At the beginning of a word, the next one begins where the search goes on.
LEMMA WordsMore ==
  ASSUME NEW s, Len(s) \in Nat, NEW pos \in Begins(s), NEW e, NEW q, Turn(s, pos, e, q)
  PROVE  /\ pos \in 0 .. Len(s) - 1 /\ q \in pos + 1 .. Len(s)
         /\ WordEnd(s, pos) = e
         /\ q \in Begins(s) \cup {Len(s)}
         /\ BeginsFrom(s, pos) = BeginsFrom(s, q) \cup {pos}
         /\ \A b \in BeginsFrom(s, q) : b \in Nat /\ b > pos
<1> DEFINE n == Len(s)
<1>1. n \in Nat /\ pos \in 0 .. n - 1 /\ pos \in Nat /\ Dark(s, pos) /\ ~ Dark(s, pos - 1)
  BY DEF Begins, Dark
<1> HIDE DEF n
<1>2. /\ e \in pos + 1 .. n /\ ~ Dark(s, e) /\ q \in e .. n /\ (q = n \/ Dark(s, q))
      /\ \A j \in pos + 1 .. e - 1 : Dark(s, j)
      /\ \A j \in e .. q - 1 : ~ Dark(s, j)
  BY DEF Turn, n
<1>3. e \in Nat /\ q \in Nat /\ pos < e /\ e <= q /\ q <= n /\ e <= n /\ q \in pos + 1 .. n
  BY <1>1, <1>2
<1>4. \A j \in pos .. e - 1 : Dark(s, j)
  <2>1. \A j \in pos .. e - 1 : j = pos \/ j \in pos + 1 .. e - 1
    BY <1>1, <1>3
  <2>2. QED
    BY <1>1, <1>2, <2>1
<1>5. WordEnd(s, pos) = e
  <2> DEFINE S == {i \in pos .. n : ~ Dark(s, i)}
  <2>1. S \in SUBSET Nat /\ e \in S
    BY <1>1, <1>2, <1>3
  <2>2. ASSUME NEW y \in S PROVE e <= y
    <3>1. y \in pos .. n /\ y \notin pos .. e - 1
      BY <1>4
    <3>2. QED
      BY <1>1, <1>3, <3>1
  <2> HIDE DEF S
  <2>3. Least(S) = e
    BY <2>1, <2>2, LeastIsThis
  <2>4. QED
    BY <2>3 DEF WordEnd, S, n
<1>6. q \in Begins(s) \cup {n}
  <2>1. ASSUME q # n PROVE q \in Begins(s)
    <3>1. Dark(s, q)
      BY <1>2, <2>1
    <3>2. q # e
      BY <1>2, <3>1
    <3>3. q - 1 \in e .. q - 1 /\ q \in 0 .. n
      BY <1>3, <3>2
    <3>4. ~ Dark(s, q - 1)
      BY <1>2, <3>3
    <3>5. QED
      BY <3>1, <3>3, <3>4 DEF Begins, n
  <2>2. QED
    BY <2>1
<1>7. ASSUME NEW b \in BeginsFrom(s, pos), b # pos PROVE b \in BeginsFrom(s, q)
  <2>1. b \in Begins(s) /\ pos <= b /\ b \in Nat /\ Dark(s, b) /\ ~ Dark(s, b - 1)
    BY DEF BeginsFrom, Begins
  <2>2. b - 1 \notin pos .. e - 1 /\ b \notin e .. q - 1
    BY <1>2, <1>4, <2>1
  <2>3. q <= b
    BY <1>1, <1>3, <1>7, <2>1, <2>2
  <2>4. QED
    BY <2>1, <2>3 DEF BeginsFrom
<1>8. ASSUME NEW b \in BeginsFrom(s, q)
      PROVE  b \in Nat /\ b > pos /\ b \in BeginsFrom(s, pos)
  <2>1. b \in Begins(s) /\ q <= b /\ b \in Nat
    BY DEF BeginsFrom, Begins
  <2>2. b > pos /\ pos <= b
    BY <1>1, <1>3, <2>1
  <2>3. QED
    BY <2>1, <2>2 DEF BeginsFrom
<1>9. pos \in BeginsFrom(s, pos)
  BY <1>1 DEF BeginsFrom
<1>10. BeginsFrom(s, pos) = BeginsFrom(s, q) \cup {pos}
  BY <1>7, <1>8, <1>9
<1>11. QED
  BY <1>1, <1>3, <1>5, <1>6, <1>8, <1>10 DEF n

LEMMA BeginsFinite ==
  ASSUME NEW s, Len(s) \in Nat, NEW pos
  PROVE  IsFiniteSet(BeginsFrom(s, pos)) /\ Cardinality(BeginsFrom(s, pos)) \in Nat
<1>1. 0 \in Int /\ Len(s) \in Int
  OBVIOUS
<1>2. IsFiniteSet(0 .. Len(s))
  BY <1>1, FS_Interval
<1>3. BeginsFrom(s, pos) \in SUBSET (0 .. Len(s))
  BY DEF BeginsFrom, Begins
<1>4. QED
  BY <1>2, <1>3, FS_Subset, FS_CardinalityType

\* The word at b is the one more word in, seen from one word before.
LEMMA RanksMore ==
  ASSUME NEW s, Len(s) \in Nat, NEW pos \in Begins(s), NEW e, NEW q, Turn(s, pos, e, q)
  PROVE  /\ Cardinality(BeginsFrom(s, pos)) = Cardinality(BeginsFrom(s, q)) + 1
         /\ Cardinality(UpTo(s, pos, pos)) = 1
         /\ \A b \in BeginsFrom(s, q) :
              /\ Cardinality(UpTo(s, q, b)) \in 1 .. Cardinality(BeginsFrom(s, q))
              /\ Cardinality(UpTo(s, pos, b)) = Cardinality(UpTo(s, q, b)) + 1
<1> DEFINE F == BeginsFrom(s, q)
<1>1. /\ BeginsFrom(s, pos) = F \cup {pos} /\ pos \in Nat
      /\ \A b \in F : b \in Nat /\ b > pos
  BY WordsMore
<1>2. IsFiniteSet(F) /\ Cardinality(F) \in Nat
  BY BeginsFinite
<1> HIDE DEF F
<1>3. pos \notin F
  BY <1>1
<1>4. Cardinality(BeginsFrom(s, pos)) = Cardinality(F) + 1
  BY <1>1, <1>2, <1>3, FS_AddElement
<1>5. Cardinality(UpTo(s, pos, pos)) = 1
  <2>1. \A b \in F : ~(b <= pos)
    BY <1>1
  <2>2. pos <= pos
    BY <1>1
  <2>3. UpTo(s, pos, pos) = {pos}
    BY <1>1, <2>1, <2>2 DEF UpTo
  <2>4. QED
    BY <2>3, FS_Singleton
<1>6. ASSUME NEW b \in F
      PROVE  /\ Cardinality(UpTo(s, q, b)) \in 1 .. Cardinality(F)
             /\ Cardinality(UpTo(s, pos, b)) = Cardinality(UpTo(s, q, b)) + 1
  <2> DEFINE U == UpTo(s, q, b)
  <2>1. U = {i \in F : i <= b}
    BY DEF UpTo, F
  <2>2. b <= b /\ pos <= b
    BY <1>1
  <2>3. b \in U /\ U \in SUBSET F /\ pos \notin U
    BY <1>3, <2>1, <2>2
  <2>4. UpTo(s, pos, b) = U \cup {pos}
    BY <1>1, <2>1, <2>2 DEF UpTo
  <2> HIDE DEF U
  <2>5. IsFiniteSet(U) /\ Cardinality(U) \in Nat /\ Cardinality(U) <= Cardinality(F)
    BY <1>2, <2>3, FS_Subset, FS_CardinalityType
  <2>6. Cardinality(U) # 0
    BY <2>3, <2>5, FS_EmptySet
  <2>7. Cardinality(U \cup {pos}) = Cardinality(U) + 1
    BY <2>3, <2>5, FS_AddElement
  <2>8. QED
    BY <1>2, <2>4, <2>5, <2>6, <2>7 DEF U
<1>7. QED
  BY <1>4, <1>5, <1>6 DEF F

\* The words from a position on.
Words(f, s) ==
  f = [pos \in 0 .. Len(s) |->
         IF pos = Len(s) THEN <<>>
         ELSE <<Substr(s, pos, ToWhite(s, pos + 1))>> \o f[ToDark(s, ToWhite(s, pos + 1))]]
Wording(s) == CHOOSE f : Words(f, s)

LEMMA SplitWSIs ==
  ASSUME NEW s
  PROVE  SplitWS(s) = Wording(s)[ToDark(s, 0)]
BY Zenon DEF SplitWS, Wording, Words, ToWhite, ToDark, SkipWhite

LEMMA WordingIs ==
  ASSUME NEW s, Len(s) \in Nat
  PROVE  Words(Wording(s), s)
<1> DEFINE m == Len(s)
           ended == {m}
           last == [k \in 0 .. m |-> <<>>]
           item == [k \in 0 .. m |-> Substr(s, k, ToWhite(s, k + 1))]
           next == [k \in 0 .. m |-> ToDark(s, ToWhite(s, k + 1))]
<1>1. ASSUME NEW k \in 0 .. m, k \notin ended PROVE next[k] \in k + 1 .. m
  <2> DEFINE e == ToWhite(s, k + 1)
             q == ToDark(s, e)
  <2>1. next[k] = q /\ k # Len(s)
    BY <1>1
  <2> HIDE DEF next
  <2>2. Turn(s, k, e, q)
    BY <2>1, TurnIs
  <2> HIDE DEF e, q
  <2>3. e \in k + 1 .. Len(s) /\ q \in e .. Len(s)
    BY <2>2 DEF Turn
  <2>4. q \in k + 1 .. m
    BY <2>3
  <2>5. QED
    BY <2>1, <2>4
<1>2. \A k \in 0 .. m : /\ k \in ended <=> k = m
                        /\ last[k] = <<>>
                        /\ item[k] = Substr(s, k, ToWhite(s, k + 1))
                        /\ next[k] = ToDark(s, ToWhite(s, k + 1))
  OBVIOUS
<1>3. m \in Nat
  OBVIOUS
<1> HIDE DEF m, ended, last, item, next
<1>4. PICK f : Chain(f, m, ended, last, item, next)
  BY <1>1, <1>3, ChainExists
<1>5. f = [k \in 0 .. m |-> IF k \in ended THEN last[k] ELSE <<item[k]>> \o f[next[k]]]
  BY <1>4 DEF Chain
<1>6. f = [k \in 0 .. m |-> IF k = m THEN <<>>
             ELSE <<Substr(s, k, ToWhite(s, k + 1))>> \o f[ToDark(s, ToWhite(s, k + 1))]]
  BY <1>2, <1>5
<1>7. Words(f, s)
  BY <1>6 DEF Words, m
<1>8. QED
  BY <1>7 DEF Wording

\* What a sequence of words has to be, from position pos on.
WordsFrom(a, C, s, pos) ==
  /\ a \in Seq(Seq(C))
  /\ Len(a) = Cardinality(BeginsFrom(s, pos))
  /\ \A b \in BeginsFrom(s, pos) :
       a[Cardinality(UpTo(s, pos, b))] = Substr(s, b, WordEnd(s, b))

LEMMA NextWords ==
  ASSUME NEW C, NEW s \in Seq(C), NEW pos \in Begins(s), NEW e, NEW q, Turn(s, pos, e, q),
         NEW a, WordsFrom(a, C, s, q)
  PROVE  WordsFrom(<<Substr(s, pos, e)>> \o a, C, s, pos)
<1> DEFINE F == BeginsFrom(s, q)
           p == Substr(s, pos, e)
           b == <<p>> \o a
<1>1. Len(s) \in Nat
  OBVIOUS
<1>2. /\ pos \in 0 .. Len(s) - 1 /\ WordEnd(s, pos) = e
      /\ BeginsFrom(s, pos) = F \cup {pos}
  BY <1>1, WordsMore
<1>3. p \in Seq(C)
  <2>1. e \in pos + 1 .. Len(s)
    BY DEF Turn
  <2>2. e \in 0 .. Len(s) /\ pos \in 0 .. e
    BY <1>1, <1>2, <2>1
  <2>3. QED
    BY <2>2, SubstrIs DEF Part
<1>4. /\ Cardinality(BeginsFrom(s, pos)) = Cardinality(F) + 1
      /\ Cardinality(UpTo(s, pos, pos)) = 1
      /\ \A c \in F : /\ Cardinality(UpTo(s, q, c)) \in 1 .. Cardinality(F)
                      /\ Cardinality(UpTo(s, pos, c)) = Cardinality(UpTo(s, q, c)) + 1
  BY <1>1, RanksMore
<1>5. /\ a \in Seq(Seq(C)) /\ Len(a) = Cardinality(F)
      /\ \A c \in F : a[Cardinality(UpTo(s, q, c))] = Substr(s, c, WordEnd(s, c))
  BY DEF WordsFrom
<1> HIDE DEF p, F
<1>6. /\ b \in Seq(Seq(C)) /\ Len(b) = Len(a) + 1 /\ b[1] = p
      /\ \A k \in 1 .. Len(a) : b[k + 1] = a[k]
  BY <1>3, <1>5, OneAndMore
<1> HIDE DEF b
<1>7. ASSUME NEW c \in F
      PROVE  b[Cardinality(UpTo(s, pos, c))] = Substr(s, c, WordEnd(s, c))
  BY <1>4, <1>5, <1>6
<1>8. b[Cardinality(UpTo(s, pos, pos))] = Substr(s, pos, WordEnd(s, pos))
  BY <1>2, <1>4, <1>6 DEF p
<1>9. WordsFrom(b, C, s, pos)
  BY <1>2, <1>4, <1>5, <1>6, <1>7, <1>8 DEF WordsFrom
<1>10. QED
  BY <1>9 DEF b, p

LEMMA NoWords ==
  ASSUME NEW C, NEW s \in Seq(C)
  PROVE  WordsFrom(<<>>, C, s, Len(s))
<1>1. ASSUME NEW b \in BeginsFrom(s, Len(s)) PROVE FALSE
  <2>1. b \in 0 .. Len(s) - 1 /\ Len(s) <= b /\ Len(s) \in Nat
    BY DEF BeginsFrom, Begins, Dark
  <2>2. QED
    BY <2>1
<1>2. BeginsFrom(s, Len(s)) = {}
  BY <1>1
<1>3. <<>> \in Seq(Seq(C)) /\ Len(<<>>) = 0
  OBVIOUS
<1>4. Cardinality({}) = 0
  BY FS_EmptySet
<1>5. QED
  BY <1>2, <1>3, <1>4 DEF WordsFrom

LEMMA WordsAre ==
  ASSUME NEW C, NEW s \in Seq(C)
  PROVE  WordsFrom(SplitWS(s), C, s, 0)
<1> DEFINE n == Len(s)
           W == Wording(s)
           P == {k \in 0 .. n : k \in Begins(s) \cup {n} => WordsFrom(W[k], C, s, k)}
<1>1. n \in Nat
  OBVIOUS
<1>2. \A k \in 0 .. n : W[k] = IF k = n THEN <<>>
        ELSE <<Substr(s, k, ToWhite(s, k + 1))>> \o W[ToDark(s, ToWhite(s, k + 1))]
  BY <1>1, WordingIs DEF Words
<1> HIDE DEF W
<1>3. ASSUME NEW k \in 0 .. n, \A j \in k + 1 .. n : j \in P, k \in Begins(s) \cup {n}
      PROVE  WordsFrom(W[k], C, s, k)
  <2>1. CASE k = n
    <3>1. n \in 0 .. n
      BY <1>1
    <3>2. W[k] = <<>>
      BY <1>2, <2>1
    <3>3. QED
      BY <2>1, <3>2, NoWords
  <2>2. CASE k # n
    <3> DEFINE e == ToWhite(s, k + 1)
               q == ToDark(s, e)
    <3>1. Turn(s, k, e, q)
      BY <1>1, <2>2, TurnIs
    <3>2. W[k] = <<Substr(s, k, e)>> \o W[q]
      BY <1>2, <2>2
    <3> HIDE DEF e, q
    <3>3. k \in Begins(s)
      BY <1>3, <2>2
    <3>4. q \in k + 1 .. n /\ q \in Begins(s) \cup {n}
      BY <1>1, <3>1, <3>3, WordsMore
    <3>5. WordsFrom(W[q], C, s, q)
      BY <1>3, <3>4
    <3> HIDE DEF n
    <3>6. WordsFrom(<<Substr(s, k, e)>> \o W[q], C, s, k)
      BY <3>1, <3>3, <3>5, NextWords
    <3>7. QED
      BY <3>2, <3>6
  <2>3. QED
    BY <2>1, <2>2
<1>4. ASSUME NEW k \in 0 .. n, \A j \in k + 1 .. n : j \in P
      PROVE  k \in P
  BY <1>3, <1>4
<1> DEFINE q == ToDark(s, 0)
<1>5. q \in 0 .. n /\ (q = n \/ Dark(s, q)) /\ \A j \in 0 .. q - 1 : ~ Dark(s, j)
  <2>1. 0 \in 0 .. Len(s)
    OBVIOUS
  <2>2. QED
    BY <1>1, <2>1, NextDarkIs
<1> HIDE DEF P, q
<1>6. q \in P
  BY <1>1, <1>4, <1>5, Downward
<1>7. q \in Begins(s) \cup {n}
  <2>1. ~ Dark(s, q - 1)
    <3>1. q - 1 \in 0 .. q - 1 \/ q - 1 \notin 0 .. n - 1
      BY <1>1, <1>5
    <3>2. QED
      BY <1>5, <3>1 DEF Dark
  <2>2. QED
    BY <1>5, <2>1 DEF Begins
<1>8. WordsFrom(W[q], C, s, q)
  BY <1>6, <1>7 DEF P
<1>9. \A b \in Begins(s) : q <= b /\ 0 <= b
  <2>1. ASSUME NEW b \in Begins(s) PROVE q <= b /\ 0 <= b
    <3>1. b \in Nat /\ Dark(s, b)
      BY DEF Begins
    <3>2. b \notin 0 .. q - 1
      BY <1>5, <3>1
    <3>3. q \in Nat
      BY <1>5
    <3>4. QED
      BY <3>1, <3>2, <3>3
  <2>2. QED
    BY <2>1
<1>10. BeginsFrom(s, q) = BeginsFrom(s, 0)
  BY <1>9 DEF BeginsFrom
<1>11. SplitWS(s) = W[q]
  BY SplitWSIs DEF W, q
<1>12. QED
  BY <1>8, <1>10, <1>11 DEF WordsFrom, UpTo

-----------------------------------------------------------------------------
(* Slice: counting by steps.                                               *)

LEMMA Remainders ==
  ASSUME NEW d \in Nat \ {0}, NEW x \in Int
  PROVE  x % d \in 0 .. d - 1 /\ x \div d \in Int /\ x = d * (x \div d) + (x % d)
  OBVIOUS

LEMMA OneRemainder ==
  ASSUME NEW d \in Nat \ {0}, NEW p \in Int, NEW q \in Int,
         NEW r \in 0 .. d - 1, NEW t \in 0 .. d - 1, d * p + r = d * q + t
  PROVE  p = q /\ r = t
<1>1. p = q
  OBVIOUS
<1>2. QED
  BY <1>1

LEMMA TimesKeepsOrder ==
  ASSUME NEW d \in Nat \ {0}, NEW p \in Int, NEW q \in Int
  PROVE  p <= q <=> d * p <= d * q
  OBVIOUS

LEMMA MultipleIs ==
  ASSUME NEW d \in Nat \ {0}, NEW p \in Int
  PROVE  d * p \in Int /\ (d * p) % d = 0
<1>1. d * p \in Int /\ 0 \in 0 .. d - 1 /\ d * p = d * p + 0
  OBVIOUS
<1> DEFINE x == d * p
<1> HIDE DEF x
<1>2. x \in Int /\ x = d * p + 0
  BY <1>1 DEF x
<1>3. x % d \in 0 .. d - 1 /\ x \div d \in Int /\ x = d * (x \div d) + (x % d)
  BY <1>2, Remainders
<1>4. x % d = 0
  BY <1>1, <1>2, <1>3, OneRemainder
<1>5. QED
  BY <1>1, <1>4 DEF x

\* Remainders do not see multiples.
LEMMA RemainderKept ==
  ASSUME NEW d \in Nat \ {0}, NEW x \in Int, NEW p \in Int, NEW y \in Int, y = x + d * p
  PROVE  y % d = x % d
<1>1. x % d \in 0 .. d - 1 /\ x \div d \in Int /\ x = d * (x \div d) + (x % d)
  BY Remainders
<1>2. y % d \in 0 .. d - 1 /\ y \div d \in Int /\ y = d * (y \div d) + (y % d)
  BY Remainders
<1> DEFINE u == x \div d
           v == y \div d
<1>3. u \in Int /\ v \in Int /\ x = d * u + (x % d) /\ y = d * v + (y % d)
  BY <1>1, <1>2
<1> HIDE DEF u, v
<1>4. u + p \in Int /\ d * (u + p) = d * u + d * p /\ d * u \in Int /\ d * p \in Int
  BY <1>3
<1>5. d * v + (y % d) = d * (u + p) + (x % d)
  BY <1>1, <1>3, <1>4
<1> DEFINE r == x % d
           w == y % d
           z == u + p
<1>6. r \in 0 .. d - 1 /\ w \in 0 .. d - 1 /\ z \in Int /\ d * v + w = d * z + r
  BY <1>1, <1>2, <1>4, <1>5
<1> HIDE DEF r, w, z
<1>7. \A a, b \in Int, k, l \in 0 .. d - 1 : d * a + k = d * b + l => k = l
  BY OneRemainder
<1>8. w = r
  BY <1>3, <1>6, <1>7
<1>9. QED
  BY <1>8 DEF r, w

LEMMA SameRemainder ==
  ASSUME NEW d \in Nat \ {0}, NEW x \in Int, NEW y \in Int, \E p \in Int : y = x + d * p
  PROVE  y % d = x % d
<1>1. PICK p \in Int : y = x + d * p
  OBVIOUS
<1>2. QED
  BY <1>1, RemainderKept

\* A remainder of 0 is a multiple.
LEMMA NoRemainder ==
  ASSUME NEW d \in Nat \ {0}, NEW x \in Int, x % d = 0
  PROVE  x \div d \in Int /\ x = d * (x \div d)
<1>1. x \div d \in Int /\ x = d * (x \div d) + 0
  BY Remainders
<1>2. QED
  BY <1>1

\* How many steps there are.
Number(from, to, step) == IF from < to THEN (to - from + step - 1) \div step ELSE 0

LEMMA NumberIs ==
  ASSUME NEW from \in Int, NEW to \in Int, NEW d \in Nat \ {0}, from < to,
         NEW m, m = Number(from, to, d)
  PROVE  m \in Nat \ {0} /\ d * (m - 1) < to - from /\ to - from <= d * m
<1> DEFINE x == to - from + d - 1
<1>1. x \in Int /\ x >= d /\ m = x \div d
  BY DEF Number
<1> HIDE DEF x
<1>2. m \in Int /\ x % d \in 0 .. d - 1 /\ x = d * m + (x % d)
  BY <1>1, Remainders
<1>3. d * m \in Int /\ d * (m - 1) = d * m - d
  BY <1>2
<1>4. d * m <= x /\ x <= d * m + d - 1
  BY <1>2, <1>3
<1>5. m >= 1
  <2>1. ASSUME m <= 0 PROVE FALSE
    <3>1. d * m <= 0
      BY <1>2, <2>1
    <3>2. QED
      BY <1>1, <1>3, <1>4, <3>1
  <2>2. QED
    BY <1>2, <2>1
<1>6. d * (m - 1) < to - from /\ to - from <= d * m
  BY <1>3, <1>4 DEF x
<1>7. QED
  BY <1>2, <1>5, <1>6

Ascending(c) == \A k \in 2 .. Len(c) : c[k - 1] < c[k]
Stepped(from, to, d) == {i \in from .. to - 1 : (i - from) % d = 0}

LEMMA CountIs ==
  ASSUME NEW from \in Int, NEW to \in Int, NEW d \in Nat \ {0}
  PROVE  /\ Count(from, to, d) \in Seq(Int) /\ Ascending(Count(from, to, d))
         /\ ToSet(Count(from, to, d)) = Stepped(from, to, d)
<1> DEFINE m == Number(from, to, d)
           c == Count(from, to, d)
<1>1. c = [k \in 1 .. m |-> from + (k - 1) * d]
  BY DEF Count, Number
<1>2. m \in Nat
  <2>1. CASE from < to
    BY <2>1, NumberIs
  <2>2. CASE ~(from < to)
    BY <2>2 DEF Number
  <2>3. QED
    BY <2>1, <2>2
<1> HIDE DEF c, m
<1>3. \A k \in 1 .. m : (k - 1) * d = d * (k - 1) /\ d * (k - 1) \in Int
  BY <1>2
<1>4. \A k \in 1 .. m : c[k] = from + d * (k - 1)
  BY <1>1, <1>3
<1>5. \A k \in 1 .. m : from + (k - 1) * d \in Int
  BY <1>3
<1>6. c \in Seq(Int) /\ Len(c) = m /\ DOMAIN c = 1 .. m
  BY <1>1, <1>2, <1>5
<1>7. Ascending(c)
  <2>1. ASSUME NEW k \in 2 .. m PROVE c[k - 1] < c[k]
    <3>1. k \in 1 .. m /\ k - 1 \in 1 .. m /\ k \in Int
      BY <1>2
    <3>2. d * ((k - 1) - 1) = d * (k - 1) - d
      BY <3>1
    <3>3. c[k] = from + d * (k - 1) /\ c[k - 1] = from + d * ((k - 1) - 1) /\ d * (k - 1) \in Int
      BY <1>3, <1>4, <3>1
    <3>4. QED
      BY <3>2, <3>3
  <2>2. QED
    BY <1>6, <2>1 DEF Ascending
<1>8. ASSUME NEW i \in ToSet(c) PROVE i \in Stepped(from, to, d)
  <2>1. PICK k \in 1 .. m : i = c[k]
    BY <1>6 DEF ToSet
  <2>2. i = from + d * (k - 1) /\ d * (k - 1) \in Int /\ k \in Int /\ 1 <= k /\ k <= m
    BY <1>2, <1>3, <1>4, <2>1
  <2>3. from < to
    BY <2>2 DEF m, Number
  <2>4. m \in Nat \ {0} /\ d * (m - 1) < to - from
    BY <2>3, NumberIs DEF m
  <2>5. 0 <= k - 1 /\ k - 1 <= m - 1 /\ k - 1 \in Int /\ m - 1 \in Int
    BY <2>2, <2>4
  <2>6. d * 0 <= d * (k - 1) /\ d * (k - 1) <= d * (m - 1) /\ d * (m - 1) \in Int
    BY <2>5, TimesKeepsOrder
  <2>7. i \in from .. to - 1 /\ i - from = d * (k - 1)
    BY <2>2, <2>4, <2>6
  <2>8. (d * (k - 1)) % d = 0
    BY <2>5, MultipleIs
  <2>9. QED
    BY <2>7, <2>8 DEF Stepped
<1>9. ASSUME NEW i \in Stepped(from, to, d) PROVE i \in ToSet(c)
  <2>1. i \in from .. to - 1 /\ i \in Int /\ (i - from) % d = 0 /\ i - from \in Int
    BY DEF Stepped
  <2> DEFINE q == (i - from) \div d
  <2>2. q \in Int /\ i - from = d * q
    BY <2>1, NoRemainder
  <2>3. from < to
    BY <2>1
  <2>4. m \in Nat \ {0} /\ to - from <= d * m /\ d * m \in Int
    BY <2>3, NumberIs DEF m
  <2> HIDE DEF q
  <2>5. d * 0 <= d * q /\ ~(d * m <= d * q)
    BY <2>1, <2>2, <2>4
  <2>6. 0 <= q /\ ~(m <= q)
    BY <2>2, <2>4, <2>5, TimesKeepsOrder
  <2>7. q + 1 \in 1 .. m /\ (q + 1) - 1 = q
    BY <2>2, <2>4, <2>6
  <2>8. c[q + 1] = from + d * q
    BY <1>4, <2>7
  <2>9. i = c[q + 1]
    BY <2>1, <2>2, <2>8
  <2>10. QED
    BY <1>6, <2>7, <2>9 DEF ToSet
<1>10. ToSet(c) = Stepped(from, to, d)
  BY <1>8, <1>9
<1>11. QED
  BY <1>6, <1>7, <1>10 DEF c

-----------------------------------------------------------------------------
(* Slice: the two directions.                                              *)

\* Where ClampToLong begins to be wrong.
LEMMA FarBelowIs ==
  BigIntOfLongMin \in Int /\ LongMin < BigIntOfLongMin /\ BigIntOfLongMin < 0
<1>1. LongMax \in Nat /\ LongMax >= 7
  BY StringsAssumption
<1>2. QED
  BY <1>1 DEF BigIntOfLongMin, LongMin

LEMMA ClampIs ==
  ASSUME NEW x \in Int
  PROVE  /\ BigIntOfLongMin < x /\ x <= LongMax =>
              ClampToLong(x) = x /\ Long(ClampToLong(x) - 1) = x - 1
         /\ ClampToLong(x) \in Int
         /\ x > 0 => ClampToLong(x) \in Nat \ {0}
<1>1. LongMax \in Nat \ {0}
  BY StringsAssumption
<1>2. LongMin \in Int /\ LongMin = - LongMax - 1 /\ LongMin < 0
  BY <1>1 DEF LongMin
<1>0. BigIntOfLongMin \in Int /\ LongMin < BigIntOfLongMin /\ BigIntOfLongMin < 0
  BY FarBelowIs
<1>3. ASSUME BigIntOfLongMin < x, x <= LongMax PROVE ClampToLong(x) = x
  BY <1>0, <1>1, <1>3 DEF ClampToLong
<1>4. ASSUME LongMin < x, x <= LongMax PROVE Long(x - 1) = x - 1
  <2> DEFINE d == 2 * LongMax + 2
             y == x - 1 - LongMin
  <2>1. d \in Nat \ {0} /\ y \in 0 .. d - 1 /\ y \in Int
    BY <1>1, <1>2, <1>4
  <2>2. (x - 1) - LongMin = y
    BY <1>2
  <2>3. y + LongMin = x - 1
    BY <1>2
  <2>4. Long(x - 1) = (y % d) + LongMin
    <3> HIDE DEF y
    <3>1. QED
      BY <2>2 DEF Long
  <2> HIDE DEF y, d
  <2>5. y % d \in 0 .. d - 1 /\ y \div d \in Int /\ y = d * (y \div d) + (y % d)
    BY <2>1, Remainders
  <2>6. y = d * 0 + y
    BY <2>1
  <2>7. y % d = y
    BY <2>1, <2>5, <2>6, OneRemainder
  <2>8. QED
    BY <2>3, <2>4, <2>7
<1>5. ClampToLong(x) \in Int /\ (x > 0 => ClampToLong(x) \in Nat \ {0})
  BY <1>0, <1>1, <1>2 DEF ClampToLong
<1>6. QED
  BY <1>0, <1>2, <1>3, <1>4, <1>5

\* All positions of a sequence are characters of a string with n of them.
Within(read, n) == \A k \in DOMAIN read : read[k] \in 0 .. n - 1

LEMMA DownStaysInside ==
  ASSUME NEW n \in Nat, NEW start \in Int, NEW stop \in Int, NEW step \in Int, step < 0
  PROVE  Within(SliceDown(n, start, stop, step), n)
<1>1. CASE start <= 0 \/ stop >= start
  <2>1. SliceDown(n, start, stop, step) = <<>>
    BY <1>1 DEF SliceDown
  <2>2. DOMAIN <<>> = {}
    OBVIOUS
  <2>3. QED
    BY <2>1, <2>2 DEF Within
<1>2. CASE ~(start <= 0 \/ stop >= start)
  <2> DEFINE lstop == Largest(0, ClampToLong(stop)) - 1
             by == ClampToLong(- step)
             down == Count(0, n - 2 - lstop, by)
             read == [k \in DOMAIN down |-> n - 2 - down[k]]
  <2>1. SliceDown(n, start, stop, step) = read
    BY <1>2 DEF SliceDown
  <2>2. by \in Nat \ {0}
    <3>1. - step \in Int /\ - step > 0
      OBVIOUS
    <3>2. QED
      BY <3>1, ClampIs
  <2>3. lstop \in Int /\ lstop >= -1
    <3>1. ClampToLong(stop) \in Int
      BY ClampIs
    <3>2. QED
      BY <3>1 DEF Largest
  <2> HIDE DEF by, lstop
  <2> DEFINE to == n - 2 - lstop
  <2>4. to \in Int /\ 0 \in Int /\ to = n - 2 - lstop
    BY <2>3
  <2> HIDE DEF to
  <2>5. down = Count(0, to, by)
    BY DEF to
  <2> HIDE DEF down
  <2>6. ToSet(down) = Stepped(0, to, by)
    BY <2>2, <2>4, <2>5, CountIs
  <2>7. ASSUME NEW k \in DOMAIN down PROVE read[k] \in 0 .. n - 1
    <3>1. down[k] \in ToSet(down)
      BY DEF ToSet
    <3>2. down[k] \in 0 .. to - 1
      BY <2>6, <3>1 DEF Stepped
    <3>3. n - 2 - down[k] \in 0 .. n - 1
      BY <2>3, <2>4, <3>2
    <3>4. QED
      BY <3>3
  <2>8. DOMAIN read = DOMAIN down
    OBVIOUS
  <2> HIDE DEF read
  <2>9. QED
    BY <2>1, <2>7, <2>8 DEF Within
<1>3. QED
  BY <1>1, <1>2

\* What a slice upwards has to take.
Taken(n, start, stop, step) ==
  {i \in 0 .. n - 1 : (i + 1 - start) % step = 0 /\ start <= i + 1 /\ i + 1 < stop}

\* The first position: a start before the string is moved up by steps.
FirstAt(first, n, start, step) ==
  /\ first \in Nat
  /\ start >= 1 => first = start - 1
  /\ \A i \in 0 .. n - 1 :
       (i + 1 - start) % step = 0 /\ start <= i + 1 <=> (i - first) % step = 0 /\ first <= i

LEMMA FirstIs ==
  ASSUME NEW n \in Nat, NEW start \in Int, NEW step \in Nat \ {0},
         NEW first, first = FirstFrom(start, step)
  PROVE  FirstAt(first, n, start, step)
<1>1. CASE start >= 1
  <2>1. first = start - 1
    BY <1>1 DEF FirstFrom
  <2>2. first \in Nat
    BY <1>1, <2>1
  <2>3. ASSUME NEW i \in 0 .. n - 1
        PROVE  i + 1 - start = i - first /\ (start <= i + 1 <=> first <= i)
    BY <2>1
  <2>4. QED
    BY <2>1, <2>2, <2>3 DEF FirstAt
<1>2. CASE ~(start >= 1)
  <2> DEFINE q == (start - 1) \div step
  <2>1. first = (start - 1) % step /\ start - 1 \in Int
    BY <1>2 DEF FirstFrom
  <2>2. first \in 0 .. step - 1 /\ q \in Int /\ start - 1 = step * q + first
    BY <2>1, Remainders
  <2> HIDE DEF q
  <2>3. first \in Nat /\ first < step /\ step * q \in Int
    BY <2>2
  <2>4. ASSUME NEW i \in 0 .. n - 1
        PROVE  (i + 1 - start) % step = (i - first) % step
    <3> DEFINE x == i - first
               y == i + 1 - start
               t == 0 - q
    <3>1. step * t = 0 - step * q /\ t \in Int
      BY <2>2
    <3>2. x \in Int /\ y \in Int /\ y = x - step * q
      BY <2>2, <2>3
    <3> HIDE DEF x, y, t
    <3>3. y = x + step * t
      BY <2>3, <3>1, <3>2
    <3>4. \E p \in Int : y = x + step * p
      BY <3>1, <3>3
    <3>5. y % step = x % step
      BY <3>2, <3>4, SameRemainder
    <3>6. QED
      BY <3>5 DEF x, y
  <2>5. ASSUME NEW i \in 0 .. n - 1, (i - first) % step = 0
        PROVE  first <= i
    <3> DEFINE p == (i - first) \div step
    <3>1. i - first \in Int /\ i \in Nat
      BY <2>3
    <3>2. p \in Int /\ i - first = step * p
      BY <2>5, <3>1, NoRemainder
    <3> HIDE DEF p
    <3>3. step * (-1) = - step /\ ~(step * p <= step * (-1))
      BY <2>3, <3>1, <3>2
    <3>4. ~(p <= -1)
      BY <3>2, <3>3, TimesKeepsOrder
    <3>5. step * 0 <= step * p
      BY <3>2, <3>4, TimesKeepsOrder
    <3>6. QED
      BY <2>3, <3>1, <3>2, <3>5
  <2>6. \A i \in 0 .. n - 1 : start <= i + 1
    BY <1>2
  <2>7. ASSUME NEW i \in 0 .. n - 1
        PROVE  (i + 1 - start) % step = 0 /\ start <= i + 1 <=> (i - first) % step = 0 /\ first <= i
    BY <2>4, <2>5, <2>6
  <2>8. QED
    BY <1>2, <2>3, <2>7 DEF FirstAt
<1>3. QED
  BY <1>1, <1>2

\* A step beyond the length, that takes a character behind stop.
OverTheEnd(read, n, stop, step) == step > n /\ read # <<>> /\ At(read, 0) >= EndAt(n, stop)
UpIs(read, n, start, stop, step) ==
  /\ Within(read, n)
  /\ ~ OverTheEnd(read, n, stop, step) =>
       ToSet(read) = Taken(n, start, stop, step) /\ Ascending(read)

LEMMA NothingUp ==
  ASSUME NEW n, NEW start, NEW stop, NEW step, Taken(n, start, stop, step) = {}
  PROVE  UpIs(<<>>, n, start, stop, step)
<1>1. DOMAIN <<>> = {} /\ Len(<<>>) = 0
  OBVIOUS
<1>2. ToSet(<<>>) = {}
  BY <1>1 DEF ToSet
<1>3. 2 .. 0 = {}
  OBVIOUS
<1>4. QED
  BY <1>1, <1>2, <1>3 DEF UpIs, Within, Ascending

LEMMA EndIs ==
  ASSUME NEW n \in Nat, n <= LongMax, NEW stop \in Int, stop > BigIntOfLongMin
  PROVE  /\ EndAt(n, stop) \in Int /\ EndAt(n, stop) <= n
         /\ \A i \in 0 .. n - 1 : i + 1 < stop <=> i < EndAt(n, stop)
<1>1. CASE stop > n
  <2>1. EndAt(n, stop) = n
    BY <1>1 DEF EndAt
  <2>2. \A i \in 0 .. n - 1 : i + 1 < stop /\ i < n
    BY <1>1
  <2>3. QED
    BY <2>1, <2>2
<1>2. CASE ~(stop > n)
  <2>1. LongMax \in Nat /\ BigIntOfLongMin \in Int
    BY StringsAssumption, FarBelowIs
  <2>2. stop <= LongMax /\ BigIntOfLongMin < stop
    BY <1>2, <2>1
  <2>3. EndAt(n, stop) = stop - 1
    BY <1>2, <2>2, ClampIs DEF EndAt
  <2>4. \A i \in 0 .. n - 1 : i + 1 < stop <=> i < stop - 1
    OBVIOUS
  <2>5. stop - 1 \in Int /\ stop - 1 <= n
    BY <1>2
  <2>6. QED
    BY <2>3, <2>4, <2>5
<1>3. QED
  BY <1>1, <1>2

\* The slice from a first position that is in the string.
LEMMA SomethingUp ==
  ASSUME NEW n \in Nat, n <= LongMax, NEW start \in Int, NEW stop \in Int, stop > BigIntOfLongMin,
         NEW step \in Nat \ {0}, NEW first \in 0 .. n - 1, first = FirstFrom(start, step)
  PROVE  UpIs(IF step > n THEN <<ClampToLong(first)>>
              ELSE Count(ClampToLong(first), EndAt(n, stop), ClampToLong(step)), n, start, stop, step)
<1> DEFINE end == EndAt(n, stop)
           T == Taken(n, start, stop, step)
<1>1. LongMax \in Nat /\ BigIntOfLongMin \in Int /\ BigIntOfLongMin < 0
  BY StringsAssumption, FarBelowIs
<1>2. first \in Nat /\ first < n
  OBVIOUS
<1>3. ClampToLong(first) = first
  BY <1>1, <1>2, ClampIs
<1>4. end \in Int /\ end <= n /\ \A i \in 0 .. n - 1 : i + 1 < stop <=> i < end
  BY EndIs
<1>5. \A i \in 0 .. n - 1 :
        (i + 1 - start) % step = 0 /\ start <= i + 1 <=> (i - first) % step = 0 /\ first <= i
  <2>1. FirstAt(first, n, start, step)
    BY FirstIs
  <2>2. QED
    BY <2>1 DEF FirstAt
<1> HIDE DEF end
<1>6. T = {i \in 0 .. n - 1 : (i - first) % step = 0 /\ first <= i /\ i < end}
  <2>1. \A i \in 0 .. n - 1 :
           /\ (i + 1 - start) % step = 0 /\ start <= i + 1 /\ i + 1 < stop
           <=> (i - first) % step = 0 /\ first <= i /\ i < end
    BY <1>4, <1>5
  <2>2. QED
    BY <2>1 DEF Taken
<1> HIDE DEF T
<1>7. CASE step > n
  <2> DEFINE read == <<first>>
  <2>1. read \in Seq(Nat) /\ Len(read) = 1 /\ read[1] = first /\ DOMAIN read = {1} /\ read # <<>>
    BY <1>2
  <2>2. At(read, 0) = first
    BY <2>1 DEF At
  <2> HIDE DEF read
  <2>3. ToSet(read) = {first} /\ Within(read, n)
    BY <1>2, <2>1 DEF ToSet, Within
  <2>4. Ascending(read)
    <3>1. 2 .. 1 = {}
      OBVIOUS
    <3>2. QED
      BY <2>1, <3>1 DEF Ascending
  <2>5. ASSUME ~ OverTheEnd(read, n, stop, step) PROVE T = {first}
    <3>1. ~(first >= end)
      BY <1>7, <2>1, <2>2, <2>5 DEF OverTheEnd, end
    <3>2. first < end /\ first <= first /\ first - first = 0 /\ first \in 0 .. n - 1
      BY <1>2, <1>4, <3>1
    <3>3. 0 % step = 0
      <4>1. step * 0 = 0 /\ (step * 0) % step = 0
        BY MultipleIs
      <4>2. QED
        BY <4>1
    <3>4. first \in T
      BY <1>6, <3>2, <3>3
    <3>5. ASSUME NEW i \in T PROVE i = first
      <4>1. i \in 0 .. n - 1 /\ (i - first) % step = 0 /\ first <= i
        BY <1>6
      <4>2. i - first \in 0 .. step - 1 /\ i - first \in Int
        BY <1>2, <1>7, <4>1
      <4> DEFINE x == i - first
      <4>3. x \in 0 .. step - 1 /\ x \in Int /\ x % step = 0
        BY <4>1, <4>2
      <4> HIDE DEF x
      <4>4. x \div step \in Int /\ x = step * (x \div step)
        BY <4>3, NoRemainder
      <4> DEFINE u == x \div step
      <4>5. u \in Int /\ x = step * u
        BY <4>4
      <4> HIDE DEF u
      <4>6. step * u + 0 = step * 0 + x /\ 0 \in 0 .. step - 1
        BY <4>3, <4>5
      <4>7. \A a, b \in Int, k, l \in 0 .. step - 1 : step * a + k = step * b + l => k = l
        BY OneRemainder
      <4>8. x = 0
        BY <4>3, <4>5, <4>6, <4>7
      <4>9. QED
        BY <1>2, <4>1, <4>8 DEF x
    <3>6. QED
      BY <3>4, <3>5
  <2>6. UpIs(read, n, start, stop, step)
    BY <2>3, <2>4, <2>5 DEF UpIs, T
  <2>7. QED
    BY <1>3, <1>7, <2>6 DEF read
<1>8. CASE ~(step > n)
  <2> DEFINE read == Count(first, end, step)
  <2>1. ClampToLong(step) = step
    <3>1. BigIntOfLongMin < step /\ step <= LongMax
      BY <1>1, <1>8
    <3>2. QED
      BY <3>1, ClampIs
  <2>2. first \in Int /\ end \in Int
    BY <1>2, <1>4
  <2>3. read \in Seq(Int) /\ Ascending(read) /\ ToSet(read) = Stepped(first, end, step)
    BY <2>2, CountIs
  <2> HIDE DEF read
  <2>4. \A i \in first .. end - 1 : i \in 0 .. n - 1 /\ first <= i /\ i < end
    BY <1>2, <1>4
  <2>5. \A i \in 0 .. n - 1 : first <= i /\ i < end => i \in first .. end - 1
    BY <1>2, <1>4
  <2>6. Stepped(first, end, step) = T
    BY <1>6, <2>4, <2>5 DEF Stepped
  <2>7. Within(read, n)
    <3>1. ASSUME NEW k \in DOMAIN read PROVE read[k] \in 0 .. n - 1
      <4>1. read[k] \in ToSet(read)
        BY DEF ToSet
      <4>2. QED
        BY <2>3, <2>4, <4>1 DEF Stepped
    <3>2. QED
      BY <3>1 DEF Within
  <2>8. UpIs(read, n, start, stop, step)
    BY <2>3, <2>6, <2>7 DEF UpIs, T
  <2>9. QED
    BY <1>3, <1>8, <2>1, <2>8 DEF read, end
<1>9. QED
  BY <1>7, <1>8

LEMMA SliceUpIs ==
  ASSUME NEW n \in Nat, n <= LongMax, NEW start \in Int, NEW stop \in Int,
         start < stop => stop > BigIntOfLongMin, NEW step \in Nat \ {0}
  PROVE  UpIs(SliceUp(n, start, stop, step), n, start, stop, step)
<1> DEFINE first == FirstFrom(start, step)
           read == IF step > n THEN <<ClampToLong(first)>>
                   ELSE Count(ClampToLong(first), EndAt(n, stop), ClampToLong(step))
<1>1. SliceUp(n, start, stop, step) =
        IF stop <= start \/ BehindEnd(n, start, first) THEN <<>> ELSE read
  BY DEF SliceUp
<1>2. /\ first \in Nat /\ (start >= 1 => first = start - 1)
      /\ \A i \in 0 .. n - 1 :
           (i + 1 - start) % step = 0 /\ start <= i + 1 => first <= i
  <2> HIDE DEF first
  <2>1. FirstAt(first, n, start, step)
    BY FirstIs DEF first
  <2>2. QED
    BY <2>1 DEF FirstAt
<1>3. first \in 0 .. n - 1 /\ ~(stop <= start) => UpIs(read, n, start, stop, step)
  <2> HIDE DEF first, read
  <2>1. SUFFICES ASSUME first \in 0 .. n - 1, ~(stop <= start)
                 PROVE  UpIs(read, n, start, stop, step)
    OBVIOUS
  <2>4. stop > BigIntOfLongMin
    BY <2>1
  <2>2. first = FirstFrom(start, step)
    BY DEF first
  <2>3. QED
    BY <2>1, <2>2, <2>4, SomethingUp DEF read
<1> HIDE DEF first, read
<1>4. CASE stop <= start \/ BehindEnd(n, start, first)
  <2>1. ASSUME NEW i \in Taken(n, start, stop, step) PROVE FALSE
    <3>1. i \in 0 .. n - 1 /\ i \in Nat /\ start <= i + 1 /\ i + 1 < stop /\ first <= i
      BY <1>2 DEF Taken
    <3>2. ~(stop <= start)
      BY <3>1
    <3>3. BehindEnd(n, start, first)
      BY <1>4, <3>2
    <3>4. start > n \/ first >= n
      BY <3>3 DEF BehindEnd
    <3>5. QED
      BY <1>2, <3>1, <3>4
  <2>2. Taken(n, start, stop, step) = {}
    BY <2>1
  <2>3. QED
    BY <1>1, <1>4, <2>2, NothingUp
<1>5. CASE ~(stop <= start \/ BehindEnd(n, start, first))
  <2>1. start <= n /\ ~(start < 1 /\ first >= n)
    BY <1>5 DEF BehindEnd
  <2>2. first \in 0 .. n - 1
    BY <1>2, <2>1
  <2>3. ~(stop <= start)
    BY <1>5
  <2>4. QED
    BY <1>1, <1>3, <1>5, <2>2, <2>3
<1>6. QED
  BY <1>4, <1>5

-----------------------------------------------------------------------------
(* The program: what array and call are.                                   *)

Unused == call = NoCall /\ value \in Texts \cup Rows
HasSplit ==
  /\ call = [method |-> "Split", this |-> value, sep |-> call.sep]
  /\ value \in Texts /\ call.sep \in Separators
  /\ array = Split(value, call.sep)
HasJoined ==
  /\ call = [method |-> "Join", this |-> call.this, sep |-> call.sep]
  /\ call.this \in Texts /\ call.sep \in Separators
  /\ value = Join(call.sep, Split(call.this, call.sep))
HasWords ==
  /\ call = [method |-> "SplitWS", this |-> value]
  /\ value \in Texts /\ array = SplitWS(value)
HasFailed == call = [method |-> "error"]
HasSlice ==
  /\ call = [method |-> "Slice", this |-> value,
             start |-> call.start, stop |-> call.stop, step |-> call.step, read |-> call.read]
  /\ value \in Rows /\ call.start \in Int /\ call.stop \in Int /\ call.step \in Int /\ call.step # 0
  /\ call.read = Slice(Len(value), call.start, call.stop, call.step)

CallInv == Unused \/ HasSplit \/ HasJoined \/ HasWords \/ HasFailed \/ HasSlice

LEMMA SplitCalled ==
  ASSUME NEW sep \in Separators, value \in Texts, CallSplit(sep)
  PROVE  CallInv'
<1>1. /\ array' = Split(value, sep) /\ value' = value
      /\ call' = [method |-> "Split", this |-> value, sep |-> sep]
  BY DEF CallSplit
<1>2. call'.sep = sep
  BY <1>1
<1>3. HasSplit'
  BY <1>1, <1>2 DEF HasSplit
<1>4. QED
  BY <1>3 DEF CallInv

LEMMA SplitWSCalled ==
  ASSUME value \in Texts, CallSplitWS
  PROVE  CallInv'
<1>1. HasWords'
  BY DEF HasWords, CallSplitWS
<1>2. QED
  BY <1>1 DEF CallInv

LEMMA JoinCalled ==
  ASSUME CallInv, CallJoin
  PROVE  CallInv'
<1>1. /\ call.method = "Split" /\ value' = Join(call.sep, array)
      /\ call' = [call EXCEPT !.method = "Join"]
  BY DEF CallJoin
<1>2. HasSplit
  BY <1>1 DEF CallInv, Unused, HasJoined, HasWords, HasFailed, HasSlice, NoCall
<1>3. call = [method |-> "Split", this |-> value, sep |-> call.sep]
  BY <1>2 DEF HasSplit
<1>4. call' = [method |-> "Join", this |-> value, sep |-> call.sep]
  BY <1>1, <1>3
<1>5. call'.this = value /\ call'.sep = call.sep
  BY <1>4
<1>6. HasJoined'
  BY <1>1, <1>2, <1>4, <1>5 DEF HasJoined, HasSplit
<1>7. QED
  BY <1>6 DEF CallInv

LEMMA SliceCalled ==
  ASSUME NEW start \in Bounds, NEW stop \in Bounds, NEW step \in Steps, value \in Rows,
         CallSlice(start, stop, step)
  PROVE  CallInv'
<1>1. start \in Int /\ stop \in Int /\ step \in Int
  BY StringsAssumption
<1>2. CASE step = 0
  <2>1. HasFailed'
    BY <1>2 DEF CallSlice, HasFailed
  <2>2. QED
    BY <2>1 DEF CallInv
<1>3. CASE step # 0
  <2>1. /\ value' = value
        /\ call' = [method |-> "Slice", this |-> value, start |-> start, stop |-> stop,
                    step |-> step, read |-> Slice(Len(value), start, stop, step)]
    BY <1>3 DEF CallSlice
  <2>2. /\ call'.start = start /\ call'.stop = stop /\ call'.step = step
        /\ call'.read = Slice(Len(value), start, stop, step)
    BY <2>1
  <2>3. HasSlice'
    BY <1>1, <1>3, <2>1, <2>2 DEF HasSlice
  <2>4. QED
    BY <2>3 DEF CallInv
<1>4. QED
  BY <1>2, <1>3

LEMMA CallsKeep == CallInv /\ [Next]_vars => CallInv'
<1> SUFFICES ASSUME CallInv, [Next]_vars PROVE CallInv'
  OBVIOUS
<1>1. CASE value \in Texts /\ (CallSplitWS \/ \E sep \in Separators : CallSplit(sep))
  BY <1>1, SplitCalled, SplitWSCalled
<1>2. CASE CallJoin
  BY <1>2, JoinCalled
<1>3. CASE value \in Rows /\ \E start, stop \in Bounds, step \in Steps : CallSlice(start, stop, step)
  BY <1>3, SliceCalled
<1>4. CASE UNCHANGED vars
  BY <1>4 DEF vars, CallInv, Unused, HasSplit, HasJoined, HasWords, HasFailed, HasSlice, NoCall
<1>5. QED
  BY Zenon, <1>1, <1>2, <1>3, <1>4 DEF Next

\* What the invariant says of each method.
LEMMA WhatWasCalled ==
  ASSUME CallInv
  PROVE  /\ call.method = "Split" => HasSplit
         /\ call.method = "Join" => HasJoined
         /\ call.method = "SplitWS" => HasWords
         /\ call.method = "Slice" => HasSlice
BY DEF CallInv, Unused, HasSplit, HasJoined, HasWords, HasFailed, HasSlice, NoCall

-----------------------------------------------------------------------------
(* The properties.                                                         *)

LEMMA ArgumentsAre ==
  /\ \A s \in Texts \cup Separators \cup Rows : s \in Seq(Characters) /\ Len(s) \in Nat
  /\ \A s \in Rows : Len(s) <= LongMax
<1>1. \A s \in Texts \cup Separators \cup Rows : s \in Seq(Characters)
  BY StringsAssumption
<1>2. \A s \in Seq(Characters) : Len(s) \in Nat
  BY LenProperties
<1>3. QED
  BY <1>1, <1>2, StringsAssumption

\* Pieces of a separator that the promise covers.
LEMMA ShortSeparator ==
  ASSUME "long_separator" \notin Constructs, Promised, call.method \in {"Split", "Join"},
         call.sep \in Separators
  PROVE  call.sep = <<>> \/ Len(call.sep) = 1
<1>1. Oddities = IF Len(call.sep) > 1 THEN {"long_separator"} ELSE {}
  BY DEF Oddities
<1>2. ~(Len(call.sep) > 1)
  BY <1>1 DEF Promised
<1>3. call.sep \in Seq(Characters) /\ Len(call.sep) \in Nat
  BY ArgumentsAre
<1>4. ASSUME NEW s \in Seq(Characters), Len(s) = 0 PROVE s = <<>>
  BY <1>4
<1>5. Len(call.sep) = 0 \/ Len(call.sep) = 1
  <2> DEFINE N == Len(call.sep)
  <2>1. N \in Nat /\ ~(N > 1)
    BY <1>2, <1>3
  <2> HIDE DEF N
  <2>2. N = 0 \/ N = 1
    BY <2>1
  <2>3. QED
    BY <2>2 DEF N
<1>6. QED
  BY <1>3, <1>4, <1>5

LEMMA SplitsRight ==
  ASSUME CallInv, "long_separator" \notin Constructs
  PROVE  SplitIsRight
<1> SUFFICES ASSUME call.method = "Split", Promised
             PROVE  IF call.sep = <<>> THEN array = [i \in DOMAIN value |-> <<value[i]>>]
                    ELSE SplitResult(value, call.sep, array)
  BY DEF SplitIsRight, SplitResult
<1>1. value \in Texts /\ call.sep \in Separators /\ array = Split(value, call.sep)
  BY WhatWasCalled DEF HasSplit
<1>2. value \in Seq(Characters) /\ call.sep \in Seq(Characters)
  BY <1>1, ArgumentsAre
<1>3. call.sep = <<>> \/ Len(call.sep) = 1
  BY <1>1, ShortSeparator
<1>4. CASE call.sep = <<>>
  BY <1>1, <1>2, <1>4, SplitByNothing
<1>5. CASE call.sep # <<>>
  BY <1>1, <1>2, <1>3, <1>5, SplitByOne
<1>6. QED
  BY <1>4, <1>5

LEMMA JoinsRight ==
  ASSUME CallInv, "long_separator" \notin Constructs
  PROVE  JoinUndoesSplit
<1> SUFFICES ASSUME call.method = "Join", Promised PROVE value = call.this
  BY DEF JoinUndoesSplit
<1>1. /\ call.this \in Texts /\ call.sep \in Separators
      /\ value = Join(call.sep, Split(call.this, call.sep))
  BY WhatWasCalled DEF HasJoined
<1>2. call.this \in Seq(Characters) /\ call.sep \in Seq(Characters)
  BY <1>1, ArgumentsAre
<1>3. call.sep = <<>> \/ Len(call.sep) = 1
  BY <1>1, ShortSeparator
<1>4. CASE call.sep = <<>>
  BY <1>1, <1>2, <1>4, SplitByNothing
<1>5. CASE Len(call.sep) = 1
  BY <1>1, <1>2, <1>5, SplitByOne DEF SplitResult
<1>6. QED
  BY <1>3, <1>4, <1>5

LEMMA WordsRight == CallInv => WordsAreRight
<1> SUFFICES ASSUME CallInv, call.method = "SplitWS" PROVE WordsAreRight
  BY DEF WordsAreRight
<1>1. value \in Texts /\ array = SplitWS(value)
  BY WhatWasCalled DEF HasWords
<1>2. value \in Seq(Characters) /\ Len(value) \in Nat
  BY <1>1, ArgumentsAre
<1>3. WordsFrom(array, Characters, value, 0)
  BY <1>1, <1>2, WordsAre
<1>4. \A b \in Begins(value) : 0 <= b
  BY <1>2 DEF Begins
<1>5. BeginsFrom(value, 0) = Begins(value)
  BY <1>4 DEF BeginsFrom
<1>6. /\ Len(array) = Cardinality(Begins(value))
      /\ \A b \in Begins(value) :
           array[Cardinality({i \in Begins(value) : i <= b})] = Substr(value, b, WordEnd(value, b))
  BY <1>3, <1>5 DEF WordsFrom, UpTo
<1>7. QED
  BY Zenon, <1>6 DEF WordsAreRight, Begins, WordEnd, Dark

LEMMA SlicesRight ==
  ASSUME CallInv,
         {"step_down", "step_over_the_end", "stop_far_below"} \cap Constructs = {}
  PROVE  SliceIsRight
<1> SUFFICES ASSUME call.method = "Slice", Promised
             PROVE  call.step > 0 /\ ToSet(call.read) = Taken(Len(value), call.start, call.stop, call.step)
                    /\ Ascending(call.read)
  <2>1. call.step > 0 /\ call.step \in Int => ~(call.step < 0)
    OBVIOUS
  <2>2. call.method = "Slice" => call.step \in Int
    BY WhatWasCalled DEF HasSlice
  <2>3. QED
    BY <2>1, <2>2 DEF SliceIsRight, Taken, Ascending
<1> DEFINE n == Len(value)
<1>1. /\ value \in Rows /\ call.start \in Int /\ call.stop \in Int /\ call.step \in Int
      /\ call.step # 0 /\ call.read = Slice(n, call.start, call.stop, call.step)
      /\ call.this = value
  BY WhatWasCalled DEF HasSlice
<1>2. n \in Nat /\ n <= LongMax
  BY <1>1, ArgumentsAre
<1>3. Oddities =
        (IF call.step < 0 THEN {"step_down"} ELSE {})
        \cup (IF call.step > n /\ call.read # <<>> /\ At(call.read, 0) >= EndAt(n, call.stop)
              THEN {"step_over_the_end"} ELSE {})
        \cup (IF call.step > 0 /\ call.start < call.stop /\ call.stop <= BigIntOfLongMin
              THEN {"stop_far_below"} ELSE {})
  BY <1>1 DEF Oddities
<1>4. Oddities \cap {"step_down", "step_over_the_end", "stop_far_below"} = {}
  BY DEF Promised
<1>5. ~(call.step < 0)
  BY <1>3, <1>4
<1>6. ~ OverTheEnd(call.read, n, call.stop, call.step)
  BY <1>3, <1>4 DEF OverTheEnd
<1>7. ~(call.step > 0 /\ call.start < call.stop /\ call.stop <= BigIntOfLongMin)
  BY <1>3, <1>4
<1> HIDE DEF n
<1>8. call.step \in Nat \ {0} /\ call.step > 0
  BY <1>1, <1>5
<1>9. call.start < call.stop => call.stop > BigIntOfLongMin
  BY <1>1, <1>7, <1>8, FarBelowIs
<1>10. call.read = SliceUp(n, call.start, call.stop, call.step)
  BY <1>1, <1>5 DEF Slice
<1>11. UpIs(call.read, n, call.start, call.stop, call.step)
  BY <1>1, <1>2, <1>8, <1>9, <1>10, SliceUpIs
<1>12. QED
  BY <1>6, <1>8, <1>11 DEF UpIs, n

LEMMA Inside == CallInv => StaysInside
<1> SUFFICES ASSUME CallInv PROVE StaysInside
  OBVIOUS
<1>1. ASSUME call.method = "Split", call.sep # <<>>
      PROVE  SplitInside(value, call.sep, array)
  <2>1. value \in Texts /\ call.sep \in Separators /\ array = Split(value, call.sep)
    BY <1>1, WhatWasCalled DEF HasSplit
  <2>2. value \in Seq(Characters) /\ call.sep \in Seq(Characters)
    BY <2>1, ArgumentsAre
  <2>3. Len(call.sep) # 0
    BY <1>1, <2>2
  <2>4. QED
    BY <2>1, <2>2, <2>3, SplitStaysInside
<1>2. ASSUME call.method = "Slice", "stop_far_below" \notin Oddities
      PROVE  Within(call.read, Len(value))
  <2> DEFINE n == Len(value)
  <2>1. /\ value \in Rows /\ call.start \in Int /\ call.stop \in Int /\ call.step \in Int
        /\ call.step # 0 /\ call.read = Slice(n, call.start, call.stop, call.step)
    BY <1>2, WhatWasCalled DEF HasSlice
  <2>2. n \in Nat /\ n <= LongMax
    BY <2>1, ArgumentsAre
  <2>3. ~(call.step > 0 /\ call.start < call.stop /\ call.stop <= BigIntOfLongMin)
    BY <1>2 DEF Oddities
  <2> HIDE DEF n
  <2>4. CASE call.step < 0
    BY <2>1, <2>2, <2>4, DownStaysInside DEF Slice, n
  <2>5. CASE ~(call.step < 0)
    <3>1. call.step \in Nat \ {0} /\ call.step > 0
      BY <2>1, <2>5
    <3>2. call.start < call.stop => call.stop > BigIntOfLongMin
      BY <2>1, <2>3, <3>1, FarBelowIs
    <3>3. call.read = SliceUp(n, call.start, call.stop, call.step)
      BY <2>1, <2>5 DEF Slice
    <3>4. UpIs(call.read, n, call.start, call.stop, call.step)
      BY <2>1, <2>2, <3>1, <3>2, <3>3, SliceUpIs
    <3>5. QED
      BY <3>4 DEF UpIs, n
  <2>6. QED
    BY <2>4, <2>5
<1>3. QED
  BY <1>1, <1>2 DEF StaysInside, SplitInside, Within

-----------------------------------------------------------------------------
(* Theorems.                                                               *)

\* After every call, array and call hold what the method called has made of the
\* string (the functions of stringFunctions.cpp call those of values.cpp).
THEOREM CallsAreKept == Spec => []CallInv
<1>1. Init => CallInv
  BY DEF Init, CallInv, Unused
<1>2. QED
  BY <1>1, CallsKeep, PTL DEF Spec

\* Split by at most one character cuts at the separators from left to right, Join
\* puts its pieces together again, and SplitWS gives the longest runs without
\* white space, for all strings (StringValue::Split, Join and SplitWS).
THEOREM PiecesRight == "long_separator" \notin Constructs => (Spec => []PiecesAreRight)
<1> SUFFICES ASSUME "long_separator" \notin Constructs PROVE Spec => []PiecesAreRight
  OBVIOUS
<1>1. CallInv => PiecesAreRight
  BY SplitsRight, JoinsRight, WordsRight DEF PiecesAreRight
<1>2. QED
  BY <1>1, CallsAreKept, PTL

\* Slice takes the characters at start, start + step, ... before stop, for all
\* strings, starts, stops and steps that are not odd (StringValue::Slice).
THEOREM SliceRight ==
  {"step_down", "step_over_the_end", "stop_far_below"} \cap Constructs = {} =>
    (Spec => []SliceIsRight)
<1> SUFFICES ASSUME {"step_down", "step_over_the_end", "stop_far_below"} \cap Constructs = {}
             PROVE  Spec => []SliceIsRight
  OBVIOUS
<1>1. CallInv => SliceIsRight
  BY SlicesRight
<1>2. QED
  BY <1>1, CallsAreKept, PTL

\* Whatever the string, the separator and the bounds, no piece holds a separator
\* and nothing outside of the string is read, unless stop is so far below that
\* ClampToLong takes it for the smallest long: also by a separator of several characters and a step
\* downwards (StringValue::Split and Slice).
THEOREM NothingOutsideIsRead == Spec => []StaysInside
<1>1. QED
  BY Inside, CallsAreKept, PTL
=============================================================================
