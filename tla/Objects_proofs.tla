--------------------------- MODULE Objects_proofs ----------------------------
(***************************************************************************)
(* For all values of the constants, whatever the program: nothing leads to *)
(* an object that is gone, a sum has all that was in its sides, a for has  *)
(* the turns it had when it began, and print shows every path.             *)
(***************************************************************************)
EXTENDS Objects, FiniteSetTheorems, SequenceTheorems, WellFoundedInduction, TLAPS

-----------------------------------------------------------------------------
(* Numbers in order.                                                       *)

\* A set of natural numbers without a least element is empty.
LEMMA SmallestOf ==
  ASSUME NEW D \in SUBSET Nat, D # {}
  PROVE  \E k \in D : \A m \in D : k <= m
<1> DEFINE R == {p \in Nat \X Nat : p[1] < p[2]}
<1>1. IsWellFoundedOn(R, Nat)
  BY NatLessThanWellFounded DEF OpToRel
<1>2. PICK k \in D : \A m \in D : ~(<<m, k>> \in R)
  BY <1>1, WFMin
<1>3. \A m \in D : ~(m < k)
  BY <1>2
<1>4. QED
  BY <1>3

LEMMA LeastIs ==
  ASSUME NEW S \in SUBSET Nat, S # {}
  PROVE  Least(S) \in S /\ \A m \in S : Least(S) <= m
<1>1. \E k \in S : \A m \in S : k <= m
  BY SmallestOf
<1>2. QED
  BY <1>1 DEF Least

HasEnds(S) == (\E a \in S : \A b \in S : a <= b) /\ (\E a \in S : \A b \in S : b <= a)
LEMMA FiniteHasEnds ==
  ASSUME NEW S \in SUBSET Int, IsFiniteSet(S), S # {}
  PROVE  HasEnds(S)
<1> DEFINE Bad(n) == \E T \in SUBSET Int : IsFiniteSet(T) /\ T # {} /\ Cardinality(T) = n /\ ~HasEnds(T)
           D == {n \in Nat : Bad(n)}
<1>1. SUFFICES ASSUME ~HasEnds(S) PROVE FALSE
  OBVIOUS
<1>2. Cardinality(S) \in D
  BY <1>1, FS_CardinalityType
<1> HIDE DEF D
<1>3. PICK n \in D : \A m \in D : n <= m
  <2>1. D \in SUBSET Nat
    BY DEF D
  <2>2. QED
    BY <1>2, <2>1, SmallestOf
<1>4. n \in Nat /\ Bad(n)
  BY <1>3 DEF D
<1>5. PICK T \in SUBSET Int : IsFiniteSet(T) /\ T # {} /\ Cardinality(T) = n /\ ~HasEnds(T)
  BY <1>4
<1>6. PICK x \in T : TRUE
  BY <1>5
<1> DEFINE U == T \ {x}
<1>7. IsFiniteSet(U) /\ Cardinality(U) = n - 1 /\ Cardinality(U) \in Nat /\ U \in SUBSET Int
  BY <1>5, <1>6, FS_RemoveElement, FS_CardinalityType
<1>8. U # {}
  <2> SUFFICES ASSUME U = {} PROVE FALSE
    OBVIOUS
  <2>1. T = {x} /\ x \in Int
    BY <1>6
  <2>2. QED
    BY <1>5, <2>1 DEF HasEnds
<1>9. HasEnds(U)
  <2> SUFFICES ASSUME ~HasEnds(U) PROVE FALSE
    OBVIOUS
  <2>1. Bad(n - 1)
    BY <1>7, <1>8
  <2>2. n - 1 \in D
    BY <1>7, <2>1 DEF D
  <2>3. QED
    BY <1>3, <1>4, <2>2
<1>10. PICK lo \in U, hi \in U : \A b \in U : lo <= b /\ b <= hi
  BY <1>9 DEF HasEnds
<1>11. HasEnds(T)
  <2>1. \A b \in T : b = x \/ b \in U
    OBVIOUS
  <2>2. \E a \in T : \A b \in T : a <= b
    <3>1. CASE x <= lo
      BY <1>6, <1>10, <2>1, <3>1
    <3>2. CASE ~(x <= lo)
      BY <1>6, <1>10, <2>1, <3>2
    <3>3. QED
      BY <3>1, <3>2
  <2>3. \E a \in T : \A b \in T : b <= a
    <3>1. CASE hi <= x
      BY <1>6, <1>10, <2>1, <3>1
    <3>2. CASE ~(hi <= x)
      BY <1>6, <1>10, <2>1, <3>2
    <3>3. QED
      BY <3>1, <3>2
  <2>4. QED
    BY <2>2, <2>3 DEF HasEnds
<1>12. QED
  BY <1>5, <1>11

LEMMA EndsAre ==
  ASSUME NEW S \in SUBSET Int, IsFiniteSet(S), S # {}
  PROVE  /\ Least(S) \in S /\ \A b \in S : Least(S) <= b
         /\ Greatest(S) \in S /\ \A b \in S : b <= Greatest(S)
<1>1. HasEnds(S)
  BY FiniteHasEnds
<1>2. QED
  BY <1>1 DEF HasEnds, Least, Greatest

-----------------------------------------------------------------------------
(* InOrder: the keys of a map.                                             *)

Climbs(s, n, S) == s \in [1 .. n -> S] /\ \A k, m \in 1 .. n : k < m => s[k] < s[m]

LEMMA SomeOrder ==
  ASSUME NEW S \in SUBSET Int, IsFiniteSet(S)
  PROVE  \E s : Climbs(s, Cardinality(S), S)
<1> DEFINE Bad(n) == \E T \in SUBSET Int :
                       IsFiniteSet(T) /\ Cardinality(T) = n /\ ~ \E s : Climbs(s, n, T)
           D == {n \in Nat : Bad(n)}
<1>1. SUFFICES ASSUME ~ \E s : Climbs(s, Cardinality(S), S) PROVE FALSE
  OBVIOUS
<1>2. Cardinality(S) \in D
  BY <1>1, FS_CardinalityType
<1> HIDE DEF D
<1>3. PICK n \in D : \A m \in D : n <= m
  <2>1. D \in SUBSET Nat
    BY DEF D
  <2>2. QED
    BY <1>2, <2>1, SmallestOf
<1>4. n \in Nat /\ Bad(n)
  BY <1>3 DEF D
<1>5. PICK T \in SUBSET Int : IsFiniteSet(T) /\ Cardinality(T) = n /\ ~ \E s : Climbs(s, n, T)
  BY <1>4
<1>6. n # 0
  <2> SUFFICES ASSUME n = 0 PROVE FALSE
    OBVIOUS
  <2>1. [k \in 1 .. 0 |-> 0] \in [1 .. 0 -> T]
    OBVIOUS
  <2>2. Climbs([k \in 1 .. 0 |-> 0], 0, T)
    BY <2>1 DEF Climbs
  <2>3. QED
    BY <1>5, <2>2
<1>7. T # {}
  BY <1>5, <1>6, FS_EmptySet
<1> DEFINE g == Greatest(T)
           U == T \ {g}
<1>8. g \in T /\ g \in Int /\ \A b \in T : b <= g
  BY <1>5, <1>7, EndsAre
<1> HIDE DEF g
<1>9. IsFiniteSet(U) /\ Cardinality(U) = n - 1 /\ n - 1 \in Nat /\ U \in SUBSET Int
  BY <1>4, <1>5, <1>6, <1>8, FS_RemoveElement
<1>10. PICK s : Climbs(s, n - 1, U)
  <2> SUFFICES ASSUME ~ \E s : Climbs(s, n - 1, U) PROVE FALSE
    OBVIOUS
  <2>1. Bad(n - 1)
    BY <1>9
  <2>2. n - 1 \in D
    BY <1>9, <2>1 DEF D
  <2>3. QED
    BY <1>3, <1>4, <2>2
<1> DEFINE t == [k \in 1 .. n |-> IF k = n THEN g ELSE s[k]]
<1>11. \A k \in 1 .. n - 1 : t[k] = s[k] /\ s[k] \in U /\ k \in 1 .. n
  BY <1>4, <1>9, <1>10 DEF Climbs
<1>12. t[n] = g /\ n \in 1 .. n
  BY <1>4, <1>6
<1>13. \A k \in 1 .. n : k = n \/ k \in 1 .. n - 1
  BY <1>4
<1>14. t \in [1 .. n -> T]
  <2>1. \A k \in 1 .. n : t[k] \in T
    BY <1>8, <1>11, <1>12, <1>13
  <2>2. QED
    BY <2>1
<1>15. ASSUME NEW k \in 1 .. n, NEW m \in 1 .. n, k < m PROVE t[k] < t[m]
  <2>1. k \in 1 .. n - 1
    BY <1>4, <1>15
  <2>2. t[k] \in U /\ t[k] \in Int
    BY <1>9, <1>11, <2>1
  <2> HIDE DEF t
  <2>3. CASE m = n
    BY <1>8, <1>12, <2>2, <2>3
  <2>4. CASE m \in 1 .. n - 1
    BY <1>10, <1>11, <1>15, <2>1, <2>4 DEF Climbs
  <2>5. QED
    BY <1>13, <2>3, <2>4
<1>16. Climbs(t, n, T)
  BY <1>14, <1>15 DEF Climbs
<1>17. QED
  BY <1>5, <1>16

LEMMA ClimbsOnto ==
  ASSUME NEW S \in SUBSET Int, IsFiniteSet(S), NEW s, Climbs(s, Cardinality(S), S)
  PROVE  \A x \in S : \E k \in 1 .. Cardinality(S) : s[k] = x
<1> DEFINE n == Cardinality(S)
<1>1. n \in Nat
  BY FS_CardinalityType
<1>2. s \in [1 .. n -> S] /\ \A k, m \in 1 .. n : k < m => s[k] < s[m]
  BY DEF Climbs
<1> HIDE DEF n
<1>3. ASSUME NEW k \in 1 .. n, NEW m \in 1 .. n, s[k] = s[m] PROVE k = m
  <2>1. s[k] \in Int /\ s[m] \in Int
    BY <1>2
  <2>2. ~(k < m) /\ ~(m < k)
    BY <1>2, <1>3, <2>1
  <2>3. QED
    BY <1>1, <2>2
<1>4. s \in Injection(1 .. n, S)
  BY <1>2, <1>3 DEF Injection, IsInjective
<1>5. Cardinality(1 .. n) = n
  BY <1>1, FS_Interval
<1>6. s \in Surjection(1 .. n, S)
  BY <1>4, <1>5, FS_Injection DEF n
<1>7. QED
  BY <1>6 DEF Surjection, n

\* There is one order only.
LEMMA OneOrder ==
  ASSUME NEW S \in SUBSET Int, IsFiniteSet(S),
         NEW s, Climbs(s, Cardinality(S), S), NEW t, Climbs(t, Cardinality(S), S)
  PROVE  s = t
<1> DEFINE n == Cardinality(S)
           D == {k \in 1 .. n : s[k] # t[k]}
<1>1. n \in Nat
  BY FS_CardinalityType
<1>2. /\ s \in [1 .. n -> S] /\ t \in [1 .. n -> S]
      /\ \A k, m \in 1 .. n : k < m => s[k] < s[m] /\ t[k] < t[m]
  BY DEF Climbs
<1>3. \A x \in S : (\E k \in 1 .. n : s[k] = x) /\ (\E k \in 1 .. n : t[k] = x)
  BY ClimbsOnto
<1>4. D = {}
  <2> HIDE DEF n
  <2> SUFFICES ASSUME D # {} PROVE FALSE
    OBVIOUS
  <2>1. PICK k \in D : \A m \in D : k <= m
    <3>1. D \in SUBSET Nat
      BY <1>1
    <3>2. QED
      BY <3>1, SmallestOf
  <2>2. k \in 1 .. n /\ s[k] # t[k] /\ s[k] \in S /\ t[k] \in S /\ s[k] \in Int /\ t[k] \in Int
    BY <1>2, <2>1
  <2>3. \A m \in 1 .. n : m < k => s[m] = t[m]
    BY <1>1, <2>1, <2>2
  <2> HIDE DEF D
  <2>4. CASE s[k] < t[k]
    <3>1. PICK m \in 1 .. n : t[m] = s[k]
      BY <1>3, <2>2
    <3>2. t[m] < t[k]
      BY <2>4, <3>1
    <3>3. ~(k < m) /\ m # k
      BY <1>2, <2>2, <3>1, <3>2
    <3>4. m < k
      BY <1>1, <2>2, <3>3
    <3>5. s[m] < s[k] /\ s[m] = s[k]
      BY <1>2, <2>2, <2>3, <3>1, <3>4
    <3>6. QED
      BY <2>2, <3>5
  <2>5. CASE t[k] < s[k]
    <3>1. PICK m \in 1 .. n : s[m] = t[k]
      BY <1>3, <2>2
    <3>2. s[m] < s[k]
      BY <2>5, <3>1
    <3>3. ~(k < m) /\ m # k
      BY <1>2, <2>2, <3>1, <3>2
    <3>4. m < k
      BY <1>1, <2>2, <3>3
    <3>5. t[m] < t[k] /\ t[m] = t[k]
      BY <1>2, <2>2, <2>3, <3>1, <3>4
    <3>6. QED
      BY <2>2, <3>5
  <2>6. QED
    BY <2>2, <2>4, <2>5
<1>5. \A k \in 1 .. n : s[k] = t[k]
  BY <1>4
<1> HIDE DEF n, D
<1>6. s = [k \in 1 .. n |-> s[k]] /\ t = [k \in 1 .. n |-> t[k]]
  BY <1>2
<1>7. QED
  BY <1>5, <1>6

LEMMA InOrderIs ==
  ASSUME NEW S \in SUBSET Int, IsFiniteSet(S)
  PROVE  Climbs(InOrder(S), Cardinality(S), S)
<1>1. PICK s : Climbs(s, Cardinality(S), S)
  BY SomeOrder
<1>2. QED
  BY <1>1 DEF Climbs, InOrder

-----------------------------------------------------------------------------
(* Values, objects and memory.                                             *)

Value == [place : {0} \cup Places, number : Int]

\* An object as the code can make it; D are the places there are.
ItemsOk(o) ==
  /\ o.items \in [DOMAIN o.items -> Value] /\ DOMAIN o.items \in SUBSET Int
  /\ IsFiniteSet(DOMAIN o.items)
  /\ o.kind = "tuple" => DOMAIN o.items = 1 .. Cardinality(DOMAIN o.items)
NamesOk(o) ==
  /\ o.kind = "array" => o.names = <<>>
  /\ o.names \in [DOMAIN o.names -> DOMAIN o.items]
  /\ \A f, g \in DOMAIN o.names : f # g => o.names[f] # o.names[g]
WellMade(o) ==
  /\ o = [kind |-> o.kind, items |-> o.items, names |-> o.names] /\ o.kind \in {"array", "tuple"}
  /\ ItemsOk(o) /\ NamesOk(o)
Within(o, D) == PlacesIn(o) \subseteq D
Leads(v, D) == v \in Value /\ v.place \in {0} \cup D

MemoryOk(m) ==
  /\ DOMAIN m \subseteq Places /\ m = [p \in DOMAIN m |-> m[p]]
  /\ \A p \in DOMAIN m : WellMade(m[p]) /\ Within(m[p], DOMAIN m)
ScopeOk(s, D) ==
  /\ DOMAIN s \in {Names, Names \cup {CycleName}} /\ s = [x \in DOMAIN s |-> s[x]]
  /\ \A x \in DOMAIN s : Leads(s[x], D)

\* What there is to a sum.
LastOk(l, m) ==
  /\ l.kind \in {"none", "sum", "print"}
  /\ l.kind = "sum" =>
       /\ WellMade(l.left) /\ WellMade(l.right) /\ l.left.kind = l.right.kind
       /\ Within(l.left, DOMAIN m) /\ Within(l.right, DOMAIN m)
       /\ l.at \in DOMAIN m /\ m[l.at] = SumOf(l.left, l.right)

\* A for whose turn is the n-th, or about to be: the range, the copy of the
\* items or the number of items has been followed as far as that.
InRange(c, n) ==
  LET m == Len(c.due)
  IN IF c.decrement
     THEN c.end = c.cur - (m - n) /\ \A k \in 1 .. m : c.due[k] = Number(c.cur + n - k)
     ELSE c.end = c.cur + (m - n) /\ \A k \in 1 .. m : c.due[k] = Number(c.cur - n + k)
InItems(c, n) == c.cur = n /\ c.items = c.due /\ ~c.decrement
InTimes(c, n) ==
  c.cur = n /\ c.end = Len(c.due) /\ ~c.decrement /\ \A k \in 1 .. Len(c.due) : c.due[k] = Number(k)
Cycles ==
  [kind : {"range", "items", "times"}, over : Value, items : Seq(Value), cur : Int, end : Int,
   decrement : BOOLEAN, seen : Seq(Value), due : Seq(Value)]
AtTurn(c, n) ==
  /\ c \in Cycles /\ n \in 1 .. Len(c.due)
  /\ c.kind = "range" => InRange(c, n)
  /\ c.kind = "items" => InItems(c, n)
  /\ c.kind = "times" => InTimes(c, n)

Begins(s, t) == Len(s) <= Len(t) /\ \A k \in 1 .. Len(s) : s[k] = t[k]
CycleOk(c, D) ==
  /\ PlacesOfCycle(c) \ {0} \subseteq D
  /\ \/ c.kind = "none"
     \/ /\ c.kind = "over" /\ c.seen \in Seq(Value) /\ c.due \in Seq(Value)
        /\ Begins(c.seen, c.due) /\ (~c.exited => c.seen = c.due)
     \/ AtTurn(c, Len(c.seen)) /\ Begins(c.seen, c.due)

StatusOk == status \in {"running", "failed"} /\ steps \in 0 .. MaxSteps
ObInv ==
  /\ MemoryOk(heap) /\ ScopeOk(scope, DOMAIN heap) /\ CycleOk(cycle, DOMAIN heap) /\ LastOk(last, heap)
  /\ StatusOk

-----------------------------------------------------------------------------
(* Reachable: what is led to from places leads nowhere else.               *)

OneStep(m, P) == P \cup UNION {PlacesIn(m[p]) : p \in P}
IsFrom(t, n, m, places) == t = [k \in 0 .. n |-> IF k = 0 THEN places ELSE OneStep(m, t[k - 1])]

LEMMA FromExists ==
  ASSUME NEW m, NEW places, NEW n \in Nat
  PROVE  \E t : IsFrom(t, n, m, places)
<1> DEFINE D == {k \in Nat : ~ \E t : IsFrom(t, k, m, places)}
<1> SUFFICES ASSUME D # {} PROVE FALSE
  OBVIOUS
<1>1. PICK k \in D : \A j \in D : k <= j
  BY SmallestOf
<1>2. k # 0
  <2> DEFINE t == [i \in 0 .. 0 |-> places]
  <2>1. t = [i \in 0 .. 0 |-> IF i = 0 THEN places ELSE OneStep(m, t[i - 1])]
    OBVIOUS
  <2>2. IsFrom(t, 0, m, places)
    BY <2>1 DEF IsFrom
  <2>3. QED
    BY <2>2
<1>3. k \in Nat /\ k - 1 \in Nat /\ k - 1 < k
  BY <1>2
<1>4. PICK t : IsFrom(t, k - 1, m, places)
  BY <1>1, <1>3
<1> DEFINE u == [i \in 0 .. k |-> IF i = k THEN OneStep(m, t[k - 1]) ELSE t[i]]
<1>5. ASSUME NEW i \in 0 .. k PROVE u[i] = IF i = 0 THEN places ELSE OneStep(m, u[i - 1])
  <2>1. CASE i = k
    <3>1. k - 1 \in 0 .. k /\ k - 1 # k
      BY <1>3
    <3>2. u[k - 1] = t[k - 1] /\ u[k] = OneStep(m, t[k - 1])
      BY <3>1, <1>3
    <3>3. QED
      BY <1>2, <2>1, <3>2
  <2>2. CASE i # k
    <3>1. i \in 0 .. k - 1 /\ u[i] = t[i]
      BY <1>3, <2>2
    <3>2. i # 0 => i - 1 \in 0 .. k /\ i - 1 # k
      BY <1>3, <3>1
    <3>3. i # 0 => u[i - 1] = t[i - 1]
      BY <3>2
    <3>4. t[i] = IF i = 0 THEN places ELSE OneStep(m, t[i - 1])
      BY <1>4, <3>1 DEF IsFrom
    <3>5. QED
      BY <3>1, <3>3, <3>4
  <2>3. QED
    BY <2>1, <2>2
<1>6. IsFrom(u, k, m, places)
  <2>1. u = [i \in 0 .. k |-> u[i]]
    OBVIOUS
  <2> HIDE DEF u
  <2>2. u = [i \in 0 .. k |-> IF i = 0 THEN places ELSE OneStep(m, u[i - 1])]
    BY <1>5, <2>1
  <2>3. QED
    BY <2>2 DEF IsFrom
<1>7. QED
  BY <1>1, <1>6

\* Every step adds a place, or there is nothing to add any more; and there are
\* only so many places.
Closed(m, P) == \A p \in P : PlacesIn(m[p]) \subseteq P
LEMMA ReachableIs ==
  ASSUME NEW m, DOMAIN m \subseteq Places, \A p \in DOMAIN m : Within(m[p], DOMAIN m),
         NEW places, places \subseteq DOMAIN m
  PROVE  /\ places \subseteq Reachable(m, places) /\ Reachable(m, places) \subseteq DOMAIN m
         /\ Closed(m, Reachable(m, places))
<1> DEFINE n == Cardinality(Places)
           t == CHOOSE t : IsFrom(t, n, m, places)
<1>1. Reachable(m, places) = t[n]
  BY Zenon DEF Reachable, OneStep, IsFrom
<1>2. n \in Nat /\ IsFiniteSet(Places)
  BY ObjectsAssumption, FS_CardinalityType
<1>3. IsFrom(t, n, m, places)
  BY <1>2, FromExists
<1> HIDE DEF t, n
<1>4. t[0] = places /\ \A k \in 0 .. n : k # 0 => t[k] = OneStep(m, t[k - 1])
  BY <1>2, <1>3 DEF IsFrom
<1> DEFINE Good(k) == /\ places \subseteq t[k] /\ t[k] \subseteq DOMAIN m
                      /\ Closed(m, t[k]) \/ k <= Cardinality(t[k])
           D == {k \in 0 .. n : ~Good(k)}
<1>5. \A P \in SUBSET Places : IsFiniteSet(P) /\ Cardinality(P) \in Nat
  BY <1>2, FS_Subset, FS_CardinalityType
<1>6. D = {}
  <2> SUFFICES ASSUME D # {} PROVE FALSE
    OBVIOUS
  <2>1. PICK k \in D : \A j \in D : k <= j
    <3>1. D \in SUBSET Nat
      BY <1>2
    <3>2. QED
      BY <3>1, SmallestOf
  <2>2. k \in 0 .. n /\ ~Good(k)
    BY <2>1
  <2>3. k # 0
    BY <1>4, <1>5, <2>2
  <2>4. k - 1 \in 0 .. n /\ k - 1 < k
    BY <1>2, <2>2, <2>3
  <2>5. Good(k - 1)
    BY <1>2, <2>1, <2>2, <2>4
  <2> DEFINE P == t[k - 1]
             Q == t[k]
  <2>6. Q = OneStep(m, P)
    BY <1>4, <2>2, <2>3
  <2>7. places \subseteq P /\ P \subseteq DOMAIN m /\ (Closed(m, P) \/ k - 1 <= Cardinality(P))
    BY <2>5
  <2> HIDE DEF P, Q
  <2>8. P \subseteq Q /\ Q \subseteq DOMAIN m
    BY <2>6, <2>7 DEF OneStep, Within
  <2>9. Closed(m, Q) \/ k <= Cardinality(Q)
    <3>1. CASE Closed(m, P)
      <4>1. Q = P
        BY <2>6, <3>1 DEF OneStep, Closed
      <4>2. QED
        BY <3>1, <4>1
    <3>2. CASE ~Closed(m, P)
      <4>1. P # Q
        BY <2>6, <3>2 DEF OneStep, Closed
      <4>2. Cardinality(P) <= Cardinality(Q) /\ Cardinality(P) # Cardinality(Q)
        BY <1>5, <2>8, <4>1, FS_Subset
      <4>3. Cardinality(P) \in Nat /\ Cardinality(Q) \in Nat
        BY <1>5, <2>8
      <4>4. QED
        BY <1>2, <2>2, <2>7, <3>2, <4>2, <4>3
    <3>3. QED
      BY <3>1, <3>2
  <2>10. Good(k)
    BY <2>7, <2>8, <2>9 DEF P, Q
  <2>11. QED
    BY <2>2, <2>10
<1>7. Good(n)
  BY <1>2, <1>6
<1>8. Closed(m, t[n])
  <2>1. SUFFICES ASSUME n <= Cardinality(t[n]) PROVE Closed(m, t[n])
    BY <1>7
  <2>2. t[n] \subseteq Places
    BY <1>7
  <2>3. Cardinality(t[n]) <= n /\ Cardinality(t[n]) \in Nat
    BY <1>2, <1>5, <2>2, FS_Subset DEF n
  <2>4. Cardinality(t[n]) = n
    BY <1>2, <2>1, <2>3
  <2>5. t[n] = Places
    BY <1>2, <2>2, <2>4, FS_Subset DEF n
  <2>6. QED
    BY <1>7, <2>5 DEF Closed, Within
<1>9. QED
  BY <1>1, <1>7, <1>8

-----------------------------------------------------------------------------
(* The end of a statement: what nothing leads to is gone.                  *)

LEMMA PlaceIs == /\ \A p \in Places : p \in Nat /\ p # 0
                 /\ \A k \in Int : Number(k) \in Value /\ Number(k).place = 0 /\ Number(k).number = k
                 /\ \A p \in Places : Object(p) \in Value /\ Object(p).place = p
  BY ObjectsAssumption DEF Number, Object, Value

RootsOf(s, c, l) ==
  ({s[x].place : x \in DOMAIN s} \cup PlacesOfCycle(c) \cup PlacesOfLast(l)) \ {0}

LEMMA RootsAre ==
  ASSUME NEW m, MemoryOk(m), NEW s, ScopeOk(s, DOMAIN m), NEW c, CycleOk(c, DOMAIN m), NEW l, LastOk(l, m)
  PROVE  RootsOf(s, c, l) \subseteq DOMAIN m
<1>1. \A x \in DOMAIN s : s[x].place \in {0} \cup DOMAIN m
  BY DEF ScopeOk, Leads
<1>2. PlacesOfCycle(c) \ {0} \subseteq DOMAIN m
  BY DEF CycleOk
<1>3. PlacesOfLast(l) \subseteq DOMAIN m
  BY DEF LastOk, PlacesOfLast, Within
<1>4. QED
  BY <1>1, <1>2, <1>3 DEF RootsOf

LEMMA EndsKeeps ==
  ASSUME NEW m, MemoryOk(m), NEW s, ScopeOk(s, DOMAIN m), NEW c, CycleOk(c, DOMAIN m),
         NEW l, LastOk(l, m), Ends(m, s, c, l), StatusOk, steps' \in 0 .. MaxSteps
  PROVE  ObInv'
<1> DEFINE R == Reachable(m, RootsOf(s, c, l))
<1>1. /\ scope' = s /\ cycle' = c /\ last' = l /\ status' = status
      /\ heap' = [p \in R |-> m[p]]
  BY DEF Ends, Collected, RootsOf
<1>2. /\ DOMAIN m \subseteq Places /\ \A p \in DOMAIN m : WellMade(m[p]) /\ Within(m[p], DOMAIN m)
  BY DEF MemoryOk
<1>3. RootsOf(s, c, l) \subseteq R /\ R \subseteq DOMAIN m /\ Closed(m, R)
  BY <1>2, RootsAre, ReachableIs
<1> HIDE DEF R
<1>4. \A p \in R : m[p] = heap'[p] /\ DOMAIN heap' = R
  BY <1>1
<1>5. MemoryOk(heap')
  <2>1. DOMAIN heap' = R /\ R \subseteq Places
    BY <1>1, <1>2, <1>3
  <2>2. \A p \in R : WellMade(heap'[p]) /\ Within(heap'[p], R)
    BY <1>2, <1>3, <1>4 DEF Closed, Within
  <2>3. QED
    BY <1>1, <2>1, <2>2 DEF MemoryOk
<1>6. ScopeOk(scope', DOMAIN heap')
  <2>1. ASSUME NEW x \in DOMAIN s PROVE Leads(s[x], R)
    <3>1. s[x] \in Value
      BY DEF ScopeOk, Leads
    <3>2. s[x].place \in {0} \cup R
      BY <1>3, <2>1 DEF RootsOf
    <3>3. QED
      BY <3>1, <3>2 DEF Leads
  <2>2. QED
    BY <1>1, <2>1 DEF ScopeOk
<1>7. CycleOk(cycle', DOMAIN heap')
  <2>1. PlacesOfCycle(c) \ {0} \subseteq R
    BY <1>3 DEF RootsOf
  <2>2. QED
    BY <1>1, <2>1 DEF CycleOk
<1>8. LastOk(last', heap')
  <2>1. CASE l.kind # "sum"
    BY <1>1, <2>1 DEF LastOk
  <2>2. CASE l.kind = "sum"
    <3>1. /\ WellMade(l.left) /\ WellMade(l.right) /\ l.left.kind = l.right.kind
          /\ l.at \in DOMAIN m /\ m[l.at] = SumOf(l.left, l.right)
      BY <2>2 DEF LastOk
    <3>2. PlacesOfLast(l) = PlacesIn(l.left) \cup PlacesIn(l.right) \cup {l.at}
      BY <2>2 DEF PlacesOfLast
    <3>3. l.at \in Places /\ l.at # 0
      BY <1>2, <3>1, PlaceIs
    <3>4. l.at \in R
      BY <1>3, <3>2, <3>3 DEF RootsOf
    <3>5. 0 \notin PlacesIn(l.left) /\ 0 \notin PlacesIn(l.right)
      BY DEF PlacesIn
    <3>6. Within(l.left, R) /\ Within(l.right, R)
      BY <1>3, <3>2, <3>5 DEF RootsOf, Within
    <3>7. heap'[l.at] = SumOf(l.left, l.right)
      BY <1>4, <3>1, <3>4
    <3>8. QED
      BY <1>1, <2>2, <3>1, <3>4, <3>6, <3>7 DEF LastOk
  <2>3. QED
    BY <2>1, <2>2
<1>9. StatusOk'
  BY <1>1 DEF StatusOk
<1>10. QED
  BY <1>5, <1>6, <1>7, <1>8, <1>9 DEF ObInv

LEMMA NothingLast == \A m : LastOk(NoLast, m)
  BY DEF LastOk, NoLast

LEMMA RestIs == ASSUME ObInv PROVE CycleOk(Rest, DOMAIN heap)
<1>1. CycleOk(NoCycle, DOMAIN heap)
  BY DEF CycleOk, NoCycle, PlacesOfCycle
<1>2. CycleOk(cycle, DOMAIN heap)
  BY DEF ObInv
<1>3. QED
  BY <1>1, <1>2 DEF Rest

LEMMA FailsKeeps ==
  ASSUME ObInv, Fails, steps' \in 0 .. MaxSteps
  PROVE  ObInv'
<1>1. UNCHANGED <<scope, heap, cycle, last>> /\ status' = "failed"
  BY DEF Fails
<1>2. /\ MemoryOk(heap)' /\ ScopeOk(scope, DOMAIN heap)' /\ CycleOk(cycle, DOMAIN heap)' /\ LastOk(last, heap)'
  BY <1>1 DEF ObInv
<1>3. StatusOk'
  BY <1>1 DEF StatusOk
<1>4. QED
  BY <1>2, <1>3 DEF ObInv

LEMMA StepsAre ==
  ASSUME ObInv, NEW size \in Nat, StatementOf(size)
  PROVE  steps' \in 0 .. MaxSteps
<1>1. steps \in Nat /\ MaxSteps \in Nat
  BY ObjectsAssumption DEF ObInv, StatusOk
<1>2. steps + size <= MaxSteps /\ steps' = steps + size
  BY DEF StatementOf
<1>3. QED
  BY <1>1, <1>2

-----------------------------------------------------------------------------
(* Statements that make an object.                                         *)

LEMMA MoreMemory ==
  ASSUME NEW D, NEW E, D \subseteq E
  PROVE  /\ \A s : ScopeOk(s, D) => ScopeOk(s, E)
         /\ \A c : CycleOk(c, D) => CycleOk(c, E)
<1>1. \A s : ScopeOk(s, D) => ScopeOk(s, E)
  BY DEF ScopeOk, Leads
<1>2. \A c : CycleOk(c, D) => CycleOk(c, E)
  BY DEF CycleOk
<1>3. QED
  BY <1>1, <1>2

LEMMA WithIs ==
  ASSUME ObInv, Free # {}, NEW o, WellMade(o), Within(o, DOMAIN heap)
  PROVE  LET p == Least(Free)
         IN /\ p \in Places /\ p \notin DOMAIN heap
            /\ MemoryOk(With(o)) /\ DOMAIN With(o) = DOMAIN heap \cup {p} /\ With(o)[p] = o
<1> DEFINE p == Least(Free)
           D == DOMAIN heap \cup {p}
<1>1. p \in Places /\ p \notin DOMAIN heap
  <2>1. Free \in SUBSET Nat
    BY PlaceIs DEF Free
  <2>2. p \in Free
    BY <2>1, LeastIs
  <2>3. QED
    BY <2>2 DEF Free
<1>2. With(o) = [q \in D |-> IF q \in DOMAIN heap THEN heap[q] ELSE o]
  BY DEF With
<1>3. DOMAIN heap \subseteq Places /\ \A q \in DOMAIN heap : WellMade(heap[q]) /\ Within(heap[q], DOMAIN heap)
  BY DEF ObInv, MemoryOk
<1> HIDE DEF p
<1>4. DOMAIN With(o) = D /\ With(o)[p] = o
  BY <1>1, <1>2
<1>5. ASSUME NEW q \in D PROVE WellMade(With(o)[q]) /\ Within(With(o)[q], D)
  <2>1. With(o)[q] = IF q \in DOMAIN heap THEN heap[q] ELSE o
    BY <1>2
  <2>2. QED
    BY <1>3, <2>1 DEF Within
<1>6. With(o) = [q \in D |-> With(o)[q]]
  BY <1>2
<1>7. MemoryOk(With(o))
  BY <1>1, <1>3, <1>4, <1>5, <1>6 DEF MemoryOk
<1>8. QED
  BY <1>1, <1>4, <1>7 DEF p

\* A variable is given a value.
LEMMA ScopeWith ==
  ASSUME NEW D, ScopeOk(scope, D), NEW x \in Visible, NEW v, Leads(v, D)
  PROVE  ScopeOk([scope EXCEPT ![x] = v], D)
<1> DEFINE s == [scope EXCEPT ![x] = v]
<1>1. /\ DOMAIN scope \in {Names, Names \cup {CycleName}} /\ scope = [y \in DOMAIN scope |-> scope[y]]
      /\ \A y \in DOMAIN scope : Leads(scope[y], D)
  BY DEF ScopeOk
<1>2. DOMAIN s = DOMAIN scope /\ s = [y \in DOMAIN s |-> s[y]]
  BY <1>1
<1>3. \A y \in DOMAIN scope : s[y] = IF y = x THEN v ELSE scope[y]
  BY <1>1
<1> HIDE DEF s
<1>4. \A y \in DOMAIN s : Leads(s[y], D)
  BY <1>1, <1>2, <1>3
<1>5. ScopeOk(s, D)
  BY <1>1, <1>2, <1>4 DEF ScopeOk
<1>6. QED
  BY <1>5 DEF s

LEMMA MadeKeeps ==
  ASSUME ObInv, steps' \in 0 .. MaxSteps, Free # {}, NEW x \in Visible,
         NEW o, WellMade(o), Within(o, DOMAIN heap), NEW l, LastOk(l, With(o)),
         Ends(With(o), [scope EXCEPT ![x] = Object(Least(Free))], Rest, l)
  PROVE  ObInv'
<1> DEFINE p == Least(Free)
           m == With(o)
           s == [scope EXCEPT ![x] = Object(p)]
<1>1. p \in Places /\ MemoryOk(m) /\ DOMAIN m = DOMAIN heap \cup {p}
  BY WithIs
<1> HIDE DEF p, m
<1>2. CycleOk(Rest, DOMAIN m) /\ ScopeOk(scope, DOMAIN m)
  BY <1>1, RestIs, MoreMemory DEF ObInv
<1>3. Leads(Object(p), DOMAIN m)
  BY <1>1, PlaceIs DEF Leads
<1>4. ScopeOk(s, DOMAIN m)
  BY <1>2, <1>3, ScopeWith
<1> HIDE DEF s
<1>5. Ends(m, s, Rest, l) /\ LastOk(l, m) /\ StatusOk
  BY DEF m, s, p, ObInv
<1>6. QED
  BY <1>1, <1>2, <1>4, <1>5, EndsKeeps

LEMMA NewKeeps ==
  ASSUME ObInv, steps' \in 0 .. MaxSteps, NEW x \in Visible, NEW o, WellMade(o), Within(o, DOMAIN heap), New(x, o)
  PROVE  ObInv'
<1>1. Free # {} /\ Ends(With(o), [scope EXCEPT ![x] = Object(Least(Free))], Rest, NoLast)
  BY DEF New
<1>2. QED
  BY <1>1, NothingLast, MadeKeeps

LEMMA OperandsAre ==
  ASSUME ObInv
  PROVE  \A v \in Operands : Leads(v, DOMAIN heap)
BY DEF ObInv, ScopeOk, Operands, Visible

LEMMA LiteralIs ==
  ASSUME ObInv, NEW n \in Nat, NEW items \in [1 .. n -> Operands], NEW names, names \in [DOMAIN names -> 1 .. n],
         \A f, g \in DOMAIN names : f # g => names[f] # names[g]
  PROVE  /\ WellMade(Tuple(items, names)) /\ Within(Tuple(items, names), DOMAIN heap)
         /\ WellMade(Array(items)) /\ Within(Array(items), DOMAIN heap)
<1>1. \A k \in 1 .. n : items[k] \in Value /\ items[k].place \in {0} \cup DOMAIN heap
  BY OperandsAre DEF Leads
<1>2. DOMAIN items = 1 .. n /\ items \in [1 .. n -> Value] /\ 1 .. n \in SUBSET Int
  BY <1>1
<1>3. IsFiniteSet(1 .. n) /\ Cardinality(1 .. n) = n
  BY FS_Interval
<1>4. ASSUME NEW o, o.items = items PROVE ItemsOk(o) /\ Within(o, DOMAIN heap)
  <2>1. ItemsOk(o)
    BY <1>2, <1>3, <1>4 DEF ItemsOk
  <2>2. Within(o, DOMAIN heap)
    BY <1>1, <1>2, <1>4 DEF Within, PlacesIn
  <2>3. QED
    BY <2>1, <2>2
<1>5. WellMade(Tuple(items, names)) /\ Within(Tuple(items, names), DOMAIN heap)
  <2> DEFINE o == Tuple(items, names)
  <2>1. o.items = items /\ o.names = names /\ o.kind = "tuple"
        /\ o = [kind |-> o.kind, items |-> o.items, names |-> o.names]
    BY DEF Tuple
  <2> HIDE DEF o
  <2>2. NamesOk(o)
    BY <1>2, <2>1 DEF NamesOk
  <2>3. ItemsOk(o) /\ Within(o, DOMAIN heap)
    BY <1>4, <2>1
  <2>4. WellMade(o)
    BY <2>1, <2>2, <2>3 DEF WellMade
  <2>5. QED
    BY <2>3, <2>4 DEF o
<1>6. WellMade(Array(items)) /\ Within(Array(items), DOMAIN heap)
  <2> DEFINE o == Array(items)
  <2>1. o.items = items /\ o.names = <<>> /\ o.kind = "array"
        /\ o = [kind |-> o.kind, items |-> o.items, names |-> o.names]
    BY DEF Array
  <2> HIDE DEF o
  <2>2. NamesOk(o)
    BY <2>1 DEF NamesOk
  <2>3. ItemsOk(o) /\ Within(o, DOMAIN heap)
    BY <1>4, <2>1
  <2>4. WellMade(o)
    BY <2>1, <2>2, <2>3 DEF WellMade
  <2>5. QED
    BY <2>3, <2>4 DEF o
<1>7. QED
  BY <1>5, <1>6

LEMMA AssignArrayKeeps == ObInv /\ AssignArray => ObInv'
<1> SUFFICES ASSUME ObInv, AssignArray PROVE ObInv'
  OBVIOUS
<1>1. PICK x \in Visible, m \in 0 .. MaxLiteral :
        StatementOf(IF m = 0 THEN 1 ELSE m) /\ \E items \in [1 .. m -> Operands] : New(x, Array(items))
  BY Zenon DEF AssignArray
<1>2. PICK items \in [1 .. m -> Operands] : New(x, Array(items))
  BY <1>1
<1>3. m \in Nat /\ (IF m = 0 THEN 1 ELSE m) \in Nat
  BY ObjectsAssumption
<1>4. steps' \in 0 .. MaxSteps
  BY <1>1, <1>3, StepsAre
<1>5. WellMade(Array(items)) /\ Within(Array(items), DOMAIN heap)
  <2>1. <<>> \in [DOMAIN <<>> -> 1 .. m] /\ DOMAIN <<>> = {}
    OBVIOUS
  <2>2. QED
    BY <1>3, <2>1, LiteralIs
<1>6. QED
  BY <1>2, <1>4, <1>5, NewKeeps

LEMMA AssignTupleKeeps == ObInv /\ AssignTuple => ObInv'
<1> SUFFICES ASSUME ObInv, AssignTuple PROVE ObInv'
  OBVIOUS
<1>1. PICK x \in Visible, m \in 1 .. MaxLiteral :
        /\ StatementOf(m)
        /\ \E items \in [1 .. m -> Operands], labels \in [1 .. m -> ToSet(Fields) \cup {NoLabel}] :
             LET named == {k \in 1 .. m : labels[k] # NoLabel}
                 names == [f \in {labels[k] : k \in named} |-> Least({k \in named : labels[k] = f})]
             IN IF Cardinality(DOMAIN names) < Cardinality(named) THEN Fails
                ELSE New(x, Tuple(items, names))
  BY Zenon DEF AssignTuple
<1>2. PICK items \in [1 .. m -> Operands], labels \in [1 .. m -> ToSet(Fields) \cup {NoLabel}] :
        LET named == {k \in 1 .. m : labels[k] # NoLabel}
            names == [f \in {labels[k] : k \in named} |-> Least({k \in named : labels[k] = f})]
        IN IF Cardinality(DOMAIN names) < Cardinality(named) THEN Fails
           ELSE New(x, Tuple(items, names))
  BY <1>1
<1>3. m \in Nat
  BY ObjectsAssumption
<1>4. steps' \in 0 .. MaxSteps
  BY <1>1, <1>3, StepsAre
<1> DEFINE named == {k \in 1 .. m : labels[k] # NoLabel}
           names == [f \in {labels[k] : k \in named} |-> Least({k \in named : labels[k] = f})]
<1>5. ASSUME NEW f \in DOMAIN names PROVE names[f] \in 1 .. m /\ labels[names[f]] = f
  <2> DEFINE S == {k \in named : labels[k] = f}
  <2>1. S # {} /\ S \in SUBSET Nat
    BY <1>3
  <2>2. Least(S) \in S
    BY <2>1, LeastIs
  <2>3. names[f] = Least(S)
    OBVIOUS
  <2>4. QED
    BY <2>2, <2>3
<1>6. names = [f \in DOMAIN names |-> names[f]]
  OBVIOUS
<1>7. Fails \/ New(x, Tuple(items, names))
  BY <1>2
<1> HIDE DEF names
<1>8. WellMade(Tuple(items, names)) /\ Within(Tuple(items, names), DOMAIN heap)
  <2>1. names \in [DOMAIN names -> 1 .. m]
    BY <1>5, <1>6
  <2>2. \A f, g \in DOMAIN names : f # g => names[f] # names[g]
    BY <1>5
  <2>3. QED
    BY <1>3, <2>1, <2>2, LiteralIs
<1>9. QED
  BY <1>4, <1>7, <1>8, NewKeeps, FailsKeeps

-----------------------------------------------------------------------------
(* Statements that copy a value or change an object.                       *)

\* Of a value and of the items of an object.
LEMMA ItemsLead ==
  ASSUME NEW o, WellMade(o), NEW D, Within(o, D)
  PROVE  /\ \A k \in DOMAIN o.items : k \in Int /\ Leads(o.items[k], D)
         /\ IsFiniteSet(DOMAIN o.items)
<1>1. /\ o.items \in [DOMAIN o.items -> Value] /\ DOMAIN o.items \in SUBSET Int /\ IsFiniteSet(DOMAIN o.items)
  BY DEF WellMade, ItemsOk
<1>2. \A k \in DOMAIN o.items : o.items[k].place \in {0} \cup D
  BY DEF Within, PlacesIn
<1>3. QED
  BY <1>1, <1>2 DEF Leads

LEMMA ObjectsAre ==
  ASSUME ObInv
  PROVE  /\ \A p \in DOMAIN heap : WellMade(heap[p]) /\ Within(heap[p], DOMAIN heap) /\ p # 0 /\ p \in Places
         /\ Objects \subseteq DOMAIN heap
<1>1. DOMAIN heap \subseteq Places /\ \A p \in DOMAIN heap : WellMade(heap[p]) /\ Within(heap[p], DOMAIN heap)
  BY DEF ObInv, MemoryOk
<1>2. QED
  BY <1>1, PlaceIs DEF Objects

LEMMA AccessedLeads ==
  ASSUME ObInv, NEW v, Leads(v, DOMAIN heap), NEW acc
  PROVE  \A w \in Accessed(v, acc) : Leads(w, DOMAIN heap)
<1> SUFFICES ASSUME NEW w \in Accessed(v, acc) PROVE Leads(w, DOMAIN heap)
  OBVIOUS
<1>1. v.place # 0 /\ \E k \in DOMAIN heap[v.place].items : w = heap[v.place].items[k]
  BY Zenon DEF Accessed, IsObject
<1>2. v.place \in DOMAIN heap
  BY <1>1 DEF Leads
<1>3. QED
  BY <1>1, <1>2, ObjectsAre, ItemsLead

LEMMA KeysAre ==
  ASSUME NEW o, WellMade(o), NEW acc \in Accessors
  PROVE  \A k \in KeysAt(o, acc) : k \in Int /\ (k \in DOMAIN o.items \/ o.kind = "array")
<1>1. /\ DOMAIN o.items \in SUBSET Int /\ o.names \in [DOMAIN o.names -> DOMAIN o.items]
  BY DEF WellMade, ItemsOk, NamesOk
<1>2. CASE acc.kind = "index"
  <2>1. acc.key \in Int
    BY <1>2, ObjectsAssumption DEF Accessors, Accessor
  <2>2. KeysAt(o, acc) = IF o.kind = "array" THEN {acc.key} ELSE {}
    BY <1>2 DEF KeysAt
  <2>3. QED
    BY <2>1, <2>2
<1>3. CASE acc.kind = "named"
  <2>1. KeysAt(o, acc) = IF acc.key \in DOMAIN o.names THEN {o.names[acc.key]} ELSE {}
    BY <1>3 DEF KeysAt
  <2>2. QED
    BY <1>1, <2>1
<1>4. CASE acc.kind = "numbered"
  <2>1. KeysAt(o, acc) = IF o.kind = "tuple" THEN {acc.key} \cap DOMAIN o.items ELSE {}
    BY <1>4 DEF KeysAt
  <2>2. QED
    BY <1>1, <2>1
<1>5. acc.kind \in {"index", "named", "numbered"}
  BY DEF Accessors, Accessor
<1>6. QED
  BY <1>2, <1>3, <1>4, <1>5

\* An object with other items.
LEMMA OtherItems ==
  ASSUME NEW o, WellMade(o), NEW items
  PROVE  LET u == [o EXCEPT !.items = items]
         IN u.items = items /\ u.kind = o.kind /\ u.names = o.names
            /\ u = [kind |-> u.kind, items |-> u.items, names |-> u.names]
BY DEF WellMade

LEMMA AssignItemIs ==
  ASSUME NEW D, NEW o, WellMade(o), Within(o, D), NEW k \in Int, k \in DOMAIN o.items \/ o.kind = "array",
         NEW v, Leads(v, D)
  PROVE  WellMade(AssignItem(o, k, v)) /\ Within(AssignItem(o, k, v), D)
<1> DEFINE S == DOMAIN o.items \cup {k}
           items == [i \in S |-> IF i = k THEN v ELSE o.items[i]]
           u == AssignItem(o, k, v)
<1>1. u.items = items /\ u.kind = o.kind /\ u.names = o.names
      /\ u = [kind |-> u.kind, items |-> u.items, names |-> u.names]
  BY OtherItems DEF AssignItem
<1>2. \A i \in DOMAIN o.items : i \in Int /\ Leads(o.items[i], D)
  BY ItemsLead
<1>3. DOMAIN items = S /\ items = [i \in S |-> items[i]] /\ \A i \in S : Leads(items[i], D)
  BY <1>2
<1>4. S \in SUBSET Int /\ IsFiniteSet(S)
  BY <1>2, ItemsLead, FS_AddElement
<1> HIDE DEF items, u
<1>5. ItemsOk(u)
  <2>1. u.items \in [DOMAIN u.items -> Value]
    BY <1>1, <1>3 DEF Leads
  <2>2. u.kind = "tuple" => DOMAIN u.items = 1 .. Cardinality(DOMAIN u.items)
    <3> SUFFICES ASSUME u.kind = "tuple" PROVE DOMAIN u.items = 1 .. Cardinality(DOMAIN u.items)
      OBVIOUS
    <3>1. DOMAIN u.items = DOMAIN o.items
      BY <1>1, <1>3
    <3>2. DOMAIN o.items = 1 .. Cardinality(DOMAIN o.items)
      BY <1>1 DEF WellMade, ItemsOk
    <3>3. QED
      BY <3>1, <3>2
  <2>3. QED
    BY <1>1, <1>3, <1>4, <2>1, <2>2 DEF ItemsOk
<1>6. NamesOk(u)
  <2>1. /\ o.kind = "array" => o.names = <<>>
        /\ o.names \in [DOMAIN o.names -> DOMAIN o.items]
        /\ \A f, g \in DOMAIN o.names : f # g => o.names[f] # o.names[g]
    BY DEF WellMade, NamesOk
  <2>2. u.names \in [DOMAIN u.names -> DOMAIN u.items]
    BY <1>1, <1>3, <2>1
  <2>3. QED
    BY <1>1, <2>1, <2>2 DEF NamesOk
<1>7. WellMade(u)
  BY <1>1, <1>5, <1>6 DEF WellMade
<1>8. Within(u, D)
  BY <1>1, <1>3 DEF Within, PlacesIn, Leads
<1>9. QED
  BY <1>7, <1>8 DEF u

LEMMA DeletedIs ==
  ASSUME NEW D, NEW o, WellMade(o), Within(o, D), NEW k, o.kind = "array"
  PROVE  WellMade(Deleted(o, k)) /\ Within(Deleted(o, k), D)
<1> DEFINE S == DOMAIN o.items \ {k}
           items == [i \in S |-> o.items[i]]
           u == Deleted(o, k)
<1>1. u.items = items /\ u.kind = o.kind /\ u.names = o.names
      /\ u = [kind |-> u.kind, items |-> u.items, names |-> u.names]
  BY OtherItems DEF Deleted
<1>2. \A i \in DOMAIN o.items : i \in Int /\ Leads(o.items[i], D)
  BY ItemsLead
<1>3. DOMAIN items = S /\ items = [i \in S |-> items[i]] /\ \A i \in S : Leads(items[i], D)
  BY <1>2
<1>4. S \in SUBSET Int /\ IsFiniteSet(S)
  <2>1. S \subseteq DOMAIN o.items /\ IsFiniteSet(DOMAIN o.items)
    BY ItemsLead
  <2>2. QED
    BY <1>2, <2>1, FS_Subset
<1> HIDE DEF items, u
<1>5. ItemsOk(u)
  <2>1. u.items \in [DOMAIN u.items -> Value]
    BY <1>1, <1>3 DEF Leads
  <2>2. QED
    BY <1>1, <1>3, <1>4, <2>1 DEF ItemsOk
<1>6. NamesOk(u)
  <2>1. o.names = <<>>
    BY DEF WellMade, NamesOk
  <2>2. QED
    BY <1>1, <2>1 DEF NamesOk
<1>7. WellMade(u)
  BY <1>1, <1>5, <1>6 DEF WellMade
<1>8. Within(u, D)
  BY <1>1, <1>3 DEF Within, PlacesIn, Leads
<1>9. QED
  BY <1>7, <1>8 DEF u

\* An object becomes another one.
LEMMA ChangeKeeps ==
  ASSUME ObInv, steps' \in 0 .. MaxSteps, NEW p \in DOMAIN heap, NEW o, WellMade(o), Within(o, DOMAIN heap),
         Ends([heap EXCEPT ![p] = o], scope, Rest, NoLast)
  PROVE  ObInv'
<1> DEFINE m == [heap EXCEPT ![p] = o]
<1>1. heap = [q \in DOMAIN heap |-> heap[q]] /\ DOMAIN heap \subseteq Places
  BY DEF ObInv, MemoryOk
<1>2. DOMAIN m = DOMAIN heap /\ m = [q \in DOMAIN m |-> m[q]]
      /\ \A q \in DOMAIN heap : m[q] = IF q = p THEN o ELSE heap[q]
  BY <1>1
<1>3. Ends(m, scope, Rest, NoLast)
  OBVIOUS
<1> HIDE DEF m
<1>4. \A q \in DOMAIN m : WellMade(m[q]) /\ Within(m[q], DOMAIN m)
  BY <1>2, ObjectsAre
<1>5. MemoryOk(m)
  BY <1>1, <1>2, <1>4 DEF MemoryOk
<1>6. ScopeOk(scope, DOMAIN m) /\ CycleOk(Rest, DOMAIN m) /\ StatusOk
  BY <1>2, RestIs DEF ObInv
<1>7. QED
  BY <1>3, <1>5, <1>6, NothingLast, EndsKeeps

\* A variable becomes a value, or nothing changes but what there was last.
LEMMA SetKeeps ==
  ASSUME ObInv, steps' \in 0 .. MaxSteps, NEW x \in Visible, NEW v, Leads(v, DOMAIN heap),
         Ends(heap, [scope EXCEPT ![x] = v], Rest, NoLast)
  PROVE  ObInv'
<1>1. MemoryOk(heap) /\ CycleOk(Rest, DOMAIN heap) /\ StatusOk
  BY RestIs DEF ObInv
<1>2. ScopeOk([scope EXCEPT ![x] = v], DOMAIN heap)
  BY ScopeWith DEF ObInv
<1>3. QED
  BY <1>1, <1>2, NothingLast, EndsKeeps

LEMMA AssignIndicesKeeps == ObInv /\ AssignIndices => ObInv'
<1> SUFFICES ASSUME ObInv, AssignIndices PROVE ObInv'
  OBVIOUS
<1>1. PICK x \in Visible, p \in Objects :
        LET keys == InOrder(DOMAIN heap[p].items)
        IN New(x, Array([k \in DOMAIN keys |-> Number(keys[k])]))
  BY Zenon DEF AssignIndices
<1> DEFINE S == DOMAIN heap[p].items
           keys == InOrder(S)
           items == [k \in DOMAIN keys |-> Number(keys[k])]
           o == Array(items)
<1>2. New(x, o)
  BY <1>1
<1>3. steps' \in 0 .. MaxSteps
  BY StepsAre DEF AssignIndices, Statement
<1>4. S \in SUBSET Int /\ IsFiniteSet(S)
  BY ObjectsAre, ItemsLead
<1>5. Climbs(keys, Cardinality(S), S) /\ Cardinality(S) \in Nat
  BY <1>4, InOrderIs, FS_CardinalityType
<1> HIDE DEF keys, S
<1>6. DOMAIN keys = 1 .. Cardinality(S) /\ \A k \in DOMAIN keys : keys[k] \in Int
  BY <1>4, <1>5 DEF Climbs
<1>7. DOMAIN items = 1 .. Cardinality(S) /\ items = [k \in DOMAIN items |-> items[k]]
      /\ \A k \in DOMAIN items : items[k] \in Value /\ items[k].place = 0
  BY <1>6, PlaceIs
<1> HIDE DEF items
<1>8. o.items = items /\ o.names = <<>> /\ o.kind = "array"
      /\ o = [kind |-> o.kind, items |-> o.items, names |-> o.names]
  BY DEF Array
<1> HIDE DEF o
<1>9. ItemsOk(o)
  <2>1. items \in [DOMAIN items -> Value]
    BY <1>7
  <2>2. DOMAIN items \in SUBSET Int
    BY <1>5, <1>7
  <2>3. IsFiniteSet(DOMAIN items)
    BY <1>5, <1>7, FS_Interval
  <2>4. QED
    BY <1>8, <2>1, <2>2, <2>3 DEF ItemsOk
<1>10. WellMade(o)
  <2>1. NamesOk(o)
    BY <1>8 DEF NamesOk
  <2>2. QED
    BY <1>8, <1>9, <2>1 DEF WellMade
<1>11. Within(o, DOMAIN heap)
  BY <1>7, <1>8 DEF Within, PlacesIn
<1>12. QED
  BY <1>2, <1>3, <1>10, <1>11, NewKeeps

LEMMA AssignVariableKeeps == ObInv /\ AssignVariable => ObInv'
<1> SUFFICES ASSUME ObInv, AssignVariable PROVE ObInv'
  OBVIOUS
<1>1. steps' \in 0 .. MaxSteps
  BY StepsAre DEF AssignVariable, Statement
<1>2. PICK x \in Visible :
        \/ \E v \in Operands : Ends(heap, [scope EXCEPT ![x] = v], Rest, NoLast)
        \/ \E y \in Visible, acc \in Accessors :
             IF Accessed(scope[y], acc) = {} THEN Fails
             ELSE \E v \in Accessed(scope[y], acc) : Ends(heap, [scope EXCEPT ![x] = v], Rest, NoLast)
  BY Zenon DEF AssignVariable
<1>3. ASSUME NEW v \in Operands, Ends(heap, [scope EXCEPT ![x] = v], Rest, NoLast) PROVE ObInv'
  BY <1>1, <1>3, OperandsAre, SetKeeps
<1>4. ASSUME NEW y \in Visible, NEW acc \in Accessors, NEW v \in Accessed(scope[y], acc),
             Ends(heap, [scope EXCEPT ![x] = v], Rest, NoLast)
      PROVE  ObInv'
  <2>1. Leads(scope[y], DOMAIN heap)
    BY OperandsAre DEF Operands
  <2>2. Leads(v, DOMAIN heap)
    BY <2>1, AccessedLeads
  <2>3. QED
    BY <1>1, <1>4, <2>2, SetKeeps
<1>5. CASE Fails
  BY <1>1, <1>5, FailsKeeps
<1>6. QED
  BY Zenon, <1>2, <1>3, <1>4, <1>5

LEMMA AssignThroughKeeps == ObInv /\ AssignThrough => ObInv'
<1> SUFFICES ASSUME ObInv, AssignThrough PROVE ObInv'
  OBVIOUS
<1>1. steps' \in 0 .. MaxSteps
  BY StepsAre DEF AssignThrough, Statement
<1>2. PICK y \in Visible, v \in Operands, acc \in Accessors, chain \in BoundedSeq(Accessors, 1) :
        LET objects == IF chain = <<>> THEN {scope[y]} ELSE Accessed(scope[y], Head(chain))
            found == {o.place : o \in {b \in objects : IsObject(b)}}
        IN IF \E p \in found : KeysAt(heap[p], acc) # {}
           THEN \E p \in found : \E k \in KeysAt(heap[p], acc) :
                  LET object == AssignItem(heap[p], k, v)
                  IN /\ Cardinality(DOMAIN object.items) <= MaxLength
                     /\ Ends([heap EXCEPT ![p] = object], scope, Rest, NoLast)
           ELSE Fails
  BY Zenon DEF AssignThrough
<1> DEFINE objects == IF chain = <<>> THEN {scope[y]} ELSE Accessed(scope[y], Head(chain))
           found == {o.place : o \in {b \in objects : IsObject(b)}}
<1>3. \/ Fails
      \/ \E p \in found : \E k \in KeysAt(heap[p], acc) :
           Ends([heap EXCEPT ![p] = AssignItem(heap[p], k, v)], scope, Rest, NoLast)
  BY <1>2
<1>4. \A o \in objects : Leads(o, DOMAIN heap)
  <2>1. Leads(scope[y], DOMAIN heap)
    BY OperandsAre DEF Operands
  <2>2. QED
    BY <2>1, AccessedLeads
<1> HIDE DEF objects
<1>5. ASSUME NEW p \in found, NEW k \in KeysAt(heap[p], acc),
             Ends([heap EXCEPT ![p] = AssignItem(heap[p], k, v)], scope, Rest, NoLast)
      PROVE  ObInv'
  <2>1. p \in DOMAIN heap
    BY <1>4 DEF Leads, IsObject
  <2>2. WellMade(heap[p]) /\ Within(heap[p], DOMAIN heap)
    BY <2>1, ObjectsAre
  <2>3. k \in Int /\ (k \in DOMAIN heap[p].items \/ heap[p].kind = "array")
    BY <2>2, KeysAre
  <2>4. Leads(v, DOMAIN heap)
    BY OperandsAre
  <2>5. WellMade(AssignItem(heap[p], k, v)) /\ Within(AssignItem(heap[p], k, v), DOMAIN heap)
    BY <2>2, <2>3, <2>4, AssignItemIs
  <2>6. QED
    BY <1>1, <1>5, <2>1, <2>5, ChangeKeeps
<1>6. CASE Fails
  BY <1>1, <1>6, FailsKeeps
<1> HIDE DEF found
<1>7. QED
  BY Zenon, <1>3, <1>5, <1>6

LEMMA DeleteKeeps == ObInv /\ Delete => ObInv'
<1> SUFFICES ASSUME ObInv, Delete PROVE ObInv'
  OBVIOUS
<1>1. steps' \in 0 .. MaxSteps
  BY StepsAre DEF Delete, Statement
<1>2. PICK p \in Objects, k \in Indices :
       /\ heap[p].kind = "array"
       /\ IF k \in DOMAIN heap[p].items
          THEN Ends([heap EXCEPT ![p] = Deleted(@, k)], scope, Rest, NoLast)
          ELSE Fails
  BY Zenon DEF Delete
<1>3. p \in DOMAIN heap /\ WellMade(heap[p]) /\ Within(heap[p], DOMAIN heap)
  BY ObjectsAre
<1>4. WellMade(Deleted(heap[p], k)) /\ Within(Deleted(heap[p], k), DOMAIN heap)
  BY <1>2, <1>3, DeletedIs
<1>5. CASE Ends([heap EXCEPT ![p] = Deleted(heap[p], k)], scope, Rest, NoLast)
  BY <1>1, <1>3, <1>4, <1>5, ChangeKeeps
<1>6. CASE Fails
  BY <1>1, <1>6, FailsKeeps
<1>7. QED
  BY <1>2, <1>5, <1>6

LEMMA PrintKeeps == ObInv /\ PrintStatement => ObInv'
<1> SUFFICES ASSUME ObInv, PrintStatement PROVE ObInv'
  OBVIOUS
<1>1. steps' \in 0 .. MaxSteps
  BY StepsAre DEF PrintStatement, Statement
<1>2. PICK x \in Visible :
        Ends(heap, scope, Rest, [kind |-> "print", value |-> scope[x], text |-> PrintSelf(scope[x])])
  BY Zenon DEF PrintStatement
<1>3. \A a, b : LastOk([kind |-> "print", value |-> a, text |-> b], heap)
  BY DEF LastOk
<1>4. MemoryOk(heap) /\ ScopeOk(scope, DOMAIN heap) /\ CycleOk(Rest, DOMAIN heap) /\ StatusOk
  BY RestIs DEF ObInv
<1>5. QED
  BY <1>1, <1>2, <1>3, <1>4, EndsKeeps

-----------------------------------------------------------------------------
(* Sums.                                                                   *)

\* An array's sum, by index: the left items, and the right ones d further.
IsArraySum(sum, left, right, d) ==
  LET L == DOMAIN left.items
      R == DOMAIN right.items
  IN /\ d \in Int /\ L \in SUBSET Int /\ R \in SUBSET Int
     /\ Greatest(L) \in L /\ Least(R) \in R /\ Least(R) + d = Greatest(L) + 1
     /\ \A k \in L, m \in R : k < m + d
     /\ DOMAIN sum = L \cup {m + d : m \in R} /\ IsFiniteSet(DOMAIN sum)
     /\ Cardinality(DOMAIN sum) = Cardinality(L) + Cardinality(R)
     /\ sum = [k \in DOMAIN sum |-> sum[k]]
     /\ \A k \in L : sum[k] = left.items[k]
     /\ \A m \in R : sum[m + d] = right.items[m]
LEMMA ArraySumIs ==
  ASSUME NEW left, NEW right, WellMade(left), WellMade(right),
         DOMAIN left.items # {}, DOMAIN right.items # {}
  PROVE  IsArraySum(ArraySum(left.items, right.items), left, right, Shift(left.items, right.items))
<1> DEFINE L == DOMAIN left.items
           R == DOMAIN right.items
           d == Shift(left.items, right.items)
           moved == {m + d : m \in R}
           sum == ArraySum(left.items, right.items)
<1>1. L \in SUBSET Int /\ R \in SUBSET Int /\ IsFiniteSet(L) /\ IsFiniteSet(R)
  BY DEF WellMade, ItemsOk
<1>2. /\ Greatest(L) \in L /\ \A k \in L : k <= Greatest(L)
      /\ Least(R) \in R /\ \A m \in R : Least(R) <= m
  BY <1>1, EndsAre
<1>3. d = Greatest(L) - Least(R) + 1
  BY DEF Shift
<1>4. sum = [k \in L \cup moved |-> IF k \in moved THEN right.items[k - d] ELSE left.items[k]]
  BY DEF ArraySum
<1> HIDE DEF L, R, d, sum
<1>7. d \in Int /\ Least(R) + d = Greatest(L) + 1
  <2>1. Greatest(L) \in Int /\ Least(R) \in Int
    BY <1>1, <1>2
  <2>2. QED
    BY <1>3, <2>1
<1>8. ASSUME NEW k \in L, NEW m \in R PROVE k < m + d
  <2>1. k \in Int /\ m \in Int /\ Greatest(L) \in Int /\ Least(R) \in Int
    BY <1>1, <1>2
  <2>2. k <= Greatest(L) /\ Least(R) <= m
    BY <1>2
  <2>3. QED
    BY <1>7, <2>1, <2>2
<1>9. ASSUME NEW k \in L PROVE k \notin moved
  <2> SUFFICES ASSUME NEW m \in R, k = m + d PROVE FALSE
    OBVIOUS
  <2>1. k < m + d /\ k \in Int
    BY <1>1, <1>8
  <2>2. QED
    BY <2>1
<1>10. ASSUME NEW m \in R PROVE m + d \in moved /\ (m + d) - d = m
  BY <1>1, <1>7
<1>5. IsFiniteSet(moved) /\ Cardinality(moved) = Cardinality(R)
  <2> DEFINE f == [m \in R |-> m + d]
  <2>1. f \in [R -> moved] /\ \A m \in R : f[m] = m + d
    OBVIOUS
  <2>2. \A m, n \in R : f[m] = f[n] => m = n
    BY <1>10, <2>1
  <2>3. \A k \in moved : \E m \in R : f[m] = k
    BY <2>1
  <2> HIDE DEF f
  <2>4. f \in Bijection(R, moved)
    BY <2>1, <2>2, <2>3 DEF Bijection, Injection, Surjection, IsInjective
  <2>5. QED
    BY <1>1, <2>4, FS_Bijection DEF ExistsBijection
<1>6. IsFiniteSet(L \cup moved) /\ Cardinality(L \cup moved) = Cardinality(L) + Cardinality(R)
  <2>1. L \cap moved = {}
    BY <1>9
  <2>2. IsFiniteSet(L \cup moved)
        /\ Cardinality(L \cup moved) = Cardinality(L) + Cardinality(moved) - Cardinality(L \cap moved)
    BY <1>1, <1>5, FS_Union
  <2>3. Cardinality(L \cap moved) = 0 /\ Cardinality(L) \in Nat /\ Cardinality(R) \in Nat
    BY <1>1, <2>1, FS_EmptySet, FS_CardinalityType
  <2>4. QED
    BY <1>5, <2>2, <2>3
<1>11. DOMAIN sum = L \cup moved /\ sum = [k \in DOMAIN sum |-> sum[k]]
  BY <1>4
<1>12. \A k \in L : sum[k] = left.items[k]
  BY <1>4, <1>9
<1>13. \A m \in R : sum[m + d] = right.items[m]
  BY <1>4, <1>10
<1>14. QED
  BY <1>1, <1>2, <1>6, <1>7, <1>8, <1>11, <1>12, <1>13 DEF L, R, d, sum, IsArraySum

\* A tuple's sum: the items of both, and the names of both, those of the right
\* side for the items that have moved.
LEMMA TupleItemsAre ==
  ASSUME NEW o, WellMade(o), o.kind = "tuple"
  PROVE  /\ o.items \in Seq(Value) /\ Len(o.items) \in Nat
         /\ DOMAIN o.items = 1 .. Len(o.items) /\ Cardinality(DOMAIN o.items) = Len(o.items)
<1>1. /\ o.items \in [DOMAIN o.items -> Value] /\ IsFiniteSet(DOMAIN o.items)
      /\ DOMAIN o.items = 1 .. Cardinality(DOMAIN o.items)
  BY DEF WellMade, ItemsOk
<1> DEFINE n == Cardinality(DOMAIN o.items)
           s == o.items
<1>2. n \in Nat
  BY <1>1, FS_CardinalityType
<1>3. DOMAIN s = 1 .. n /\ s \in [1 .. n -> Value]
  BY <1>1
<1> HIDE DEF n, s
<1>4. s \in Seq(Value) /\ Len(s) = n
  BY <1>2, <1>3
<1>5. QED
  BY <1>2, <1>3, <1>4 DEF n, s

\* What concatenation does, index by index.
LEMMA JoinedIs ==
  ASSUME NEW S, NEW s \in Seq(S), NEW t \in Seq(S)
  PROVE  /\ s \o t \in Seq(S) /\ Len(s) \in Nat /\ Len(t) \in Nat
         /\ Len(s \o t) = Len(s) + Len(t) /\ DOMAIN (s \o t) = 1 .. Len(s) + Len(t)
         /\ \A k \in 1 .. Len(s) : (s \o t)[k] = s[k]
         /\ \A k \in 1 .. Len(t) : (s \o t)[k + Len(s)] = t[k]
OBVIOUS

\* And only that is the concatenation.
LEMMA JoinedAre ==
  ASSUME NEW S, NEW s \in Seq(S), NEW t \in Seq(S), NEW u \in Seq(S), Len(u) = Len(s) + Len(t),
         \A k \in 1 .. Len(s) : u[k] = s[k], \A k \in 1 .. Len(t) : u[k + Len(s)] = t[k]
  PROVE  u = s \o t
<1> DEFINE v == s \o t
           n == Len(s)
           m == Len(t)
<1>1. /\ v \in Seq(S) /\ n \in Nat /\ m \in Nat /\ Len(v) = n + m
      /\ \A k \in 1 .. n : v[k] = s[k]
      /\ \A k \in 1 .. m : v[k + n] = t[k]
  BY JoinedIs
<1> HIDE DEF v, n, m
<1>2. ASSUME NEW k \in 1 .. n + m PROVE u[k] = v[k]
  <2>1. CASE k <= n
    <3>1. k \in 1 .. n
      BY <1>1, <2>1
    <3>2. QED
      BY <1>1, <3>1 DEF n
  <2>2. CASE ~(k <= n)
    <3>1. k - n \in 1 .. m /\ (k - n) + n = k
      BY <1>1, <2>2
    <3>2. u[(k - n) + n] = t[k - n] /\ v[(k - n) + n] = t[k - n]
      BY <1>1, <3>1 DEF n, m
    <3>3. QED
      BY <3>1, <3>2
  <2>3. QED
    BY <2>1, <2>2
<1>3. u = v
  <2>1. Len(u) = n + m /\ u \in Seq(S) /\ v \in Seq(S) /\ Len(v) = n + m
    BY <1>1 DEF n, m
  <2>2. QED
    BY <1>2, <2>1
<1>4. QED
  BY <1>3 DEF v

IsTupleSum(items, names, left, right, n, m) ==
  /\ n \in Nat /\ m \in Nat
  /\ DOMAIN left.items = 1 .. n /\ DOMAIN right.items = 1 .. m
  /\ items \in Seq(Value) /\ Len(items) = n + m /\ DOMAIN items = 1 .. n + m
  /\ \A k \in 1 .. n : items[k] = left.items[k]
  /\ \A k \in 1 .. m : items[k + n] = right.items[k]
  /\ DOMAIN names = DOMAIN left.names \cup DOMAIN right.names
  /\ \A f \in DOMAIN names :
       IF f \in DOMAIN left.names THEN names[f] = left.names[f] /\ names[f] \in 1 .. n
       ELSE names[f] = right.names[f] + n /\ right.names[f] \in 1 .. m
  /\ names = [f \in DOMAIN names |-> names[f]]
LEMMA TupleSumIs ==
  ASSUME NEW left, NEW right, WellMade(left), WellMade(right), left.kind = "tuple", right.kind = "tuple"
  PROVE  IsTupleSum(left.items \o right.items, NamesOfBoth(left, right), left, right,
                    Len(left.items), Len(right.items))
<1> DEFINE s == left.items
           t == right.items
           n == Len(s)
           m == Len(t)
           names == NamesOfBoth(left, right)
<1>1. s \in Seq(Value) /\ n \in Nat /\ DOMAIN s = 1 .. n
  BY TupleItemsAre
<1>2. t \in Seq(Value) /\ m \in Nat /\ DOMAIN t = 1 .. m
  BY TupleItemsAre
<1>3. names = [f \in DOMAIN left.names \cup DOMAIN right.names |->
                 IF f \in DOMAIN left.names THEN left.names[f] ELSE right.names[f] + n]
  BY DEF NamesOfBoth
<1>4. /\ left.names \in [DOMAIN left.names -> DOMAIN s]
      /\ right.names \in [DOMAIN right.names -> DOMAIN t]
  BY DEF WellMade, NamesOk
<1> HIDE DEF s, t
<1>5. s \o t \in Seq(Value) /\ Len(s \o t) = n + m /\ DOMAIN (s \o t) = 1 .. n + m
  BY <1>1, <1>2, JoinedIs
<1>6. \A k \in 1 .. n : (s \o t)[k] = s[k]
  BY <1>1, <1>2, JoinedIs
<1>7. \A k \in 1 .. m : (s \o t)[k + n] = t[k]
  BY <1>1, <1>2, JoinedIs
<1> HIDE DEF names, n, m
<1>8. names = [f \in DOMAIN names |-> names[f]] /\ DOMAIN names = DOMAIN left.names \cup DOMAIN right.names
  BY <1>3
<1>9. ASSUME NEW f \in DOMAIN names
      PROVE  IF f \in DOMAIN left.names THEN names[f] = left.names[f] /\ names[f] \in 1 .. n
             ELSE names[f] = right.names[f] + n /\ right.names[f] \in 1 .. m
  <2>1. CASE f \in DOMAIN left.names
    <3>1. names[f] = left.names[f]
      BY <1>3, <1>8, <2>1
    <3>2. left.names[f] \in DOMAIN s
      BY <1>4, <2>1
    <3>3. QED
      BY <1>1, <2>1, <3>1, <3>2
  <2>2. CASE f \notin DOMAIN left.names
    <3>1. names[f] = right.names[f] + n
      BY <1>3, <1>8, <2>2
    <3>2. right.names[f] \in DOMAIN t
      BY <1>4, <1>8, <2>2
    <3>3. QED
      BY <1>2, <2>2, <3>1, <3>2
  <2>3. QED
    BY <2>1, <2>2
<1>10. QED
  BY <1>1, <1>2, <1>5, <1>6, <1>7, <1>8, <1>9 DEF names, n, m, s, t, IsTupleSum

LEMMA SumIs ==
  ASSUME NEW D, NEW left, NEW right, WellMade(left), WellMade(right), left.kind = right.kind,
         Within(left, D), Within(right, D)
  PROVE  WellMade(SumOf(left, right)) /\ Within(SumOf(left, right), D)
<1>1. left.kind \in {"array", "tuple"}
  BY DEF WellMade
<1>2. CASE left.kind = "array"
  <2> DEFINE items == ArraySum(left.items, right.items)
             o == Array(items)
  <2>1. SumOf(left, right) = o
    BY <1>2 DEF SumOf
  <2>2. o.items = items /\ o.names = <<>> /\ o.kind = "array"
        /\ o = [kind |-> o.kind, items |-> o.items, names |-> o.names]
    BY DEF Array
  <2> HIDE DEF o
  <2>3. /\ \A k \in DOMAIN left.items : k \in Int /\ Leads(left.items[k], D)
        /\ \A k \in DOMAIN right.items : k \in Int /\ Leads(right.items[k], D)
        /\ IsFiniteSet(DOMAIN left.items) /\ IsFiniteSet(DOMAIN right.items)
        /\ left.items = [k \in DOMAIN left.items |-> left.items[k]]
        /\ right.items = [k \in DOMAIN right.items |-> right.items[k]]
    <3>1. /\ left.items = [k \in DOMAIN left.items |-> left.items[k]]
          /\ right.items = [k \in DOMAIN right.items |-> right.items[k]]
      BY DEF WellMade, ItemsOk
    <3>2. QED
      BY <3>1, ItemsLead
  <2>4. /\ \A k \in DOMAIN items : k \in Int /\ Leads(items[k], D)
        /\ IsFiniteSet(DOMAIN items) /\ items = [k \in DOMAIN items |-> items[k]]
    <3>1. CASE DOMAIN left.items = {}
      BY <2>3, <3>1 DEF ArraySum
    <3>2. CASE DOMAIN left.items # {} /\ DOMAIN right.items = {}
      BY <2>3, <3>2 DEF ArraySum
    <3>3. CASE DOMAIN left.items # {} /\ DOMAIN right.items # {}
      <4> DEFINE d == Shift(left.items, right.items)
      <4>1. /\ d \in Int
            /\ DOMAIN items = DOMAIN left.items \cup {m + d : m \in DOMAIN right.items}
            /\ IsFiniteSet(DOMAIN items) /\ items = [k \in DOMAIN items |-> items[k]]
            /\ \A k \in DOMAIN left.items : items[k] = left.items[k]
            /\ \A m \in DOMAIN right.items : items[m + d] = right.items[m]
        <5>1. IsArraySum(items, left, right, d)
          BY <3>3, ArraySumIs
        <5> HIDE DEF d, items
        <5>2. QED
          BY <5>1 DEF IsArraySum
      <4> HIDE DEF d, items
      <4>2. ASSUME NEW k \in DOMAIN items PROVE k \in Int /\ Leads(items[k], D)
        <5>1. CASE k \in DOMAIN left.items
          BY <2>3, <4>1, <5>1
        <5>2. CASE \E m \in DOMAIN right.items : k = m + d
          BY <2>3, <4>1, <5>2
        <5>3. QED
          BY <4>1, <5>1, <5>2
      <4>3. QED
        BY <4>1, <4>2
    <3>4. QED
      BY <3>1, <3>2, <3>3
  <2> HIDE DEF items
  <2>5. ItemsOk(o) /\ NamesOk(o)
    BY <2>2, <2>4 DEF ItemsOk, NamesOk, Leads
  <2>6. WellMade(o) /\ Within(o, D)
    BY <2>2, <2>4, <2>5 DEF WellMade, Within, PlacesIn, Leads
  <2>7. QED
    BY <2>1, <2>6
<1>3. CASE left.kind = "tuple"
  <2> DEFINE n == Len(left.items)
             m == Len(right.items)
             items == left.items \o right.items
             names == NamesOfBoth(left, right)
             o == Tuple(items, names)
  <2>1. SumOf(left, right) = o
    BY <1>3 DEF SumOf, TupleSum
  <2>2. o.items = items /\ o.names = names /\ o.kind = "tuple"
        /\ o = [kind |-> o.kind, items |-> o.items, names |-> o.names]
    BY DEF Tuple
  <2>3. /\ n \in Nat /\ m \in Nat
        /\ DOMAIN left.items = 1 .. n /\ DOMAIN right.items = 1 .. m
        /\ items \in Seq(Value) /\ Len(items) = n + m /\ DOMAIN items = 1 .. n + m
        /\ \A k \in 1 .. n : items[k] = left.items[k]
        /\ \A k \in 1 .. m : items[k + n] = right.items[k]
        /\ DOMAIN names = DOMAIN left.names \cup DOMAIN right.names
        /\ \A f \in DOMAIN names :
             IF f \in DOMAIN left.names THEN names[f] = left.names[f] /\ names[f] \in 1 .. n
             ELSE names[f] = right.names[f] + n /\ right.names[f] \in 1 .. m
        /\ names = [f \in DOMAIN names |-> names[f]]
    <3>1. IsTupleSum(items, names, left, right, n, m)
      BY <1>3, TupleSumIs
    <3> HIDE DEF items, names, n, m
    <3>2. QED
      BY <3>1 DEF IsTupleSum
  <2>4. /\ \A k \in DOMAIN left.items : Leads(left.items[k], D)
        /\ \A k \in DOMAIN right.items : Leads(right.items[k], D)
    BY ItemsLead
  <2> HIDE DEF n, m, items, names, o
  <2>5. ASSUME NEW k \in DOMAIN items PROVE Leads(items[k], D)
    <3>1. CASE k \in 1 .. n
      BY <2>3, <2>4, <3>1
    <3>2. CASE k \notin 1 .. n
      <4>1. k - n \in 1 .. m /\ (k - n) + n = k
        BY <2>3, <3>2
      <4>2. items[k] = right.items[k - n] /\ k - n \in DOMAIN right.items
        BY <2>3, <4>1
      <4>3. QED
        BY <2>4, <4>2
    <3>3. QED
      BY <3>1, <3>2
  <2>6. ItemsOk(o)
    <3>1. 1 .. n + m \in SUBSET Int /\ IsFiniteSet(1 .. n + m) /\ Cardinality(1 .. n + m) = n + m
      <4>1. n + m \in Nat
        BY <2>3
      <4>2. QED
        BY <4>1, FS_Interval
    <3>2. items \in [DOMAIN items -> Value]
      BY <2>3
    <3>3. QED
      BY <2>2, <2>3, <3>1, <3>2 DEF ItemsOk
  <2>7. NamesOk(o)
    <3>1. ASSUME NEW f \in DOMAIN names PROVE names[f] \in 1 .. n + m
      BY <2>3, <3>1
    <3>2. names \in [DOMAIN names -> DOMAIN items]
      BY <2>3, <3>1
    <3>3. ASSUME NEW f \in DOMAIN names, NEW g \in DOMAIN names, f # g PROVE names[f] # names[g]
      <4>1. /\ \A a, b \in DOMAIN left.names : a # b => left.names[a] # left.names[b]
            /\ \A a, b \in DOMAIN right.names : a # b => right.names[a] # right.names[b]
        BY DEF WellMade, NamesOk
      <4>2. CASE f \in DOMAIN left.names /\ g \in DOMAIN left.names
        BY <2>3, <3>3, <4>1, <4>2
      <4>3. CASE f \in DOMAIN left.names /\ g \notin DOMAIN left.names
        <5>1. names[f] \in 1 .. n /\ names[g] = right.names[g] + n /\ right.names[g] \in 1 .. m
          BY <2>3, <4>3
        <5>2. QED
          BY <2>3, <5>1
      <4>4. CASE f \notin DOMAIN left.names /\ g \in DOMAIN left.names
        <5>1. names[g] \in 1 .. n /\ names[f] = right.names[f] + n /\ right.names[f] \in 1 .. m
          BY <2>3, <4>4
        <5>2. QED
          BY <2>3, <5>1
      <4>5. CASE f \notin DOMAIN left.names /\ g \notin DOMAIN left.names
        <5>1. /\ names[f] = right.names[f] + n /\ right.names[f] \in 1 .. m
              /\ names[g] = right.names[g] + n /\ right.names[g] \in 1 .. m
          BY <2>3, <4>5
        <5>2. right.names[f] # right.names[g]
          BY <2>3, <3>3, <4>1, <4>5
        <5>3. QED
          BY <2>3, <5>1, <5>2
      <4>6. QED
        BY <4>2, <4>3, <4>4, <4>5
    <3>4. QED
      BY <2>2, <3>2, <3>3 DEF NamesOk
  <2>8. WellMade(o) /\ Within(o, D)
    BY <2>2, <2>5, <2>6, <2>7 DEF WellMade, Within, PlacesIn, Leads
  <2>9. QED
    BY <2>1, <2>8
<1>4. QED
  BY <1>1, <1>2, <1>3

LEMMA AssignSumKeeps == ObInv /\ AssignSum => ObInv'
<1> SUFFICES ASSUME ObInv, AssignSum PROVE ObInv'
  OBVIOUS
<1>1. steps' \in 0 .. MaxSteps /\ Free # {}
  BY StepsAre DEF AssignSum, Statement
<1>2. PICK x \in Visible, p \in Objects, q \in Objects :
       /\ heap[p].kind = heap[q].kind
       /\ LET sum == SumOf(heap[p], heap[q])
          IN /\ Cardinality(DOMAIN sum.items) <= MaxLength
             /\ Ends(With(sum), [scope EXCEPT ![x] = Object(Least(Free))], Rest,
                     [kind |-> "sum", left |-> heap[p], right |-> heap[q], at |-> Least(Free)])
  BY Zenon DEF AssignSum
<1> DEFINE o == SumOf(heap[p], heap[q])
           a == Least(Free)
           l == [kind |-> "sum", left |-> heap[p], right |-> heap[q], at |-> a]
<1>3. /\ WellMade(heap[p]) /\ Within(heap[p], DOMAIN heap)
      /\ WellMade(heap[q]) /\ Within(heap[q], DOMAIN heap)
  BY ObjectsAre
<1>4. WellMade(o) /\ Within(o, DOMAIN heap)
  BY <1>2, <1>3, SumIs
<1>5. Ends(With(o), [scope EXCEPT ![x] = Object(a)], Rest, l)
  BY <1>2
<1>6. l.kind = "sum" /\ l.left = heap[p] /\ l.right = heap[q] /\ l.at = a /\ o = SumOf(l.left, l.right)
  OBVIOUS
<1> HIDE DEF o, l
<1>7. DOMAIN With(o) = DOMAIN heap \cup {a} /\ With(o)[a] = o
  BY <1>1, <1>4, WithIs
<1> HIDE DEF a
<1>8. LastOk(l, With(o))
  <2>1. Within(l.left, DOMAIN With(o)) /\ Within(l.right, DOMAIN With(o))
    BY <1>3, <1>6, <1>7 DEF Within
  <2>2. QED
    BY <1>2, <1>3, <1>6, <1>7, <2>1 DEF LastOk
<1>9. QED
  BY <1>1, <1>4, <1>5, <1>8, MadeKeeps DEF a

-----------------------------------------------------------------------------
(* The turns of a for.                                                     *)

LEMMA SequenceIs ==
  ASSUME NEW S, NEW n \in Nat, NEW f, f \in [1 .. n -> S]
  PROVE  f \in Seq(S) /\ Len(f) = n /\ DOMAIN f = 1 .. n
OBVIOUS

LEMMA SameSequence ==
  ASSUME NEW S, NEW s \in Seq(S), NEW t \in Seq(S), Len(s) = Len(t), \A k \in 1 .. Len(s) : s[k] = t[k]
  PROVE  s = t
OBVIOUS

LEMMA PrefixIs ==
  ASSUME NEW S, NEW s \in Seq(S), NEW t \in Seq(S), Begins(s, t)
  PROVE  IsPrefix(s, t)
<1> DEFINE n == Len(s)
           a == SubSeq(s, 1, n)
           b == SubSeq(t, 1, n)
<1>1. n \in Nat /\ Len(t) \in Nat /\ n <= Len(t) /\ \A k \in 1 .. n : s[k] = t[k]
  BY DEF Begins
<1>2. a \in Seq(S) /\ Len(a) = n /\ \A k \in 1 .. n : a[k] = s[k]
  BY <1>1
<1>3. b \in Seq(S) /\ Len(b) = n /\ \A k \in 1 .. n : b[k] = t[k]
  BY <1>1
<1> HIDE DEF a, b
<1>4. a = b
  BY <1>1, <1>2, <1>3, SameSequence
<1>5. QED
  BY <1>1, <1>4 DEF IsPrefix, a, b

LEMMA AppendedIs ==
  ASSUME NEW S, NEW s \in Seq(S), NEW v \in S
  PROVE  /\ Append(s, v) \in Seq(S) /\ Len(s) \in Nat /\ Len(Append(s, v)) = Len(s) + 1
         /\ Append(s, v)[Len(s) + 1] = v /\ \A k \in 1 .. Len(s) : Append(s, v)[k] = s[k]
OBVIOUS

\* The value of the variable is the one due.
LEMMA TurnValueIs ==
  ASSUME NEW c, NEW n, AtTurn(c, n)
  PROVE  TurnValue(c) = c.due[n] /\ TurnValue(c) \in Value
<1>1. c \in Cycles /\ n \in 1 .. Len(c.due)
  BY DEF AtTurn
<1>2. c.due \in Seq(Value) /\ Len(c.due) \in Nat /\ c.cur \in Int /\ c.kind \in {"range", "items", "times"}
  BY <1>1 DEF Cycles
<1>3. c.due[n] \in Value
  BY <1>1, <1>2
<1>4. CASE c.kind = "range"
  <2>1. InRange(c, n) /\ TurnValue(c) = Number(c.cur)
    BY <1>4 DEF AtTurn, TurnValue
  <2>2. CASE c.decrement
    <3>1. c.due[n] = Number(c.cur + n - n)
      BY <1>1, <2>1, <2>2 DEF InRange
    <3>2. c.cur + n - n = c.cur
      BY <1>1, <1>2
    <3>3. QED
      BY <1>3, <2>1, <3>1, <3>2
  <2>3. CASE ~c.decrement
    <3>1. c.due[n] = Number(c.cur - n + n)
      BY <1>1, <2>1, <2>3 DEF InRange
    <3>2. c.cur - n + n = c.cur
      BY <1>1, <1>2
    <3>3. QED
      BY <1>3, <2>1, <3>1, <3>2
  <2>4. QED
    BY <2>2, <2>3
<1>5. CASE c.kind = "items"
  BY <1>3, <1>5 DEF AtTurn, TurnValue, InItems, ItemsSeen
<1>6. CASE c.kind = "times"
  <2>1. TurnValue(c) = Number(c.cur) /\ c.cur = n /\ c.due[n] = Number(n)
    BY <1>1, <1>6 DEF AtTurn, TurnValue, InTimes
  <2>2. QED
    BY <1>3, <2>1
<1>7. QED
  BY <1>2, <1>4, <1>5, <1>6

LEMMA TurnIs ==
  ASSUME NEW c, AtTurn(c, Len(c.seen) + 1), Begins(c.seen, c.due)
  PROVE  LET d == [c EXCEPT !.seen = Append(@, TurnValue(c))]
         IN AtTurn(d, Len(d.seen)) /\ Begins(d.seen, d.due) /\ PlacesOfCycle(d) = PlacesOfCycle(c)
<1> DEFINE v == TurnValue(c)
           s == Append(c.seen, v)
           d == [c EXCEPT !.seen = s]
           n == Len(c.seen) + 1
<1>1. v = c.due[n] /\ v \in Value
  BY TurnValueIs
<1>2. c \in Cycles /\ n \in 1 .. Len(c.due)
  BY DEF AtTurn
<1>3. c.seen \in Seq(Value) /\ c.due \in Seq(Value)
  BY <1>2 DEF Cycles
<1> HIDE DEF v
<1>4. /\ s \in Seq(Value) /\ Len(c.seen) \in Nat /\ Len(s) = n /\ s[n] = v
      /\ \A k \in 1 .. Len(c.seen) : s[k] = c.seen[k]
  BY <1>1, <1>3, AppendedIs
<1> HIDE DEF s
<1>5. /\ d.kind = c.kind /\ d.over = c.over /\ d.items = c.items /\ d.cur = c.cur /\ d.end = c.end
      /\ d.decrement = c.decrement /\ d.due = c.due /\ d.seen = s /\ d \in Cycles
  BY <1>2, <1>4 DEF Cycles
<1>6. d = [c EXCEPT !.seen = Append(@, TurnValue(c))]
  BY DEF s, v
<1> HIDE DEF d
<1>7. AtTurn(d, n)
  BY <1>2, <1>5 DEF AtTurn, InRange, InItems, InTimes
<1>8. Begins(s, c.due)
  <2>1. \A k \in 1 .. Len(c.seen) : c.seen[k] = c.due[k]
    BY DEF Begins
  <2>2. Len(s) <= Len(c.due)
    BY <1>2, <1>3, <1>4
  <2>3. ASSUME NEW k \in 1 .. Len(s) PROVE s[k] = c.due[k]
    <3>1. k \in 1 .. Len(c.seen) \/ k = n
      BY <1>4
    <3>2. QED
      BY <1>1, <1>4, <2>1, <3>1
  <2>4. QED
    BY <2>2, <2>3 DEF Begins
<1>9. PlacesOfCycle(d) = PlacesOfCycle(c)
  BY <1>5 DEF PlacesOfCycle
<1>10. AtTurn(d, Len(d.seen)) /\ Begins(d.seen, d.due)
  BY <1>4, <1>5, <1>7, <1>8
<1>11. QED
  BY <1>6, <1>9, <1>10

LEMMA CycleScopes ==
  ASSUME NEW D, ScopeOk(scope, D), NEW v, Leads(v, D)
  PROVE  ScopeOk(WithCycleName(v), D) /\ ScopeOk(WithoutCycleName, D)
<1>1. \A x \in Names : x \in DOMAIN scope /\ Leads(scope[x], D)
  BY DEF ScopeOk
<1>2. ScopeOk(WithCycleName(v), D)
  <2> DEFINE s == WithCycleName(v)
  <2>1. s = [x \in Names \cup {CycleName} |-> IF x = CycleName THEN v ELSE scope[x]]
    BY DEF WithCycleName
  <2> HIDE DEF s
  <2>2. DOMAIN s = Names \cup {CycleName} /\ s = [x \in DOMAIN s |-> s[x]]
    BY <2>1
  <2>3. \A x \in DOMAIN s : Leads(s[x], D)
    BY <1>1, <2>1
  <2>4. ScopeOk(s, D)
    BY <2>2, <2>3 DEF ScopeOk
  <2>5. QED
    BY <2>4 DEF s
<1>3. ScopeOk(WithoutCycleName, D)
  <2> DEFINE s == WithoutCycleName
  <2>1. s = [x \in Names |-> scope[x]]
    BY DEF WithoutCycleName
  <2> HIDE DEF s
  <2>2. DOMAIN s = Names /\ s = [x \in DOMAIN s |-> s[x]] /\ \A x \in DOMAIN s : Leads(s[x], D)
    BY <1>1, <2>1
  <2>3. ScopeOk(s, D)
    BY <2>2 DEF ScopeOk
  <2>4. QED
    BY <2>3 DEF s
<1>4. QED
  BY <1>2, <1>3

LEMMA TurnKeeps ==
  ASSUME ObInv, steps' \in 0 .. MaxSteps,
         NEW c, AtTurn(c, Len(c.seen) + 1), Begins(c.seen, c.due), PlacesOfCycle(c) \ {0} \subseteq DOMAIN heap,
         Turn(c)
  PROVE  ObInv'
<1> DEFINE v == TurnValue(c)
           d == [c EXCEPT !.seen = Append(@, v)]
           s == IF c.kind = "times" THEN scope ELSE WithCycleName(v)
<1>1. Ends(heap, s, d, NoLast)
  BY DEF Turn
<1>2. AtTurn(d, Len(d.seen)) /\ Begins(d.seen, d.due) /\ PlacesOfCycle(d) = PlacesOfCycle(c)
  BY TurnIs
<1>3. v \in Value
  BY TurnValueIs
<1>4. v.place \in {0} \cup DOMAIN heap
  <2>1. CASE c.kind = "items"
    <3>1. /\ v = c.items[c.cur] /\ c.items = c.due /\ c.cur = Len(c.seen) + 1
          /\ Len(c.seen) + 1 \in 1 .. Len(c.due) /\ c \in Cycles
      BY <2>1 DEF AtTurn, InItems, TurnValue, ItemsSeen
    <3>2. c.items \in Seq(Value)
      BY <3>1 DEF Cycles
    <3>3. c.cur \in DOMAIN c.items
      BY <3>1, <3>2
    <3>4. v.place \in PlacesOfCycle(c)
      BY <2>1, <3>1, <3>3 DEF PlacesOfCycle
    <3>5. QED
      BY <3>4
  <2>2. CASE c.kind # "items"
    <3>1. v = Number(c.cur) /\ c.cur \in Int
      BY <2>2 DEF TurnValue, AtTurn, Cycles
    <3>2. QED
      BY <3>1, PlaceIs
  <2>3. QED
    BY <2>1, <2>2
<1> HIDE DEF v, d
<1>5. ScopeOk(s, DOMAIN heap)
  <2>1. ScopeOk(scope, DOMAIN heap) /\ Leads(v, DOMAIN heap)
    BY <1>3, <1>4 DEF ObInv, Leads
  <2>2. QED
    BY <2>1, CycleScopes
<1>6. CycleOk(d, DOMAIN heap)
  BY <1>2 DEF CycleOk
<1> HIDE DEF s
<1>7. MemoryOk(heap) /\ StatusOk
  BY DEF ObInv
<1>8. QED
  BY <1>1, <1>5, <1>6, <1>7, NothingLast, EndsKeeps

LEMMA OverKeeps ==
  ASSUME ObInv, steps' \in 0 .. MaxSteps, NEW c, NEW exited, c.seen \in Seq(Value), c.due \in Seq(Value),
         Begins(c.seen, c.due), ~exited => c.seen = c.due, Over(c, exited)
  PROVE  ObInv'
<1> DEFINE d == [kind |-> "over", seen |-> c.seen, due |-> c.due, exited |-> exited]
<1>1. Ends(heap, WithoutCycleName, d, NoLast)
  BY DEF Over
<1>2. CycleOk(d, DOMAIN heap)
  BY DEF CycleOk, PlacesOfCycle
<1> HIDE DEF d
<1>3. MemoryOk(heap) /\ StatusOk /\ ScopeOk(scope, DOMAIN heap)
  BY DEF ObInv
<1>4. Leads(Number(0), DOMAIN heap)
  BY PlaceIs DEF Leads
<1>5. ScopeOk(WithoutCycleName, DOMAIN heap)
  BY <1>3, <1>4, CycleScopes
<1>6. QED
  BY <1>1, <1>2, <1>3, <1>5, NothingLast, EndsKeeps

\* What a for is that is neither over nor still to begin.
LEMMA InTurn ==
  ASSUME ObInv, ~NotInCycle
  PROVE  /\ AtTurn(cycle, Len(cycle.seen)) /\ Begins(cycle.seen, cycle.due)
         /\ PlacesOfCycle(cycle) \ {0} \subseteq DOMAIN heap
         /\ cycle \in Cycles /\ cycle.seen \in Seq(Value) /\ cycle.due \in Seq(Value)
<1>1. AtTurn(cycle, Len(cycle.seen)) /\ Begins(cycle.seen, cycle.due)
      /\ PlacesOfCycle(cycle) \ {0} \subseteq DOMAIN heap
  BY DEF ObInv, CycleOk, NotInCycle
<1>2. cycle \in Cycles
  BY <1>1 DEF AtTurn
<1>3. QED
  BY <1>1, <1>2 DEF Cycles

LEMMA LastTurnIs ==
  ASSUME NEW c, NEW n, AtTurn(c, n)
  PROVE  IsLastTurn(c) <=> n = Len(c.due)
<1>1. c \in Cycles /\ n \in 1 .. Len(c.due)
  BY DEF AtTurn
<1>2. c.due \in Seq(Value) /\ Len(c.due) \in Nat /\ c.cur \in Int /\ c.kind \in {"range", "items", "times"}
  BY <1>1 DEF Cycles
<1>3. CASE c.kind = "range"
  <2>1. InRange(c, n) /\ (IsLastTurn(c) <=> c.cur = c.end)
    BY <1>3 DEF AtTurn, IsLastTurn
  <2>2. c.end = c.cur - (Len(c.due) - n) \/ c.end = c.cur + (Len(c.due) - n)
    BY <2>1 DEF InRange
  <2>3. QED
    BY <1>1, <1>2, <2>1, <2>2
<1>4. CASE c.kind = "items"
  <2>1. c.cur = n /\ c.items = c.due /\ (IsLastTurn(c) <=> c.cur >= Len(c.items))
    BY <1>4 DEF AtTurn, IsLastTurn, InItems, ItemsSeen
  <2>2. QED
    BY <1>1, <1>2, <2>1
<1>5. CASE c.kind = "times"
  <2>1. c.cur = n /\ c.end = Len(c.due) /\ (IsLastTurn(c) <=> c.cur = c.end)
    BY <1>5 DEF AtTurn, IsLastTurn, InTimes
  <2>2. QED
    BY <2>1
<1>6. QED
  BY <1>2, <1>3, <1>4, <1>5

LEMMA NextTurnIs ==
  ASSUME NEW c, NEW n, AtTurn(c, n), n # Len(c.due)
  PROVE  LET d == NextTurnOf(c)
         IN AtTurn(d, n + 1) /\ d.seen = c.seen /\ d.due = c.due /\ PlacesOfCycle(d) = PlacesOfCycle(c)
<1> DEFINE cur == IF c.decrement THEN c.cur - 1 ELSE c.cur + 1
           d == [c EXCEPT !.cur = cur]
           m == Len(c.due)
<1>1. c \in Cycles /\ n \in 1 .. m
  BY DEF AtTurn
<1>2. /\ c.due \in Seq(Value) /\ m \in Nat /\ c.cur \in Int /\ c.end \in Int
      /\ c.kind \in {"range", "items", "times"} /\ c.decrement \in BOOLEAN
  BY <1>1 DEF Cycles
<1>3. cur \in Int
  BY <1>2
<1>4. n + 1 \in 1 .. m
  BY <1>1, <1>2
<1>5. NextTurnOf(c) = d
  BY DEF NextTurnOf
<1>6. cur = IF c.decrement THEN c.cur - 1 ELSE c.cur + 1
  OBVIOUS
<1> HIDE DEF cur
<1>7. /\ d.kind = c.kind /\ d.over = c.over /\ d.items = c.items /\ d.cur = cur /\ d.end = c.end
      /\ d.decrement = c.decrement /\ d.due = c.due /\ d.seen = c.seen /\ d \in Cycles
  BY <1>1, <1>3 DEF Cycles
<1> HIDE DEF d, m
<1>8. ASSUME c.kind = "range" PROVE InRange(d, n + 1)
  <2>1. InRange(c, n)
    BY <1>8 DEF AtTurn
  <2>2. CASE c.decrement
    <3>1. c.end = c.cur - (m - n) /\ \A k \in 1 .. m : c.due[k] = Number(c.cur + n - k)
      BY <2>1, <2>2 DEF InRange, m
    <3>2. c.end = cur - (m - (n + 1))
      <4>1. cur = c.cur - 1
        BY <1>6, <2>2
      <4>2. n \in Int /\ m \in Int /\ c.end = c.cur - (m - n)
        BY <1>1, <1>2, <3>1
      <4>3. QED
        BY <1>2, <4>1, <4>2
    <3>3. ASSUME NEW k \in 1 .. m PROVE c.due[k] = Number(cur + (n + 1) - k)
      <4>1. cur + (n + 1) - k = c.cur + n - k
        <5>1. cur = c.cur - 1
          BY <1>6, <2>2
        <5>2. n \in Int /\ k \in Int /\ c.cur \in Int
          BY <1>1, <1>2
        <5>3. QED
          BY <5>1, <5>2
      <4>2. QED
        BY <3>1, <4>1
    <3>4. QED
      BY <1>7, <2>2, <3>2, <3>3 DEF InRange, m
  <2>3. CASE ~c.decrement
    <3>1. c.end = c.cur + (m - n) /\ \A k \in 1 .. m : c.due[k] = Number(c.cur - n + k)
      BY <2>1, <2>3 DEF InRange, m
    <3>2. c.end = cur + (m - (n + 1))
      <4>1. cur = c.cur + 1
        BY <1>6, <2>3
      <4>2. n \in Int /\ m \in Int /\ c.end = c.cur + (m - n)
        BY <1>1, <1>2, <3>1
      <4>3. QED
        BY <1>2, <4>1, <4>2
    <3>3. ASSUME NEW k \in 1 .. m PROVE c.due[k] = Number(cur - (n + 1) + k)
      <4>1. cur - (n + 1) + k = c.cur - n + k
        <5>1. cur = c.cur + 1
          BY <1>6, <2>3
        <5>2. n \in Int /\ k \in Int /\ c.cur \in Int
          BY <1>1, <1>2
        <5>3. QED
          BY <5>1, <5>2
      <4>2. QED
        BY <3>1, <4>1
    <3>4. QED
      BY <1>7, <2>3, <3>2, <3>3 DEF InRange, m
  <2>4. QED
    BY <2>2, <2>3
<1>9. ASSUME c.kind = "items" PROVE InItems(d, n + 1)
  BY <1>6, <1>7, <1>9 DEF AtTurn, InItems
<1>10. ASSUME c.kind = "times" PROVE InTimes(d, n + 1)
  BY <1>6, <1>7, <1>10 DEF AtTurn, InTimes
<1>11. AtTurn(d, n + 1)
  BY <1>4, <1>7, <1>8, <1>9, <1>10 DEF AtTurn, m
<1>12. PlacesOfCycle(d) = PlacesOfCycle(c)
  BY <1>7 DEF PlacesOfCycle
<1>13. QED
  BY <1>5, <1>7, <1>11, <1>12

LEMMA NextTurnKeeps == ObInv /\ NextTurn => ObInv'
<1> SUFFICES ASSUME ObInv, NextTurn PROVE ObInv'
  OBVIOUS
<1>1. ~NotInCycle /\ UNCHANGED steps
      /\ IF IsLastTurn(cycle) THEN Over(cycle, FALSE) ELSE Turn(NextTurnOf(cycle))
  BY Zenon DEF NextTurn
<1>2. steps' \in 0 .. MaxSteps
  BY <1>1 DEF ObInv, StatusOk
<1> DEFINE n == Len(cycle.seen)
<1>3. /\ AtTurn(cycle, n) /\ Begins(cycle.seen, cycle.due)
      /\ PlacesOfCycle(cycle) \ {0} \subseteq DOMAIN heap
      /\ cycle \in Cycles /\ cycle.seen \in Seq(Value) /\ cycle.due \in Seq(Value)
  BY <1>1, InTurn
<1>4. IsLastTurn(cycle) <=> n = Len(cycle.due)
  BY <1>3, LastTurnIs
<1>5. CASE IsLastTurn(cycle)
  <2>1. cycle.seen = cycle.due
    BY <1>3, <1>4, <1>5, SameSequence DEF Begins
  <2>2. QED
    BY <1>1, <1>2, <1>3, <1>5, <2>1, OverKeeps
<1>6. CASE ~IsLastTurn(cycle)
  <2> DEFINE d == NextTurnOf(cycle)
  <2>1. AtTurn(d, n + 1) /\ d.seen = cycle.seen /\ d.due = cycle.due /\ PlacesOfCycle(d) = PlacesOfCycle(cycle)
    BY <1>3, <1>4, <1>6, NextTurnIs
  <2>2. Turn(d)
    BY <1>1, <1>6
  <2> HIDE DEF d
  <2>3. AtTurn(d, Len(d.seen) + 1) /\ Begins(d.seen, d.due) /\ PlacesOfCycle(d) \ {0} \subseteq DOMAIN heap
    BY <1>3, <2>1
  <2>4. QED
    BY <1>2, <2>2, <2>3, TurnKeeps
<1>7. QED
  BY <1>5, <1>6

LEMMA ExitKeeps == ObInv /\ Exit => ObInv'
<1> SUFFICES ASSUME ObInv, Exit PROVE ObInv'
  OBVIOUS
<1>1. ~NotInCycle /\ Over(cycle, TRUE)
  BY Zenon DEF Exit
<1>2. steps' \in 0 .. MaxSteps
  BY StepsAre DEF Exit, Statement
<1>3. cycle.seen \in Seq(Value) /\ cycle.due \in Seq(Value) /\ Begins(cycle.seen, cycle.due)
  BY <1>1, InTurn
<1>4. QED
  BY <1>1, <1>2, <1>3, OverKeeps

LEMMA ForRangeKeeps == ObInv /\ ForRange => ObInv'
<1> SUFFICES ASSUME ObInv, ForRange PROVE ObInv'
  OBVIOUS
<1>1. PICK from \in Indices, to \in Indices :
       LET due == IF from <= to THEN [k \in 1 .. to - from + 1 |-> Number(from + k - 1)]
                  ELSE [k \in 1 .. from - to + 1 |-> Number(from - k + 1)]
       IN Turn(Cycle("range", Number(0), <<>>, from, to, due))
  BY Zenon DEF ForRange
<1>2. steps' \in 0 .. MaxSteps
  BY StepsAre DEF ForRange, Statement
<1>3. from \in Int /\ to \in Int
  BY ObjectsAssumption
<1> DEFINE m == IF from <= to THEN to - from + 1 ELSE from - to + 1
           due == IF from <= to THEN [k \in 1 .. to - from + 1 |-> Number(from + k - 1)]
                  ELSE [k \in 1 .. from - to + 1 |-> Number(from - k + 1)]
           c == Cycle("range", Number(0), <<>>, from, to, due)
<1>4. Turn(c)
  BY <1>1
<1>5. m \in Nat /\ m >= 1 /\ (from <= to => m = to - from + 1) /\ (~(from <= to) => m = from - to + 1)
  BY <1>3
<1>6. /\ due \in [1 .. m -> Value]
      /\ \A k \in 1 .. m : due[k] = IF from <= to THEN Number(from + k - 1) ELSE Number(from - k + 1)
  <2>1. CASE from <= to
    <3>1. due = [k \in 1 .. m |-> Number(from + k - 1)]
      BY <2>1
    <3>2. \A k \in 1 .. m : Number(from + k - 1) \in Value
      BY <1>3, <1>5, PlaceIs
    <3> HIDE DEF m, due
    <3>3. QED
      BY <2>1, <3>1, <3>2
  <2>2. CASE ~(from <= to)
    <3>1. due = [k \in 1 .. m |-> Number(from - k + 1)]
      BY <2>2
    <3>2. \A k \in 1 .. m : Number(from - k + 1) \in Value
      BY <1>3, <1>5, PlaceIs
    <3> HIDE DEF m, due
    <3>3. QED
      BY <2>2, <3>1, <3>2
  <2>3. QED
    BY <2>1, <2>2
<1> HIDE DEF m, due
<1>7. due \in Seq(Value) /\ Len(due) = m
  BY <1>5, <1>6, SequenceIs
<1>8. /\ c.kind = "range" /\ c.cur = from /\ c.end = to /\ c.decrement = (from > to)
      /\ c.seen = <<>> /\ c.due = due
  BY DEF Cycle
<1>9. c \in Cycles
  <2>1. Number(0) \in Value /\ <<>> \in Seq(Value) /\ (from > to) \in BOOLEAN
    BY PlaceIs
  <2>2. QED
    BY <1>3, <1>7, <2>1 DEF Cycles, Cycle
<1> HIDE DEF c
<1>10. InRange(c, 1)
  <2>1. CASE from <= to
    <3>1. ~c.decrement
      <4>1. ~(from > to)
        BY <1>3, <2>1
      <4>2. QED
        BY Zenon, <1>8, <4>1
    <3>2. to = from + (m - 1)
      BY <1>3, <1>5, <2>1
    <3>3. ASSUME NEW k \in 1 .. m PROVE due[k] = Number(from - 1 + k)
      <4>1. from + k - 1 = from - 1 + k
        BY <1>3
      <4>2. QED
        BY <1>6, <2>1, <4>1
    <3>4. QED
      BY <1>7, <1>8, <3>1, <3>2, <3>3 DEF InRange
  <2>2. CASE ~(from <= to)
    <3>1. c.decrement
      <4>1. from > to
        BY <1>3, <2>2
      <4>2. QED
        BY Zenon, <1>8, <4>1
    <3>2. to = from - (m - 1)
      BY <1>3, <1>5, <2>2
    <3>3. ASSUME NEW k \in 1 .. m PROVE due[k] = Number(from + 1 - k)
      <4>1. from - k + 1 = from + 1 - k
        BY <1>3
      <4>2. QED
        BY <1>6, <2>2, <4>1
    <3>4. QED
      BY <1>7, <1>8, <3>1, <3>2, <3>3 DEF InRange
  <2>3. QED
    BY <2>1, <2>2
<1>11. AtTurn(c, Len(c.seen) + 1)
  <2>1. Len(c.seen) + 1 = 1 /\ 1 \in 1 .. Len(c.due)
    BY <1>5, <1>7, <1>8
  <2>2. AtTurn(c, 1)
    BY <1>8, <1>9, <1>10, <2>1 DEF AtTurn
  <2>3. QED
    BY <2>1, <2>2
<1>12. Begins(c.seen, c.due) /\ PlacesOfCycle(c) = {}
  BY <1>5, <1>7, <1>8 DEF Begins, PlacesOfCycle
<1>13. QED
  BY <1>2, <1>4, <1>11, <1>12, TurnKeeps

\* What a for over an object begins with.
LEMMA ItemsOfAre ==
  ASSUME NEW o, WellMade(o), NEW D, Within(o, D)
  PROVE  LET n == Cardinality(DOMAIN o.items)
             keys == InOrder(DOMAIN o.items)
         IN /\ Climbs(keys, n, DOMAIN o.items) /\ n \in Nat /\ DOMAIN keys = 1 .. n
            /\ ItemsOf(o) = [k \in 1 .. n |-> o.items[keys[k]]]
            /\ ItemsOf(o) \in Seq(Value) /\ Len(ItemsOf(o)) = n /\ DOMAIN ItemsOf(o) = 1 .. n
            /\ \A k \in 1 .. n : Leads(ItemsOf(o)[k], D)
<1> DEFINE S == DOMAIN o.items
           n == Cardinality(S)
           keys == InOrder(S)
           f == ItemsOf(o)
<1>1. IsFiniteSet(S) /\ S \in SUBSET Int /\ \A k \in S : Leads(o.items[k], D)
  BY ItemsLead
<1>2. Climbs(keys, n, S) /\ n \in Nat
  BY <1>1, InOrderIs, FS_CardinalityType
<1>3. f = [k \in DOMAIN keys |-> o.items[keys[k]]]
  BY DEF ItemsOf
<1> HIDE DEF keys, n, S, f
<1>4. DOMAIN keys = 1 .. n /\ \A k \in 1 .. n : keys[k] \in S
  BY <1>2 DEF Climbs
<1>5. f = [k \in 1 .. n |-> o.items[keys[k]]]
  BY <1>3, <1>4
<1>6. \A k \in 1 .. n : f[k] = o.items[keys[k]] /\ Leads(f[k], D)
  BY <1>1, <1>4, <1>5
<1>7. f \in [1 .. n -> Value]
  BY <1>5, <1>6 DEF Leads
<1>8. f \in Seq(Value) /\ Len(f) = n /\ DOMAIN f = 1 .. n
  BY <1>2, <1>7, SequenceIs
<1>9. QED
  BY <1>2, <1>4, <1>5, <1>6, <1>8 DEF keys, n, S, f

LEMMA ForItemsKeeps == ObInv /\ ForItems => ObInv'
<1> SUFFICES ASSUME ObInv, ForItems PROVE ObInv'
  OBVIOUS
<1>1. PICK p \in Objects :
       LET items == ItemsOf(heap[p])
           times == [k \in DOMAIN items |-> Number(k)]
       IN \E c \in {Cycle("items", Object(p), items, 1, Len(items), items),
                    Cycle("times", Number(0), <<>>, 1, Len(items), times)} :
            IF items = <<>> THEN Over(c, FALSE) ELSE Turn([c EXCEPT !.decrement = FALSE])
  BY Zenon DEF ForItems
<1>2. steps' \in 0 .. MaxSteps
  BY StepsAre DEF ForItems, Statement
<1> DEFINE items == ItemsOf(heap[p])
           times == [k \in DOMAIN items |-> Number(k)]
           n == Len(items)
<1>3. PICK c \in {Cycle("items", Object(p), items, 1, n, items), Cycle("times", Number(0), <<>>, 1, n, times)} :
        IF items = <<>> THEN Over(c, FALSE) ELSE Turn([c EXCEPT !.decrement = FALSE])
  BY <1>1
<1>4. p \in DOMAIN heap /\ p \in Places /\ WellMade(heap[p]) /\ Within(heap[p], DOMAIN heap)
  BY ObjectsAre
<1>5. /\ items \in Seq(Value) /\ n \in Nat /\ DOMAIN items = 1 .. n
      /\ \A k \in 1 .. n : Leads(items[k], DOMAIN heap)
  BY <1>4, ItemsOfAre
<1> HIDE DEF items
<1>6. times \in Seq(Value) /\ Len(times) = n /\ \A k \in 1 .. n : times[k] = Number(k)
  <2>1. times = [k \in 1 .. n |-> Number(k)]
    BY <1>5
  <2>2. \A k \in 1 .. n : Number(k) \in Value
    BY <1>5, PlaceIs
  <2> HIDE DEF times, n
  <2>3. times \in [1 .. n -> Value] /\ \A k \in 1 .. n : times[k] = Number(k)
    BY <2>1, <2>2
  <2>4. n \in Nat
    BY <1>5
  <2>5. QED
    BY <2>3, <2>4, SequenceIs
<1> HIDE DEF times
<1> DEFINE d == [c EXCEPT !.decrement = FALSE]
<1>7. Number(0) \in Value /\ Object(p) \in Value /\ Object(p).place = p /\ <<>> \in Seq(Value)
      /\ (1 > n) \in BOOLEAN
  BY <1>4, PlaceIs
<1>8. c \in Cycles /\ c.seen = <<>> /\ c.cur = 1 /\ c.end = n
      /\ \/ c.kind = "items" /\ c.over = Object(p) /\ c.items = items /\ c.due = items
         \/ c.kind = "times" /\ c.due = times
  <2>1. CASE c = Cycle("items", Object(p), items, 1, n, items)
    BY <1>5, <1>7, <2>1 DEF Cycle, Cycles
  <2>2. CASE c = Cycle("times", Number(0), <<>>, 1, n, times)
    BY <1>5, <1>6, <1>7, <2>2 DEF Cycle, Cycles
  <2>3. QED
    BY <1>3, <2>1, <2>2
<1>9. c.due \in Seq(Value) /\ Len(c.due) = n
  BY <1>5, <1>6, <1>8
<1>10. Begins(<<>>, c.due)
  BY <1>5, <1>9 DEF Begins
<1>11. CASE items = <<>>
  <2>1. n = 0
    BY <1>11
  <2>2. c.due = <<>>
    BY <1>9, <2>1
  <2>3. Over(c, FALSE)
    BY <1>3, <1>11
  <2>4. /\ c.seen \in Seq(Value) /\ c.due \in Seq(Value) /\ Begins(c.seen, c.due)
        /\ c.seen = c.due
    BY <1>7, <1>8, <1>9, <1>10, <2>2
  <2>5. QED
    BY <1>2, <2>3, <2>4, OverKeeps
<1>12. CASE items # <<>>
  <2>1. n # 0
    BY <1>5, <1>12
  <2>2. 1 \in 1 .. n
    BY <1>5, <2>1
  <2>3. Turn(d)
    BY <1>3, <1>12
  <2>4. /\ d \in Cycles /\ d.seen = <<>> /\ d.cur = 1 /\ d.end = n /\ ~d.decrement /\ d.kind = c.kind
        /\ d.over = c.over /\ d.items = c.items /\ d.due = c.due
    BY <1>8 DEF Cycles
  <2> HIDE DEF d
  <2>5. AtTurn(d, 1)
    <3>1. CASE c.kind = "items"
      BY <1>8, <1>9, <2>2, <2>4, <3>1 DEF AtTurn, InItems
    <3>2. CASE c.kind = "times"
      <4>1. InTimes(d, 1)
        BY <1>6, <1>8, <1>9, <2>4, <3>2 DEF InTimes
      <4>2. QED
        BY <1>9, <2>2, <2>4, <3>2, <4>1 DEF AtTurn
    <3>3. QED
      BY <1>8, <3>1, <3>2
  <2>6. Len(d.seen) + 1 = 1
    BY <2>4
  <2>7. PlacesOfCycle(d) \ {0} \subseteq DOMAIN heap
    <3>1. CASE c.kind = "items"
      <4>1. PlacesOfCycle(d) = {p} \cup {items[k].place : k \in 1 .. n}
        BY <1>5, <1>7, <1>8, <2>4, <3>1 DEF PlacesOfCycle
      <4>2. QED
        BY <1>4, <1>5, <4>1 DEF Leads
    <3>2. CASE c.kind = "times"
      BY <2>4, <3>2 DEF PlacesOfCycle
    <3>3. QED
      BY <1>8, <3>1, <3>2
  <2>8. QED
    BY <1>2, <1>10, <2>3, <2>4, <2>5, <2>6, <2>7, TurnKeeps
<1>13. QED
  BY <1>11, <1>12

-----------------------------------------------------------------------------
(* What a sum has, item by item.                                           *)

LEMMA UpTo ==
  ASSUME NEW n \in Nat
  PROVE  1 .. n \in SUBSET Int /\ IsFiniteSet(1 .. n) /\ Cardinality(1 .. n) = n
BY FS_Interval

\* Of two tuples as of two arrays: with d the number of items on the left.
LEMMA SumItemsAre ==
  ASSUME NEW left, NEW right, WellMade(left), WellMade(right), left.kind = right.kind
  PROVE  LET items == SumOf(left, right).items
         IN /\ DOMAIN left.items = {} => items = right.items
            /\ DOMAIN right.items = {} => items = left.items
            /\ DOMAIN left.items # {} /\ DOMAIN right.items # {}
                 => \E d : IsArraySum(items, left, right, d)
<1>1. left.kind \in {"array", "tuple"}
  BY DEF WellMade
<1>2. CASE left.kind = "array"
  <2>1. SumOf(left, right).items = ArraySum(left.items, right.items)
    BY <1>2 DEF SumOf, Array
  <2>2. /\ DOMAIN left.items = {} => ArraySum(left.items, right.items) = right.items
        /\ DOMAIN left.items # {} /\ DOMAIN right.items = {} => ArraySum(left.items, right.items) = left.items
    BY DEF ArraySum
  <2>3. DOMAIN left.items = {} /\ DOMAIN right.items = {} => left.items = right.items
    <3>1. /\ left.items = [k \in DOMAIN left.items |-> left.items[k]]
          /\ right.items = [k \in DOMAIN right.items |-> right.items[k]]
      BY DEF WellMade, ItemsOk
    <3>2. QED
      BY <3>1
  <2>4. DOMAIN left.items # {} /\ DOMAIN right.items # {}
          => IsArraySum(ArraySum(left.items, right.items), left, right, Shift(left.items, right.items))
    BY ArraySumIs
  <2>5. QED
    BY <2>1, <2>2, <2>3, <2>4
<1>3. CASE left.kind = "tuple"
  <2> DEFINE n == Len(left.items)
             m == Len(right.items)
             s == left.items
             t == right.items
             items == s \o t
             names == NamesOfBoth(left, right)
  <2>1. SumOf(left, right).items = items
    BY <1>3 DEF SumOf, TupleSum, Tuple
  <2>2. IsTupleSum(items, names, left, right, n, m)
    BY <1>3, TupleSumIs
  <2>3. /\ s \in Seq(Value) /\ DOMAIN s = 1 .. n /\ n \in Nat
        /\ t \in Seq(Value) /\ DOMAIN t = 1 .. m /\ m \in Nat
    BY <1>3, TupleItemsAre
  <2> HIDE DEF names
  <2>4. /\ DOMAIN items = 1 .. n + m /\ items \in Seq(Value)
        /\ \A k \in 1 .. n : items[k] = s[k]
        /\ \A k \in 1 .. m : items[k + n] = t[k]
    BY <2>2 DEF IsTupleSum
  <2> HIDE DEF s, t, n, m
  <2>5. CASE DOMAIN s = {}
    <3>1. n = 0 /\ s = <<>>
      <4>1. n = 0
        BY <2>3, <2>5
      <4>2. QED
        BY <2>3, <4>1 DEF n, s
    <3>2. items = t
      BY <2>3, <3>1
    <3>3. DOMAIN t = {} => s = t
      <4>1. DOMAIN t = {} => m = 0
        BY <2>3
      <4>2. m = 0 => t = <<>>
        BY <2>3 DEF m, t
      <4>3. QED
        BY <3>1, <4>1, <4>2
    <3>4. QED
      BY <2>1, <2>5, <3>2, <3>3 DEF s, t
  <2>6. CASE DOMAIN s # {} /\ DOMAIN t = {}
    <3>1. m = 0
      BY <2>3, <2>6
    <3>2. t = <<>>
      BY <2>3, <3>1 DEF m, t
    <3>3. items = s
      BY <2>3, <3>2
    <3>4. QED
      BY <2>1, <2>6, <3>3 DEF s, t
  <2>7. CASE DOMAIN s # {} /\ DOMAIN t # {}
    <3>1. n >= 1 /\ m >= 1
      BY <2>3, <2>7
    <3>2. 1 .. n \in SUBSET Int /\ IsFiniteSet(1 .. n) /\ Cardinality(1 .. n) = n
          /\ 1 .. m \in SUBSET Int /\ IsFiniteSet(1 .. m) /\ Cardinality(1 .. m) = m
          /\ IsFiniteSet(1 .. n + m) /\ Cardinality(1 .. n + m) = n + m
      <4>1. n + m \in Nat
        BY <2>3
      <4>2. QED
        BY <2>3, <4>1, UpTo
    <3>3. Greatest(1 .. n) \in 1 .. n /\ \A b \in 1 .. n : b <= Greatest(1 .. n)
      BY <2>3, <2>7, <3>2, EndsAre
    <3>4. Least(1 .. m) \in 1 .. m /\ \A b \in 1 .. m : Least(1 .. m) <= b
      BY <2>3, <2>7, <3>2, EndsAre
    <3>5. Greatest(1 .. n) = n
      <4>1. n \in 1 .. n
        BY <2>3, <3>1
      <4>2. n <= Greatest(1 .. n)
        BY <3>3, <4>1
      <4>3. QED
        BY <2>3, <3>3, <4>2
    <3>6. Least(1 .. m) = 1
      <4>1. 1 \in 1 .. m
        BY <2>3, <3>1
      <4>2. Least(1 .. m) <= 1
        BY <3>4, <4>1
      <4>3. QED
        BY <2>3, <3>4, <4>2
    <3>7. 1 .. n + m = (1 .. n) \cup {k + n : k \in 1 .. m}
      <4>1. ASSUME NEW k \in 1 .. n + m PROVE k \in (1 .. n) \cup {i + n : i \in 1 .. m}
        <5>1. CASE k <= n
          BY <2>3, <5>1
        <5>2. CASE ~(k <= n)
          <6>1. k - n \in 1 .. m /\ (k - n) + n = k
            BY <2>3, <5>2
          <6>2. QED
            BY <6>1
        <5>3. QED
          BY <5>1, <5>2
      <4>2. \A k \in 1 .. n : k \in 1 .. n + m
        BY <2>3
      <4>3. \A k \in 1 .. m : k + n \in 1 .. n + m
        BY <2>3
      <4>4. QED
        BY <4>1, <4>2, <4>3
    <3>8. \A k \in 1 .. n, i \in 1 .. m : k < i + n
      BY <2>3
    <3>9. 1 + n = n + 1
      BY <2>3
    <3> HIDE DEF items
    <3>10. items = [k \in 1 .. n + m |-> items[k]]
      BY <2>4
    <3>11. IsArraySum(items, left, right, n)
      <4>1. left.items = s /\ right.items = t
        BY DEF s, t
      <4>2. DOMAIN left.items = 1 .. n /\ DOMAIN right.items = 1 .. m
        BY <2>3, <4>1
      <4>3. n \in Int
        BY <2>3
      <4>4. DOMAIN items = 1 .. n + m
        BY <2>4
      <4>5. QED
        BY <2>4, <3>2, <3>3, <3>4, <3>5, <3>6, <3>7, <3>8, <3>9, <3>10, <4>1, <4>2, <4>3, <4>4 DEF IsArraySum
    <3>12. QED
      BY <2>1, <2>7, <3>11 DEF s, t
  <2>8. QED
    BY <2>5, <2>6, <2>7
<1>4. QED
  BY <1>1, <1>2, <1>3

\* The keys of a sum in order: those of the left side, then those of the right.
KeysJoined(keys, kl, kr, n, m, d) ==
  /\ n \in Nat /\ m \in Nat /\ n >= 1 /\ m >= 1 /\ d \in Int
  /\ \A k \in 1 .. n : keys[k] = kl[k] /\ kl[k] \in Int
  /\ \A k \in 1 .. m : keys[k + n] = kr[k] + d /\ kr[k] \in Int
  /\ kr[1] + d = kl[n] + 1
LEMMA KeysOfSum ==
  ASSUME NEW items, NEW left, NEW right, NEW d, IsArraySum(items, left, right, d),
         WellMade(left), WellMade(right)
  PROVE  KeysJoined(InOrder(DOMAIN items), InOrder(DOMAIN left.items), InOrder(DOMAIN right.items),
                    Cardinality(DOMAIN left.items), Cardinality(DOMAIN right.items), d)
<1> DEFINE L == DOMAIN left.items
           R == DOMAIN right.items
           T == DOMAIN items
           kl == InOrder(L)
           kr == InOrder(R)
           n == Cardinality(L)
           m == Cardinality(R)
           keys == [k \in 1 .. n + m |-> IF k <= n THEN kl[k] ELSE kr[k - n] + d]
<1>1. /\ d \in Int /\ L \in SUBSET Int /\ R \in SUBSET Int
      /\ Greatest(L) \in L /\ Least(R) \in R /\ Least(R) + d = Greatest(L) + 1
      /\ \A k \in L, i \in R : k < i + d
      /\ T = L \cup {i + d : i \in R} /\ IsFiniteSet(T) /\ Cardinality(T) = n + m
  BY DEF IsArraySum
<1>2. IsFiniteSet(L) /\ IsFiniteSet(R)
  BY DEF WellMade, ItemsOk
<1>3. n \in Nat /\ m \in Nat
  BY <1>2, FS_CardinalityType
<1>4. T \in SUBSET Int
  BY <1>1
<1>5. Climbs(kl, n, L) /\ Climbs(kr, m, R)
  BY <1>1, <1>2, InOrderIs
<1>6. /\ \A x \in L : \E k \in 1 .. n : kl[k] = x
      /\ \A x \in R : \E k \in 1 .. m : kr[k] = x
  BY <1>1, <1>2, <1>5, ClimbsOnto
<1>7. /\ \A x \in L : x <= Greatest(L)
      /\ \A x \in R : Least(R) <= x
  <2>1. L # {} /\ R # {}
    BY <1>1
  <2>2. QED
    BY <1>1, <1>2, <2>1, EndsAre
<1> HIDE DEF L, R, T, kl, kr, n, m
<1>8. /\ \A k \in 1 .. n : kl[k] \in L /\ kl[k] \in Int
      /\ \A k \in 1 .. m : kr[k] \in R /\ kr[k] \in Int
      /\ \A k, i \in 1 .. n : k < i => kl[k] < kl[i]
      /\ \A k, i \in 1 .. m : k < i => kr[k] < kr[i]
  BY <1>1, <1>5 DEF Climbs
<1>9. n >= 1 /\ m >= 1
  <2>1. (\E k \in 1 .. n : TRUE) /\ (\E k \in 1 .. m : TRUE)
    BY Zenon, <1>1, <1>6
  <2>2. QED
    BY <1>3, <2>1
<1>10. kl[n] = Greatest(L)
  <2>1. PICK k \in 1 .. n : kl[k] = Greatest(L)
    BY <1>1, <1>6
  <2>2. n \in 1 .. n
    BY <1>3, <1>9
  <2>3. kl[n] <= kl[k] /\ kl[n] \in Int /\ kl[k] \in Int
    BY <1>7, <1>8, <2>1, <2>2
  <2>4. k < n => kl[k] < kl[n]
    BY <1>8, <2>2
  <2>5. k = n
    BY <1>3, <2>3, <2>4
  <2>6. QED
    BY <2>1, <2>5
<1>11. kr[1] = Least(R)
  <2>1. PICK k \in 1 .. m : kr[k] = Least(R)
    BY <1>1, <1>6
  <2>2. 1 \in 1 .. m
    BY <1>3, <1>9
  <2>3. kr[k] <= kr[1] /\ kr[1] \in Int /\ kr[k] \in Int
    BY <1>7, <1>8, <2>1, <2>2
  <2>4. 1 < k => kr[1] < kr[k]
    BY <1>8, <2>2
  <2>5. k = 1
    BY <1>3, <2>3, <2>4
  <2>6. QED
    BY <2>1, <2>5
<1>12. /\ \A k \in 1 .. n : keys[k] = kl[k]
       /\ \A k \in 1 .. m : keys[k + n] = kr[k] + d
  <2>1. \A k \in 1 .. n : k \in 1 .. n + m /\ k <= n
    BY <1>3
  <2>2. \A k \in 1 .. m : k + n \in 1 .. n + m /\ ~(k + n <= n) /\ (k + n) - n = k
    BY <1>3
  <2>3. QED
    BY <2>1, <2>2
<1>13. keys = [k \in 1 .. n + m |-> keys[k]]
  OBVIOUS
<1> HIDE DEF keys
<1>14. ASSUME NEW k \in 1 .. n + m, ~(k <= n) PROVE k - n \in 1 .. m /\ keys[k] = kr[k - n] + d
  <2>1. k - n \in 1 .. m /\ (k - n) + n = k
    BY <1>3, <1>14
  <2>2. QED
    BY <1>12, <2>1
<1>15. Climbs(keys, n + m, T)
  <2>1. ASSUME NEW k \in 1 .. n + m PROVE keys[k] \in T
    <3>1. CASE k <= n
      <4>1. k \in 1 .. n
        BY <1>3, <3>1
      <4>2. QED
        BY <1>1, <1>8, <1>12, <4>1
    <3>2. CASE ~(k <= n)
      BY <1>1, <1>8, <1>14, <3>2
    <3>3. QED
      BY <3>1, <3>2
  <2>2. ASSUME NEW k \in 1 .. n + m, NEW i \in 1 .. n + m, k < i PROVE keys[k] < keys[i]
    <3>1. CASE i <= n
      <4>1. k \in 1 .. n /\ i \in 1 .. n
        BY <1>3, <2>2, <3>1
      <4>2. QED
        BY <1>8, <1>12, <2>2, <4>1
    <3>2. CASE k <= n /\ ~(i <= n)
      <4>1. k \in 1 .. n
        BY <1>3, <3>2
      <4>2. keys[k] = kl[k] /\ kl[k] \in L /\ keys[i] = kr[i - n] + d /\ kr[i - n] \in R
        BY <1>8, <1>12, <1>14, <3>2, <4>1
      <4>3. QED
        BY <1>1, <4>2
    <3>3. CASE ~(k <= n)
      <4>1. ~(i <= n) /\ k - n < i - n
        BY <1>3, <2>2, <3>3
      <4>2. /\ k - n \in 1 .. m /\ i - n \in 1 .. m
            /\ keys[k] = kr[k - n] + d /\ keys[i] = kr[i - n] + d
        BY <1>14, <3>3, <4>1
      <4>3. kr[k - n] < kr[i - n] /\ kr[k - n] \in Int /\ kr[i - n] \in Int
        BY <1>8, <4>1, <4>2
      <4>4. QED
        BY <1>1, <4>2, <4>3
    <3>4. QED
      BY <3>1, <3>2, <3>3
  <2>3. keys \in [1 .. n + m -> T]
    BY <1>13, <2>1
  <2>4. QED
    BY <2>2, <2>3 DEF Climbs
<1>16. InOrder(T) = keys
  <2>1. Climbs(InOrder(T), Cardinality(T), T)
    BY <1>1, <1>4, InOrderIs
  <2>2. Climbs(keys, Cardinality(T), T)
    BY <1>1, <1>15
  <2>3. QED
    BY <1>1, <1>4, <2>1, <2>2, OneOrder
<1>17. KeysJoined(keys, kl, kr, n, m, d)
  BY <1>1, <1>3, <1>8, <1>9, <1>10, <1>11, <1>12 DEF KeysJoined
<1>18. QED
  BY <1>16, <1>17 DEF L, R, T, kl, kr, n, m

LEMMA ItemsOfSum ==
  ASSUME NEW left, NEW right, WellMade(left), WellMade(right), left.kind = right.kind
  PROVE  ItemsOf(SumOf(left, right)) = ItemsOf(left) \o ItemsOf(right)
<1> DEFINE sum == SumOf(left, right)
           n == Cardinality(DOMAIN left.items)
           m == Cardinality(DOMAIN right.items)
           kl == InOrder(DOMAIN left.items)
           kr == InOrder(DOMAIN right.items)
           keys == InOrder(DOMAIN sum.items)
           s == ItemsOf(left)
           t == ItemsOf(right)
           u == ItemsOf(sum)
<1>1. \A o : Within(o, PlacesIn(o))
  BY DEF Within
<1>2. WellMade(sum)
  <2> DEFINE D == PlacesIn(left) \cup PlacesIn(right)
  <2>1. Within(left, D) /\ Within(right, D)
    BY DEF Within
  <2>2. QED
    BY <2>1, SumIs
<1>3. /\ n \in Nat /\ s \in Seq(Value) /\ Len(s) = n /\ s = [k \in 1 .. n |-> left.items[kl[k]]]
  BY <1>1, ItemsOfAre
<1>4. /\ m \in Nat /\ t \in Seq(Value) /\ Len(t) = m /\ t = [k \in 1 .. m |-> right.items[kr[k]]]
  BY <1>1, ItemsOfAre
<1> DEFINE c == Cardinality(DOMAIN sum.items)
<1>5. /\ c \in Nat /\ u \in Seq(Value) /\ Len(u) = c /\ u = [k \in 1 .. c |-> sum.items[keys[k]]]
  BY <1>1, <1>2, ItemsOfAre
<1>6. CASE DOMAIN left.items = {}
  <2>1. sum.items = right.items
    BY <1>6, SumItemsAre
  <2>2. u = t
    BY <2>1 DEF ItemsOf
  <2>3. n = 0
    BY <1>6, FS_EmptySet
  <2> HIDE DEF s, t, u, n
  <2>4. s = <<>>
    BY <1>3, <2>3
  <2>5. s \o t = t
    BY <1>4, <2>4
  <2>6. QED
    BY <2>2, <2>5 DEF s, t, u
<1>7. CASE DOMAIN right.items = {}
  <2>1. sum.items = left.items
    BY <1>7, SumItemsAre
  <2>2. u = s
    BY <2>1 DEF ItemsOf
  <2>3. m = 0
    BY <1>7, FS_EmptySet
  <2> HIDE DEF s, t, u, m
  <2>4. t = <<>>
    BY <1>4, <2>3
  <2>5. s \o t = s
    BY <1>3, <2>4
  <2>6. QED
    BY <2>2, <2>5 DEF s, t, u
<1>8. CASE DOMAIN left.items # {} /\ DOMAIN right.items # {}
  <2> DEFINE f == sum.items
  <2>1. PICK d : IsArraySum(f, left, right, d)
    BY <1>8, SumItemsAre
  <2>2. KeysJoined(keys, kl, kr, n, m, d)
    BY <2>1, KeysOfSum
  <2>3. /\ c = n + m
        /\ \A k \in DOMAIN left.items : f[k] = left.items[k]
        /\ \A k \in DOMAIN right.items : f[k + d] = right.items[k]
    BY <2>1 DEF IsArraySum
  <2>4. Climbs(kl, n, DOMAIN left.items) /\ Climbs(kr, m, DOMAIN right.items)
    BY InOrderIs DEF WellMade, ItemsOk
  <2> HIDE DEF f, kl, kr, keys, n, m, c, s, t, u
  <2>5. /\ \A k \in 1 .. n : kl[k] \in DOMAIN left.items
        /\ \A k \in 1 .. m : kr[k] \in DOMAIN right.items
    BY <2>4 DEF Climbs
  <2>6. /\ \A k \in 1 .. n : keys[k] = kl[k]
        /\ \A k \in 1 .. m : keys[k + n] = kr[k] + d
    BY <2>2 DEF KeysJoined
  <2>7. u = [k \in 1 .. c |-> f[keys[k]]]
    BY <1>5 DEF f
  <2>8. ASSUME NEW k \in 1 .. n PROVE u[k] = s[k]
    <3>1. k \in 1 .. c
      BY <1>3, <1>4, <2>3
    <3>2. u[k] = f[kl[k]] /\ s[k] = left.items[kl[k]]
      BY <1>3, <2>6, <2>7, <3>1
    <3>3. QED
      BY <2>3, <2>5, <3>2
  <2>9. ASSUME NEW k \in 1 .. m PROVE u[k + n] = t[k]
    <3>1. k + n \in 1 .. c
      BY <1>3, <1>4, <2>3
    <3>2. u[k + n] = f[kr[k] + d] /\ t[k] = right.items[kr[k]]
      BY <1>4, <2>6, <2>7, <3>1
    <3>3. QED
      BY <2>3, <2>5, <3>2
  <2>10. u = s \o t
    <3>1. Len(u) = Len(s) + Len(t)
      BY <1>3, <1>4, <1>5, <2>3
    <3>2. \A k \in 1 .. Len(s) : u[k] = s[k]
      BY <1>3, <2>8
    <3>3. \A k \in 1 .. Len(t) : u[k + Len(s)] = t[k]
      BY <1>3, <1>4, <2>9
    <3>4. s \in Seq(Value) /\ t \in Seq(Value) /\ u \in Seq(Value)
      BY <1>3, <1>4, <1>5
    <3>5. QED
      BY <3>1, <3>2, <3>3, <3>4, JoinedAre
  <2>11. QED
    BY <2>10 DEF s, t, u
<1>9. QED
  BY <1>6, <1>7, <1>8

\* How far apart the items are.
DistancesOf(o) ==
  LET keys == InOrder(DOMAIN o.items) IN [k \in 1 .. Len(keys) - 1 |-> keys[k + 1] - keys[k]]

LEMMA DistancesAre ==
  ASSUME NEW o, WellMade(o)
  PROVE  LET n == Cardinality(DOMAIN o.items)
             keys == InOrder(DOMAIN o.items)
         IN /\ n \in Nat /\ \A k \in 1 .. n : keys[k] \in Int
            /\ DistancesOf(o) = [k \in 1 .. n - 1 |-> keys[k + 1] - keys[k]]
            /\ n = 0 => DistancesOf(o) = <<>>
            /\ n >= 1 => DistancesOf(o) \in Seq(Int) /\ Len(DistancesOf(o)) = n - 1
<1> DEFINE S == DOMAIN o.items
           n == Cardinality(S)
           keys == InOrder(S)
           f == DistancesOf(o)
<1>1. S \in SUBSET Int /\ IsFiniteSet(S)
  BY DEF WellMade, ItemsOk
<1>2. Climbs(keys, n, S) /\ n \in Nat
  BY <1>1, InOrderIs, FS_CardinalityType
<1>3. f = [k \in 1 .. Len(keys) - 1 |-> keys[k + 1] - keys[k]]
  BY DEF DistancesOf
<1> HIDE DEF keys, n, S, f
<1>4. keys \in [1 .. n -> S]
  BY <1>2 DEF Climbs
<1>5. Len(keys) = n
  BY <1>2, <1>4, SequenceIs
<1>6. f = [k \in 1 .. n - 1 |-> keys[k + 1] - keys[k]]
  BY <1>3, <1>5
<1>7. \A k \in 1 .. n : keys[k] \in Int
  BY <1>1, <1>4
<1>8. ASSUME n = 0 PROVE f = <<>>
  <2>1. 1 .. n - 1 = {}
    BY <1>8
  <2>2. f = [k \in {} |-> keys[k + 1] - keys[k]]
    BY <1>6, <2>1
  <2>3. QED
    BY <2>2
<1>9. ASSUME n >= 1 PROVE f \in Seq(Int) /\ Len(f) = n - 1
  <2>1. n - 1 \in Nat
    BY <1>2, <1>9
  <2>2. \A k \in 1 .. n - 1 : keys[k + 1] \in Int /\ keys[k] \in Int
    <3>1. \A k \in 1 .. n - 1 : k \in 1 .. n /\ k + 1 \in 1 .. n
      BY <1>2
    <3>2. QED
      BY <1>7, <3>1
  <2>3. \A k \in 1 .. n - 1 : keys[k + 1] - keys[k] \in Int
    BY <2>2
  <2>4. f \in [1 .. n - 1 -> Int]
    BY <1>6, <2>3
  <2>5. QED
    BY <2>1, <2>4, SequenceIs
<1>10. QED
  BY <1>2, <1>6, <1>7, <1>8, <1>9 DEF keys, n, S, f

LEMMA DistancesOfSum ==
  ASSUME NEW left, NEW right, WellMade(left), WellMade(right), left.kind = right.kind
  PROVE  DistancesOf(SumOf(left, right)) =
           DistancesOf(left)
             \o (IF {} \in {DOMAIN left.items, DOMAIN right.items} THEN <<>> ELSE <<1>>)
             \o DistancesOf(right)
<1> DEFINE sum == SumOf(left, right)
           n == Cardinality(DOMAIN left.items)
           m == Cardinality(DOMAIN right.items)
           c == Cardinality(DOMAIN sum.items)
           kl == InOrder(DOMAIN left.items)
           kr == InOrder(DOMAIN right.items)
           keys == InOrder(DOMAIN sum.items)
           one == IF {} \in {DOMAIN left.items, DOMAIN right.items} THEN <<>> ELSE <<1>>
           s == DistancesOf(left)
           t == DistancesOf(right)
           u == DistancesOf(sum)
<1>1. WellMade(sum)
  <2> DEFINE D == PlacesIn(left) \cup PlacesIn(right)
  <2>1. Within(left, D) /\ Within(right, D)
    BY DEF Within
  <2>2. QED
    BY <2>1, SumIs
<1>2. /\ n \in Nat /\ s = [k \in 1 .. n - 1 |-> kl[k + 1] - kl[k]]
      /\ n = 0 => s = <<>>
      /\ n >= 1 => s \in Seq(Int) /\ Len(s) = n - 1
  BY DistancesAre
<1>3. /\ m \in Nat /\ t = [k \in 1 .. m - 1 |-> kr[k + 1] - kr[k]]
      /\ m = 0 => t = <<>>
      /\ m >= 1 => t \in Seq(Int) /\ Len(t) = m - 1
  BY DistancesAre
<1>4. /\ c \in Nat /\ u = [k \in 1 .. c - 1 |-> keys[k + 1] - keys[k]]
      /\ c >= 1 => u \in Seq(Int) /\ Len(u) = c - 1
  BY <1>1, DistancesAre
<1>5. s \in Seq(Int) /\ t \in Seq(Int)
  <2>1. <<>> \in Seq(Int)
    OBVIOUS
  <2> HIDE DEF s, t, n, m
  <2>2. (n = 0 \/ n >= 1) /\ (m = 0 \/ m >= 1)
    BY <1>2, <1>3
  <2>3. QED
    BY <1>2, <1>3, <2>1, <2>2
<1>6. CASE DOMAIN left.items = {}
  <2>1. sum.items = right.items
    BY <1>6, SumItemsAre
  <2>2. u = t
    BY <2>1 DEF DistancesOf
  <2>3. n = 0 /\ one = <<>>
    BY <1>6, FS_EmptySet
  <2> HIDE DEF s, t, u, n, one
  <2>4. s = <<>>
    BY <1>2, <2>3
  <2>5. s \o one \o t = t
    BY <1>5, <2>3, <2>4
  <2>6. QED
    BY <2>2, <2>5 DEF s, t, u, one
<1>7. CASE DOMAIN right.items = {}
  <2>1. sum.items = left.items
    BY <1>7, SumItemsAre
  <2>2. u = s
    BY <2>1 DEF DistancesOf
  <2>3. m = 0 /\ one = <<>>
    BY <1>7, FS_EmptySet
  <2> HIDE DEF s, t, u, m, one
  <2>4. t = <<>>
    BY <1>3, <2>3
  <2>5. s \o one \o t = s
    BY <1>5, <2>3, <2>4
  <2>6. QED
    BY <2>2, <2>5 DEF s, t, u, one
<1>8. CASE DOMAIN left.items # {} /\ DOMAIN right.items # {}
  <2> DEFINE f == sum.items
  <2>1. PICK d : IsArraySum(f, left, right, d)
    BY <1>8, SumItemsAre
  <2>2. KeysJoined(keys, kl, kr, n, m, d)
    BY <2>1, KeysOfSum
  <2>3. c = n + m
    BY <2>1 DEF IsArraySum
  <2>4. one = <<1>>
    BY <1>8
  <2> HIDE DEF f, kl, kr, keys, n, m, c, s, t, u, one
  <2>5. /\ n >= 1 /\ m >= 1 /\ d \in Int
        /\ \A k \in 1 .. n : keys[k] = kl[k] /\ kl[k] \in Int
        /\ \A k \in 1 .. m : keys[k + n] = kr[k] + d /\ kr[k] \in Int
        /\ kr[1] + d = kl[n] + 1
    BY <2>2 DEF KeysJoined
  <2>6. u \in Seq(Int) /\ Len(u) = n + m - 1
    BY <1>2, <1>3, <1>4, <2>3, <2>5
  <2>7. Len(s) = n - 1 /\ Len(t) = m - 1
    BY <1>2, <1>3, <2>5
  <2>8. ASSUME NEW k \in 1 .. n - 1 PROVE u[k] = s[k]
    <3>1. k \in 1 .. c - 1 /\ k \in 1 .. n /\ k + 1 \in 1 .. n
      BY <1>2, <1>3, <2>3, <2>5
    <3>2. u[k] = keys[k + 1] - keys[k] /\ s[k] = kl[k + 1] - kl[k]
      BY <1>2, <1>4, <3>1
    <3>3. QED
      BY <2>5, <3>1, <3>2
  <2>9. u[n] = 1
    <3>1. n \in 1 .. c - 1 /\ n \in 1 .. n /\ 1 \in 1 .. m /\ 1 + n = n + 1
      BY <1>2, <1>3, <2>3, <2>5
    <3>2. u[n] = keys[n + 1] - keys[n]
      BY <1>4, <3>1
    <3>3. keys[n + 1] = kr[1] + d /\ keys[n] = kl[n] /\ kl[n] \in Int
      BY <2>5, <3>1
    <3>4. QED
      BY <2>5, <3>2, <3>3
  <2>10. ASSUME NEW k \in 1 .. m - 1 PROVE u[k + n] = t[k]
    <3>1. /\ k + n \in 1 .. c - 1 /\ k \in 1 .. m /\ k + 1 \in 1 .. m
          /\ (k + n) + 1 = (k + 1) + n
      BY <1>2, <1>3, <2>3, <2>5
    <3>2. u[k + n] = keys[(k + 1) + n] - keys[k + n] /\ t[k] = kr[k + 1] - kr[k]
      BY <1>3, <1>4, <3>1
    <3>3. /\ keys[(k + 1) + n] = kr[k + 1] + d /\ keys[k + n] = kr[k] + d
          /\ kr[k + 1] \in Int /\ kr[k] \in Int
      BY <2>5, <3>1
    <3>4. QED
      BY <2>5, <3>2, <3>3
  <2> DEFINE a == s \o <<1>>
  <2>11. /\ a \in Seq(Int) /\ Len(a) = n /\ a[n] = 1
         /\ \A k \in 1 .. n - 1 : a[k] = s[k]
    <3>1. <<1>> \in Seq(Int) /\ Len(<<1>>) = 1 /\ <<1>>[1] = 1 /\ 1 \in 1 .. Len(<<1>>)
      OBVIOUS
    <3>2. /\ a \in Seq(Int) /\ Len(a) = Len(s) + 1
          /\ \A k \in 1 .. Len(s) : a[k] = s[k]
          /\ a[1 + Len(s)] = 1
      BY <1>5, <3>1, JoinedIs
    <3>3. Len(s) + 1 = n /\ 1 + Len(s) = n
      <4>1. n \in Nat /\ Len(s) = n - 1
        BY <1>2, <2>7
      <4>2. QED
        BY <4>1
    <3>4. QED
      BY <2>7, <3>2, <3>3
  <2> HIDE DEF a
  <2>12. u = a \o t
    <3>1. Len(u) = Len(a) + Len(t)
      BY <1>2, <1>3, <2>6, <2>7, <2>11
    <3>2. \A k \in 1 .. Len(a) : u[k] = a[k]
      <4>1. \A k \in 1 .. n : k = n \/ k \in 1 .. n - 1
        BY <1>2
      <4>2. QED
        BY <2>8, <2>9, <2>11, <4>1
    <3>3. \A k \in 1 .. Len(t) : u[k + Len(a)] = t[k]
      BY <2>7, <2>10, <2>11
    <3>4. QED
      BY <1>5, <2>6, <2>11, <3>1, <3>2, <3>3, JoinedAre
  <2>13. QED
    BY <2>4, <2>12 DEF a, s, t, u, one
<1>9. QED
  BY <1>6, <1>7, <1>8

-----------------------------------------------------------------------------
(* Every step.                                                             *)

LEMMA BeginsRight == Init => ObInv
<1> SUFFICES ASSUME Init PROVE ObInv
  OBVIOUS
<1>1. /\ scope = [x \in Names |-> Number(0)] /\ heap = <<>> /\ cycle = NoCycle /\ last = NoLast
      /\ status = "running" /\ steps = 0
  BY DEF Init
<1>2. DOMAIN heap = {} /\ heap = [p \in {} |-> heap[p]]
  BY <1>1
<1>3. MemoryOk(heap)
  BY <1>2 DEF MemoryOk
<1>4. ScopeOk(scope, DOMAIN heap)
  BY <1>1, PlaceIs DEF ScopeOk, Leads
<1>5. CycleOk(cycle, DOMAIN heap)
  BY <1>1 DEF CycleOk, NoCycle, PlacesOfCycle
<1>6. LastOk(last, heap)
  BY <1>1, NothingLast
<1>7. StatusOk
  BY <1>1, ObjectsAssumption DEF StatusOk
<1>8. QED
  BY <1>3, <1>4, <1>5, <1>6, <1>7 DEF ObInv

LEMMA StepKeeps == ObInv /\ [Next]_vars => ObInv'
<1> SUFFICES ASSUME ObInv, [Next]_vars PROVE ObInv'
  OBVIOUS
<1>1. CASE UNCHANGED vars
  BY <1>1 DEF ObInv, StatusOk, vars
<1>2. CASE Next
  BY <1>2, AssignArrayKeeps, AssignTupleKeeps, AssignSumKeeps, AssignIndicesKeeps, AssignVariableKeeps,
     AssignThroughKeeps, DeleteKeeps, PrintKeeps, ForRangeKeeps, ForItemsKeeps, NextTurnKeeps, ExitKeeps
     DEF Next
<1>3. QED
  BY <1>1, <1>2

LEMMA ObjectTypesAre == ObInv => TypeOK
<1> SUFFICES ASSUME ObInv PROVE TypeOK
  OBVIOUS
<1>1. DOMAIN scope \in {Names, Names \cup {CycleName}} /\ \A x \in DOMAIN scope : scope[x].place \in {0} \cup DOMAIN heap
  BY DEF ObInv, ScopeOk, Leads
<1>2. DOMAIN heap \subseteq Places
  BY DEF ObInv, MemoryOk
<1>3. ASSUME NEW p \in DOMAIN heap
      PROVE  /\ PlacesIn(heap[p]) \subseteq DOMAIN heap
             /\ heap[p].kind = "tuple" => DOMAIN heap[p].items = 1 .. Cardinality(DOMAIN heap[p].items)
             /\ \A f, g \in DOMAIN heap[p].names :
                  /\ heap[p].names[f] \in DOMAIN heap[p].items
                  /\ f # g => heap[p].names[f] # heap[p].names[g]
  BY ObjectsAre DEF WellMade, ItemsOk, NamesOk, Within
<1>4. StatusOk
  BY DEF ObInv
<1>5. QED
  BY <1>1, <1>2, <1>3, <1>4 DEF TypeOK, StatusOk

LEMMA SumsAre == ObInv => SumKeepsEverything
<1> SUFFICES ASSUME ObInv, last.kind = "sum" PROVE SumKeepsEverything
  BY DEF SumKeepsEverything
<1> DEFINE left == last.left
           right == last.right
           sum == heap[last.at]
           one == IF {} \in {DOMAIN left.items, DOMAIN right.items} THEN <<>> ELSE <<1>>
<1>1. /\ WellMade(left) /\ WellMade(right) /\ left.kind = right.kind /\ sum = SumOf(left, right)
  BY DEF ObInv, LastOk
<1>2. ItemsOf(sum) = ItemsOf(left) \o ItemsOf(right)
  BY <1>1, ItemsOfSum
<1>3. DistancesOf(sum) = DistancesOf(left) \o one \o DistancesOf(right)
  BY <1>1, DistancesOfSum
<1> HIDE DEF left, right, sum
<1>4. /\ DOMAIN sum.names = DOMAIN left.names \cup DOMAIN right.names
      /\ \A f \in DOMAIN sum.names :
           sum.items[sum.names[f]] =
             IF f \in DOMAIN left.names THEN left.items[left.names[f]] ELSE right.items[right.names[f]]
  <2>1. CASE left.kind = "array"
    <3>1. left.names = <<>> /\ right.names = <<>>
      BY <1>1, <2>1 DEF WellMade, NamesOk
    <3>2. sum.names = <<>>
      BY <1>1, <2>1 DEF SumOf, Array
    <3>3. QED
      BY <3>1, <3>2
  <2>2. CASE left.kind = "tuple"
    <3> DEFINE items == left.items \o right.items
               names == NamesOfBoth(left, right)
               n == Len(left.items)
               m == Len(right.items)
    <3>1. IsTupleSum(items, names, left, right, n, m)
      BY <1>1, <2>2, TupleSumIs
    <3>2. sum.items = items /\ sum.names = names
      BY <1>1, <2>2 DEF SumOf, TupleSum, Tuple
    <3> HIDE DEF items, names, n, m
    <3>3. /\ n \in Nat /\ m \in Nat
          /\ \A k \in 1 .. n : items[k] = left.items[k]
          /\ \A k \in 1 .. m : items[k + n] = right.items[k]
          /\ DOMAIN names = DOMAIN left.names \cup DOMAIN right.names
          /\ \A f \in DOMAIN names :
               IF f \in DOMAIN left.names THEN names[f] = left.names[f] /\ names[f] \in 1 .. n
               ELSE names[f] = right.names[f] + n /\ right.names[f] \in 1 .. m
      BY <3>1 DEF IsTupleSum
    <3>4. ASSUME NEW f \in DOMAIN names
          PROVE  items[names[f]] =
                   IF f \in DOMAIN left.names THEN left.items[left.names[f]] ELSE right.items[right.names[f]]
      <4>1. CASE f \in DOMAIN left.names
        BY <3>3, <4>1
      <4>2. CASE f \notin DOMAIN left.names
        BY <3>3, <4>2
      <4>3. QED
        BY <4>1, <4>2
    <3>5. QED
      BY <3>2, <3>3, <3>4
  <2>3. QED
    BY <1>1, <2>1, <2>2 DEF WellMade
<1>5. SumKeepsEverything
  BY Zenon, <1>2, <1>3, <1>4 DEF SumKeepsEverything, DistancesOf, left, right, sum
<1>6. QED
  BY <1>5

LEMMA CyclesAre == ObInv => CycleVisitsWhatWasThere
<1> SUFFICES ASSUME ObInv, cycle.kind # "none" PROVE CycleVisitsWhatWasThere
  BY DEF CycleVisitsWhatWasThere
<1> DEFINE s == cycle.seen
           t == cycle.due
<1>1. CASE cycle.kind = "over"
  <2>1. s \in Seq(Value) /\ t \in Seq(Value) /\ Begins(s, t) /\ (~cycle.exited => s = t)
    BY <1>1 DEF ObInv, CycleOk, AtTurn, Cycles
  <2>2. IsPrefix(s, t)
    BY <2>1, PrefixIs
  <2>3. QED
    BY <1>1, <2>1, <2>2 DEF CycleVisitsWhatWasThere
<1>2. CASE cycle.kind # "over"
  <2>1. ~NotInCycle
    BY <1>2 DEF NotInCycle
  <2>2. s \in Seq(Value) /\ t \in Seq(Value) /\ Begins(s, t)
    BY <2>1, InTurn
  <2>3. IsPrefix(s, t)
    BY <2>2, PrefixIs
  <2>4. QED
    BY <1>2, <2>3 DEF CycleVisitsWhatWasThere
<1>3. QED
  BY <1>1, <1>2

-----------------------------------------------------------------------------
(* Print: sequences put together.                                          *)

\* The first k of the sequences s, put together.
Then(a, b) == a \o b
Joins(t, s, n) == t = [k \in 0 .. n |-> IF k = 0 THEN <<>> ELSE Then(t[k - 1], s[k])]

LEMMA JoinsExist ==
  ASSUME NEW s, NEW n \in Nat
  PROVE  \E t : Joins(t, s, n)
<1> DEFINE D == {k \in Nat : ~ \E t : Joins(t, s, k)}
<1> SUFFICES ASSUME D # {} PROVE FALSE
  OBVIOUS
<1>1. PICK k \in D : \A j \in D : k <= j
  BY SmallestOf
<1>2. k # 0
  <2> DEFINE t == [i \in 0 .. 0 |-> <<>>]
  <2>1. t = [i \in 0 .. 0 |-> IF i = 0 THEN <<>> ELSE Then(t[i - 1], s[i])]
    OBVIOUS
  <2>2. Joins(t, s, 0)
    BY <2>1 DEF Joins
  <2>3. QED
    BY <2>2
<1>3. k \in Nat /\ k - 1 \in Nat /\ k - 1 < k
  BY <1>2
<1>4. PICK t : Joins(t, s, k - 1)
  BY <1>1, <1>3
<1> DEFINE u == [i \in 0 .. k |-> IF i = k THEN Then(t[k - 1], s[k]) ELSE t[i]]
<1>5. ASSUME NEW i \in 0 .. k PROVE u[i] = IF i = 0 THEN <<>> ELSE Then(u[i - 1], s[i])
  <2>1. CASE i = k
    <3>1. k - 1 \in 0 .. k /\ k - 1 # k
      BY <1>3
    <3>2. u[k - 1] = t[k - 1] /\ u[k] = Then(t[k - 1], s[k])
      BY <3>1, <1>3
    <3>3. QED
      BY <1>2, <2>1, <3>2
  <2>2. CASE i # k
    <3>1. i \in 0 .. k - 1 /\ u[i] = t[i]
      BY <1>3, <2>2
    <3>2. i # 0 => i - 1 \in 0 .. k /\ i - 1 # k
      BY <1>3, <3>1
    <3>3. i # 0 => u[i - 1] = t[i - 1]
      BY <3>2
    <3>4. t[i] = IF i = 0 THEN <<>> ELSE Then(t[i - 1], s[i])
      BY <1>4, <3>1 DEF Joins
    <3>5. QED
      BY <3>1, <3>3, <3>4
  <2>3. QED
    BY <2>1, <2>2
<1>6. Joins(u, s, k)
  <2>1. u = [i \in 0 .. k |-> u[i]]
    OBVIOUS
  <2> HIDE DEF u
  <2>2. u = [i \in 0 .. k |-> IF i = 0 THEN <<>> ELSE Then(u[i - 1], s[i])]
    BY <1>5, <2>1
  <2>3. QED
    BY <2>2 DEF Joins
<1>7. QED
  BY <1>1, <1>6

JoinsIn(t, s, n, S) ==
  /\ t[0] = <<>> /\ \A k \in 0 .. n : t[k] \in S
  /\ \A k \in 1 .. n : t[k] = Then(t[k - 1], s[k])
LEMMA JoinsAre ==
  ASSUME NEW E, NEW n \in Nat, NEW s, \A k \in 1 .. n : s[k] \in Seq(E), NEW t, Joins(t, s, n)
  PROVE  JoinsIn(t, s, n, Seq(E))
<1>1. t[0] = <<>> /\ \A k \in 1 .. n : t[k] = Then(t[k - 1], s[k])
  BY DEF Joins
<1> DEFINE D == {k \in 0 .. n : t[k] \notin Seq(E)}
<1>2. ASSUME D # {} PROVE FALSE
  <2>1. D \in SUBSET Nat
    OBVIOUS
  <2>2. PICK k \in D : \A j \in D : k <= j
    BY <1>2, <2>1, SmallestOf
  <2>3. k # 0
    <3>1. <<>> \in Seq(E)
      OBVIOUS
    <3>2. QED
      BY <1>1, <2>2, <3>1
  <2>4. k \in 1 .. n /\ k - 1 \in 0 .. n /\ k - 1 < k
    BY <2>2, <2>3
  <2>5. t[k - 1] \in Seq(E)
    BY <2>2, <2>4
  <2>6. Then(t[k - 1], s[k]) \in Seq(E)
    BY <2>4, <2>5, ConcatProperties DEF Then
  <2>7. QED
    BY <1>1, <2>2, <2>4, <2>6
<1>3. QED
  BY <1>1, <1>2 DEF JoinsIn

\* Two functions that go from step to step alike.
LEMMA FlattenIs ==
  ASSUME NEW E, NEW n \in Nat, NEW s \in [1 .. n -> Seq(E)], NEW t, Joins(t, s, n)
  PROVE  FlattenSeq(s) = t[n]
<1>1. /\ t[0] = <<>> /\ \A k \in 0 .. n : t[k] \in Seq(E)
      /\ \A k \in 1 .. n : t[k] = Then(t[k - 1], s[k])
  <2>1. \A k \in 1 .. n : s[k] \in Seq(E)
    OBVIOUS
  <2>2. JoinsIn(t, s, n, Seq(E))
    BY <2>1, JoinsAre
  <2>3. QED
    BY <2>2 DEF JoinsIn
<1>2. Len(s) = n /\ s \in Seq(Seq(E))
  BY SequenceIs
<1>3. CASE n = 0
  <2>1. s = <<>>
    BY <1>2, <1>3
  <2>2. FlattenSeq(s) = s
    BY Zenon, <1>2, <1>3 DEF FlattenSeq
  <2>3. QED
    BY <1>1, <1>3, <2>1, <2>2
<1>4. CASE n # 0
  <2> DEFINE Flat(f) == f = [i \in 1 .. n |-> IF i = 1 THEN s[i] ELSE Then(f[i - 1], s[i])]
             f == CHOOSE f : Flat(f)
             u == [i \in 1 .. n |-> t[i]]
  <2>1. FlattenSeq(s) = f[n]
    BY Zenon, <1>2, <1>4 DEF FlattenSeq, Then
  <2>2. 1 \in 1 .. n /\ n \in 1 .. n
    BY <1>4
  <2>3. t[1] = s[1]
    <3>1. t[1] = Then(<<>>, s[1]) /\ s[1] \in Seq(E)
      BY <1>1, <2>2
    <3>2. QED
      BY <3>1, ConcatEmptySeq DEF Then
  <2>4. Flat(u)
    <3>1. ASSUME NEW i \in 1 .. n PROVE u[i] = IF i = 1 THEN s[i] ELSE Then(u[i - 1], s[i])
      <4>1. CASE i = 1
        BY <2>3, <4>1
      <4>2. CASE i # 1
        <5>1. i - 1 \in 1 .. n
          BY <4>2
        <5>2. u[i - 1] = t[i - 1] /\ u[i] = t[i]
          BY <5>1
        <5>3. QED
          BY <1>1, <4>2, <5>2
      <4>3. QED
        BY <4>1, <4>2
    <3>2. u = [i \in 1 .. n |-> u[i]]
      OBVIOUS
    <3> HIDE DEF u
    <3>3. QED
      BY <3>1, <3>2
  <2> HIDE DEF u
  <2>5. Flat(f)
    BY <2>4
  <2> HIDE DEF f
  <2>6. \A i \in 1 .. n : f[i] = IF i = 1 THEN s[i] ELSE Then(f[i - 1], s[i])
    BY <2>5
  <2> HIDE DEF Flat
  <2> DEFINE D == {i \in 1 .. n : f[i] # t[i]}
  <2>7. ASSUME D # {} PROVE FALSE
    <3>1. D \in SUBSET Nat
      OBVIOUS
    <3>2. PICK i \in D : \A j \in D : i <= j
      BY <2>7, <3>1, SmallestOf
    <3>3. i # 1
      BY <2>2, <2>3, <2>6, <3>2
    <3>4. i \in 1 .. n /\ i - 1 \in 1 .. n /\ i - 1 < i
      BY <3>2, <3>3
    <3>5. f[i - 1] = t[i - 1]
      BY <3>2, <3>4
    <3>6. QED
      BY <1>1, <2>6, <3>2, <3>3, <3>4, <3>5
  <2>8. QED
    BY <2>1, <2>2, <2>7
<1>5. QED
  BY <1>3, <1>4

-----------------------------------------------------------------------------
(* Print: one object.                                                      *)

OpenText == <<<<"open", 0>>>>
CloseText == <<<<"close", 0>>>>
BackText == <<<<"...", 0>>>>
NumberText(k) == <<<<"value", k>>>>
LabelText(o, k) == <<Label(o, k)>>
KeysOf(o) == InOrder(DOMAIN o.items)

\* Calls of PrintSelf and paths, in a memory; and what their texts are made of.
Values(h) == [place : {0} \cup DOMAIN h, number : Int]
Calls(h) == Values(h) \X SUBSET Places
Entries(h) ==
  {<<"open", 0>>, <<"close", 0>>, <<"...", 0>>} \cup {<<"value", k>> : k \in Int}
    \cup {Label(h[p], k) : p \in DOMAIN h, k \in Int}

\* PrintShowsEveryPath: the texts of the items of the object at p, and of a path.
Parts(h, g, p, inside) ==
  [m \in DOMAIN KeysOf(h[p]) |->
     Then(LabelText(h[p], KeysOf(h[p])[m]), g[<<h[p].items[KeysOf(h[p])[m]], inside>>])]
ObjectText(h, g, p, inside) == Then(Then(OpenText, FlattenSeq(Parts(h, g, p, inside))), CloseText)
ShownOf(h, g, path) ==
  IF ~ IsObject(path[1]) THEN NumberText(path[1].number)
  ELSE IF path[1].place \in path[2] THEN BackText
  ELSE ObjectText(h, g, path[1].place, path[2] \cup {path[1].place})
IsShown(h, g) == g = [path \in Calls(h) |-> ShownOf(h, g, path)]

\* PrintSelf: from item to item, and a call.
Printed(text, guard) == [text |-> text, guard |-> guard]
AfterItem(f, o, m, before) ==
  Printed(Then(Then(before.text, LabelText(o, KeysOf(o)[m])), f[<<o.items[KeysOf(o)[m]], before.guard>>].text),
          f[<<o.items[KeysOf(o)[m]], before.guard>>].guard)
AreDone(t, f, o, inside) ==
  t = [m \in 0 .. Len(KeysOf(o)) |->
         IF m = 0 THEN Printed(OpenText, inside) ELSE AfterItem(f, o, m, t[m - 1])]
AllDone(f, o, inside) == (CHOOSE t : AreDone(t, f, o, inside))[Len(KeysOf(o))]
PrintedObject(f, p, inside) ==
  Printed(Append(AllDone(f, heap[p], inside).text, <<"close", 0>>), Unguarded(AllDone(f, heap[p], inside).guard, p))
PrintOf(f, call) ==
  IF ~ IsObject(call[1]) THEN Printed(NumberText(call[1].number), call[2])
  ELSE IF call[1].place \in call[2] THEN Printed(BackText, call[2])
  ELSE PrintedObject(f, call[1].place, call[2] \cup {call[1].place})
IsPrint(f) == f = [call \in Calls(heap) |-> PrintOf(f, call)]

LEMMA PrintSelfIs ==
  ASSUME NEW value
  PROVE  PrintSelf(value) = (CHOOSE f : IsPrint(f))[<<value, {}>>].text
BY Zenon DEF PrintSelf, IsPrint, PrintOf, PrintedObject, AllDone, AreDone, AfterItem, Printed, KeysOf,
             LabelText, NumberText, OpenText, BackText, Then, Calls, Values

LEMMA ShownIs ==
  PrintShowsEveryPath <=>
    (last.kind = "print" => last.text = (CHOOSE g : IsShown(heap, g))[<<last.value, {}>>])
BY Zenon DEF PrintShowsEveryPath, IsShown, ShownOf, ObjectText, Parts, KeysOf,
             LabelText, NumberText, OpenText, BackText, CloseText, Then, Calls, Values

LEMMA TextsAre ==
  ASSUME NEW h
  PROVE  /\ OpenText \in Seq(Entries(h)) /\ CloseText \in Seq(Entries(h)) /\ BackText \in Seq(Entries(h))
         /\ \A k \in Int : NumberText(k) \in Seq(Entries(h))
         /\ \A p \in DOMAIN h : \A k \in Int : LabelText(h[p], k) \in Seq(Entries(h))
<1>1. \A x \in Entries(h) : <<x>> \in Seq(Entries(h))
  OBVIOUS
<1>2. /\ <<"open", 0>> \in Entries(h) /\ <<"close", 0>> \in Entries(h) /\ <<"...", 0>> \in Entries(h)
      /\ \A k \in Int : <<"value", k>> \in Entries(h)
      /\ \A p \in DOMAIN h : \A k \in Int : Label(h[p], k) \in Entries(h)
  BY DEF Entries
<1>3. QED
  BY <1>1, <1>2 DEF OpenText, CloseText, BackText, NumberText, LabelText

LEMMA ThenIs ==
  ASSUME NEW E, NEW a \in Seq(E), NEW b \in Seq(E)
  PROVE  /\ Then(a, b) \in Seq(E) /\ Then(a, <<>>) = a
         /\ \A c \in Seq(E) : Then(Then(a, b), c) = Then(a, Then(b, c))
BY ConcatProperties, ConcatEmptySeq, ConcatAssociative DEF Then

\* The items of an object, by the order of their keys.
ItemAt(o, m) == o.items[KeysOf(o)[m]]
LEMMA KeysOfAre ==
  ASSUME NEW h, MemoryOk(h), NEW p \in DOMAIN h
  PROVE  /\ Len(KeysOf(h[p])) \in Nat /\ DOMAIN KeysOf(h[p]) = 1 .. Len(KeysOf(h[p]))
         /\ \A m \in 1 .. Len(KeysOf(h[p])) : KeysOf(h[p])[m] \in Int /\ ItemAt(h[p], m) \in Values(h)
<1> DEFINE o == h[p]
           S == DOMAIN o.items
           n == Cardinality(S)
           keys == KeysOf(o)
<1>1. WellMade(o) /\ Within(o, DOMAIN h)
  BY DEF MemoryOk
<1>2. S \in SUBSET Int /\ IsFiniteSet(S) /\ \A k \in S : Leads(o.items[k], DOMAIN h)
  BY <1>1, ItemsLead
<1>3. Climbs(keys, n, S) /\ n \in Nat
  BY <1>2, InOrderIs, FS_CardinalityType DEF KeysOf
<1> HIDE DEF S, n, keys
<1>4. keys \in [1 .. n -> S]
  BY <1>3 DEF Climbs
<1>5. Len(keys) = n /\ DOMAIN keys = 1 .. n
  BY <1>3, <1>4, SequenceIs
<1>6. \A m \in 1 .. n : keys[m] \in S /\ keys[m] \in Int
  BY <1>2, <1>4
<1>7. \A v : Leads(v, DOMAIN h) => v \in Values(h)
  BY DEF Leads, Value, Values
<1>8. \A m \in 1 .. n : o.items[keys[m]] \in Values(h)
  BY <1>2, <1>6, <1>7
<1>9. QED
  BY <1>3, <1>5, <1>6, <1>8 DEF keys, ItemAt

\* If every item prints the text of the path to it, and gives back the guard it
\* was given, so does the object.
TextsIn(h, g, p, inside) ==
  \A m \in 1 .. Len(KeysOf(h[p])) : g[<<ItemAt(h[p], m), inside>>] \in Seq(Entries(h))
Agreeing(f, g, p, inside) ==
  \A m \in 1 .. Len(KeysOf(heap[p])) :
    f[<<ItemAt(heap[p], m), inside>>] = Printed(g[<<ItemAt(heap[p], m), inside>>], inside)

LEMMA PrintedIs ==
  \A text, guard : Printed(text, guard).text = text /\ Printed(text, guard).guard = guard
BY DEF Printed

LEMMA PartsAre ==
  ASSUME NEW h, MemoryOk(h), NEW p \in DOMAIN h, NEW g, NEW inside, TextsIn(h, g, p, inside)
  PROVE  /\ Parts(h, g, p, inside) \in [1 .. Len(KeysOf(h[p])) -> Seq(Entries(h))]
         /\ \A m \in 1 .. Len(KeysOf(h[p])) :
              Parts(h, g, p, inside)[m] = Then(LabelText(h[p], KeysOf(h[p])[m]), g[<<ItemAt(h[p], m), inside>>])
<1> DEFINE n == Len(KeysOf(h[p]))
           E == Entries(h)
           key(m) == KeysOf(h[p])[m]
           part(m) == Then(LabelText(h[p], key(m)), g[<<ItemAt(h[p], m), inside>>])
<1>1. n \in Nat /\ DOMAIN KeysOf(h[p]) = 1 .. n /\ \A m \in 1 .. n : key(m) \in Int
  BY KeysOfAre
<1>2. Parts(h, g, p, inside) = [m \in DOMAIN KeysOf(h[p]) |-> part(m)]
  BY Zenon DEF Parts, ItemAt
<1>3. ASSUME NEW m \in 1 .. n PROVE part(m) \in Seq(E)
  <2>1. LabelText(h[p], key(m)) \in Seq(E)
    BY <1>1, TextsAre
  <2>2. g[<<ItemAt(h[p], m), inside>>] \in Seq(E)
    BY DEF TextsIn
  <2>3. QED
    BY <2>1, <2>2, ThenIs
<1> HIDE DEF n, E, part
<1>4. Parts(h, g, p, inside) = [m \in 1 .. n |-> part(m)]
  BY <1>1, <1>2
<1>5. Parts(h, g, p, inside) \in [1 .. n -> Seq(E)]
  BY <1>3, <1>4
<1>6. \A m \in 1 .. n : Parts(h, g, p, inside)[m] = part(m)
  BY <1>4
<1>7. QED
  BY <1>5, <1>6 DEF n, E, part

LEMMA ObjectTextIs ==
  ASSUME NEW h, MemoryOk(h), NEW p \in DOMAIN h, NEW g, NEW inside, TextsIn(h, g, p, inside)
  PROVE  /\ FlattenSeq(Parts(h, g, p, inside)) \in Seq(Entries(h))
         /\ ObjectText(h, g, p, inside) \in Seq(Entries(h))
<1> DEFINE n == Len(KeysOf(h[p]))
           E == Entries(h)
           s == Parts(h, g, p, inside)
<1>1. n \in Nat /\ s \in [1 .. n -> Seq(E)]
  BY KeysOfAre, PartsAre
<1> HIDE DEF n, s, E
<1>2. PICK t : Joins(t, s, n)
  BY <1>1, JoinsExist
<1>3. \A k \in 1 .. n : s[k] \in Seq(E)
  BY <1>1
<1>4. JoinsIn(t, s, n, Seq(E))
  BY <1>1, <1>2, <1>3, JoinsAre
<1>5. FlattenSeq(s) = t[n]
  BY <1>1, <1>2, FlattenIs
<1>6. FlattenSeq(s) \in Seq(E)
  BY <1>1, <1>4, <1>5 DEF JoinsIn
<1>7. OpenText \in Seq(E) /\ CloseText \in Seq(E)
  BY TextsAre DEF E
<1>8. Then(OpenText, FlattenSeq(s)) \in Seq(E)
  BY <1>6, <1>7, ThenIs
<1>9. Then(Then(OpenText, FlattenSeq(s)), CloseText) \in Seq(E)
  BY <1>7, <1>8, ThenIs
<1>10. QED
  BY <1>6, <1>9 DEF ObjectText, s, E

LEMMA DoneIs ==
  ASSUME MemoryOk(heap), NEW p \in DOMAIN heap, NEW f, NEW g, NEW inside,
         TextsIn(heap, g, p, inside), Agreeing(f, g, p, inside)
  PROVE  AllDone(f, heap[p], inside) = Printed(Then(OpenText, FlattenSeq(Parts(heap, g, p, inside))), inside)
<1> DEFINE o == heap[p]
           n == Len(KeysOf(o))
           E == Entries(heap)
           s == Parts(heap, g, p, inside)
           D(m, before) == AfterItem(f, o, m, before)
           first == Printed(OpenText, inside)
<1>1. n \in Nat /\ s \in [1 .. n -> Seq(E)]
  BY KeysOfAre, PartsAre
<1>2. PICK t : Joins(t, s, n)
  BY <1>1, JoinsExist
<1>3. JoinsIn(t, s, n, Seq(E)) /\ FlattenSeq(s) = t[n]
  <2>1. \A k \in 1 .. n : s[k] \in Seq(E)
    BY <1>1
  <2>2. JoinsIn(t, s, n, Seq(E))
    BY <1>1, <1>2, <2>1, JoinsAre
  <2>3. QED
    BY <1>1, <1>2, <2>2, FlattenIs
<1> DEFINE So(m) == Printed(Then(OpenText, t[m]), inside)
<1>4. So(0) = first
  <2>1. t[0] = <<>> /\ OpenText \in Seq(E)
    BY <1>3, TextsAre DEF JoinsIn
  <2>2. Then(OpenText, <<>>) = OpenText
    BY <2>1, ThenIs
  <2>3. QED
    BY <2>1, <2>2
<1>5. ASSUME NEW m \in 1 .. n PROVE D(m, So(m - 1)) = So(m)
  <2> DEFINE label == LabelText(o, KeysOf(o)[m])
             text == g[<<ItemAt(o, m), inside>>]
             begun == t[m - 1]
             so == So(m - 1)
  <2>1. so.text = Then(OpenText, begun) /\ so.guard = inside
    BY PrintedIs
  <2>2. f[<<ItemAt(o, m), so.guard>>] = Printed(text, inside)
    BY <2>1 DEF Agreeing
  <2>3. D(m, so) = Printed(Then(Then(so.text, label), Printed(text, inside).text), Printed(text, inside).guard)
    BY Zenon, <2>2 DEF AfterItem, ItemAt
  <2>4. D(m, so) = Printed(Then(Then(Then(OpenText, begun), label), text), inside)
    BY <2>1, <2>3, PrintedIs
  <2>5. t[m] = Then(begun, Then(label, text))
    <3>1. s[m] = Then(label, text)
      BY PartsAre
    <3>2. QED
      BY <1>3, <3>1 DEF JoinsIn
  <2>6. /\ begun \in Seq(E) /\ OpenText \in Seq(E) /\ label \in Seq(E) /\ text \in Seq(E)
    <3>1. m - 1 \in 0 .. n
      BY <1>1
    <3>2. begun \in Seq(E)
      BY <1>3, <3>1 DEF JoinsIn
    <3>3. label \in Seq(E) /\ OpenText \in Seq(E)
      BY KeysOfAre, TextsAre
    <3>4. text \in Seq(E)
      BY DEF TextsIn
    <3>5. QED
      BY <3>2, <3>3, <3>4
  <2> HIDE DEF begun, label, text, E, D, so
  <2>7. Then(Then(Then(OpenText, begun), label), text) = Then(OpenText, Then(begun, Then(label, text)))
    <3>1. Then(OpenText, begun) \in Seq(E) /\ Then(label, text) \in Seq(E)
      BY <2>6, ThenIs
    <3>2. Then(Then(Then(OpenText, begun), label), text) = Then(Then(OpenText, begun), Then(label, text))
      BY <2>6, <3>1, ThenIs
    <3>3. Then(Then(OpenText, begun), Then(label, text)) = Then(OpenText, Then(begun, Then(label, text)))
      BY <2>6, <3>1, ThenIs
    <3>4. QED
      BY <3>2, <3>3
  <2>8. QED
    BY <2>4, <2>5, <2>7 DEF so
<1> HIDE DEF So, D, first, s, n, E
<1> DEFINE c == [m \in 0 .. n |-> So(m)]
           Goes(u) == u = [m \in 0 .. n |-> IF m = 0 THEN first ELSE D(m, u[m - 1])]
           d == CHOOSE u : Goes(u)
<1>6. Goes(c)
  <2>1. ASSUME NEW m \in 0 .. n PROVE c[m] = IF m = 0 THEN first ELSE D(m, c[m - 1])
    <3>1. m # 0 => m \in 1 .. n /\ m - 1 \in 0 .. n
      BY <1>1
    <3>2. c[m] = So(m) /\ (m # 0 => c[m - 1] = So(m - 1))
      BY <3>1
    <3>3. QED
      BY <1>4, <1>5, <3>1, <3>2
  <2>2. c = [m \in 0 .. n |-> c[m]]
    OBVIOUS
  <2> HIDE DEF c
  <2>3. QED
    BY <2>1, <2>2
<1> HIDE DEF c
<1>7. Goes(d)
  BY <1>6
<1>8. AllDone(f, o, inside) = d[n]
  BY Zenon DEF AllDone, AreDone, D, first, n
<1> HIDE DEF d
<1>9. \A m \in 0 .. n : d[m] = IF m = 0 THEN first ELSE D(m, d[m - 1])
  BY <1>7
<1> HIDE DEF Goes
<1> DEFINE W == {m \in 0 .. n : d[m] # So(m)}
<1>10. ASSUME W # {} PROVE FALSE
  <2>1. W \in SUBSET Nat
    OBVIOUS
  <2>2. PICK m \in W : \A j \in W : m <= j
    BY <1>10, <2>1, SmallestOf
  <2>3. m # 0
    BY <1>4, <1>9, <2>2
  <2>4. m \in 1 .. n /\ m - 1 \in 0 .. n /\ m - 1 < m
    BY <1>1, <2>2, <2>3
  <2>5. d[m - 1] = So(m - 1)
    BY <2>2, <2>4
  <2>6. QED
    BY <1>5, <1>9, <2>2, <2>3, <2>4, <2>5
<1>11. n \in 0 .. n
  BY <1>1
<1>12. d[n] = So(n)
  BY <1>10, <1>11
<1>13. QED
  BY <1>3, <1>8, <1>12 DEF So, s

LEMMA ObjectPrinted ==
  ASSUME MemoryOk(heap), NEW p \in DOMAIN heap, NEW f, NEW g, NEW inside,
         TextsIn(heap, g, p, inside), Agreeing(f, g, p, inside)
  PROVE  PrintedObject(f, p, inside) = Printed(ObjectText(heap, g, p, inside), inside \ {p})
<1> DEFINE text == Then(OpenText, FlattenSeq(Parts(heap, g, p, inside)))
           E == Entries(heap)
           all == AllDone(f, heap[p], inside)
<1>1. all.text = text /\ all.guard = inside
  BY DoneIs, PrintedIs
<1>2. text \in Seq(E)
  BY ObjectTextIs, TextsAre, ThenIs
<1>3. PrintedObject(f, p, inside) = Printed(Append(all.text, <<"close", 0>>), all.guard \ {p})
  BY Zenon DEF PrintedObject, Unguarded
<1>4. ObjectText(heap, g, p, inside) = Then(text, CloseText)
  BY DEF ObjectText
<1>5. <<"close", 0>> \in E
  BY DEF Entries
<1> HIDE DEF text, E, all
<1>6. Append(text, <<"close", 0>>) = Then(text, CloseText)
  BY <1>2, <1>5, AppendIsConcat DEF Then, CloseText
<1>7. QED
  BY <1>1, <1>3, <1>4, <1>6

-----------------------------------------------------------------------------
(* Print: every object it is inside of leaves room for one less.           *)

Room(guard) == Cardinality(Places \ guard)

LEMMA RoomIs ==
  ASSUME NEW guard \in SUBSET Places
  PROVE  /\ Room(guard) \in Nat
         /\ \A p \in Places : p \notin guard => Room(guard \cup {p}) < Room(guard)
<1>1. IsFiniteSet(Places \ guard)
  BY ObjectsAssumption, FS_Difference
<1>2. Room(guard) \in Nat
  BY <1>1, FS_CardinalityType DEF Room
<1>3. ASSUME NEW p \in Places, p \notin guard PROVE Room(guard \cup {p}) < Room(guard)
  <2>1. Cardinality((Places \ guard) \ {p}) = Cardinality(Places \ guard) - 1
    BY <1>1, <1>3, FS_RemoveElement
  <2>2. (Places \ guard) \ {p} = Places \ (guard \cup {p})
    OBVIOUS
  <2>3. QED
    BY <1>2, <2>1, <2>2 DEF Room
<1>4. QED
  BY <1>2, <1>3

LEMMA NoBadCall ==
  ASSUME NEW h, NEW Bad \in SUBSET Calls(h),
         \A path \in Bad : \E sub \in Bad : Room(sub[2]) < Room(path[2])
  PROVE  Bad = {}
<1> DEFINE D == {Room(path[2]) : path \in Bad}
<1>1. \A path \in Bad : Room(path[2]) \in Nat
  BY RoomIs DEF Calls
<1> SUFFICES ASSUME Bad # {} PROVE FALSE
  OBVIOUS
<1>2. D \in SUBSET Nat /\ D # {}
  BY <1>1
<1>3. PICK d \in D : \A e \in D : d <= e
  BY <1>2, SmallestOf
<1>4. PICK path \in Bad : d = Room(path[2])
  BY <1>3
<1>5. PICK sub \in Bad : Room(sub[2]) < Room(path[2])
  BY <1>4
<1>6. d <= Room(sub[2])
  BY <1>3, <1>5
<1>7. QED
  BY <1>1, <1>4, <1>5, <1>6

\* The calls that a call makes.
Enters(path) == IsObject(path[1]) /\ path[1].place \notin path[2]
InsideOf(path) == path[2] \cup {path[1].place}
SubCall(h, path, m) == <<ItemAt(h[path[1].place], m), InsideOf(path)>>

LEMMA SubCallsAre ==
  ASSUME NEW h, MemoryOk(h), NEW path \in Calls(h), Enters(path)
  PROVE  /\ path[1].place \in DOMAIN h /\ InsideOf(path) \ {path[1].place} = path[2]
         /\ \A m \in 1 .. Len(KeysOf(h[path[1].place])) :
              SubCall(h, path, m) \in Calls(h) /\ Room(SubCall(h, path, m)[2]) < Room(path[2])
<1>1. path[1] \in Values(h) /\ path[2] \in SUBSET Places
  BY DEF Calls
<1> DEFINE p == path[1].place
           guard == path[2]
<1>2. p \in DOMAIN h /\ p \in Places /\ p \notin guard /\ guard \in SUBSET Places
  <2>1. p \in {0} \cup DOMAIN h
    BY <1>1 DEF Values
  <2>2. p # 0 /\ p \notin guard
    BY DEF Enters, IsObject
  <2>3. QED
    BY <1>1, <2>1, <2>2 DEF MemoryOk
<1>3. InsideOf(path) = guard \cup {p}
  BY DEF InsideOf
<1>4. \A m \in 1 .. Len(KeysOf(h[p])) : ItemAt(h[p], m) \in Values(h)
  BY <1>2, KeysOfAre
<1> HIDE DEF p, guard
<1>5. guard \cup {p} \in SUBSET Places /\ (guard \cup {p}) \ {p} = guard
  BY <1>2
<1>6. Room(guard \cup {p}) < Room(guard)
  BY <1>2, RoomIs
<1>7. \A v \in Values(h) : <<v, guard \cup {p}>> \in Calls(h) /\ <<v, guard \cup {p}>>[2] = guard \cup {p}
  BY <1>5 DEF Calls
<1>8. QED
  BY <1>2, <1>3, <1>4, <1>5, <1>6, <1>7 DEF SubCall, p, guard

\* Alike(h, g, u, path): both functions have the same for the calls that path makes.
Alike(h, g, u, path) ==
  \A m \in 1 .. Len(KeysOf(h[path[1].place])) : g[SubCall(h, path, m)] = u[SubCall(h, path, m)]

LEMMA SameText ==
  ASSUME NEW h, MemoryOk(h), NEW k, NEW path \in Calls(h), NEW g, NEW u,
         Enters(path) => k[path[1].place] = h[path[1].place] /\ Alike(h, g, u, path)
  PROVE  ShownOf(k, u, path) = ShownOf(h, g, path)
<1>1. CASE ~ Enters(path)
  BY <1>1 DEF ShownOf, Enters
<1>2. CASE Enters(path)
  <2> DEFINE p == path[1].place
             inside == InsideOf(path)
             o == h[p]
             Of(w) == [m \in DOMAIN KeysOf(o) |-> Then(LabelText(o, KeysOf(o)[m]), w[<<o.items[KeysOf(o)[m]], inside>>])]
  <2>1. k[p] = o
    BY <1>2
  <2>2. \A m \in DOMAIN KeysOf(o) : g[<<o.items[KeysOf(o)[m]], inside>>] = u[<<o.items[KeysOf(o)[m]], inside>>]
    <3>1. p \in DOMAIN h
      BY <1>2, SubCallsAre
    <3>2. DOMAIN KeysOf(o) = 1 .. Len(KeysOf(o))
      BY <3>1, KeysOfAre
    <3>3. \A m \in 1 .. Len(KeysOf(o)) : g[<<ItemAt(o, m), inside>>] = u[<<ItemAt(o, m), inside>>]
      BY <1>2 DEF Alike, SubCall
    <3>4. QED
      BY Zenon, <3>2, <3>3 DEF ItemAt
  <2>3. Parts(h, g, p, inside) = Of(g)
    BY Zenon DEF Parts
  <2>4. Parts(k, u, p, inside) = Of(u)
    BY Zenon, <2>1 DEF Parts
  <2> HIDE DEF inside, o, p
  <2>5. Of(g) = Of(u)
    BY <2>2
  <2> HIDE DEF Of
  <2>6. ObjectText(k, u, p, inside) = ObjectText(h, g, p, inside)
    BY Zenon, <2>3, <2>4, <2>5 DEF ObjectText
  <2>7. ShownOf(h, g, path) = ObjectText(h, g, p, inside) /\ ShownOf(k, u, path) = ObjectText(k, u, p, inside)
    BY Zenon, <1>2 DEF ShownOf, Enters, p, inside, InsideOf
  <2>8. QED
    BY <2>6, <2>7
<1>3. QED
  BY <1>1, <1>2

\* There is a function that shows every path: one for paths with little room, and
\* from it one for those with room for one object more.
LEMMA ShownExists ==
  ASSUME NEW h, MemoryOk(h)
  PROVE  \E g : IsShown(h, g)
<1> DEFINE Good(g, d) == \A path \in Calls(h) : Room(path[2]) < d => g[path] = ShownOf(h, g, path)
           D == {d \in Nat : ~ \E g : Good(g, d)}
<1>1. \A path \in Calls(h) : Room(path[2]) \in Nat
  BY RoomIs DEF Calls
<1>2. ASSUME D # {} PROVE FALSE
  <2>1. PICK d \in D : \A e \in D : d <= e
    BY <1>2, SmallestOf
  <2>2. d # 0
    <3>1. \A path \in Calls(h) : ~ (Room(path[2]) < 0)
      BY <1>1
    <3>2. \A g : Good(g, 0)
      BY <3>1
    <3>3. QED
      BY <2>1, <3>2
  <2>3. d \in Nat /\ d - 1 \in Nat /\ d - 1 < d
    BY <2>1, <2>2
  <2>4. PICK g : Good(g, d - 1)
    BY <2>1, <2>3
  <2> DEFINE u == [path \in Calls(h) |-> ShownOf(h, g, path)]
  <2>5. ASSUME NEW path \in Calls(h), Room(path[2]) < d PROVE u[path] = ShownOf(h, u, path)
    <3>1. u[path] = ShownOf(h, g, path)
      OBVIOUS
    <3>2. ASSUME Enters(path) PROVE Alike(h, g, u, path)
      <4>1. ASSUME NEW m \in 1 .. Len(KeysOf(h[path[1].place]))
            PROVE  g[SubCall(h, path, m)] = u[SubCall(h, path, m)]
        <5> DEFINE sub == SubCall(h, path, m)
        <5>1. sub \in Calls(h) /\ Room(sub[2]) < Room(path[2])
          BY <3>2, SubCallsAre
        <5> HIDE DEF sub
        <5>2. Room(sub[2]) < d - 1
          <6>1. Room(sub[2]) \in Nat /\ Room(path[2]) \in Nat
            BY <1>1, <5>1
          <6>2. Room(sub[2]) < Room(path[2]) /\ Room(path[2]) < d /\ d \in Nat
            BY <2>3, <2>5, <5>1
          <6>3. QED
            BY <6>1, <6>2
        <5>3. g[sub] = ShownOf(h, g, sub)
          BY <2>4, <5>1, <5>2
        <5>4. u[sub] = ShownOf(h, g, sub)
          BY <5>1
        <5>5. QED
          BY <5>3, <5>4 DEF sub
      <4>2. QED
        BY <4>1 DEF Alike
    <3> HIDE DEF u, Good, D
    <3>3. Enters(path) => h[path[1].place] = h[path[1].place] /\ Alike(h, g, u, path)
      BY <3>2
    <3>4. ShownOf(h, u, path) = ShownOf(h, g, path)
      BY <3>3, SameText
    <3>5. QED
      BY <3>1, <3>4
  <2> HIDE DEF u
  <2>6. Good(u, d)
    BY <2>5
  <2> HIDE DEF Good
  <2>7. QED
    BY <2>1, <2>6
<1> DEFINE e == Cardinality(Places) + 1
<1>3. e \in Nat /\ \A path \in Calls(h) : Room(path[2]) < e
  <2>1. IsFiniteSet(Places) /\ Cardinality(Places) \in Nat
    BY ObjectsAssumption, FS_CardinalityType
  <2>2. \A guard : Room(guard) <= Cardinality(Places)
    BY <2>1, FS_Subset DEF Room
  <2>3. QED
    BY <1>1, <2>1, <2>2
<1> HIDE DEF e
<1>4. PICK g : Good(g, e)
  BY <1>2, <1>3
<1> DEFINE u == [path \in Calls(h) |-> g[path]]
<1>5. ASSUME NEW path \in Calls(h) PROVE u[path] = ShownOf(h, u, path)
  <2>1. u[path] = ShownOf(h, g, path)
    BY <1>3, <1>4
  <2>2. ASSUME Enters(path) PROVE Alike(h, g, u, path)
    <3>1. \A m \in 1 .. Len(KeysOf(h[path[1].place])) : SubCall(h, path, m) \in Calls(h)
      BY <2>2, SubCallsAre
    <3>2. QED
      BY <3>1 DEF Alike
  <2> HIDE DEF u
  <2>3. QED
    BY <2>1, <2>2, SameText
<1>6. u = [path \in Calls(h) |-> u[path]]
  OBVIOUS
<1> HIDE DEF u
<1>7. u = [path \in Calls(h) |-> ShownOf(h, u, path)]
  BY <1>5, <1>6
<1>8. QED
  BY <1>7 DEF IsShown

LEMMA ShownTexts ==
  ASSUME NEW h, MemoryOk(h), NEW g, IsShown(h, g), NEW path \in Calls(h)
  PROVE  /\ g[path] = ShownOf(h, g, path) /\ g[path] \in Seq(Entries(h))
         /\ Enters(path) => TextsIn(h, g, path[1].place, InsideOf(path))
<1>1. \A p \in Calls(h) : g[p] = ShownOf(h, g, p)
  BY DEF IsShown
<1> DEFINE Bad == {p \in Calls(h) : g[p] \notin Seq(Entries(h))}
<1>2. ASSUME NEW p \in Bad PROVE \E sub \in Bad : Room(sub[2]) < Room(p[2])
  <2>1. Enters(p)
    <3>1. CASE ~ IsObject(p[1])
      <4>1. p[1].number \in Int
        BY DEF Calls, Values
      <4>2. g[p] = NumberText(p[1].number)
        BY <1>1, <3>1 DEF ShownOf
      <4>3. QED
        BY <4>1, <4>2, TextsAre
    <3>2. CASE IsObject(p[1]) /\ p[1].place \in p[2]
      <4>1. g[p] = BackText
        BY <1>1, <3>2 DEF ShownOf
      <4>2. QED
        BY <4>1, TextsAre
    <3>3. QED
      BY <3>1, <3>2 DEF Enters
  <2>2. g[p] = ObjectText(h, g, p[1].place, InsideOf(p))
    BY <1>1, <2>1 DEF ShownOf, Enters, InsideOf
  <2>3. ~ TextsIn(h, g, p[1].place, InsideOf(p))
    BY <2>1, <2>2, SubCallsAre, ObjectTextIs
  <2>4. PICK m \in 1 .. Len(KeysOf(h[p[1].place])) : g[SubCall(h, p, m)] \notin Seq(Entries(h))
    BY <2>3 DEF TextsIn, SubCall
  <2>5. SubCall(h, p, m) \in Calls(h) /\ Room(SubCall(h, p, m)[2]) < Room(p[2])
    BY <2>1, SubCallsAre
  <2>6. QED
    BY <2>4, <2>5
<1>3. Bad = {}
  <2>1. Bad \in SUBSET Calls(h)
    OBVIOUS
  <2> HIDE DEF Bad
  <2>2. QED
    BY <1>2, <2>1, NoBadCall
<1>4. ASSUME Enters(path) PROVE TextsIn(h, g, path[1].place, InsideOf(path))
  <2>1. \A m \in 1 .. Len(KeysOf(h[path[1].place])) : SubCall(h, path, m) \in Calls(h)
    BY <1>4, SubCallsAre
  <2>2. QED
    BY <1>3, <2>1 DEF TextsIn, SubCall
<1>5. QED
  BY <1>1, <1>3, <1>4

\* Print does the same, whatever guard it is given: what it has put into it, it
\* takes from it.
LEMMA PrintOfIs ==
  ASSUME MemoryOk(heap), NEW g, IsShown(heap, g), NEW f, NEW call \in Calls(heap),
         Enters(call) => Agreeing(f, g, call[1].place, InsideOf(call))
  PROVE  PrintOf(f, call) = Printed(g[call], call[2])
<1>1. g[call] = ShownOf(heap, g, call)
  BY ShownTexts
<1>2. CASE ~ Enters(call)
  BY <1>1, <1>2 DEF PrintOf, ShownOf, Enters
<1>3. CASE Enters(call)
  <2> DEFINE p == call[1].place
             inside == InsideOf(call)
  <2>1. p \in DOMAIN heap /\ inside \ {p} = call[2]
    BY <1>3, SubCallsAre
  <2>2. TextsIn(heap, g, p, inside) /\ Agreeing(f, g, p, inside)
    BY <1>3, ShownTexts
  <2>3. g[call] = ObjectText(heap, g, p, inside) /\ PrintOf(f, call) = PrintedObject(f, p, inside)
    BY Zenon, <1>1, <1>3 DEF ShownOf, PrintOf, Enters, InsideOf
  <2> HIDE DEF p, inside
  <2>4. PrintedObject(f, p, inside) = Printed(ObjectText(heap, g, p, inside), inside \ {p})
    BY <2>1, <2>2, ObjectPrinted
  <2>5. QED
    BY <2>1, <2>3, <2>4
<1>4. QED
  BY <1>2, <1>3

LEMMA PrintShows ==
  ASSUME MemoryOk(heap), NEW g, IsShown(heap, g), NEW value \in Values(heap)
  PROVE  PrintSelf(value) = g[<<value, {}>>]
<1> DEFINE f == CHOOSE f : IsPrint(f)
           u == [call \in Calls(heap) |-> Printed(g[call], call[2])]
<1>1. PrintSelf(value) = f[<<value, {}>>].text
  BY PrintSelfIs
<1>2. \A call \in Calls(heap) : u[call] = PrintOf(u, call)
  <2>1. SUFFICES ASSUME NEW call \in Calls(heap) PROVE u[call] = PrintOf(u, call)
    OBVIOUS
  <2>2. ASSUME Enters(call) PROVE Agreeing(u, g, call[1].place, InsideOf(call))
    <3>1. ASSUME NEW m \in 1 .. Len(KeysOf(heap[call[1].place]))
          PROVE  u[<<ItemAt(heap[call[1].place], m), InsideOf(call)>>]
                   = Printed(g[<<ItemAt(heap[call[1].place], m), InsideOf(call)>>], InsideOf(call))
      <4>1. SubCall(heap, call, m) \in Calls(heap)
        BY <2>2, SubCallsAre
      <4>2. <<ItemAt(heap[call[1].place], m), InsideOf(call)>> \in Calls(heap)
        BY <4>1 DEF SubCall
      <4>3. QED
        BY <4>2
    <3> HIDE DEF u
    <3>2. QED
      BY <3>1 DEF Agreeing
  <2>3. u[call] = Printed(g[call], call[2])
    OBVIOUS
  <2> HIDE DEF u
  <2>4. QED
    BY <2>2, <2>3, PrintOfIs
<1>3. IsPrint(u)
  <2>1. u = [call \in Calls(heap) |-> u[call]]
    OBVIOUS
  <2> HIDE DEF u
  <2>2. u = [call \in Calls(heap) |-> PrintOf(u, call)]
    BY <1>2, <2>1
  <2>3. QED
    BY <2>2 DEF IsPrint
<1> HIDE DEF u
<1>4. IsPrint(f)
  BY <1>3
<1> HIDE DEF f
<1>5. \A call \in Calls(heap) : f[call] = PrintOf(f, call)
  BY <1>4 DEF IsPrint
<1> DEFINE Bad == {call \in Calls(heap) : f[call] # Printed(g[call], call[2])}
<1>6. ASSUME NEW call \in Bad PROVE \E sub \in Bad : Room(sub[2]) < Room(call[2])
  <2>1. call \in Calls(heap) /\ f[call] = PrintOf(f, call)
    BY <1>5
  <2>2. Enters(call) /\ ~ Agreeing(f, g, call[1].place, InsideOf(call))
    BY <2>1, PrintOfIs
  <2>3. PICK m \in 1 .. Len(KeysOf(heap[call[1].place])) :
          f[SubCall(heap, call, m)] # Printed(g[SubCall(heap, call, m)], InsideOf(call))
    BY <2>2 DEF Agreeing, SubCall
  <2>4. /\ SubCall(heap, call, m) \in Calls(heap) /\ Room(SubCall(heap, call, m)[2]) < Room(call[2])
        /\ SubCall(heap, call, m)[2] = InsideOf(call)
    BY <2>1, <2>2, SubCallsAre DEF SubCall
  <2>5. QED
    BY <2>3, <2>4
<1>7. Bad = {}
  <2>1. Bad \in SUBSET Calls(heap)
    OBVIOUS
  <2> HIDE DEF Bad
  <2>2. QED
    BY <1>6, <2>1, NoBadCall
<1>8. <<value, {}>> \in Calls(heap)
  BY DEF Calls
<1>9. f[<<value, {}>>] = Printed(g[<<value, {}>>], {})
  BY <1>7, <1>8
<1>10. QED
  BY <1>1, <1>9, PrintedIs

\* What is shown stays the same when other objects go.
LEMMA ShownStays ==
  ASSUME NEW h, MemoryOk(h), NEW g, IsShown(h, g), NEW k, MemoryOk(k), NEW u, IsShown(k, u),
         DOMAIN k \subseteq DOMAIN h, \A p \in DOMAIN k : k[p] = h[p], NEW path \in Calls(k)
  PROVE  u[path] = g[path]
<1>1. Calls(k) \subseteq Calls(h)
  BY DEF Calls, Values
<1> DEFINE Bad == {p \in Calls(k) : u[p] # g[p]}
<1>2. ASSUME NEW p \in Bad PROVE \E sub \in Bad : Room(sub[2]) < Room(p[2])
  <2>1. p \in Calls(k) /\ p \in Calls(h) /\ u[p] # g[p]
    BY <1>1
  <2>2. g[p] = ShownOf(h, g, p) /\ u[p] = ShownOf(k, u, p)
    BY <2>1, ShownTexts
  <2>3. Enters(p) /\ (k[p[1].place] = h[p[1].place] => ~ Alike(h, g, u, p))
    BY <2>1, <2>2, SameText
  <2>4. p[1].place \in DOMAIN k /\ k[p[1].place] = h[p[1].place]
    BY <2>1, <2>3, SubCallsAre
  <2>5. PICK m \in 1 .. Len(KeysOf(h[p[1].place])) : g[SubCall(h, p, m)] # u[SubCall(h, p, m)]
    BY <2>3, <2>4 DEF Alike
  <2>6. SubCall(h, p, m) = SubCall(k, p, m)
    BY <2>4 DEF SubCall
  <2>7. SubCall(k, p, m) \in Calls(k) /\ Room(SubCall(k, p, m)[2]) < Room(p[2])
    BY <2>1, <2>3, <2>4, SubCallsAre
  <2>8. QED
    BY <2>5, <2>6, <2>7
<1>3. Bad = {}
  <2>1. Bad \in SUBSET Calls(k)
    OBVIOUS
  <2> HIDE DEF Bad
  <2>2. QED
    BY <1>2, <2>1, NoBadCall
<1>4. QED
  BY <1>3

LEMMA ShownIsNext ==
  PrintShowsEveryPath' <=>
    (last'.kind = "print" => last'.text = (CHOOSE g : IsShown(heap', g))[<<last'.value, {}>>])
BY Zenon DEF PrintShowsEveryPath, IsShown, ShownOf, ObjectText, Parts, KeysOf,
             LabelText, NumberText, OpenText, BackText, CloseText, Then, Calls, Values

LEMMA PrintIsRight ==
  ASSUME ObInv, ObInv', PrintStatement
  PROVE  PrintShowsEveryPath'
<1>1. PICK x \in Visible :
        Ends(heap, scope, Rest, [kind |-> "print", value |-> scope[x], text |-> PrintSelf(scope[x])])
  BY Zenon DEF PrintStatement
<1> DEFINE value == scope[x]
           l == [kind |-> "print", value |-> value, text |-> PrintSelf(value)]
           R == Reachable(heap, RootsOf(scope, Rest, l))
<1>2. l.kind = "print" /\ l.value = value /\ l.text = PrintSelf(value)
  OBVIOUS
<1>3. MemoryOk(heap) /\ ScopeOk(scope, DOMAIN heap) /\ CycleOk(Rest, DOMAIN heap)
  BY RestIs DEF ObInv
<1>4. LastOk(l, heap)
  BY DEF LastOk
<1>5. last' = l /\ scope' = scope /\ heap' = [p \in R |-> heap[p]]
  BY <1>1 DEF Ends, Collected, RootsOf
<1>6. R \subseteq DOMAIN heap
  <2>1. RootsOf(scope, Rest, l) \subseteq DOMAIN heap
    BY <1>3, <1>4, RootsAre
  <2>2. DOMAIN heap \subseteq Places /\ \A p \in DOMAIN heap : Within(heap[p], DOMAIN heap)
    BY <1>3 DEF MemoryOk
  <2>3. QED
    BY <2>1, <2>2, ReachableIs
<1> HIDE DEF R, l
<1>7. /\ DOMAIN heap' \subseteq DOMAIN heap /\ \A p \in DOMAIN heap' : heap'[p] = heap[p]
      /\ MemoryOk(heap') /\ ScopeOk(scope', DOMAIN heap')
  BY <1>5, <1>6 DEF ObInv
<1>8. value \in Values(heap) /\ value \in Values(heap')
  <2>1. x \in DOMAIN scope
    BY DEF Visible
  <2>2. Leads(value, DOMAIN heap) /\ Leads(value, DOMAIN heap')
    BY <1>3, <1>5, <1>7, <2>1 DEF ScopeOk
  <2>3. QED
    BY <2>2 DEF Leads, Value, Values
<1> HIDE DEF value
<1> DEFINE g == CHOOSE g : IsShown(heap, g)
           u == CHOOSE u : IsShown(heap', u)
<1>9. IsShown(heap, g) /\ IsShown(heap', u)
  BY <1>3, <1>7, ShownExists
<1>10. last'.text = u[<<last'.value, {}>>] => PrintShowsEveryPath'
  BY Zenon, ShownIsNext
<1> HIDE DEF g, u
<1>11. PrintSelf(value) = g[<<value, {}>>]
  BY <1>3, <1>8, <1>9, PrintShows
<1>12. <<value, {}>> \in Calls(heap')
  BY <1>8 DEF Calls
<1>13. u[<<value, {}>>] = g[<<value, {}>>]
  BY <1>3, <1>7, <1>9, <1>12, ShownStays
<1>14. QED
  BY <1>2, <1>5, <1>10, <1>11, <1>13

\* What the other statements leave: no text, or the one there was.
LEMMA TextsStay ==
  ASSUME PrintShowsEveryPath, last'.kind # "print" \/ UNCHANGED <<heap, last>>
  PROVE  PrintShowsEveryPath'
<1>1. CASE last'.kind # "print"
  BY <1>1, ShownIsNext
<1>2. CASE UNCHANGED <<heap, last>>
  <2>1. heap' = heap /\ last' = last
    BY <1>2
  <2>2. QED
    BY Zenon, <2>1, ShownIs, ShownIsNext
<1>3. QED
  BY <1>1, <1>2

LEMMA NoTexts ==
  ASSUME \/ AssignArray \/ AssignTuple \/ AssignSum \/ AssignIndices \/ AssignVariable
         \/ AssignThrough \/ Delete \/ ForRange \/ ForItems \/ NextTurn \/ Exit
  PROVE  last'.kind # "print" \/ UNCHANGED <<heap, last>>
<1>1. NoLast.kind # "print"
  BY DEF NoLast
<1>2. ASSUME last' = NoLast \/ Fails PROVE last'.kind # "print" \/ UNCHANGED <<heap, last>>
  BY <1>1, <1>2 DEF Fails
<1>3. CASE AssignArray
  BY Zenon, <1>2, <1>3 DEF AssignArray, New, Ends
<1>4. CASE AssignTuple
  BY Zenon, <1>2, <1>4 DEF AssignTuple, New, Ends
<1>5. CASE AssignSum
  <2>1. \E a, b, c : last' = [kind |-> "sum", left |-> a, right |-> b, at |-> c]
    BY Zenon, <1>5 DEF AssignSum, Ends
  <2>2. QED
    BY <2>1
<1>6. CASE AssignIndices
  BY Zenon, <1>2, <1>6 DEF AssignIndices, New, Ends
<1>7. CASE AssignVariable
  BY Zenon, <1>2, <1>7 DEF AssignVariable, Ends
<1>8. CASE AssignThrough
  BY Zenon, <1>2, <1>8 DEF AssignThrough, Ends
<1>9. CASE Delete
  BY Zenon, <1>2, <1>9 DEF Delete, Ends
<1>10. CASE ForRange
  BY Zenon, <1>2, <1>10 DEF ForRange, Turn, Ends
<1>11. CASE ForItems
  BY Zenon, <1>2, <1>11 DEF ForItems, Turn, Over, Ends
<1>12. CASE NextTurn
  BY Zenon, <1>2, <1>12 DEF NextTurn, Turn, Over, Ends
<1>13. CASE Exit
  BY Zenon, <1>2, <1>13 DEF Exit, Over, Ends
<1>14. QED
  BY Zenon, <1>3, <1>4, <1>5, <1>6, <1>7, <1>8, <1>9, <1>10, <1>11, <1>12, <1>13

LEMMA PrintsStayRight ==
  ASSUME ObInv, PrintShowsEveryPath, [Next]_vars
  PROVE  PrintShowsEveryPath'
<1>1. CASE PrintStatement
  BY <1>1, StepKeeps, PrintIsRight
<1>2. CASE UNCHANGED vars
  BY <1>2, TextsStay DEF vars
<1>3. CASE Next /\ ~ PrintStatement
  <2>1. \/ AssignArray \/ AssignTuple \/ AssignSum \/ AssignIndices \/ AssignVariable
        \/ AssignThrough \/ Delete \/ ForRange \/ ForItems \/ NextTurn \/ Exit
    BY Zenon, <1>3 DEF Next
  <2>2. QED
    BY <2>1, NoTexts, TextsStay
<1>4. QED
  BY <1>1, <1>2, <1>3

-----------------------------------------------------------------------------
(* The theorems.                                                           *)

\* Whatever statements the program has, the invariant holds in every state.
THEOREM ObjectsAreKept == Spec => []ObInv
<1>1. Init => ObInv
  BY BeginsRight
<1>2. ObInv /\ [Next]_vars => ObInv'
  BY StepKeeps
<1>3. QED
  BY <1>1, <1>2, PTL DEF Spec

\* Every place that a variable, an item or the copy of a for leads to has an
\* object, however objects lead to each other and whatever is assigned through
\* accessors or deleted; the items of a tuple stay numbered from 1, and each of
\* its names is for an item of its own (TupleValue, DoPrintSelf).
THEOREM ObjectsAreThere == Spec => []TypeOK
<1>1. Spec => []ObInv
  BY ObjectsAreKept
<1>2. ObInv => TypeOK
  BY ObjectTypesAre
<1>3. QED
  BY <1>1, <1>2, PTL

\* BinaryPlus of two arrays and of two tuples loses no item and no name, keeps
\* the order and the gaps, and puts no gap between the two sides, for any
\* indices, negative ones too, and any number of items.
THEOREM SumsAreWhole == Spec => []SumKeepsEverything
<1>1. Spec => []ObInv
  BY ObjectsAreKept
<1>2. ObInv => SumKeepsEverything
  BY SumsAre
<1>3. QED
  BY <1>1, <1>2, PTL

\* VisitForStatement: the variable is all that was due, in order, unless exit
\* ends the for, and never anything else, whatever is done to the object, to its
\* items and to the variable meanwhile.
THEOREM CyclesAreExact == Spec => []CycleVisitsWhatWasThere
<1>1. Spec => []ObInv
  BY ObjectsAreKept
<1>2. ObInv => CycleVisitsWhatWasThere
  BY CyclesAre
<1>3. QED
  BY <1>1, <1>2, PTL

\* Print shows each item of each object as often as a path leads to it, however
\* objects share items or lead back to themselves: one guard for all that is
\* printed, from which an object is taken when it is done, does what a guard for
\* every path would do; and it ends, for on a path no object comes twice
\* (ArrayValue::DoPrintSelf, TupleValue::DoPrintSelf).
THEOREM PrintsAreWhole == Spec => []PrintShowsEveryPath
<1>1. Init => ObInv /\ PrintShowsEveryPath
  <2>1. Init => last.kind # "print"
    BY DEF Init, NoLast
  <2>2. QED
    BY <2>1, BeginsRight, ShownIs
<1>2. (ObInv /\ PrintShowsEveryPath) /\ [Next]_vars => (ObInv /\ PrintShowsEveryPath)'
  BY StepKeeps, PrintsStayRight
<1>3. QED
  BY <1>1, <1>2, PTL DEF Spec
=============================================================================
