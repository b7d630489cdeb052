--------------------------- MODULE Timeline_proofs ---------------------------
(***************************************************************************)
(* What the operations of ValueTimeline keep and change, for all           *)
(* timelines the analyzer can have.                                        *)
(***************************************************************************)
EXTENDS Timeline, FiniteSetTheorems, WellFoundedInduction, TLAPS

-----------------------------------------------------------------------------
(* Timelines the analyzer can have: an entry is a type or an object of its *)
(* value, and a variable is declared only where no other of its name is.   *)

Entry == {OfType(t) : t \in Types \cup {UnknownType}}
           \cup {OfValue(v, o) : v \in Values, o \in Nat \ {NoObject}}
Vars == UNION {[D -> Entry] : D \in SUBSET Names}
Exts == UNION {[D -> BOOLEAN] : D \in SUBSET Names}
Scope == [vars : Vars, ext : Exts]

VarsAt(tl, i) == tl.stack[i].vars
ExtAt(tl, i) == tl.stack[i].ext
Height(tl) == Len(tl.stack)

NoShadowing(tl) ==
  \A i, j \in 1 .. Height(tl) : \A x \in Names :
    x \in DOMAIN VarsAt(tl, i) /\ x \in DOMAIN VarsAt(tl, j) => i = j

\* No scope but i declares a name of xs.
FreeBut(tl, i, xs) ==
  \A j \in 1 .. Height(tl) : \A x \in xs : x \in DOMAIN VarsAt(tl, j) => j = i

Sane(tl) ==
  /\ tl \in [stack : Seq(Scope), blind : Seq(Nat)]
  /\ Height(tl) >= 1
  /\ \A b \in 1 .. Len(tl.blind) : tl.blind[b] \in 1 .. Height(tl) - 1
  /\ \A b, c \in 1 .. Len(tl.blind) : b < c => tl.blind[b] < tl.blind[c]
  /\ NoShadowing(tl)


LEMMA EntryParts ==
  ASSUME NEW e \in Entry
  PROVE  /\ e.type \in Types \cup {UnknownType} /\ e.value \in Values /\ e.object \in Nat
         /\ IsValue(e) => e.type = TypeOf(e.value)
         /\ ~IsValue(e) => e = OfType(e.type)
BY DEF Entry, OfType, OfValue, IsValue, NoObject, Values, TypeOf, Types

LEMMA ScopeParts ==
  ASSUME NEW s \in Scope
  PROVE  s.vars \in Vars /\ s.ext \in Exts /\ s = [vars |-> s.vars, ext |-> s.ext]
BY DEF Scope

LEMMA MapParts ==
  /\ \A v : v \in Vars <=> v \in [DOMAIN v -> Entry] /\ DOMAIN v \subseteq Names
  /\ \A e : e \in Exts <=> e \in [DOMAIN e -> BOOLEAN] /\ DOMAIN e \subseteq Names
BY DEF Vars, Exts

LEMMA MakeScope ==
  ASSUME NEW v \in Vars, NEW e \in Exts
  PROVE  [vars |-> v, ext |-> e] \in Scope
BY DEF Scope

LEMMA NewScopeIs == NewScope \in Scope /\ DOMAIN NewScope.vars = {} /\ DOMAIN NewScope.ext = {}
<1>1. DOMAIN <<>> = {} /\ <<>> \in [{} -> Entry] /\ <<>> \in [{} -> BOOLEAN]
  OBVIOUS
<1>2. <<>> \in Vars /\ <<>> \in Exts
  BY <1>1, MapParts
<1>3. QED
  BY <1>1, <1>2, MakeScope DEF NewScope

LEMMA SaneParts ==
  ASSUME NEW tl, Sane(tl)
  PROVE  LET n == Height(tl)
         IN /\ n \in Nat /\ n >= 1 /\ DOMAIN tl.stack = 1 .. n /\ n \in 1 .. n
            /\ tl.stack \in Seq(Scope) /\ tl.blind \in Seq(Nat)
            /\ tl = [stack |-> tl.stack, blind |-> tl.blind]
            /\ \A i \in 1 .. n : /\ tl.stack[i] \in Scope
                                 /\ VarsAt(tl, i) \in Vars
                                 /\ ExtAt(tl, i) \in Exts
<1>1. /\ tl.stack \in Seq(Scope) /\ tl.blind \in Seq(Nat)
      /\ tl = [stack |-> tl.stack, blind |-> tl.blind]
  BY DEF Sane
<1>2. Height(tl) \in Nat /\ Height(tl) >= 1 /\ DOMAIN tl.stack = 1 .. Height(tl)
  BY <1>1 DEF Sane, Height
<1>3. \A i \in 1 .. Height(tl) : tl.stack[i] \in Scope
  BY <1>1, <1>2
<1>4. QED
  BY <1>1, <1>2, <1>3, ScopeParts DEF VarsAt, ExtAt

\* A variable is found in the one scope that declares it.
LEMMA LookupIs ==
  ASSUME NEW tl, Sane(tl), NEW i \in 1 .. Height(tl), NEW x \in DOMAIN VarsAt(tl, i)
  PROVE  /\ Lookup(tl, x) = i /\ IsDeclared(tl, x) /\ x \in Names
         /\ x \in DeclaredNames(tl)
<1>1. DOMAIN tl.stack = 1 .. Height(tl) /\ x \in Names /\ i \in Nat
  BY SaneParts, MapParts
<1>2. DeclaredIn(tl, x) = {i}
  BY <1>1 DEF DeclaredIn, Sane, NoShadowing, VarsAt
<1>3. Max({i}) = i
  BY <1>1 DEF Max
<1>4. QED
  BY <1>1, <1>2, <1>3 DEF Lookup, IsDeclared, DeclaredNames

LEMMA DeclaredSomewhere ==
  ASSUME NEW tl, Sane(tl), NEW x, IsDeclared(tl, x)
  PROVE  Lookup(tl, x) \in 1 .. Height(tl) /\ x \in DOMAIN VarsAt(tl, Lookup(tl, x))
<1>1. PICK i \in 1 .. Height(tl) : x \in DOMAIN VarsAt(tl, i)
  BY SaneParts DEF IsDeclared, DeclaredIn, VarsAt
<1>2. QED
  BY <1>1, LookupIs

-----------------------------------------------------------------------------
(* One scope changed.                                                      *)

LEMMA ScopePutIn ==
  ASSUME NEW tl, Sane(tl), NEW i \in 1 .. Height(tl), NEW d \in Scope
  PROVE  LET new == [tl.stack EXCEPT ![i] = d]
         IN new \in Seq(Scope) /\ Len(new) = Height(tl)
<1>1. tl.stack \in Seq(Scope) /\ Height(tl) = Len(tl.stack)
  BY SaneParts DEF Height
<1>2. QED
  BY <1>1

LEMMA WithVars ==
  ASSUME NEW tl, Sane(tl), NEW i \in 1 .. Height(tl),
         NEW v \in Vars, FreeBut(tl, i, DOMAIN v),
         NEW T, T = [tl EXCEPT !.stack[i].vars = v]
  PROVE  /\ Sane(T) /\ Height(T) = Height(tl) /\ T.blind = tl.blind
         /\ VarsAt(T, i) = v
         /\ \A j \in 1 .. Height(tl) : j # i => VarsAt(T, j) = VarsAt(tl, j)
         /\ \A j \in 1 .. Height(tl) : ExtAt(T, j) = ExtAt(tl, j)
<1> DEFINE n == Height(tl)
           s == [vars |-> v, ext |-> ExtAt(tl, i)]
<1>1. /\ n \in Nat /\ n >= 1 /\ DOMAIN tl.stack = 1 .. n
      /\ tl.stack \in Seq(Scope) /\ tl.blind \in Seq(Nat) /\ Len(tl.stack) = n
      /\ tl = [stack |-> tl.stack, blind |-> tl.blind]
  BY SaneParts DEF Height
<1>2. ExtAt(tl, i) \in Exts /\ tl.stack[i] \in Scope
  BY SaneParts
<1>3. s \in Scope
  BY <1>2, MakeScope
<1>4. [tl.stack[i] EXCEPT !.vars = v] = s
  BY <1>2, ScopeParts DEF ExtAt
<1>5. T = [stack |-> [tl.stack EXCEPT ![i] = s], blind |-> tl.blind]
  <2>1. T = [tl EXCEPT !.stack = [tl.stack EXCEPT ![i] = [tl.stack[i] EXCEPT !.vars = v]]]
    BY Zenon
  <2>2. T = [tl EXCEPT !.stack = [tl.stack EXCEPT ![i] = s]]
    BY <1>4, <2>1, Zenon
  <2>3. ASSUME NEW st PROVE [tl EXCEPT !.stack = st] = [stack |-> st, blind |-> tl.blind]
    BY <1>1
  <2>4. QED
    BY <2>2, <2>3, Zenon
<1>6. T.stack = [tl.stack EXCEPT ![i] = s] /\ T.blind = tl.blind
  BY <1>5
<1>7. T.stack \in Seq(Scope) /\ Len(T.stack) = n
  <2> HIDE DEF s
  <2>1. [tl.stack EXCEPT ![i] = s] \in Seq(Scope) /\ Len([tl.stack EXCEPT ![i] = s]) = n
    BY <1>3, ScopePutIn
  <2>2. QED
    BY <1>6, <2>1, Zenon
<1>8. T.stack[i] = s /\ \A j \in 1 .. n : j # i => T.stack[j] = tl.stack[j]
  BY <1>1, <1>6
<1>9. VarsAt(T, i) = v /\ ExtAt(T, i) = ExtAt(tl, i)
  BY <1>8 DEF VarsAt, ExtAt
<1>10. \A j \in 1 .. n : j # i => VarsAt(T, j) = VarsAt(tl, j) /\ ExtAt(T, j) = ExtAt(tl, j)
  BY <1>8 DEF VarsAt, ExtAt
<1>11. Height(T) = n
  BY <1>7 DEF Height
<1>12. NoShadowing(T)
  <2> SUFFICES ASSUME NEW j \in 1 .. n, NEW k \in 1 .. n, NEW x \in Names,
                      x \in DOMAIN VarsAt(T, j), x \in DOMAIN VarsAt(T, k)
               PROVE  j = k
    BY <1>11 DEF NoShadowing
  <2>1. CASE j = i /\ k # i
    BY <1>9, <1>10, <2>1 DEF FreeBut
  <2>2. CASE j # i /\ k = i
    BY <1>9, <1>10, <2>2 DEF FreeBut
  <2>3. CASE j # i /\ k # i
    BY <1>10, <2>3 DEF Sane, NoShadowing
  <2>4. QED
    BY <2>1, <2>2, <2>3
<1>13. Sane(T)
  <2>1. T \in [stack : Seq(Scope), blind : Seq(Nat)]
    <3>1. T = [stack |-> T.stack, blind |-> T.blind]
      BY <1>5, <1>6
    <3>2. QED
      BY <1>1, <1>6, <1>7, <3>1
  <2>2. QED
    BY <1>1, <1>6, <1>11, <1>12, <2>1 DEF Sane
<1>14. QED
  BY <1>6, <1>9, <1>10, <1>11, <1>13

LEMMA WithExt ==
  ASSUME NEW tl, Sane(tl), NEW i \in 1 .. Height(tl),
         NEW e \in Exts, NEW T, T = [tl EXCEPT !.stack[i].ext = e]
  PROVE  /\ Sane(T) /\ Height(T) = Height(tl) /\ T.blind = tl.blind
         /\ ExtAt(T, i) = e
         /\ \A j \in 1 .. Height(tl) : j # i => ExtAt(T, j) = ExtAt(tl, j)
         /\ \A j \in 1 .. Height(tl) : VarsAt(T, j) = VarsAt(tl, j)
<1> DEFINE n == Height(tl)
           s == [vars |-> VarsAt(tl, i), ext |-> e]
<1>1. /\ n \in Nat /\ n >= 1 /\ DOMAIN tl.stack = 1 .. n
      /\ tl.stack \in Seq(Scope) /\ tl.blind \in Seq(Nat) /\ Len(tl.stack) = n
      /\ tl = [stack |-> tl.stack, blind |-> tl.blind]
  BY SaneParts DEF Height
<1>2. VarsAt(tl, i) \in Vars /\ tl.stack[i] \in Scope
  BY SaneParts
<1>3. s \in Scope
  BY <1>2, MakeScope
<1>4. [tl.stack[i] EXCEPT !.ext = e] = s
  BY <1>2, ScopeParts DEF VarsAt
<1>5. T = [stack |-> [tl.stack EXCEPT ![i] = s], blind |-> tl.blind]
  <2>1. T = [tl EXCEPT !.stack = [tl.stack EXCEPT ![i] = [tl.stack[i] EXCEPT !.ext = e]]]
    BY Zenon
  <2>2. T = [tl EXCEPT !.stack = [tl.stack EXCEPT ![i] = s]]
    BY <1>4, <2>1, Zenon
  <2>3. ASSUME NEW st PROVE [tl EXCEPT !.stack = st] = [stack |-> st, blind |-> tl.blind]
    BY <1>1
  <2>4. QED
    BY <2>2, <2>3, Zenon
<1>6. T.stack = [tl.stack EXCEPT ![i] = s] /\ T.blind = tl.blind
  BY <1>5
<1>7. T.stack \in Seq(Scope) /\ Len(T.stack) = n
  <2> HIDE DEF s
  <2>1. [tl.stack EXCEPT ![i] = s] \in Seq(Scope) /\ Len([tl.stack EXCEPT ![i] = s]) = n
    BY <1>3, ScopePutIn
  <2>2. QED
    BY <1>6, <2>1, Zenon
<1>8. T.stack[i] = s /\ \A j \in 1 .. n : j # i => T.stack[j] = tl.stack[j]
  BY <1>1, <1>6
<1>9. VarsAt(T, i) = VarsAt(tl, i) /\ ExtAt(T, i) = e
  BY <1>8 DEF VarsAt, ExtAt
<1>10. \A j \in 1 .. n : j # i => VarsAt(T, j) = VarsAt(tl, j) /\ ExtAt(T, j) = ExtAt(tl, j)
  BY <1>8 DEF VarsAt, ExtAt
<1>11. Height(T) = n
  BY <1>7 DEF Height
<1>12. NoShadowing(T)
  <2>1. \A j \in 1 .. n : VarsAt(T, j) = VarsAt(tl, j)
    BY <1>9, <1>10
  <2> HIDE DEF n
  <2>2. QED
    BY <1>11, <2>1 DEF Sane, NoShadowing, n
<1>13. Sane(T)
  <2>1. T \in [stack : Seq(Scope), blind : Seq(Nat)]
    <3>1. T = [stack |-> T.stack, blind |-> T.blind]
      BY <1>5, <1>6
    <3>2. QED
      BY <1>1, <1>6, <1>7, <3>1
  <2>2. QED
    BY <1>1, <1>6, <1>11, <1>12, <2>1 DEF Sane
<1>14. QED
  BY <1>6, <1>9, <1>10, <1>11, <1>13

-----------------------------------------------------------------------------
(* Uses, assignments and declarations of a variable.                       *)

LEMMA WithIs ==
  ASSUME NEW f, NEW x, NEW v
  PROVE  /\ DOMAIN With(f, x, v) = DOMAIN f \cup {x}
         /\ With(f, x, v)[x] = v
         /\ \A y \in DOMAIN f : y # x => With(f, x, v)[y] = f[y]
         /\ f \in Vars /\ x \in Names /\ v \in Entry => With(f, x, v) \in Vars
         /\ f \in Exts /\ x \in Names /\ v \in BOOLEAN => With(f, x, v) \in Exts
<1>1. /\ DOMAIN With(f, x, v) = DOMAIN f \cup {x}
      /\ With(f, x, v)[x] = v
      /\ \A y \in DOMAIN f : y # x => With(f, x, v)[y] = f[y]
  BY DEF With
<1>2. ASSUME f \in Vars, x \in Names, v \in Entry PROVE With(f, x, v) \in Vars
  <2>1. With(f, x, v) \in [DOMAIN f \cup {x} -> Entry]
    BY <1>2, MapParts DEF With
  <2>2. QED
    BY <1>1, <1>2, <2>1, MapParts
<1>3. ASSUME f \in Exts, x \in Names, v \in BOOLEAN PROVE With(f, x, v) \in Exts
  <2>1. With(f, x, v) \in [DOMAIN f \cup {x} -> BOOLEAN]
    BY <1>3, MapParts DEF With
  <2>2. QED
    BY <1>1, <1>3, <2>1, MapParts
<1>4. QED
  BY <1>1, <1>2, <1>3

LEMMA ReferIs ==
  ASSUME NEW tl, Sane(tl), NEW x \in Names, NEW b \in BOOLEAN
  PROVE  LET T == Refer(tl, x, b)
             n == Height(tl)
         IN /\ Sane(T) /\ Height(T) = n /\ T.blind = tl.blind
            /\ \A i \in 1 .. n : VarsAt(T, i) = VarsAt(tl, i)
            /\ \A i \in 1 .. n : i # n => ExtAt(T, i) = ExtAt(tl, i)
            /\ ExtAt(T, n) = IF Lookup(tl, x) = n THEN ExtAt(tl, n) ELSE With(ExtAt(tl, n), x, b)
<1> DEFINE n == Height(tl)
           g == With(ExtAt(tl, n), x, b)
           W == [tl EXCEPT !.stack[n].ext = g]
<1>1. n \in 1 .. n /\ Len(tl.stack) = n
  BY SaneParts DEF Height
<1>2. ExtAt(tl, n) \in Exts
  BY <1>1, SaneParts
<1>3. g \in Exts
  BY <1>2, WithIs
<1>4. [tl EXCEPT !.stack[Len(tl.stack)].ext = With(@, x, b)] = W
  BY <1>1 DEF ExtAt
<1>5. CASE Lookup(tl, x) = n
  BY <1>1, <1>5 DEF Refer
<1>6. CASE Lookup(tl, x) # n
  <2>1. Refer(tl, x, b) = W
    BY <1>1, <1>4, <1>6 DEF Refer
  <2>2. W = [tl EXCEPT !.stack[n].ext = g]
    OBVIOUS
  <2> HIDE DEF g, W
  <2>3. /\ Sane(W) /\ Height(W) = n /\ W.blind = tl.blind /\ ExtAt(W, n) = g
        /\ \A j \in 1 .. n : j # n => ExtAt(W, j) = ExtAt(tl, j)
        /\ \A j \in 1 .. n : VarsAt(W, j) = VarsAt(tl, j)
    BY <1>1, <1>3, <2>2, WithExt
  <2>4. QED
    BY <1>6, <2>1, <2>3 DEF g
<1>7. QED
  BY <1>5, <1>6

LEMMA SetVarIs ==
  ASSUME NEW tl, Sane(tl), NEW x, IsDeclared(tl, x), NEW e \in Entry
  PROVE  LET T == SetVar(tl, x, e)
             n == Height(tl)
             l == Lookup(tl, x)
         IN /\ Sane(T) /\ Height(T) = n /\ T.blind = tl.blind
            /\ l \in 1 .. n /\ x \in DOMAIN VarsAt(tl, l)
            /\ \A i \in 1 .. n : i # l => VarsAt(T, i) = VarsAt(tl, i)
            /\ \A i \in 1 .. n : ExtAt(T, i) = ExtAt(tl, i)
            /\ VarsAt(T, l) = [VarsAt(tl, l) EXCEPT ![x] = e]
            /\ DOMAIN VarsAt(T, l) = DOMAIN VarsAt(tl, l)
<1> DEFINE n == Height(tl)
           l == Lookup(tl, x)
           g == [VarsAt(tl, l) EXCEPT ![x] = e]
           W == [tl EXCEPT !.stack[l].vars = g]
<1>1. l \in 1 .. n /\ x \in DOMAIN VarsAt(tl, l)
  BY DeclaredSomewhere
<1>2. VarsAt(tl, l) \in Vars
  BY <1>1, SaneParts
<1>3. DOMAIN g = DOMAIN VarsAt(tl, l) /\ g \in Vars
  BY <1>1, <1>2, MapParts
<1>4. SetVar(tl, x, e) = W
  BY Zenon DEF SetVar, VarsAt
<1>5. FreeBut(tl, l, DOMAIN g)
  BY <1>1, <1>2, <1>3, MapParts DEF Sane, NoShadowing, FreeBut
<1> HIDE DEF g
<1>6. /\ Sane(W) /\ Height(W) = n /\ W.blind = tl.blind /\ VarsAt(W, l) = g
      /\ \A j \in 1 .. n : j # l => VarsAt(W, j) = VarsAt(tl, j)
      /\ \A j \in 1 .. n : ExtAt(W, j) = ExtAt(tl, j)
  <2>1. g \in Vars /\ l \in 1 .. n /\ W = [tl EXCEPT !.stack[l].vars = g]
    BY <1>1, <1>3
  <2> HIDE DEF W, l
  <2>2. QED
    BY <1>5, <2>1, WithVars
<1> HIDE DEF W
<1>7. QED
  BY <1>1, <1>3, <1>4, <1>6 DEF g

LEMMA AssignIs ==
  ASSUME NEW tl, Sane(tl), NEW x, IsDeclared(tl, x), NEW e \in Entry
  PROVE  LET T == Assign(tl, x, e)
             n == Height(tl)
             l == Lookup(tl, x)
         IN /\ Sane(T) /\ Height(T) = n /\ T.blind = tl.blind
            /\ l \in 1 .. n /\ x \in DOMAIN VarsAt(tl, l)
            /\ \A i \in 1 .. n : i # l => VarsAt(T, i) = VarsAt(tl, i)
            /\ \A i \in 1 .. n : DOMAIN VarsAt(T, i) = DOMAIN VarsAt(tl, i)
            /\ VarsAt(T, l)[x] = e
            /\ \A y \in DOMAIN VarsAt(tl, l) : y # x => VarsAt(T, l)[y] = VarsAt(tl, l)[y]
            /\ \A i \in 1 .. n : i # n => ExtAt(T, i) = ExtAt(tl, i)
            /\ ExtAt(T, n) = IF l = n THEN ExtAt(tl, n) ELSE With(ExtAt(tl, n), x, TRUE)
<1> DEFINE n == Height(tl)
           l == Lookup(tl, x)
           S == SetVar(tl, x, e)
<1>1. /\ Sane(S) /\ Height(S) = n /\ S.blind = tl.blind
      /\ l \in 1 .. n /\ x \in DOMAIN VarsAt(tl, l)
      /\ \A i \in 1 .. n : i # l => VarsAt(S, i) = VarsAt(tl, i)
      /\ \A i \in 1 .. n : ExtAt(S, i) = ExtAt(tl, i)
      /\ VarsAt(S, l) = [VarsAt(tl, l) EXCEPT ![x] = e]
      /\ DOMAIN VarsAt(S, l) = DOMAIN VarsAt(tl, l)
  BY SetVarIs
<1>2. x \in Names /\ n \in 1 .. n
  BY <1>1, LookupIs, SaneParts
<1>3. Lookup(S, x) = l
  BY <1>1, LookupIs
<1> HIDE DEF S
<1> DEFINE T == Refer(S, x, TRUE)
<1>4. /\ Sane(T) /\ Height(T) = n /\ T.blind = S.blind
      /\ \A i \in 1 .. n : VarsAt(T, i) = VarsAt(S, i)
      /\ \A i \in 1 .. n : i # n => ExtAt(T, i) = ExtAt(S, i)
      /\ ExtAt(T, n) = IF l = n THEN ExtAt(S, n) ELSE With(ExtAt(S, n), x, TRUE)
  <2>1. TRUE \in BOOLEAN
    OBVIOUS
  <2>2. /\ Sane(T) /\ Height(T) = Height(S) /\ T.blind = S.blind
        /\ \A i \in 1 .. Height(S) : VarsAt(T, i) = VarsAt(S, i)
        /\ \A i \in 1 .. Height(S) : i # Height(S) => ExtAt(T, i) = ExtAt(S, i)
        /\ ExtAt(T, Height(S)) = IF Lookup(S, x) = Height(S) THEN ExtAt(S, Height(S))
                                 ELSE With(ExtAt(S, Height(S)), x, TRUE)
    BY <1>1, <1>2, <2>1, ReferIs, Zenon
  <2>3. QED
    BY <1>1, <1>3, <2>2, Zenon
<1>5. Assign(tl, x, e) = T
  BY DEF Assign, S
<1> HIDE DEF T
<1>6. /\ Sane(T) /\ Height(T) = n /\ T.blind = tl.blind
      /\ \A i \in 1 .. n : i # l => VarsAt(T, i) = VarsAt(tl, i)
      /\ VarsAt(T, l) = [VarsAt(tl, l) EXCEPT ![x] = e]
      /\ \A i \in 1 .. n : i # n => ExtAt(T, i) = ExtAt(tl, i)
      /\ ExtAt(T, n) = IF l = n THEN ExtAt(tl, n) ELSE With(ExtAt(tl, n), x, TRUE)
  BY <1>1, <1>2, <1>4
<1>7. \A i \in 1 .. n : DOMAIN VarsAt(T, i) = DOMAIN VarsAt(tl, i)
  BY <1>1, <1>4
<1>8. /\ VarsAt(T, l)[x] = e
      /\ \A y \in DOMAIN VarsAt(tl, l) : y # x => VarsAt(T, l)[y] = VarsAt(tl, l)[y]
  BY <1>1, <1>6
<1>9. QED
  BY <1>1, <1>5, <1>6, <1>7, <1>8, Zenon

\* Declaring a name that no scope has.
LEMMA DeclareIs ==
  ASSUME NEW tl, Sane(tl), NEW x \in Names, ~IsDeclared(tl, x), NEW o \in Nat \ {NoObject}
  PROVE  LET T == Declare(tl, x, o)
             n == Height(tl)
         IN /\ Sane(T) /\ Height(T) = n /\ T.blind = tl.blind
            /\ \A i \in 1 .. n : i # n => VarsAt(T, i) = VarsAt(tl, i)
            /\ VarsAt(T, n) = With(VarsAt(tl, n), x, OfValue(None, o))
            /\ DOMAIN VarsAt(T, n) = DOMAIN VarsAt(tl, n) \cup {x}
            /\ \A i \in 1 .. n : ExtAt(T, i) = ExtAt(tl, i)
<1> DEFINE n == Height(tl)
           g == With(VarsAt(tl, n), x, OfValue(None, o))
           W == [tl EXCEPT !.stack[n].vars = g]
<1>1. n \in 1 .. n /\ Len(tl.stack) = n
  BY SaneParts DEF Height
<1>2. VarsAt(tl, n) \in Vars
  BY <1>1, SaneParts
<1>3. OfValue(None, o) \in Entry
  BY DEF Entry, Values
<1>4. DOMAIN g = DOMAIN VarsAt(tl, n) \cup {x} /\ g \in Vars
  BY <1>2, <1>3, WithIs
<1>5. \A i \in 1 .. n : x \notin DOMAIN VarsAt(tl, i)
  BY LookupIs
<1>6. FreeBut(tl, n, DOMAIN g)
  BY <1>1, <1>2, <1>4, <1>5, MapParts DEF Sane, NoShadowing, FreeBut
<1>7. Declare(tl, x, o) = W
  BY <1>1 DEF Declare, VarsAt
<1> HIDE DEF g
<1>8. /\ Sane(W) /\ Height(W) = n /\ W.blind = tl.blind /\ VarsAt(W, n) = g
      /\ \A j \in 1 .. n : j # n => VarsAt(W, j) = VarsAt(tl, j)
      /\ \A j \in 1 .. n : ExtAt(W, j) = ExtAt(tl, j)
  <2>1. g \in Vars /\ W = [tl EXCEPT !.stack[n].vars = g]
    BY <1>4
  <2> HIDE DEF W
  <2>2. QED
    BY <1>1, <1>6, <2>1, WithVars
<1> HIDE DEF W
<1>9. QED
  BY <1>4, <1>7, <1>8 DEF g

LEMMA DeclareParametersIs ==
  ASSUME NEW tl, Sane(tl), VarsAt(tl, Height(tl)) = <<>>,
         NEW xs, xs \subseteq Names, \A x \in xs : ~IsDeclared(tl, x)
  PROVE  LET T == DeclareParameters(tl, xs)
             n == Height(tl)
         IN /\ Sane(T) /\ Height(T) = n /\ T.blind = tl.blind
            /\ \A i \in 1 .. n : i # n => VarsAt(T, i) = VarsAt(tl, i)
            /\ VarsAt(T, n) = [x \in xs |-> Unknown]
            /\ \A i \in 1 .. n : ExtAt(T, i) = ExtAt(tl, i)
<1> DEFINE n == Height(tl)
           g == [x \in xs |-> Unknown]
           W == [tl EXCEPT !.stack[n].vars = g]
<1>1. n \in 1 .. n /\ Len(tl.stack) = n
  BY SaneParts DEF Height
<1>2. Unknown \in Entry
  BY DEF Entry, Unknown
<1>3. DOMAIN g = xs /\ g \in Vars
  BY <1>2, MapParts
<1>4. FreeBut(tl, n, DOMAIN g)
  BY <1>3, LookupIs DEF FreeBut
<1>5. DeclareParameters(tl, xs) = W
  BY <1>1 DEF DeclareParameters
<1> HIDE DEF g
<1>6. /\ Sane(W) /\ Height(W) = n /\ W.blind = tl.blind /\ VarsAt(W, n) = g
      /\ \A j \in 1 .. n : j # n => VarsAt(W, j) = VarsAt(tl, j)
      /\ \A j \in 1 .. n : ExtAt(W, j) = ExtAt(tl, j)
  <2>1. W = [tl EXCEPT !.stack[n].vars = g]
    OBVIOUS
  <2> HIDE DEF W
  <2>2. QED
    BY <1>1, <1>3, <1>4, <2>1, WithVars
<1> HIDE DEF W
<1>7. QED
  BY <1>5, <1>6 DEF g

-----------------------------------------------------------------------------
(* All scopes changed, one added, the last ended, two timelines merged.    *)

\* Scopes that declare what those of tl do.
Alike(tl, st) ==
  /\ st \in [1 .. Height(tl) -> Scope]
  /\ \A i \in 1 .. Height(tl) : DOMAIN st[i].vars = DOMAIN VarsAt(tl, i)

WithScopes(tl, st) == [stack |-> st, blind |-> tl.blind]

LEMMA SameDomains ==
  ASSUME NEW tl, Sane(tl), NEW st, Alike(tl, st)
  PROVE  LET T == WithScopes(tl, st)
         IN /\ [tl EXCEPT !.stack = st] = T
            /\ Sane(T) /\ Height(T) = Height(tl) /\ T.blind = tl.blind
            /\ \A i \in 1 .. Height(tl) : VarsAt(T, i) = st[i].vars /\ ExtAt(T, i) = st[i].ext
<1> DEFINE n == Height(tl)
           T == WithScopes(tl, st)
<1>1. n \in Nat /\ n >= 1 /\ tl.blind \in Seq(Nat) /\ tl = [stack |-> tl.stack, blind |-> tl.blind]
  BY SaneParts
<1>2. T = [stack |-> st, blind |-> tl.blind] /\ [tl EXCEPT !.stack = st] = T
  BY <1>1 DEF WithScopes
<1>3. T.stack = st /\ T.blind = tl.blind
  BY <1>2
<1>4. st \in Seq(Scope) /\ Len(st) = n
  BY <1>1 DEF Alike
<1>5. Height(T) = n /\ \A i \in 1 .. n : VarsAt(T, i) = st[i].vars /\ ExtAt(T, i) = st[i].ext
  BY <1>3, <1>4 DEF Height, VarsAt, ExtAt
<1>6. T \in [stack : Seq(Scope), blind : Seq(Nat)]
  BY <1>1, <1>2, <1>4
<1> HIDE DEF T
<1>7. NoShadowing(T)
  BY <1>5 DEF Sane, NoShadowing, Alike
<1>8. Sane(T)
  BY <1>1, <1>3, <1>5, <1>6, <1>7 DEF Sane
<1>9. QED
  BY <1>2, <1>3, <1>5, <1>8 DEF T

LEMMA MakeAllUnknownIs ==
  ASSUME NEW tl, Sane(tl)
  PROVE  LET T == MakeAllUnknown(tl)
         IN /\ Sane(T) /\ Height(T) = Height(tl) /\ T.blind = tl.blind
            /\ \A i \in 1 .. Height(tl) : /\ DOMAIN VarsAt(T, i) = DOMAIN VarsAt(tl, i)
                                          /\ \A x \in DOMAIN VarsAt(tl, i) : VarsAt(T, i)[x] = Unknown
                                          /\ ExtAt(T, i) = ExtAt(tl, i)
<1> DEFINE n == Height(tl)
           new(i) == [vars |-> [x \in DOMAIN VarsAt(tl, i) |-> Unknown], ext |-> ExtAt(tl, i)]
           st == [i \in 1 .. n |-> new(i)]
<1>1. DOMAIN tl.stack = 1 .. n /\ \A i \in 1 .. n : tl.stack[i] \in Scope
  BY SaneParts
<1>2. ASSUME NEW i \in 1 .. n
      PROVE  /\ [vars |-> [x \in DOMAIN tl.stack[i].vars |-> Unknown], ext |-> tl.stack[i].ext] = new(i)
             /\ new(i) \in Scope
  <2>1. tl.stack[i] = [vars |-> VarsAt(tl, i), ext |-> ExtAt(tl, i)]
    BY <1>1, ScopeParts DEF VarsAt, ExtAt
  <2>2. VarsAt(tl, i) \in Vars /\ ExtAt(tl, i) \in Exts
    BY SaneParts
  <2>3. Unknown \in Entry
    BY DEF Entry, Unknown
  <2>4. [x \in DOMAIN VarsAt(tl, i) |-> Unknown] \in Vars
    BY <2>2, <2>3, MapParts
  <2>5. new(i) \in Scope
    BY <2>2, <2>4, MakeScope
  <2>6. [vars |-> [x \in DOMAIN tl.stack[i].vars |-> Unknown], ext |-> tl.stack[i].ext] = new(i)
    BY <2>1
  <2>7. QED
    BY <2>5, <2>6
<1>3. MakeAllUnknown(tl) = [tl EXCEPT !.stack = st]
  <2>1. [i \in DOMAIN tl.stack |->
          [vars |-> [x \in DOMAIN tl.stack[i].vars |-> Unknown], ext |-> tl.stack[i].ext]] = st
    BY <1>1, <1>2, Zenon
  <2>2. QED
    BY <2>1, Zenon DEF MakeAllUnknown
<1>4. st \in [1 .. n -> Scope] /\ \A i \in 1 .. n : st[i] = new(i)
  BY <1>2
<1>5. \A i \in 1 .. n : /\ st[i].vars = [x \in DOMAIN VarsAt(tl, i) |-> Unknown]
                        /\ DOMAIN st[i].vars = DOMAIN VarsAt(tl, i)
                        /\ st[i].ext = ExtAt(tl, i)
  BY <1>4
<1> HIDE DEF st
<1> DEFINE T == WithScopes(tl, st)
<1>6. /\ [tl EXCEPT !.stack = st] = T
      /\ Sane(T) /\ Height(T) = Height(tl) /\ T.blind = tl.blind
      /\ \A i \in 1 .. Height(tl) : VarsAt(T, i) = st[i].vars /\ ExtAt(T, i) = st[i].ext
  <2>1. Alike(tl, st)
    BY <1>4, <1>5 DEF Alike
  <2>2. QED
    BY <2>1, SameDomains
<1> HIDE DEF T
<1>7. \A i \in 1 .. n : /\ DOMAIN VarsAt(T, i) = DOMAIN VarsAt(tl, i)
                        /\ \A x \in DOMAIN VarsAt(tl, i) : VarsAt(T, i)[x] = Unknown
                        /\ ExtAt(T, i) = ExtAt(tl, i)
  <2> SUFFICES ASSUME NEW i \in 1 .. n
               PROVE  /\ DOMAIN VarsAt(T, i) = DOMAIN VarsAt(tl, i)
                      /\ \A x \in DOMAIN VarsAt(tl, i) : VarsAt(T, i)[x] = Unknown
                      /\ ExtAt(T, i) = ExtAt(tl, i)
    OBVIOUS
  <2>1. VarsAt(T, i) = [x \in DOMAIN VarsAt(tl, i) |-> Unknown] /\ ExtAt(T, i) = ExtAt(tl, i)
    BY <1>5, <1>6
  <2>2. QED
    BY <2>1
<1>8. QED
  BY <1>3, <1>6, <1>7, Zenon

LEMMA AssignAllUnknownIs ==
  ASSUME NEW tl, Sane(tl), NEW xs, xs \subseteq Names
  PROVE  LET T == AssignAllUnknown(tl, xs)
             n == Height(tl)
             outer == {x \in xs : Lookup(tl, x) # n}
         IN /\ Sane(T) /\ Height(T) = n /\ T.blind = tl.blind
            /\ \A i \in 1 .. n : DOMAIN VarsAt(T, i) = DOMAIN VarsAt(tl, i)
            /\ \A i \in 1 .. n : \A x \in DOMAIN VarsAt(tl, i) :
                 VarsAt(T, i)[x] = IF x \in xs THEN Unknown ELSE VarsAt(tl, i)[x]
            /\ \A i \in 1 .. n : i # n => ExtAt(T, i) = ExtAt(tl, i)
            /\ DOMAIN ExtAt(T, n) = DOMAIN ExtAt(tl, n) \cup outer
            /\ \A x \in DOMAIN ExtAt(T, n) :
                 ExtAt(T, n)[x] <=> x \in outer \/ (x \in DOMAIN ExtAt(tl, n) /\ ExtAt(tl, n)[x])
<1> DEFINE n == Height(tl)
           outer == {x \in xs : Lookup(tl, x) # n}
           v(i) == [x \in DOMAIN VarsAt(tl, i) |-> IF x \in xs THEN Unknown ELSE VarsAt(tl, i)[x]]
           joined == [x \in DOMAIN ExtAt(tl, n) \cup outer |-> x \in outer \/ ExtAt(tl, n)[x]]
           e(i) == IF i < n THEN ExtAt(tl, i) ELSE joined
           new(i) == [vars |-> v(i), ext |-> e(i)]
           st == [i \in 1 .. n |-> new(i)]
<1>1. /\ n \in Nat /\ n \in 1 .. n /\ Len(tl.stack) = n
      /\ DOMAIN tl.stack = 1 .. n /\ \A i \in 1 .. n : tl.stack[i] \in Scope
      /\ tl = [stack |-> tl.stack, blind |-> tl.blind]
  BY SaneParts DEF Height
<1>2. Unknown \in Entry
  BY DEF Entry, Unknown
<1>3. joined \in Exts
  <2>1. ExtAt(tl, n) \in Exts
    BY <1>1, SaneParts
  <2>2. joined \in [DOMAIN ExtAt(tl, n) \cup outer -> BOOLEAN]
    <3>1. ASSUME NEW x \in DOMAIN ExtAt(tl, n) \cup outer
          PROVE  (x \in outer \/ ExtAt(tl, n)[x]) \in BOOLEAN
      OBVIOUS
    <3>2. QED
      BY <3>1, Zenon
  <2>3. DOMAIN joined = DOMAIN ExtAt(tl, n) \cup outer
    OBVIOUS
  <2> HIDE DEF joined
  <2>4. DOMAIN joined \subseteq Names
    BY <2>1, <2>3, MapParts
  <2>5. QED
    BY <2>2, <2>3, <2>4, MapParts
<1>4. ASSUME NEW i \in 1 .. n
      PROVE  new(i) \in Scope /\ DOMAIN v(i) = DOMAIN VarsAt(tl, i)
  <2>1. VarsAt(tl, i) \in Vars /\ ExtAt(tl, i) \in Exts
    BY SaneParts
  <2>2. v(i) \in Vars
    BY <1>2, <2>1, MapParts
  <2> HIDE DEF joined
  <2>3. e(i) \in Exts
    BY <1>3, <2>1
  <2> HIDE DEF v, e
  <2>4. new(i) \in Scope
    BY <2>2, <2>3, MakeScope
  <2>5. QED
    BY <2>4 DEF v
<1>5. ASSUME NEW i \in 1 .. n
      PROVE  [x \in DOMAIN tl.stack[i].vars |->
                IF x \in xs /\ Lookup(tl, x) = i THEN Unknown ELSE tl.stack[i].vars[x]] = v(i)
  BY LookupIs DEF VarsAt
<1>6. ASSUME NEW i \in 1 .. n
      PROVE  (IF i < Len(tl.stack) THEN tl.stack[i].ext
              ELSE LET o == {x \in xs : Lookup(tl, x) # i}
                   IN [x \in DOMAIN tl.stack[i].ext \cup o |-> x \in o \/ tl.stack[i].ext[x]]) = e(i)
  <2>1. CASE i < n
    BY <1>1, <2>1 DEF ExtAt
  <2>2. CASE i = n
    BY <1>1, <2>2, Zenon DEF ExtAt
  <2>3. QED
    BY <1>1, <2>1, <2>2
<1>7. AssignAllUnknown(tl, xs) = [tl EXCEPT !.stack = st]
  <2> HIDE DEF v, e
  <2>1. [i \in DOMAIN tl.stack |->
     [vars |-> [x \in DOMAIN tl.stack[i].vars |->
                  IF x \in xs /\ Lookup(tl, x) = i THEN Unknown ELSE tl.stack[i].vars[x]],
      ext |-> IF i < Len(tl.stack) THEN tl.stack[i].ext
              ELSE LET o == {x \in xs : Lookup(tl, x) # i}
                   IN [x \in DOMAIN tl.stack[i].ext \cup o |-> x \in o \/ tl.stack[i].ext[x]]]]
        = st
    BY <1>1, <1>5, <1>6, Zenon
  <2>2. QED
    BY <2>1, Zenon DEF AssignAllUnknown
<1>8. st \in [1 .. n -> Scope] /\ \A i \in 1 .. n : st[i] = new(i)
  BY <1>4
<1> HIDE DEF st
<1>9. \A i \in 1 .. n : st[i].vars = v(i) /\ st[i].ext = e(i) /\ DOMAIN st[i].vars = DOMAIN VarsAt(tl, i)
  <2> HIDE DEF v, e
  <2>1. QED
    BY <1>4, <1>8
<1> DEFINE T == WithScopes(tl, st)
<1>10. /\ [tl EXCEPT !.stack = st] = T
       /\ Sane(T) /\ Height(T) = Height(tl) /\ T.blind = tl.blind
       /\ \A i \in 1 .. Height(tl) : VarsAt(T, i) = st[i].vars /\ ExtAt(T, i) = st[i].ext
  <2>1. Alike(tl, st)
    BY <1>8, <1>9 DEF Alike
  <2>2. QED
    BY <2>1, SameDomains
<1> HIDE DEF T
<1>11. \A i \in 1 .. n : VarsAt(T, i) = v(i) /\ ExtAt(T, i) = e(i)
  BY <1>9, <1>10
<1>12. (\A i \in 1 .. n : i # n => e(i) = ExtAt(tl, i)) /\ e(n) = joined
  <2> HIDE DEF joined
  <2>1. QED
    BY <1>1
<1> HIDE DEF e
<1>13. (\A i \in 1 .. n : i # n => ExtAt(T, i) = ExtAt(tl, i)) /\ ExtAt(T, n) = joined
  BY <1>1, <1>11, <1>12, Zenon
<1>14. /\ \A i \in 1 .. n : DOMAIN VarsAt(T, i) = DOMAIN VarsAt(tl, i)
       /\ \A i \in 1 .. n : \A x \in DOMAIN VarsAt(tl, i) :
            VarsAt(T, i)[x] = IF x \in xs THEN Unknown ELSE VarsAt(tl, i)[x]
  <2>1. ASSUME NEW i \in 1 .. n
        PROVE  DOMAIN v(i) = DOMAIN VarsAt(tl, i)
               /\ \A x \in DOMAIN VarsAt(tl, i) : v(i)[x] = IF x \in xs THEN Unknown ELSE VarsAt(tl, i)[x]
    OBVIOUS
  <2> HIDE DEF v
  <2>2. QED
    BY <1>11, <2>1
<1>15. /\ DOMAIN ExtAt(T, n) = DOMAIN ExtAt(tl, n) \cup outer
       /\ \A x \in DOMAIN ExtAt(T, n) :
            ExtAt(T, n)[x] <=> x \in outer \/ (x \in DOMAIN ExtAt(tl, n) /\ ExtAt(tl, n)[x])
  <2> HIDE DEF outer
  <2>1. DOMAIN joined = DOMAIN ExtAt(tl, n) \cup outer
    OBVIOUS
  <2>2. \A x \in DOMAIN joined : joined[x] = (x \in outer \/ ExtAt(tl, n)[x])
    OBVIOUS
  <2> HIDE DEF joined
  <2>3. \A x \in DOMAIN joined : joined[x] <=> x \in outer \/ (x \in DOMAIN ExtAt(tl, n) /\ ExtAt(tl, n)[x])
    BY <2>1, <2>2
  <2>4. QED
    BY <1>13, <2>1, <2>3, Zenon
<1>16. AssignAllUnknown(tl, xs) = T
  BY <1>7, <1>10
<1>17. Sane(T) /\ Height(T) = n /\ T.blind = tl.blind /\ \A i \in 1 .. n : i # n => ExtAt(T, i) = ExtAt(tl, i)
  BY <1>10, <1>13
<1>18. QED
  BY <1>14, <1>15, <1>16, <1>17

LEMMA StartScopeIs ==
  ASSUME NEW tl, Sane(tl)
  PROVE  LET T == StartScope(tl)
             n == Height(tl)
         IN /\ Sane(T) /\ Height(T) = n + 1 /\ T.blind = tl.blind
            /\ \A i \in 1 .. n : VarsAt(T, i) = VarsAt(tl, i) /\ ExtAt(T, i) = ExtAt(tl, i)
            /\ VarsAt(T, n + 1) = <<>> /\ ExtAt(T, n + 1) = <<>>
<1> DEFINE n == Height(tl)
           st == Append(tl.stack, NewScope)
           T == WithScopes(tl, st)
<1>1. /\ n \in Nat /\ n >= 1 /\ tl.blind \in Seq(Nat) /\ tl.stack \in Seq(Scope) /\ Len(tl.stack) = n
      /\ tl = [stack |-> tl.stack, blind |-> tl.blind]
  BY SaneParts DEF Height
<1>2. /\ NewScope \in Scope /\ NewScope.vars = <<>> /\ NewScope.ext = <<>>
      /\ DOMAIN <<>> = {}
  BY NewScopeIs DEF NewScope
<1>3. /\ st \in Seq(Scope) /\ Len(st) = n + 1 /\ st[n + 1] = NewScope
      /\ \A i \in 1 .. n : st[i] = tl.stack[i]
  BY <1>1, <1>2
<1>4. StartScope(tl) = T /\ T = [stack |-> st, blind |-> tl.blind]
  <2>1. StartScope(tl) = [tl EXCEPT !.stack = st]
    BY Zenon DEF StartScope
  <2>2. ASSUME NEW f PROVE [tl EXCEPT !.stack = f] = [stack |-> f, blind |-> tl.blind]
    BY <1>1
  <2>3. QED
    BY <2>1, <2>2, Zenon DEF WithScopes
<1> HIDE DEF st
<1>5. T.stack = st /\ T.blind = tl.blind /\ T \in [stack : Seq(Scope), blind : Seq(Nat)]
  BY <1>1, <1>3, <1>4
<1>6. /\ Height(T) = n + 1
      /\ \A i \in 1 .. n : VarsAt(T, i) = VarsAt(tl, i) /\ ExtAt(T, i) = ExtAt(tl, i)
      /\ VarsAt(T, n + 1) = <<>> /\ ExtAt(T, n + 1) = <<>>
  BY <1>1, <1>2, <1>3, <1>5 DEF Height, VarsAt, ExtAt
<1> HIDE DEF T
<1>7. NoShadowing(T)
  <2> SUFFICES ASSUME NEW i \in 1 .. n + 1, NEW j \in 1 .. n + 1, NEW x \in Names,
                      x \in DOMAIN VarsAt(T, i), x \in DOMAIN VarsAt(T, j)
               PROVE  i = j
    BY <1>6 DEF NoShadowing
  <2>1. i \in 1 .. n /\ j \in 1 .. n
    BY <1>1, <1>2, <1>6
  <2>2. QED
    BY <1>6, <2>1 DEF Sane, NoShadowing
<1>8. Sane(T)
  BY <1>1, <1>5, <1>6, <1>7 DEF Sane
<1>9. QED
  BY <1>4, <1>5, <1>6, <1>8

LEMMA StartBlindScopeIs ==
  ASSUME NEW tl, Sane(tl)
  PROVE  LET T == StartBlindScope(tl)
             n == Height(tl)
         IN /\ Sane(T) /\ Height(T) = n + 1 /\ T.blind = Append(tl.blind, n)
            /\ \A i \in 1 .. n : VarsAt(T, i) = VarsAt(tl, i) /\ ExtAt(T, i) = ExtAt(tl, i)
            /\ VarsAt(T, n + 1) = <<>> /\ ExtAt(T, n + 1) = <<>>
<1> DEFINE n == Height(tl)
           S == StartScope(tl)
           T == StartBlindScope(tl)
           bl == Append(tl.blind, n)
<1>1. /\ n \in Nat /\ n >= 1 /\ tl.blind \in Seq(Nat) /\ tl.stack \in Seq(Scope) /\ Len(tl.stack) = n
      /\ tl = [stack |-> tl.stack, blind |-> tl.blind]
  BY SaneParts DEF Height
<1>2. /\ Sane(S) /\ Height(S) = n + 1 /\ S.blind = tl.blind
      /\ \A i \in 1 .. n : VarsAt(S, i) = VarsAt(tl, i) /\ ExtAt(S, i) = ExtAt(tl, i)
      /\ VarsAt(S, n + 1) = <<>> /\ ExtAt(S, n + 1) = <<>>
  BY StartScopeIs
<1>3. S.stack = Append(tl.stack, NewScope)
  BY <1>1 DEF StartScope
<1>4. T.stack = S.stack /\ T.blind = bl /\ T = [stack |-> S.stack, blind |-> bl]
  BY <1>1, <1>3 DEF StartBlindScope
<1> HIDE DEF S
<1>5. bl \in Seq(Nat) /\ Len(bl) = Len(tl.blind) + 1 /\ bl[Len(tl.blind) + 1] = n
      /\ \A b \in 1 .. Len(tl.blind) : bl[b] = tl.blind[b]
  BY <1>1
<1> HIDE DEF bl
<1>6. T \in [stack : Seq(Scope), blind : Seq(Nat)]
  <2>1. S.stack \in Seq(Scope)
    BY <1>2, SaneParts
  <2>2. QED
    BY <1>4, <1>5, <2>1
<1> HIDE DEF T
<1>7. Height(T) = n + 1 /\ \A i \in 1 .. n + 1 : VarsAt(T, i) = VarsAt(S, i) /\ ExtAt(T, i) = ExtAt(S, i)
  BY <1>2, <1>4 DEF Height, VarsAt, ExtAt
<1>8. NoShadowing(T)
  BY <1>2, <1>7 DEF Sane, NoShadowing
<1>9. \A b \in 1 .. Len(T.blind) : T.blind[b] \in 1 .. n
  <2> SUFFICES ASSUME NEW b \in 1 .. Len(T.blind) PROVE T.blind[b] \in 1 .. n
    OBVIOUS
  <2>1. CASE b = Len(tl.blind) + 1
    BY <1>1, <1>4, <1>5, <2>1
  <2>2. CASE b # Len(tl.blind) + 1
    <3>1. b \in 1 .. Len(tl.blind) /\ T.blind[b] = tl.blind[b]
      BY <1>1, <1>4, <1>5, <2>2
    <3>2. tl.blind[b] \in 1 .. n - 1
      BY <3>1 DEF Sane
    <3> HIDE DEF n
    <3>3. QED
      BY <1>1, <3>1, <3>2
  <2>3. QED
    BY <2>1, <2>2
<1>10. \A b, c \in 1 .. Len(T.blind) : b < c => T.blind[b] < T.blind[c]
  <2> SUFFICES ASSUME NEW b \in 1 .. Len(T.blind), NEW c \in 1 .. Len(T.blind), b < c
               PROVE  T.blind[b] < T.blind[c]
    OBVIOUS
  <2>1. Len(tl.blind) \in Nat /\ b \in 1 .. Len(tl.blind) /\ T.blind[b] = tl.blind[b] /\ tl.blind[b] \in 1 .. n - 1
    <3>1. b \in 1 .. Len(bl) /\ c \in 1 .. Len(bl)
      BY <1>4
    <3>2. Len(tl.blind) \in Nat /\ b \in 1 .. Len(tl.blind)
      BY <1>1, <1>5, <3>1
    <3>3. tl.blind[b] \in 1 .. n - 1
      BY <3>2 DEF Sane
    <3> HIDE DEF n
    <3>4. QED
      BY <1>4, <1>5, <3>2, <3>3
  <2>2. CASE c = Len(tl.blind) + 1
    BY <1>1, <1>4, <1>5, <2>1, <2>2
  <2>3. CASE c # Len(tl.blind) + 1
    <3>1. c \in 1 .. Len(tl.blind)
      BY <1>4, <1>5, <2>1, <2>3
    <3>2. QED
      BY <1>4, <1>5, <2>1, <3>1 DEF Sane
  <2>4. QED
    BY <2>2, <2>3
<1>11. Sane(T)
  <2>1. Height(T) >= 1 /\ Height(T) - 1 = n
    BY <1>1, <1>7
  <2>2. QED
    BY <1>6, <1>8, <1>9, <1>10, <2>1, Zenon DEF Sane
<1>12. /\ \A i \in 1 .. n : VarsAt(T, i) = VarsAt(tl, i) /\ ExtAt(T, i) = ExtAt(tl, i)
       /\ VarsAt(T, n + 1) = <<>> /\ ExtAt(T, n + 1) = <<>>
  BY <1>1, <1>2, <1>7
<1>13. QED
  BY <1>4, <1>7, <1>11, <1>12 DEF bl, T

LEMMA InheritedExtIs ==
  ASSUME NEW s \in Scope, NEW g \in Exts
  PROVE  LET h == InheritedExt(s, g)
         IN /\ h \in Exts
            /\ DOMAIN h = DOMAIN s.ext \cup (DOMAIN g \ DOMAIN s.vars)
            /\ \A x \in DOMAIN h : h[x] <=> (x \in DOMAIN s.ext /\ s.ext[x])
                                           \/ (x \in DOMAIN g \ DOMAIN s.vars /\ g[x])
<1> DEFINE f == s.ext
           d == [x \in DOMAIN g \ DOMAIN s.vars |-> g[x]]
           h == Joined(f, d)
<1>1. f \in Exts
  BY ScopeParts
<1>2. DOMAIN d = DOMAIN g \ DOMAIN s.vars /\ \A x \in DOMAIN d : d[x] = g[x]
  OBVIOUS
<1>3. InheritedExt(s, g) = h
  BY DEF InheritedExt
<1> HIDE DEF d
<1>4. /\ DOMAIN h = DOMAIN f \cup DOMAIN d
      /\ \A x \in DOMAIN h : h[x] = ((x \in DOMAIN f /\ f[x]) \/ (x \in DOMAIN d /\ d[x]))
  BY DEF Joined
<1>5. h \in [DOMAIN f \cup DOMAIN d -> BOOLEAN]
  <2>1. ASSUME NEW x \in DOMAIN f \cup DOMAIN d
        PROVE  ((x \in DOMAIN f /\ f[x]) \/ (x \in DOMAIN d /\ d[x])) \in BOOLEAN
    OBVIOUS
  <2>2. QED
    BY <2>1, Zenon DEF Joined
<1> HIDE DEF h
<1>6. h \in Exts
  BY <1>1, <1>2, <1>4, <1>5, MapParts
<1>7. \A x \in DOMAIN h : h[x] <=> (x \in DOMAIN f /\ f[x]) \/ (x \in DOMAIN g \ DOMAIN s.vars /\ g[x])
  BY <1>2, <1>4
<1>8. QED
  BY <1>2, <1>3, <1>4, <1>6, <1>7

LEMMA FirstsOf ==
  ASSUME NEW S, NEW seq \in Seq(S), NEW k \in Nat, k <= Len(seq)
  PROVE  /\ SubSeq(seq, 1, k) \in Seq(S) /\ Len(SubSeq(seq, 1, k)) = k
         /\ \A j \in 1 .. k : SubSeq(seq, 1, k)[j] = seq[j]
  OBVIOUS

LEMMA EndScopeIs ==
  ASSUME NEW tl, Sane(tl), Height(tl) > 1
  PROVE  LET T == EndScope(tl)
             n == Height(tl) - 1
         IN /\ Sane(T) /\ Height(T) = n /\ T.blind = BlindLeft(tl.blind, n)
            /\ \A i \in 1 .. n : VarsAt(T, i) = VarsAt(tl, i)
            /\ \A i \in 1 .. n : i # n => ExtAt(T, i) = ExtAt(tl, i)
            /\ DOMAIN ExtAt(T, n) = DOMAIN ExtAt(tl, n) \cup (DOMAIN ExtAt(tl, n + 1) \ DOMAIN VarsAt(tl, n))
            /\ \A x \in DOMAIN ExtAt(T, n) :
                 ExtAt(T, n)[x] <=> \/ x \in DOMAIN ExtAt(tl, n) /\ ExtAt(tl, n)[x]
                                    \/ /\ x \in DOMAIN ExtAt(tl, n + 1) \ DOMAIN VarsAt(tl, n)
                                       /\ ExtAt(tl, n + 1)[x]
<1> DEFINE n == Height(tl) - 1
           T == EndScope(tl)
           rest == SubSeq(tl.stack, 1, n)
           h == InheritedExt(tl.stack[n], ExtAt(tl, n + 1))
           s == [vars |-> VarsAt(tl, n), ext |-> h]
           bl == BlindLeft(tl.blind, n)
<1>1. /\ n \in Nat /\ n >= 1 /\ tl.blind \in Seq(Nat) /\ tl.stack \in Seq(Scope) /\ Len(tl.stack) = n + 1
      /\ n + 1 = Height(tl) /\ n \in 1 .. Height(tl) /\ n + 1 \in 1 .. Height(tl)
  BY SaneParts DEF Height
<1>2. tl.stack[n] \in Scope /\ VarsAt(tl, n) \in Vars /\ ExtAt(tl, n) \in Exts /\ ExtAt(tl, n + 1) \in Exts
  BY <1>1, SaneParts
<1>3. h \in Exts
  BY <1>2, InheritedExtIs
<1>4. s \in Scope
  BY <1>2, <1>3, MakeScope
<1>5. /\ rest \in Seq(Scope) /\ Len(rest) = n /\ DOMAIN rest = 1 .. n
      /\ \A i \in 1 .. n : rest[i] = tl.stack[i]
  BY <1>1
<1>6. [rest[n] EXCEPT !.ext = h] = s
  <2>1. tl.stack[n] = [vars |-> VarsAt(tl, n), ext |-> tl.stack[n].ext]
    BY <1>2, ScopeParts DEF VarsAt
  <2>2. rest[n] = tl.stack[n]
    BY <1>1, <1>5
  <2> HIDE DEF rest, h, n
  <2>3. [tl.stack[n] EXCEPT !.ext = h] = s
    BY <2>1
  <2>4. QED
    BY <2>2, <2>3, Zenon
<1>7. Last(tl.stack).ext = ExtAt(tl, n + 1) /\ Len(tl.stack) - 1 = n /\ rest[n] = tl.stack[n]
  BY <1>1, <1>5 DEF Last, ExtAt
<1>8. T = [stack |-> [rest EXCEPT ![n] = s], blind |-> bl]
  <2>1. n # 0
    BY <1>1
  <2>2. T = [stack |-> [rest EXCEPT ![n].ext = InheritedExt(rest[n], Last(tl.stack).ext)], blind |-> bl]
    <3> HIDE DEF rest
    <3>1. EndScope(tl) = [stack |-> IF n = 0 THEN rest
                ELSE [rest EXCEPT ![n].ext = InheritedExt(rest[n], Last(tl.stack).ext)],
               blind |-> bl]
      BY <1>7, Zenon DEF EndScope, rest
    <3>2. QED
      BY <2>1, <3>1, Zenon
  <2> HIDE DEF rest, T
  <2>3. [rest EXCEPT ![n].ext = InheritedExt(rest[n], Last(tl.stack).ext)] = [rest EXCEPT ![n] = [rest[n] EXCEPT !.ext = h]]
    BY <1>7, Zenon
  <2> HIDE DEF h, s
  <2>4. QED
    BY <1>6, <2>2, <2>3, Zenon
<1>9. bl \in Seq(Nat) /\ Len(bl) <= Len(tl.blind) /\ Len(bl) \in Nat
      /\ \A b \in 1 .. Len(bl) : bl[b] = tl.blind[b] /\ b \in 1 .. Len(tl.blind)
  <2>1. CASE tl.blind # <<>> /\ Last(tl.blind) = n
    <3>1. bl = SubSeq(tl.blind, 1, Len(tl.blind) - 1) /\ Len(tl.blind) \in Nat /\ Len(tl.blind) >= 1
      BY <1>1, <2>1 DEF BlindLeft, Front
    <3> HIDE DEF bl, n
    <3>2. bl \in Seq(Nat) /\ Len(bl) = Len(tl.blind) - 1
          /\ \A b \in 1 .. Len(tl.blind) - 1 : bl[b] = tl.blind[b]
      <4>1. tl.blind \in Seq(Nat) /\ Len(tl.blind) - 1 <= Len(tl.blind) /\ Len(tl.blind) - 1 \in Nat
        BY <1>1, <3>1
      <4>2. QED
        BY <3>1, <4>1, FirstsOf
    <3>3. Len(bl) <= Len(tl.blind) /\ Len(bl) \in Nat /\ \A b \in 1 .. Len(bl) : b \in 1 .. Len(tl.blind)
      <4>1. Len(bl) = Len(tl.blind) - 1 /\ Len(tl.blind) \in Nat /\ Len(tl.blind) >= 1
        BY <3>1, <3>2
      <4>2. QED
        BY <4>1
    <3>4. QED
      BY <3>2, <3>3
  <2>2. CASE ~(tl.blind # <<>> /\ Last(tl.blind) = n)
    <3>1. bl = tl.blind
      BY <2>2 DEF BlindLeft
    <3>2. QED
      BY <1>1, <3>1
  <2>3. QED
    BY <2>1, <2>2
<1>10. \A b \in 1 .. Len(bl) : bl[b] \in 1 .. n - 1
  <2>1. CASE tl.blind = <<>>
    <3>1. Len(bl) = 0
      BY <1>9, <2>1
    <3>2. QED
      BY <3>1
  <2>2. CASE tl.blind # <<>> /\ Last(tl.blind) = n
    <3>1. Len(bl) = Len(tl.blind) - 1 /\ Len(tl.blind) \in Nat /\ tl.blind[Len(tl.blind)] = n
      BY <1>1, <2>2 DEF BlindLeft, Front, Last
    <3>2. \A b \in 1 .. Len(bl) : b < Len(tl.blind) /\ b \in 1 .. Len(tl.blind) /\ Len(tl.blind) \in 1 .. Len(tl.blind)
      BY <1>9, <3>1
    <3>3. \A b \in 1 .. Len(bl) : tl.blind[b] < n /\ tl.blind[b] \in 1 .. n
      BY <1>1, <3>1, <3>2 DEF Sane
    <3> HIDE DEF bl, n
    <3>4. QED
      <4> SUFFICES ASSUME NEW b \in 1 .. Len(bl) PROVE bl[b] \in 1 .. n - 1
        OBVIOUS
      <4>1. bl[b] < n /\ bl[b] \in 1 .. n
        BY <1>9, <3>3
      <4>2. QED
        BY <1>1, <4>1
  <2>3. CASE tl.blind # <<>> /\ Last(tl.blind) # n
    <3>1. Len(tl.blind) \in 1 .. Len(tl.blind) /\ tl.blind[Len(tl.blind)] \in 1 .. n /\ tl.blind[Len(tl.blind)] # n
      BY <1>1, <2>3 DEF Sane, Last
    <3>2. \A b \in 1 .. Len(tl.blind) : tl.blind[b] < n /\ tl.blind[b] \in 1 .. n
      <4> SUFFICES ASSUME NEW b \in 1 .. Len(tl.blind) PROVE tl.blind[b] < n /\ tl.blind[b] \in 1 .. n
        OBVIOUS
      <4>1. tl.blind[b] \in 1 .. n
        BY <1>1 DEF Sane
      <4>2. b = Len(tl.blind) \/ b < Len(tl.blind)
        BY <3>1
      <4>3. b < Len(tl.blind) => tl.blind[b] < tl.blind[Len(tl.blind)]
        BY <3>1 DEF Sane
      <4> HIDE DEF n
      <4>4. QED
        BY <1>1, <3>1, <4>1, <4>2, <4>3
    <3> HIDE DEF bl, n
    <3>3. QED
      <4> SUFFICES ASSUME NEW b \in 1 .. Len(bl) PROVE bl[b] \in 1 .. n - 1
        OBVIOUS
      <4>1. bl[b] < n /\ bl[b] \in 1 .. n
        BY <1>9, <3>2
      <4>2. QED
        BY <1>1, <4>1
  <2>4. QED
    BY <2>1, <2>2, <2>3
<1> HIDE DEF T
<1>11. T.stack = [rest EXCEPT ![n] = s] /\ T.blind = bl
  BY <1>8
<1> HIDE DEF bl, rest, s
<1>12. T.stack \in Seq(Scope) /\ Len(T.stack) = n /\ T.stack[n] = s
       /\ \A i \in 1 .. n : i # n => T.stack[i] = tl.stack[i]
  BY <1>1, <1>4, <1>5, <1>11
<1>13. T \in [stack : Seq(Scope), blind : Seq(Nat)]
  <2>1. T = [stack |-> T.stack, blind |-> T.blind]
    BY <1>8, <1>11
  <2>2. QED
    BY <1>9, <1>11, <1>12, <2>1
<1>14. Height(T) = n /\ ExtAt(T, n) = h /\ VarsAt(T, n) = VarsAt(tl, n)
       /\ \A i \in 1 .. n : i # n => ExtAt(T, i) = ExtAt(tl, i) /\ VarsAt(T, i) = VarsAt(tl, i)
  BY <1>12 DEF Height, ExtAt, VarsAt, s
<1>15. \A i \in 1 .. n : VarsAt(T, i) = VarsAt(tl, i) /\ i \in 1 .. Height(tl)
  BY <1>1, <1>14
<1>16. NoShadowing(T)
  BY <1>14, <1>15 DEF Sane, NoShadowing
<1>17. \A b, c \in 1 .. Len(bl) : b < c => bl[b] < bl[c]
  BY <1>9 DEF Sane
<1>18. Sane(T)
  BY <1>1, <1>10, <1>11, <1>13, <1>14, <1>16, <1>17 DEF Sane
<1>19. DOMAIN h = DOMAIN ExtAt(tl, n) \cup (DOMAIN ExtAt(tl, n + 1) \ DOMAIN VarsAt(tl, n))
  BY <1>2, InheritedExtIs DEF ExtAt, VarsAt
<1>20. \A x \in DOMAIN h : h[x] <=> \/ x \in DOMAIN ExtAt(tl, n) /\ ExtAt(tl, n)[x]
                                    \/ /\ x \in DOMAIN ExtAt(tl, n + 1) \ DOMAIN VarsAt(tl, n)
                                       /\ ExtAt(tl, n + 1)[x]
  <2> DEFINE g == ExtAt(tl, n + 1)
  <2>1. g \in Exts
    BY <1>2
  <2> HIDE DEF g
  <2>2. \A x \in DOMAIN InheritedExt(tl.stack[n], g) : InheritedExt(tl.stack[n], g)[x] <=> (x \in DOMAIN tl.stack[n].ext /\ tl.stack[n].ext[x])
                                           \/ (x \in DOMAIN g \ DOMAIN tl.stack[n].vars /\ g[x])
    BY <1>2, <2>1, InheritedExtIs, Zenon
  <2>3. QED
    BY <2>2, Zenon DEF g, ExtAt, VarsAt
<1> HIDE DEF h, n
<1>21. QED
  BY <1>11, <1>14, <1>15, <1>18, <1>19, <1>20 DEF n, T, bl

\* What the branches know generalized: nothing, when one knows nothing.
LEMMA GeneralizeValueIs ==
  ASSUME NEW a \in Entry, NEW b \in Entry
  PROVE  LET g == GeneralizeValue(a, b)
         IN /\ g \in Entry
            /\ g # Unknown => a # Unknown /\ b # Unknown
            /\ a = b => g = a
            /\ IsValue(g) => g = a /\ a.object = b.object /\ IsValue(b)
            /\ ~IsValue(g) => g = OfType(g.type)
            /\ g.type # UnknownType => g.type = a.type /\ (IsValue(g) \/ g.type = b.type)
<1> DEFINE g == GeneralizeValue(a, b)
           t == Generalize(a.type, b.type)
<1>1. /\ a.type \in Types \cup {UnknownType} /\ b.type \in Types \cup {UnknownType}
      /\ a.object \in Nat /\ b.object \in Nat
      /\ ~IsValue(a) => a = OfType(a.type)
      /\ ~IsValue(b) => b = OfType(b.type)
      /\ IsValue(a) => a.type = TypeOf(a.value)
      /\ IsValue(b) => b.type = TypeOf(b.value)
  BY EntryParts
<1>2. /\ t \in Types \cup {UnknownType}
      /\ t # UnknownType => t = a.type /\ t = b.type
      /\ a.type = b.type => t = a.type
  BY <1>1 DEF Generalize
<1>3. /\ OfType(t) \in Entry /\ OfType(t).type = t /\ ~IsValue(OfType(t))
      /\ OfType(t) # Unknown => t # UnknownType
  BY <1>2 DEF Entry, OfType, IsValue, Unknown
<1>4. ~IsValue(Unknown) /\ Unknown.type = UnknownType
  BY DEF Unknown, OfType, IsValue
<1>5. (IsValue(a) => a # Unknown) /\ (IsValue(b) => b # Unknown)
  BY <1>4
<1>6. CASE IsValue(a) /\ a.object = b.object
  <2>1. g = a
    BY <1>6 DEF GeneralizeValue
  <2>2. IsValue(b)
    BY <1>6 DEF IsValue
  <2>3. QED
    BY <1>5, <1>6, <2>1, <2>2
<1>7. CASE ~(IsValue(a) /\ a.object = b.object)
  <2>1. g = OfType(t)
    BY <1>7 DEF GeneralizeValue
  <2>2. a = b => ~IsValue(a)
    BY <1>7
  <2>3. a = b => g = a
    BY <1>1, <1>2, <2>1, <2>2
  <2>4. g # Unknown => a # Unknown /\ b # Unknown
    BY <1>2, <1>3, <1>4, <2>1
  <2> HIDE DEF t
  <2>5. QED
    BY <1>2, <1>3, <2>1, <2>3, <2>4
<1>8. QED
  BY <1>6, <1>7

\* What MergeTimelines asserts of the two.
Mergeable(a, b) ==
  /\ Height(a) = Height(b)
  /\ \A i \in 1 .. Height(a) : DOMAIN VarsAt(a, i) = DOMAIN VarsAt(b, i)

LEMMA MergeTimelinesIs ==
  ASSUME NEW tl, Sane(tl), NEW other, Sane(other), Mergeable(tl, other)
  PROVE  LET T == MergeTimelines(tl, other)
             n == Height(tl)
         IN /\ Sane(T) /\ Height(T) = n /\ T.blind = tl.blind
            /\ \A i \in 1 .. n :
                 /\ DOMAIN VarsAt(T, i) = DOMAIN VarsAt(tl, i)
                 /\ \A x \in DOMAIN VarsAt(tl, i) :
                      VarsAt(T, i)[x] = GeneralizeValue(VarsAt(tl, i)[x], VarsAt(other, i)[x])
                 /\ DOMAIN ExtAt(T, i) = DOMAIN ExtAt(tl, i) \cup DOMAIN ExtAt(other, i)
                 /\ \A x \in DOMAIN ExtAt(T, i) :
                      ExtAt(T, i)[x] <=> (x \in DOMAIN ExtAt(tl, i) /\ ExtAt(tl, i)[x])
                                          \/ (x \in DOMAIN ExtAt(other, i) /\ ExtAt(other, i)[x])
<1> DEFINE n == Height(tl)
           v(i) == [x \in DOMAIN VarsAt(tl, i) |-> GeneralizeValue(VarsAt(tl, i)[x], VarsAt(other, i)[x])]
           e(i) == Joined(ExtAt(tl, i), ExtAt(other, i))
           new(i) == [vars |-> v(i), ext |-> e(i)]
           st == [i \in 1 .. n |-> new(i)]
           T == WithScopes(tl, st)
<1>1. /\ n \in Nat /\ DOMAIN tl.stack = 1 .. n /\ Height(other) = n
      /\ tl = [stack |-> tl.stack, blind |-> tl.blind]
      /\ \A i \in 1 .. n : /\ VarsAt(tl, i) \in Vars /\ ExtAt(tl, i) \in Exts
                           /\ VarsAt(other, i) \in Vars /\ ExtAt(other, i) \in Exts
                           /\ DOMAIN VarsAt(tl, i) = DOMAIN VarsAt(other, i)
  BY SaneParts DEF Mergeable
<1>2. ASSUME NEW i \in 1 .. n
      PROVE  v(i) \in Vars /\ DOMAIN v(i) = DOMAIN VarsAt(tl, i)
  <2>1. \A x \in DOMAIN VarsAt(tl, i) : VarsAt(tl, i)[x] \in Entry /\ VarsAt(other, i)[x] \in Entry
    BY <1>1, MapParts
  <2>2. \A x \in DOMAIN VarsAt(tl, i) : GeneralizeValue(VarsAt(tl, i)[x], VarsAt(other, i)[x]) \in Entry
    BY <2>1, GeneralizeValueIs
  <2>3. v(i) \in [DOMAIN VarsAt(tl, i) -> Entry] /\ DOMAIN v(i) = DOMAIN VarsAt(tl, i)
    BY <2>2
  <2>4. DOMAIN VarsAt(tl, i) \subseteq Names
    BY <1>1, MapParts
  <2> HIDE DEF v
  <2>5. QED
    BY <2>3, <2>4, MapParts
<1>3. ASSUME NEW i \in 1 .. n
      PROVE  /\ e(i) \in Exts
             /\ DOMAIN e(i) = DOMAIN ExtAt(tl, i) \cup DOMAIN ExtAt(other, i)
             /\ \A x \in DOMAIN e(i) :
                      e(i)[x] <=> (x \in DOMAIN ExtAt(tl, i) /\ ExtAt(tl, i)[x])
                                          \/ (x \in DOMAIN ExtAt(other, i) /\ ExtAt(other, i)[x])
  <2> DEFINE f == ExtAt(tl, i)
             g == ExtAt(other, i)
  <2>1. f \in Exts /\ g \in Exts
    BY <1>1
  <2> HIDE DEF f, g
  <2>2. /\ DOMAIN Joined(f, g) = DOMAIN f \cup DOMAIN g
        /\ \A x \in DOMAIN Joined(f, g) : Joined(f, g)[x] = ((x \in DOMAIN f /\ f[x]) \/ (x \in DOMAIN g /\ g[x]))
    BY DEF Joined
  <2>3. Joined(f, g) \in [DOMAIN f \cup DOMAIN g -> BOOLEAN]
    <3>1. ASSUME NEW x \in DOMAIN f \cup DOMAIN g
          PROVE  ((x \in DOMAIN f /\ f[x]) \/ (x \in DOMAIN g /\ g[x])) \in BOOLEAN
      OBVIOUS
    <3>2. QED
      BY <3>1, Zenon DEF Joined
  <2>4. DOMAIN f \cup DOMAIN g \subseteq Names
    BY <2>1, MapParts
  <2>5. Joined(f, g) \in Exts
    BY <2>2, <2>3, <2>4, MapParts
  <2>6. \A x \in DOMAIN Joined(f, g) : Joined(f, g)[x] <=> ((x \in DOMAIN f /\ f[x]) \/ (x \in DOMAIN g /\ g[x]))
    BY <2>2
  <2>7. QED
    BY <2>2, <2>5, <2>6 DEF f, g
<1>4. \A i \in 1 .. n : st[i] = new(i)
  OBVIOUS
<1>5. \A i \in 1 .. n : new(i) \in Scope
  <2> HIDE DEF v, e
  <2>1. QED
    BY <1>2, <1>3, MakeScope
<1>6. MergeTimelines(tl, other) = [tl EXCEPT !.stack = st]
  <2>1. [i \in DOMAIN tl.stack |->
     [vars |-> [x \in DOMAIN tl.stack[i].vars |->
                  GeneralizeValue(tl.stack[i].vars[x], other.stack[i].vars[x])],
      ext |-> Joined(tl.stack[i].ext, other.stack[i].ext)]] = st
    BY <1>1, Zenon DEF VarsAt, ExtAt
  <2>2. QED
    BY <2>1, Zenon DEF MergeTimelines
<1>7. st \in [1 .. n -> Scope]
  <2> HIDE DEF new
  <2>1. QED
    BY <1>4, <1>5
<1> HIDE DEF st, v, e
<1>8. \A i \in 1 .. n : st[i].vars = v(i) /\ st[i].ext = e(i)
  <2>1. \A i \in 1 .. n : new(i).vars = v(i) /\ new(i).ext = e(i)
    OBVIOUS
  <2> HIDE DEF new
  <2>2. QED
    BY <1>4, <2>1, Zenon
<1>9. Alike(tl, st)
  BY <1>2, <1>7, <1>8 DEF Alike
<1>10. /\ [tl EXCEPT !.stack = st] = T
       /\ Sane(T) /\ Height(T) = Height(tl) /\ T.blind = tl.blind
       /\ \A i \in 1 .. Height(tl) : VarsAt(T, i) = st[i].vars /\ ExtAt(T, i) = st[i].ext
  BY <1>9, SameDomains
<1> HIDE DEF T
<1>11. \A i \in 1 .. n : VarsAt(T, i) = v(i) /\ ExtAt(T, i) = e(i)
  BY <1>8, <1>10
<1>12. \A i \in 1 .. n : \A x \in DOMAIN VarsAt(tl, i) :
                      v(i)[x] = GeneralizeValue(VarsAt(tl, i)[x], VarsAt(other, i)[x])
  BY DEF v
<1>13. /\ Sane(T) /\ Height(T) = n /\ T.blind = tl.blind
       /\ \A i \in 1 .. n :
                 /\ DOMAIN VarsAt(T, i) = DOMAIN VarsAt(tl, i)
                 /\ \A x \in DOMAIN VarsAt(tl, i) :
                      VarsAt(T, i)[x] = GeneralizeValue(VarsAt(tl, i)[x], VarsAt(other, i)[x])
                 /\ DOMAIN ExtAt(T, i) = DOMAIN ExtAt(tl, i) \cup DOMAIN ExtAt(other, i)
                 /\ \A x \in DOMAIN ExtAt(T, i) :
                      ExtAt(T, i)[x] <=> (x \in DOMAIN ExtAt(tl, i) /\ ExtAt(tl, i)[x])
                                          \/ (x \in DOMAIN ExtAt(other, i) /\ ExtAt(other, i)[x])
  BY <1>2, <1>3, <1>10, <1>11, <1>12
<1>14. MergeTimelines(tl, other) = T
  BY <1>6, <1>10
<1> HIDE DEF n
<1>15. QED
  BY <1>13, <1>14 DEF n

-----------------------------------------------------------------------------
(* Finite sets.                                                            *)

LEMMA ImageIsFinite ==
  ASSUME NEW S, IsFiniteSet(S), NEW f
  PROVE  IsFiniteSet({f[x] : x \in S})
<1> DEFINE I == {f[x] : x \in S}
           g == [x \in S |-> f[x]]
<1>1. g \in Surjection(S, I)
  BY DEF Surjection
<1>2. QED
  BY <1>1, FS_Surjection

LEMMA LeastIs ==
  ASSUME NEW S \in SUBSET Nat, S # {}
  PROVE  Min(S) \in S
<1> DEFINE R == {p \in Nat \X Nat : p[1] < p[2]}
<1>1. IsWellFoundedOn(R, Nat)
  BY NatLessThanWellFounded DEF OpToRel
<1>2. PICK x \in S : \A y \in S : ~(<<y, x>> \in R)
  BY <1>1, WFMin
<1>3. \A y \in S : ~(y < x)
  BY <1>2
<1>4. \A y \in S : x <= y
  BY <1>3
<1>5. QED
  BY <1>4 DEF Min

\* The objects of the values a timeline knows.
LEMMA FinitelyMany ==
  ASSUME NEW tl, Sane(tl)
  PROVE  LET O == UNION {{tl.stack[i].vars[x].object : x \in DOMAIN tl.stack[i].vars} : i \in DOMAIN tl.stack}
         IN IsFiniteSet(O) /\ O \subseteq Nat
<1> DEFINE n == Height(tl)
           P(i) == {tl.stack[i].vars[x].object : x \in DOMAIN tl.stack[i].vars}
           U == {P(i) : i \in DOMAIN tl.stack}
           O == UNION U
<1>1. n \in Nat /\ DOMAIN tl.stack = 1 .. n
      /\ \A i \in 1 .. n : VarsAt(tl, i) \in Vars
  BY SaneParts
<1>2. ASSUME NEW i \in 1 .. n PROVE IsFiniteSet(P(i)) /\ P(i) \subseteq Nat
  <2> DEFINE v == VarsAt(tl, i)
             f == [x \in DOMAIN v |-> v[x].object]
  <2>1. v \in [DOMAIN v -> Entry] /\ DOMAIN v \subseteq Names
    BY <1>1, MapParts
  <2>2. IsFiniteSet(DOMAIN v)
    BY <2>1, TimelineAssumption, FS_Subset
  <2>3. IsFiniteSet({f[x] : x \in DOMAIN v})
    BY <2>2, ImageIsFinite
  <2>4. {f[x] : x \in DOMAIN v} = P(i)
    BY DEF VarsAt
  <2>5. \A x \in DOMAIN v : v[x].object \in Nat
    BY <2>1, EntryParts
  <2>6. QED
    BY <2>3, <2>4, <2>5 DEF VarsAt
<1>3. IsFiniteSet(U)
  <2> DEFINE g == [i \in 1 .. n |-> P(i)]
  <2>1. IsFiniteSet(1 .. n)
    BY <1>1, FS_Interval
  <2>2. IsFiniteSet({g[i] : i \in 1 .. n})
    BY <2>1, ImageIsFinite
  <2>3. {g[i] : i \in 1 .. n} = U
    BY <1>1
  <2>4. QED
    BY <2>2, <2>3
<1>4. \A T \in U : IsFiniteSet(T) /\ T \subseteq Nat
  BY <1>1, <1>2
<1> HIDE DEF U
<1>5. IsFiniteSet(O) /\ O \subseteq Nat
  BY <1>3, <1>4, FS_UNION
<1>6. QED
  BY <1>5 DEF U
=============================================================================
