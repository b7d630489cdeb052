---------------------------- MODULE Scopes_proofs ----------------------------
(***************************************************************************)
(* For every program and all values of the constants: each executor has    *)
(* one scope per block it is inside, whatever the way out of the blocks    *)
(* before; no visitor meets what it answers with a C++ exception; jumps    *)
(* only unwind, and the trace of an error agrees with the call stack.      *)
(*                                                                         *)
(* Scopes are restored from what each activation has saved, so what it     *)
(* has saved must be as many scopes as there are below it: the invariant   *)
(* says so of every activation, by those below.                            *)
(***************************************************************************)
EXTENDS Executor_proofs

\* The executor of activation i of fs, and of one above them.
OwnerIn(fs, i) == 1 + Cardinality({k \in 1 .. i - 1 : fs[k].at \in OpenPcs})
Innermost(fs) == 1 + Count(fs, OpenPcs)

\* The scopes that executor e should have: those it began with, as es says of
\* the one outside of it, and one for each block of it that fs are inside.
Held(fs, e) == Cardinality({i \in DOMAIN fs : OwnerIn(fs, i) = e /\ HoldsScope(fs[i])})
ArgumentIn(fs, e) == \E k \in DOMAIN fs : fs[k].at = "arg" /\ OwnerIn(fs, k) = e - 1
Base(fs, es, e) ==
  IF e = 1 THEN 1 ELSE IF ArgumentIn(fs, e) THEN Len(es[e - 1].scopes) ELSE 2
Depth(fs, es, e) == Base(fs, es, e) + Held(fs, e)

\* The names that executor e will declare when their values are known.
Declares(f) == Pos(f) = <<"Var", "init">>
Pending(fs, e) == {fs[i].name : i \in {j \in DOMAIN fs : Declares(fs[j]) /\ OwnerIn(fs, j) = e}}

\* An activation that will restore scopes has saved d of them, and a for has
\* declared nothing before it begins.
Saves(f) == \/ f.kind = "Body"
            \/ Pos(f) = <<"ShortIf", "then">>
            \/ f.kind = "For" /\ f.at \in {"iter", "body"}
Saved(f, d) ==
  /\ Saves(f) => Len(f.prev) = d
  /\ f.kind = "For" /\ ~Saves(f) => f.name = NoName

\* Activation f, above fs: it has saved their scopes, and only expressions are
\* above a declaration that waits.
Standing(fs, es, f) ==
  /\ Saved(f, Depth(fs, es, Innermost(fs)))
  /\ f.kind \notin ExpressionKinds => Pending(fs, Innermost(fs)) = {}

ExecFits(fs, es, e) ==
  /\ Len(es[e].scopes) = Depth(fs, es, e) /\ es[e].scopes # <<>>
  /\ Pending(fs, e) \cap Last(es[e].scopes) = {}

\* All that activations say of executors, but of the innermost, and with it.
Under(fs, es) ==
  /\ \A i \in DOMAIN fs : Standing(SubSeq(fs, 1, i - 1), es, fs[i])
  /\ \A e \in 1 .. Count(fs, OpenPcs) : ExecFits(fs, es, e)
Fits(fs, es) == Under(fs, es) /\ ExecFits(fs, es, Innermost(fs))

\* A visitor that takes a value finds one.
Takes(f) == Pos(f) \in TakesValue \/ f.at \in {"arg", "short"}
HasWhatItTakes == frames # <<>> /\ state = "Running" /\ Takes(Top) => Exec.value

SInv == Fits(frames, execs) /\ HasWhatItTakes

-----------------------------------------------------------------------------
(* One activation more.                                                    *)

One(b) == IF b THEN 1 ELSE 0

\* Adding an element to a set picked from the positions of a sequence.
LEMMA CountOneMore ==
  ASSUME NEW n \in Nat, NEW S, NEW T, NEW b \in BOOLEAN, S \subseteq 1 .. n,
         T = S \cup (IF b THEN {n + 1} ELSE {})
  PROVE  /\ Cardinality(S) \in Nat /\ Cardinality(T) = Cardinality(S) + One(b)
<1>1. IsFiniteSet(S) /\ n + 1 \notin S
  <2>1. IsFiniteSet(1 .. n) /\ S \in SUBSET (1 .. n)
    BY FS_Interval
  <2>2. n + 1 \notin 1 .. n
    OBVIOUS
  <2>3. IsFiniteSet(S)
    BY <2>1, FS_Subset
  <2>4. QED
    BY <2>2, <2>3
<1>2. Cardinality(S) \in Nat
  BY <1>1, FS_CardinalityType
<1>3. CASE b
  <2>1. Cardinality(S \cup {n + 1}) = Cardinality(S) + 1
    BY <1>1, FS_AddElement
  <2>2. QED
    BY <1>2, <1>3, <2>1 DEF One
<1>4. CASE ~b
  BY <1>2, <1>4 DEF One
<1>5. QED
  BY <1>3, <1>4

LEMMA OwnersAppended ==
  ASSUME NEW gs \in Seq(Frame), NEW f \in Frame
  PROVE  /\ \A i \in 1 .. Len(gs) : OwnerIn(Append(gs, f), i) = OwnerIn(gs, i)
         /\ OwnerIn(Append(gs, f), Len(gs) + 1) = Innermost(gs)
         /\ Innermost(Append(gs, f)) = Innermost(gs) + One(f.at \in OpenPcs)
<1> DEFINE fs == Append(gs, f)
           n == Len(gs)
<1>1. /\ n \in Nat /\ DOMAIN gs = 1 .. n /\ fs[n + 1] = f
      /\ \A i \in 1 .. n : fs[i] = gs[i]
  BY Appended
<1> HIDE DEF fs, n
<1>2. ASSUME NEW i \in 1 .. n PROVE OwnerIn(fs, i) = OwnerIn(gs, i)
  <2>1. {k \in 1 .. i - 1 : fs[k].at \in OpenPcs} = {k \in 1 .. i - 1 : gs[k].at \in OpenPcs}
    BY <1>1
  <2>2. QED
    BY <2>1 DEF OwnerIn
<1>3. OwnerIn(fs, n + 1) = Innermost(gs)
  <2>1. {k \in 1 .. (n + 1) - 1 : fs[k].at \in OpenPcs} = {k \in DOMAIN gs : gs[k].at \in OpenPcs}
    BY <1>1
  <2>2. QED
    BY <2>1 DEF OwnerIn, Innermost, Count
<1>4. /\ Count(gs, OpenPcs) \in Nat
      /\ Count(fs, OpenPcs) = Count(gs, OpenPcs) + (IF f.at \in OpenPcs THEN 1 ELSE 0)
  BY CountAppend DEF fs
<1>5. QED
  BY <1>2, <1>3, <1>4 DEF Innermost, One, fs, n

LEMMA InnermostType ==
  ASSUME NEW gs \in Seq(Frame)
  PROVE  Innermost(gs) \in Nat \ {0} /\ Count(gs, OpenPcs) = Innermost(gs) - 1
<1> DEFINE T == {i \in DOMAIN gs : gs[i].at \in OpenPcs}
<1>1. IsFiniteSet(T)
  <2>1. DOMAIN gs = 1 .. Len(gs) /\ Len(gs) \in Nat
    BY LenProperties
  <2>2. IsFiniteSet(1 .. Len(gs)) /\ T \in SUBSET (1 .. Len(gs))
    BY <2>1, FS_Interval
  <2>3. QED
    BY <2>2, FS_Subset
<1>2. Count(gs, OpenPcs) \in Nat
  BY <1>1, FS_CardinalityType DEF Count
<1>3. QED
  BY <1>2 DEF Innermost

\* Executors are numbered from outside.
LEMMA OwnersBound ==
  ASSUME NEW gs \in Seq(Frame), NEW i \in DOMAIN gs
  PROVE  /\ OwnerIn(gs, i) \in 1 .. Innermost(gs)
         /\ gs[i].at \in OpenPcs => OwnerIn(gs, i) < Innermost(gs)
<1> DEFINE S == {k \in 1 .. i - 1 : gs[k].at \in OpenPcs}
           T == {k \in DOMAIN gs : gs[k].at \in OpenPcs}
<1>1. Len(gs) \in Nat /\ DOMAIN gs = 1 .. Len(gs) /\ i \in 1 .. Len(gs)
  BY LenProperties
<1>2. IsFiniteSet(T) /\ S \subseteq T /\ i \notin S
  <2>1. IsFiniteSet(1 .. Len(gs)) /\ T \subseteq 1 .. Len(gs)
    BY <1>1, FS_Interval
  <2>2. QED
    BY <1>1, <2>1, FS_Subset
<1>3. /\ IsFiniteSet(S) /\ Cardinality(S) \in Nat /\ Cardinality(T) \in Nat
      /\ Cardinality(S) <= Cardinality(T)
  BY <1>2, FS_Subset, FS_CardinalityType
<1>4. gs[i].at \in OpenPcs => Cardinality(S) < Cardinality(T)
  <2> SUFFICES ASSUME gs[i].at \in OpenPcs PROVE Cardinality(S) < Cardinality(T)
    OBVIOUS
  <2>1. S \cup {i} \subseteq T
    BY <1>2
  <2>2. Cardinality(S \cup {i}) = Cardinality(S) + 1
    BY <1>2, <1>3, FS_AddElement
  <2>3. Cardinality(S \cup {i}) <= Cardinality(T)
    BY <1>2, <2>1, FS_Subset
  <2>4. QED
    BY <1>3, <2>2, <2>3
<1>5. OwnerIn(gs, i) = 1 + Cardinality(S) /\ Innermost(gs) = 1 + Cardinality(T)
  BY DEF OwnerIn, Innermost, Count
<1>6. QED
  BY <1>3, <1>4, <1>5

LEMMA HeldAppended ==
  ASSUME NEW gs \in Seq(Frame), NEW f \in Frame, NEW e
  PROVE  /\ Held(gs, e) \in Nat
         /\ Held(Append(gs, f), e) = Held(gs, e) + One(e = Innermost(gs) /\ HoldsScope(f))
<1> DEFINE fs == Append(gs, f)
           n == Len(gs)
           S == {i \in DOMAIN gs : OwnerIn(gs, i) = e /\ HoldsScope(gs[i])}
           T == {i \in DOMAIN fs : OwnerIn(fs, i) = e /\ HoldsScope(fs[i])}
           b == e = Innermost(gs) /\ HoldsScope(f)
<1>1. /\ n \in Nat /\ DOMAIN gs = 1 .. n /\ DOMAIN fs = 1 .. n + 1
      /\ fs[n + 1] = f /\ \A i \in 1 .. n : fs[i] = gs[i]
  BY Appended
<1>2. /\ \A i \in 1 .. n : OwnerIn(fs, i) = OwnerIn(gs, i)
      /\ OwnerIn(fs, n + 1) = Innermost(gs)
  BY OwnersAppended
<1>3. b \in BOOLEAN
  BY DEF HoldsScope
<1> HIDE DEF fs, n, b
<1>4. S \subseteq 1 .. n
  BY <1>1
<1>5. T = S \cup (IF b THEN {n + 1} ELSE {})
  <2>1. \A i \in 1 .. n : i \in T <=> i \in S
    BY <1>1, <1>2
  <2>2. n + 1 \in T <=> b
    BY <1>1, <1>2 DEF b
  <2>3. \A i : i \in 1 .. n + 1 <=> i \in 1 .. n \/ i = n + 1
    BY <1>1
  <2>4. T \subseteq 1 .. n + 1 /\ n + 1 \notin 1 .. n
    BY <1>1
  <2> HIDE DEF S, T
  <2>5. QED
    BY <1>4, <2>1, <2>2, <2>3, <2>4
<1>6. Cardinality(S) \in Nat /\ Cardinality(T) = Cardinality(S) + One(b)
  <2> HIDE DEF S, T
  <2> QED
    BY <1>1, <1>3, <1>4, <1>5, CountOneMore
<1>7. QED
  BY <1>6 DEF Held, fs, b

\* Nothing is said yet of executors that have not been opened.
LEMMA NothingBeyond ==
  ASSUME NEW gs \in Seq(Frame), NEW e, e = Innermost(gs) + 1
  PROVE  Held(gs, e) = 0 /\ ~ArgumentIn(gs, e) /\ Pending(gs, e) = {}
<1>1. Innermost(gs) \in Nat
  BY InnermostType
<1>2. \A i \in DOMAIN gs : OwnerIn(gs, i) # e
  BY <1>1, OwnersBound
<1>3. {i \in DOMAIN gs : OwnerIn(gs, i) = e /\ HoldsScope(gs[i])} = {}
  BY <1>2
<1>4. Held(gs, e) = 0
  BY <1>3, FS_EmptySet DEF Held
<1>5. ASSUME NEW k \in DOMAIN gs, gs[k].at = "arg", OwnerIn(gs, k) = e - 1 PROVE FALSE
  BY <1>1, <1>5, OwnersBound DEF OpenPcs
<1>6. QED
  BY <1>2, <1>4, <1>5 DEF ArgumentIn, Pending

LEMMA PendingAppended ==
  ASSUME NEW gs \in Seq(Frame), NEW f \in Frame, NEW e
  PROVE  Pending(Append(gs, f), e) =
           Pending(gs, e) \cup (IF e = Innermost(gs) /\ Declares(f) THEN {f.name} ELSE {})
<1> DEFINE fs == Append(gs, f)
           n == Len(gs)
<1>1. /\ n \in Nat /\ DOMAIN gs = 1 .. n /\ DOMAIN fs = 1 .. n + 1
      /\ fs[n + 1] = f /\ \A i \in 1 .. n : fs[i] = gs[i]
  BY Appended
<1>2. /\ \A i \in 1 .. n : OwnerIn(fs, i) = OwnerIn(gs, i)
      /\ OwnerIn(fs, n + 1) = Innermost(gs)
  BY OwnersAppended
<1> HIDE DEF fs, n
<1>3. \A i : i \in 1 .. n + 1 <=> i \in 1 .. n \/ i = n + 1
  BY <1>1
<1>4. \A x : (\E i \in 1 .. n + 1 : Declares(fs[i]) /\ OwnerIn(fs, i) = e /\ x = fs[i].name)
             <=> \/ \E i \in 1 .. n : Declares(gs[i]) /\ OwnerIn(gs, i) = e /\ x = gs[i].name
                 \/ e = Innermost(gs) /\ Declares(f) /\ x = f.name
  BY <1>1, <1>2, <1>3
<1>5. \A x : x \in Pending(fs, e)
             <=> \E i \in 1 .. n + 1 : Declares(fs[i]) /\ OwnerIn(fs, i) = e /\ x = fs[i].name
  BY <1>1 DEF Pending
<1>6. \A x : x \in Pending(gs, e)
             <=> \E i \in 1 .. n : Declares(gs[i]) /\ OwnerIn(gs, i) = e /\ x = gs[i].name
  BY <1>1 DEF Pending
<1>7. Pending(fs, e) =
        Pending(gs, e) \cup (IF e = Innermost(gs) /\ Declares(f) THEN {f.name} ELSE {})
  BY <1>4, <1>5, <1>6
<1>8. QED
  BY <1>7 DEF fs

LEMMA ArgumentAppended ==
  ASSUME NEW gs \in Seq(Frame), NEW f \in Frame, NEW e
  PROVE  ArgumentIn(Append(gs, f), e)
           <=> ArgumentIn(gs, e) \/ (f.at = "arg" /\ e - 1 = Innermost(gs))
<1> DEFINE fs == Append(gs, f)
           n == Len(gs)
<1>1. /\ n \in Nat /\ DOMAIN gs = 1 .. n /\ DOMAIN fs = 1 .. n + 1
      /\ fs[n + 1] = f /\ \A i \in 1 .. n : fs[i] = gs[i]
  BY Appended
<1>2. /\ \A i \in 1 .. n : OwnerIn(fs, i) = OwnerIn(gs, i)
      /\ OwnerIn(fs, n + 1) = Innermost(gs)
  BY OwnersAppended
<1> HIDE DEF fs, n
<1>3. \A i : i \in 1 .. n + 1 <=> i \in 1 .. n \/ i = n + 1
  BY <1>1
<1>4. ArgumentIn(fs, e) <=> ArgumentIn(gs, e) \/ (f.at = "arg" /\ Innermost(gs) = e - 1)
  BY <1>1, <1>2, <1>3, Zenon DEF ArgumentIn
<1>5. QED
  BY <1>4 DEF fs

\* How many scopes executors should have does not depend on the innermost one.
LEMMA DepthType ==
  ASSUME NEW gs \in Seq(Frame), NEW es \in Seq(Executors), Innermost(gs) - 1 <= Len(es),
         NEW e \in 1 .. Innermost(gs)
  PROVE  Base(gs, es, e) \in Nat /\ Depth(gs, es, e) \in Nat
<1>1. Len(es) \in Nat /\ Innermost(gs) \in Nat
  BY LenProperties, InnermostType
<1>2. e # 1 => Len(es[e - 1].scopes) \in Nat
  <2> HAVE e # 1
  <2>1. e - 1 \in 1 .. Len(es)
    BY <1>1
  <2>2. es[e - 1] \in Executors
    BY <2>1, ElementOfSeq
  <2>3. es[e - 1].scopes \in Seq(SUBSET Names)
    BY <2>2 DEF Executors, Chains
  <2>4. QED
    BY <2>3, LenProperties
<1>3. Base(gs, es, e) \in Nat
  BY <1>2 DEF Base
<1>4. Held(gs, e) \in Nat
  <2>1. {i \in DOMAIN gs : OwnerIn(gs, i) = e /\ HoldsScope(gs[i])} \in SUBSET (1 .. Len(gs))
    BY LenProperties
  <2>2. IsFiniteSet(1 .. Len(gs))
    BY LenProperties, FS_Interval
  <2>3. QED
    BY <2>1, <2>2, FS_Subset, FS_CardinalityType DEF Held
<1>5. QED
  BY <1>3, <1>4 DEF Depth

LEMMA DepthAppended ==
  ASSUME NEW gs \in Seq(Frame), NEW f \in Frame, NEW es \in Seq(Executors),
         Innermost(gs) - 1 <= Len(es), NEW e \in 1 .. Innermost(gs)
  PROVE  Depth(Append(gs, f), es, e) = Depth(gs, es, e) + One(e = Innermost(gs) /\ HoldsScope(f))
<1>1. e - 1 # Innermost(gs)
  BY InnermostType
<1>2. Base(Append(gs, f), es, e) = Base(gs, es, e)
  BY <1>1, ArgumentAppended DEF Base
<1>3. Held(Append(gs, f), e) = Held(gs, e) + One(e = Innermost(gs) /\ HoldsScope(f))
  BY HeldAppended
<1>4. Base(gs, es, e) \in Nat /\ Held(gs, e) \in Nat
  BY DepthType, HeldAppended
<1>5. One(e = Innermost(gs) /\ HoldsScope(f)) \in Nat
  BY DEF One
<1>6. QED
  BY <1>2, <1>3, <1>4, <1>5 DEF Depth

\* An executor that has just been opened.
LEMMA DepthOpened ==
  ASSUME NEW gs \in Seq(Frame), NEW f \in Frame, NEW es \in Seq(Executors),
         NEW m, m = Innermost(gs)
  PROVE  /\ Held(Append(gs, f), m + 1) = 0
         /\ Base(Append(gs, f), es, m + 1) = IF f.at = "arg" THEN Len(es[m].scopes) ELSE 2
         /\ Pending(Append(gs, f), m + 1) = {}
<1>1. m \in Nat \ {0}
  BY InnermostType
<1>2. m + 1 # m /\ m + 1 # 1 /\ (m + 1) - 1 = m
  BY <1>1
<1>3. Held(gs, m + 1) = 0 /\ ~ArgumentIn(gs, m + 1) /\ Pending(gs, m + 1) = {}
  BY NothingBeyond
<1>4. Held(Append(gs, f), m + 1) = 0
  <2>1. Held(Append(gs, f), m + 1) = Held(gs, m + 1) + One(m + 1 = m /\ HoldsScope(f))
    BY HeldAppended
  <2>2. One(m + 1 = m /\ HoldsScope(f)) = 0
    BY <1>2 DEF One
  <2>3. QED
    BY <1>3, <2>1, <2>2
<1>5. Pending(Append(gs, f), m + 1) = {}
  BY <1>2, <1>3, PendingAppended
<1>6. ArgumentIn(Append(gs, f), m + 1) <=> f.at = "arg"
  BY <1>2, <1>3, ArgumentAppended
<1>7. QED
  BY <1>2, <1>4, <1>5, <1>6 DEF Base

LEMMA AppendedPrefixes ==
  ASSUME NEW gs \in Seq(Frame), NEW f \in Frame
  PROVE  /\ \A i \in 1 .. Len(gs) : SubSeq(Append(gs, f), 1, i - 1) = SubSeq(gs, 1, i - 1)
         /\ SubSeq(Append(gs, f), 1, Len(gs)) = gs
<1> DEFINE fs == Append(gs, f)
           n == Len(gs)
<1>1. /\ n \in Nat /\ fs \in Seq(Frame) /\ Len(fs) = n + 1
      /\ \A i \in 1 .. n : fs[i] = gs[i] /\ gs[i] \in Frame
  BY Appended, ElementOfSeq
<1> HIDE DEF fs, n
<1>2. ASSUME NEW m \in 0 .. n
      PROVE  /\ SubSeq(fs, 1, m) \in Seq(Frame) /\ Len(SubSeq(fs, 1, m)) = m
             /\ SubSeq(gs, 1, m) \in Seq(Frame) /\ Len(SubSeq(gs, 1, m)) = m
             /\ \A j \in 1 .. m : SubSeq(fs, 1, m)[j] = gs[j] /\ SubSeq(gs, 1, m)[j] = gs[j]
  <2>1. \A i \in 1 .. m : fs[i] \in Frame /\ gs[i] \in Frame /\ fs[i] = gs[i]
    BY <1>1
  <2>2. /\ SubSeq(fs, 1, m) \in Seq(Frame)
        /\ Len(SubSeq(fs, 1, m)) = IF 1 <= m THEN m - 1 + 1 ELSE 0
        /\ \A i \in 1 .. m - 1 + 1 : SubSeq(fs, 1, m)[i] = fs[1 + i - 1]
    BY <1>1, <2>1, SubSeqProperties
  <2>3. /\ SubSeq(gs, 1, m) \in Seq(Frame)
        /\ Len(SubSeq(gs, 1, m)) = IF 1 <= m THEN m - 1 + 1 ELSE 0
        /\ \A i \in 1 .. m - 1 + 1 : SubSeq(gs, 1, m)[i] = gs[1 + i - 1]
    BY <1>1, <2>1, SubSeqProperties DEF n
  <2>4. ASSUME NEW j \in 1 .. m
        PROVE  SubSeq(fs, 1, m)[j] = gs[j] /\ SubSeq(gs, 1, m)[j] = gs[j]
    <3>1. j \in 1 .. m - 1 + 1 /\ 1 + j - 1 = j
      OBVIOUS
    <3>2. QED
      BY <2>1, <2>2, <2>3, <3>1
  <2>5. QED
    BY <2>2, <2>3, <2>4
<1>3. ASSUME NEW m \in 0 .. n PROVE SubSeq(fs, 1, m) = SubSeq(gs, 1, m)
  <2> DEFINE a == SubSeq(fs, 1, m)
             b == SubSeq(gs, 1, m)
  <2>1. a \in Seq(Frame) /\ b \in Seq(Frame) /\ Len(a) = m /\ Len(b) = m
    BY <1>2
  <2>2. \A j \in 1 .. Len(a) : a[j] = b[j]
    BY <1>2
  <2> HIDE DEF a, b
  <2>3. a = b
    BY <2>1, <2>2, SeqEqual
  <2>4. QED
    BY <2>3 DEF a, b
<1>4. SubSeq(fs, 1, n) = gs
  BY <1>1, <1>2, SeqEqual DEF n
<1>5. \A i \in 1 .. n : i - 1 \in 0 .. n
  BY <1>1
<1>6. QED
  BY <1>3, <1>4, <1>5 DEF fs, n

LEMMA PrefixInnermost ==
  ASSUME NEW gs \in Seq(Frame), NEW i \in DOMAIN gs
  PROVE  SubSeq(gs, 1, i - 1) \in Seq(Frame) /\ Innermost(SubSeq(gs, 1, i - 1)) = OwnerIn(gs, i)
<1> DEFINE m == i - 1
           ps == SubSeq(gs, 1, m)
<1>1. Len(gs) \in Nat /\ DOMAIN gs = 1 .. Len(gs)
  BY LenProperties
<1>2. m \in 0 .. Len(gs) /\ \A j \in 1 .. m : gs[j] \in Frame
  BY <1>1, ElementOfSeq
<1> HIDE DEF m
<1>3. /\ ps \in Seq(Frame)
      /\ Len(ps) = IF 1 <= m THEN m - 1 + 1 ELSE 0
      /\ \A j \in 1 .. m - 1 + 1 : ps[j] = gs[1 + j - 1]
  BY <1>1, <1>2, SubSeqProperties
<1>4. DOMAIN ps = 1 .. m
  BY <1>2, <1>3, LenProperties
<1>5. \A j \in 1 .. m : ps[j] = gs[j]
  <2> TAKE j \in 1 .. m
  <2>1. j \in 1 .. m - 1 + 1 /\ 1 + j - 1 = j
    BY <1>2
  <2>2. QED
    BY <1>3, <2>1
<1>6. {k \in DOMAIN ps : ps[k].at \in OpenPcs} = {k \in 1 .. i - 1 : gs[k].at \in OpenPcs}
  BY <1>4, <1>5 DEF m
<1>7. QED
  BY <1>3, <1>6 DEF Innermost, Count, OwnerIn, m

\* What is said of the executors below does not depend on those above.
LEMMA DepthSame ==
  ASSUME NEW gs \in Seq(Frame), NEW es, NEW es2,
         \A e \in 1 .. Innermost(gs) - 1 : es2[e].scopes = es[e].scopes,
         NEW e \in 1 .. Innermost(gs)
  PROVE  Depth(gs, es2, e) = Depth(gs, es, e)
<1>1. Innermost(gs) \in Nat
  BY InnermostType
<1>2. CASE e = 1
  BY <1>2 DEF Depth, Base
<1>3. CASE e # 1
  <2>1. e - 1 \in 1 .. Innermost(gs) - 1
    BY <1>1, <1>3
  <2>2. QED
    BY <2>1 DEF Depth, Base
<1>4. QED
  BY <1>2, <1>3

LEMMA UnderSame ==
  ASSUME NEW gs \in Seq(Frame), NEW es, NEW es2,
         \A e \in 1 .. Innermost(gs) - 1 : es2[e].scopes = es[e].scopes,
         Under(gs, es)
  PROVE  Under(gs, es2)
<1>1. Innermost(gs) \in Nat \ {0} /\ Count(gs, OpenPcs) = Innermost(gs) - 1
  BY InnermostType
<1>2. ASSUME NEW i \in DOMAIN gs PROVE Standing(SubSeq(gs, 1, i - 1), es2, gs[i])
  <2> DEFINE ps == SubSeq(gs, 1, i - 1)
  <2>1. ps \in Seq(Frame) /\ Innermost(ps) = OwnerIn(gs, i)
    BY PrefixInnermost
  <2>2. OwnerIn(gs, i) \in 1 .. Innermost(gs)
    BY OwnersBound
  <2>3. Standing(ps, es, gs[i])
    BY DEF Under
  <2> HIDE DEF ps
  <2>4. \A e \in 1 .. Innermost(ps) - 1 : es2[e].scopes = es[e].scopes
    BY <1>1, <2>1, <2>2
  <2>5. Depth(ps, es2, Innermost(ps)) = Depth(ps, es, Innermost(ps))
    <3>1. ps \in Seq(Frame) /\ Innermost(ps) \in 1 .. Innermost(ps)
      BY <1>1, <2>1, <2>2
    <3>2. QED
      BY <2>4, <3>1, DepthSame
  <2>6. QED
    BY <2>3, <2>5 DEF Standing, ps
<1>3. ASSUME NEW e \in 1 .. Count(gs, OpenPcs) PROVE ExecFits(gs, es2, e)
  <2>1. e \in 1 .. Innermost(gs) /\ e \in 1 .. Innermost(gs) - 1
    BY <1>1
  <2>2. ExecFits(gs, es, e)
    BY DEF Under
  <2>3. QED
    BY <2>1, <2>2, DepthSame DEF ExecFits
<1>4. QED
  BY <1>2, <1>3 DEF Under

LEMMA FitsSame ==
  ASSUME NEW gs \in Seq(Frame), NEW es, NEW es2,
         \A e \in 1 .. Innermost(gs) : es2[e].scopes = es[e].scopes,
         Fits(gs, es)
  PROVE  Fits(gs, es2)
<1>1. Innermost(gs) \in Nat \ {0} /\ Innermost(gs) \in 1 .. Innermost(gs)
  BY InnermostType
<1>2. \A e \in 1 .. Innermost(gs) - 1 : es2[e].scopes = es[e].scopes
  BY <1>1
<1>3. Under(gs, es2)
  BY <1>2, UnderSame DEF Fits
<1>4. Depth(gs, es2, Innermost(gs)) = Depth(gs, es, Innermost(gs))
  BY <1>1, <1>2, DepthSame
<1>5. QED
  BY <1>1, <1>3, <1>4 DEF Fits, ExecFits

LEMMA UnderAppended ==
  ASSUME NEW gs \in Seq(Frame), NEW f \in Frame, NEW es \in Seq(Executors),
         Innermost(gs) - 1 <= Len(es)
  PROVE  /\ f.at \notin OpenPcs =>
              (Under(Append(gs, f), es) <=> Under(gs, es) /\ Standing(gs, es, f))
         /\ f.at \in OpenPcs =>
              (Under(Append(gs, f), es) <=> Fits(gs, es) /\ Standing(gs, es, f))
<1> DEFINE fs == Append(gs, f)
           n == Len(gs)
           m == Innermost(gs)
           AllStand(hs) == \A i \in DOMAIN hs : Standing(SubSeq(hs, 1, i - 1), es, hs[i])
<1>1. /\ n \in Nat /\ DOMAIN gs = 1 .. n /\ DOMAIN fs = 1 .. n + 1
      /\ fs[n + 1] = f /\ \A i \in 1 .. n : fs[i] = gs[i]
  BY Appended
<1>2. /\ \A i \in 1 .. n : SubSeq(fs, 1, i - 1) = SubSeq(gs, 1, i - 1)
      /\ SubSeq(fs, 1, (n + 1) - 1) = gs
  <2>1. (n + 1) - 1 = n
    BY <1>1
  <2>2. /\ \A i \in 1 .. n : SubSeq(fs, 1, i - 1) = SubSeq(gs, 1, i - 1)
        /\ SubSeq(fs, 1, n) = gs
    BY AppendedPrefixes
  <2> HIDE DEF fs, n
  <2>3. QED
    BY <2>1, <2>2
<1>3. AllStand(fs) <=> AllStand(gs) /\ Standing(gs, es, f)
  <2>1. \A i : i \in 1 .. n + 1 <=> i \in 1 .. n \/ i = n + 1
    BY <1>1
  <2> HIDE DEF fs, n
  <2>2. AllStand(fs) <=> \A i \in 1 .. n + 1 : Standing(SubSeq(fs, 1, i - 1), es, fs[i])
    BY <1>1
  <2>3. AllStand(gs) <=> \A i \in 1 .. n : Standing(SubSeq(gs, 1, i - 1), es, gs[i])
    BY <1>1
  <2> HIDE DEF AllStand
  <2>4. QED
    BY <1>1, <1>2, <2>1, <2>2, <2>3
<1>4. /\ m \in Nat \ {0} /\ Count(gs, OpenPcs) = m - 1
      /\ Count(fs, OpenPcs) = m - 1 + One(f.at \in OpenPcs)
  <2>1. m \in Nat \ {0} /\ Count(gs, OpenPcs) = m - 1
    BY InnermostType
  <2>2. Innermost(fs) = m + One(f.at \in OpenPcs) /\ Count(fs, OpenPcs) = Innermost(fs) - 1
    BY Appended, InnermostType, OwnersAppended
  <2>3. One(f.at \in OpenPcs) \in Nat
    BY DEF One
  <2>4. QED
    BY <2>1, <2>2, <2>3
<1>5. ASSUME NEW e \in 1 .. m - 1 PROVE ExecFits(fs, es, e) <=> ExecFits(gs, es, e)
  <2>1. e \in 1 .. m /\ e # m
    BY <1>4
  <2>2. Depth(fs, es, e) = Depth(gs, es, e) + 0 /\ Depth(gs, es, e) \in Nat
    BY <2>1, DepthAppended, DepthType DEF One
  <2>3. Pending(fs, e) = Pending(gs, e)
    BY <2>1, PendingAppended
  <2>4. QED
    BY <2>2, <2>3 DEF ExecFits
<1>6. CASE f.at \notin OpenPcs
  <2>1. Count(fs, OpenPcs) = m - 1
    BY <1>4, <1>6 DEF One
  <2> HIDE DEF AllStand, fs, m
  <2>2. Under(fs, es) <=> AllStand(fs) /\ \A e \in 1 .. m - 1 : ExecFits(fs, es, e)
    BY <2>1 DEF Under, AllStand
  <2>3. Under(gs, es) <=> AllStand(gs) /\ \A e \in 1 .. m - 1 : ExecFits(gs, es, e)
    BY <1>4 DEF Under, AllStand
  <2>4. QED
    BY <1>3, <1>5, <1>6, <2>2, <2>3 DEF fs
<1>7. CASE f.at \in OpenPcs
  <2>1. Count(fs, OpenPcs) = m
    BY <1>4, <1>7 DEF One
  <2>2. ExecFits(fs, es, m) <=> ExecFits(gs, es, m)
    <3>1. f.kind \in {"Unary", "Access"} /\ ~HoldsScope(f) /\ ~Declares(f)
      BY <1>7 DEF Frame, Positions, TakesValue, Controls, LoopKinds, OpenPcs, CallPcs,
                  HoldsScope, Declares, Pos
    <3>2. m \in 1 .. m
      BY <1>4
    <3>3. Depth(fs, es, m) = Depth(gs, es, m) + 0 /\ Depth(gs, es, m) \in Nat
      BY <3>1, <3>2, DepthAppended, DepthType DEF One
    <3>4. Pending(fs, m) = Pending(gs, m)
      <4>1. Pending(fs, m) = Pending(gs, m) \cup {}
        BY <3>1, PendingAppended
      <4>2. QED
        BY <4>1
    <3>5. QED
      BY <3>3, <3>4 DEF ExecFits
  <2>3. \A e : e \in 1 .. m <=> e \in 1 .. m - 1 \/ e = m
    BY <1>4
  <2> HIDE DEF AllStand, fs
  <2>4. Under(fs, es) <=> AllStand(fs) /\ \A e \in 1 .. m : ExecFits(fs, es, e)
    BY <2>1 DEF Under, AllStand
  <2>5. Fits(gs, es) <=> /\ AllStand(gs) /\ \A e \in 1 .. m - 1 : ExecFits(gs, es, e)
                         /\ ExecFits(gs, es, m)
    BY <1>4 DEF Under, Fits, AllStand
  <2> HIDE DEF m
  <2>6. QED
    BY <1>3, <1>5, <1>7, <2>2, <2>3, <2>4, <2>5 DEF fs
<1>8. QED
  BY <1>6, <1>7

Waits(f) == IF Declares(f) THEN {f.name} ELSE {}

LEMMA FitsAppended ==
  ASSUME NEW gs \in Seq(Frame), NEW f \in Frame, f.at \notin OpenPcs, NEW es \in Seq(Executors),
         NEW m, m = Innermost(gs), m <= Len(es)
  PROVE  Fits(Append(gs, f), es) <=>
           /\ Under(gs, es) /\ Standing(gs, es, f)
           /\ Len(es[m].scopes) = Depth(gs, es, m) + One(HoldsScope(f))
           /\ es[m].scopes # <<>>
           /\ (Pending(gs, m) \cup Waits(f)) \cap Last(es[m].scopes) = {}
<1>1. m \in Nat \ {0} /\ m \in 1 .. m
  BY InnermostType
<1>2. m - 1 <= Len(es)
  BY <1>1, LenProperties
<1>3. Innermost(Append(gs, f)) = m
  BY <1>1, OwnersAppended DEF One
<1>4. Depth(Append(gs, f), es, m) = Depth(gs, es, m) + One(HoldsScope(f))
  BY <1>1, <1>2, DepthAppended DEF One
<1>5. Pending(Append(gs, f), m) = Pending(gs, m) \cup Waits(f)
  BY PendingAppended DEF Waits
<1>6. Under(Append(gs, f), es) <=> Under(gs, es) /\ Standing(gs, es, f)
  BY <1>2, UnderAppended
<1>7. QED
  BY <1>3, <1>4, <1>5, <1>6 DEF Fits, ExecFits

LEMMA FitsOpened ==
  ASSUME NEW gs \in Seq(Frame), NEW f \in Frame, f.at \in OpenPcs, NEW es \in Seq(Executors),
         NEW m, m = Innermost(gs), m <= Len(es)
  PROVE  /\ Innermost(Append(gs, f)) = m + 1
         /\ Fits(Append(gs, f), es) <=>
              /\ Fits(gs, es) /\ Standing(gs, es, f)
              /\ Len(es[m + 1].scopes) = IF f.at = "arg" THEN Len(es[m].scopes) ELSE 2
              /\ es[m + 1].scopes # <<>>
<1>1. m \in Nat \ {0} /\ m \in 1 .. Len(es)
  BY InnermostType, LenProperties
<1>2. m - 1 <= Len(es)
  BY <1>1, LenProperties
<1>3. Innermost(Append(gs, f)) = m + 1
  BY OwnersAppended DEF One
<1>4. Len(es[m].scopes) \in Nat
  BY <1>1, ElementOfSeq, LenProperties DEF Executors, Chains
<1>5. /\ Depth(Append(gs, f), es, m + 1) = IF f.at = "arg" THEN Len(es[m].scopes) ELSE 2
      /\ Pending(Append(gs, f), m + 1) = {}
  BY <1>4, DepthOpened DEF Depth
<1>6. Under(Append(gs, f), es) <=> Fits(gs, es) /\ Standing(gs, es, f)
  BY <1>2, UnderAppended
<1>7. QED
  BY <1>3, <1>5, <1>6 DEF Fits, ExecFits

LEMMA DepthPositive ==
  ASSUME NEW gs \in Seq(Frame), NEW es \in Seq(Executors), NEW m, m = Innermost(gs),
         m - 1 <= Len(es), Under(gs, es)
  PROVE  Depth(gs, es, m) \in Nat \ {0}
<1>1. m \in Nat \ {0} /\ m \in 1 .. m /\ Count(gs, OpenPcs) = m - 1
  BY InnermostType
<1>2. Depth(gs, es, m) \in Nat /\ Base(gs, es, m) \in Nat /\ Held(gs, m) \in Nat
  <2>1. gs \in Seq(Frame)
    OBVIOUS
  <2>2. PICK f \in Frame : TRUE
    BY NoChain, NewFrameType DEF Kinds
  <2>3. QED
    BY <1>1, <2>2, DepthType, HeldAppended
<1>3. Base(gs, es, m) # 0
  <2>1. CASE m = 1 \/ ~ArgumentIn(gs, m)
    BY <2>1 DEF Base
  <2>2. CASE m # 1 /\ ArgumentIn(gs, m)
    <3>1. m - 1 \in 1 .. Count(gs, OpenPcs) /\ m - 1 \in 1 .. Len(es)
      BY <1>1, <2>2, LenProperties
    <3>2. ExecFits(gs, es, m - 1) /\ es[m - 1] \in Executors
      BY <3>1, ElementOfSeq DEF Under
    <3>3. es[m - 1].scopes # <<>> /\ es[m - 1].scopes \in Seq(SUBSET Names)
      BY <3>2 DEF ExecFits, Executors, Chains
    <3>4. Len(es[m - 1].scopes) # 0
      BY <3>3, EmptySeq
    <3>5. QED
      BY <2>2, <3>4 DEF Base
  <2>3. QED
    BY <2>1, <2>2
<1>4. QED
  BY <1>2, <1>3 DEF Depth

-----------------------------------------------------------------------------
(* What visitors do with the activations and the scopes.                   *)

\* No declaration waits in the innermost executor.
Idle(gs) == Pending(gs, Innermost(gs)) = {}

\* An activation that has saved nothing and says nothing of its executor.
Plain(f) == /\ f.at \notin OpenPcs /\ ~Saves(f) /\ ~Declares(f)
            /\ f.kind = "For" => f.name = NoName

\* Executors es2 are es, but for the scopes of the innermost of m.
SameBelow(es, es2, m) ==
  /\ es2 \in Seq(Executors) /\ Len(es2) = Len(es)
  /\ \A e \in 1 .. m - 1 : es2[e].scopes = es[e].scopes

LEMMA OneFacts == One(TRUE) = 1 /\ One(FALSE) = 0 /\ \A b : One(b) \in {0, 1}
BY DEF One

\* The kinds of the activations that save, declare and open.
LEMMA FrameFacts ==
  ASSUME NEW f \in Frame
  PROVE  /\ Saves(f) => f.at \notin OpenPcs /\ ~Declares(f) /\ f.kind \notin ExpressionKinds
         /\ Declares(f) => f.at \notin OpenPcs /\ ~HoldsScope(f) /\ ~Saves(f) /\ f.kind = "Var"
         /\ f.at \in OpenPcs => f.kind \in {"Unary", "Access"} /\ ~Saves(f) /\ ~HoldsScope(f)
         /\ Plain(f) => ~HoldsScope(f)
<1>1. Pos(f) \in Positions /\ Pos(f)[1] = f.kind /\ Pos(f)[2] = f.at
  BY DEF Frame, Pos
<1>2. f.at \in OpenPcs => f.kind \in {"Unary", "Access"}
  BY <1>1 DEF Positions, TakesValue, Controls, LoopKinds, OpenPcs, CallPcs, Pos
<1>3. QED
  BY <1>1, <1>2 DEF Saves, Declares, HoldsScope, Plain, ExpressionKinds, OpenPcs, CallPcs, Pos

LEMMA PushedShape ==
  ASSUME NEW gs \in Seq(Frame), NEW f \in Frame, f.at \notin OpenPcs
  PROVE  /\ Append(gs, f) \in Seq(Frame) /\ Innermost(Append(gs, f)) = Innermost(gs)
         /\ Pending(Append(gs, f), Innermost(gs)) = Pending(gs, Innermost(gs)) \cup Waits(f)
<1>1. Innermost(gs) \in Nat
  BY InnermostType
<1>2. Innermost(Append(gs, f)) = Innermost(gs) + One(f.at \in OpenPcs)
  BY OwnersAppended
<1>3. Innermost(Append(gs, f)) = Innermost(gs)
  BY <1>1, <1>2 DEF One
<1>4. Append(gs, f) \in Seq(Frame)
  BY Appended
<1>5. Pending(Append(gs, f), Innermost(gs)) = Pending(gs, Innermost(gs)) \cup Waits(f)
  BY PendingAppended DEF Waits
<1>6. QED
  BY <1>3, <1>4, <1>5

LEMMA BelowTop ==
  ASSUME NEW gs \in Seq(Frame), NEW t \in Frame, t.at \notin OpenPcs, NEW es \in Seq(Executors),
         NEW m, m = Innermost(gs), Len(es) = m, Fits(Append(gs, t), es)
  PROVE  /\ m \in Nat \ {0} /\ Under(gs, es) /\ Standing(gs, es, t)
         /\ Len(es[m].scopes) = Depth(gs, es, m) + One(HoldsScope(t))
         /\ es[m].scopes # <<>>
         /\ (Pending(gs, m) \cup Waits(t)) \cap Last(es[m].scopes) = {}
         /\ Depth(gs, es, m) \in Nat \ {0}
<1>1. m \in Nat \ {0} /\ m <= Len(es) /\ m - 1 <= Len(es)
  BY InnermostType
<1>2. QED
  BY <1>1, FitsAppended, DepthPositive

LEMMA PopPlain ==
  ASSUME NEW gs \in Seq(Frame), NEW t \in Frame, t.at \notin OpenPcs, ~HoldsScope(t),
         NEW es \in Seq(Executors), Len(es) = Innermost(gs), Fits(Append(gs, t), es)
  PROVE  Fits(gs, es) /\ (t.kind \notin ExpressionKinds => Idle(gs))
<1> DEFINE m == Innermost(gs)
<1>1. /\ Under(gs, es) /\ Standing(gs, es, t)
      /\ Len(es[m].scopes) = Depth(gs, es, m) + One(HoldsScope(t))
      /\ es[m].scopes # <<>>
      /\ (Pending(gs, m) \cup Waits(t)) \cap Last(es[m].scopes) = {}
      /\ Depth(gs, es, m) \in Nat \ {0}
  BY BelowTop
<1>2. Len(es[m].scopes) = Depth(gs, es, m)
  BY <1>1 DEF One
<1>3. QED
  BY <1>1, <1>2 DEF Fits, ExecFits, Standing, Idle

LEMMA PopRestores ==
  ASSUME NEW gs \in Seq(Frame), NEW t \in Frame, Saves(t),
         NEW es \in Seq(Executors), NEW m, m = Innermost(gs), Len(es) = m, Fits(Append(gs, t), es),
         NEW es2, SameBelow(es, es2, m), es2[m].scopes = t.prev
  PROVE  Fits(gs, es2) /\ Idle(gs)
<1>1. t.at \notin OpenPcs /\ t.kind \notin ExpressionKinds
  BY FrameFacts
<1>2. /\ m \in Nat \ {0} /\ Under(gs, es) /\ Standing(gs, es, t)
      /\ Depth(gs, es, m) \in Nat \ {0}
  BY <1>1, BelowTop
<1>3. Under(gs, es2) /\ Depth(gs, es2, m) = Depth(gs, es, m)
  BY <1>2, UnderSame, DepthSame DEF SameBelow
<1>4. Len(t.prev) = Depth(gs, es, m) /\ Pending(gs, m) = {}
  BY <1>1, <1>2 DEF Standing, Saved
<1>5. t.prev # <<>>
  BY <1>2, <1>4, EmptySeq
<1>6. QED
  BY <1>3, <1>4, <1>5 DEF Fits, ExecFits, Idle

LEMMA PushPlain ==
  ASSUME NEW gs \in Seq(Frame), NEW f \in Frame, Plain(f), NEW es \in Seq(Executors),
         NEW m, m = Innermost(gs), Len(es) = m, Fits(gs, es),
         f.kind \notin ExpressionKinds => Idle(gs)
  PROVE  /\ Append(gs, f) \in Seq(Frame) /\ Innermost(Append(gs, f)) = m
         /\ Fits(Append(gs, f), es) /\ (Idle(gs) => Idle(Append(gs, f)))
<1>1. f.at \notin OpenPcs /\ ~HoldsScope(f) /\ ~Declares(f)
  BY FrameFacts DEF Plain
<1>2. m \in Nat \ {0} /\ m <= Len(es)
  BY InnermostType
<1>3. Append(gs, f) \in Seq(Frame) /\ Innermost(Append(gs, f)) = m
  BY <1>1, PushedShape
<1>4. Standing(gs, es, f)
  BY DEF Standing, Saved, Plain, Idle
<1>5. Pending(Append(gs, f), m) = Pending(gs, m)
  BY <1>1, PushedShape DEF Waits
<1>6. Depth(gs, es, m) \in Nat
  BY <1>2, DepthType
<1>7. Fits(Append(gs, f), es)
  <2>1. Under(gs, es) /\ ExecFits(gs, es, m)
    BY DEF Fits
  <2>2. Len(es[m].scopes) = Depth(gs, es, m) + One(HoldsScope(f))
    BY <1>1, <1>6, <2>1 DEF ExecFits, One
  <2>3. (Pending(gs, m) \cup Waits(f)) \cap Last(es[m].scopes) = {} /\ es[m].scopes # <<>>
    BY <1>1, <2>1 DEF ExecFits, Waits
  <2>4. QED
    BY <1>1, <1>2, <1>4, <2>1, <2>2, <2>3, FitsAppended
<1>8. QED
  BY <1>3, <1>5, <1>7 DEF Idle

LEMMA PushDeclares ==
  ASSUME NEW gs \in Seq(Frame), NEW f \in Frame, Declares(f), NEW es \in Seq(Executors),
         NEW m, m = Innermost(gs), Len(es) = m, Fits(gs, es), Idle(gs),
         f.name \notin Last(es[m].scopes)
  PROVE  /\ Append(gs, f) \in Seq(Frame) /\ Innermost(Append(gs, f)) = m
         /\ Fits(Append(gs, f), es)
<1>1. f.at \notin OpenPcs /\ ~HoldsScope(f) /\ ~Saves(f) /\ f.kind = "Var"
  BY FrameFacts
<1>2. m \in Nat \ {0} /\ m <= Len(es)
  BY InnermostType
<1>3. Append(gs, f) \in Seq(Frame) /\ Innermost(Append(gs, f)) = m
  BY <1>1, PushedShape
<1>4. Standing(gs, es, f)
  BY <1>1 DEF Standing, Saved, Idle
<1>5. Depth(gs, es, m) \in Nat
  BY <1>2, DepthType
<1>6. (Pending(gs, m) \cup Waits(f)) \cap Last(es[m].scopes) = {}
  BY DEF Idle, Waits
<1>7. Fits(Append(gs, f), es)
  <2>1. Under(gs, es) /\ ExecFits(gs, es, m)
    BY DEF Fits
  <2>2. Len(es[m].scopes) = Depth(gs, es, m) + One(HoldsScope(f)) /\ es[m].scopes # <<>>
    BY <1>1, <1>5, <2>1 DEF ExecFits, One
  <2>3. QED
    BY <1>1, <1>2, <1>4, <1>6, <2>1, <2>2, FitsAppended
<1>8. QED
  BY <1>3, <1>7

LEMMA PushSaves ==
  ASSUME NEW gs \in Seq(Frame), NEW f \in Frame, Saves(f), NEW es \in Seq(Executors),
         NEW m, m = Innermost(gs), Len(es) = m, Fits(gs, es), Idle(gs), f.prev = es[m].scopes,
         NEW es2, SameBelow(es, es2, m),
         Len(es2[m].scopes) = Len(es[m].scopes) + One(HoldsScope(f))
  PROVE  /\ Append(gs, f) \in Seq(Frame) /\ Innermost(Append(gs, f)) = m
         /\ Fits(Append(gs, f), es2) /\ Idle(Append(gs, f))
<1>1. f.at \notin OpenPcs /\ ~Declares(f)
  BY FrameFacts
<1>2. m \in Nat \ {0} /\ m <= Len(es2) /\ m - 1 <= Len(es)
  BY InnermostType DEF SameBelow
<1>3. Append(gs, f) \in Seq(Frame) /\ Innermost(Append(gs, f)) = m
  BY <1>1, PushedShape
<1>4. Under(gs, es2) /\ Depth(gs, es2, m) = Depth(gs, es, m)
  <2>1. \A e \in 1 .. Innermost(gs) - 1 : es2[e].scopes = es[e].scopes
    BY DEF SameBelow
  <2>2. Under(gs, es)
    BY DEF Fits
  <2>3. Under(gs, es2)
    BY <2>1, <2>2, UnderSame
  <2>4. m \in 1 .. Innermost(gs)
    BY <1>2
  <2>5. Depth(gs, es2, m) = Depth(gs, es, m)
    BY <2>1, <2>4, DepthSame
  <2>6. QED
    BY <2>3, <2>5
<1>5. Len(es[m].scopes) = Depth(gs, es, m) /\ Depth(gs, es, m) \in Nat \ {0}
  BY <1>2, DepthPositive DEF Fits, ExecFits
<1>6. Standing(gs, es2, f)
  BY <1>4, <1>5 DEF Standing, Saved, Idle
<1>7. Len(es2[m].scopes) # 0 /\ es2[m].scopes # <<>>
  BY <1>5, OneFacts, EmptySeq
<1>8. Fits(Append(gs, f), es2)
  <2>1. Pending(gs, m) \cup Waits(f) = {}
    BY <1>1 DEF Idle, Waits
  <2>2. QED
    BY <1>1, <1>2, <1>4, <1>5, <1>6, <1>7, <2>1, FitsAppended DEF SameBelow
<1>9. Idle(Append(gs, f))
  BY <1>1, <1>3, PushedShape DEF Idle, Waits
<1>10. QED
  BY <1>3, <1>8, <1>9

\* An activation goes on with what it has saved.
LEMMA Rejoins ==
  ASSUME NEW gs \in Seq(Frame), NEW t \in Frame, NEW g \in Frame, Saves(t), Saves(g),
         g.prev = t.prev, HoldsScope(g) <=> HoldsScope(t),
         NEW es \in Seq(Executors), NEW m, m = Innermost(gs), Len(es) = m, Fits(Append(gs, t), es)
  PROVE  /\ Append(gs, g) \in Seq(Frame) /\ Innermost(Append(gs, g)) = m
         /\ Fits(Append(gs, g), es) /\ Idle(Append(gs, g))
<1>1. /\ t.at \notin OpenPcs /\ ~Declares(t) /\ t.kind \notin ExpressionKinds
      /\ g.at \notin OpenPcs /\ ~Declares(g) /\ g.kind \notin ExpressionKinds
  BY FrameFacts
<1>2. /\ m \in Nat \ {0} /\ Under(gs, es) /\ Standing(gs, es, t)
      /\ Len(es[m].scopes) = Depth(gs, es, m) + One(HoldsScope(t))
      /\ es[m].scopes # <<>> /\ m <= Len(es)
  BY <1>1, BelowTop
<1>3. Pending(gs, m) = {} /\ Standing(gs, es, g)
  BY <1>1, <1>2 DEF Standing, Saved
<1>4. One(HoldsScope(g)) = One(HoldsScope(t))
  BY DEF One
<1>5. Pending(gs, m) \cup Waits(g) = {}
  BY <1>1, <1>3 DEF Waits
<1>6. Fits(Append(gs, g), es)
  BY <1>1, <1>2, <1>3, <1>4, <1>5, FitsAppended
<1>7. Append(gs, g) \in Seq(Frame) /\ Innermost(Append(gs, g)) = m
  BY <1>1, PushedShape
<1>8. QED
  BY <1>1, <1>3, <1>6, <1>7, PushedShape DEF Idle, Waits

\* The innermost scope gains a name.
LEMMA GainsName ==
  ASSUME NEW gs \in Seq(Frame), NEW es \in Seq(Executors), NEW m, m = Innermost(gs), Len(es) = m,
         Fits(gs, es), Idle(gs),
         NEW es2, SameBelow(es, es2, m), Len(es2[m].scopes) = Len(es[m].scopes)
  PROVE  Fits(gs, es2)
<1>1. m \in Nat \ {0} /\ m - 1 <= Len(es)
  BY InnermostType
<1>2. Under(gs, es2) /\ Depth(gs, es2, m) = Depth(gs, es, m)
  BY <1>1, UnderSame, DepthSame DEF SameBelow, Fits
<1>3. Len(es[m].scopes) = Depth(gs, es, m) /\ Depth(gs, es, m) \in Nat \ {0}
  BY <1>1, DepthPositive DEF Fits, ExecFits
<1>4. es2[m].scopes # <<>>
  BY <1>3, EmptySeq
<1>5. QED
  BY <1>2, <1>3, <1>4 DEF Fits, ExecFits, Idle

\* An executor is opened, ends, or goes on to run the body of a closure.
LEMMA PushOpens ==
  ASSUME NEW gs \in Seq(Frame), NEW f \in Frame, f.at \in OpenPcs, NEW es \in Seq(Executors),
         NEW m, m = Innermost(gs), Len(es) = m, Fits(gs, es),
         f.kind \notin ExpressionKinds => Idle(gs),
         NEW e \in Executors, Len(e.scopes) = IF f.at = "arg" THEN Len(es[m].scopes) ELSE 2
  PROVE  /\ Append(gs, f) \in Seq(Frame) /\ Innermost(Append(gs, f)) = m + 1
         /\ Append(es, e) \in Seq(Executors) /\ Len(Append(es, e)) = m + 1
         /\ Append(es, e)[m + 1] = e
         /\ Fits(Append(gs, f), Append(es, e)) /\ Idle(Append(gs, f))
<1> DEFINE es2 == Append(es, e)
<1>1. m \in Nat \ {0} /\ m \in 1 .. Len(es)
  BY InnermostType
<1>2. /\ es2 \in Seq(Executors) /\ Len(es2) = m + 1 /\ es2[m + 1] = e
      /\ \A i \in 1 .. m : es2[i] = es[i]
  BY <1>1, AppendProperties
<1> HIDE DEF es2
<1>3. Fits(gs, es2)
  BY <1>2, FitsSame
<1>4. Standing(gs, es2, f)
  BY FrameFacts DEF Standing, Saved, Idle
<1>5. Len(es[m].scopes) # 0
  <2>1. es[m].scopes \in Seq(SUBSET Names)
    <3>1. es[m] \in Executors
      BY <1>1, ElementOfSeq
    <3>2. QED
      BY <3>1 DEF Executors, Chains
  <2>2. QED
    BY <2>1, EmptySeq DEF Fits, ExecFits
<1>6. e.scopes # <<>>
  BY <1>5, EmptySeq
<1>7. /\ Innermost(Append(gs, f)) = m + 1
      /\ Fits(Append(gs, f), es2)
  <2>1. es2[m] = es[m] /\ m <= Len(es2)
    BY <1>1, <1>2
  <2>2. QED
    BY <1>2, <1>3, <1>4, <1>6, <2>1, FitsOpened
<1>8. Idle(Append(gs, f))
  BY <1>7, DepthOpened DEF Idle
<1>9. QED
  BY <1>2, <1>7, <1>8, Appended DEF es2

LEMMA PopCloses ==
  ASSUME NEW gs \in Seq(Frame), NEW t \in Frame, t.at \in OpenPcs, NEW es \in Seq(Executors),
         NEW m, m = Innermost(gs), Len(es) = m + 1, Fits(Append(gs, t), es)
  PROVE  /\ Front(es) \in Seq(Executors) /\ Len(Front(es)) = m
         /\ Fits(gs, Front(es)) /\ (t.kind \notin ExpressionKinds => Idle(gs))
<1>1. m \in Nat \ {0} /\ m <= Len(es) /\ es # <<>>
  BY InnermostType, EmptySeq
<1>2. Fits(gs, es) /\ Standing(gs, es, t)
  BY <1>1, FitsOpened
<1>3. /\ Front(es) \in Seq(Executors) /\ Len(Front(es)) = m
      /\ \A i \in 1 .. m : Front(es)[i] = es[i]
  <2>1. /\ Front(es) \in Seq(Executors) /\ Len(Front(es)) = Len(es) - 1
        /\ \A i \in 1 .. Len(es) - 1 : Front(es)[i] = es[i]
    BY <1>1, FrontLast
  <2>2. Len(es) - 1 = m
    BY <1>1
  <2>3. QED
    BY <2>1, <2>2
<1>4. Fits(gs, Front(es))
  BY <1>2, <1>3, FitsSame
<1>5. QED
  BY <1>2, <1>3, <1>4 DEF Standing, Idle

LEMMA OpensSwitch ==
  ASSUME NEW gs \in Seq(Frame), NEW t \in Frame, NEW g \in Frame, g.kind = t.kind,
         t.at \in CallPcs, g.at \in CallPcs,
         NEW es \in Seq(Executors), Len(es) = Innermost(gs) + 1, Fits(Append(gs, t), es)
  PROVE  /\ Append(gs, g) \in Seq(Frame) /\ Innermost(Append(gs, g)) = Len(es)
         /\ Fits(Append(gs, g), es)
<1>1. /\ Innermost(gs) \in Nat \ {0} /\ Innermost(gs) <= Len(es)
      /\ t.at # "arg" /\ g.at # "arg" /\ t.at \in OpenPcs /\ g.at \in OpenPcs
  BY InnermostType DEF CallPcs, OpenPcs
<1>2. Fits(gs, es) /\ Standing(gs, es, t)
  BY <1>1, FitsOpened
<1>3. Standing(gs, es, g)
  BY <1>1, <1>2, FrameFacts DEF Standing, Saved
<1>4. QED
  BY <1>1, <1>2, <1>3, FitsOpened, Appended

-----------------------------------------------------------------------------
(* The activations and executors of a state.                               *)

\* Executors with the same scopes.
SameScopes(es) ==
  /\ es \in Seq(Executors) /\ Len(es) = Len(execs)
  /\ \A e \in 1 .. Len(execs) : es[e].scopes = execs[e].scopes

LEMMA InnermostNow ==
  ASSUME IInv, NEW m, m = Len(execs)
  PROVE  /\ execs \in Seq(Executors) /\ execs # <<>>
         /\ m \in Nat \ {0} /\ Innermost(frames) = m /\ Exec = execs[m]
         /\ frames # <<>> =>
              /\ Top.at \notin OpenPcs => Innermost(Leave) = m
              /\ Top.at \in OpenPcs => Innermost(Leave) + 1 = m
<1>1. execs \in Seq(Executors) /\ execs # <<>> /\ m \in Nat \ {0}
  BY ExecsNonEmpty
<1>2. Innermost(frames) = m
  BY DEF IInv, ExecutorsMatch, Innermost
<1>3. ASSUME frames # <<>>
      PROVE  /\ Top.at \notin OpenPcs => Innermost(Leave) = m
             /\ Top.at \in OpenPcs => Innermost(Leave) + 1 = m
  <2>1. Leave \in Seq(Frame) /\ Top \in Frame /\ frames = Append(Leave, Top)
    BY <1>3, TopAndBelow
  <2>2. Innermost(frames) = Innermost(Leave) + One(Top.at \in OpenPcs)
    BY <2>1, OwnersAppended
  <2>3. Innermost(Leave) \in Nat
    BY <2>1, InnermostType
  <2>4. QED
    BY <1>2, <2>2, <2>3 DEF One
<1>4. QED
  BY <1>1, <1>2, <1>3 DEF Exec, Last

LEMMA SetExecFacts ==
  ASSUME IInv, NEW e \in Executors, NEW m, m = Len(execs)
  PROVE  /\ SameBelow(execs, SetExec(e), m) /\ SetExec(e)[m] = e /\ Last(SetExec(e)) = e
         /\ e.scopes = Exec.scopes => SameScopes(SetExec(e))
<1>1. execs \in Seq(Executors) /\ m \in Nat \ {0} /\ Exec = execs[m] /\ m \in 1 .. Len(execs)
  BY InnermostNow
<1>2. /\ SetExec(e) \in Seq(Executors) /\ Len(SetExec(e)) = m
      /\ \A j \in 1 .. m : SetExec(e)[j] = IF j = m THEN e ELSE execs[j]
  BY <1>1, ExceptSeq DEF SetExec
<1>3. SetExec(e)[m] = e /\ \A j \in 1 .. m - 1 : SetExec(e)[j] = execs[j]
  BY <1>1, <1>2
<1>4. \A j \in 1 .. m : e.scopes = Exec.scopes => SetExec(e)[j].scopes = execs[j].scopes
  BY <1>1, <1>2
<1>5. QED
  BY <1>1, <1>2, <1>3, <1>4 DEF SameBelow, SameScopes, Last

LEMMA HasValueFacts ==
  ASSUME IInv, NEW b \in BOOLEAN
  PROVE  SameScopes(HasValue(b)) /\ Last(HasValue(b)).value = b
<1> DEFINE e == [Exec EXCEPT !.value = b]
<1>1. e \in Executors /\ e.scopes = Exec.scopes /\ e.value = b
  BY ExecsNonEmpty DEF Executors
<1>2. QED
  BY <1>1, SetExecFacts DEF HasValue

LEMMA NewExecFacts ==
  ASSUME NEW chain \in Chains
  PROVE  NewExec(chain) \in Executors /\ NewExec(chain).scopes = chain
BY DEF NewExec, Executors

LEMMA SameScopesNow == IInv => SameScopes(execs)
BY ExecsNonEmpty DEF SameScopes

LEMMA SameScopesFit ==
  ASSUME IInv, NEW gs \in Seq(Frame), NEW es, SameScopes(es), Innermost(gs) <= Len(execs),
         Fits(gs, execs)
  PROVE  Fits(gs, es)
BY InnermostType, ExecsNonEmpty, FitsSame DEF SameScopes

\* The chain of the executor, with one scope more.
LEMMA ScopesGrow ==
  ASSUME IInv, NEW S \in SUBSET Names
  PROVE  /\ Exec.scopes \in Chains /\ Append(Exec.scopes, S) \in Chains
         /\ Len(Append(Exec.scopes, S)) = Len(Exec.scopes) + 1
<1>1. Exec.scopes \in Seq(SUBSET Names)
  BY ExecsNonEmpty DEF Executors, Chains
<1>2. QED
  BY <1>1, AppendProperties DEF Chains

\* What a visitor on top that has saved nothing may rely on.
LEMMA TopPlain ==
  ASSUME IInv, Fits(frames, execs), frames # <<>>, Top.at \notin OpenPcs, ~Saves(Top)
  PROVE  /\ ~HoldsScope(Top) /\ (Top.kind = "For" => Top.name = NoName)
         /\ Fits(Leave, execs) /\ (Top.kind \notin ExpressionKinds => Idle(Leave))
         /\ Leave \in Seq(Frame) /\ Innermost(Leave) = Len(execs)
<1>1. /\ Leave \in Seq(Frame) /\ Top \in Frame /\ frames = Append(Leave, Top)
      /\ Innermost(Leave) = Len(execs) /\ execs \in Seq(Executors)
  BY TopAndBelow, InnermostNow
<1>2. Standing(Leave, execs, Top)
  BY <1>1, BelowTop
<1>3. Top.kind = "For" => Top.name = NoName
  BY <1>2 DEF Standing, Saved
<1>4. ~HoldsScope(Top)
  BY <1>3 DEF HoldsScope, Saves
<1>5. QED
  BY <1>1, <1>3, <1>4, PopPlain

LEMMA TopIdle ==
  ASSUME IInv, Fits(frames, execs), frames # <<>>, Top.at \notin OpenPcs, ~Declares(Top),
         Top.kind \notin ExpressionKinds
  PROVE  Idle(frames)
<1>1. /\ Leave \in Seq(Frame) /\ Top \in Frame /\ frames = Append(Leave, Top)
      /\ Innermost(Leave) = Len(execs) /\ execs \in Seq(Executors)
  BY TopAndBelow, InnermostNow
<1>2. Standing(Leave, execs, Top)
  BY <1>1, BelowTop
<1>3. QED
  BY <1>1, <1>2, PushedShape DEF Standing, Idle, Waits

-----------------------------------------------------------------------------
(* Going on.                                                               *)

\* The activation on top is at pc.
LEMMA GotoIs ==
  ASSUME IInv, frames # <<>>, NEW pc, <<Top.kind, pc>> \in Positions, pc # "init"
  PROVE  \E g \in Frame : /\ g.kind = Top.kind /\ g.at = pc /\ g.prev = Top.prev
                          /\ g.name = Top.name /\ Goto(pc) = Append(Leave, g)
<1>1. PICK g \in Frame : g = [Top EXCEPT !.at = pc]
  BY TopFrame, FrameAt DEF NoName
<1>2. g.kind = Top.kind /\ g.at = pc /\ g.prev = Top.prev /\ g.name = Top.name
  BY <1>1, TopFrame DEF Frame
<1>3. Goto(pc) = [frames EXCEPT ![Len(frames)] = g]
  BY <1>1, TopFrame DEF Goto
<1>4. Goto(pc) = Append(Leave, g)
  BY <1>3, TopFrame, SetLast DEF Leave
<1>5. QED
  BY <1>2, <1>4

\* An activation that has saved nothing goes on so.
LEMMA GotoPlain ==
  ASSUME IInv, Fits(frames, execs), frames # <<>>, Top.at \notin OpenPcs, ~Saves(Top),
         NEW pc, <<Top.kind, pc>> \in Positions, pc \notin OpenPcs \cup {"init", "then"},
         Top.kind = "For" => pc \notin {"iter", "body"},
         NEW es, SameScopes(es)
  PROVE  /\ Goto(pc) \in Seq(Frame) /\ Goto(pc) # <<>>
         /\ Last(Goto(pc)).kind = Top.kind /\ Last(Goto(pc)).at = pc
         /\ es \in Seq(Executors) /\ Innermost(Goto(pc)) = Len(es)
         /\ Fits(Goto(pc), es) /\ (Top.kind \notin ExpressionKinds => Idle(Goto(pc)))
<1>1. PICK g \in Frame : /\ g.kind = Top.kind /\ g.at = pc /\ g.prev = Top.prev
                         /\ g.name = Top.name /\ Goto(pc) = Append(Leave, g)
  BY GotoIs
<1>2. /\ Top.kind = "For" => Top.name = NoName
      /\ Fits(Leave, execs) /\ (Top.kind \notin ExpressionKinds => Idle(Leave))
      /\ Leave \in Seq(Frame) /\ Innermost(Leave) = Len(execs)
  BY TopPlain
<1>3. Plain(g)
  BY <1>1, <1>2 DEF Plain, Saves, Declares, Pos
<1>4. es \in Seq(Executors) /\ Len(es) = Len(execs)
  BY DEF SameScopes
<1>5. Len(execs) \in Nat
  BY InnermostNow
<1>6. Fits(Leave, es)
  BY <1>2, <1>5, SameScopesFit
<1>7. /\ Append(Leave, g) \in Seq(Frame) /\ Innermost(Append(Leave, g)) = Len(es)
      /\ Fits(Append(Leave, g), es) /\ (Idle(Leave) => Idle(Append(Leave, g)))
  BY <1>1, <1>2, <1>3, <1>4, <1>6, PushPlain
<1>8. Append(Leave, g) # <<>> /\ Last(Append(Leave, g)) = g
  BY <1>2, Appended
<1>9. QED
  BY <1>1, <1>2, <1>4, <1>7, <1>8

\* A cycle over a range goes on with its scopes.
LEMMA GotoFor ==
  ASSUME IInv, Fits(frames, execs), frames # <<>>, Top.kind = "For", Top.at \in {"iter", "body"},
         NEW pc \in {"iter", "body"}, NEW es, SameScopes(es)
  PROVE  /\ Goto(pc) \in Seq(Frame) /\ Goto(pc) # <<>>
         /\ Last(Goto(pc)).kind = "For" /\ Last(Goto(pc)).at = pc
         /\ es \in Seq(Executors) /\ Innermost(Goto(pc)) = Len(es)
         /\ Fits(Goto(pc), es) /\ Idle(Goto(pc))
<1>1. <<Top.kind, pc>> \in Positions /\ Top.at \notin OpenPcs /\ pc # "init"
  BY DEF Positions, Controls, LoopKinds, OpenPcs, CallPcs
<1>2. PICK g \in Frame : /\ g.kind = Top.kind /\ g.at = pc /\ g.prev = Top.prev
                         /\ g.name = Top.name /\ Goto(pc) = Append(Leave, g)
  BY <1>1, GotoIs
<1>3. /\ Leave \in Seq(Frame) /\ Top \in Frame /\ frames = Append(Leave, Top)
      /\ Innermost(Leave) = Len(execs) /\ execs \in Seq(Executors)
  BY <1>1, TopAndBelow, InnermostNow
<1>4. Saves(Top) /\ Saves(g) /\ (HoldsScope(g) <=> HoldsScope(Top))
  BY <1>2 DEF Saves, HoldsScope, Pos
<1>5. /\ Append(Leave, g) \in Seq(Frame) /\ Innermost(Append(Leave, g)) = Len(execs)
      /\ Fits(Append(Leave, g), execs) /\ Idle(Append(Leave, g))
  BY <1>2, <1>3, <1>4, Rejoins
<1>6. Fits(Append(Leave, g), es)
  <2>1. Len(execs) \in Nat
    BY InnermostNow
  <2> DEFINE gs == Append(Leave, g)
  <2>2. gs \in Seq(Frame) /\ Innermost(gs) <= Len(execs) /\ Fits(gs, execs)
    BY <1>5, <2>1
  <2> HIDE DEF gs
  <2>3. Fits(gs, es)
    BY <2>2, SameScopesFit
  <2>4. QED
    BY <2>3 DEF gs
<1>7. Append(Leave, g) # <<>> /\ Last(Append(Leave, g)) = g
  BY <1>3, Appended
<1>8. QED
  BY <1>2, <1>5, <1>6, <1>7 DEF SameScopes

-----------------------------------------------------------------------------
(* Every way to visit, to go on and to return keeps the invariant.         *)

\* A value is there for the activation on top, or nothing asks for one.
LEMMA NothingTaken ==
  ASSUME NEW f, Pos(f) \notin TakesValue, f.at \notin {"arg", "short"}
  PROVE  ~Takes(f)
BY DEF Takes

LEMMA FreshFacts ==
  ASSUME NEW k \in Kinds \ {"Body"}
  PROVE  /\ NewFrame(k, <<>>) \in Frame /\ NewFrame(k, <<>>).kind = k
         /\ Plain(NewFrame(k, <<>>)) /\ ~Takes(NewFrame(k, <<>>))
<1> DEFINE f == NewFrame(k, <<>>)
<1>1. f \in Frame /\ f.at \notin OpenPcs /\ f.kind = k /\ f.at = FirstPc(k) /\ f.name = NoName
  BY NoChain, NewFrameType DEF NewFrame
<1>2. /\ FirstPc(k) \in {"next", "iter", "ops", "start"}
      /\ FirstPc(k) = "iter" => k = "Loop"
  BY DEF FirstPc, Kinds
<1>3. ~Takes(f)
  BY <1>1, <1>2 DEF Takes, TakesValue, Pos
<1>4. QED
  BY <1>1, <1>2, <1>3 DEF Plain, Saves, Declares, Pos

LEMMA ExpressionFits ==
  ASSUME NEW fs \in Seq(Frame), NEW es \in Seq(Executors), es # <<>>, Len(es) = Innermost(fs),
         Fits(fs, es), VisitExpression(fs, es)
  PROVE  SInv'
<1> DEFINE n == Len(es)
           es2 == [es EXCEPT ![n].value = TRUE]
<1>1. n \in Nat \ {0} /\ n \in 1 .. n /\ es[n] \in Executors
  BY FrontLast, ElementOfSeq
<1>2. CASE frames' = fs /\ execs' = es2
  <2>1. [es[n] EXCEPT !.value = TRUE] \in Executors
    BY <1>1 DEF Executors
  <2>2. es2 = [es EXCEPT ![n] = [es[n] EXCEPT !.value = TRUE]]
    BY <1>1
  <2>3. /\ es2 \in Seq(Executors) /\ Len(es2) = n
        /\ \A j \in 1 .. n : es2[j] = IF j = n THEN [es[n] EXCEPT !.value = TRUE] ELSE es[j]
    BY <1>1, <2>1, <2>2, ExceptSeq
  <2>4. [es[n] EXCEPT !.value = TRUE].scopes = es[n].scopes /\ [es[n] EXCEPT !.value = TRUE].value
    BY <1>1 DEF Executors
  <2> HIDE DEF es2
  <2>5. \A e \in 1 .. Innermost(fs) : es2[e].scopes = es[e].scopes
    BY <2>3, <2>4
  <2>6. Fits(fs, es2)
    BY <2>5, FitsSame
  <2>7. Last(es2).value
    BY <1>1, <2>3, <2>4 DEF Last
  <2>8. QED
    BY <1>2, <2>6, <2>7 DEF SInv, HasWhatItTakes, Exec
<1>3. CASE frames' = fs /\ execs' = es /\ SetThrowingState
  BY <1>3 DEF SInv, HasWhatItTakes, SetThrowingState
<1>4. ASSUME NEW k \in ExpressionKinds, frames' = Append(fs, NewFrame(k, <<>>)), execs' = es
      PROVE  SInv'
  <2> DEFINE f == NewFrame(k, <<>>)
  <2>1. f \in Frame /\ f.kind = k /\ Plain(f) /\ ~Takes(f)
    BY FreshFacts DEF Kinds, ExpressionKinds
  <2> HIDE DEF f
  <2>2. Fits(Append(fs, f), es)
    BY <2>1, PushPlain
  <2>3. Last(Append(fs, f)) = f
    BY <2>1, Appended
  <2>4. QED
    BY <1>4, <2>1, <2>2, <2>3 DEF SInv, HasWhatItTakes, Top, f
<1>5. QED
  BY <1>2, <1>3, <1>4 DEF VisitExpression

LEMMA StatementFits ==
  ASSUME NEW fs \in Seq(Frame), NEW es \in Seq(Executors), Len(es) = Innermost(fs),
         Fits(fs, es), Idle(fs), VisitStatement(fs, es)
  PROVE  SInv'
<1>1. CASE frames' = fs /\ execs' = es /\ state' \in {"Exiting", "Returning"}
  BY <1>1 DEF SInv, HasWhatItTakes
<1>2. ASSUME NEW k \in StatementKinds, frames' = Append(fs, NewFrame(k, <<>>)), execs' = es
      PROVE  SInv'
  <2> DEFINE f == NewFrame(k, <<>>)
  <2>1. f \in Frame /\ f.kind = k /\ Plain(f) /\ ~Takes(f)
    BY FreshFacts DEF Kinds, StatementKinds, LoopKinds
  <2> HIDE DEF f
  <2>2. Fits(Append(fs, f), es)
    BY <2>1, PushPlain
  <2>3. Last(Append(fs, f)) = f
    BY <2>1, Appended
  <2>4. QED
    BY <1>2, <2>1, <2>2, <2>3 DEF SInv, HasWhatItTakes, Top, f
<1>3. QED
  BY <1>1, <1>2 DEF VisitStatement

\* A Body above fs: it has saved the scopes, and has one of its own.
LEMMA BodyFits ==
  ASSUME NEW fs \in Seq(Frame), NEW es \in Seq(Executors), NEW m, m = Innermost(fs), Len(es) = m,
         Fits(fs, es), Idle(fs),
         NEW es2, SameBelow(es, es2, m), Len(es2[m].scopes) = Len(es[m].scopes) + 1,
         es[m].scopes \in Chains,
         frames' = Append(fs, NewFrame("Body", es[m].scopes)), execs' = es2
  PROVE  SInv'
<1> DEFINE f == NewFrame("Body", es[m].scopes)
<1>1. f \in Frame /\ f.kind = "Body" /\ f.prev = es[m].scopes /\ f.at = "run"
  BY NewFrameType DEF NewFrame, Kinds, FirstPc
<1> HIDE DEF f
<1>2. Saves(f) /\ HoldsScope(f) /\ ~Takes(f)
  BY <1>1 DEF Saves, HoldsScope, Takes, TakesValue, Pos
<1>3. Len(es2[m].scopes) = Len(es[m].scopes) + One(HoldsScope(f))
  BY <1>2 DEF One
<1>4. Fits(Append(fs, f), es2)
  BY <1>1, <1>2, <1>3, PushSaves
<1>5. Last(Append(fs, f)) = f
  BY <1>1, Appended
<1>6. QED
  BY <1>2, <1>4, <1>5 DEF SInv, HasWhatItTakes, Top, f

LEMMA EnterBodyFits ==
  ASSUME IInv, NEW pc, Goto(pc) \in Seq(Frame), Innermost(Goto(pc)) = Len(execs),
         Fits(Goto(pc), execs), Idle(Goto(pc)), EnterBody(pc)
  PROVE  SInv'
<1> DEFINE e == NewExec(Append(Exec.scopes, {}))
           m == Len(execs)
<1>1. /\ Exec.scopes \in Chains /\ Append(Exec.scopes, {}) \in Chains
      /\ Len(Append(Exec.scopes, {})) = Len(Exec.scopes) + 1
  BY ScopesGrow
<1>2. e \in Executors /\ e.scopes = Append(Exec.scopes, {})
  BY <1>1, NewExecFacts
<1> HIDE DEF e
<1>3. SameBelow(execs, SetExec(e), m) /\ SetExec(e)[m] = e /\ Exec = execs[m]
  BY <1>2, SetExecFacts, InnermostNow
<1>4. frames' = Append(Goto(pc), NewFrame("Body", execs[m].scopes)) /\ execs' = SetExec(e)
  BY <1>3 DEF EnterBody, e
<1>5. QED
  BY <1>1, <1>2, <1>3, <1>4, InnermostNow, BodyFits

LEMMA EvaluateFits ==
  ASSUME IInv, SInv, frames # <<>>, Top.at \notin OpenPcs, ~Saves(Top),
         NEW pc, <<Top.kind, pc>> \in TakesValue \cup {<<"ExprStmt", "expr">>}, pc # "init",
         Evaluate(pc)
  PROVE  SInv'
<1>1. /\ <<Top.kind, pc>> \in Positions /\ pc \notin OpenPcs \cup {"then", "iter", "body"}
  BY DEF Positions, TakesValue, OpenPcs, CallPcs
<1>2. SameScopes(HasValue(FALSE))
  BY HasValueFacts
<1> DEFINE es == HasValue(FALSE)
<1>3. es \in Seq(Executors) /\ es # <<>>
  BY SameHasValue DEF SameExecs
<1> HIDE DEF es
<1>4. Goto(pc) \in Seq(Frame) /\ Innermost(Goto(pc)) = Len(es) /\ Fits(Goto(pc), es)
  BY <1>1, <1>2, GotoPlain DEF SInv, es
<1>5. VisitExpression(Goto(pc), es)
  BY DEF Evaluate, es
<1>6. QED
  BY <1>3, <1>4, <1>5, ExpressionFits

\* Going on to a point where no value is taken.
LEMMA ContinueFits ==
  ASSUME IInv, SInv, frames # <<>>, Top.at \notin OpenPcs, ~Saves(Top),
         NEW pc, <<Top.kind, pc>> \in Positions \ TakesValue,
         pc \notin OpenPcs \cup {"init", "then"}, Top.kind = "For" => pc \notin {"iter", "body"},
         frames' = Goto(pc), SameScopes(execs')
  PROVE  SInv'
<1>1. /\ Fits(Goto(pc), execs')
      /\ Last(Goto(pc)).kind = Top.kind /\ Last(Goto(pc)).at = pc
  BY GotoPlain DEF SInv
<1>2. ~Takes(Last(Goto(pc)))
  BY <1>1 DEF Takes, Pos, OpenPcs, CallPcs
<1>3. QED
  BY <1>1, <1>2 DEF SInv, HasWhatItTakes, Top

\* Returning: an expression leaves its value to the visitor below.
Supplies == state' # "Running" \/ Exec'.value \/ Top.kind \notin ExpressionKinds

LEMMA LeavingTakes ==
  ASSUME IInv, JInv, frames # <<>>, frames' = Leave, Supplies
  PROVE  HasWhatItTakes'
<1> SUFFICES ASSUME Leave # <<>>, Top.kind \notin ExpressionKinds PROVE ~Takes(Last(Leave))
  BY DEF HasWhatItTakes, Supplies, Top
<1>1. Pos(Last(Leave)) \in Below(Top.kind)
  BY GrammarBelow DEF JInv, Stands
<1>2. Top.kind \in {"Body", "Access"} \cup StatementKinds
  BY TopFrame DEF Kinds
<1>3. Below(Top.kind) \subseteq Controls \cup {<<"Unary", "long">>, <<"Body", "run">>, <<"Assign", "chain">>}
  BY <1>2 DEF Below, Controls, LoopKinds, StatementKinds
<1>4. QED
  BY <1>1, <1>3 DEF Takes, TakesValue, Controls, LoopKinds, Pos

LEMMA LeaveFits ==
  ASSUME IInv, JInv, SInv, frames # <<>>, Top.at \notin OpenPcs, ~Saves(Top),
         frames' = Leave, SameScopes(execs'), Supplies
  PROVE  SInv'
<1>1. Fits(Leave, execs) /\ Leave \in Seq(Frame) /\ Innermost(Leave) = Len(execs)
  BY TopPlain DEF SInv
<1>2. Len(execs) \in Nat
  BY InnermostNow
<1>3. Fits(Leave, execs')
  BY <1>1, <1>2, SameScopesFit
<1>4. QED
  BY <1>3, LeavingTakes DEF SInv

LEMMA ThrowFits ==
  ASSUME IInv, JInv, SInv, frames # <<>>, Top.at \notin OpenPcs, ~Saves(Top), ThrowAndLeave
  PROVE  SInv'
<1>1. frames' = Leave /\ execs' = HasValue(FALSE) /\ Supplies
  BY DEF ThrowAndLeave, SetThrowingState, Supplies
<1>2. QED
  BY <1>1, HasValueFacts, LeaveFits

LEMMA RestoredFacts ==
  ASSUME IInv, frames # <<>>, NEW m, m = Len(execs)
  PROVE  SameBelow(execs, RestoredScopes, m) /\ RestoredScopes[m].scopes = Top.prev
<1> DEFINE e == [Exec EXCEPT !.scopes = Top.prev]
<1>1. e \in Executors /\ e.scopes = Top.prev
  BY ExecsNonEmpty, TopFrame DEF Executors
<1>2. RestoredScopes = SetExec(e)
  BY InnermostNow DEF RestoredScopes, SetExec
<1> HIDE DEF e
<1>3. QED
  BY <1>1, <1>2, SetExecFacts

LEMMA RestoreFits ==
  ASSUME IInv, JInv, SInv, frames # <<>>, Saves(Top), frames' = Leave, execs' = RestoredScopes
  PROVE  SInv'
<1>1. Top \in Frame /\ Leave \in Seq(Frame) /\ frames = Append(Leave, Top)
  BY TopAndBelow
<1>2. Top.at \notin OpenPcs /\ Top.kind \notin ExpressionKinds
  BY <1>1, FrameFacts
<1>3. Innermost(Leave) = Len(execs) /\ execs \in Seq(Executors)
  BY <1>2, InnermostNow
<1>4. SameBelow(execs, RestoredScopes, Len(execs)) /\ RestoredScopes[Len(execs)].scopes = Top.prev
  BY RestoredFacts
<1>5. Fits(Leave, RestoredScopes)
  BY <1>1, <1>3, <1>4, PopRestores DEF SInv
<1>6. HasWhatItTakes'
  BY <1>2, LeavingTakes DEF Supplies
<1>7. QED
  BY <1>5, <1>6 DEF SInv

-----------------------------------------------------------------------------
(* Every action keeps it.                                                  *)

\* Where statements and expressions have saved nothing.
LEMMA PlainPlaces ==
  ASSUME NEW f
  PROVE  /\ Pos(f) \in TakesValue => f.at \notin OpenPcs /\ ~Saves(f)
         /\ f.kind # "Body" /\ f.at \in {"start", "next", "ops", "chain", "branch", "expr"}
              => f.at \notin OpenPcs /\ ~Saves(f) /\ ~Takes(f)
         /\ f.kind \in {"While", "Loop"} /\ f.at \in {"iter", "body"} => f.at \notin OpenPcs /\ ~Saves(f)
BY DEF Pos, TakesValue, OpenPcs, CallPcs, Saves, Takes

LEMMA TookPlain ==
  ASSUME NEW k, NEW pc, <<k, pc>> \in TakesValue, Took(k, pc)
  PROVE  /\ frames # <<>> /\ Top.kind = k /\ Top.at = pc /\ Exec.value
         /\ Top.at \notin OpenPcs /\ ~Saves(Top)
<1>1. frames # <<>> /\ Top.kind = k /\ Top.at = pc /\ Exec.value
  BY DEF Took, At
<1>2. Pos(Top) \in TakesValue
  BY <1>1 DEF Pos
<1>3. QED
  BY <1>1, <1>2, PlainPlaces

LEMMA PropagateFits ==
  ASSUME IInv, JInv, SInv, Propagate
  PROVE  SInv'
<1>1. frames # <<>> /\ Pos(Top) \in TakesValue /\ frames' = Leave /\ execs' = HasValue(FALSE)
  BY DEF Propagate, Return
<1>2. Supplies
  BY DEF Propagate, Return, Supplies
<1>3. QED
  BY <1>1, <1>2, PlainPlaces, HasValueFacts, LeaveFits

LEMMA FirstExpressionFits ==
  ASSUME IInv, SInv, FirstExpression
  PROVE  SInv'
<1>1. PICK k, pc :
        /\ <<k, pc>> \in TakesValue \cup {<<"ExprStmt", "expr">>} /\ pc # "init" /\ k # "Body"
        /\ At(k, "start") /\ Evaluate(pc)
  BY DEF FirstExpression, TakesValue
<1>2. frames # <<>> /\ Top.kind = k /\ Top.at = "start"
  BY <1>1 DEF At
<1>3. QED
  BY <1>1, <1>2, PlainPlaces, EvaluateFits

LEMMA BodyFitsOn ==
  ASSUME IInv, JInv, SInv, BodyNext \/ BodyEnd
  PROVE  SInv'
<1>1. frames # <<>> /\ Top.kind = "Body" /\ Top.at = "run"
  BY DEF BodyNext, BodyEnd, At
<1>2. CASE BodyNext
  <2>1. Idle(frames)
    BY <1>1, TopIdle DEF SInv, OpenPcs, CallPcs, Declares, Pos, ExpressionKinds
  <2>2. frames \in Seq(Frame) /\ Innermost(frames) = Len(execs) /\ execs \in Seq(Executors)
    BY <1>1, TopFrame, InnermostNow
  <2>3. QED
    BY <1>2, <2>1, <2>2, StatementFits DEF BodyNext, SInv
<1>3. CASE BodyEnd
  BY <1>1, <1>3, RestoreFits DEF BodyEnd, RestoreAndReturn, Saves
<1>4. QED
  BY <1>2, <1>3

\* A name in the innermost scope.
LEMMA DeclaredFacts ==
  ASSUME IInv, NEW x \in Names, NEW m, m = Len(execs), Exec.scopes # <<>>
  PROVE  /\ SameBelow(execs, SetExec(Declared(Exec, x)), m)
         /\ Len(SetExec(Declared(Exec, x))[m].scopes) = Len(execs[m].scopes)
<1> DEFINE e == Declared(Exec, x)
<1>1. e \in Executors /\ Len(e.scopes) = Len(Exec.scopes)
  <2>1. e \in Executors
    BY ExecsNonEmpty, DeclaredType
  <2>2. Exec.scopes \in Seq(SUBSET Names) /\ Exec \in Executors
    BY ExecsNonEmpty DEF Executors, Chains
  <2>3. e.scopes = [Exec.scopes EXCEPT ![Len(Exec.scopes)] = @ \cup {x}]
    BY <2>2 DEF Declared, Executors
  <2>4. Len(Exec.scopes) \in 1 .. Len(Exec.scopes)
    BY <2>2, EmptySeq
  <2>5. Exec.scopes[Len(Exec.scopes)] \cup {x} \in SUBSET Names
    BY <2>2, <2>4, ElementOfSeq
  <2>6. QED
    BY <2>1, <2>2, <2>3, <2>4, <2>5, ExceptSeq
<1> HIDE DEF e
<1>2. SameBelow(execs, SetExec(e), m) /\ SetExec(e)[m] = e /\ execs[m] = Exec
  BY <1>1, SetExecFacts, InnermostNow
<1>3. QED
  BY <1>1, <1>2 DEF e

LEMMA ChainNonEmpty ==
  ASSUME IInv, SInv
  PROVE  Exec.scopes # <<>>
<1>1. ExecFits(frames, execs, Len(execs)) /\ Exec = execs[Len(execs)]
  BY InnermostNow DEF SInv, Fits
<1>2. QED
  BY <1>1 DEF ExecFits

LEMMA VarNextFits ==
  ASSUME IInv, JInv, SInv, VarNext
  PROVE  SInv'
<1>1. frames # <<>> /\ Top.kind = "Var" /\ Top.at = "next"
  BY DEF VarNext, At
<1>2. Top.at \notin OpenPcs /\ ~Saves(Top) /\ ~Takes(Top) /\ ~Declares(Top) /\ Top.kind \notin ExpressionKinds
  BY <1>1, PlainPlaces DEF Declares, Pos, ExpressionKinds
<1> DEFINE m == Len(execs)
<1>3. PICK x \in Names :
        \/ Visible(x) /\ ThrowAndLeave
        \/ execs' = SetExec(Declared(Exec, x)) /\ UNCHANGED frames
        \/ /\ ~Visible(x)
           /\ VisitExpression([frames EXCEPT ![Len(frames)].at = "init",
                                             ![Len(frames)].name = x], execs)
  BY DEF VarNext
<1>4. CASE ThrowAndLeave
  BY <1>1, <1>2, <1>4, ThrowFits
<1>5. CASE execs' = SetExec(Declared(Exec, x)) /\ UNCHANGED frames
  <2>1. Idle(frames)
    BY <1>1, <1>2, TopIdle DEF SInv
  <2>2. /\ SameBelow(execs, SetExec(Declared(Exec, x)), m)
        /\ Len(SetExec(Declared(Exec, x))[m].scopes) = Len(execs[m].scopes)
    BY DeclaredFacts, ChainNonEmpty
  <2>3. frames \in Seq(Frame) /\ Innermost(frames) = m /\ execs \in Seq(Executors)
    BY <1>1, TopFrame, InnermostNow
  <2>4. Fits(frames, SetExec(Declared(Exec, x)))
    BY <2>1, <2>2, <2>3, GainsName DEF SInv
  <2>5. QED
    BY <1>2, <1>5, <2>4 DEF SInv, HasWhatItTakes, Top
<1>6. CASE /\ ~Visible(x)
           /\ VisitExpression([frames EXCEPT ![Len(frames)].at = "init",
                                             ![Len(frames)].name = x], execs)
  <2> DEFINE fs == [frames EXCEPT ![Len(frames)].at = "init", ![Len(frames)].name = x]
  <2>1. PICK g \in Frame : g = [Top EXCEPT !.at = "init", !.name = x]
    BY <1>1, TopFrame, FrameAt DEF Positions, TakesValue
  <2>2. fs = Append(Leave, g) /\ g.kind = "Var" /\ g.at = "init" /\ g.name = x
    <3>1. fs = [frames EXCEPT ![Len(frames)] = g]
      BY <1>1, <2>1, TopFrame
    <3>2. fs = Append(Leave, g)
      BY <1>1, <3>1, TopFrame, SetLast DEF Leave
    <3>3. g.kind = "Var" /\ g.at = "init" /\ g.name = x
      BY <1>1, <2>1, TopFrame DEF Frame
    <3>4. QED
      BY <3>2, <3>3
  <2> HIDE DEF fs
  <2>3. /\ Fits(Leave, execs) /\ Idle(Leave) /\ Leave \in Seq(Frame)
        /\ Innermost(Leave) = m /\ execs \in Seq(Executors) /\ execs # <<>> /\ Exec = execs[m]
    BY <1>1, <1>2, TopPlain, InnermostNow DEF SInv
  <2>4. g.name \notin Last(execs[m].scopes)
    <3>1. Exec.scopes \in Seq(SUBSET Names) /\ Exec.scopes # <<>>
      BY ExecsNonEmpty, ChainNonEmpty DEF Executors, Chains
    <3>2. Len(Exec.scopes) \in DOMAIN Exec.scopes
      BY <3>1, EmptySeq, LenProperties
    <3>3. QED
      BY <1>6, <2>2, <2>3, <3>2 DEF Visible, VisibleIn, Last
  <2>5. Declares(g)
    BY <2>2 DEF Declares, Pos
  <2>6. fs \in Seq(Frame) /\ Innermost(fs) = m /\ Fits(fs, execs)
    BY <2>2, <2>3, <2>4, <2>5, PushDeclares
  <2>7. QED
    BY <1>6, <2>3, <2>6, ExpressionFits DEF fs
<1>7. QED
  BY <1>3, <1>4, <1>5, <1>6

LEMMA VarInitFits ==
  ASSUME IInv, JInv, SInv, VarInit
  PROVE  SInv'
<1>1. frames # <<>> /\ Top.kind = "Var" /\ Top.at = "init" /\ Top.at \notin OpenPcs /\ ~Saves(Top)
  BY TookPlain DEF VarInit, TakesValue
<1> DEFINE m == Len(execs)
<1>2. /\ Fits(Leave, execs) /\ Idle(Leave) /\ Leave \in Seq(Frame)
      /\ Innermost(Leave) = m /\ execs \in Seq(Executors)
  BY <1>1, TopPlain, InnermostNow DEF SInv, ExpressionKinds
<1>3. PICK g \in Frame : g = [Top EXCEPT !.at = "next", !.name = NoName]
  BY <1>1, TopFrame, FrameAt DEF Positions
<1>4. frames' = Append(Leave, g) /\ g.kind = "Var" /\ g.at = "next" /\ g.name = NoName
  <2>1. frames' = [frames EXCEPT ![Len(frames)].at = "next", ![Len(frames)].name = NoName]
    BY DEF VarInit
  <2>2. frames' = [frames EXCEPT ![Len(frames)] = g]
    BY <1>1, <1>3, <2>1, TopFrame
  <2>3. frames' = Append(Leave, g)
    BY <1>1, <2>2, TopFrame, SetLast DEF Leave
  <2>4. g.kind = "Var" /\ g.at = "next" /\ g.name = NoName
    BY <1>1, <1>3, TopFrame DEF Frame
  <2>5. QED
    BY <2>3, <2>4
<1>5. Top.name \in Names
  BY <1>1, TopFrame DEF Frame
<1>6. /\ SameBelow(execs, execs', m) /\ Len(execs'[m].scopes) = Len(execs[m].scopes)
  BY <1>5, DeclaredFacts, ChainNonEmpty DEF VarInit
<1>7. Fits(Leave, execs')
  BY <1>2, <1>6, GainsName
<1>8. Plain(g) /\ ~Takes(g)
  BY <1>4, PlainPlaces DEF Plain, Declares, Pos
<1>9. Fits(frames', execs') /\ Last(frames') = g
  BY <1>2, <1>4, <1>6, <1>7, <1>8, PushPlain, Appended DEF SameBelow
<1>10. QED
  BY <1>8, <1>9 DEF SInv, HasWhatItTakes, Top

LEMMA SimpleStatementFits ==
  ASSUME IInv, JInv, SInv,
         \/ VarEnd \/ IfEnd \/ ShortIfEnd \/ AssignLast \/ AssignIndex \/ PrintNext
         \/ PrintItem \/ ReturnValue \/ ExprStmtEnd
  PROVE  SInv'
<1>1. CASE VarEnd
  BY <1>1, PlainPlaces, SameScopesNow, LeaveFits
     DEF VarEnd, At, Return, Supplies, ExpressionKinds
<1>2. CASE IfEnd
  BY <1>2, PlainPlaces, SameScopesNow, LeaveFits
     DEF IfEnd, At, Return, Supplies, ExpressionKinds
<1>3. CASE ShortIfEnd
  BY <1>3, RestoreFits DEF ShortIfEnd, At, RestoreAndReturn, Saves, Pos
<1>4. CASE AssignLast
  <2>1. /\ frames # <<>> /\ Top.kind = "Assign" /\ Top.at \notin OpenPcs /\ ~Saves(Top)
        /\ Top.kind \notin ExpressionKinds
    BY <1>4, PlainPlaces DEF AssignLast, At, ExpressionKinds
  <2>2. CASE Return(execs)
    BY <2>1, <2>2, SameScopesNow, LeaveFits DEF Return, Supplies
  <2>3. CASE Evaluate("index")
    BY <2>1, <2>3, EvaluateFits DEF TakesValue
  <2>4. QED
    BY <1>4, <2>1, <2>2, <2>3, ThrowFits DEF AssignLast
<1>5. CASE AssignIndex
  <2>1. frames # <<>> /\ Top.kind = "Assign" /\ Top.at \notin OpenPcs /\ ~Saves(Top)
    BY <1>5, TookPlain DEF AssignIndex, TakesValue
  <2>2. CASE Return(HasValue(FALSE))
    BY <2>1, <2>2, HasValueFacts, LeaveFits DEF Return, Supplies, ExpressionKinds
  <2>3. QED
    BY <1>5, <2>1, <2>2, ThrowFits DEF AssignIndex
<1>6. CASE PrintNext
  <2>1. frames # <<>> /\ Top.kind = "Print" /\ Top.at \notin OpenPcs /\ ~Saves(Top)
    BY <1>6, PlainPlaces DEF PrintNext, At
  <2>2. CASE Return(execs)
    BY <2>1, <2>2, SameScopesNow, LeaveFits DEF Return, Supplies, ExpressionKinds
  <2>3. CASE Evaluate("item")
    BY <2>1, <2>3, EvaluateFits DEF TakesValue
  <2>4. QED
    BY <1>6, <2>2, <2>3 DEF PrintNext
<1>7. CASE PrintItem
  <2>1. frames # <<>> /\ Top.kind = "Print" /\ Top.at \notin OpenPcs /\ ~Saves(Top)
    BY <1>7, TookPlain DEF PrintItem, TakesValue
  <2>2. <<Top.kind, "next">> \in Positions \ TakesValue /\ "next" \notin OpenPcs \cup {"init", "then"}
    BY <2>1 DEF Positions, TakesValue, OpenPcs, CallPcs
  <2>3. frames' = Goto("next") /\ SameScopes(execs')
    BY <1>7, HasValueFacts DEF PrintItem, Continue
  <2>4. QED
    BY <2>1, <2>2, <2>3, ContinueFits
<1>8. CASE ReturnValue
  <2>1. frames # <<>> /\ Top.kind = "Return" /\ Top.at \notin OpenPcs /\ ~Saves(Top)
    BY <1>8, TookPlain DEF ReturnValue, TakesValue
  <2>2. QED
    BY <1>8, <2>1, HasValueFacts, LeaveFits DEF ReturnValue, Supplies
<1>9. CASE ExprStmtEnd
  BY <1>9, PlainPlaces, HasValueFacts, LeaveFits
     DEF ExprStmtEnd, At, Return, Supplies, ExpressionKinds
<1>10. QED
  BY <1>1, <1>2, <1>3, <1>4, <1>5, <1>6, <1>7, <1>8, <1>9

LEMMA ConditionFits ==
  ASSUME IInv, JInv, SInv, NEW k \in {"If", "While"},
         NEW pc, pc = (IF k = "If" THEN "branch" ELSE "body"),
         Took(k, "cond"), ThrowAndLeave \/ EnterBody(pc) \/ Return(HasValue(FALSE))
  PROVE  SInv'
<1>1. frames # <<>> /\ Top.kind = k /\ Top.at \notin OpenPcs /\ ~Saves(Top)
  BY TookPlain DEF TakesValue
<1>2. CASE ThrowAndLeave
  BY <1>1, <1>2, ThrowFits
<1>3. CASE EnterBody(pc)
  <2>1. /\ <<Top.kind, pc>> \in Positions /\ pc \notin OpenPcs \cup {"init", "then"}
        /\ Top.kind # "For" /\ Top.kind \notin ExpressionKinds
    BY <1>1 DEF Positions, Controls, LoopKinds, OpenPcs, CallPcs, ExpressionKinds
  <2>2. /\ Goto(pc) \in Seq(Frame) /\ Innermost(Goto(pc)) = Len(execs)
        /\ Fits(Goto(pc), execs) /\ Idle(Goto(pc))
    BY <1>1, <2>1, SameScopesNow, GotoPlain DEF SInv
  <2>3. QED
    BY <1>3, <2>2, EnterBodyFits
<1>4. CASE Return(HasValue(FALSE))
  BY <1>1, <1>4, HasValueFacts, LeaveFits DEF Return, Supplies, ExpressionKinds
<1>5. QED
  BY <1>2, <1>3, <1>4

\* An activation saves the chain, and the statements it controls have another.
LEMMA SavesFits ==
  ASSUME IInv, Fits(frames, execs), frames # <<>>, Top.at \notin OpenPcs, ~Saves(Top),
         Top.kind \notin ExpressionKinds,
         NEW g \in Frame, Saves(g), g.prev = Exec.scopes,
         NEW es, SameBelow(execs, es, Len(execs)),
         Len(es[Len(execs)].scopes) = Len(Exec.scopes) + One(HoldsScope(g))
  PROVE  LET fs == Append(Leave, g)
         IN  /\ fs \in Seq(Frame) /\ Last(fs) = g /\ es \in Seq(Executors)
             /\ Innermost(fs) = Len(es) /\ Fits(fs, es) /\ Idle(fs)
<1>1. /\ Fits(Leave, execs) /\ Idle(Leave) /\ Leave \in Seq(Frame)
      /\ Innermost(Leave) = Len(execs) /\ execs \in Seq(Executors) /\ Exec = execs[Len(execs)]
  BY TopPlain, InnermostNow
<1>2. es \in Seq(Executors) /\ Len(es) = Len(execs)
  BY DEF SameBelow
<1>3. /\ Append(Leave, g) \in Seq(Frame) /\ Innermost(Append(Leave, g)) = Len(execs)
      /\ Fits(Append(Leave, g), es) /\ Idle(Append(Leave, g))
  BY <1>1, PushSaves
<1>4. Last(Append(Leave, g)) = g
  BY <1>1, Appended
<1>5. QED
  BY <1>2, <1>3, <1>4

LEMMA ShortIfFits ==
  ASSUME IInv, JInv, SInv, ShortIfCond
  PROVE  SInv'
<1>1. frames # <<>> /\ Top.kind = "ShortIf" /\ Top.at \notin OpenPcs /\ ~Saves(Top)
  BY TookPlain DEF ShortIfCond, TakesValue
<1> DEFINE fs == [frames EXCEPT ![Len(frames)].at = "then", ![Len(frames)].prev = Exec.scopes]
           e == NewExec(Append(Exec.scopes, {}))
<1>2. CASE ThrowAndLeave
  BY <1>1, <1>2, ThrowFits
<1>3. CASE Return(HasValue(FALSE))
  BY <1>1, <1>3, HasValueFacts, LeaveFits DEF Return, Supplies, ExpressionKinds
<1>4. CASE VisitStatement(fs, SetExec(e))
  <2>1. /\ Exec.scopes \in Chains /\ Append(Exec.scopes, {}) \in Chains
        /\ Len(Append(Exec.scopes, {})) = Len(Exec.scopes) + 1
    BY ScopesGrow
  <2>2. PICK g \in Frame : /\ g.kind = Top.kind /\ g.at = "then" /\ g.prev = Exec.scopes
                           /\ fs = Append(Leave, g)
    <3>1. <<Top.kind, "then">> \in Positions /\ fs = ScopedAt("then", Exec.scopes)
      BY <1>1 DEF Positions, Controls, ScopedAt
    <3>2. PICK g \in Frame : /\ g.kind = Top.kind /\ g.at = "then" /\ g.prev = Exec.scopes
                             /\ ScopedAt("then", Exec.scopes) = Append(Leave, g)
      BY <1>1, <2>1, <3>1, ScopedShape
    <3> HIDE DEF fs
    <3>3. QED
      BY <3>1, <3>2
  <2>3. e \in Executors /\ e.scopes = Append(Exec.scopes, {})
    BY <2>1, NewExecFacts
  <2> HIDE DEF fs, e
  <2>4. SameBelow(execs, SetExec(e), Len(execs)) /\ SetExec(e)[Len(execs)] = e
    BY <2>3, SetExecFacts
  <2>5. Saves(g) /\ HoldsScope(g)
    BY <1>1, <2>2 DEF Saves, HoldsScope, Pos
  <2>6. Len(SetExec(e)[Len(execs)].scopes) = Len(Exec.scopes) + One(HoldsScope(g))
    BY <2>1, <2>3, <2>4, <2>5 DEF One
  <2>7. /\ fs \in Seq(Frame) /\ SetExec(e) \in Seq(Executors)
        /\ Innermost(fs) = Len(SetExec(e)) /\ Fits(fs, SetExec(e)) /\ Idle(fs)
    BY <1>1, <2>2, <2>4, <2>5, <2>6, SavesFits DEF SInv, ExpressionKinds
  <2>8. QED
    BY <1>4, <2>7, StatementFits DEF fs, e
<1>5. QED
  BY <1>2, <1>3, <1>4 DEF ShortIfCond

LEMMA ForBeginFits ==
  ASSUME IInv, JInv, SInv, frames # <<>>, Top.kind = "For", Top.at \notin OpenPcs, ~Saves(Top),
         ForBegin
  PROVE  SInv'
<1>1. PICK x \in Names \cup {NoName} :
        /\ frames' = NamedAt("iter", Exec.scopes, x)
        /\ execs' = IF x = NoName THEN HasValue(FALSE)
                    ELSE SetExec(NewExec(Append(Exec.scopes, {x})))
  BY DEF ForBegin, NamedAt
<1>2. Exec.scopes \in Chains
  BY ExecsNonEmpty DEF Executors
<1>3. PICK g \in Frame : /\ g.kind = "For" /\ g.at = "iter" /\ g.prev = Exec.scopes /\ g.name = x
                         /\ frames' = Append(Leave, g)
  <2>1. <<Top.kind, "iter">> \in Positions
    BY DEF Positions
  <2>2. QED
    BY <1>1, <1>2, <2>1, NamedShape
<1>4. Saves(g) /\ (HoldsScope(g) <=> x # NoName) /\ ~Takes(g)
  BY <1>3 DEF Saves, HoldsScope, Takes, TakesValue, Pos
<1>5. /\ SameBelow(execs, execs', Len(execs))
      /\ Len(execs'[Len(execs)].scopes) = Len(Exec.scopes) + One(HoldsScope(g))
  <2>1. CASE x = NoName
    <3>1. SameScopes(execs')
      BY <1>1, <2>1, HasValueFacts
    <3>2. Len(execs) \in Nat \ {0} /\ Exec = execs[Len(execs)] /\ Len(Exec.scopes) \in Nat
      BY <1>2, InnermostNow, LenProperties DEF Chains
    <3>3. QED
      BY <1>4, <2>1, <3>1, <3>2 DEF SameScopes, SameBelow, One
  <2>2. CASE x # NoName
    <3> DEFINE e == NewExec(Append(Exec.scopes, {x}))
    <3>1. Append(Exec.scopes, {x}) \in Chains /\ Len(Append(Exec.scopes, {x})) = Len(Exec.scopes) + 1
      BY <2>2, ScopesGrow
    <3>2. e \in Executors /\ e.scopes = Append(Exec.scopes, {x})
      BY <3>1, NewExecFacts
    <3> HIDE DEF e
    <3>3. SameBelow(execs, SetExec(e), Len(execs)) /\ SetExec(e)[Len(execs)] = e
      BY <3>2, SetExecFacts
    <3>4. execs' = SetExec(e)
      BY <1>1, <2>2 DEF e
    <3>5. QED
      BY <1>4, <2>2, <3>1, <3>2, <3>3, <3>4 DEF One
  <2>3. QED
    BY <2>1, <2>2
<1>6. Fits(frames', execs') /\ Last(frames') = g
  BY <1>3, <1>4, <1>5, SavesFits DEF SInv, ExpressionKinds
<1>7. QED
  BY <1>4, <1>6 DEF SInv, HasWhatItTakes, Top

LEMMA CycleFits ==
  ASSUME IInv, JInv, SInv, ForFirst \/ ForLast \/ ForIter \/ LoopIter \/ CycleBody
  PROVE  SInv'
<1>1. CASE ForFirst
  <2>1. frames # <<>> /\ Top.kind = "For" /\ Top.at \notin OpenPcs /\ ~Saves(Top)
    BY <1>1, TookPlain DEF ForFirst, TakesValue
  <2>2. CASE Evaluate("last")
    BY <2>1, <2>2, EvaluateFits DEF TakesValue
  <2>3. QED
    BY <1>1, <2>1, <2>2, ThrowFits, ForBeginFits DEF ForFirst
<1>2. CASE ForLast
  <2>1. frames # <<>> /\ Top.kind = "For" /\ Top.at \notin OpenPcs /\ ~Saves(Top)
    BY <1>2, TookPlain DEF ForLast, TakesValue
  <2>2. QED
    BY <1>2, <2>1, ThrowFits, ForBeginFits DEF ForLast
<1>3. CASE ForIter
  <2>1. frames # <<>> /\ Top.kind = "For" /\ Top.at = "iter" /\ Saves(Top)
    BY <1>3 DEF ForIter, At, Saves
  <2>2. CASE EnterBody("body")
    <3>1. /\ Goto("body") \in Seq(Frame) /\ Innermost(Goto("body")) = Len(execs)
          /\ Fits(Goto("body"), execs) /\ Idle(Goto("body"))
      BY <2>1, SameScopesNow, GotoFor DEF SInv
    <3>2. QED
      BY <2>2, <3>1, EnterBodyFits
  <2>3. QED
    BY <1>3, <2>1, <2>2, RestoreFits DEF ForIter, RestoreAndReturn
<1>4. CASE LoopIter
  <2>1. frames # <<>> /\ Top.kind = "Loop" /\ Top.at = "iter" /\ Top.at \notin OpenPcs /\ ~Saves(Top)
    BY <1>4, PlainPlaces DEF LoopIter, At
  <2>2. /\ <<Top.kind, "body">> \in Positions /\ "body" \notin OpenPcs \cup {"init", "then"}
        /\ Top.kind # "For" /\ Top.kind \notin ExpressionKinds
    BY <2>1 DEF Positions, Controls, LoopKinds, OpenPcs, CallPcs, ExpressionKinds
  <2>3. /\ Goto("body") \in Seq(Frame) /\ Innermost(Goto("body")) = Len(execs)
        /\ Fits(Goto("body"), execs) /\ Idle(Goto("body"))
    BY <2>1, <2>2, SameScopesNow, GotoPlain DEF SInv
  <2>4. QED
    BY <1>4, <2>3, EnterBodyFits DEF LoopIter
<1>5. CASE CycleBody
  <2>1. PICK k \in LoopKinds :
          /\ At(k, "body")
          /\ \/ Continue(IF k = "While" THEN "start" ELSE "iter")
             \/ /\ frames' = Leave
                /\ execs' = IF k = "For" THEN RestoredScopes ELSE execs
    BY <1>5 DEF CycleBody
  <2>2. frames # <<>> /\ Top.kind = k /\ Top.at = "body" /\ Top.kind \notin ExpressionKinds
    BY <2>1 DEF At, LoopKinds, ExpressionKinds
  <2>3. CASE k = "For"
    <3>1. Saves(Top)
      BY <2>2, <2>3 DEF Saves
    <3>2. CASE frames' = Leave /\ execs' = RestoredScopes
      BY <2>2, <3>1, <3>2, RestoreFits
    <3>3. CASE Continue("iter")
      <4>1. frames' = Goto("iter") /\ SameScopes(execs')
        BY <3>3, HasValueFacts DEF Continue
      <4>2. Fits(frames', execs') /\ Last(frames').kind = "For" /\ Last(frames').at = "iter"
        BY <2>2, <2>3, <4>1, GotoFor DEF SInv
      <4>3. ~Takes(Last(frames'))
        BY <4>2 DEF Takes, TakesValue, Pos
      <4>4. QED
        BY <4>2, <4>3 DEF SInv, HasWhatItTakes, Top
    <3>4. QED
      BY <2>1, <2>3, <3>2, <3>3
  <2>4. CASE k \in {"While", "Loop"}
    <3>1. Top.at \notin OpenPcs /\ ~Saves(Top) /\ Top.kind # "For"
      BY <2>2, <2>4, PlainPlaces
    <3>2. CASE frames' = Leave /\ execs' = execs
      BY <2>2, <3>1, <3>2, SameScopesNow, LeaveFits DEF Supplies
    <3>3. CASE Continue(IF k = "While" THEN "start" ELSE "iter")
      <4>1. PICK pc : /\ pc = (IF k = "While" THEN "start" ELSE "iter") /\ frames' = Goto(pc)
                      /\ <<Top.kind, pc>> \in Positions \ TakesValue
                      /\ pc \notin OpenPcs \cup {"init", "then"}
        BY <2>2, <2>4, <3>3 DEF Continue, Positions, TakesValue, OpenPcs, CallPcs
      <4>2. SameScopes(execs')
        BY <3>3, HasValueFacts DEF Continue
      <4>3. QED
        BY <2>2, <3>1, <4>1, <4>2, ContinueFits
    <3>4. QED
      BY <2>1, <2>4, <3>2, <3>3
  <2>5. QED
    BY <2>3, <2>4 DEF LoopKinds
<1>6. QED
  BY <1>1, <1>2, <1>3, <1>4, <1>5

LEMMA AssignSrcFits ==
  ASSUME IInv, JInv, SInv, AssignSrc
  PROVE  SInv'
<1>1. frames # <<>> /\ Top.kind = "Assign" /\ Top.at \notin OpenPcs /\ ~Saves(Top)
  BY TookPlain DEF AssignSrc, TakesValue
<1>2. /\ <<Top.kind, "chain">> \in Positions \ TakesValue
      /\ "chain" \notin OpenPcs \cup {"init", "then"} /\ Top.kind # "For"
  BY <1>1 DEF Positions, TakesValue, OpenPcs, CallPcs
<1>3. CASE Return(HasValue(FALSE))
  BY <1>1, <1>3, HasValueFacts, LeaveFits DEF Return, Supplies, ExpressionKinds
<1>4. CASE Continue("chain")
  BY <1>1, <1>2, <1>4, HasValueFacts, ContinueFits DEF Continue
<1>5. CASE /\ frames' = Append(Goto("chain"), NewFrame("Access", <<>>))
           /\ execs' = HasValue(FALSE)
  <2> DEFINE fs == Goto("chain")
             f == NewFrame("Access", <<>>)
             es == HasValue(FALSE)
  <2>1. SameScopes(es)
    BY HasValueFacts
  <2>2. /\ fs \in Seq(Frame) /\ es \in Seq(Executors) /\ Innermost(fs) = Len(es)
        /\ Fits(fs, es) /\ Idle(fs)
    BY <1>1, <1>2, <2>1, GotoPlain DEF SInv, ExpressionKinds
  <2>3. f \in Frame /\ Plain(f) /\ ~Takes(f)
    BY FreshFacts DEF Kinds
  <2> HIDE DEF fs, f, es
  <2>4. Fits(Append(fs, f), es) /\ Last(Append(fs, f)) = f
    BY <2>2, <2>3, PushPlain, Appended
  <2>5. QED
    BY <1>5, <2>3, <2>4 DEF SInv, HasWhatItTakes, Top, fs, f, es
<1>6. QED
  BY <1>1, <1>3, <1>4, <1>5, ThrowFits DEF AssignSrc

LEMMA OperandFits ==
  ASSUME IInv, JInv, SInv, OperandsNext \/ OperandsTook \/ UnaryOperand \/ OpError \/ OpsDone
  PROVE  SInv'
<1>1. CASE OperandsNext
  <2>1. frames # <<>> /\ Top.kind = "Operands" /\ Top.at \notin OpenPcs /\ ~Saves(Top)
    BY <1>1, PlainPlaces DEF OperandsNext, At
  <2>2. QED
    BY <1>1, <2>1, EvaluateFits DEF OperandsNext, TakesValue
<1>2. CASE OperandsTook
  <2>1. /\ frames # <<>> /\ Top.kind = "Operands" /\ Exec.value
        /\ Top.at \notin OpenPcs /\ ~Saves(Top)
    BY <1>2, TookPlain DEF OperandsTook, TakesValue
  <2>2. /\ <<Top.kind, "next">> \in Positions \ TakesValue /\ Top.kind # "For"
        /\ "next" \notin OpenPcs \cup {"init", "then"}
    BY <2>1 DEF Positions, TakesValue, OpenPcs, CallPcs
  <2>3. CASE Continue("next")
    BY <2>1, <2>2, <2>3, HasValueFacts, ContinueFits DEF Continue
  <2>4. CASE frames' = Leave /\ UNCHANGED <<execs, state, calls, trace>>
    <3>1. Supplies
      BY <2>1, <2>4 DEF Supplies, Exec
    <3>2. QED
      BY <2>1, <2>4, <3>1, SameScopesNow, LeaveFits
  <2>5. QED
    BY <1>2, <2>1, <2>3, <2>4, ThrowFits DEF OperandsTook
<1>3. CASE UnaryOperand
  <2>1. frames # <<>> /\ Top.kind = "Unary" /\ Top.at \notin OpenPcs /\ ~Saves(Top)
    BY <1>3, TookPlain DEF UnaryOperand, TakesValue
  <2>2. /\ <<Top.kind, "ops">> \in Positions \ TakesValue /\ Top.kind # "For"
        /\ "ops" \notin OpenPcs \cup {"init", "then"}
    BY <2>1 DEF Positions, TakesValue, OpenPcs, CallPcs
  <2>3. QED
    BY <1>3, <2>1, <2>2, HasValueFacts, ContinueFits DEF UnaryOperand, Continue
<1>4. CASE OpError
  BY <1>4, PlainPlaces, ThrowFits DEF OpError, AtOps, At
<1>5. CASE OpsDone
  <2>1. /\ frames # <<>> /\ Top.kind \in {"Unary", "Access"} /\ Top.at \notin OpenPcs /\ ~Saves(Top)
    BY <1>5, PlainPlaces DEF OpsDone, AtOps, At
  <2>2. PICK b \in BOOLEAN : b = (Top.kind = "Unary")
    OBVIOUS
  <2>3. frames' = Leave /\ execs' = HasValue(b)
    BY <1>5, <2>2 DEF OpsDone
  <2>4. SameScopes(execs') /\ Last(execs').value = b
    BY <2>3, HasValueFacts
  <2>5. Supplies
    BY <2>1, <2>2, <2>4 DEF Supplies, Exec, ExpressionKinds
  <2>6. QED
    BY <2>1, <2>3, <2>4, <2>5, LeaveFits
<1>6. QED
  BY <1>1, <1>2, <1>3, <1>4, <1>5

\* A visitor on top that has opened an executor, or will.
LEMMA TopOpened ==
  ASSUME IInv, SInv, frames # <<>>, Top.at \in OpenPcs
  PROVE  /\ Top.kind \in {"Unary", "Access"}
         /\ Leave \in Seq(Frame) /\ Front(execs) \in Seq(Executors)
         /\ Innermost(Leave) = Len(Front(execs)) /\ Fits(Leave, Front(execs))
         /\ Top.kind \notin ExpressionKinds => Idle(Leave)
<1>1. Top \in Frame /\ Leave \in Seq(Frame) /\ frames = Append(Leave, Top)
  BY TopAndBelow
<1>2. Len(execs) = Innermost(Leave) + 1 /\ execs \in Seq(Executors)
  BY InnermostNow
<1>3. QED
  BY <1>1, <1>2, FrameFacts, PopCloses DEF SInv

\* The evaluation in another executor is over: the visitor goes on.
LEMMA BackAtOps ==
  ASSUME IInv, SInv, frames # <<>>, Top.at \in OpenPcs,
         frames' = Goto("ops"), execs' = Front(execs)
  PROVE  SInv'
<1>1. Top.kind \in {"Unary", "Access"} /\ <<Top.kind, "ops">> \in Positions
  BY TopOpened DEF Positions
<1>2. PICK g \in Frame : g.kind = Top.kind /\ g.at = "ops" /\ Goto("ops") = Append(Leave, g)
  BY <1>1, GotoIs
<1>3. Plain(g) /\ ~Takes(g)
  BY <1>1, <1>2, PlainPlaces DEF Plain, Declares, Pos
<1>4. Fits(Append(Leave, g), Front(execs)) /\ Last(Append(Leave, g)) = g
  BY <1>2, <1>3, TopOpened, PushPlain, Appended
<1>5. QED
  BY <1>2, <1>3, <1>4 DEF SInv, HasWhatItTakes, Top

LEMMA ArgumentFits ==
  ASSUME IInv, JInv, SInv, Argument \/ ArgumentEnd
  PROVE  SInv'
<1>1. CASE Argument
  <2>1. /\ frames # <<>> /\ Top.kind \in {"Unary", "Access"} /\ Top.at \notin OpenPcs /\ ~Saves(Top)
        /\ VisitExpression(Goto("arg"), Append(execs, NewExec(Exec.scopes)))
    BY <1>1, PlainPlaces DEF Argument, AtOps, At
  <2>2. <<Top.kind, "arg">> \in Positions /\ "arg" \in OpenPcs
    BY <2>1 DEF Positions, OpenPcs
  <2>3. PICK g \in Frame : g.kind = Top.kind /\ g.at = "arg" /\ Goto("arg") = Append(Leave, g)
    BY <2>1, <2>2, GotoIs
  <2>4. /\ Fits(Leave, execs) /\ (Top.kind \notin ExpressionKinds => Idle(Leave))
        /\ Leave \in Seq(Frame) /\ Innermost(Leave) = Len(execs)
        /\ execs \in Seq(Executors) /\ Exec = execs[Len(execs)]
    BY <2>1, TopPlain, InnermostNow DEF SInv
  <2>5. Exec.scopes \in Chains
    BY ExecsNonEmpty DEF Executors
  <2> DEFINE e == NewExec(Exec.scopes)
  <2>6. e \in Executors /\ Len(e.scopes) = Len(execs[Len(execs)].scopes)
    BY <2>4, <2>5, NewExecFacts
  <2> HIDE DEF e
  <2>7. /\ Goto("arg") \in Seq(Frame) /\ Append(execs, e) \in Seq(Executors)
        /\ Innermost(Goto("arg")) = Len(Append(execs, e)) /\ Fits(Goto("arg"), Append(execs, e))
    <3>1. g.at \in OpenPcs /\ (g.kind \notin ExpressionKinds => Idle(Leave))
      BY <2>2, <2>3, <2>4
    <3>2. Len(e.scopes) = IF g.at = "arg" THEN Len(execs[Len(execs)].scopes) ELSE 2
      BY <2>3, <2>6
    <3>3. /\ Append(Leave, g) \in Seq(Frame) /\ Append(execs, e) \in Seq(Executors)
          /\ Innermost(Append(Leave, g)) = Len(Append(execs, e))
          /\ Fits(Append(Leave, g), Append(execs, e))
      BY <2>4, <2>6, <3>1, <3>2, PushOpens
    <3>4. QED
      BY <2>3, <3>3
  <2>8. Append(execs, e) # <<>>
    BY <2>4, <2>6, AppendProperties
  <2>9. QED
    BY <2>1, <2>7, <2>8, ExpressionFits DEF e
<1>2. CASE ArgumentEnd
  <2>1. frames # <<>> /\ Top.at \in OpenPcs /\ execs' = Front(execs)
    BY <1>2 DEF ArgumentEnd, At, OpenPcs
  <2>2. CASE state = "Throwing" /\ frames' = Leave
    <3>1. state' = "Throwing"
      BY <1>2, <2>2 DEF ArgumentEnd
    <3>2. QED
      BY <2>1, <2>2, <3>1, TopOpened DEF SInv, HasWhatItTakes
  <2>3. CASE frames' = Goto("ops")
    BY <2>1, <2>3, BackAtOps
  <2>4. QED
    BY <1>2, <2>2, <2>3 DEF ArgumentEnd
<1>3. QED
  BY <1>1, <1>2

LEMMA CallClosureFits ==
  ASSUME IInv, JInv, SInv, CallClosure
  PROVE  SInv'
<1>1. frames # <<>> /\ Top.kind = "Unary" /\ Top.at \notin OpenPcs /\ ~Saves(Top)
  BY PlainPlaces DEF CallClosure, At
<1>2. PICK captured \in SUBSET Names, params \in SUBSET Names :
        \/ /\ frames' = Append(Goto("long"), NewFrame("Body", <<captured, params>>))
           /\ execs' = Append(execs, NewExec(Append(<<captured, params>>, {})))
        \/ /\ frames' = Goto("begin")
           /\ execs' = Append(execs, NewExec(<<captured, params>>))
  BY DEF CallClosure
<1> DEFINE chain == <<captured, params>>
           e == NewExec(chain)
           n == Len(execs)
<1>3. chain \in Chains /\ Len(chain) = 2 /\ Append(chain, {}) \in Chains
      /\ Len(Append(chain, {})) = 3
  BY AppendProperties DEF Chains
<1>4. e \in Executors /\ e.scopes = chain
  BY <1>3, NewExecFacts
<1>5. /\ Fits(Leave, execs) /\ (Top.kind \notin ExpressionKinds => Idle(Leave))
      /\ Leave \in Seq(Frame) /\ Innermost(Leave) = n
      /\ execs \in Seq(Executors) /\ n \in Nat \ {0}
  BY <1>1, TopPlain, InnermostNow DEF SInv
<1> HIDE DEF chain, e, n
<1>6. ASSUME NEW pc \in {"long", "begin"}
      PROVE  /\ Goto(pc) \in Seq(Frame) /\ Innermost(Goto(pc)) = n + 1 /\ Last(Goto(pc)).at = pc
             /\ Append(execs, e) \in Seq(Executors) /\ Len(Append(execs, e)) = n + 1
             /\ Append(execs, e)[n + 1] = e
             /\ Fits(Goto(pc), Append(execs, e)) /\ Idle(Goto(pc))
  <2>1. <<Top.kind, pc>> \in Positions /\ pc \in OpenPcs /\ pc # "arg" /\ pc # "init"
    BY <1>1 DEF Positions, OpenPcs, CallPcs
  <2>2. PICK g \in Frame : g.kind = Top.kind /\ g.at = pc /\ Goto(pc) = Append(Leave, g)
    BY <1>1, <2>1, GotoIs
  <2>3. Len(e.scopes) = IF g.at = "arg" THEN Len(execs[n].scopes) ELSE 2
    BY <1>3, <1>4, <2>1, <2>2
  <2>4. Last(Append(Leave, g)) = g
    BY <1>5, Appended
  <2>5. Len(execs) = n
    BY DEF n
  <2>6. g.at \in OpenPcs /\ (g.kind \notin ExpressionKinds => Idle(Leave))
    BY <1>5, <2>1, <2>2
  <2>7. /\ Append(Leave, g) \in Seq(Frame) /\ Innermost(Append(Leave, g)) = n + 1
        /\ Append(execs, e) \in Seq(Executors) /\ Len(Append(execs, e)) = n + 1
        /\ Append(execs, e)[n + 1] = e
        /\ Fits(Append(Leave, g), Append(execs, e)) /\ Idle(Append(Leave, g))
    <3> DEFINE gs == Leave
    <3>1. /\ gs \in Seq(Frame) /\ n = Innermost(gs) /\ Len(execs) = n /\ Fits(gs, execs)
          /\ execs \in Seq(Executors) /\ e \in Executors
      BY <1>4, <1>5, <2>5
    <3> HIDE DEF gs
    <3>2. g.at \in OpenPcs /\ (g.kind \notin ExpressionKinds => Idle(gs))
      BY <2>6 DEF gs
    <3>3. /\ Append(gs, g) \in Seq(Frame) /\ Innermost(Append(gs, g)) = n + 1
          /\ Append(execs, e) \in Seq(Executors) /\ Len(Append(execs, e)) = n + 1
          /\ Append(execs, e)[n + 1] = e
          /\ Fits(Append(gs, g), Append(execs, e)) /\ Idle(Append(gs, g))
      BY <2>3, <3>1, <3>2, PushOpens, SMTT(60)
    <3>4. QED
      BY <3>3 DEF gs
  <2>8. QED
    BY <2>2, <2>4, <2>7
<1>7. CASE /\ frames' = Append(Goto("long"), NewFrame("Body", chain))
           /\ execs' = Append(execs, NewExec(Append(chain, {})))
  <2> DEFINE es == Append(execs, e)
             e2 == NewExec(Append(chain, {}))
             es2 == Append(execs, e2)
  <2>1. e2 \in Executors /\ e2.scopes = Append(chain, {})
    BY <1>3, NewExecFacts
  <2> HIDE DEF e2
  <2>2. /\ es \in Seq(Executors) /\ Len(es) = n + 1 /\ es[n + 1] = e
        /\ \A j \in 1 .. n : es[j] = execs[j]
    BY <1>4, <1>5, AppendProperties DEF n
  <2>3. /\ es2 \in Seq(Executors) /\ Len(es2) = n + 1 /\ es2[n + 1] = e2
        /\ \A j \in 1 .. n : es2[j] = execs[j]
    BY <1>5, <2>1, AppendProperties DEF n
  <2> DEFINE m == n + 1
  <2>4. SameBelow(es, es2, m) /\ Len(es) = m /\ m - 1 = n
    BY <1>5, <2>2, <2>3 DEF SameBelow
  <2>5. es[m].scopes = chain /\ Len(es2[m].scopes) = Len(es[m].scopes) + 1
    BY <1>3, <1>4, <2>1, <2>2, <2>3
  <2>6. frames' = Append(Goto("long"), NewFrame("Body", es[m].scopes)) /\ execs' = es2
    BY <1>7, <2>5 DEF e2
  <2>7. Goto("long") \in Seq(Frame) /\ Innermost(Goto("long")) = m /\ Fits(Goto("long"), es)
        /\ Idle(Goto("long"))
    BY <1>6
  <2> HIDE DEF es, es2, m
  <2>8. es \in Seq(Executors)
    BY <2>2
  <2>9. QED
    BY <1>3, <2>4, <2>5, <2>6, <2>7, <2>8, BodyFits
<1>8. CASE frames' = Goto("begin") /\ execs' = Append(execs, e)
  <2>1. Fits(frames', execs') /\ Last(frames').at = "begin"
    BY <1>6, <1>8
  <2>2. ~Takes(Last(frames'))
    BY <2>1 DEF Takes, TakesValue, Pos
  <2>3. QED
    BY <2>1, <2>2 DEF SInv, HasWhatItTakes, Top
<1>9. QED
  BY <1>2, <1>7, <1>8 DEF chain, e

LEMMA CallRunsFits ==
  ASSUME IInv, JInv, SInv, ShortBody \/ CallEnd
  PROVE  SInv'
<1>1. CASE ShortBody
  <2>1. frames # <<>> /\ Top.kind = "Unary" /\ Top.at = "begin" /\ Top.at \in CallPcs
        /\ Top.at \in OpenPcs /\ VisitExpression(Goto("short"), execs)
    BY <1>1 DEF ShortBody, At, CallPcs, OpenPcs
  <2>2. <<Top.kind, "short">> \in Positions /\ "short" \in CallPcs
    BY <2>1 DEF Positions, CallPcs
  <2>3. PICK g \in Frame : g.kind = Top.kind /\ g.at = "short" /\ Goto("short") = Append(Leave, g)
    BY <2>1, <2>2, GotoIs
  <2>4. /\ Top \in Frame /\ Leave \in Seq(Frame) /\ frames = Append(Leave, Top)
        /\ Len(execs) = Innermost(Leave) + 1 /\ execs \in Seq(Executors) /\ execs # <<>>
    BY <2>1, TopAndBelow, InnermostNow
  <2>5. /\ Goto("short") \in Seq(Frame) /\ Innermost(Goto("short")) = Len(execs)
        /\ Fits(Goto("short"), execs)
    <3>1. g.at \in CallPcs /\ Fits(Append(Leave, Top), execs)
      BY <2>2, <2>3, <2>4 DEF SInv
    <3>2. /\ Append(Leave, g) \in Seq(Frame) /\ Innermost(Append(Leave, g)) = Len(execs)
          /\ Fits(Append(Leave, g), execs)
      BY <2>1, <2>3, <2>4, <3>1, OpensSwitch
    <3>3. QED
      BY <2>3, <3>2
  <2>6. QED
    BY <2>1, <2>4, <2>5, ExpressionFits
<1>2. CASE CallEnd
  <2>1. frames # <<>> /\ Top.at \in OpenPcs /\ execs' = Front(execs)
    BY <1>2 DEF CallEnd, At, OpenPcs, CallPcs
  <2>2. CASE state = "Throwing"
    <3>1. state' = "Throwing" /\ frames' = Leave
      BY <1>2, <2>2 DEF CallEnd, AfterCall
    <3>2. QED
      BY <2>1, <3>1, TopOpened DEF SInv, HasWhatItTakes
  <2>3. CASE state # "Throwing"
    <3>1. frames' = Goto("ops")
      BY <1>2, <2>3 DEF CallEnd
    <3>2. QED
      BY <2>1, <3>1, BackAtOps
  <2>4. QED
    BY <2>2, <2>3
<1>3. QED
  BY <1>1, <1>2

LEMMA SInvStep == IInv /\ JInv /\ SInv /\ [Next]_vars => SInv'
<1> SUFFICES ASSUME IInv, JInv, SInv, [Next]_vars PROVE SInv'
  OBVIOUS
<1>1. CASE Propagate \/ FirstExpression
  BY <1>1, PropagateFits, FirstExpressionFits
<1>2. CASE IfCond
  <2>1. /\ Took("If", "cond")
        /\ ThrowAndLeave \/ EnterBody("branch") \/ Return(HasValue(FALSE))
    BY <1>2 DEF IfCond
  <2>2. QED
    BY <2>1, ConditionFits
<1>3. CASE WhileCond
  <2>1. /\ Took("While", "cond")
        /\ ThrowAndLeave \/ EnterBody("body") \/ Return(HasValue(FALSE))
    BY <1>3 DEF WhileCond
  <2>2. QED
    BY <2>1, ConditionFits
<1>4. CASE Statement /\ ~IfCond /\ ~WhileCond
  BY <1>4, BodyFitsOn, VarNextFits, VarInitFits, SimpleStatementFits, ShortIfFits, CycleFits,
     AssignSrcFits DEF Statement
<1>5. CASE Expression
  BY <1>5, OperandFits, ArgumentFits, CallClosureFits, CallRunsFits DEF Expression
<1>6. CASE UNCHANGED vars
  BY <1>6 DEF vars, SInv, HasWhatItTakes, Top, Exec
<1>7. QED
  BY <1>1, <1>2, <1>3, <1>4, <1>5, <1>6 DEF Next, Statement, Terminated

\* During a call its entry is on the call stack.
LEMMA CallOpenNow ==
  ASSUME IInv, frames # <<>>, IsCall(Top)
  PROVE  calls # <<>>
<1>1. Leave \in Seq(Frame) /\ Top \in Frame /\ frames = Append(Leave, Top)
  BY TopAndBelow
<1>2. /\ Count(Leave, CallPcs) \in Nat
      /\ Count(frames, CallPcs) = Count(Leave, CallPcs) + 1
  BY <1>1, CountAppend DEF IsCall
<1>3. Len(calls) # 0
  BY <1>2 DEF IInv, CallsMatch
<1>4. QED
  BY <1>3

-----------------------------------------------------------------------------
(* The trace of an error, and what is done while unwinding.                *)

\* A runtime error is reported, or the call stack only shrinks while a state
\* other than Running lasts.
Reports == SetThrowingState /\ state = "Running"
Unwinds ==
  /\ trace' = trace /\ (state' = "Throwing" => state = "Throwing")
  /\ state # "Running" => calls' = calls \/ (calls # <<>> /\ calls' = Front(calls))
  /\ state = "Throwing" => state' = "Throwing"

LEMMA VisitTraces ==
  ASSUME state = "Running", NEW fs, NEW es, VisitExpression(fs, es) \/ VisitStatement(fs, es)
  PROVE  Reports \/ Unwinds
BY DEF VisitExpression, VisitStatement, Reports, Unwinds

LEMMA QuietTraces ==
  ASSUME UNCHANGED <<state, calls, trace>>
  PROVE  Unwinds
BY DEF Unwinds

LEMMA ThrowTraces ==
  ASSUME state = "Running", ThrowAndLeave
  PROVE  Reports
BY DEF ThrowAndLeave, Reports

LEMMA StatementTraces ==
  ASSUME IInv, JInv, Statement
  PROVE  Reports \/ Unwinds
<1>1. CASE BodyNext
  BY <1>1, VisitTraces DEF BodyNext, BodyGoesOn
<1>2. CASE VarNext
  <2>1. state = "Running"
    BY <1>2, AtQuiet DEF VarNext, At
  <2>2. QED
    BY <1>2, <2>1, VisitTraces, ThrowTraces, QuietTraces DEF VarNext
<1>3. CASE VarInit \/ VarEnd \/ BodyEnd \/ IfEnd \/ ShortIfEnd \/ PrintItem \/ ExprStmtEnd
  BY <1>3, QuietTraces
     DEF VarInit, VarEnd, BodyEnd, IfEnd, ShortIfEnd, PrintItem, ExprStmtEnd, Return,
         RestoreAndReturn, Continue
<1>4. CASE IfCond \/ WhileCond
  BY <1>4, QuietTraces, ThrowTraces DEF IfCond, WhileCond, Took, EnterBody, Return
<1>5. CASE ShortIfCond
  BY <1>5, QuietTraces, ThrowTraces, VisitTraces DEF ShortIfCond, Took, Return
<1>6. CASE ForFirst \/ ForLast
  BY <1>6, QuietTraces, ThrowTraces, VisitTraces
     DEF ForFirst, ForLast, Took, ForBegin, Evaluate
<1>7. CASE ForIter \/ LoopIter
  BY <1>7, QuietTraces DEF ForIter, LoopIter, EnterBody, RestoreAndReturn
<1>8. CASE CycleBody
  BY <1>8 DEF CycleBody, Continue, CycleGoesOn, AfterCycle, Unwinds
<1>9. CASE AssignSrc \/ AssignIndex
  BY <1>9, QuietTraces, ThrowTraces DEF AssignSrc, AssignIndex, Took, Return, Continue
<1>10. CASE AssignLast
  <2>1. state \in {"Running", "Throwing"}
    BY <1>10, NoJump DEF AssignLast, At, Pos, Jumping, Controls, LoopKinds
  <2>2. QED
    BY <1>10, <2>1, QuietTraces, ThrowTraces, VisitTraces DEF AssignLast, Return, Evaluate
<1>11. CASE PrintNext
  <2>1. state = "Running"
    BY <1>11, AtQuiet DEF PrintNext, At
  <2>2. QED
    BY <1>11, <2>1, QuietTraces, VisitTraces DEF PrintNext, Return, Evaluate
<1>12. CASE ReturnValue
  BY <1>12 DEF ReturnValue, Took, Unwinds
<1>13. QED
  BY <1>1, <1>2, <1>3, <1>4, <1>5, <1>6, <1>7, <1>8, <1>9, <1>10, <1>11, <1>12 DEF Statement

LEMMA ExpressionTraces ==
  ASSUME IInv, JInv, Expression
  PROVE  Reports \/ Unwinds
<1>1. CASE OperandsNext
  <2>1. state = "Running"
    BY <1>1, AtQuiet DEF OperandsNext, At
  <2>2. QED
    BY <1>1, <2>1, VisitTraces DEF OperandsNext, Evaluate
<1>2. CASE OperandsTook \/ UnaryOperand
  BY <1>2, QuietTraces, ThrowTraces DEF OperandsTook, UnaryOperand, Took, Continue
<1>3. CASE OpError \/ OpsDone \/ Argument
  <2>1. state = "Running"
    BY <1>3, AtQuiet DEF OpError, OpsDone, Argument, AtOps, At
  <2>2. QED
    BY <1>3, <2>1, QuietTraces, ThrowTraces, VisitTraces DEF OpError, OpsDone, Argument
<1>4. CASE ArgumentEnd
  BY <1>4, QuietTraces DEF ArgumentEnd
<1>5. CASE CallClosure
  <2>1. state = "Running"
    BY <1>5, AtQuiet DEF CallClosure, At
  <2>2. UNCHANGED <<state, trace>>
    BY <1>5 DEF CallClosure
  <2>3. QED
    BY <2>1, <2>2 DEF Unwinds
<1>6. CASE ShortBody
  <2>1. state = "Running"
    BY <1>6, AtQuiet DEF ShortBody, At
  <2>2. QED
    BY <1>6, <2>1, VisitTraces DEF ShortBody
<1>7. CASE CallEnd
  <2>1. frames # <<>> /\ IsCall(Top)
    BY <1>7 DEF CallEnd, At, IsCall, CallPcs
  <2>2. calls # <<>>
    BY <2>1, CallOpenNow
  <2>3. /\ trace' = trace /\ calls' = Front(calls) /\ state' = AfterCall
    BY <1>7 DEF CallEnd, Popped
  <2>4. QED
    BY <2>2, <2>3 DEF AfterCall, Unwinds
<1>8. QED
  BY <1>1, <1>2, <1>3, <1>4, <1>5, <1>6, <1>7 DEF Expression

LEMMA NextTraces ==
  ASSUME IInv, JInv, [Next]_vars
  PROVE  Reports \/ Unwinds
<1>1. CASE Propagate
  BY <1>1, QuietTraces DEF Propagate, Return
<1>2. CASE FirstExpression
  <2>1. PICK k, pc : At(k, "start") /\ Evaluate(pc)
    BY <1>2 DEF FirstExpression
  <2>2. state = "Running"
    BY <2>1, AtQuiet DEF At
  <2>3. QED
    BY <2>1, <2>2, VisitTraces DEF Evaluate
<1>3. CASE UNCHANGED vars
  BY <1>3, QuietTraces DEF vars
<1>4. QED
  BY <1>1, <1>2, <1>3, StatementTraces, ExpressionTraces DEF Next, Terminated

\* The entries of a trace are the first and the last of the call stack.
TraceExtends(t, cs) ==
  LET shown == Len(t.entries)
      all == shown + t.skipped
      first == IF t.skipped = 0 THEN shown ELSE t.sep
  IN /\ Len(cs) <= all
     /\ shown <= TraceLimit
     /\ \A i \in DOMAIN cs :
          /\ i <= first => t.entries[i] = cs[i]
          /\ i > first + t.skipped => t.entries[i - t.skipped] = cs[i]

LEMMA ReportExtends ==
  ASSUME NEW cs \in Seq(Sites)
  PROVE  TraceExtends(Report(cs), cs)
<1> DEFINE n == Len(cs)
           h == TraceLimit \div 2
           r == TraceLimit - h
<1>1. n \in Nat /\ DOMAIN cs = 1 .. n
  BY LenProperties
<1>2. h \in Nat /\ r \in Nat /\ h + r = TraceLimit /\ TraceLimit \in Nat
  <2>1. TraceLimit \in Nat
    BY ConstantsAssumption
  <2>2. h \in Nat /\ h <= TraceLimit
    BY <2>1
  <2>3. QED
    BY <2>1, <2>2
<1>3. CASE n <= TraceLimit
  <2>1. Report(cs) = [entries |-> cs, sep |-> 0, skipped |-> 0]
    BY <1>3 DEF Report
  <2>2. QED
    BY <1>1, <1>3, <2>1 DEF TraceExtends
<1>4. CASE n > TraceLimit
  <2> DEFINE a == SubSeq(cs, 1, h)
             b == SubSeq(cs, n - r + 1, n)
  <2>1. Report(cs) = [entries |-> a \o b, sep |-> h, skipped |-> n - TraceLimit]
    BY <1>1, <1>2, <1>4 DEF Report
  <2> HIDE DEF n, h, r
  <2>2. \A i \in 1 .. h : cs[i] \in Sites
    BY <1>1, <1>2, <1>4, ElementOfSeq DEF n
  <2>3. \A i \in n - r + 1 .. n : cs[i] \in Sites
    BY <1>1, <1>2, <1>4, ElementOfSeq DEF n
  <2>4. /\ a \in Seq(Sites) /\ Len(a) = IF 1 <= h THEN h - 1 + 1 ELSE 0
        /\ \A i \in 1 .. h - 1 + 1 : a[i] = cs[1 + i - 1]
    BY <1>2, <2>2, SubSeqProperties
  <2>5. /\ b \in Seq(Sites) /\ Len(b) = IF n - r + 1 <= n THEN n - (n - r + 1) + 1 ELSE 0
        /\ \A i \in 1 .. n - (n - r + 1) + 1 : b[i] = cs[(n - r + 1) + i - 1]
    BY <1>1, <1>2, <2>3, SubSeqProperties
  <2> HIDE DEF a, b
  <2>6. Len(a) = h /\ Len(b) = r
    BY <1>1, <1>2, <2>4, <2>5
  <2>7. /\ Len(a \o b) = h + r
        /\ \A i \in 1 .. h + r : (a \o b)[i] = IF i <= h THEN a[i] ELSE b[i - h]
    <3>1. a \in Seq(Sites) /\ b \in Seq(Sites)
      BY <2>4, <2>5
    <3>2. QED
      BY <2>6, <3>1, ConcatProperties
  <2>8. ASSUME NEW i \in 1 .. n, i <= h PROVE (a \o b)[i] = cs[i]
    <3>1. i \in 1 .. h + r /\ i \in 1 .. h - 1 + 1 /\ 1 + i - 1 = i
      BY <1>1, <1>2, <2>8
    <3>2. QED
      BY <2>4, <2>7, <2>8, <3>1
  <2>9. ASSUME NEW i \in 1 .. n, i > h + (n - TraceLimit)
        PROVE  (a \o b)[i - (n - TraceLimit)] = cs[i]
    <3> DEFINE j == i - (n - TraceLimit)
    <3>1. j \in 1 .. h + r /\ ~(j <= h) /\ j - h \in 1 .. n - (n - r + 1) + 1
      BY <1>1, <1>2, <1>4, <2>9
    <3>2. (n - r + 1) + (j - h) - 1 = i
      BY <1>1, <1>2, <1>4, <2>9
    <3> HIDE DEF j
    <3>3. (a \o b)[j] = b[j - h] /\ b[j - h] = cs[(n - r + 1) + (j - h) - 1]
      BY <2>5, <2>7, <3>1
    <3>4. QED
      BY <3>2, <3>3 DEF j
  <2> DEFINE t == [entries |-> a \o b, sep |-> h, skipped |-> n - TraceLimit]
  <2>10. t.entries = a \o b /\ t.sep = h /\ t.skipped = n - TraceLimit /\ t.skipped # 0
    BY <1>1, <1>2, <1>4
  <2> HIDE DEF t
  <2>11. Len(t.entries) = TraceLimit /\ Len(t.entries) + t.skipped = n
    BY <1>1, <1>2, <1>4, <2>7, <2>10
  <2>12. TraceExtends(t, cs)
    <3>1. \A i \in 1 .. n : /\ i <= h => t.entries[i] = cs[i]
                            /\ i > h + t.skipped => t.entries[i - t.skipped] = cs[i]
      BY <2>8, <2>9, <2>10
    <3>2. DOMAIN cs = 1 .. n /\ Len(cs) = n
      BY <1>1 DEF n
    <3>3. /\ Len(cs) <= Len(t.entries) + t.skipped /\ Len(t.entries) <= TraceLimit
          /\ (IF t.skipped = 0 THEN Len(t.entries) ELSE t.sep) = h
      BY <1>1, <1>2, <2>10, <2>11, <3>2
    <3>4. QED
      BY <3>1, <3>2, <3>3 DEF TraceExtends
  <2>13. QED
    BY <2>1, <2>12 DEF t
<1>5. QED
  BY <1>1, <1>2, <1>3, <1>4

LEMMA FrontExtends ==
  ASSUME NEW t \in Traces, NEW cs \in Seq(Sites), cs # <<>>, TraceExtends(t, cs)
  PROVE  TraceExtends(t, Front(cs))
<1>1. /\ Len(cs) \in Nat \ {0} /\ Front(cs) \in Seq(Sites) /\ Len(Front(cs)) = Len(cs) - 1
      /\ \A i \in 1 .. Len(cs) - 1 : Front(cs)[i] = cs[i]
  BY FrontLast
<1>2. DOMAIN Front(cs) = 1 .. Len(cs) - 1 /\ DOMAIN cs = 1 .. Len(cs)
  BY <1>1, LenProperties
<1>3. t.entries \in Seq(Sites) /\ t.skipped \in Nat /\ Len(t.entries) \in Nat /\ t.sep \in Nat
  BY LenProperties DEF Traces
<1>4. \A i \in 1 .. Len(cs) - 1 : i \in 1 .. Len(cs)
  BY <1>1
<1> DEFINE first == IF t.skipped = 0 THEN Len(t.entries) ELSE t.sep
<1>5. /\ Len(cs) <= Len(t.entries) + t.skipped /\ Len(t.entries) <= TraceLimit
      /\ \A i \in 1 .. Len(cs) :
           /\ i <= first => t.entries[i] = cs[i]
           /\ i > first + t.skipped => t.entries[i - t.skipped] = cs[i]
  BY <1>2 DEF TraceExtends
<1> HIDE DEF first
<1>6. \A i \in 1 .. Len(cs) - 1 :
        /\ i <= first => t.entries[i] = Front(cs)[i]
        /\ i > first + t.skipped => t.entries[i - t.skipped] = Front(cs)[i]
  BY <1>1, <1>4, <1>5
<1>7. Len(Front(cs)) <= Len(t.entries) + t.skipped
  BY <1>1, <1>3, <1>5
<1>8. QED
  BY <1>2, <1>5, <1>6, <1>7 DEF TraceExtends, first

-----------------------------------------------------------------------------
(* While unwinding, no executor gains a scope.                             *)

\* No executor of es has more scopes than it has now, and none is new.
Fewer(es) ==
  /\ Len(es) <= Len(execs)
  /\ \A e \in DOMAIN es : Len(es[e].scopes) <= Len(execs[e].scopes)

LEMMA ScopeCounts ==
  ASSUME IInv, NEW e \in 1 .. Len(execs)
  PROVE  Len(execs[e].scopes) \in Nat
<1>1. execs[e] \in Executors
  BY ExecsNonEmpty, ElementOfSeq
<1>2. execs[e].scopes \in Seq(SUBSET Names)
  BY <1>1 DEF Executors, Chains
<1>3. QED
  BY <1>2, LenProperties

LEMMA SameFewer ==
  ASSUME IInv, NEW es, SameScopes(es)
  PROVE  Fewer(es)
<1>1. Len(es) = Len(execs) /\ DOMAIN es = 1 .. Len(execs) /\ Len(execs) \in Nat
  BY ExecsNonEmpty, LenProperties DEF SameScopes
<1>2. QED
  BY <1>1, ScopeCounts DEF SameScopes, Fewer

LEMMA FrontFewer ==
  ASSUME IInv
  PROVE  Fewer(Front(execs))
<1>1. /\ Len(execs) \in Nat \ {0} /\ Front(execs) \in Seq(Executors)
      /\ Len(Front(execs)) = Len(execs) - 1
      /\ \A e \in 1 .. Len(execs) - 1 : Front(execs)[e] = execs[e]
  BY ExecsNonEmpty, FrontLast
<1>2. DOMAIN Front(execs) = 1 .. Len(execs) - 1
  BY <1>1, LenProperties
<1>3. \A e \in 1 .. Len(execs) - 1 : e \in 1 .. Len(execs)
  BY <1>1
<1>4. QED
  BY <1>1, <1>2, <1>3, ScopeCounts DEF Fewer

LEMMA RestoredFewer ==
  ASSUME IInv, SInv, frames # <<>>, Saves(Top)
  PROVE  Fewer(RestoredScopes)
<1> DEFINE m == Len(execs)
<1>1. Top \in Frame /\ Leave \in Seq(Frame) /\ frames = Append(Leave, Top)
  BY TopAndBelow
<1>2. Top.at \notin OpenPcs
  BY <1>1, FrameFacts
<1>3. Innermost(Leave) = m /\ execs \in Seq(Executors) /\ m \in Nat \ {0}
  BY <1>2, InnermostNow
<1>4. /\ Standing(Leave, execs, Top) /\ Depth(Leave, execs, m) \in Nat
      /\ Len(execs[m].scopes) = Depth(Leave, execs, m) + One(HoldsScope(Top))
  BY <1>1, <1>2, <1>3, BelowTop DEF SInv
<1>5. Len(Top.prev) = Depth(Leave, execs, m)
  BY <1>3, <1>4 DEF Standing, Saved
<1>6. Len(Top.prev) <= Len(execs[m].scopes)
  BY <1>4, <1>5 DEF One
<1>7. SameBelow(execs, RestoredScopes, m) /\ RestoredScopes[m].scopes = Top.prev
  BY RestoredFacts
<1>8. DOMAIN RestoredScopes = 1 .. m /\ Len(RestoredScopes) = m
  BY <1>7, LenProperties DEF SameBelow
<1> HIDE DEF m
<1>9. \A e \in 1 .. m : Len(RestoredScopes[e].scopes) <= Len(execs[e].scopes)
  <2> TAKE e \in 1 .. m
  <2>1. CASE e = m
    BY <1>6, <1>7, <2>1
  <2>2. CASE e # m
    <3>1. e \in 1 .. m - 1 /\ Len(execs[e].scopes) \in Nat
      BY <1>3, <2>2, ScopeCounts DEF m
    <3>2. QED
      BY <1>7, <3>1 DEF SameBelow
  <2>3. QED
    BY <2>1, <2>2
<1>10. QED
  BY <1>3, <1>8, <1>9 DEF Fewer, m

LEMMA UnwindsFewer ==
  ASSUME IInv, JInv, SInv, Next, state # "Running"
  PROVE  Fewer(execs')
<1>1. frames # <<>> => Top.at \notin {"start", "next", "iter", "ops", "begin"}
  BY AtQuiet
<1>2. CASE Propagate
  BY <1>2, HasValueFacts, SameFewer DEF Propagate, Return
<1>3. CASE FirstExpression
  BY <1>1, <1>3 DEF FirstExpression, At
<1>4. CASE Statement
  <2>1. \/ BodyEnd \/ IfEnd \/ ShortIfEnd \/ CycleBody \/ AssignLast \/ ExprStmtEnd
    BY <1>1, <1>4 DEF Statement, BodyNext, BodyGoesOn, VarNext, VarInit, VarEnd, IfCond,
       ShortIfCond, WhileCond, ForFirst, ForLast, ForIter, LoopIter, AssignSrc, AssignIndex,
       PrintNext, PrintItem, ReturnValue, Took, At
  <2>2. CASE BodyEnd
    BY <2>2, RestoredFewer DEF BodyEnd, At, RestoreAndReturn, Saves
  <2>3. CASE ShortIfEnd
    BY <2>3, RestoredFewer DEF ShortIfEnd, At, RestoreAndReturn, Saves, Pos
  <2>4. CASE IfEnd
    BY <2>4, SameScopesNow, SameFewer DEF IfEnd, Return
  <2>5. CASE CycleBody
    <3>1. PICK k \in LoopKinds :
            /\ At(k, "body")
            /\ execs' = IF k = "For" THEN RestoredScopes ELSE execs
      BY <2>5 DEF CycleBody, CycleGoesOn
    <3>2. CASE k = "For"
      BY <3>1, <3>2, RestoredFewer DEF At, Saves
    <3>3. CASE k # "For"
      BY <3>1, <3>3, SameScopesNow, SameFewer
    <3>4. QED
      BY <3>2, <3>3
  <2>6. CASE AssignLast
    <3>1. state = "Throwing"
      BY <2>6, NoJump DEF AssignLast, At, Pos, Jumping, Controls, LoopKinds
    <3>2. QED
      BY <2>6, <3>1, SameScopesNow, SameFewer DEF AssignLast, Return
  <2>7. CASE ExprStmtEnd
    BY <2>7, HasValueFacts, SameFewer DEF ExprStmtEnd, Return
  <2>8. QED
    BY <2>1, <2>2, <2>3, <2>4, <2>5, <2>6, <2>7
<1>5. CASE Expression
  <2>1. ArgumentEnd \/ CallEnd
    BY <1>1, <1>5 DEF Expression, OperandsNext, OperandsTook, UnaryOperand, OpError, OpsDone,
       Argument, CallClosure, ShortBody, AtOps, Took, At
  <2>2. QED
    BY <2>1, FrontFewer DEF ArgumentEnd, CallEnd
<1>6. CASE Terminated
  BY <1>6, SameScopesNow, SameFewer DEF Terminated, vars
<1>7. QED
  BY <1>2, <1>3, <1>4, <1>5, <1>6 DEF Next

LEMMA FrontIsPrefix ==
  ASSUME NEW cs \in Seq(Sites)
  PROVE  IsPrefix(cs, cs) /\ (cs # <<>> => IsPrefix(Front(cs), cs))
<1>1. Len(cs) \in Nat
  BY LenProperties
<1>2. IsPrefix(cs, cs)
  BY <1>1 DEF IsPrefix
<1>3. ASSUME cs # <<>> PROVE IsPrefix(Front(cs), cs)
  <2>1. /\ Len(Front(cs)) = Len(cs) - 1 /\ Front(cs) = SubSeq(cs, 1, Len(cs) - 1)
        /\ Front(cs) \in Seq(Sites)
    BY <1>3, FrontLast DEF Front
  <2>2. SubSeq(Front(cs), 1, Len(Front(cs))) = Front(cs)
    BY <2>1, SubSeqFull
  <2>3. QED
    BY <1>1, <2>1, <2>2 DEF IsPrefix
<1>4. QED
  BY <1>2, <1>3

-----------------------------------------------------------------------------
(* The theorems.                                                           *)

LEMMA InitSInv == Init => SInv
<1> SUFFICES ASSUME Init PROVE SInv
  OBVIOUS
<1> DEFINE root == <<RootNames>>
           f == NewFrame("Body", root)
           e == NewExec(root)
           e2 == NewExec(<<RootNames, {}>>)
           es == <<e>>
           es2 == <<e2>>
<1>1. root \in Chains /\ Len(root) = 1 /\ <<RootNames, {}>> \in Chains
  BY ConstantsAssumption DEF Chains
<1>2. f \in Frame /\ f.kind = "Body" /\ f.prev = root /\ Pos(f) = <<"Body", "run">>
  BY <1>1, NewFrameType DEF NewFrame, Kinds, Pos, FirstPc
<1>3. e \in Executors /\ e.scopes = root /\ e2 \in Executors /\ e2.scopes = <<RootNames, {}>>
  BY <1>1, NewExecFacts
<1>4. frames = Append(<<>>, f) /\ execs = es2 /\ <<>> \in Seq(Frame)
  BY EmptySeq DEF Init
<1>5. /\ es \in Seq(Executors) /\ Len(es) = 1 /\ es[1] = e
      /\ es2 \in Seq(Executors) /\ Len(es2) = 1 /\ es2[1] = e2
  BY <1>3
<1> HIDE DEF f, e, e2, es, es2
<1>6. Count(<<>>, OpenPcs) = 0 /\ Innermost(<<>>) = 1
  <2>1. {i \in DOMAIN <<>> : <<>>[i].at \in OpenPcs} = {}
    OBVIOUS
  <2>2. Count(<<>>, OpenPcs) = 0
    BY <2>1, FS_EmptySet DEF Count
  <2>3. QED
    BY <2>2 DEF Innermost
<1>7. Depth(<<>>, es, 1) = 1
  <2>1. {i \in DOMAIN <<>> : OwnerIn(<<>>, i) = 1 /\ HoldsScope(<<>>[i])} = {}
    OBVIOUS
  <2>2. Held(<<>>, 1) = 0
    BY <2>1, FS_EmptySet DEF Held
  <2>3. QED
    BY <2>2 DEF Depth, Base
<1>8. Pending(<<>>, 1) = {}
  BY DEF Pending
<1>9. Fits(<<>>, es) /\ Idle(<<>>)
  <2>1. Under(<<>>, es)
    BY <1>6 DEF Under
  <2>2. Len(es[1].scopes) = Depth(<<>>, es, 1) /\ es[1].scopes # <<>>
    <3>1. es[1].scopes = root
      BY <1>3, <1>5
    <3>2. Len(root) = 1 /\ root # <<>>
      BY <1>1
    <3>3. QED
      BY <1>7, <3>1, <3>2
  <2>3. ExecFits(<<>>, es, 1)
    BY <1>8, <2>2 DEF ExecFits
  <2>4. Innermost(<<>>) = 1
    BY <1>6
  <2>5. Fits(<<>>, es)
    BY Zenon, <2>1, <2>3, <2>4 DEF Fits
  <2>6. Idle(<<>>)
    BY <1>8, <2>4 DEF Idle
  <2>7. QED
    BY <2>5, <2>6
<1>10. SameBelow(es, es2, 1)
  BY <1>5 DEF SameBelow
<1>11. Saves(f) /\ HoldsScope(f) /\ ~Takes(f)
  BY <1>2 DEF Saves, HoldsScope, Takes, TakesValue, Pos
<1>12. Len(es2[1].scopes) = Len(es[1].scopes) + One(HoldsScope(f))
  <2>1. Len(<<RootNames, {}>>) = 2
    OBVIOUS
  <2>2. Len(e2.scopes) = 2 /\ Len(e.scopes) = 1
    BY <1>1, <1>3, <2>1
  <2>3. One(HoldsScope(f)) = 1
    BY <1>11 DEF One
  <2>4. Len(es2[1].scopes) = 2 /\ Len(es[1].scopes) = 1
    BY <1>5, <2>2
  <2>5. QED
    BY <2>3, <2>4
<1>13. Fits(Append(<<>>, f), es2)
  BY <1>2, <1>3, <1>4, <1>5, <1>6, <1>9, <1>10, <1>11, <1>12, PushSaves
<1>14. Last(Append(<<>>, f)) = f
  BY <1>2, <1>4, Appended
<1>15. QED
  BY <1>4, <1>11, <1>13, <1>14 DEF SInv, HasWhatItTakes, Top

\* SInv is an invariant: what each activation has saved, and what executors
\* have, by the activations they serve.
THEOREM ScopesFit == Spec => [](IInv /\ JInv /\ SInv)
<1>1. Spec => [](IInv /\ JInv)
  BY JumpsFit
<1>2. Spec => []SInv
  BY <1>1, InitSInv, SInvStep, PTL DEF Spec
<1>3. QED
  BY <1>1, <1>2, PTL

\* Whatever the program, and whichever jumps and errors have left the blocks
\* before, every executor has one scope per block it is inside.
THEOREM OneScopePerBlock == Spec => []ScopePerBlock
<1>1. ASSUME IInv, SInv PROVE ScopePerBlock
  <2>1. Innermost(frames) = Len(execs) /\ DOMAIN execs = 1 .. Len(execs) /\ Len(execs) \in Nat \ {0}
    BY <1>1, InnermostNow, LenProperties
  <2>2. ASSUME NEW e \in 1 .. Len(execs)
        PROVE  Len(execs[e].scopes) = Depth(frames, execs, e)
    <3>1. e \in 1 .. Count(frames, OpenPcs) \/ e = Innermost(frames)
      <4>1. Count(frames, OpenPcs) \in Nat
        BY <1>1, OpensNat
      <4>2. Len(execs) = Count(frames, OpenPcs) + 1
        BY <2>1, <4>1 DEF Innermost
      <4>3. QED
        BY <2>1, <4>1, <4>2
    <3>2. ExecFits(frames, execs, e)
      BY <1>1, <3>1 DEF SInv, Fits, Under
    <3>3. QED
      BY <3>2 DEF ExecFits
  <2>3. \A i : Owner(i) = OwnerIn(frames, i)
    BY DEF Owner, OwnerIn, OpensExecutor
  <2>4. ASSUME NEW e
        PROVE  Depth(frames, execs, e) =
                 InitialScopes(e)
                 + Cardinality({i \in DOMAIN frames : Owner(i) = e /\ HoldsScope(frames[i])})
    <3>1. {i \in DOMAIN frames : Owner(i) = e /\ HoldsScope(frames[i])}
            = {i \in DOMAIN frames : OwnerIn(frames, i) = e /\ HoldsScope(frames[i])}
      BY <2>3
    <3>2. ForArgument(e) <=> ArgumentIn(frames, e)
      BY <2>3 DEF ForArgument, ArgumentIn
    <3>3. QED
      BY <3>1, <3>2 DEF Depth, Base, Held, InitialScopes
  <2>5. QED
    BY <2>1, <2>2, <2>4 DEF ScopePerBlock
<1>2. QED
  BY <1>1, ScopesFit, PTL

\* Whatever the program, ExpressionValue() is only asked for a value that is
\* there, no `exit` leaves a function, no name is declared twice in a scope
\* and Pop finds an entry: none of the C++ exceptions is thrown.
THEOREM NeverThrowsCppException == Spec => []NoCppException
<1>1. ASSUME IInv, JInv, SInv, frames # <<>>
      PROVE  /\ Pos(Top) \in TakesValue /\ state = "Running" => Exec.value
             /\ Top.at \in {"arg", "short"} /\ state # "Throwing" => Exec.value
             /\ ~(Top.at = "long" /\ state = "Exiting")
             /\ Pos(Top) = <<"Var", "init">> => ~Taken(Top.name)
             /\ IsCall(Top) => calls # <<>>
  <2>1. Top \in Frame /\ Leave \in Seq(Frame) /\ frames = Append(Leave, Top)
    BY <1>1, TopAndBelow
  <2>2. Pos(Top) \in TakesValue /\ state = "Running" => Exec.value
    BY <1>1 DEF SInv, HasWhatItTakes, Takes
  <2>3. Top.at \in {"arg", "short"} /\ state # "Throwing" => Exec.value
    <3> SUFFICES ASSUME Top.at \in {"arg", "short"}, state # "Throwing" PROVE Exec.value
      OBVIOUS
    <3>1. state = "Running"
      BY <1>1, NoJump DEF Pos, Jumping, Controls, LoopKinds
    <3>2. QED
      BY <1>1, <3>1 DEF SInv, HasWhatItTakes, Takes
  <2>4. ~(Top.at = "long" /\ state = "Exiting")
    <3> SUFFICES ASSUME Top.at = "long", state = "Exiting" PROVE FALSE
      OBVIOUS
    <3>1. CycleOpen(Append(Leave, Top))
      BY <1>1, <2>1 DEF JInv, StateFits
    <3>2. RunsBody(Top) \/ Top.at \notin CallPcs
      BY <2>1, <3>1, CycleOpenAppended
    <3>3. QED
      BY <3>2 DEF RunsBody, CallPcs
  <2>5. Pos(Top) = <<"Var", "init">> => ~Taken(Top.name)
    <3> SUFFICES ASSUME Declares(Top) PROVE ~Taken(Top.name)
      BY DEF Declares
    <3>1. Top.at \notin OpenPcs
      BY <2>1, FrameFacts
    <3>2. Innermost(Leave) = Len(execs) /\ execs \in Seq(Executors) /\ Exec = execs[Len(execs)]
      BY <1>1, <3>1, InnermostNow
    <3>3. Waits(Top) \cap Last(execs[Len(execs)].scopes) = {}
      BY <1>1, <2>1, <3>1, <3>2, BelowTop DEF SInv
    <3>4. QED
      BY <3>2, <3>3 DEF Waits, Taken
  <2>6. IsCall(Top) => calls # <<>>
    BY <1>1, CallOpenNow
  <2>7. QED
    BY <2>2, <2>3, <2>4, <2>5, <2>6
<1>2. IInv /\ JInv /\ SInv => NoCppException
  BY <1>1 DEF NoCppException
<1>3. QED
  BY <1>2, ScopesFit, PTL

\* Whatever the program and the limits, the entries that an error shows are
\* the outermost and innermost calls active when it occurred: those that are
\* still active agree with them until the end of Run.
THEOREM TraceIsOfCalls == Spec => []TraceExtendsCalls
<1>1. TraceExtendsCalls <=> (state = "Throwing" => TraceExtends(trace, calls))
  BY DEF TraceExtendsCalls, TraceExtends
<1>2. TraceExtendsCalls' <=> (state' = "Throwing" => TraceExtends(trace', calls'))
  BY DEF TraceExtendsCalls, TraceExtends
<1>3. Init => TraceExtendsCalls
  BY DEF Init, TraceExtendsCalls
<1>4. ASSUME IInv, IInv', JInv, TraceExtendsCalls, [Next]_vars PROVE TraceExtendsCalls'
  <2>1. calls \in Seq(Sites) /\ calls' \in Seq(Sites) /\ trace \in Traces
    BY <1>4 DEF IInv, TypeOK
  <2>2. CASE Reports
    BY <1>2, <2>1, <2>2, ReportExtends DEF Reports, SetThrowingState
  <2>3. CASE Unwinds
    <3> SUFFICES ASSUME state' = "Throwing" PROVE TraceExtends(trace', calls')
      BY <1>2
    <3>1. /\ trace' = trace /\ TraceExtends(trace, calls)
          /\ calls' = calls \/ (calls # <<>> /\ calls' = Front(calls))
      BY <1>1, <1>4, <2>3 DEF Unwinds
    <3>2. QED
      BY <2>1, <3>1, FrontExtends
  <2>4. QED
    BY <1>4, <2>2, <2>3, NextTraces
<1>5. IInv /\ JInv /\ IInv' /\ TraceExtendsCalls /\ [Next]_vars => TraceExtendsCalls'
  BY <1>4
<1>6. QED
  BY <1>3, <1>5, JumpsFit, PTL DEF Spec

\* Whatever the program, while a jump or an error is under way activations,
\* executors and calls only go away, no executor gains a scope, and an error
\* keeps its trace.
THEOREM UnwindsOnly == Spec => AbruptOnlyUnwinds
<1> DEFINE A == state # "Running" =>
                  /\ Len(frames') < Len(frames) \/ state' = "Running"
                  /\ Len(execs') <= Len(execs)
                  /\ \A e \in DOMAIN execs' : Len(execs'[e].scopes) <= Len(execs[e].scopes)
                  /\ IsPrefix(calls', calls)
                  /\ state = "Throwing" => UNCHANGED <<state, trace>>
<1>1. ASSUME IInv, JInv, SInv, [Next]_vars PROVE [A]_vars
  <2> SUFFICES ASSUME Next, ~UNCHANGED vars, state # "Running" PROVE A
    BY <1>1
  <2>1. Len(frames') < Len(frames) \/ state' = "Running"
    <3>1. Finishes \/ Leaves
      BY <1>1, NextKind DEF Classified, Stays, Enters
    <3>2. CASE Leaves
      BY <1>1, <3>2, TopAndBelow DEF Leaves
    <3>3. QED
      BY <3>1, <3>2 DEF Finishes
  <2>2. Fewer(execs')
    BY <1>1, UnwindsFewer
  <2>3. Unwinds
    BY <1>1, NextTraces DEF Reports
  <2>4. IsPrefix(calls', calls)
    <3>1. calls \in Seq(Sites)
      BY <1>1 DEF IInv, TypeOK
    <3>2. calls' = calls \/ (calls # <<>> /\ calls' = Front(calls))
      BY <2>3 DEF Unwinds
    <3>3. QED
      BY <3>1, <3>2, FrontIsPrefix
  <2>5. state = "Throwing" => UNCHANGED <<state, trace>>
    BY <2>3 DEF Unwinds
  <2>6. QED
    BY <2>1, <2>2, <2>4, <2>5 DEF Fewer
<1>2. IInv /\ JInv /\ SInv /\ [Next]_vars => [A]_vars
  BY <1>1
<1>3. QED
  BY <1>2, ScopesFit, PTL DEF Spec, AbruptOnlyUnwinds
=============================================================================
