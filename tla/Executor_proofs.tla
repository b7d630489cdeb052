--------------------------- MODULE Executor_proofs ---------------------------
(***************************************************************************)
(* For every program and all values of the constants:                      *)
(*  - Executor keeps its types, has one executor per evaluation nested in  *)
(*    its own, and its call stack has one entry per closure that is being  *)
(*    executed;                                                            *)
(*  - `exit` and `return` under way have a cycle or a call that will take  *)
(*    them, and what the interpreter does with its cycles and calls is     *)
(*    what ControlFlow allows.  Both follow from which activations can     *)
(*    stand on which: how the visitors call each other.                    *)
(***************************************************************************)
EXTENDS Executor, FiniteSetTheorems, SequenceTheorems, WellFoundedInduction, TLAPS

\* How many activations of fs are at one of the points pcs.
Count(fs, pcs) == Cardinality({i \in DOMAIN fs : fs[i].at \in pcs})

-----------------------------------------------------------------------------
(* Sequences and their last element.                                       *)

\* A sequence is its front and its last element.
LEMMA FrontLast ==
  ASSUME NEW S, NEW s \in Seq(S), s # <<>>
  PROVE  /\ Len(s) \in Nat \ {0}
         /\ Last(s) \in S
         /\ Front(s) \in Seq(S)
         /\ Len(Front(s)) = Len(s) - 1
         /\ \A i \in 1 .. Len(s) - 1 : Front(s)[i] = s[i]
         /\ Append(Front(s), Last(s)) = s
<1>1. Len(s) \in Nat \ {0} /\ \A i \in 1 .. Len(s) : s[i] \in S
  BY EmptySeq, ElementOfSeq
<1>2. /\ Front(s) \in Seq(S)
      /\ Len(Front(s)) = Len(s) - 1
      /\ \A i \in 1 .. Len(s) - 1 : Front(s)[i] = s[i]
  <2>1. PICK m \in Nat : m = Len(s) - 1
    BY <1>1
  <2>2. \A i \in 1 .. m : s[i] \in S
    BY <1>1, <2>1
  <2>3. /\ SubSeq(s, 1, m) \in Seq(S)
        /\ Len(SubSeq(s, 1, m)) = IF 1 <= m THEN m - 1 + 1 ELSE 0
        /\ \A i \in 1 .. m - 1 + 1 : SubSeq(s, 1, m)[i] = s[1 + i - 1]
    BY <2>2, SubSeqProperties
  <2>4. Len(SubSeq(s, 1, m)) = m
    BY <2>3
  <2>5. \A i \in 1 .. m : SubSeq(s, 1, m)[i] = s[i]
    <3> TAKE i \in 1 .. m
    <3>1. i \in 1 .. m - 1 + 1 /\ 1 + i - 1 = i
      OBVIOUS
    <3>2. QED
      BY <2>3, <3>1
  <2>6. Front(s) = SubSeq(s, 1, m)
    BY <2>1 DEF Front
  <2>7. QED
    BY <2>1, <2>3, <2>4, <2>5, <2>6
<1>3. Last(s) \in S
  BY <1>1 DEF Last
<1>4. Append(Front(s), Last(s)) = s
  <2>1. /\ Append(Front(s), Last(s)) \in Seq(S)
        /\ Len(Append(Front(s), Last(s))) = Len(s)
        /\ \A i \in 1 .. Len(s) - 1 : Append(Front(s), Last(s))[i] = s[i]
        /\ Append(Front(s), Last(s))[Len(s)] = s[Len(s)]
    BY <1>1, <1>2, <1>3, AppendProperties DEF Last
  <2>2. QED
    BY <1>1, <2>1, SeqEqual
<1>5. QED
  BY <1>1, <1>2, <1>3, <1>4

\* Replacing the last element.
LEMMA SetLast ==
  ASSUME NEW S, NEW s \in Seq(S), s # <<>>, NEW e \in S
  PROVE  /\ [s EXCEPT ![Len(s)] = e] \in Seq(S)
         /\ Len([s EXCEPT ![Len(s)] = e]) = Len(s)
         /\ [s EXCEPT ![Len(s)] = e] = Append(Front(s), e)
<1> DEFINE t == [s EXCEPT ![Len(s)] = e]
<1>1. Len(s) \in Nat \ {0} /\ Len(s) \in 1 .. Len(s)
  BY FrontLast
<1>2. /\ t \in Seq(S) /\ Len(t) = Len(s)
      /\ \A j \in 1 .. Len(s) : t[j] = IF j = Len(s) THEN e ELSE s[j]
  BY <1>1, ExceptSeq
<1>3. /\ Front(s) \in Seq(S) /\ Len(Front(s)) = Len(s) - 1
      /\ \A i \in 1 .. Len(s) - 1 : Front(s)[i] = s[i]
  BY FrontLast
<1>4. /\ Append(Front(s), e) \in Seq(S)
      /\ Len(Append(Front(s), e)) = Len(s)
      /\ \A i \in 1 .. Len(s) - 1 : Append(Front(s), e)[i] = s[i]
      /\ Append(Front(s), e)[Len(s)] = e
  BY <1>1, <1>3, AppendProperties
<1>5. t = Append(Front(s), e)
  <2>1. \A i \in 1 .. Len(t) : t[i] = Append(Front(s), e)[i]
    <3> TAKE i \in 1 .. Len(t)
    <3>1. CASE i = Len(s)
      BY <1>1, <1>2, <1>4, <3>1
    <3>2. CASE i # Len(s)
      <4>1. i \in 1 .. Len(s)
        BY <1>2
      <4>2. i \in 1 .. Len(s) - 1
        BY <1>1, <3>2, <4>1
      <4>3. QED
        BY <1>2, <1>3, <1>4, <3>2, <4>1, <4>2
    <3>3. QED
      BY <3>1, <3>2
  <2>2. QED
    BY <1>2, <1>4, <2>1, SeqEqual
<1>6. QED
  BY <1>2, <1>5

-----------------------------------------------------------------------------
(* Counting.                                                               *)

LEMMA CountAppend ==
  ASSUME NEW fs \in Seq(Frame), NEW f \in Frame, NEW pcs
  PROVE  /\ Count(fs, pcs) \in Nat
         /\ Count(Append(fs, f), pcs) = Count(fs, pcs) + (IF f.at \in pcs THEN 1 ELSE 0)
<1> DEFINE Those(s) == {i \in DOMAIN s : s[i].at \in pcs}
           gs == Append(fs, f)
           n == Len(fs) + 1
<1>1. n \in Nat /\ DOMAIN fs = 1 .. Len(fs) /\ DOMAIN gs = 1 .. n
      /\ \A i \in 1 .. Len(fs) : gs[i] = fs[i]
      /\ gs[n] = f
  OBVIOUS
<1>2. IsFiniteSet(Those(fs)) /\ n \notin Those(fs)
  <2>1. Those(fs) \subseteq 1 .. Len(fs)
    BY <1>1
  <2>2. IsFiniteSet(1 .. Len(fs))
    BY FS_Interval
  <2>3. QED
    BY <1>1, <2>1, <2>2, FS_Subset
<1>3. Count(fs, pcs) \in Nat
  BY <1>2, FS_CardinalityType DEF Count
<1>4. Those(gs) = IF f.at \in pcs THEN Those(fs) \cup {n} ELSE Those(fs)
  BY <1>1
<1>5. CASE f.at \in pcs
  <2>1. Cardinality(Those(gs)) = Cardinality(Those(fs)) + 1
    BY <1>2, <1>4, <1>5, FS_AddElement
  <2>2. QED
    BY <1>3, <1>5, <2>1 DEF Count
<1>6. CASE f.at \notin pcs
  <2>1. Cardinality(Those(gs)) = Cardinality(Those(fs))
    BY <1>4, <1>6
  <2>2. Count(gs, pcs) = Count(fs, pcs)
    BY <2>1 DEF Count
  <2>3. QED
    BY <1>3, <1>6, <2>2
<1>7. QED
  BY <1>5, <1>6

\* Counting the activations when the last one returns, changes, or goes on
\* and waits for a new one.
LEMMA CountFront ==
  ASSUME NEW fs \in Seq(Frame), fs # <<>>, NEW pcs
  PROVE  /\ Count(Front(fs), pcs) \in Nat
         /\ Count(fs, pcs) = Count(Front(fs), pcs) + (IF Last(fs).at \in pcs THEN 1 ELSE 0)
<1>1. /\ Front(fs) \in Seq(Frame) /\ Last(fs) \in Frame
      /\ Append(Front(fs), Last(fs)) = fs
  BY FrontLast
<1>2. /\ Count(Front(fs), pcs) \in Nat
      /\ Count(Append(Front(fs), Last(fs)), pcs) =
           Count(Front(fs), pcs) + (IF Last(fs).at \in pcs THEN 1 ELSE 0)
  BY <1>1, CountAppend
<1>3. QED
  BY <1>1, <1>2

-----------------------------------------------------------------------------
(* The inductive invariant.                                                *)

ExecutorsMatch == Len(execs) = 1 + Count(frames, OpenPcs)
CallsMatch == Len(calls) = Count(frames, CallPcs)
IInv == TypeOK /\ ExecutorsMatch /\ CallsMatch

\* Activations with as many executors and calls open as there are now, and as
\* many executors.
SameFrames(fs) ==
  /\ fs \in Seq(Frame)
  /\ Count(fs, OpenPcs) = Count(frames, OpenPcs)
  /\ Count(fs, CallPcs) = Count(frames, CallPcs)
SameExecs(es) == es \in Seq(Executors) /\ Len(es) = Len(execs)

\* A step that opens and ends neither executors nor calls keeps the invariant.
LEMMA Kept ==
  ASSUME IInv, SameFrames(frames'), SameExecs(execs'), calls' = calls,
         state' \in States, trace' \in Traces
  PROVE  IInv'
BY DEF IInv, TypeOK, ExecutorsMatch, CallsMatch, SameFrames, SameExecs

LEMMA OpensNat ==
  ASSUME IInv
  PROVE  Count(frames, OpenPcs) \in Nat
<1>1. frames \in Seq(Frame)
  BY DEF IInv, TypeOK
<1>2. CASE frames = <<>>
  <2>1. {i \in DOMAIN frames : frames[i].at \in OpenPcs} = {}
    BY <1>2
  <2>2. QED
    BY <2>1, FS_EmptySet DEF Count
<1>3. CASE frames # <<>>
  <2>1. /\ Count(Front(frames), OpenPcs) \in Nat
        /\ Count(frames, OpenPcs) =
             Count(Front(frames), OpenPcs) + (IF Last(frames).at \in OpenPcs THEN 1 ELSE 0)
    BY <1>1, <1>3, CountFront
  <2>2. QED
    BY <2>1
<1>4. QED
  BY <1>2, <1>3

LEMMA ExecsNonEmpty ==
  ASSUME IInv
  PROVE  /\ execs \in Seq(Executors) /\ execs # <<>>
         /\ Exec \in Executors
         /\ Len(execs) \in Nat \ {0}
<1>1. Count(frames, OpenPcs) \in Nat /\ execs \in Seq(Executors)
  BY OpensNat DEF IInv, TypeOK
<1>2. Len(execs) \in Nat \ {0} /\ execs # <<>>
  BY <1>1, EmptySeq DEF IInv, ExecutorsMatch
<1>3. QED
  BY <1>1, <1>2, FrontLast DEF Exec

LEMMA SameSetExec ==
  ASSUME IInv, NEW e \in Executors
  PROVE  SameExecs(SetExec(e)) /\ SetExec(e) # <<>>
BY ExecsNonEmpty, SetLast, EmptySeq DEF SameExecs, SetExec

LEMMA SameHasValue ==
  ASSUME IInv, NEW b \in BOOLEAN
  PROVE  SameExecs(HasValue(b)) /\ HasValue(b) # <<>>
<1>1. [Exec EXCEPT !.value = b] \in Executors
  BY ExecsNonEmpty DEF Executors
<1>2. QED
  BY <1>1, SameSetExec DEF HasValue

LEMMA SameLeave ==
  ASSUME IInv, frames # <<>>, Top.at \notin OpenPcs
  PROVE  SameFrames(Leave)
<1>1. frames \in Seq(Frame)
  BY DEF IInv, TypeOK
<1>2. Top.at \notin CallPcs
  BY DEF OpenPcs
<1>3. Front(frames) \in Seq(Frame)
  BY <1>1, FrontLast
<1>4. \A pcs : Top.at \notin pcs => Count(frames, pcs) = Count(Front(frames), pcs)
  <2> TAKE pcs
  <2> HAVE Top.at \notin pcs
  <2>1. /\ Count(Front(frames), pcs) \in Nat
        /\ Count(frames, pcs) =
             Count(Front(frames), pcs) + (IF Last(frames).at \in pcs THEN 1 ELSE 0)
    BY <1>1, CountFront
  <2>2. QED
    BY <2>1 DEF Top
<1>5. QED
  BY <1>2, <1>3, <1>4 DEF SameFrames, Leave

LEMMA SameAppend ==
  ASSUME NEW fs, SameFrames(fs), NEW f \in Frame, f.at \notin OpenPcs
  PROVE  SameFrames(Append(fs, f))
<1>1. fs \in Seq(Frame) /\ f.at \notin CallPcs
  BY DEF SameFrames, OpenPcs
<1>2. Append(fs, f) \in Seq(Frame)
  BY <1>1, AppendProperties
<1>3. \A pcs : f.at \notin pcs => Count(Append(fs, f), pcs) = Count(fs, pcs)
  <2> TAKE pcs
  <2> HAVE f.at \notin pcs
  <2>1. /\ Count(fs, pcs) \in Nat
        /\ Count(Append(fs, f), pcs) = Count(fs, pcs) + (IF f.at \in pcs THEN 1 ELSE 0)
    BY <1>1, CountAppend
  <2>2. QED
    BY <2>1
<1>4. QED
  BY <1>1, <1>2, <1>3 DEF SameFrames

\* The activation on top changes without becoming, or having been, one that
\* opened an executor.
LEMMA SameSetTop ==
  ASSUME IInv, frames # <<>>, Top.at \notin OpenPcs,
         NEW f \in Frame, f.at \notin OpenPcs
  PROVE  /\ SameFrames([frames EXCEPT ![Len(frames)] = f])
         /\ [frames EXCEPT ![Len(frames)] = f] # <<>>
<1>1. frames \in Seq(Frame)
  BY DEF IInv, TypeOK
<1>2. /\ [frames EXCEPT ![Len(frames)] = f] = Append(Front(frames), f)
      /\ Front(frames) \in Seq(Frame)
  BY <1>1, SetLast, FrontLast
<1>3. SameFrames(Front(frames))
  BY SameLeave DEF Leave
<1>4. SameFrames(Append(Front(frames), f))
  BY <1>3, SameAppend
<1>5. Append(Front(frames), f) # <<>>
  BY <1>2, AppendProperties
<1>6. QED
  BY <1>2, <1>4, <1>5

LEMMA FrameAt ==
  ASSUME NEW f \in Frame, NEW pc, <<f.kind, pc>> \in Positions,
         NEW x \in Names \cup {NoName}, pc = "init" => x \in Names
  PROVE  /\ [f EXCEPT !.at = pc, !.name = x] \in Frame
         /\ pc # "init" => [f EXCEPT !.at = pc] \in Frame
<1>1. pc \in {p[2] : p \in Positions}
  OBVIOUS
<1>2. QED
  BY <1>1 DEF Frame

LEMMA TopFrame ==
  ASSUME IInv, frames # <<>>
  PROVE  /\ Top \in Frame
         /\ Top = frames[Len(frames)]
         /\ Top.kind \in Kinds /\ Top.prev \in Chains
         /\ frames \in Seq(Frame)
<1>1. frames \in Seq(Frame) /\ Top \in Frame
  BY FrontLast DEF IInv, TypeOK, Top
<1>2. QED
  BY <1>1 DEF Frame, Top, Last

LEMMA SameGoto ==
  ASSUME IInv, frames # <<>>, Top.at \notin OpenPcs,
         NEW pc, <<Top.kind, pc>> \in Positions, pc \notin OpenPcs \cup {"init"}
  PROVE  SameFrames(Goto(pc)) /\ Goto(pc) # <<>>
<1>1. [Top EXCEPT !.at = pc] \in Frame
  BY TopFrame, FrameAt
<1>2. [Top EXCEPT !.at = pc].at = pc
  BY TopFrame DEF Frame
<1>3. Goto(pc) = [frames EXCEPT ![Len(frames)] = [Top EXCEPT !.at = pc]]
  BY TopFrame DEF Goto
<1>4. QED
  BY <1>1, <1>2, <1>3, SameSetTop

\* The same for an activation that goes on at pc with another name.
LEMMA SameTopNamed ==
  ASSUME IInv, frames # <<>>, Top.at \notin OpenPcs,
         NEW pc, <<Top.kind, pc>> \in Positions, pc \notin OpenPcs,
         NEW x \in Names \cup {NoName}, pc = "init" => x \in Names
  PROVE  SameFrames([frames EXCEPT ![Len(frames)].at = pc, ![Len(frames)].name = x])
<1>1. [Top EXCEPT !.at = pc, !.name = x] \in Frame
  BY TopFrame, FrameAt
<1>2. [Top EXCEPT !.at = pc, !.name = x].at = pc
  BY TopFrame DEF Frame
<1>3. [frames EXCEPT ![Len(frames)].at = pc, ![Len(frames)].name = x]
        = [frames EXCEPT ![Len(frames)] = [Top EXCEPT !.at = pc, !.name = x]]
  BY TopFrame
<1>4. QED
  BY <1>1, <1>2, <1>3, SameSetTop

LEMMA NewFrameType ==
  ASSUME NEW k \in Kinds, NEW prev \in Chains
  PROVE  NewFrame(k, prev) \in Frame /\ NewFrame(k, prev).at \notin OpenPcs
<1>1. <<k, FirstPc(k)>> \in Positions /\ FirstPc(k) \notin OpenPcs \cup {"init"}
  BY DEF Kinds, StatementKinds, ExpressionKinds, LoopKinds, FirstPc, Positions,
         TakesValue, Controls, OpenPcs, CallPcs
<1>2. FirstPc(k) \in {p[2] : p \in Positions}
  BY <1>1
<1>3. QED
  BY <1>1, <1>2 DEF NewFrame, Frame, NoName

-----------------------------------------------------------------------------
(* Visits.                                                                 *)

LEMMA ReportType ==
  ASSUME NEW stack \in Seq(Sites)
  PROVE  Report(stack) \in Traces
<1> DEFINE n == Len(stack)
           a == TraceLimit \div 2
           b == TraceLimit - a
<1>1. n \in Nat /\ TraceLimit \in Nat /\ a \in Nat /\ b \in Nat /\ a <= TraceLimit
  BY ConstantsAssumption, LenProperties
<1>2. CASE n <= TraceLimit
  BY <1>2 DEF Report, Traces
<1>3. CASE ~(n <= TraceLimit)
  <2>1. n - TraceLimit \in Nat /\ a <= n /\ n - b + 1 \in Int /\ n - b >= 0
    BY <1>1, <1>3
  <2>2. \A i \in 1 .. a : stack[i] \in Sites
    BY <1>1, <2>1, ElementOfSeq
  <2>3. \A i \in n - b + 1 .. n : stack[i] \in Sites
    <3> TAKE i \in n - b + 1 .. n
    <3>1. i \in 1 .. Len(stack)
      BY <1>1, <2>1
    <3>2. QED
      BY <3>1, ElementOfSeq
  <2>4. SubSeq(stack, 1, a) \in Seq(Sites)
    BY <1>1, <2>2, SubSeqProperties
  <2>5. SubSeq(stack, n - b + 1, n) \in Seq(Sites)
    BY <1>1, <2>1, <2>3, SubSeqProperties
  <2>6. SubSeq(stack, 1, a) \o SubSeq(stack, n - b + 1, n) \in Seq(Sites)
    BY <2>4, <2>5, ConcatProperties
  <2>7. QED
    BY <1>1, <1>3, <2>1, <2>6 DEF Report, Traces
<1>4. QED
  BY <1>2, <1>3

LEMMA Throwing ==
  ASSUME IInv, calls' \in Seq(Sites), SetThrowingState
  PROVE  state' \in States /\ trace' \in Traces
BY ReportType DEF SetThrowingState, States

LEMMA Unchanged ==
  ASSUME IInv, UNCHANGED <<state, trace>>
  PROVE  state' \in States /\ trace' \in Traces
BY DEF IInv, TypeOK

\* The end of the chain of a visitor that has nothing to restore.
LEMMA NoChain == <<>> \in Chains
BY EmptySeq DEF Chains

LEMMA VisitExpressionType ==
  ASSUME IInv, calls' \in Seq(Sites),
         NEW fs \in Seq(Frame),
         NEW es \in Seq(Executors), es # <<>>, VisitExpression(fs, es)
  PROVE  /\ frames' = fs \/ \E k \in ExpressionKinds : frames' = Append(fs, NewFrame(k, <<>>))
         /\ execs' \in Seq(Executors) /\ Len(execs') = Len(es)
         /\ state' \in States /\ trace' \in Traces
<1>1. Last(es) \in Executors
  BY FrontLast
<1>2. PICK e \in Executors : e = [Last(es) EXCEPT !.value = TRUE]
  BY <1>1 DEF Executors
<1>3. [es EXCEPT ![Len(es)].value = TRUE] = [es EXCEPT ![Len(es)] = e]
  BY <1>2 DEF Last
<1>4. /\ [es EXCEPT ![Len(es)] = e] \in Seq(Executors)
      /\ Len([es EXCEPT ![Len(es)] = e]) = Len(es)
  BY SetLast
<1>5. /\ [es EXCEPT ![Len(es)].value = TRUE] \in Seq(Executors)
      /\ Len([es EXCEPT ![Len(es)].value = TRUE]) = Len(es)
  BY <1>3, <1>4
<1>6. QED
  BY <1>5, Throwing, Unchanged DEF VisitExpression

LEMMA SameVisit ==
  ASSUME IInv, NEW fs, SameFrames(fs),
         frames' = fs \/ \E k \in ExpressionKinds : frames' = Append(fs, NewFrame(k, <<>>))
  PROVE  SameFrames(frames')
<1>1. ASSUME NEW k \in ExpressionKinds PROVE SameFrames(Append(fs, NewFrame(k, <<>>)))
  <2>1. k \in Kinds
    BY DEF Kinds
  <2>2. QED
    BY <2>1, NoChain, NewFrameType, SameAppend
<1>2. QED
  BY <1>1

\* Any step that ends with the visit of an expression.
LEMMA KeptByVisit ==
  ASSUME IInv, UNCHANGED calls, NEW fs, SameFrames(fs), NEW es, SameExecs(es), es # <<>>,
         VisitExpression(fs, es)
  PROVE  IInv'
<1>1. calls' \in Seq(Sites)
  BY DEF IInv, TypeOK
<1>2. fs \in Seq(Frame) /\ es \in Seq(Executors) /\ Len(es) = Len(execs)
  BY DEF SameFrames, SameExecs
<1>3. /\ frames' = fs \/ \E k \in ExpressionKinds : frames' = Append(fs, NewFrame(k, <<>>))
      /\ execs' \in Seq(Executors) /\ Len(execs') = Len(es)
      /\ state' \in States /\ trace' \in Traces
  BY <1>1, <1>2, VisitExpressionType
<1>4. SameFrames(frames') /\ SameExecs(execs')
  BY <1>2, <1>3, SameVisit DEF SameExecs
<1>5. QED
  BY <1>3, <1>4, Kept

\* The four ways in which most steps end.
LEMMA KeptByEvaluate ==
  ASSUME IInv, frames # <<>>, Top.at \notin OpenPcs,
         NEW pc, <<Top.kind, pc>> \in Positions, pc \notin OpenPcs \cup {"init"}, Evaluate(pc)
  PROVE  IInv'
BY SameGoto, SameHasValue, KeptByVisit DEF Evaluate

LEMMA KeptByThrow ==
  ASSUME IInv, frames # <<>>, Top.at \notin OpenPcs, ThrowAndLeave
  PROVE  IInv'
<1>1. calls' \in Seq(Sites) /\ calls' = calls
  BY DEF IInv, TypeOK, ThrowAndLeave
<1>2. state' \in States /\ trace' \in Traces
  BY <1>1, Throwing DEF ThrowAndLeave
<1>3. SameFrames(frames') /\ SameExecs(execs')
  BY SameLeave, SameHasValue DEF ThrowAndLeave
<1>4. QED
  BY <1>1, <1>2, <1>3, Kept

LEMMA KeptByReturn ==
  ASSUME IInv, frames # <<>>, Top.at \notin OpenPcs, NEW es, SameExecs(es), Return(es)
  PROVE  IInv'
BY SameLeave, Unchanged, Kept DEF Return

LEMMA KeptByContinue ==
  ASSUME IInv, frames # <<>>, Top.at \notin OpenPcs,
         NEW pc, <<Top.kind, pc>> \in Positions, pc \notin OpenPcs \cup {"init"}, Continue(pc)
  PROVE  IInv'
BY SameGoto, SameHasValue, Unchanged, Kept DEF Continue

LEMMA SameRestored ==
  ASSUME IInv, frames # <<>>
  PROVE  SameExecs(RestoredScopes)
<1>1. [Exec EXCEPT !.scopes = Top.prev] \in Executors
  BY ExecsNonEmpty, TopFrame DEF Executors
<1>2. RestoredScopes = SetExec([Exec EXCEPT !.scopes = Top.prev])
  BY ExecsNonEmpty DEF RestoredScopes, SetExec, Exec, Last
<1>3. QED
  BY <1>1, <1>2, SameSetExec

LEMMA KeptByRestore ==
  ASSUME IInv, frames # <<>>, Top.at \notin OpenPcs, RestoreAndReturn
  PROVE  IInv'
BY SameRestored, SameLeave, Unchanged, Kept DEF RestoreAndReturn

\* Entering a Body: a new activation, and a scope on top of the chain.
LEMMA KeptByEnterBody ==
  ASSUME IInv, frames # <<>>, Top.at \notin OpenPcs,
         NEW pc, <<Top.kind, pc>> \in Positions, pc \notin OpenPcs \cup {"init"}, EnterBody(pc)
  PROVE  IInv'
<1>1. Exec \in Executors /\ Exec.scopes \in Chains
  BY ExecsNonEmpty DEF Executors
<1>2. NewFrame("Body", Exec.scopes) \in Frame /\ NewFrame("Body", Exec.scopes).at \notin OpenPcs
  BY <1>1, NewFrameType DEF Kinds
<1>3. SameFrames(frames')
  BY <1>2, SameGoto, SameAppend DEF EnterBody
<1>4. Append(Exec.scopes, {}) \in Chains
  BY <1>1, AppendProperties DEF Chains
<1>5. NewExec(Append(Exec.scopes, {})) \in Executors
  BY <1>4 DEF NewExec, Executors
<1>6. SameExecs(execs')
  BY <1>5, SameSetExec DEF EnterBody
<1>7. QED
  BY <1>3, <1>6, Unchanged, Kept DEF EnterBody

\* Any step that ends with the visit of a statement.
LEMMA KeptByVisitStatement ==
  ASSUME IInv, NEW fs, SameFrames(fs), NEW es, SameExecs(es), VisitStatement(fs, es)
  PROVE  IInv'
<1>1. ASSUME NEW k \in StatementKinds PROVE SameFrames(Append(fs, NewFrame(k, <<>>)))
  <2>1. k \in Kinds
    BY DEF Kinds
  <2>2. QED
    BY <2>1, NoChain, NewFrameType, SameAppend
<1>2. SameFrames(frames')
  BY <1>1 DEF VisitStatement
<1>3. state' \in States /\ trace' \in Traces
  BY DEF VisitStatement, States, IInv, TypeOK
<1>4. QED
  BY <1>2, <1>3, Kept DEF VisitStatement

-----------------------------------------------------------------------------
(* The steps.                                                              *)

LEMMA InitIInv == Init => IInv
<1> SUFFICES ASSUME Init PROVE IInv
  OBVIOUS
<1>1. RootNames \in SUBSET Names /\ {} \in SUBSET Names
  BY ConstantsAssumption
<1>2. <<RootNames>> \in Chains /\ <<RootNames, {}>> \in Chains
  BY <1>1 DEF Chains
<1>3. NewFrame("Body", <<RootNames>>) \in Frame
      /\ NewFrame("Body", <<RootNames>>).at \notin OpenPcs
  BY <1>2, NewFrameType DEF Kinds
<1>4. NewExec(<<RootNames, {}>>) \in Executors
  BY <1>2 DEF NewExec, Executors
<1>5. /\ frames \in Seq(Frame) /\ Len(frames) = 1
      /\ frames[1].at \notin OpenPcs /\ frames[1].at \notin CallPcs
  BY <1>3 DEF Init, OpenPcs
<1>6. /\ {i \in DOMAIN frames : frames[i].at \in OpenPcs} = {}
      /\ {i \in DOMAIN frames : frames[i].at \in CallPcs} = {}
  BY <1>5
<1>7. Count(frames, OpenPcs) = 0 /\ Count(frames, CallPcs) = 0
  BY <1>6, FS_EmptySet DEF Count
<1>8. execs \in Seq(Executors) /\ Len(execs) = 1
  BY <1>4 DEF Init
<1>9. TypeOK
  BY <1>5, <1>8, ConstantsAssumption DEF Init, TypeOK, States, Traces, NoTrace
<1>10. QED
  BY <1>7, <1>8, <1>9 DEF IInv, ExecutorsMatch, CallsMatch, Init

LEMMA PropagateStep == IInv /\ Propagate => IInv'
<1> SUFFICES ASSUME IInv, Propagate PROVE IInv'
  OBVIOUS
<1>1. frames # <<>> /\ Top.at \notin OpenPcs
  BY DEF Propagate, Pos, TakesValue, OpenPcs, CallPcs
<1>2. QED
  BY <1>1, SameHasValue, KeptByReturn DEF Propagate

LEMMA FirstExpressionStep == IInv /\ FirstExpression => IInv'
<1> SUFFICES ASSUME IInv, FirstExpression PROVE IInv'
  OBVIOUS
<1> USE DEF At, OpenPcs, CallPcs, Positions, TakesValue
<1>1. ASSUME NEW k \in {"If", "ShortIf", "While"}, At(k, "start"), Evaluate("cond")
      PROVE  IInv'
  BY <1>1, KeptByEvaluate
<1>2. CASE At("For", "start") /\ Evaluate("first")
  BY <1>2, KeptByEvaluate
<1>3. CASE At("Assign", "start") /\ Evaluate("src")
  BY <1>3, KeptByEvaluate
<1>4. CASE At("Return", "start") /\ Evaluate("value")
  BY <1>4, KeptByEvaluate
<1>5. CASE At("ExprStmt", "start") /\ Evaluate("expr")
  BY <1>5, KeptByEvaluate
<1>6. CASE At("Unary", "start") /\ Evaluate("operand")
  BY <1>6, KeptByEvaluate
<1>7. QED
  BY <1>1, <1>2, <1>3, <1>4, <1>5, <1>6 DEF FirstExpression

\* A name is declared in the innermost scope of the running executor.
LEMMA DeclaredType ==
  ASSUME NEW e \in Executors, NEW x \in Names
  PROVE  Declared(e, x) \in Executors
<1> DEFINE c == e.scopes
           d == [c EXCEPT ![Len(c)] = c[Len(c)] \cup {x}]
<1>1. c \in Seq(SUBSET Names)
  BY DEF Executors, Chains
<1>2. d \in Chains
  <2>1. CASE c = <<>>
    <3>1. DOMAIN d = {}
      BY <2>1
    <3>2. d = <<>>
      BY <3>1, <2>1
    <3>3. QED
      BY <3>2, NoChain
  <2>2. CASE c # <<>>
    <3>1. c[Len(c)] \cup {x} \in SUBSET Names
      BY <1>1, <2>2, EmptySeq, ElementOfSeq
    <3>2. QED
      BY <1>1, <2>2, <3>1, SetLast DEF Chains
  <2>3. QED
    BY <2>1, <2>2
<1>3. Declared(e, x) = [[e EXCEPT !.scopes = d] EXCEPT !.value = FALSE]
  BY Zenon DEF Declared
<1>4. ASSUME NEW ch \in Chains PROVE [[e EXCEPT !.scopes = ch] EXCEPT !.value = FALSE] \in Executors
  BY DEF Executors
<1>5. QED
  BY <1>2, <1>3, <1>4

LEMMA BodyAndVarSteps ==
  ASSUME IInv, BodyNext \/ BodyEnd \/ VarNext \/ VarInit \/ VarEnd
  PROVE  IInv'
<1> USE DEF At, Took, OpenPcs, CallPcs, Positions, TakesValue
<1>1. CASE BodyNext
  <2>1. SameFrames(frames) /\ SameExecs(execs)
    BY DEF SameFrames, SameExecs, IInv, TypeOK
  <2>2. QED
    BY <1>1, <2>1, KeptByVisitStatement DEF BodyNext
<1>2. CASE BodyEnd
  BY <1>2, KeptByRestore DEF BodyEnd
<1>3. CASE VarNext
  <2>1. PICK x \in Names :
          \/ Visible(x) /\ ThrowAndLeave
          \/ /\ ~Visible(x)
             /\ execs' = SetExec(Declared(Exec, x))
             /\ UNCHANGED <<frames, state, calls, trace>>
          \/ /\ ~Visible(x)
             /\ UNCHANGED calls
             /\ VisitExpression([frames EXCEPT ![Len(frames)].at = "init",
                                               ![Len(frames)].name = x], execs)
    BY <1>3 DEF VarNext
  <2>2. frames # <<>> /\ Top.kind = "Var" /\ Top.at = "next" /\ Top.at \notin OpenPcs
    BY <1>3 DEF VarNext
  <2>3. CASE ThrowAndLeave
    BY <2>2, <2>3, KeptByThrow
  <2>4. CASE execs' = SetExec(Declared(Exec, x)) /\ UNCHANGED <<frames, state, calls, trace>>
    <3>1. SameExecs(execs')
      BY <2>4, ExecsNonEmpty, DeclaredType, SameSetExec
    <3>2. SameFrames(frames')
      BY <2>4 DEF SameFrames, IInv, TypeOK
    <3>3. QED
      BY <2>4, <3>1, <3>2, Unchanged, Kept
  <2>5. CASE /\ UNCHANGED calls
             /\ VisitExpression([frames EXCEPT ![Len(frames)].at = "init",
                                               ![Len(frames)].name = x], execs)
    <3>1. SameFrames([frames EXCEPT ![Len(frames)].at = "init", ![Len(frames)].name = x])
      BY <2>2, SameTopNamed
    <3>2. SameExecs(execs) /\ execs # <<>>
      BY ExecsNonEmpty DEF SameExecs
    <3>3. QED
      BY <2>5, <3>1, <3>2, KeptByVisit
  <2>6. QED
    BY <2>1, <2>3, <2>4, <2>5
<1>4. CASE VarInit
  <2>1. frames # <<>> /\ Top.kind = "Var" /\ Top.at = "init" /\ Top.at \notin OpenPcs
    BY <1>4 DEF VarInit
  <2>2. SameFrames(frames')
    BY <1>4, <2>1, SameTopNamed DEF VarInit
  <2>3. SameExecs(execs')
    <3>1. Top.name \in Names
      BY <2>1, TopFrame DEF Frame
    <3>2. QED
      BY <1>4, <3>1, ExecsNonEmpty, DeclaredType, SameSetExec DEF VarInit
  <2>4. QED
    BY <1>4, <2>2, <2>3, Unchanged, Kept DEF VarInit
<1>5. CASE VarEnd
  BY <1>5, KeptByReturn DEF VarEnd, SameExecs, IInv, TypeOK
<1>6. QED
  BY <1>1, <1>2, <1>3, <1>4, <1>5


\* The activation on top keeps the scopes it will restore.
LEMMA SameTopScoped ==
  ASSUME IInv, frames # <<>>, Top.at \notin OpenPcs,
         NEW pc, <<Top.kind, pc>> \in Positions, pc \notin OpenPcs \cup {"init"},
         NEW ch \in Chains, NEW x \in Names \cup {NoName}
  PROVE  /\ SameFrames([frames EXCEPT ![Len(frames)].at = pc, ![Len(frames)].prev = ch])
         /\ SameFrames([frames EXCEPT ![Len(frames)].at = pc, ![Len(frames)].prev = ch,
                                      ![Len(frames)].name = x])
<1>1. [Top EXCEPT !.at = pc] \in Frame
  BY TopFrame, FrameAt
<1>2. PICK f \in Frame : f = [[Top EXCEPT !.at = pc] EXCEPT !.prev = ch]
  BY <1>1 DEF Frame
<1>3. PICK g \in Frame : g = [f EXCEPT !.name = x]
  <2>1. f.at # "init"
    BY <1>2, TopFrame DEF Frame
  <2>2. QED
    BY <2>1 DEF Frame
<1>4. f.at = pc /\ g.at = pc
  BY <1>2, <1>3, TopFrame DEF Frame
<1>5. [frames EXCEPT ![Len(frames)].at = pc, ![Len(frames)].prev = ch]
        = [frames EXCEPT ![Len(frames)] = f]
  BY <1>2, TopFrame
<1>6. [frames EXCEPT ![Len(frames)].at = pc, ![Len(frames)].prev = ch,
                     ![Len(frames)].name = x]
        = [frames EXCEPT ![Len(frames)] = g]
  BY <1>2, <1>3, TopFrame
<1>7. QED
  BY <1>4, <1>5, <1>6, SameSetTop

LEMMA PushedScope ==
  ASSUME IInv, NEW names \in SUBSET Names
  PROVE  /\ Exec.scopes \in Chains
         /\ SameExecs(SetExec(NewExec(Append(Exec.scopes, names))))
<1>1. Exec \in Executors /\ Exec.scopes \in Chains
  BY ExecsNonEmpty DEF Executors
<1>2. Append(Exec.scopes, names) \in Chains
  BY <1>1, AppendProperties DEF Chains
<1>3. NewExec(Append(Exec.scopes, names)) \in Executors
  BY <1>2 DEF NewExec, Executors
<1>4. QED
  BY <1>1, <1>3, SameSetExec

LEMMA ConditionSteps ==
  ASSUME IInv, IfCond \/ IfEnd \/ ShortIfCond \/ ShortIfEnd \/ WhileCond
  PROVE  IInv'
<1> USE DEF At, Took, OpenPcs, CallPcs, Positions, TakesValue, Controls, LoopKinds
<1>1. CASE IfCond
  BY <1>1, SameHasValue, KeptByThrow, KeptByEnterBody, KeptByReturn DEF IfCond
<1>2. CASE IfEnd
  BY <1>2, KeptByReturn DEF IfEnd, SameExecs, IInv, TypeOK
<1>3. CASE ShortIfCond
  <2>1. frames # <<>> /\ Top.kind = "ShortIf" /\ Top.at \notin OpenPcs
    BY <1>3 DEF ShortIfCond
  <2>2. CASE ThrowAndLeave \/ Return(HasValue(FALSE))
    BY <2>1, <2>2, SameHasValue, KeptByThrow, KeptByReturn
  <2>3. CASE VisitStatement([frames EXCEPT ![Len(frames)].at = "then",
                                           ![Len(frames)].prev = Exec.scopes],
                            SetExec(NewExec(Append(Exec.scopes, {}))))
    BY <2>1, <2>3, PushedScope, SameTopScoped, KeptByVisitStatement
  <2>4. QED
    BY <1>3, <2>2, <2>3 DEF ShortIfCond
<1>4. CASE ShortIfEnd
  BY <1>4, KeptByRestore DEF ShortIfEnd
<1>5. CASE WhileCond
  BY <1>5, SameHasValue, KeptByThrow, KeptByEnterBody, KeptByReturn DEF WhileCond
<1>6. QED
  BY <1>1, <1>2, <1>3, <1>4, <1>5

LEMMA ForBeginStep ==
  ASSUME IInv, frames # <<>>, Top.kind = "For", Top.at \notin OpenPcs, ForBegin
  PROVE  IInv'
<1>1. PICK x \in Names \cup {NoName} :
        /\ frames' = [frames EXCEPT ![Len(frames)].at = "iter",
                                    ![Len(frames)].prev = Exec.scopes,
                                    ![Len(frames)].name = x]
        /\ execs' = IF x = NoName THEN HasValue(FALSE)
                    ELSE SetExec(NewExec(Append(Exec.scopes, {x})))
  BY DEF ForBegin
<1>2. SameFrames(frames')
  BY <1>1, PushedScope, SameTopScoped DEF Positions, OpenPcs, CallPcs
<1>3. SameExecs(execs')
  <2>1. CASE x = NoName
    BY <1>1, <2>1, SameHasValue
  <2>2. CASE x # NoName
    BY <1>1, <2>2, PushedScope
  <2>3. QED
    BY <2>1, <2>2
<1>4. QED
  BY <1>2, <1>3, Unchanged, Kept DEF ForBegin

LEMMA CycleSteps ==
  ASSUME IInv, ForFirst \/ ForLast \/ ForIter \/ LoopIter \/ CycleBody
  PROVE  IInv'
<1> USE DEF At, Took, OpenPcs, CallPcs, Positions, TakesValue, Controls, LoopKinds
<1>1. CASE ForFirst
  BY <1>1, KeptByThrow, KeptByEvaluate, ForBeginStep DEF ForFirst
<1>2. CASE ForLast
  BY <1>2, KeptByThrow, ForBeginStep DEF ForLast
<1>3. CASE ForIter
  BY <1>3, KeptByEnterBody, KeptByRestore DEF ForIter
<1>4. CASE LoopIter
  BY <1>4, KeptByEnterBody DEF LoopIter
<1>5. CASE CycleBody
  <2>1. PICK k \in LoopKinds :
          /\ At(k, "body")
          /\ \/ CycleGoesOn /\ Continue(IF k = "While" THEN "start" ELSE "iter")
             \/ /\ ~CycleGoesOn
                /\ frames' = Leave
                /\ execs' = IF k = "For" THEN RestoredScopes ELSE execs
                /\ state' = AfterCycle
                /\ UNCHANGED <<calls, trace>>
    BY <1>5 DEF CycleBody
  <2>2. frames # <<>> /\ Top.kind = k /\ Top.at \notin OpenPcs
    BY <2>1
  <2>3. CASE Continue(IF k = "While" THEN "start" ELSE "iter")
    BY <2>2, <2>3, KeptByContinue
  <2>4. CASE /\ frames' = Leave
             /\ execs' = IF k = "For" THEN RestoredScopes ELSE execs
             /\ state' = AfterCycle
             /\ UNCHANGED <<calls, trace>>
    <3>1. SameFrames(frames') /\ SameExecs(execs')
      BY <2>2, <2>4, SameLeave, SameRestored DEF SameExecs, IInv, TypeOK
    <3>2. state' \in States /\ trace' \in Traces
      BY <2>4 DEF AfterCycle, States, IInv, TypeOK
    <3>3. QED
      BY <2>4, <3>1, <3>2, Kept
  <2>5. QED
    BY <2>1, <2>3, <2>4
<1>6. QED
  BY <1>1, <1>2, <1>3, <1>4, <1>5


LEMMA SimpleStatementSteps ==
  ASSUME IInv, \/ AssignSrc \/ AssignLast \/ AssignIndex
               \/ PrintNext \/ PrintItem \/ ReturnValue \/ ExprStmtEnd
  PROVE  IInv'
<1> USE DEF At, Took, OpenPcs, CallPcs, Positions, TakesValue
<1>1. SameExecs(execs)
  BY DEF SameExecs, IInv, TypeOK
<1>2. CASE AssignSrc
  <2>1. frames # <<>> /\ Top.kind = "Assign" /\ Top.at \notin OpenPcs
    BY <1>2 DEF AssignSrc
  <2>2. CASE ThrowAndLeave \/ Return(HasValue(FALSE)) \/ Continue("chain")
    BY <2>1, <2>2, SameHasValue, KeptByThrow, KeptByReturn, KeptByContinue
  <2>3. CASE /\ frames' = Append(Goto("chain"), NewFrame("Access", <<>>))
             /\ execs' = HasValue(FALSE)
             /\ UNCHANGED <<state, calls, trace>>
    <3>1. NewFrame("Access", <<>>) \in Frame /\ NewFrame("Access", <<>>).at \notin OpenPcs
      BY NoChain, NewFrameType DEF Kinds
    <3>2. SameFrames(frames')
      BY <2>1, <2>3, <3>1, SameGoto, SameAppend
    <3>3. QED
      BY <2>3, <3>2, SameHasValue, Unchanged, Kept
  <2>4. QED
    BY <1>2, <2>2, <2>3 DEF AssignSrc
<1>3. CASE AssignLast
  BY <1>1, <1>3, KeptByThrow, KeptByReturn, KeptByEvaluate DEF AssignLast
<1>4. CASE AssignIndex
  BY <1>4, SameHasValue, KeptByThrow, KeptByReturn DEF AssignIndex
<1>5. CASE PrintNext
  BY <1>1, <1>5, KeptByEvaluate, KeptByReturn DEF PrintNext
<1>6. CASE PrintItem
  BY <1>6, KeptByContinue DEF PrintItem
<1>7. CASE ReturnValue
  <2>1. SameFrames(frames') /\ SameExecs(execs')
    BY <1>7, SameLeave, SameHasValue DEF ReturnValue
  <2>2. state' \in States /\ trace' \in Traces
    BY <1>7 DEF ReturnValue, States, IInv, TypeOK
  <2>3. QED
    BY <1>7, <2>1, <2>2, Kept DEF ReturnValue
<1>8. CASE ExprStmtEnd
  BY <1>8, SameHasValue, KeptByReturn DEF ExprStmtEnd
<1>9. QED
  BY <1>2, <1>3, <1>4, <1>5, <1>6, <1>7, <1>8

LEMMA OperandSteps ==
  ASSUME IInv, OperandsNext \/ OperandsTook \/ UnaryOperand \/ OpError \/ OpsDone
  PROVE  IInv'
<1> USE DEF At, Took, AtOps, OpenPcs, CallPcs, Positions, TakesValue
<1>1. CASE OperandsNext
  BY <1>1, KeptByEvaluate DEF OperandsNext
<1>2. CASE OperandsTook
  <2>1. frames # <<>> /\ Top.kind = "Operands" /\ Top.at \notin OpenPcs
    BY <1>2 DEF OperandsTook
  <2>2. CASE ThrowAndLeave \/ Continue("next")
    BY <2>1, <2>2, KeptByThrow, KeptByContinue
  <2>3. CASE frames' = Leave /\ UNCHANGED <<execs, state, calls, trace>>
    BY <2>1, <2>3, SameLeave, Unchanged, Kept DEF SameExecs, IInv, TypeOK
  <2>4. QED
    BY <1>2, <2>2, <2>3 DEF OperandsTook
<1>3. CASE UnaryOperand
  BY <1>3, KeptByContinue DEF UnaryOperand
<1>4. CASE OpError
  BY <1>4, KeptByThrow DEF OpError
<1>5. CASE OpsDone
  BY <1>5, SameLeave, SameHasValue, Unchanged, Kept DEF OpsDone
<1>6. QED
  BY <1>1, <1>2, <1>3, <1>4, <1>5

-----------------------------------------------------------------------------
(* The steps that open and end executors and calls.                        *)

\* The activation on top goes on at pc, whatever it did before.
LEMMA GotoCount ==
  ASSUME IInv, frames # <<>>,
         NEW pc, <<Top.kind, pc>> \in Positions, pc # "init", NEW pcs
  PROVE  /\ Goto(pc) \in Seq(Frame) /\ Leave \in Seq(Frame)
         /\ Count(Leave, pcs) \in Nat
         /\ Count(frames, pcs) = Count(Leave, pcs) + (IF Top.at \in pcs THEN 1 ELSE 0)
         /\ Count(Goto(pc), pcs) = Count(Leave, pcs) + (IF pc \in pcs THEN 1 ELSE 0)
<1>1. PICK f \in Frame : f = [Top EXCEPT !.at = pc]
  BY TopFrame, FrameAt DEF NoName
<1>2. f.at = pc
  BY <1>1, TopFrame DEF Frame
<1>3. Goto(pc) = [frames EXCEPT ![Len(frames)] = f]
  BY <1>1, TopFrame DEF Goto
<1>4. Leave \in Seq(Frame) /\ Goto(pc) = Append(Leave, f) /\ Goto(pc) \in Seq(Frame)
  BY <1>3, TopFrame, SetLast, FrontLast DEF Leave
<1>5. Count(Append(Leave, f), pcs) = Count(Leave, pcs) + (IF f.at \in pcs THEN 1 ELSE 0)
  BY <1>4, CountAppend
<1>6. /\ Count(Leave, pcs) \in Nat
      /\ Count(frames, pcs) = Count(Leave, pcs) + (IF Top.at \in pcs THEN 1 ELSE 0)
  BY TopFrame, CountFront DEF Leave, Top
<1>7. QED
  BY <1>2, <1>4, <1>5, <1>6

\* A visit below leaves the counts as they are.
LEMMA VisitCount ==
  ASSUME NEW fs \in Seq(Frame), NEW gs, NEW pcs, pcs \subseteq OpenPcs,
         gs = fs \/ \E k \in Kinds : \E ch \in Chains : gs = Append(fs, NewFrame(k, ch))
  PROVE  gs \in Seq(Frame) /\ Count(gs, pcs) = Count(fs, pcs)
<1>1. CASE gs = fs
  BY <1>1
<1>2. CASE \E k \in Kinds : \E ch \in Chains : gs = Append(fs, NewFrame(k, ch))
  <2>1. PICK f \in Frame : gs = Append(fs, f) /\ f.at \notin pcs
    BY <1>2, NewFrameType
  <2>2. Count(fs, pcs) \in Nat /\ Count(gs, pcs) = Count(fs, pcs) + (IF f.at \in pcs THEN 1 ELSE 0)
    BY <2>1, CountAppend
  <2>3. gs \in Seq(Frame)
    BY <2>1, AppendProperties
  <2>4. QED
    BY <2>1, <2>2, <2>3
<1>3. QED
  BY <1>1, <1>2

\* An activation opens an executor, for an argument (pc = "arg") or a call.
LEMMA OpenCount ==
  ASSUME IInv, frames # <<>>, Top.at \notin OpenPcs,
         NEW pc \in OpenPcs, <<Top.kind, pc>> \in Positions, NEW gs,
         \/ gs = Goto(pc)
         \/ \E k \in Kinds : \E ch \in Chains : gs = Append(Goto(pc), NewFrame(k, ch))
  PROVE  /\ gs \in Seq(Frame)
         /\ Count(gs, OpenPcs) = Count(frames, OpenPcs) + 1
         /\ Count(gs, CallPcs) = Count(frames, CallPcs) + (IF pc \in CallPcs THEN 1 ELSE 0)
<1>1. pc # "init" /\ Top.at \notin CallPcs /\ CallPcs \subseteq OpenPcs
  BY DEF OpenPcs, CallPcs
<1>2. Goto(pc) \in Seq(Frame)
  BY <1>1, GotoCount
<1>3. Count(Goto(pc), OpenPcs) = Count(frames, OpenPcs) + 1
  <2>1. /\ Count(Leave, OpenPcs) \in Nat
        /\ Count(frames, OpenPcs) = Count(Leave, OpenPcs) + (IF Top.at \in OpenPcs THEN 1 ELSE 0)
        /\ Count(Goto(pc), OpenPcs) = Count(Leave, OpenPcs) + (IF pc \in OpenPcs THEN 1 ELSE 0)
    BY <1>1, GotoCount
  <2>2. QED
    BY <2>1
<1>4. Count(Goto(pc), CallPcs) = Count(frames, CallPcs) + (IF pc \in CallPcs THEN 1 ELSE 0)
  <2>1. /\ Count(Leave, CallPcs) \in Nat
        /\ Count(frames, CallPcs) = Count(Leave, CallPcs) + (IF Top.at \in CallPcs THEN 1 ELSE 0)
        /\ Count(Goto(pc), CallPcs) = Count(Leave, CallPcs) + (IF pc \in CallPcs THEN 1 ELSE 0)
    BY <1>1, GotoCount
  <2>2. QED
    BY <1>1, <2>1
<1>5. /\ gs \in Seq(Frame)
      /\ Count(gs, OpenPcs) = Count(Goto(pc), OpenPcs)
      /\ Count(gs, CallPcs) = Count(Goto(pc), CallPcs)
  BY <1>1, <1>2, VisitCount
<1>6. QED
  BY <1>3, <1>4, <1>5

\* An activation that has opened an executor goes on without it, or returns.
LEMMA CloseCount ==
  ASSUME IInv, frames # <<>>, Top.at \in OpenPcs,
         <<Top.kind, "ops">> \in Positions, NEW gs, gs = Leave \/ gs = Goto("ops")
  PROVE  /\ gs \in Seq(Frame)
         /\ Count(gs, OpenPcs) \in Nat /\ Count(gs, CallPcs) \in Nat
         /\ Count(frames, OpenPcs) = Count(gs, OpenPcs) + 1
         /\ Count(frames, CallPcs) =
              Count(gs, CallPcs) + (IF Top.at \in CallPcs THEN 1 ELSE 0)
<1>1. "ops" \notin OpenPcs /\ "ops" \notin CallPcs
  BY DEF OpenPcs, CallPcs
<1>2. \A pcs : "ops" \notin pcs =>
        /\ gs \in Seq(Frame)
        /\ Count(gs, pcs) \in Nat
        /\ Count(frames, pcs) = Count(gs, pcs) + (IF Top.at \in pcs THEN 1 ELSE 0)
  <2> TAKE pcs
  <2> HAVE "ops" \notin pcs
  <2>1. /\ Goto("ops") \in Seq(Frame) /\ Leave \in Seq(Frame)
        /\ Count(Leave, pcs) \in Nat
        /\ Count(frames, pcs) = Count(Leave, pcs) + (IF Top.at \in pcs THEN 1 ELSE 0)
        /\ Count(Goto("ops"), pcs) = Count(Leave, pcs) + (IF "ops" \in pcs THEN 1 ELSE 0)
    BY GotoCount
  <2>2. Count(Goto("ops"), pcs) = Count(Leave, pcs)
    BY <2>1
  <2>3. Count(gs, pcs) = Count(Leave, pcs) /\ gs \in Seq(Frame)
    BY <2>1, <2>2
  <2>4. QED
    BY <2>1, <2>3
<1>3. /\ gs \in Seq(Frame) /\ Count(gs, OpenPcs) \in Nat
      /\ Count(frames, OpenPcs) = Count(gs, OpenPcs) + (IF Top.at \in OpenPcs THEN 1 ELSE 0)
  BY <1>1, <1>2
<1>4. /\ Count(gs, CallPcs) \in Nat
      /\ Count(frames, CallPcs) = Count(gs, CallPcs) + (IF Top.at \in CallPcs THEN 1 ELSE 0)
  BY <1>1, <1>2
<1>5. QED
  BY <1>3, <1>4

LEMMA NewExecType ==
  ASSUME IInv, NEW ch \in Chains
  PROVE  /\ Append(execs, NewExec(ch)) \in Seq(Executors)
         /\ Append(execs, NewExec(ch)) # <<>>
         /\ Len(Append(execs, NewExec(ch))) = Len(execs) + 1
<1>1. NewExec(ch) \in Executors /\ execs \in Seq(Executors)
  BY ExecsNonEmpty DEF NewExec, Executors
<1>2. QED
  BY <1>1, AppendProperties, EmptySeq

LEMMA DroppedExec ==
  ASSUME IInv
  PROVE  Front(execs) \in Seq(Executors) /\ Len(Front(execs)) = Len(execs) - 1
BY ExecsNonEmpty, FrontLast

LEMMA ArgumentSteps ==
  ASSUME IInv, Argument \/ ArgumentEnd
  PROVE  IInv'
<1>1. CASE Argument
  <2>1. /\ frames # <<>> /\ Top.at \notin OpenPcs /\ "arg" \in OpenPcs /\ "arg" \notin CallPcs
        /\ <<Top.kind, "arg">> \in Positions
    BY <1>1 DEF Argument, AtOps, At, OpenPcs, CallPcs, Positions
  <2>2. Exec.scopes \in Chains /\ calls' \in Seq(Sites) /\ calls' = calls
    BY <1>1, ExecsNonEmpty DEF Executors, Argument, IInv, TypeOK
  <2>3. Goto("arg") \in Seq(Frame)
    BY <2>1, OpenCount
  <2>4. VisitExpression(Goto("arg"), Append(execs, NewExec(Exec.scopes)))
    BY <1>1 DEF Argument
  <2>5. /\ frames' = Goto("arg")
           \/ \E k \in ExpressionKinds : frames' = Append(Goto("arg"), NewFrame(k, <<>>))
        /\ execs' \in Seq(Executors) /\ Len(execs') = Len(execs) + 1
        /\ state' \in States /\ trace' \in Traces
    BY <2>2, <2>3, <2>4, NewExecType, VisitExpressionType
  <2>6. \/ frames' = Goto("arg")
        \/ \E k \in Kinds : \E ch \in Chains : frames' = Append(Goto("arg"), NewFrame(k, ch))
    BY <2>5, NoChain DEF Kinds
  <2>7. /\ frames' \in Seq(Frame)
        /\ Count(frames', OpenPcs) = Count(frames, OpenPcs) + 1
        /\ Count(frames', CallPcs) = Count(frames, CallPcs) + (IF "arg" \in CallPcs THEN 1 ELSE 0)
    BY <2>1, <2>6, OpenCount
  <2>8. TypeOK'
    BY <2>2, <2>5, <2>7 DEF TypeOK, IInv
  <2>9. ExecutorsMatch'
    <3>1. Len(execs) = 1 + Count(frames, OpenPcs) /\ Count(frames, OpenPcs) \in Nat
      BY OpensNat DEF IInv, ExecutorsMatch
    <3>2. Len(execs') = Len(execs) + 1 /\ Count(frames', OpenPcs) = Count(frames, OpenPcs) + 1
      BY <2>5, <2>7
    <3>3. QED
      BY <3>1, <3>2 DEF ExecutorsMatch
  <2>10. CallsMatch'
    <3>1. Len(calls) = Count(frames, CallPcs) /\ calls' = calls
      BY <2>2 DEF IInv, CallsMatch
    <3>2. Count(frames, CallPcs) \in Nat
      BY <3>1, LenProperties DEF IInv, TypeOK
    <3>3. Count(frames', CallPcs) = Count(frames, CallPcs)
      BY <2>1, <2>7, <3>2
    <3>4. QED
      BY <3>1, <3>3 DEF CallsMatch
  <2>11. QED
    BY <2>8, <2>9, <2>10 DEF IInv
<1>2. CASE ArgumentEnd
  <2>1. /\ frames # <<>> /\ Top.at \in OpenPcs /\ Top.at \notin CallPcs
        /\ <<Top.kind, "ops">> \in Positions
    BY <1>2 DEF ArgumentEnd, At, OpenPcs, CallPcs, Positions
  <2>2. /\ frames' \in Seq(Frame)
        /\ Count(frames', OpenPcs) \in Nat /\ Count(frames', CallPcs) \in Nat
        /\ Count(frames, OpenPcs) = Count(frames', OpenPcs) + 1
        /\ Count(frames, CallPcs) =
             Count(frames', CallPcs) + (IF Top.at \in CallPcs THEN 1 ELSE 0)
    BY <1>2, <2>1, CloseCount DEF ArgumentEnd
  <2>3. execs' \in Seq(Executors) /\ Len(execs') = Len(execs) - 1
    BY <1>2, DroppedExec DEF ArgumentEnd
  <2>4. TypeOK'
    BY <1>2, <2>2, <2>3 DEF ArgumentEnd, TypeOK, IInv
  <2>5. ExecutorsMatch'
    BY <2>2, <2>3, ExecsNonEmpty DEF IInv, ExecutorsMatch
  <2>6. CallsMatch'
    BY <1>2, <2>1, <2>2 DEF ArgumentEnd, IInv, CallsMatch
  <2>7. QED
    BY <2>4, <2>5, <2>6 DEF IInv
<1>3. QED
  BY <1>1, <1>2


LEMMA CallClosureStep ==
  ASSUME IInv, CallClosure
  PROVE  IInv'
<1>1. /\ frames # <<>> /\ Top.at \notin OpenPcs
      /\ <<Top.kind, "begin">> \in Positions /\ <<Top.kind, "long">> \in Positions
      /\ {"begin", "long"} \subseteq CallPcs /\ {"begin", "long"} \subseteq OpenPcs
  BY DEF CallClosure, At, OpenPcs, CallPcs, Positions
<1>2. PICK site \in Sites : calls' = Append(calls, site)
  BY DEF CallClosure
<1>3. PICK captured \in SUBSET Names, params \in SUBSET Names :
        LET chain == <<captured, params>> IN
        \/ /\ frames' = Append(Goto("long"), NewFrame("Body", chain))
           /\ execs' = Append(execs, NewExec(Append(chain, {})))
           /\ UNCHANGED <<state, trace>>
        \/ /\ frames' = Goto("begin")
           /\ execs' = Append(execs, NewExec(chain))
           /\ UNCHANGED <<state, trace>>
  BY DEF CallClosure
<1>4. <<captured, params>> \in Chains /\ Append(<<captured, params>>, {}) \in Chains
  <2>1. <<captured, params>> \in Seq(SUBSET Names)
    OBVIOUS
  <2>2. QED
    BY <2>1, AppendProperties DEF Chains
<1>5. /\ execs' \in Seq(Executors) /\ Len(execs') = Len(execs) + 1
      /\ state' \in States /\ trace' \in Traces
  BY <1>3, <1>4, NewExecType, Unchanged
<1>6. /\ frames' \in Seq(Frame)
      /\ Count(frames', OpenPcs) = Count(frames, OpenPcs) + 1
      /\ Count(frames', CallPcs) = Count(frames, CallPcs) + 1
  <2>1. PICK pc \in {"begin", "long"} :
          \/ frames' = Goto(pc)
          \/ \E k \in Kinds : \E ch \in Chains : frames' = Append(Goto(pc), NewFrame(k, ch))
    BY <1>3, <1>4 DEF Kinds
  <2>2. pc \in OpenPcs /\ pc \in CallPcs /\ <<Top.kind, pc>> \in Positions
    BY <1>1
  <2>3. /\ frames' \in Seq(Frame)
        /\ Count(frames', OpenPcs) = Count(frames, OpenPcs) + 1
        /\ Count(frames', CallPcs) = Count(frames, CallPcs) + (IF pc \in CallPcs THEN 1 ELSE 0)
    BY <1>1, <2>1, <2>2, OpenCount
  <2>4. QED
    BY <2>2, <2>3
<1>7. calls' \in Seq(Sites) /\ Len(calls') = Len(calls) + 1 /\ Len(calls) \in Nat
  BY <1>2, AppendProperties, LenProperties DEF IInv, TypeOK
<1>8. TypeOK'
  <2>1. Len(calls') <= Capacity
    BY <1>7, ConstantsAssumption DEF CallClosure, CanPush
  <2>2. QED
    BY <1>5, <1>6, <1>7, <2>1 DEF TypeOK
<1>9. ExecutorsMatch'
  <2>1. Len(execs) = 1 + Count(frames, OpenPcs) /\ Count(frames, OpenPcs) \in Nat
    BY OpensNat DEF IInv, ExecutorsMatch
  <2>2. Len(execs') = Len(execs) + 1 /\ Count(frames', OpenPcs) = Count(frames, OpenPcs) + 1
    BY <1>5, <1>6
  <2>3. QED
    BY <2>1, <2>2 DEF ExecutorsMatch
<1>10. CallsMatch'
  BY <1>6, <1>7 DEF CallsMatch, IInv
<1>11. QED
  BY <1>8, <1>9, <1>10 DEF IInv


LEMMA ShortBodyStep ==
  ASSUME IInv, ShortBody
  PROVE  IInv'
<1>1. /\ frames # <<>> /\ Top.at = "begin" /\ <<Top.kind, "short">> \in Positions
      /\ {"begin", "short"} \subseteq CallPcs /\ {"begin", "short"} \subseteq OpenPcs
  BY DEF ShortBody, At, OpenPcs, CallPcs, Positions
<1>2. \A pcs : {"begin", "short"} \subseteq pcs =>
        Goto("short") \in Seq(Frame) /\ Count(Goto("short"), pcs) = Count(frames, pcs)
  <2> TAKE pcs
  <2> HAVE {"begin", "short"} \subseteq pcs
  <2>1. /\ Goto("short") \in Seq(Frame)
        /\ Count(Leave, pcs) \in Nat
        /\ Count(frames, pcs) = Count(Leave, pcs) + (IF Top.at \in pcs THEN 1 ELSE 0)
        /\ Count(Goto("short"), pcs) = Count(Leave, pcs) + (IF "short" \in pcs THEN 1 ELSE 0)
    BY <1>1, GotoCount
  <2>2. QED
    BY <1>1, <2>1
<1>3. SameFrames(Goto("short"))
  BY <1>1, <1>2 DEF SameFrames
<1>4. SameExecs(execs) /\ execs # <<>>
  BY ExecsNonEmpty DEF SameExecs
<1>5. QED
  BY <1>3, <1>4, KeptByVisit DEF ShortBody

LEMMA CallEndStep ==
  ASSUME IInv, CallEnd
  PROVE  IInv'
<1>1. /\ frames # <<>> /\ Top.at \in OpenPcs /\ Top.at \in CallPcs
      /\ <<Top.kind, "ops">> \in Positions
  BY DEF CallEnd, At, OpenPcs, CallPcs, Positions
<1>2. /\ frames' \in Seq(Frame)
      /\ Count(frames', OpenPcs) \in Nat /\ Count(frames', CallPcs) \in Nat
      /\ Count(frames, OpenPcs) = Count(frames', OpenPcs) + 1
      /\ Count(frames, CallPcs) = Count(frames', CallPcs) + 1
  <2>1. frames' = Leave \/ frames' = Goto("ops")
    BY DEF CallEnd
  <2>2. /\ frames' \in Seq(Frame)
        /\ Count(frames', OpenPcs) \in Nat /\ Count(frames', CallPcs) \in Nat
        /\ Count(frames, OpenPcs) = Count(frames', OpenPcs) + 1
        /\ Count(frames, CallPcs) =
             Count(frames', CallPcs) + (IF Top.at \in CallPcs THEN 1 ELSE 0)
    BY <1>1, <2>1, CloseCount
  <2>3. QED
    BY <1>1, <2>2
<1>3. execs' \in Seq(Executors) /\ Len(execs') = Len(execs) - 1
  BY DroppedExec DEF CallEnd
<1>4. calls' \in Seq(Sites) /\ Len(calls') = Len(calls) - 1 /\ Len(calls) \in Nat
  <2>1. calls \in Seq(Sites) /\ Len(calls) = Count(frames', CallPcs) + 1
    BY <1>2 DEF IInv, TypeOK, CallsMatch
  <2>2. calls # <<>>
    BY <1>2, <2>1, EmptySeq
  <2>3. QED
    BY <2>1, <2>2, FrontLast DEF CallEnd, Popped
<1>5. state' \in States /\ trace' \in Traces
  BY DEF CallEnd, AfterCall, States, IInv, TypeOK
<1>6. TypeOK'
  <2>1. Len(calls') <= Capacity
    BY <1>4, ConstantsAssumption DEF IInv, TypeOK
  <2>2. QED
    BY <1>2, <1>3, <1>4, <1>5, <2>1 DEF TypeOK
<1>7. ExecutorsMatch'
  BY <1>2, <1>3, ExecsNonEmpty DEF IInv, ExecutorsMatch
<1>8. CallsMatch'
  BY <1>2, <1>4 DEF IInv, CallsMatch
<1>9. QED
  BY <1>6, <1>7, <1>8 DEF IInv

LEMMA NextStep == IInv /\ [Next]_vars => IInv'
<1> SUFFICES ASSUME IInv, [Next]_vars PROVE IInv'
  OBVIOUS
<1>1. CASE Propagate
  BY <1>1, PropagateStep
<1>2. CASE FirstExpression
  BY <1>2, FirstExpressionStep
<1>3. CASE Statement
  BY <1>3, BodyAndVarSteps, ConditionSteps, CycleSteps, SimpleStatementSteps DEF Statement
<1>4. CASE Expression
  BY <1>4, OperandSteps, ArgumentSteps, CallClosureStep, ShortBodyStep, CallEndStep
     DEF Expression
<1>5. CASE UNCHANGED vars
  BY <1>5 DEF vars, IInv, TypeOK, ExecutorsMatch, CallsMatch
<1>6. QED
  BY <1>1, <1>2, <1>3, <1>4, <1>5 DEF Next, Terminated

-----------------------------------------------------------------------------
(* The theorems.                                                           *)

\* IInv is an invariant: every evaluation nested in another has an executor
\* of its own and every closure being executed an entry in the call stack.
THEOREM Inductive == Spec => []IInv
<1>1. QED
  BY InitIInv, NextStep, PTL DEF Spec

\* Whatever the program, the interpreter's state has the types of the C++
\* declarations, and RuntimeContext::Stack never exceeds its capacity.
THEOREM TypeCorrect == Spec => []TypeOK
<1>1. IInv => TypeOK
  BY DEF IInv
<1>2. QED
  BY <1>1, Inductive, PTL

\* Whatever the program, the call stack has one entry for each closure that is
\* being executed: VisitCall pops what it pushed on every path, by `return`,
\* at the end of a body, and while an error unwinds; in particular it is
\* empty when the program has ended.
THEOREM CallStackMatches == Spec => []CallStackMatchesCalls
<1>1. IInv => CallStackMatchesCalls
  BY DEF IInv, CallsMatch, Count, CallStackMatchesCalls, IsCall
<1>2. QED
  BY <1>1, Inductive, PTL

-----------------------------------------------------------------------------
(* Which activations stand on which.                                       *)

\* Where the activation waits that has made a visit of kind k.
Below(k) ==
  CASE k = "Body" -> LoopKinds \X {"body"} \cup {<<"If", "branch">>, <<"Unary", "long">>}
    [] k \in StatementKinds -> {<<"Body", "run">>, <<"ShortIf", "then">>}
    [] k = "Access" -> {<<"Assign", "chain">>}
    [] OTHER -> TakesValue \cup {<<"ExprStmt", "expr">>, <<"Unary", "short">>}
                  \cup {"Unary", "Access"} \X {"arg"}

\* Where an activation waits for a visit, and where it does with a jump under way.
Waiting == TakesValue \cup Controls \cup
  {<<"Body", "run">>, <<"ExprStmt", "expr">>, <<"Assign", "chain">>,
   <<"Unary", "short">>, <<"Unary", "long">>} \cup {"Unary", "Access"} \X {"arg"}
Jumping == Controls \cup {<<"Body", "run">>, <<"Unary", "long">>}

\* The invariants below, of activations fs and a state st.
CallOpen(fs) == \E i \in DOMAIN fs : fs[i].at \in CallPcs
CycleOpen(fs) == \E i \in DOMAIN fs :
                   /\ RunsBody(fs[i])
                   /\ \A j \in i + 1 .. Len(fs) : fs[j].at \notin CallPcs

\* Each activation has been entered by the one below it, the first by Run.
Nested(fs) ==
  /\ fs # <<>> => fs[1].kind = "Body"
  /\ \A i \in 1 .. Len(fs) - 1 : Pos(fs[i]) \in Below(fs[i + 1].kind)

\* `return` is in a function.
ReturnsInCalls(fs) ==
  \A i \in DOMAIN fs : fs[i].kind = "Return" => \E j \in 1 .. i - 1 : fs[j].at \in CallPcs

\* The program is no deeper than its bound.
Bounded(fs) == Len(fs) <= MaxDepth

Grammar(fs) == Nested(fs) /\ ReturnsInCalls(fs) /\ Bounded(fs)

\* The activation on top, and those below, have a place for the state.
StateFits(fs, st) ==
  /\ st # "Running" /\ fs # <<>> => Pos(Last(fs)) \in Waiting
  /\ st \in {"Exiting", "Returning"} => fs # <<>> /\ Pos(Last(fs)) \in Jumping
  /\ st = "Exiting" => CycleOpen(fs)
  /\ st = "Returning" => CallOpen(fs)

JInv == Grammar(frames) /\ StateFits(frames, state)

-----------------------------------------------------------------------------
(* One activation more.                                                    *)

LEMMA Appended ==
  ASSUME NEW gs \in Seq(Frame), NEW f \in Frame
  PROVE  /\ Append(gs, f) \in Seq(Frame) /\ Append(gs, f) # <<>>
         /\ Last(Append(gs, f)) = f
         /\ Len(gs) \in Nat /\ Len(Append(gs, f)) = Len(gs) + 1
         /\ DOMAIN gs = 1 .. Len(gs) /\ DOMAIN Append(gs, f) = 1 .. Len(gs) + 1
         /\ \A i \in 1 .. Len(gs) : Append(gs, f)[i] = gs[i]
         /\ Append(gs, f)[Len(gs) + 1] = f
<1>1. Len(gs) \in Nat
  BY LenProperties
<1>2. QED
  BY <1>1, AppendProperties, LenProperties DEF Last

LEMMA CallOpenAppended ==
  ASSUME NEW gs \in Seq(Frame), NEW f \in Frame
  PROVE  CallOpen(Append(gs, f)) <=> CallOpen(gs) \/ f.at \in CallPcs
BY Appended DEF CallOpen

LEMMA CycleOpenAppended ==
  ASSUME NEW gs \in Seq(Frame), NEW f \in Frame
  PROVE  CycleOpen(Append(gs, f)) <=> RunsBody(f) \/ (CycleOpen(gs) /\ f.at \notin CallPcs)
<1> DEFINE fs == Append(gs, f)
           n == Len(gs)
<1>1. /\ n \in Nat /\ Len(fs) = n + 1 /\ DOMAIN gs = 1 .. n /\ DOMAIN fs = 1 .. n + 1
      /\ fs[n + 1] = f /\ \A i \in 1 .. n : fs[i] = gs[i]
  BY Appended
<1> HIDE DEF fs, n
<1>2. CycleOpen(fs) => RunsBody(f) \/ (CycleOpen(gs) /\ f.at \notin CallPcs)
  <2> SUFFICES ASSUME CycleOpen(fs), ~RunsBody(f)
               PROVE  CycleOpen(gs) /\ f.at \notin CallPcs
    OBVIOUS
  <2>1. PICK i \in 1 .. n + 1 : RunsBody(fs[i]) /\ \A j \in i + 1 .. n + 1 : fs[j].at \notin CallPcs
    BY <1>1 DEF CycleOpen
  <2>2. i \in 1 .. n
    BY <1>1, <2>1
  <2>3. /\ RunsBody(gs[i]) /\ f.at \notin CallPcs
        /\ \A j \in i + 1 .. n : gs[j].at \notin CallPcs
    BY <1>1, <2>1, <2>2
  <2>4. QED
    BY <1>1, <2>2, <2>3 DEF CycleOpen, n
<1>3. RunsBody(f) => CycleOpen(fs)
  BY <1>1 DEF CycleOpen
<1>4. CycleOpen(gs) /\ f.at \notin CallPcs => CycleOpen(fs)
  <2> SUFFICES ASSUME CycleOpen(gs), f.at \notin CallPcs PROVE CycleOpen(fs)
    OBVIOUS
  <2>1. PICK i \in 1 .. n : RunsBody(gs[i]) /\ \A j \in i + 1 .. n : gs[j].at \notin CallPcs
    BY <1>1 DEF CycleOpen, n
  <2>2. i \in 1 .. n + 1 /\ RunsBody(fs[i])
    BY <1>1, <2>1
  <2>3. ASSUME NEW j \in i + 1 .. n + 1 PROVE fs[j].at \notin CallPcs
    BY <1>1, <2>1
  <2>4. QED
    BY <1>1, <2>2, <2>3 DEF CycleOpen
<1>5. QED
  BY <1>2, <1>3, <1>4 DEF fs

\* A visit of kind k can be the next above gs.
Stands(gs, k) == IF gs = <<>> THEN k = "Body" ELSE Pos(Last(gs)) \in Below(k)

LEMMA NestedAppended ==
  ASSUME NEW gs \in Seq(Frame), NEW f \in Frame
  PROVE  Nested(Append(gs, f)) <=> Nested(gs) /\ Stands(gs, f.kind)
<1> DEFINE fs == Append(gs, f)
           n == Len(gs)
<1>1. /\ n \in Nat /\ Len(fs) = n + 1 /\ fs # <<>>
      /\ fs[n + 1] = f /\ \A i \in 1 .. n : fs[i] = gs[i]
  BY Appended
<1>2. CASE gs = <<>>
  BY <1>1, <1>2 DEF Nested, Stands
<1>3. CASE gs # <<>>
  <2>1. n \in Nat \ {0} /\ Last(gs) = gs[n]
    BY <1>1, <1>3, EmptySeq DEF Last
  <2> HIDE DEF fs, n
  <2>2. Nested(fs) => Nested(gs) /\ Pos(gs[n]) \in Below(f.kind)
    <3> SUFFICES ASSUME Nested(fs) PROVE Nested(gs) /\ Pos(gs[n]) \in Below(f.kind)
      OBVIOUS
    <3>1. /\ fs[1].kind = "Body"
          /\ \A i \in 1 .. n : Pos(fs[i]) \in Below(fs[i + 1].kind)
      BY <1>1 DEF Nested
    <3>2. gs[1].kind = "Body" /\ Pos(gs[n]) \in Below(f.kind)
      BY <1>1, <2>1, <3>1
    <3>3. ASSUME NEW i \in 1 .. n - 1 PROVE Pos(gs[i]) \in Below(gs[i + 1].kind)
      <4>1. i \in 1 .. n /\ i + 1 \in 1 .. n
        BY <1>1
      <4>2. QED
        BY <1>1, <3>1, <4>1
    <3>4. QED
      BY <3>2, <3>3 DEF Nested, n
  <2>3. Nested(gs) /\ Pos(gs[n]) \in Below(f.kind) => Nested(fs)
    <3> SUFFICES ASSUME Nested(gs), Pos(gs[n]) \in Below(f.kind) PROVE Nested(fs)
      OBVIOUS
    <3>1. /\ gs[1].kind = "Body"
          /\ \A i \in 1 .. n - 1 : Pos(gs[i]) \in Below(gs[i + 1].kind)
      BY <1>3 DEF Nested, n
    <3>2. fs[1].kind = "Body"
      BY <1>1, <2>1, <3>1
    <3>3. ASSUME NEW i \in 1 .. n PROVE Pos(fs[i]) \in Below(fs[i + 1].kind)
      <4>1. CASE i = n
        BY <1>1, <2>1, <4>1
      <4>2. CASE i # n
        <5>1. i \in 1 .. n - 1 /\ i + 1 \in 1 .. n
          BY <2>1, <4>2
        <5>2. QED
          BY <1>1, <3>1, <5>1
      <4>3. QED
        BY <4>1, <4>2
    <3>4. Len(fs) - 1 = n
      BY <1>1
    <3>5. QED
      BY <3>2, <3>3, <3>4 DEF Nested
  <2>4. QED
    BY <1>3, <2>1, <2>2, <2>3 DEF Stands, fs
<1>4. QED
  BY <1>2, <1>3

LEMMA ReturnsAppended ==
  ASSUME NEW gs \in Seq(Frame), NEW f \in Frame
  PROVE  ReturnsInCalls(Append(gs, f)) <=>
           ReturnsInCalls(gs) /\ (f.kind = "Return" => CallOpen(gs))
<1> DEFINE fs == Append(gs, f)
           n == Len(gs)
<1>1. /\ n \in Nat /\ DOMAIN gs = 1 .. n /\ DOMAIN fs = 1 .. n + 1
      /\ fs[n + 1] = f /\ \A i \in 1 .. n : fs[i] = gs[i]
  BY Appended
<1> HIDE DEF fs, n
<1>2. \A i \in 1 .. n + 1 :
        (\E j \in 1 .. i - 1 : fs[j].at \in CallPcs) <=> (\E j \in 1 .. i - 1 : gs[j].at \in CallPcs)
  <2> TAKE i \in 1 .. n + 1
  <2>1. \A j \in 1 .. i - 1 : j \in 1 .. n
    BY <1>1
  <2>2. QED
    BY <1>1, <2>1
<1>3. (f.kind = "Return" => CallOpen(gs))
        <=> (fs[n + 1].kind = "Return" => \E j \in 1 .. (n + 1) - 1 : fs[j].at \in CallPcs)
  BY <1>1 DEF CallOpen
<1>4. ReturnsInCalls(gs)
        <=> \A i \in 1 .. n : fs[i].kind = "Return" => \E j \in 1 .. i - 1 : fs[j].at \in CallPcs
  BY <1>1, <1>2 DEF ReturnsInCalls
<1>5. ReturnsInCalls(fs)
        <=> \A i \in 1 .. n + 1 : fs[i].kind = "Return" => \E j \in 1 .. i - 1 : fs[j].at \in CallPcs
  BY <1>1 DEF ReturnsInCalls
<1>6. \A i : i \in 1 .. n + 1 <=> i \in 1 .. n \/ i = n + 1
  BY <1>1
<1>7. QED
  BY <1>3, <1>4, <1>5, <1>6 DEF fs
-----------------------------------------------------------------------------
(* The kinds of steps.                                                     *)

\* What ControlFlow sees of an activation.
Opens(f) == IF RunsBody(f) THEN "cycle" ELSE IF IsCall(f) THEN "call" ELSE "none"

\* The activation on top goes on as g, perhaps with a visit above it.
GoesOn(g) == g \in Frame /\ g.kind = Top.kind /\ frames' = Append(Leave, g)
Visits(g, f) ==
  /\ g \in Frame /\ g.kind = Top.kind /\ f \in Frame
  /\ Opens(f) = "none" /\ Pos(g) \in Below(f.kind)
  /\ f.kind = "Return" => CallOpen(frames)
  /\ Len(frames) < MaxDepth
  /\ frames' = Append(Append(Leave, g), f)

\* A step within the innermost cycle or call, and the beginning of a jump.
Stays ==
  /\ frames # <<>> /\ state = "Running"
  /\ \E g \in Frame :
       /\ Opens(g) = Opens(Top)
       /\ \/ state' = "Running" /\ (GoesOn(g) \/ \E f \in Frame : Visits(g, f))
          \/ state' = "Throwing" /\ GoesOn(g) /\ Pos(g) \in Waiting
          \/ /\ state' = "Exiting" /\ GoesOn(g)
             /\ Pos(g) \in Jumping /\ CycleOpen(frames')
          \/ /\ state' = "Returning" /\ GoesOn(g)
             /\ Pos(g) \in Jumping /\ CallOpen(frames')

\* The activation on top begins to run the body of a cycle, or a call.
Enters ==
  /\ frames # <<>> /\ state = "Running" /\ state' = "Running" /\ Opens(Top) = "none"
  /\ \E g \in Frame :
       /\ Opens(g) \in {"cycle", "call"}
       /\ Opens(g) = "call" => Len(calls) < Capacity
       /\ GoesOn(g) \/ \E f \in Frame : Visits(g, f)

\* It has run it, and goes on, perhaps after `return`.
Finishes ==
  /\ frames # <<>> /\ state' = "Running" /\ Opens(Top) \in {"cycle", "call"}
  /\ state = "Running" \/ (state = "Returning" /\ Opens(Top) = "call")
  /\ \E g \in Frame : Opens(g) = "none" /\ GoesOn(g)

\* It returns: because it is done, or because of the state.
Leaves ==
  /\ frames # <<>> /\ frames' = Leave
  /\ \/ /\ state = "Running" /\ Opens(Top) = "none"
        /\ state' \in {"Running", "Throwing"} \/ (state' = "Returning" /\ Top.kind = "Return")
     \/ state # "Running" /\ Opens(Top) = "none" /\ state' = state
     \/ state # "Running" /\ Opens(Top) = "cycle" /\ state' = AfterCycle
     \/ state = "Throwing" /\ Opens(Top) = "call" /\ state' = state

Classified == Stays \/ Enters \/ Finishes \/ Leaves

\* The activations are those below the top and the top.
LEMMA TopAndBelow ==
  ASSUME IInv, frames # <<>>
  PROVE  /\ Leave \in Seq(Frame) /\ Top \in Frame
         /\ frames = Append(Leave, Top)
         /\ Len(Leave) = Len(frames) - 1 /\ Len(frames) \in Nat \ {0}
BY TopFrame, FrontLast DEF Leave, Top

\* What the positions that ControlFlow sees have in common.
LEMMA OpensFacts ==
  ASSUME NEW f \in Frame
  PROVE  /\ f.at \in CallPcs <=> Opens(f) = "call"
         /\ RunsBody(f) <=> Opens(f) = "cycle"
         /\ Opens(f) \in {"none", "cycle", "call"}
BY DEF Opens, RunsBody, IsCall, CallPcs

\* The grammar of the activations below the top, and what the top stands on.
LEMMA GrammarBelow ==
  ASSUME IInv, Grammar(frames), frames # <<>>
  PROVE  /\ Grammar(Leave) /\ Stands(Leave, Top.kind)
         /\ Top.kind = "Return" => CallOpen(Leave)
<1>1. Nested(Leave) /\ Stands(Leave, Top.kind)
  BY TopAndBelow, NestedAppended DEF Grammar
<1>2. ReturnsInCalls(Leave) /\ (Top.kind = "Return" => CallOpen(Leave))
  BY TopAndBelow, ReturnsAppended DEF Grammar
<1>3. Bounded(Leave)
  BY TopAndBelow, ConstantsAssumption DEF Grammar, Bounded
<1>4. QED
  BY <1>1, <1>2, <1>3 DEF Grammar

LEMMA GrammarGoesOn ==
  ASSUME IInv, Grammar(frames), frames # <<>>, NEW g \in Frame, g.kind = Top.kind
  PROVE  Grammar(Append(Leave, g))
<1>1. Nested(Append(Leave, g))
  BY TopAndBelow, GrammarBelow, NestedAppended DEF Grammar
<1>2. ReturnsInCalls(Append(Leave, g))
  BY TopAndBelow, GrammarBelow, ReturnsAppended DEF Grammar
<1>3. Bounded(Append(Leave, g))
  BY TopAndBelow, Appended DEF Grammar, Bounded
<1>4. QED
  BY <1>1, <1>2, <1>3 DEF Grammar

LEMMA GrammarVisits ==
  ASSUME IInv, Grammar(frames), frames # <<>>, NEW g \in Frame, NEW f \in Frame, Visits(g, f)
  PROVE  Grammar(frames')
<1> DEFINE gs == Append(Leave, g)
<1>1. gs \in Seq(Frame) /\ gs # <<>> /\ Last(gs) = g /\ Len(gs) = Len(frames)
  BY TopAndBelow, Appended
<1>2. Grammar(gs)
  BY GrammarGoesOn DEF Visits
<1>3. Stands(gs, f.kind)
  BY <1>1 DEF Stands, Visits
<1>4. f.kind = "Return" => CallOpen(gs)
  <2> SUFFICES ASSUME f.kind = "Return" PROVE CallOpen(gs)
    OBVIOUS
  <2>1. CallOpen(Leave) \/ Top.at \in CallPcs
    <3>1. CallOpen(Append(Leave, Top))
      BY TopAndBelow DEF Visits
    <3>2. QED
      BY <3>1, TopAndBelow, CallOpenAppended
  <2>2. Top.at \notin CallPcs
    <3>1. Pos(g) \in {<<"Body", "run">>, <<"ShortIf", "then">>}
      BY DEF Visits, Below, StatementKinds
    <3>2. Top.kind \in {"Body", "ShortIf"}
      BY <3>1 DEF Visits, Pos
    <3>3. QED
      BY <3>2, TopAndBelow DEF Frame, Positions, TakesValue, Controls, LoopKinds, CallPcs
  <2>3. QED
    BY <2>1, <2>2, TopAndBelow, CallOpenAppended
<1>5. Bounded(Append(gs, f))
  BY <1>1, TopAndBelow, Appended, ConstantsAssumption DEF Bounded, Visits
<1>6. QED
  BY <1>1, <1>2, <1>3, <1>4, <1>5, NestedAppended, ReturnsAppended DEF Grammar, Visits

-----------------------------------------------------------------------------
(* Every kind of step keeps the invariant.                                 *)

LEMMA WaitingFacts ==
  /\ \A k : Below(k) \subseteq Waiting
  /\ \A k : k = "Body" \/ k \in StatementKinds => Below(k) \subseteq Jumping
BY DEF Below, Waiting, Jumping, Controls, LoopKinds, StatementKinds

\* Where a jump can be under way, only a call is neither a Body nor a statement.
LEMMA JumpingKinds ==
  ASSUME NEW f \in Frame, Pos(f) \in Jumping, Opens(f) # "call"
  PROVE  f.kind = "Body" \/ f.kind \in StatementKinds
BY DEF Jumping, Controls, LoopKinds, StatementKinds, Pos, Opens, RunsBody, IsCall, CallPcs

LEMMA StaysKeeps ==
  ASSUME IInv, JInv, Stays
  PROVE  JInv'
<1>1. PICK g \in Frame :
        /\ Opens(g) = Opens(Top)
        /\ \/ state' = "Running" /\ (GoesOn(g) \/ \E f \in Frame : Visits(g, f))
           \/ state' = "Throwing" /\ GoesOn(g) /\ Pos(g) \in Waiting
           \/ /\ state' = "Exiting" /\ GoesOn(g)
              /\ Pos(g) \in Jumping /\ CycleOpen(frames')
           \/ /\ state' = "Returning" /\ GoesOn(g)
              /\ Pos(g) \in Jumping /\ CallOpen(frames')
  BY DEF Stays
<1>2. Grammar(frames')
  BY <1>1, GrammarGoesOn, GrammarVisits DEF GoesOn, JInv, Stays
<1>3. GoesOn(g) => frames' # <<>> /\ Last(frames') = g
  BY TopAndBelow, Appended DEF GoesOn, Stays
<1>4. Jumping \subseteq Waiting
  BY DEF Jumping, Waiting
<1>5. StateFits(frames', state')
  BY <1>1, <1>3, <1>4 DEF StateFits
<1>6. QED
  BY <1>2, <1>5 DEF JInv

LEMMA EntersKeeps ==
  ASSUME IInv, JInv, Enters
  PROVE  JInv'
<1>1. Grammar(frames')
  BY GrammarGoesOn, GrammarVisits DEF Enters, GoesOn, JInv
<1>2. StateFits(frames', state')
  BY DEF StateFits, Enters
<1>3. QED
  BY <1>1, <1>2 DEF JInv

LEMMA FinishesKeeps ==
  ASSUME IInv, JInv, Finishes
  PROVE  JInv'
<1>1. Grammar(frames')
  BY GrammarGoesOn DEF Finishes, GoesOn, JInv
<1>2. StateFits(frames', state')
  BY DEF StateFits, Finishes
<1>3. QED
  BY <1>1, <1>2 DEF JInv

LEMMA LeavesKeeps ==
  ASSUME IInv, JInv, Leaves
  PROVE  JInv'
<1>1. frames # <<>> /\ frames' = Leave
  BY DEF Leaves
<1>2. Grammar(Leave) /\ Stands(Leave, Top.kind) /\ (Top.kind = "Return" => CallOpen(Leave))
  BY <1>1, GrammarBelow DEF JInv
<1>3. /\ CallOpen(frames) <=> CallOpen(Leave) \/ Top.at \in CallPcs
      /\ CycleOpen(frames) <=> RunsBody(Top) \/ (CycleOpen(Leave) /\ Top.at \notin CallPcs)
  <2>1. /\ CallOpen(Append(Leave, Top)) <=> CallOpen(Leave) \/ Top.at \in CallPcs
        /\ CycleOpen(Append(Leave, Top))
             <=> RunsBody(Top) \/ (CycleOpen(Leave) /\ Top.at \notin CallPcs)
    BY <1>1, TopAndBelow, CallOpenAppended, CycleOpenAppended
  <2>2. frames = Append(Leave, Top)
    BY <1>1, TopAndBelow
  <2>3. QED
    BY <2>1, <2>2
<1>4. (\/ CallOpen(Leave) \/ CycleOpen(Leave)) => Leave # <<>>
  BY DEF CallOpen, CycleOpen
<1>5. Leave # <<>> => Pos(Last(Leave)) \in Below(Top.kind)
  BY <1>2 DEF Stands
<1>6. state' = "Exiting" => CycleOpen(Leave) /\ (Top.kind = "Body" \/ Top.kind \in StatementKinds)
  <2> SUFFICES ASSUME state' = "Exiting"
               PROVE  CycleOpen(Leave) /\ (Top.kind = "Body" \/ Top.kind \in StatementKinds)
    OBVIOUS
  <2>1. state = "Exiting" /\ Opens(Top) = "none"
    BY DEF Leaves, AfterCycle
  <2>2. CycleOpen(frames) /\ Pos(Top) \in Jumping
    BY <2>1 DEF JInv, StateFits, Top
  <2>3. QED
    BY <1>1, <1>3, <2>1, <2>2, TopAndBelow, OpensFacts, JumpingKinds
<1>7. state' = "Returning" => CallOpen(Leave) /\ (Top.kind = "Body" \/ Top.kind \in StatementKinds)
  <2> SUFFICES ASSUME state' = "Returning"
               PROVE  CallOpen(Leave) /\ (Top.kind = "Body" \/ Top.kind \in StatementKinds)
    OBVIOUS
  <2>1. CASE state = "Running"
    BY <1>2, <2>1 DEF Leaves, StatementKinds
  <2>2. CASE state # "Running"
    <3>1. state = "Returning" /\ Opens(Top) # "call"
      BY <2>2 DEF Leaves, AfterCycle
    <3>2. CallOpen(frames) /\ Pos(Top) \in Jumping
      BY <3>1 DEF JInv, StateFits, Top
    <3>3. QED
      BY <1>1, <1>3, <3>1, <3>2, TopAndBelow, OpensFacts, JumpingKinds
  <2>3. QED
    BY <2>1, <2>2
<1>8. StateFits(frames', state')
  <2>1. state' # "Running" /\ Leave # <<>> => Pos(Last(Leave)) \in Waiting
    BY <1>5, WaitingFacts
  <2>2. state' \in {"Exiting", "Returning"} => Leave # <<>> /\ Pos(Last(Leave)) \in Jumping
    BY <1>4, <1>5, <1>6, <1>7, WaitingFacts
  <2>3. QED
    BY <1>1, <1>6, <1>7, <2>1, <2>2 DEF StateFits
<1>9. QED
  BY <1>1, <1>2, <1>8 DEF JInv

LEMMA ClassifiedKeeps ==
  ASSUME IInv, JInv, Classified
  PROVE  JInv'
BY StaysKeeps, EntersKeeps, FinishesKeeps, LeavesKeeps DEF Classified

-----------------------------------------------------------------------------
(* Every kind of step is one that ControlFlow allows.                      *)

\* The contexts of activations fs.
ContextsOf(fs) ==
  {Context(i, "cycle") : i \in {j \in DOMAIN fs : RunsBody(fs[j])}}
  \cup {Context(i, "call") : i \in {j \in DOMAIN fs : IsCall(fs[j])}}
OwnContext(n, f) == IF Opens(f) = "none" THEN {} ELSE {Context(n, Opens(f))}

LEMMA ContextsAppended ==
  ASSUME NEW gs \in Seq(Frame), NEW f \in Frame
  PROVE  ContextsOf(Append(gs, f)) = ContextsOf(gs) \cup OwnContext(Len(gs) + 1, f)
<1> DEFINE fs == Append(gs, f)
           n == Len(gs)
<1>1. /\ n \in Nat /\ DOMAIN gs = 1 .. n /\ DOMAIN fs = 1 .. n + 1
      /\ fs[n + 1] = f /\ \A i \in 1 .. n : fs[i] = gs[i]
  BY Appended
<1> HIDE DEF fs, n
<1>2. {j \in DOMAIN fs : RunsBody(fs[j])}
        = {j \in DOMAIN gs : RunsBody(gs[j])} \cup (IF RunsBody(f) THEN {n + 1} ELSE {})
  BY <1>1
<1>3. {j \in DOMAIN fs : IsCall(fs[j])}
        = {j \in DOMAIN gs : IsCall(gs[j])} \cup (IF IsCall(f) THEN {n + 1} ELSE {})
  BY <1>1
<1>4. ~(RunsBody(f) /\ IsCall(f))
  BY DEF RunsBody, IsCall, CallPcs
<1>5. ContextsOf(fs) = ContextsOf(gs) \cup OwnContext(n + 1, f)
  BY <1>2, <1>3, <1>4, Zenon DEF ContextsOf, OwnContext, Opens
<1>6. QED
  BY <1>5 DEF fs, n

LEMMA ContextLevels ==
  ASSUME NEW gs \in Seq(Frame), NEW c \in ContextsOf(gs)
  PROVE  /\ c.level \in 1 .. Len(gs) /\ c.kind \in {"cycle", "call"}
         /\ c = Context(c.level, c.kind)
         /\ c.kind = "cycle" => RunsBody(gs[c.level])
         /\ c.kind = "call" => IsCall(gs[c.level])
BY LenProperties DEF ContextsOf, Context

\* A set of levels has a highest one.
LEMMA Highest ==
  ASSUME NEW n \in Nat, NEW T, T \subseteq 1 .. n, T # {}
  PROVE  \E i \in T : \A j \in T : j <= i
<1> DEFINE D == {x \in Nat : \E i \in T : x = n - i}
           R == {p \in Nat \X Nat : p[1] < p[2]}
<1>1. D \subseteq Nat /\ D # {}
  <2>1. PICK i \in T : i \in 1 .. n
    OBVIOUS
  <2>2. n - i \in D
    BY <2>1
  <2>3. QED
    BY <2>2
<1>2. PICK x \in D : \A y \in D : ~(<<y, x>> \in R)
  <2>1. IsWellFoundedOn(R, Nat)
    BY NatLessThanWellFounded DEF OpToRel
  <2>2. QED
    BY <1>1, <2>1, WFMin
<1>3. \A y \in D : ~(y < x)
  BY <1>1, <1>2
<1>4. PICK i \in T : x \in Nat /\ x = n - i
  BY <1>2
<1>5. ASSUME NEW j \in T PROVE j <= i
  <2>1. j \in 1 .. n /\ i \in 1 .. n
    OBVIOUS
  <2>2. n - j \in D
    BY <2>1
  <2>3. QED
    BY <1>3, <1>4, <2>1, <2>2
<1>6. QED
  BY <1>5

\* With a cycle to exit, the innermost context is a cycle.
LEMMA InnermostCycle ==
  ASSUME NEW gs \in Seq(Frame), CycleOpen(gs)
  PROVE  \E c \in ContextsOf(gs) : c.kind = "cycle" /\ \A d \in ContextsOf(gs) : d.level <= c.level
<1> DEFINE n == Len(gs)
           T == {i \in 1 .. n : RunsBody(gs[i])}
<1>1. n \in Nat /\ DOMAIN gs = 1 .. n
  BY LenProperties
<1>2. PICK i \in 1 .. n : RunsBody(gs[i]) /\ \A j \in i + 1 .. n : gs[j].at \notin CallPcs
  BY <1>1 DEF CycleOpen
<1>3. PICK m \in T : \A j \in T : j <= m
  BY <1>1, <1>2, Highest
<1>4. m \in 1 .. n /\ RunsBody(gs[m]) /\ i <= m
  BY <1>2, <1>3
<1>5. Context(m, "cycle") \in ContextsOf(gs)
  BY <1>1, <1>4 DEF ContextsOf
<1>6. ASSUME NEW d \in ContextsOf(gs) PROVE d.level <= m
  <2>1. d.level \in 1 .. n /\ d.kind \in {"cycle", "call"}
    BY ContextLevels
  <2>2. CASE d.kind = "cycle"
    BY <1>3, <2>1, <2>2, ContextLevels
  <2>3. CASE d.kind = "call"
    <3>1. gs[d.level].at \in CallPcs
      BY <2>3, ContextLevels DEF IsCall
    <3>2. d.level \notin i + 1 .. n
      BY <1>2, <3>1
    <3>3. QED
      BY <1>1, <1>4, <2>1, <3>2
  <2>4. QED
    BY <2>1, <2>2, <2>3
<1>7. Context(m, "cycle").kind = "cycle" /\ Context(m, "cycle").level = m
  BY DEF Context
<1>8. QED
  BY <1>5, <1>6, <1>7

\* As many calls are open as the call stack has entries, or fewer.
LEMMA OpenCallsBound ==
  ASSUME IInv
  PROVE  LET open == {c \in OpenContexts : c.kind = "call"}
         IN  Cardinality(open) \in Nat /\ Cardinality(open) <= Len(calls)
<1> DEFINE S == {i \in DOMAIN frames : frames[i].at \in CallPcs}
           T == {c \in OpenContexts : c.kind = "call"}
           f == [i \in S |-> Context(i, "call")]
<1>1. frames \in Seq(Frame)
  BY DEF IInv, TypeOK
<1>2. IsFiniteSet(S)
  <2>1. Len(frames) \in Nat /\ DOMAIN frames = 1 .. Len(frames)
    BY <1>1, LenProperties
  <2>2. IsFiniteSet(1 .. Len(frames)) /\ S \subseteq 1 .. Len(frames)
    BY <2>1, FS_Interval
  <2>3. QED
    BY <2>2, FS_Subset
<1>3. T = {Context(i, "call") : i \in S}
  BY DEF OpenContexts, IsCall, Context
<1>4. f \in Surjection(S, T)
  BY <1>3 DEF Surjection
<1>5. Cardinality(T) \in Nat /\ Cardinality(T) <= Cardinality(S)
  BY <1>2, <1>4, FS_Surjection, FS_CardinalityType
<1>6. Cardinality(S) = Len(calls)
  BY DEF IInv, CallsMatch, Count
<1>7. QED
  BY <1>5, <1>6

\* The contexts before and after a step, with those of the activations below.
LEMMA OpenNow ==
  ASSUME IInv, frames # <<>>
  PROVE  /\ OpenContexts = ContextsOf(Leave) \cup OwnContext(Len(frames), Top)
         /\ \A c \in ContextsOf(Leave) : c.level \in 1 .. Len(frames) - 1
<1>1. ContextsOf(Append(Leave, Top)) = ContextsOf(Leave) \cup OwnContext(Len(Leave) + 1, Top)
  BY TopAndBelow, ContextsAppended
<1>2. frames = Append(Leave, Top) /\ Len(Leave) + 1 = Len(frames)
  BY TopAndBelow
<1>3. ContextsOf(frames) = ContextsOf(Leave) \cup OwnContext(Len(frames), Top)
  BY <1>1, <1>2
<1>4. OpenContexts = ContextsOf(frames)
  BY DEF OpenContexts, ContextsOf
<1>5. \A c \in ContextsOf(Leave) : c.level \in 1 .. Len(frames) - 1
  BY TopAndBelow, ContextLevels
<1>6. QED
  BY <1>3, <1>4, <1>5

LEMMA OpenThen ==
  ASSUME IInv, frames # <<>>, NEW g \in Frame, GoesOn(g) \/ \E f \in Frame : Visits(g, f)
  PROVE  /\ OpenContexts' = ContextsOf(Leave) \cup OwnContext(Len(frames), g)
         /\ frames' # <<>>
<1> DEFINE gs == Append(Leave, g)
<1>1. /\ gs \in Seq(Frame) /\ gs # <<>>
      /\ ContextsOf(gs) = ContextsOf(Leave) \cup OwnContext(Len(frames), g)
  <2>1. Len(Leave) + 1 = Len(frames)
    BY TopAndBelow
  <2>2. QED
    BY <2>1, TopAndBelow, Appended, ContextsAppended
<1>2. OpenContexts' = ContextsOf(frames')
  BY DEF OpenContexts, ContextsOf
<1>3. CASE GoesOn(g)
  BY <1>1, <1>2, <1>3 DEF GoesOn
<1>4. ASSUME NEW f \in Frame, Visits(g, f)
      PROVE  ContextsOf(frames') = ContextsOf(gs) /\ frames' # <<>>
  <2>1. frames' = Append(gs, f) /\ OwnContext(Len(gs) + 1, f) = {}
    BY <1>4 DEF Visits, OwnContext
  <2>2. ContextsOf(Append(gs, f)) = ContextsOf(gs) \cup OwnContext(Len(gs) + 1, f)
    BY <1>1, ContextsAppended
  <2>3. Append(gs, f) # <<>>
    BY <1>1, Appended
  <2>4. QED
    BY <2>1, <2>2, <2>3
<1>5. QED
  BY <1>1, <1>2, <1>3, <1>4

\* Cardinality is the same operator in ControlFlow as here.
LEMMA SameCardinality ==
  ASSUME NEW S
  PROVE  Promise!Cardinality(S) = Cardinality(S)
BY DEF Promise!Cardinality, Cardinality

\* The highest of the contexts, and nothing below it, ends.
LEMMA InnermostEnds ==
  ASSUME NEW n \in Nat, NEW below, \A c \in below : c.level \in 1 .. n - 1, NEW k,
         OpenContexts = below \cup {Context(n, k)}
  PROVE  \E c \in Promise!Innermost(k) : below = OpenContexts \ {c}
<1>1. Context(n, k).kind = k /\ Context(n, k).level = n
  BY DEF Context
<1>2. \A d \in OpenContexts : d.level <= n
  BY <1>1
<1>3. Context(n, k) \in Promise!Innermost(k)
  BY <1>1, <1>2 DEF Promise!Innermost
<1>4. Context(n, k) \notin below
  BY <1>1
<1>5. QED
  BY <1>3, <1>4

\* A jump may begin where the analyzer lets `exit` and `return` be.
LEMMA JumpBegins ==
  ASSUME IInv, frames # <<>>, state = "Running", UNCHANGED OpenContexts,
         \/ state' = "Throwing"
         \/ state' = "Exiting" /\ CycleOpen(frames)
         \/ state' = "Returning" /\ CallOpen(frames)
  PROVE  Promise!Jump
<1>1. frames \in Seq(Frame) /\ OpenContexts = ContextsOf(frames)
  BY DEF IInv, TypeOK, OpenContexts, ContextsOf
<1>2. Status = "running"
  BY DEF Status
<1>3. CASE state' = "Throwing"
  BY <1>2, <1>3 DEF Promise!Jump, Status
<1>4. CASE state' = "Exiting" /\ CycleOpen(frames)
  <2>1. Promise!Innermost("cycle") # {}
    BY <1>1, <1>4, InnermostCycle DEF Promise!Innermost
  <2>2. QED
    BY <1>2, <1>4, <2>1 DEF Promise!Jump, Status
<1>5. CASE state' = "Returning" /\ CallOpen(frames)
  <2>1. PICK i \in DOMAIN frames : IsCall(frames[i])
    BY <1>5 DEF CallOpen, IsCall
  <2>2. Context(i, "call") \in OpenContexts /\ Context(i, "call").kind = "call"
    BY <2>1 DEF OpenContexts, Context
  <2>3. Promise!OpenCalls # {}
    BY <2>2 DEF Promise!OpenCalls
  <2>4. QED
    BY <1>2, <1>5, <2>3 DEF Promise!Jump, Status
<1>6. QED
  BY <1>3, <1>4, <1>5

PromiseKept == [Promise!Next]_<<OpenContexts, Status>>

\* What is open when frames' = Leave.
LEMMA OpenLeft ==
  ASSUME frames' = Leave
  PROVE  OpenContexts' = ContextsOf(Leave)
BY DEF OpenContexts, ContextsOf

LEMMA StaysAllowed ==
  ASSUME IInv, JInv, Stays
  PROVE  PromiseKept
<1>1. PICK g \in Frame :
        /\ Opens(g) = Opens(Top)
        /\ \/ state' = "Running" /\ (GoesOn(g) \/ \E f \in Frame : Visits(g, f))
           \/ state' = "Throwing" /\ GoesOn(g) /\ Pos(g) \in Waiting
           \/ /\ state' = "Exiting" /\ GoesOn(g)
              /\ Pos(g) \in Jumping /\ CycleOpen(frames')
           \/ /\ state' = "Returning" /\ GoesOn(g)
              /\ Pos(g) \in Jumping /\ CallOpen(frames')
  BY DEF Stays
<1>2. frames # <<>> /\ frames' # <<>> /\ state = "Running"
  BY <1>1, OpenThen DEF Stays
<1>3. UNCHANGED OpenContexts
  <2>1. OwnContext(Len(frames), g) = OwnContext(Len(frames), Top)
    BY <1>1 DEF OwnContext
  <2>2. QED
    BY <1>1, <1>2, <2>1, OpenNow, OpenThen
<1>4. CASE state' = "Running"
  BY <1>2, <1>3, <1>4 DEF Status, PromiseKept
<1>5. CASE state' # "Running"
  <2>1. GoesOn(g)
    BY <1>1, <1>5
  <2>2. /\ CycleOpen(frames') => CycleOpen(frames)
        /\ CallOpen(frames') => CallOpen(frames)
    <3>1. /\ CycleOpen(Append(Leave, g)) <=> CycleOpen(Append(Leave, Top))
          /\ CallOpen(Append(Leave, g)) <=> CallOpen(Append(Leave, Top))
      BY <1>1, <1>2, TopAndBelow, OpensFacts, CycleOpenAppended, CallOpenAppended
    <3>2. frames = Append(Leave, Top) /\ frames' = Append(Leave, g)
      BY <1>2, <2>1, TopAndBelow DEF GoesOn
    <3>3. QED
      BY <3>1, <3>2
  <2>3. Promise!Jump
    BY <1>1, <1>2, <1>3, <1>5, <2>2, JumpBegins
  <2>4. QED
    BY <2>3 DEF Promise!Next, PromiseKept
<1>6. QED
  BY <1>4, <1>5

LEMMA EntersAllowed ==
  ASSUME IInv, JInv, Enters
  PROVE  PromiseKept
<1> DEFINE n == Len(frames)
<1>1. PICK g \in Frame :
        /\ Opens(g) \in {"cycle", "call"}
        /\ Opens(g) = "call" => Len(calls) < Capacity
        /\ GoesOn(g) \/ \E f \in Frame : Visits(g, f)
  BY DEF Enters
<1>2. frames # <<>> /\ frames' # <<>>
  BY <1>1, OpenThen DEF Enters
<1>3. Status = "running" /\ Status' = "running"
  BY <1>2 DEF Status, Enters
<1>4. /\ OpenContexts = ContextsOf(Leave)
      /\ \A c \in OpenContexts : c.level \in 1 .. n - 1
  BY <1>2, OpenNow DEF OwnContext, Enters
<1>5. OpenContexts' = OpenContexts \cup {[level |-> n, kind |-> Opens(g)]}
  BY <1>1, <1>2, <1>4, OpenThen DEF OwnContext, Context
<1>6. n \in 1 .. MaxDepth
  BY <1>2, TopAndBelow, ConstantsAssumption DEF JInv, Grammar, Bounded
<1>7. Promise!Enter(Opens(g))
  <2>1. \A c \in OpenContexts : c.level < n
    BY <1>4, <1>6
  <2>2. QED
    BY <1>3, <1>5, <1>6, <2>1 DEF Promise!Enter
<1>8. Opens(g) = "call" => Promise!EnterCall
  <2> SUFFICES ASSUME Opens(g) = "call" PROVE Promise!EnterCall
    OBVIOUS
  <2>1. Cardinality(Promise!OpenCalls) \in Nat /\ Cardinality(Promise!OpenCalls) <= Len(calls)
    BY OpenCallsBound DEF Promise!OpenCalls
  <2>2. Len(calls) < Capacity /\ Len(calls) \in Nat
    BY <1>1, LenProperties DEF IInv, TypeOK
  <2>3. Cardinality(Promise!OpenCalls) < Capacity
    BY <2>1, <2>2, ConstantsAssumption
  <2>4. Promise!Enter("call")
    BY <1>7
  <2>5. QED
    BY <2>3, <2>4, SameCardinality DEF Promise!EnterCall
<1>9. Opens(g) = "cycle" => Promise!EnterCycle
  BY <1>7 DEF Promise!EnterCycle
<1>10. QED
  BY <1>1, <1>8, <1>9 DEF Promise!Next, PromiseKept

LEMMA FinishesAllowed ==
  ASSUME IInv, JInv, Finishes
  PROVE  PromiseKept
<1> DEFINE n == Len(frames)
           k == Opens(Top)
<1>1. PICK g \in Frame : Opens(g) = "none" /\ GoesOn(g)
  BY DEF Finishes
<1>2. frames # <<>> /\ frames' # <<>> /\ n \in Nat
  BY <1>1, OpenThen, TopAndBelow DEF Finishes
<1>3. OpenContexts' = ContextsOf(Leave)
  BY <1>1, <1>2, OpenThen DEF OwnContext
<1>4. \E c \in Promise!Innermost(k) : OpenContexts' = OpenContexts \ {c}
  <2>1. /\ OpenContexts = ContextsOf(Leave) \cup {Context(n, k)}
        /\ \A c \in ContextsOf(Leave) : c.level \in 1 .. n - 1
    BY <1>2, OpenNow DEF OwnContext, Finishes
  <2>2. \E c \in Promise!Innermost(k) : ContextsOf(Leave) = OpenContexts \ {c}
    BY <1>2, <2>1, InnermostEnds
  <2>3. QED
    BY <1>3, <2>2
<1>5. Status' = "running"
  BY <1>2 DEF Status, Finishes
<1>6. CASE state = "Running"
  <2>1. Status = "running"
    BY <1>2, <1>6 DEF Status
  <2>2. Promise!Leave
    BY <1>4, <1>5, <2>1 DEF Promise!Leave, Finishes
  <2>3. QED
    BY <2>2 DEF Promise!Next, PromiseKept
<1>7. CASE state = "Returning" /\ k = "call"
  <2>1. Status = "returning"
    BY <1>7 DEF Status
  <2>2. Promise!ReturnFromCall
    BY <1>4, <1>5, <1>7, <2>1 DEF Promise!ReturnFromCall, Promise!Unwind
  <2>3. QED
    BY <2>2 DEF Promise!Next, PromiseKept
<1>8. QED
  BY <1>6, <1>7 DEF Finishes

LEMMA LeavesAllowed ==
  ASSUME IInv, JInv, Leaves
  PROVE  PromiseKept
<1> DEFINE n == Len(frames)
           k == Opens(Top)
<1>1. frames # <<>> /\ frames' = Leave /\ n \in Nat /\ Top \in Frame
  BY TopAndBelow DEF Leaves
<1>2. OpenContexts' = ContextsOf(Leave)
  BY <1>1, OpenLeft
<1>3. /\ OpenContexts = ContextsOf(Leave) \cup OwnContext(n, Top)
      /\ \A c \in ContextsOf(Leave) : c.level \in 1 .. n - 1
  BY <1>1, OpenNow
<1>4. k = "none" => OpenContexts' = OpenContexts
  BY <1>2, <1>3 DEF OwnContext
<1>5. k # "none" => \E c \in Promise!Innermost(k) : OpenContexts' = OpenContexts \ {c}
  <2> SUFFICES ASSUME k # "none"
               PROVE  \E c \in Promise!Innermost(k) : OpenContexts' = OpenContexts \ {c}
    OBVIOUS
  <2>1. OpenContexts = ContextsOf(Leave) \cup {Context(n, k)}
    BY <1>3 DEF OwnContext
  <2>2. \E c \in Promise!Innermost(k) : ContextsOf(Leave) = OpenContexts \ {c}
    BY SMTT(30), <1>1, <1>3, <2>1, InnermostEnds
  <2>3. QED
    BY <1>2, <2>2
<1>6. CASE state = "Running" /\ state' = "Running"
  <2>1. k = "none"
    BY <1>6 DEF Leaves
  <2>2. CASE Leave = <<>>
    <3>1. ContextsOf(Leave) = {}
      BY <2>2 DEF ContextsOf
    <3>2. OpenContexts = {} /\ UNCHANGED OpenContexts
      BY <1>2, <1>4, <2>1, <3>1
    <3>3. Promise!Finish
      BY <1>1, <1>6, <2>2, <3>2 DEF Promise!Finish, Status
    <3>4. QED
      BY <3>3 DEF Promise!Next, PromiseKept
  <2>3. CASE Leave # <<>>
    BY <1>1, <1>4, <1>6, <2>1, <2>3 DEF Status, PromiseKept
  <2>4. QED
    BY <2>2, <2>3
<1>7. CASE state = "Running" /\ state' # "Running"
  <2>1. k = "none" /\ (state' = "Throwing" \/ (state' = "Returning" /\ Top.kind = "Return"))
    BY <1>7 DEF Leaves
  <2>2. Top.kind = "Return" => CallOpen(frames)
    <3>1. (Top.kind = "Return" => CallOpen(Leave)) /\ frames = Append(Leave, Top)
      BY <1>1, GrammarBelow, TopAndBelow DEF JInv
    <3>2. CallOpen(Leave) => CallOpen(Append(Leave, Top))
      BY <1>1, TopAndBelow, CallOpenAppended
    <3>3. QED
      BY <3>1, <3>2
  <2>3. Promise!Jump
    BY <1>1, <1>4, <1>7, <2>1, <2>2, JumpBegins
  <2>4. QED
    BY <2>3 DEF Promise!Next, PromiseKept
<1>8. CASE state # "Running" /\ k = "none"
  <2>1. state' = state /\ state \in States
    BY <1>8 DEF Leaves, IInv, TypeOK
  <2>2. UNCHANGED Status
    BY <1>8, <2>1 DEF Status, States
  <2>3. QED
    BY <1>4, <1>8, <2>2 DEF PromiseKept
<1>9. CASE state # "Running" /\ k = "cycle"
  <2>1. state' = AfterCycle /\ state \in States
    BY <1>9 DEF Leaves, IInv, TypeOK
  <2>2. CASE state = "Exiting"
    <3>1. Leave # <<>>
      <4>1. Top.kind # "Body"
        BY <1>1, <1>9, OpensFacts DEF RunsBody, LoopKinds
      <4>2. Stands(Leave, Top.kind)
        BY <1>1, GrammarBelow DEF JInv
      <4>3. QED
        BY <4>1, <4>2 DEF Stands
    <3>2. Status = "exiting" /\ Status' = "running"
      BY <1>1, <2>1, <2>2, <3>1 DEF Status, AfterCycle
    <3>3. Promise!ExitCycle
      BY <1>5, <1>9, <3>2 DEF Promise!ExitCycle, Promise!Unwind
    <3>4. QED
      BY <3>3 DEF Promise!Next, PromiseKept
  <2>3. CASE state = "Returning"
    <3>1. Status = "returning" /\ Status' = "returning"
      BY <2>1, <2>3 DEF Status, AfterCycle
    <3>2. Promise!ReturnPassesCycle
      BY <1>5, <1>9, <3>1 DEF Promise!ReturnPassesCycle, Promise!Unwind
    <3>3. QED
      BY <3>2 DEF Promise!Next, PromiseKept
  <2>4. CASE state = "Throwing"
    <3>1. Status = "failed" /\ Status' = "failed"
      BY <2>1, <2>4 DEF Status, AfterCycle
    <3>2. Promise!ErrorPasses
      BY <1>5, <1>9, <3>1 DEF Promise!ErrorPasses, Promise!Unwind
    <3>3. QED
      BY <3>2 DEF Promise!Next, PromiseKept
  <2>5. QED
    BY <1>9, <2>1, <2>2, <2>3, <2>4 DEF States
<1>10. CASE state # "Running" /\ k = "call"
  <2>1. state = "Throwing" /\ state' = "Throwing"
    BY <1>10 DEF Leaves
  <2>2. Status = "failed" /\ Status' = "failed"
    BY <2>1 DEF Status
  <2>3. Promise!ErrorPasses
    BY <1>5, <1>10, <2>2 DEF Promise!ErrorPasses, Promise!Unwind
  <2>4. QED
    BY <2>3 DEF Promise!Next, PromiseKept
<1>11. QED
  BY <1>1, <1>6, <1>7, <1>8, <1>9, <1>10, OpensFacts

LEMMA ClassifiedAllowed ==
  ASSUME IInv, JInv, Classified
  PROVE  PromiseKept
BY StaysAllowed, EntersAllowed, FinishesAllowed, LeavesAllowed DEF Classified

-----------------------------------------------------------------------------
(* Every step is of one of the kinds.                                      *)

\* Where an activation does not wait, nothing is under way.
LEMMA Quiet ==
  ASSUME JInv, frames # <<>>, Pos(Top) \notin Waiting
  PROVE  state = "Running"
BY DEF JInv, StateFits, Top

\* Where no jump can be, nothing is, or an error.
LEMMA NoJump ==
  ASSUME IInv, JInv, frames # <<>>, Pos(Top) \notin Jumping
  PROVE  state \in {"Running", "Throwing"}
BY DEF JInv, StateFits, Top, IInv, TypeOK, States

LEMMA GotoShape ==
  ASSUME IInv, frames # <<>>, NEW pc, <<Top.kind, pc>> \in Positions, pc # "init"
  PROVE  \E g \in Frame : g.kind = Top.kind /\ g.at = pc /\ Goto(pc) = Append(Leave, g)
<1>1. PICK g \in Frame : g = [Top EXCEPT !.at = pc]
  BY TopFrame, FrameAt DEF NoName
<1>2. g.kind = Top.kind /\ g.at = pc
  BY <1>1, TopFrame DEF Frame
<1>3. Goto(pc) = [frames EXCEPT ![Len(frames)] = g]
  BY <1>1, TopFrame DEF Goto
<1>4. Goto(pc) = Append(Leave, g)
  BY <1>3, TopFrame, SetLast DEF Leave
<1>5. QED
  BY <1>2, <1>4

\* The ways in which a visitor returns.
LEMMA ReturnLeaves ==
  ASSUME JInv, frames # <<>>, Opens(Top) = "none", frames' = Leave, state' = state
  PROVE  Leaves
BY DEF Leaves

LEMMA ThrowLeaves ==
  ASSUME JInv, frames # <<>>, Opens(Top) = "none", state = "Running", ThrowAndLeave
  PROVE  Leaves
BY DEF Leaves, ThrowAndLeave, SetThrowingState

\* The ways in which it goes on.
LEMMA ContinueStays ==
  ASSUME IInv, JInv, frames # <<>>, Opens(Top) = "none", state = "Running",
         NEW pc, <<Top.kind, pc>> \in Positions, pc \notin CallPcs \cup {"init", "body"},
         frames' = Goto(pc), state' = state
  PROVE  Stays
<1>1. PICK g \in Frame : g.kind = Top.kind /\ g.at = pc /\ Goto(pc) = Append(Leave, g)
  BY GotoShape
<1>2. Opens(g) = "none"
  BY <1>1 DEF Opens, RunsBody, IsCall
<1>3. GoesOn(g)
  BY <1>1 DEF GoesOn
<1>4. QED
  BY <1>2, <1>3 DEF Stays

\* The ways in which it visits an expression, a statement or a body.
LEMMA NewFrameOpens ==
  ASSUME NEW k \in Kinds, NEW prev \in Chains
  PROVE  /\ NewFrame(k, prev) \in Frame /\ NewFrame(k, prev).kind = k
         /\ Opens(NewFrame(k, prev)) = "none"
<1>1. FirstPc(k) \notin CallPcs \cup {"body"}
  BY DEF FirstPc, CallPcs, Kinds, StatementKinds, ExpressionKinds, LoopKinds
<1>2. QED
  BY <1>1, NewFrameType DEF NewFrame, Opens, RunsBody, IsCall

LEMMA ExpressionStays ==
  ASSUME IInv, JInv, frames # <<>>, state = "Running",
         NEW g \in Frame, g.kind = Top.kind, Opens(g) = Opens(Top),
         \A k \in ExpressionKinds : Pos(g) \in Below(k),
         NEW es, VisitExpression(Append(Leave, g), es)
  PROVE  Stays
<1> DEFINE fs == Append(Leave, g)
<1>1. Len(fs) = Len(frames)
  BY TopAndBelow, Appended
<1>2. CASE frames' = fs /\ UNCHANGED <<state, trace>>
  BY <1>2 DEF Stays, GoesOn
<1>3. CASE frames' = fs /\ SetThrowingState
  <2>1. Pos(g) \in Waiting
    BY WaitingFacts DEF ExpressionKinds
  <2>2. QED
    BY <1>3, <2>1 DEF Stays, GoesOn, SetThrowingState
<1>4. ASSUME Len(fs) < MaxDepth, NEW k \in ExpressionKinds,
             frames' = Append(fs, NewFrame(k, <<>>)), UNCHANGED <<state, trace>>
      PROVE  Stays
  <2> DEFINE f == NewFrame(k, <<>>)
  <2>1. f \in Frame /\ f.kind = k /\ Opens(f) = "none" /\ k # "Return"
    BY NoChain, NewFrameOpens DEF Kinds, ExpressionKinds
  <2>2. Visits(g, f)
    BY <1>1, <1>4, <2>1 DEF Visits
  <2>3. QED
    BY <1>4, <2>1, <2>2 DEF Stays
<1>5. QED
  BY <1>2, <1>3, <1>4 DEF VisitExpression

LEMMA EvaluateStays ==
  ASSUME IInv, JInv, frames # <<>>, Opens(Top) = "none", state = "Running",
         NEW pc, <<Top.kind, pc>> \in TakesValue \cup {<<"ExprStmt", "expr">>}, pc # "init",
         Evaluate(pc)
  PROVE  Stays
<1>1. <<Top.kind, pc>> \in Positions /\ pc \notin CallPcs \cup {"body"}
  BY DEF Positions, TakesValue, CallPcs
<1>2. PICK g \in Frame : g.kind = Top.kind /\ g.at = pc /\ Goto(pc) = Append(Leave, g)
  BY <1>1, GotoShape
<1>3. Opens(g) = Opens(Top)
  BY <1>1, <1>2 DEF Opens, RunsBody, IsCall
<1>4. \A k \in ExpressionKinds : Pos(g) \in Below(k)
  BY <1>2 DEF Pos, Below, ExpressionKinds, StatementKinds, LoopKinds
<1>5. QED
  BY <1>2, <1>3, <1>4, ExpressionStays DEF Evaluate

LEMMA EnterBodyClassified ==
  ASSUME IInv, JInv, frames # <<>>, Opens(Top) = "none", state = "Running",
         NEW pc, <<Top.kind, pc>> \in LoopKinds \X {"body"} \cup {<<"If", "branch">>},
         EnterBody(pc)
  PROVE  Stays \/ Enters
<1>1. <<Top.kind, pc>> \in Positions /\ pc # "init" /\ pc \notin CallPcs
  BY DEF Positions, Controls, LoopKinds, CallPcs
<1>2. PICK g \in Frame : g.kind = Top.kind /\ g.at = pc /\ Goto(pc) = Append(Leave, g)
  BY <1>1, GotoShape
<1>3. Opens(g) \in {"none", "cycle"}
  BY <1>1, <1>2 DEF Opens, IsCall
<1>4. Exec.scopes \in Chains
  BY ExecsNonEmpty DEF Executors
<1>5. PICK f \in Frame : f.kind = "Body" /\ Opens(f) = "none" /\ frames' = Append(Append(Leave, g), f)
  BY <1>2, <1>4, NewFrameOpens DEF EnterBody, Kinds
<1>6. Pos(g) \in Below("Body")
  <2>1. Pos(g) = <<Top.kind, pc>>
    BY <1>2 DEF Pos
  <2>2. LoopKinds \X {"body"} \cup {<<"If", "branch">>} \subseteq Below("Body")
    BY DEF Below, StatementKinds, LoopKinds
  <2>3. QED
    BY <2>1, <2>2
<1>7. Visits(g, f)
  BY <1>2, <1>5, <1>6 DEF Visits, EnterBody
<1>8. QED
  BY <1>3, <1>7 DEF Stays, Enters, EnterBody

LEMMA StatementStays ==
  ASSUME IInv, JInv, frames # <<>>, Opens(Top) = "none", state = "Running",
         NEW g \in Frame, g.kind = Top.kind,
         Pos(g) \in {<<"Body", "run">>, <<"ShortIf", "then">>},
         NEW es, VisitStatement(Append(Leave, g), es)
  PROVE  Stays
<1> DEFINE fs == Append(Leave, g)
<1>1. Len(fs) = Len(frames)
  BY TopAndBelow, Appended
<1>2. Opens(g) = "none" /\ Pos(g) \in Jumping
  BY DEF Pos, Opens, RunsBody, IsCall, CallPcs, LoopKinds, Jumping, Controls
<1>3. /\ InCycle => CycleOpen(fs)
      /\ InFunction => CallOpen(fs) /\ CallOpen(frames)
  <2>1. /\ CycleOpen(fs) <=> CycleOpen(Append(Leave, Top))
        /\ CallOpen(fs) <=> CallOpen(Append(Leave, Top))
    BY <1>2, TopAndBelow, OpensFacts, CycleOpenAppended, CallOpenAppended
  <2>2. frames = Append(Leave, Top)
    BY TopAndBelow
  <2>3. (InCycle <=> CycleOpen(frames)) /\ (InFunction <=> CallOpen(frames))
    BY DEF InCycle, CycleOpen, InFunction, CallOpen
  <2>4. QED
    BY <2>1, <2>2, <2>3
<1>4. CASE InCycle /\ frames' = fs /\ state' = "Exiting"
  BY <1>2, <1>3, <1>4 DEF Stays, GoesOn
<1>5. CASE InFunction /\ frames' = fs /\ state' = "Returning"
  BY <1>2, <1>3, <1>5 DEF Stays, GoesOn
<1>6. ASSUME Len(fs) < MaxDepth, NEW k \in StatementKinds, k = "Return" => InFunction,
             frames' = Append(fs, NewFrame(k, <<>>)), UNCHANGED state
      PROVE  Stays
  <2> DEFINE f == NewFrame(k, <<>>)
  <2>1. f \in Frame /\ f.kind = k /\ Opens(f) = "none"
    BY NoChain, NewFrameOpens DEF Kinds
  <2>2. Pos(g) \in Below(k)
    BY DEF Below, StatementKinds, LoopKinds
  <2>3. Visits(g, f)
    BY <1>1, <1>3, <1>6, <2>1, <2>2 DEF Visits
  <2>4. QED
    BY <1>2, <1>6, <2>1, <2>3 DEF Stays
<1>7. QED
  BY <1>4, <1>5, <1>6 DEF VisitStatement

LEMMA AtWaiting ==
  ASSUME NEW f
  PROVE  /\ f.at \in {"start", "next", "iter", "ops", "begin"} => Pos(f) \notin Waiting
         /\ Pos(f) \in TakesValue => Opens(f) = "none" /\ Pos(f) \notin Jumping
BY DEF Pos, Waiting, Jumping, TakesValue, Controls, LoopKinds, Opens, RunsBody, IsCall, CallPcs

\* Before an activation's first visit, and between its visits.
LEMMA AtQuiet ==
  ASSUME JInv, frames # <<>>, Top.at \in {"start", "next", "iter", "ops", "begin"}
  PROVE  state = "Running" /\ (Top.at # "begin" => Opens(Top) = "none")
<1>1. state = "Running"
  BY AtWaiting, Quiet
<1>2. QED
  BY <1>1 DEF Opens, RunsBody, IsCall, CallPcs

LEMMA TookQuiet ==
  ASSUME NEW k, NEW pc, <<k, pc>> \in TakesValue, Took(k, pc)
  PROVE  /\ frames # <<>> /\ Top.kind = k /\ Top.at = pc
         /\ state = "Running" /\ Opens(Top) = "none"
<1>1. frames # <<>> /\ Top.kind = k /\ Top.at = pc /\ state = "Running"
  BY DEF Took, At
<1>2. Pos(Top) = <<k, pc>>
  BY <1>1 DEF Pos
<1>3. QED
  BY <1>1, <1>2, AtWaiting

LEMMA PropagateKind == IInv /\ JInv /\ Propagate => Classified
BY AtWaiting, ReturnLeaves DEF Propagate, Return, Classified

LEMMA FirstExpressionKind ==
  ASSUME IInv, JInv, FirstExpression
  PROVE  Classified
<1> USE DEF At, TakesValue
<1>1. PICK k, pc :
        /\ <<k, pc>> \in TakesValue \cup {<<"ExprStmt", "expr">>} /\ pc # "init"
        /\ At(k, "start") /\ Evaluate(pc)
  BY DEF FirstExpression
<1>2. frames # <<>> /\ Top.kind = k /\ state = "Running" /\ Opens(Top) = "none"
  BY <1>1, AtQuiet
<1>3. QED
  BY <1>1, <1>2, EvaluateStays DEF Classified

LEMMA BodyAndVarKinds ==
  ASSUME IInv, JInv, BodyNext \/ BodyEnd \/ VarNext \/ VarInit \/ VarEnd
  PROVE  Classified
<1>1. CASE BodyNext
  <2>1. frames # <<>> /\ Top.kind = "Body" /\ Top.at = "run" /\ state = "Running"
    BY <1>1 DEF BodyNext, At, BodyGoesOn
  <2>2. Opens(Top) = "none" /\ Pos(Top) = <<"Body", "run">>
    BY <2>1 DEF Opens, RunsBody, IsCall, CallPcs, Pos
  <2>3. VisitStatement(Append(Leave, Top), execs)
    BY <1>1, <2>1, TopAndBelow DEF BodyNext
  <2>4. QED
    BY <2>1, <2>2, <2>3, TopAndBelow, StatementStays DEF Classified
<1>2. CASE BodyEnd
  <2>1. frames # <<>> /\ Opens(Top) = "none" /\ frames' = Leave /\ state' = state
    BY <1>2 DEF BodyEnd, At, RestoreAndReturn, Opens, RunsBody, IsCall, CallPcs
  <2>2. QED
    BY <2>1, ReturnLeaves DEF Classified
<1>3. CASE VarNext
  <2>1. /\ frames # <<>> /\ Top.kind = "Var" /\ Top.at = "next"
        /\ state = "Running" /\ Opens(Top) = "none"
    BY <1>3, AtQuiet DEF VarNext, At
  <2>2. PICK x \in Names :
          \/ ThrowAndLeave
          \/ UNCHANGED <<frames, state, calls, trace>>
          \/ VisitExpression([frames EXCEPT ![Len(frames)].at = "init",
                                            ![Len(frames)].name = x], execs)
    BY <1>3 DEF VarNext
  <2>3. CASE ThrowAndLeave
    BY <2>1, <2>3, ThrowLeaves DEF Classified
  <2>4. CASE UNCHANGED <<frames, state, calls, trace>>
    BY <2>1, <2>4, TopAndBelow DEF Stays, GoesOn, Classified
  <2>5. CASE VisitExpression([frames EXCEPT ![Len(frames)].at = "init",
                                            ![Len(frames)].name = x], execs)
    <3>1. PICK g \in Frame : g = [Top EXCEPT !.at = "init", !.name = x]
      BY <2>1, TopFrame, FrameAt DEF Positions, TakesValue
    <3>2. g.kind = Top.kind /\ g.at = "init"
      BY <2>1, <3>1, TopFrame DEF Frame
    <3>3. [frames EXCEPT ![Len(frames)].at = "init", ![Len(frames)].name = x] = Append(Leave, g)
      <4>1. [frames EXCEPT ![Len(frames)].at = "init", ![Len(frames)].name = x]
              = [frames EXCEPT ![Len(frames)] = g]
        BY <2>1, <3>1, TopFrame
      <4>2. QED
        BY <2>1, <4>1, TopFrame, SetLast DEF Leave
    <3>4. /\ Opens(g) = Opens(Top)
          /\ \A k \in ExpressionKinds : Pos(g) \in Below(k)
      BY <2>1, <3>2 DEF Opens, RunsBody, IsCall, CallPcs, Pos, Below, TakesValue,
                        ExpressionKinds, StatementKinds, LoopKinds
    <3>5. QED
      BY <2>1, <2>5, <3>2, <3>3, <3>4, ExpressionStays DEF Classified
  <2>6. QED
    BY <2>2, <2>3, <2>4, <2>5
<1>4. CASE VarInit
  <2>1. frames # <<>> /\ Top.kind = "Var" /\ state = "Running" /\ Opens(Top) = "none"
    BY <1>4, TookQuiet DEF VarInit, TakesValue
  <2>2. PICK g \in Frame : g = [Top EXCEPT !.at = "next", !.name = NoName]
    BY <2>1, TopFrame, FrameAt DEF Positions
  <2>3. g.kind = Top.kind /\ g.at = "next"
    BY <2>1, <2>2, TopFrame DEF Frame
  <2>4. frames' = Append(Leave, g)
    <3>1. frames' = [frames EXCEPT ![Len(frames)] = g]
      BY <1>4, <2>1, <2>2, TopFrame DEF VarInit
    <3>2. QED
      BY <2>1, <3>1, TopFrame, SetLast DEF Leave
  <2>5. Opens(g) = "none"
    BY <2>3 DEF Opens, RunsBody, IsCall, CallPcs
  <2>6. QED
    BY <1>4, <2>1, <2>3, <2>4, <2>5 DEF VarInit, Stays, GoesOn, Classified
<1>5. CASE VarEnd
  BY <1>5, AtQuiet, ReturnLeaves DEF VarEnd, At, Return, Classified
<1>6. QED
  BY <1>1, <1>2, <1>3, <1>4, <1>5

\* The activation on top goes on with the scopes it will restore.
ScopedAt(pc, ch) == [frames EXCEPT ![Len(frames)].at = pc, ![Len(frames)].prev = ch]
NamedAt(pc, ch, x) ==
  [frames EXCEPT ![Len(frames)].at = pc, ![Len(frames)].prev = ch, ![Len(frames)].name = x]

LEMMA ScopedShape ==
  ASSUME IInv, frames # <<>>, NEW pc, <<Top.kind, pc>> \in Positions, pc # "init",
         NEW ch \in Chains
  PROVE  \E g \in Frame : /\ g.kind = Top.kind /\ g.at = pc /\ g.prev = ch
                          /\ ScopedAt(pc, ch) = Append(Leave, g)
<1>1. [Top EXCEPT !.at = pc] \in Frame
  BY TopFrame, FrameAt DEF NoName
<1>2. PICK g \in Frame : g = [[Top EXCEPT !.at = pc] EXCEPT !.prev = ch]
  BY <1>1 DEF Frame
<1>3. g.kind = Top.kind /\ g.at = pc /\ g.prev = ch
  BY <1>2, TopFrame DEF Frame
<1>4. ScopedAt(pc, ch) = [frames EXCEPT ![Len(frames)] = g]
  BY <1>2, TopFrame DEF ScopedAt
<1>5. QED
  BY <1>3, <1>4, TopFrame, SetLast DEF Leave

LEMMA NamedShape ==
  ASSUME IInv, frames # <<>>, NEW pc, <<Top.kind, pc>> \in Positions, pc # "init",
         NEW ch \in Chains, NEW x \in Names \cup {NoName}
  PROVE  \E g \in Frame : /\ g.kind = Top.kind /\ g.at = pc /\ g.prev = ch /\ g.name = x
                          /\ NamedAt(pc, ch, x) = Append(Leave, g)
<1>1. PICK f \in Frame : f = [[Top EXCEPT !.at = pc] EXCEPT !.prev = ch]
  <2>1. [Top EXCEPT !.at = pc] \in Frame
    BY TopFrame, FrameAt DEF NoName
  <2>2. QED
    BY <2>1 DEF Frame
<1>2. f.kind = Top.kind /\ f.at = pc /\ f.prev = ch
  BY <1>1, TopFrame DEF Frame
<1>3. PICK g \in Frame : g = [f EXCEPT !.name = x]
  BY <1>2 DEF Frame
<1>4. g.kind = Top.kind /\ g.at = pc /\ g.prev = ch /\ g.name = x
  BY <1>2, <1>3 DEF Frame
<1>5. NamedAt(pc, ch, x) = [frames EXCEPT ![Len(frames)] = g]
  BY <1>1, <1>3, TopFrame DEF NamedAt
<1>6. QED
  BY <1>4, <1>5, TopFrame, SetLast DEF Leave

LEMMA ConditionKinds ==
  ASSUME IInv, JInv, IfCond \/ IfEnd \/ ShortIfCond \/ ShortIfEnd \/ WhileCond
  PROVE  Classified
<1>1. CASE IfCond
  <2>1. frames # <<>> /\ Top.kind = "If" /\ state = "Running" /\ Opens(Top) = "none"
    BY <1>1, TookQuiet DEF IfCond, TakesValue
  <2>2. QED
    BY <1>1, <2>1, ThrowLeaves, ReturnLeaves, EnterBodyClassified DEF IfCond, Return, Classified
<1>2. CASE IfEnd
  <2>1. frames # <<>> /\ Opens(Top) = "none"
    BY <1>2 DEF IfEnd, At, Opens, RunsBody, IsCall, CallPcs
  <2>2. QED
    BY <1>2, <2>1, ReturnLeaves DEF IfEnd, Return, Classified
<1>3. CASE ShortIfCond
  <2>1. frames # <<>> /\ Top.kind = "ShortIf" /\ state = "Running" /\ Opens(Top) = "none"
    BY <1>3, TookQuiet DEF ShortIfCond, TakesValue
  <2>2. CASE ThrowAndLeave \/ Return(HasValue(FALSE))
    BY <2>1, <2>2, ThrowLeaves, ReturnLeaves DEF Return, Classified
  <2>3. CASE VisitStatement([frames EXCEPT ![Len(frames)].at = "then",
                                           ![Len(frames)].prev = Exec.scopes],
                            SetExec(NewExec(Append(Exec.scopes, {}))))
    <3>1. Exec.scopes \in Chains
      BY ExecsNonEmpty DEF Executors
    <3>2. PICK g \in Frame :
            /\ g.kind = Top.kind /\ g.at = "then"
            /\ ScopedAt("then", Exec.scopes) = Append(Leave, g)
      <4>1. <<Top.kind, "then">> \in Positions
        BY <2>1 DEF Positions, Controls
      <4>2. QED
        BY <2>1, <3>1, <4>1, ScopedShape
    <3>3. Pos(g) = <<"ShortIf", "then">>
      BY <2>1, <3>2 DEF Pos
    <3>4. VisitStatement(Append(Leave, g), SetExec(NewExec(Append(Exec.scopes, {}))))
      BY <2>3, <3>2 DEF ScopedAt
    <3>5. QED
      BY <2>1, <3>2, <3>3, <3>4, StatementStays DEF Classified
  <2>4. QED
    BY <1>3, <2>2, <2>3 DEF ShortIfCond
<1>4. CASE ShortIfEnd
  <2>1. frames # <<>> /\ Opens(Top) = "none"
    BY <1>4 DEF ShortIfEnd, At, Opens, RunsBody, IsCall, CallPcs
  <2>2. QED
    BY <1>4, <2>1, ReturnLeaves DEF ShortIfEnd, RestoreAndReturn, Classified
<1>5. CASE WhileCond
  <2>1. frames # <<>> /\ Top.kind = "While" /\ state = "Running" /\ Opens(Top) = "none"
    BY <1>5, TookQuiet DEF WhileCond, TakesValue
  <2>2. <<Top.kind, "body">> \in LoopKinds \X {"body"}
    BY <2>1 DEF LoopKinds
  <2>3. QED
    BY <1>5, <2>1, <2>2, ThrowLeaves, ReturnLeaves, EnterBodyClassified
       DEF WhileCond, Return, Classified
<1>6. QED
  BY <1>1, <1>2, <1>3, <1>4, <1>5

LEMMA ForBeginStays ==
  ASSUME IInv, JInv, frames # <<>>, Top.kind = "For", state = "Running", Opens(Top) = "none",
         ForBegin
  PROVE  Classified
<1>1. PICK x \in Names \cup {NoName} :
        frames' = NamedAt("iter", Exec.scopes, x)
  BY DEF ForBegin, NamedAt
<1>2. Exec.scopes \in Chains
  BY ExecsNonEmpty DEF Executors
<1>3. PICK g \in Frame : g.kind = Top.kind /\ g.at = "iter" /\ frames' = Append(Leave, g)
  <2>1. <<Top.kind, "iter">> \in Positions
    BY DEF Positions
  <2>2. QED
    BY <1>1, <1>2, <2>1, NamedShape
<1>4. Opens(g) = "none"
  BY <1>3 DEF Opens, RunsBody, IsCall, CallPcs
<1>5. QED
  BY <1>3, <1>4 DEF Stays, GoesOn, Classified, ForBegin

LEMMA CycleKinds ==
  ASSUME IInv, JInv, ForFirst \/ ForLast \/ ForIter \/ LoopIter \/ CycleBody
  PROVE  Classified
<1>1. CASE ForFirst
  <2>1. frames # <<>> /\ Top.kind = "For" /\ state = "Running" /\ Opens(Top) = "none"
    BY <1>1, TookQuiet DEF ForFirst, TakesValue
  <2>2. <<Top.kind, "last">> \in TakesValue
    BY <2>1 DEF TakesValue
  <2>3. QED
    BY <1>1, <2>1, <2>2, ThrowLeaves, EvaluateStays, ForBeginStays DEF ForFirst, Classified
<1>2. CASE ForLast
  <2>1. frames # <<>> /\ Top.kind = "For" /\ state = "Running" /\ Opens(Top) = "none"
    BY <1>2, TookQuiet DEF ForLast, TakesValue
  <2>2. QED
    BY <1>2, <2>1, ThrowLeaves, ForBeginStays DEF ForLast, Classified
<1>3. CASE ForIter
  <2>1. frames # <<>> /\ Top.kind = "For" /\ state = "Running" /\ Opens(Top) = "none"
    BY <1>3, AtQuiet DEF ForIter, At
  <2>2. <<Top.kind, "body">> \in LoopKinds \X {"body"}
    BY <2>1 DEF LoopKinds
  <2>3. QED
    BY <1>3, <2>1, <2>2, EnterBodyClassified, ReturnLeaves
       DEF ForIter, RestoreAndReturn, Classified
<1>4. CASE LoopIter
  <2>1. frames # <<>> /\ Top.kind = "Loop" /\ state = "Running" /\ Opens(Top) = "none"
    BY <1>4, AtQuiet DEF LoopIter, At
  <2>2. <<Top.kind, "body">> \in LoopKinds \X {"body"}
    BY <2>1 DEF LoopKinds
  <2>3. QED
    BY <1>4, <2>1, <2>2, EnterBodyClassified DEF LoopIter, Classified
<1>5. CASE CycleBody
  <2>1. PICK k \in LoopKinds :
          /\ At(k, "body")
          /\ \/ CycleGoesOn /\ Continue(IF k = "While" THEN "start" ELSE "iter")
             \/ ~CycleGoesOn /\ frames' = Leave /\ state' = AfterCycle
    BY <1>5 DEF CycleBody
  <2>2. frames # <<>> /\ Top.kind = k /\ Opens(Top) = "cycle"
    BY <2>1 DEF At, Opens, RunsBody
  <2>3. CASE CycleGoesOn /\ Continue(IF k = "While" THEN "start" ELSE "iter")
    <3>1. PICK pc \in {"start", "iter"} : Continue(pc) /\ <<Top.kind, pc>> \in Positions
      BY <2>2, <2>3 DEF Positions, LoopKinds
    <3>2. PICK g \in Frame : g.kind = Top.kind /\ g.at = pc /\ Goto(pc) = Append(Leave, g)
      BY <2>2, <3>1, GotoShape
    <3>3. Opens(g) = "none" /\ GoesOn(g)
      BY <3>1, <3>2 DEF Opens, RunsBody, IsCall, CallPcs, GoesOn, Continue
    <3>4. QED
      BY <2>2, <2>3, <3>1, <3>3 DEF Finishes, Continue, CycleGoesOn, Classified
  <2>4. CASE ~CycleGoesOn /\ frames' = Leave /\ state' = AfterCycle
    BY <2>2, <2>4 DEF CycleGoesOn, Leaves, Classified
  <2>5. QED
    BY <2>1, <2>3, <2>4
<1>6. QED
  BY <1>1, <1>2, <1>3, <1>4, <1>5

LEMMA SimpleStatementKinds ==
  ASSUME IInv, JInv, \/ AssignSrc \/ AssignLast \/ AssignIndex
                     \/ PrintNext \/ PrintItem \/ ReturnValue \/ ExprStmtEnd
  PROVE  Classified
<1>1. CASE AssignSrc
  <2>1. frames # <<>> /\ Top.kind = "Assign" /\ state = "Running" /\ Opens(Top) = "none"
    BY <1>1, TookQuiet DEF AssignSrc, TakesValue
  <2>2. CASE ThrowAndLeave \/ Return(HasValue(FALSE))
    BY <2>1, <2>2, ThrowLeaves, ReturnLeaves DEF Return, Classified
  <2>3. <<Top.kind, "chain">> \in Positions /\ "chain" \notin CallPcs \cup {"init", "body"}
    BY <2>1 DEF Positions, CallPcs
  <2>4. CASE Continue("chain")
    BY <2>1, <2>3, <2>4, ContinueStays DEF Continue, Classified
  <2>5. CASE /\ Len(frames) < MaxDepth
             /\ frames' = Append(Goto("chain"), NewFrame("Access", <<>>))
             /\ UNCHANGED <<state, calls, trace>>
    <3>1. PICK g \in Frame : g.kind = Top.kind /\ g.at = "chain" /\ Goto("chain") = Append(Leave, g)
      BY <2>1, <2>3, GotoShape
    <3>2. PICK f \in Frame : /\ f.kind = "Access" /\ Opens(f) = "none"
                             /\ frames' = Append(Append(Leave, g), f)
      BY <2>5, <3>1, NoChain, NewFrameOpens DEF Kinds
    <3>3. Opens(g) = "none" /\ Pos(g) \in Below("Access")
      BY <2>1, <3>1 DEF Opens, RunsBody, IsCall, CallPcs, Pos, Below, StatementKinds, LoopKinds
    <3>4. Visits(g, f)
      BY <2>5, <3>1, <3>2, <3>3 DEF Visits
    <3>5. QED
      BY <2>1, <2>5, <3>3, <3>4 DEF Stays, Classified
  <2>6. QED
    BY <1>1, <2>2, <2>4, <2>5 DEF AssignSrc
<1>2. CASE AssignLast
  <2>1. frames # <<>> /\ Top.kind = "Assign" /\ Top.at = "chain" /\ Opens(Top) = "none"
    BY <1>2 DEF AssignLast, At, Opens, RunsBody, IsCall, CallPcs
  <2>2. state \in {"Running", "Throwing"}
    BY <2>1, NoJump DEF Pos, Jumping, Controls, LoopKinds
  <2>3. <<Top.kind, "index">> \in TakesValue
    BY <2>1 DEF TakesValue
  <2>4. QED
    BY <1>2, <2>1, <2>2, <2>3, ThrowLeaves, ReturnLeaves, EvaluateStays
       DEF AssignLast, Return, Classified
<1>3. CASE AssignIndex
  <2>1. frames # <<>> /\ state = "Running" /\ Opens(Top) = "none"
    BY <1>3, TookQuiet DEF AssignIndex, TakesValue
  <2>2. QED
    BY <1>3, <2>1, ThrowLeaves, ReturnLeaves DEF AssignIndex, Return, Classified
<1>4. CASE PrintNext
  <2>1. frames # <<>> /\ Top.kind = "Print" /\ state = "Running" /\ Opens(Top) = "none"
    BY <1>4, AtQuiet DEF PrintNext, At
  <2>2. <<Top.kind, "item">> \in TakesValue
    BY <2>1 DEF TakesValue
  <2>3. QED
    BY <1>4, <2>1, <2>2, EvaluateStays, ReturnLeaves DEF PrintNext, Return, Classified
<1>5. CASE PrintItem
  <2>1. frames # <<>> /\ Top.kind = "Print" /\ state = "Running" /\ Opens(Top) = "none"
    BY <1>5, TookQuiet DEF PrintItem, TakesValue
  <2>2. <<Top.kind, "next">> \in Positions /\ "next" \notin CallPcs \cup {"init", "body"}
    BY <2>1 DEF Positions, CallPcs
  <2>3. QED
    BY <1>5, <2>1, <2>2, ContinueStays DEF PrintItem, Continue, Classified
<1>6. CASE ReturnValue
  BY <1>6, TookQuiet DEF ReturnValue, Leaves, Classified, TakesValue
<1>7. CASE ExprStmtEnd
  <2>1. frames # <<>> /\ Opens(Top) = "none"
    BY <1>7 DEF ExprStmtEnd, At, Opens, RunsBody, IsCall, CallPcs
  <2>2. QED
    BY <1>7, <2>1, ReturnLeaves DEF ExprStmtEnd, Return, Classified
<1>8. QED
  BY <1>1, <1>2, <1>3, <1>4, <1>5, <1>6, <1>7

LEMMA OperandKinds ==
  ASSUME IInv, JInv, OperandsNext \/ OperandsTook \/ UnaryOperand \/ OpError \/ OpsDone
  PROVE  Classified
<1>1. CASE OperandsNext
  <2>1. frames # <<>> /\ Top.kind = "Operands" /\ state = "Running" /\ Opens(Top) = "none"
    BY <1>1, AtQuiet DEF OperandsNext, At
  <2>2. <<Top.kind, "operand">> \in TakesValue
    BY <2>1 DEF TakesValue
  <2>3. QED
    BY <1>1, <2>1, <2>2, EvaluateStays DEF OperandsNext, Classified
<1>2. CASE OperandsTook
  <2>1. frames # <<>> /\ Top.kind = "Operands" /\ state = "Running" /\ Opens(Top) = "none"
    BY <1>2, TookQuiet DEF OperandsTook, TakesValue
  <2>2. <<Top.kind, "next">> \in Positions /\ "next" \notin CallPcs \cup {"init", "body"}
    BY <2>1 DEF Positions, CallPcs
  <2>3. QED
    BY <1>2, <2>1, <2>2, ThrowLeaves, ContinueStays, ReturnLeaves
       DEF OperandsTook, Continue, Classified
<1>3. CASE UnaryOperand
  <2>1. frames # <<>> /\ Top.kind = "Unary" /\ state = "Running" /\ Opens(Top) = "none"
    BY <1>3, TookQuiet DEF UnaryOperand, TakesValue
  <2>2. <<Top.kind, "ops">> \in Positions /\ "ops" \notin CallPcs \cup {"init", "body"}
    BY <2>1 DEF Positions, CallPcs
  <2>3. QED
    BY <1>3, <2>1, <2>2, ContinueStays DEF UnaryOperand, Continue, Classified
<1>4. CASE OpError
  BY <1>4, AtQuiet, ThrowLeaves DEF OpError, AtOps, At, Classified
<1>5. CASE OpsDone
  BY <1>5, AtQuiet, ReturnLeaves DEF OpsDone, AtOps, At, Classified
<1>6. QED
  BY <1>1, <1>2, <1>3, <1>4, <1>5

LEMMA ArgumentKinds ==
  ASSUME IInv, JInv, Argument \/ ArgumentEnd
  PROVE  Classified
<1>1. CASE Argument
  <2>1. /\ frames # <<>> /\ Top.kind \in {"Unary", "Access"}
        /\ state = "Running" /\ Opens(Top) = "none"
    BY <1>1, AtQuiet DEF Argument, AtOps, At
  <2>2. <<Top.kind, "arg">> \in Positions
    BY <2>1 DEF Positions
  <2>3. PICK g \in Frame : g.kind = Top.kind /\ g.at = "arg" /\ Goto("arg") = Append(Leave, g)
    BY <2>1, <2>2, GotoShape
  <2>4. Opens(g) = "none" /\ \A k \in ExpressionKinds : Pos(g) \in Below(k)
    BY <2>1, <2>3 DEF Opens, RunsBody, IsCall, CallPcs, Pos, Below, ExpressionKinds,
                      StatementKinds, LoopKinds
  <2>5. QED
    BY <1>1, <2>1, <2>3, <2>4, ExpressionStays DEF Argument, Classified
<1>2. CASE ArgumentEnd
  <2>1. /\ frames # <<>> /\ Top.kind \in {"Unary", "Access"} /\ Top.at = "arg"
        /\ Opens(Top) = "none" /\ state' = state
    BY <1>2 DEF ArgumentEnd, At, Opens, RunsBody, IsCall, CallPcs
  <2>2. state \in {"Running", "Throwing"}
    BY <2>1, NoJump DEF Pos, Jumping, Controls, LoopKinds
  <2>3. <<Top.kind, "ops">> \in Positions /\ "ops" \notin CallPcs \cup {"init", "body"}
    BY <2>1 DEF Positions, CallPcs
  <2>4. CASE state = "Throwing"
    BY <1>2, <2>1, <2>4, ReturnLeaves DEF ArgumentEnd, Classified
  <2>5. CASE state = "Running"
    BY <1>2, <2>1, <2>3, <2>5, ContinueStays DEF ArgumentEnd, Classified
  <2>6. QED
    BY <2>2, <2>4, <2>5
<1>3. QED
  BY <1>1, <1>2

LEMMA CallKinds ==
  ASSUME IInv, JInv, CallClosure \/ ShortBody \/ CallEnd
  PROVE  Classified
<1>1. CASE CallClosure
  <2>1. /\ frames # <<>> /\ Top.kind = "Unary" /\ state = "Running"
        /\ Opens(Top) = "none" /\ Len(calls) < Capacity
    BY <1>1, AtQuiet DEF CallClosure, At, CanPush
  <2>2. <<Top.kind, "long">> \in Positions /\ <<Top.kind, "begin">> \in Positions
    BY <2>1 DEF Positions, CallPcs
  <2>3. PICK captured \in SUBSET Names, params \in SUBSET Names :
          \/ /\ Len(frames) < MaxDepth
             /\ frames' = Append(Goto("long"), NewFrame("Body", <<captured, params>>))
             /\ UNCHANGED <<state, trace>>
          \/ frames' = Goto("begin") /\ UNCHANGED <<state, trace>>
    BY <1>1 DEF CallClosure
  <2>4. ASSUME NEW pc \in {"long", "begin"}
        PROVE  \E g \in Frame : /\ g.kind = Top.kind /\ g.at = pc /\ Opens(g) = "call"
                                /\ Goto(pc) = Append(Leave, g)
    <3>1. PICK g \in Frame : g.kind = Top.kind /\ g.at = pc /\ Goto(pc) = Append(Leave, g)
      BY <2>1, <2>2, GotoShape
    <3>2. Opens(g) = "call"
      BY <3>1 DEF Opens, RunsBody, IsCall, CallPcs
    <3>3. QED
      BY <3>1, <3>2
  <2>5. CASE /\ Len(frames) < MaxDepth
             /\ frames' = Append(Goto("long"), NewFrame("Body", <<captured, params>>))
             /\ UNCHANGED <<state, trace>>
    <3>1. PICK g \in Frame : /\ g.kind = Top.kind /\ g.at = "long" /\ Opens(g) = "call"
                             /\ Goto("long") = Append(Leave, g)
      BY <2>4
    <3>2. <<captured, params>> \in Chains
      BY DEF Chains
    <3>3. PICK f \in Frame : /\ f.kind = "Body" /\ Opens(f) = "none"
                             /\ frames' = Append(Append(Leave, g), f)
      BY <2>5, <3>1, <3>2, NewFrameOpens DEF Kinds
    <3>4. Pos(g) \in Below("Body")
      BY <2>1, <3>1 DEF Pos, Below, StatementKinds, LoopKinds
    <3>5. Visits(g, f)
      BY <2>5, <3>1, <3>3, <3>4 DEF Visits
    <3>6. QED
      BY <2>1, <2>5, <3>1, <3>5 DEF Enters, Classified
  <2>6. CASE frames' = Goto("begin") /\ UNCHANGED <<state, trace>>
    BY <2>1, <2>4, <2>6 DEF Enters, GoesOn, Classified
  <2>7. QED
    BY <2>3, <2>5, <2>6
<1>2. CASE ShortBody
  <2>1. frames # <<>> /\ Top.kind = "Unary" /\ Top.at = "begin" /\ state = "Running"
    BY <1>2, AtQuiet DEF ShortBody, At
  <2>2. <<Top.kind, "short">> \in Positions
    BY <2>1 DEF Positions, CallPcs
  <2>3. PICK g \in Frame : g.kind = Top.kind /\ g.at = "short" /\ Goto("short") = Append(Leave, g)
    BY <2>1, <2>2, GotoShape
  <2>4. Opens(g) = Opens(Top) /\ \A k \in ExpressionKinds : Pos(g) \in Below(k)
    BY <2>1, <2>3 DEF Opens, RunsBody, IsCall, CallPcs, Pos, Below, ExpressionKinds,
                      StatementKinds, LoopKinds
  <2>5. QED
    BY <1>2, <2>1, <2>3, <2>4, ExpressionStays DEF ShortBody, Classified
<1>3. CASE CallEnd
  <2>1. /\ frames # <<>> /\ Top.kind = "Unary" /\ Top.at \in {"long", "short"}
        /\ Top.at = "long" => state # "Exiting"
    BY <1>3 DEF CallEnd, At
  <2>2. Opens(Top) = "call"
    BY <2>1 DEF Opens, RunsBody, IsCall, CallPcs
  <2>3. state \in {"Running", "Returning", "Throwing"}
    <3>1. CASE Top.at = "long"
      BY <2>1, <3>1 DEF IInv, TypeOK, States
    <3>2. CASE Top.at = "short"
      BY <2>1, <3>2, NoJump DEF Pos, Jumping, Controls, LoopKinds
    <3>3. QED
      BY <2>1, <3>1, <3>2
  <2>4. CASE state = "Throwing"
    BY <1>3, <2>1, <2>2, <2>4 DEF CallEnd, AfterCall, Leaves, Classified
  <2>5. CASE state # "Throwing"
    <3>1. <<Top.kind, "ops">> \in Positions
      BY <2>1 DEF Positions
    <3>2. PICK g \in Frame : g.kind = Top.kind /\ g.at = "ops" /\ Goto("ops") = Append(Leave, g)
      BY <2>1, <3>1, GotoShape
    <3>3. Opens(g) = "none" /\ GoesOn(g) /\ state' = "Running"
      BY <1>3, <2>5, <3>2 DEF Opens, RunsBody, IsCall, CallPcs, GoesOn, CallEnd, AfterCall
    <3>4. QED
      BY <2>1, <2>2, <2>3, <2>5, <3>3 DEF Finishes, Classified
  <2>6. QED
    BY <2>4, <2>5
<1>4. QED
  BY <1>1, <1>2, <1>3

LEMMA NextKind ==
  ASSUME IInv, JInv, Next
  PROVE  Classified \/ UNCHANGED vars
<1>1. CASE Propagate
  BY <1>1, PropagateKind
<1>2. CASE FirstExpression
  BY <1>2, FirstExpressionKind
<1>3. CASE Statement
  BY <1>3, BodyAndVarKinds, ConditionKinds, CycleKinds, SimpleStatementKinds DEF Statement
<1>4. CASE Expression
  BY <1>4, OperandKinds, ArgumentKinds, CallKinds DEF Expression
<1>5. QED
  BY <1>1, <1>2, <1>3, <1>4 DEF Next, Terminated

-----------------------------------------------------------------------------
(* The theorems.                                                           *)

LEMMA InitJInv == Init => JInv
<1> SUFFICES ASSUME Init PROVE JInv
  OBVIOUS
<1>1. frames = <<frames[1]>> /\ Len(frames) = 1 /\ frames[1].kind = "Body"
  BY DEF Init, NewFrame
<1>2. Grammar(frames)
  BY <1>1, ConstantsAssumption DEF Grammar, Nested, ReturnsInCalls, Bounded
<1>3. StateFits(frames, state)
  BY DEF Init, StateFits
<1>4. QED
  BY <1>2, <1>3 DEF JInv

LEMMA JInvStep == IInv /\ JInv /\ [Next]_vars => JInv'
<1> SUFFICES ASSUME IInv, JInv, [Next]_vars PROVE JInv'
  OBVIOUS
<1>1. CASE Next /\ Classified
  BY <1>1, ClassifiedKeeps
<1>2. CASE UNCHANGED vars
  BY <1>2 DEF vars, JInv
<1>3. QED
  BY <1>1, <1>2, NextKind

\* JInv is an invariant: which activations stand on which, and where they wait
\* while a jump is under way.
THEOREM JumpsFit == Spec => [](IInv /\ JInv)
<1>1. Spec => []IInv
  BY Inductive
<1>2. Spec => []JInv
  BY <1>1, InitJInv, JInvStep, PTL DEF Spec
<1>3. QED
  BY <1>1, <1>2, PTL

\* Whatever the program, while `exit` or `return` is under way the visitor on
\* top is one that asks for it, and a cycle of the same function, or a call,
\* will take it: no expression, call or accessor meets a jump, although their
\* visitors ask only IsThrowing.
THEOREM JumpsReachTargets == Spec => []JumpsHaveTarget
<1>1. IInv /\ JInv => JumpsHaveTarget
  BY DEF JInv, StateFits, JumpsHaveTarget, Jumping, Top, CycleOpen, InCycle, CallOpen, InFunction
<1>2. QED
  BY <1>1, JumpsFit, PTL

\* Whatever the program, its cycles and calls are entered and left as
\* ControlFlow says: `exit` ends the innermost cycle, `return` the innermost
\* call, an error all of them, and nothing is entered on the way.
THEOREM ImplementsControlFlow == Spec => KeepsPromise
<1>1. Init => Promise!Init
  <2> SUFFICES ASSUME Init PROVE Promise!Init
    OBVIOUS
  <2>1. Len(frames) = 1 /\ Opens(frames[1]) = "none" /\ frames # <<>>
    BY DEF Init, NewFrame, FirstPc, StatementKinds, LoopKinds, Opens, RunsBody, IsCall, CallPcs
  <2>2. OpenContexts = {}
    BY <2>1 DEF OpenContexts, Opens, Init
  <2>3. Status = "running"
    BY <2>1 DEF Status, Init
  <2>4. QED
    BY <2>2, <2>3 DEF Promise!Init
<1>2. IInv /\ JInv /\ [Next]_vars => [Promise!Next]_<<OpenContexts, Status>>
  <2> SUFFICES ASSUME IInv, JInv, [Next]_vars PROVE [Promise!Next]_<<OpenContexts, Status>>
    OBVIOUS
  <2>1. CASE Classified
    BY <2>1, ClassifiedAllowed DEF PromiseKept
  <2>2. CASE UNCHANGED vars
    BY <2>2 DEF vars, OpenContexts, Status
  <2>3. QED
    BY <2>1, <2>2, NextKind
<1>3. QED
  BY <1>1, <1>2, JumpsFit, PTL DEF Spec, KeepsPromise, Promise!Spec
=============================================================================
