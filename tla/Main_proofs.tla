----------------------------- MODULE Main_proofs ------------------------------
(***************************************************************************)
(* For all texts, arguments and options: every character of a file is in   *)
(* one token, white or in a comment; the tokens are the right ones; the    *)
(* arguments mean what the help says; and every file has its turn and its  *)
(* own fate, whatever happens to the other files.                          *)
(***************************************************************************)
EXTENDS Main, FiniteSetTheorems, SequenceTheorems, WellFoundedInduction, TLAPS

-----------------------------------------------------------------------------
(* Where the scans of the lexer end.                                       *)

\* A set of natural numbers without a least element is empty.
LEMMA SmallestOf ==
  ASSUME NEW D \in SUBSET Nat, D # {}
  PROVE  \E k \in D : \A m \in D : k <= m
<1> DEFINE R == {p \in Nat \X Nat : p[1] < p[2]}
<1>1. IsWellFoundedOn(R, Nat)
  BY NatLessThanWellFounded DEF OpToRel
<1>2. PICK k \in D : \A m \in D : ~(<<m, k>> \in R)
  BY <1>1, WFMin
<1>3. \A m \in D : ~(m < k)
  BY <1>2
<1>4. QED
  BY <1>3

LEMMA FirstWhere ==
  ASSUME NEW p \in Nat, NEW end \in Nat, p <= end, NEW D \in SUBSET (p .. end), D # {}
  PROVE  \E q \in D : \A r \in p .. q - 1 : r \notin D
<1>1. D \in SUBSET Nat
  OBVIOUS
<1>2. PICK q \in D : \A r \in D : q <= r
  BY <1>1, SmallestOf
<1>3. \A r \in p .. q - 1 : r < q
  OBVIOUS
<1>4. \A r \in D : ~(r < q)
  BY <1>2
<1>5. QED
  BY <1>3, <1>4

LEMMA EndOfRunIs ==
  ASSUME n \in Nat, NEW p \in 0 .. n, NEW S
  PROVE  LET q == EndOfRun(p, S)
         IN q \in p .. n /\ (q = n \/ Char(q) \notin S) /\ \A r \in p .. q - 1 : Char(r) \in S
<1> DEFINE D == {q \in p .. n : q = n \/ Char(q) \notin S}
<1>1. p \in Nat /\ p <= n /\ n \in p .. n
  OBVIOUS
<1>2. PICK q \in D : \A r \in p .. q - 1 : r \notin D
  BY <1>1, FirstWhere
<1>3. \A r \in p .. q - 1 : r \in p .. n /\ r # n
  BY <1>1
<1>4. \A r \in p .. q - 1 : Char(r) \in S
  BY <1>2, <1>3
<1>5. QED
  BY <1>2, <1>4 DEF EndOfRun

LEMMA EndOfLineIs ==
  ASSUME n \in Nat, NEW p \in 0 .. n
  PROVE  LET q == EndOfLine(p)
         IN q \in p .. n /\ (q = n \/ Char(q) = "\n") /\ \A r \in p .. q - 1 : Char(r) # "\n"
<1> DEFINE D == {q \in p .. n : q = n \/ Char(q) = "\n"}
<1>1. p \in Nat /\ p <= n /\ n \in p .. n
  OBVIOUS
<1>2. PICK q \in D : \A r \in p .. q - 1 : r \notin D
  BY <1>1, FirstWhere
<1>3. \A r \in p .. q - 1 : r \in p .. n /\ r # n
  BY <1>1
<1>4. \A r \in p .. q - 1 : Char(r) # "\n"
  BY <1>2, <1>3
<1>5. QED
  BY <1>2, <1>4 DEF EndOfLine

\* The loop of a string: it is a function from every start, and stays in the text.
NextEnd(t, p) ==
  IF p = n \/ Char(p) \in {"\"", "\n"} THEN p
  ELSE IF Escaped(p) THEN t[p + 2] ELSE t[p + 1]
Ended(t, start) == t = [p \in start .. n |-> NextEnd(t, p)]

LEMMA EndedExists ==
  ASSUME n \in Nat, NEW start \in 0 .. n
  PROVE  \E t : Ended(t, start)
<1> DEFINE D == {d \in 0 .. n : ~ \E t : Ended(t, n - d)}
<1>1. ASSUME D # {} PROVE FALSE
  <2>1. D \in SUBSET Nat
    OBVIOUS
  <2>2. PICK d \in D : \A e \in D : d <= e
    BY <1>1, <2>1, SmallestOf
  <2> DEFINE s == n - d
  <2>3. s \in 0 .. n /\ d \in 0 .. n
    OBVIOUS
  <2>4. s # n
    <3>1. ASSUME s = n PROVE FALSE
      <4> DEFINE t == [p \in n .. n |-> p]
      <4>1. \A p \in n .. n : p = n
        OBVIOUS
      <4>2. t = [p \in n .. n |-> NextEnd(t, p)]
        BY <4>1 DEF NextEnd
      <4>3. Ended(t, s)
        BY <3>1, <4>2 DEF Ended
      <4>4. QED
        BY <4>3
    <3>2. QED
      BY <3>1
  <2>5. d - 1 \in 0 .. n /\ d - 1 < d /\ n - (d - 1) = s + 1 /\ s + 1 \in 1 .. n
    BY <2>3, <2>4
  <2>6. PICK t : Ended(t, s + 1)
    <3>1. d - 1 \notin D
      BY <2>2, <2>5
    <3>2. QED
      BY <2>5, <3>1
  <2> HIDE DEF s, D
  <2> DEFINE u == [p \in s .. n |-> IF p = s THEN NextEnd(t, s) ELSE t[p]]
  <2>7. ASSUME NEW p \in s .. n PROVE u[p] = NextEnd(u, p)
    <3>1. Escaped(p) => p + 1 < n
      BY Zenon DEF Escaped
    <3>2. CASE p = n \/ Char(p) \in {"\"", "\n"}
      <4>1. NextEnd(u, p) = p /\ NextEnd(t, p) = p
        BY <3>2 DEF NextEnd
      <4>2. p # s => t[p] = p
        <5>1. p # s => p \in s + 1 .. n
          BY <2>3
        <5>2. QED
          BY <2>6, <4>1, <5>1 DEF Ended
      <4>3. QED
        BY <4>1, <4>2
    <3>3. CASE ~(p = n \/ Char(p) \in {"\"", "\n"})
      <4>1. /\ p + 1 \in s .. n /\ p + 1 # s
            /\ Escaped(p) => p + 2 \in s .. n /\ p + 2 # s
        <5>0. p # n
          BY <3>3
        <5>1. s \in Int /\ p \in Int /\ s <= p /\ p < n
          BY <2>3, <5>0
        <5>2. p + 1 \in s .. n /\ p + 1 # s
          BY <5>1
        <5>3. p + 1 < n => p + 2 \in s .. n /\ p + 2 # s
          BY <5>1
        <5>4. QED
          BY <3>1, <5>2, <5>3
      <4>2. u[p + 1] = t[p + 1] /\ (Escaped(p) => u[p + 2] = t[p + 2])
        BY <4>1
      <4>3. NextEnd(u, p) = NextEnd(t, p)
        BY <3>3, <4>2 DEF NextEnd
      <4>4. p # s => t[p] = NextEnd(t, p)
        <5>1. p # s => p \in s + 1 .. n
          BY <2>3
        <5>2. QED
          BY <2>6, <5>1 DEF Ended
      <4>5. QED
        BY <4>3, <4>4
    <3>4. QED
      BY <3>2, <3>3
  <2>8. u = [p \in s .. n |-> u[p]]
    OBVIOUS
  <2> HIDE DEF u
  <2>9. Ended(u, s)
    BY <2>7, <2>8 DEF Ended
  <2>10. QED
    BY <2>2, <2>9 DEF s, D
<1>2. n - start \in 0 .. n /\ n - (n - start) = start
  OBVIOUS
<1>3. QED
  BY <1>1, <1>2

LEMMA StringEndIs ==
  ASSUME n \in Nat, NEW start \in 0 .. n
  PROVE  StringEnd(start) \in start .. n
<1> DEFINE t == CHOOSE t : Ended(t, start)
<1>1. StringEnd(start) = t[start]
  BY Zenon DEF StringEnd, Ended, NextEnd
<1>2. Ended(t, start)
  BY EndedExists
<1> HIDE DEF t
<1>3. \A p \in start .. n : t[p] = NextEnd(t, p)
  BY <1>2 DEF Ended
<1> DEFINE D == {d \in 0 .. n - start : ~(t[n - d] \in n - d .. n)}
<1>4. ASSUME D # {} PROVE FALSE
  <2>1. D \in SUBSET Nat
    OBVIOUS
  <2>2. PICK d \in D : \A e \in D : d <= e
    BY <1>4, <2>1, SmallestOf
  <2> DEFINE p == n - d
  <2>3. d \in 0 .. n - start /\ p \in start .. n /\ t[p] \notin p .. n
    OBVIOUS
  <2>4. ASSUME NEW q \in p + 1 .. n PROVE t[q] \in q .. n
    <3>1. n - q \in 0 .. n - start /\ n - q < d /\ n - (n - q) = q
      BY <2>3
    <3>2. n - q \notin D
      BY <2>2, <3>1
    <3>3. QED
      BY <3>1, <3>2
  <2> HIDE DEF D, p
  <2>5. Escaped(p) => p + 1 < n
    BY Zenon DEF Escaped
  <2>6. t[p] = p \/ (p # n /\ t[p] = t[p + 1]) \/ (p + 1 < n /\ t[p] = t[p + 2])
    BY <1>3, <2>3, <2>5 DEF NextEnd
  <2>7. t[p] \in p .. n
    <3>1. p \in Int /\ p <= n
      BY <2>3
    <3>2. CASE t[p] = p
      BY <3>1, <3>2
    <3>3. CASE p # n /\ t[p] = t[p + 1]
      BY <2>4, <3>1, <3>3
    <3>4. CASE p + 1 < n /\ t[p] = t[p + 2]
      BY <2>4, <3>1, <3>4
    <3>5. QED
      BY <2>6, <3>2, <3>3, <3>4
  <2>8. QED
    BY <2>3, <2>7
<1>5. n - start \in 0 .. n - start /\ n - (n - start) = start
  OBVIOUS
<1>6. D = {}
  BY <1>4
<1>7. t[start] \in start .. n
  BY <1>5, <1>6
<1>8. QED
  BY <1>1, <1>7

-----------------------------------------------------------------------------
(* The lexer: a check that succeeds goes forward.                          *)

TokenTypes ==
  {typeChars[k][2] : k \in DOMAIN typeChars}
    \cup {"tkStringLiteral", "tkIntLiteral", "tkRealLiteral", "tkIdent", "tkEof"}
Token == [type : TokenTypes, position : Nat, length : Nat]

\* What is so of the tokens before any position that is not behind i.
LexInv ==
  /\ n \in Nat /\ i \in 0 .. n /\ tokens \in Seq(Token)
  /\ \A k \in 1 .. Len(tokens) : tokens[k].position + tokens[k].length <= i
  /\ EveryCharacterOnce

LEMMA TableIs == DOMAIN typeChars = 1 .. 48
  BY DEF typeChars

LEMMA MatchIs ==
  ASSUME n \in Nat, NEW p \in 0 .. n, Matches(p) # {}
  PROVE  /\ FirstMatch(p) \in DOMAIN typeChars
         /\ Len(typeChars[FirstMatch(p)][1]) \in Nat \ {0}
         /\ p + Len(typeChars[FirstMatch(p)][1]) \in p + 1 .. n
<1>1. Matches(p) \subseteq DOMAIN typeChars /\ \A k \in Matches(p) : IsAt(p, typeChars[k][1])
  BY DEF Matches
<1>2. Matches(p) \in SUBSET Nat
  BY <1>1, TableIs
<1>3. PICK k \in Matches(p) : \A m \in Matches(p) : k <= m
  BY <1>2, SmallestOf
<1>4. FirstMatch(p) \in Matches(p)
  BY <1>3 DEF FirstMatch
<1>5. FirstMatch(p) \in DOMAIN typeChars /\ IsAt(p, typeChars[FirstMatch(p)][1])
  BY <1>1, <1>4
<1>6. Len(typeChars[FirstMatch(p)][1]) \in Nat \ {0}
  BY <1>5, StringAssumption
<1>7. p + Len(typeChars[FirstMatch(p)][1]) <= n
  BY <1>5 DEF IsAt
<1>8. QED
  BY <1>5, <1>6, <1>7

\* Where the checks that succeed at p end.
LEMMA EndsAre ==
  ASSUME n \in Nat, NEW p \in 0 .. n, p # n
  PROVE  /\ p + 1 \in p + 1 .. n
         /\ Check(p) = "string" => StringEnd(p + 1) + 1 \in p + 1 .. n
         /\ Check(p) = "number" => NumberEnd(p) \in p + 1 .. n
         /\ Check(p) = "token" => p + Len(typeChars[FirstMatch(p)][1]) \in p + 1 .. n
         /\ Check(p) = "identifier" => EndOfRun(p, Wordly) \in p + 1 .. n
<1>1. p \in Nat /\ p < n /\ p + 1 \in 0 .. n /\ p + 1 \in p + 1 .. n
  OBVIOUS
<1>2. ASSUME Check(p) = "string" PROVE StringEnd(p + 1) + 1 \in p + 1 .. n
  <2>1. IsString(p)
    BY <1>2 DEF Check
  <2>2. StringEnd(p + 1) < n
    BY <2>1 DEF IsString
  <2>3. StringEnd(p + 1) \in p + 1 .. n
    BY <1>1, StringEndIs
  <2>4. QED
    BY <1>1, <2>2, <2>3
<1>3. ASSUME NEW S, Char(p) \in S PROVE EndOfRun(p, S) \in p + 1 .. n
  <2> DEFINE q == EndOfRun(p, S)
  <2>1. q \in p .. n /\ (q = n \/ Char(q) \notin S)
    BY EndOfRunIs
  <2> HIDE DEF q
  <2>2. q # p
    BY <1>1, <1>3, <2>1
  <2>3. q \in p + 1 .. n
    BY <1>1, <2>1, <2>2
  <2>4. QED
    BY <2>3 DEF q
<1>4. ASSUME Check(p) = "number" PROVE NumberEnd(p) \in p + 1 .. n
  <2>1. Char(p) \in Digits
    BY <1>4 DEF Check
  <2> DEFINE q == EndOfRun(p, Digits)
  <2>2. q \in p + 1 .. n
    BY <1>3, <2>1
  <2>3. NumberEnd(p) = q \/ (q + 1 < n /\ NumberEnd(p) = EndOfRun(q + 1, Digits))
    BY Zenon DEF NumberEnd
  <2> HIDE DEF q
  <2>4. ASSUME q + 1 < n PROVE EndOfRun(q + 1, Digits) \in p + 1 .. n
    <3>1. q + 1 \in 0 .. n
      BY <1>1, <2>2, <2>4
    <3>2. EndOfRun(q + 1, Digits) \in q + 1 .. n
      BY <3>1, EndOfRunIs
    <3>3. QED
      BY <1>1, <2>2, <3>2
  <2>5. QED
    BY <2>2, <2>3, <2>4
<1>5. ASSUME Check(p) = "token" PROVE p + Len(typeChars[FirstMatch(p)][1]) \in p + 1 .. n
  <2>1. Matches(p) # {}
    BY <1>5 DEF Check
  <2>2. QED
    BY <2>1, MatchIs
<1>6. ASSUME Check(p) = "identifier" PROVE EndOfRun(p, Wordly) \in p + 1 .. n
  <2>1. Char(p) \in Latin \cup {"_"}
    BY <1>6 DEF Check
  <2>2. Char(p) \in Wordly
    BY <2>1 DEF Wordly
  <2>3. QED
    BY <1>3, <2>2
<1>7. QED
  BY <1>1, <1>2, <1>4, <1>5, <1>6

-----------------------------------------------------------------------------
(* Every character once.                                                   *)

\* The parts of EveryCharacterOnce.
Covered(p) == \E k \in DOMAIN tokens : p \in Span(tokens[k])
Commented(p) == \E q \in 0 .. p : IsAt(q, "//") /\ \A r \in q .. p : Char(r) # "\n" /\ ~ Covered(r)
Seen(p) == Covered(p) \/ Char(p) \in Blanks \/ Commented(p)
InOrderSoFar ==
  /\ \A k \in 2 .. Len(tokens) : tokens[k - 1].position + tokens[k - 1].length <= tokens[k].position
  /\ \A k \in DOMAIN tokens : tokens[k].length > 0 \/ tokens[k].type = "tkEof"
LEMMA Parts == EveryCharacterOnce <=> InOrderSoFar /\ \A p \in AfterShebang(code) .. i - 1 : Seen(p)
  BY Zenon DEF EveryCharacterOnce, InOrderSoFar, Seen, Covered, Commented

LEMMA ShebangIs ==
  ASSUME NEW text, Len(text) \in Nat
  PROVE  AfterShebang(text) \in 0 .. Len(text)
<1> DEFINE m == Len(text)
           breaks == {p \in 1 .. m : SubSeq(text, p, p) = "\n"}
           first == CHOOSE p \in breaks : \A q \in breaks : p <= q
<1>1. AfterShebang(text) \in {0, m} \/ (breaks # {} /\ AfterShebang(text) = first)
  BY Zenon DEF AfterShebang
<1>2. ASSUME breaks # {} PROVE first \in breaks
  <2>1. breaks \in SUBSET Nat
    OBVIOUS
  <2>2. \E p \in breaks : \A q \in breaks : p <= q
    BY <1>2, <2>1, SmallestOf
  <2>3. QED
    BY <2>2
<1>3. breaks \subseteq 0 .. m /\ 0 \in 0 .. m /\ m \in 0 .. m
  OBVIOUS
<1> HIDE DEF breaks, first, m
<1>4. AfterShebang(text) \in 0 .. m
  BY <1>1, <1>2, <1>3
<1>5. QED
  BY <1>4 DEF m

LEMMA WholeIs ==
  ASSUME LexInv
  PROVE  /\ Len(tokens) \in Nat
         /\ \A k \in 1 .. Len(tokens) :
              /\ tokens[k] \in Token
              /\ tokens[k].position \in Nat /\ tokens[k].length \in Nat
              /\ tokens[k].position + tokens[k].length <= i
<1>1. tokens \in Seq(Token) /\ \A k \in 1 .. Len(tokens) : tokens[k].position + tokens[k].length <= i
  BY DEF LexInv
<1>2. Len(tokens) \in Nat /\ \A k \in 1 .. Len(tokens) : tokens[k] \in Token
  BY <1>1
<1>3. \A t \in Token : t.position \in Nat /\ t.length \in Nat
  BY DEF Token
<1>4. QED
  BY <1>1, <1>2, <1>3

\* No token reaches behind i.
LEMMA NothingAhead ==
  ASSUME LexInv, NEW r \in Int, r >= i
  PROVE  ~ Covered(r)
<1>1. ASSUME NEW k \in 1 .. Len(tokens), r \in Span(tokens[k]) PROVE FALSE
  <2>1. /\ tokens[k].position \in Nat /\ tokens[k].length \in Nat
        /\ tokens[k].position + tokens[k].length <= i /\ i \in Nat
    BY WholeIs DEF LexInv
  <2>2. r <= tokens[k].position + tokens[k].length - 1
    BY <1>1, <2>1 DEF Span
  <2>3. QED
    BY <2>1, <2>2
<1>2. DOMAIN tokens = 1 .. Len(tokens)
  BY DEF LexInv
<1>3. QED
  BY <1>1, <1>2 DEF Covered

\* New tokens, if there are any, begin at i.
Grown ==
  /\ code' = code /\ tokens' \in Seq(Token)
  /\ Len(tokens) <= Len(tokens')
  /\ \A k \in 1 .. Len(tokens) : tokens'[k] = tokens[k]
  /\ \A k \in Len(tokens) + 1 .. Len(tokens') : tokens'[k].position >= i

LEMMA CoveredIsKept ==
  ASSUME LexInv, Grown, NEW r \in Int, r < i
  PROVE  Covered(r)' <=> Covered(r)
<1>1. Len(tokens) \in Nat /\ Len(tokens') \in Nat /\ Len(tokens) <= Len(tokens')
  BY DEF LexInv, Grown
<1>2. DOMAIN tokens = 1 .. Len(tokens) /\ DOMAIN tokens' = 1 .. Len(tokens')
  BY DEF LexInv, Grown
<1>3. ASSUME Covered(r) PROVE Covered(r)'
  <2>1. PICK k \in 1 .. Len(tokens) : r \in Span(tokens[k])
    BY <1>2, <1>3 DEF Covered
  <2>2. k \in 1 .. Len(tokens')
    BY <1>1
  <2>3. tokens'[k] = tokens[k]
    BY DEF Grown
  <2>4. r \in Span(tokens'[k])
    BY <2>1, <2>3
  <2>5. QED
    BY <1>2, <2>2, <2>4 DEF Covered, Span
<1>4. ASSUME Covered(r)' PROVE Covered(r)
  <2>1. PICK k \in 1 .. Len(tokens') : r \in Span(tokens'[k])
    BY <1>2, <1>4 DEF Covered, Span
  <2>2. k \notin Len(tokens) + 1 .. Len(tokens')
    <3>1. ASSUME k \in Len(tokens) + 1 .. Len(tokens') PROVE FALSE
      <4>1. tokens'[k].position >= i
        BY <3>1 DEF Grown
      <4>2. tokens'[k] \in Token
        BY <2>1 DEF Grown
      <4>3. tokens'[k].position \in Nat /\ i \in Nat
        BY <4>2 DEF Token, LexInv
      <4>4. r >= tokens'[k].position
        BY <2>1, <4>2 DEF Span, Token
      <4>5. QED
        BY <4>1, <4>3, <4>4
    <3>2. QED
      BY <3>1
  <2>3. k \in 1 .. Len(tokens)
    BY <1>1, <2>1, <2>2
  <2>4. tokens'[k] = tokens[k]
    BY <2>3 DEF Grown
  <2>5. r \in Span(tokens[k])
    BY <2>1, <2>4
  <2>6. QED
    BY <1>2, <2>3, <2>5 DEF Covered
<1>5. QED
  BY <1>3, <1>4

LEMMA TextIsKept ==
  ASSUME code' = code
  PROVE  /\ n' = n
         /\ AfterShebang(code)' = AfterShebang(code)
         /\ \A p : Char(p)' = Char(p)
         /\ \A p : IsAt(p, "//")' <=> IsAt(p, "//")
<1>1. n' = n
  BY DEF n
<1>2. AfterShebang(code)' = AfterShebang(code)
  BY DEF AfterShebang
<1>3. \A p : Char(p)' = Char(p)
  BY DEF Char
<1>4. \A p : IsAt(p, "//")' <=> IsAt(p, "//")
  BY <1>1 DEF IsAt, Text
<1>5. QED
  BY <1>1, <1>2, <1>3, <1>4

LEMMA SeenIsKept ==
  ASSUME LexInv, Grown, NEW p \in 0 .. i - 1, Seen(p)
  PROVE  Seen(p)'
<1>0. i \in Nat /\ p \in Int /\ p < i
  BY DEF LexInv
<1>1. Covered(p)' <=> Covered(p)
  BY <1>0, CoveredIsKept
<1>2. /\ \A q : Char(q)' = Char(q)
      /\ \A q : IsAt(q, "//")' <=> IsAt(q, "//")
  BY TextIsKept DEF Grown
<1>3. ASSUME Commented(p) PROVE Commented(p)'
  <2>1. PICK q \in 0 .. p : IsAt(q, "//") /\ \A r \in q .. p : Char(r) # "\n" /\ ~ Covered(r)
    BY <1>3 DEF Commented
  <2>2. IsAt(q, "//")'
    BY <1>2, <2>1
  <2>3. ASSUME NEW r \in q .. p PROVE (Char(r) # "\n" /\ ~ Covered(r))'
    <3>1. r \in Int /\ r < i
      BY <1>0, <2>1
    <3>2. Covered(r)' <=> Covered(r)
      BY <3>1, CoveredIsKept
    <3>3. QED
      BY <1>2, <2>1, <3>2
  <2>4. QED
    BY <2>2, <2>3 DEF Commented
<1>4. QED
  BY <1>1, <1>2, <1>3 DEF Seen

\* A step goes forward to end, with one more token or none.
Forward(end) ==
  /\ Grown /\ i' = end /\ end \in i .. n
  /\ Len(tokens') <= Len(tokens) + 1
  /\ \A k \in Len(tokens) + 1 .. Len(tokens') :
       /\ tokens'[k].position + tokens'[k].length <= end
       /\ tokens'[k].length > 0 \/ tokens'[k].type = "tkEof"

LEMMA ForwardKeeps ==
  ASSUME NEW end, LexInv, Forward(end), \A p \in i .. end - 1 : Seen(p)'
  PROVE  LexInv'
<1>1. /\ Len(tokens) \in Nat /\ Len(tokens') \in Nat /\ Len(tokens) <= Len(tokens')
      /\ n \in Nat /\ i \in 0 .. n /\ i' = end /\ end \in i .. n /\ n' = n
  BY WholeIs, TextIsKept DEF LexInv, Forward, Grown
<1>1a. n \in Nat /\ i \in 0 .. n /\ end \in i .. n
  BY <1>1
<1>2. n' \in Nat /\ i' \in 0 .. n' /\ tokens' \in Seq(Token)
  BY <1>1 DEF Forward, Grown
<1>3. \A k \in 1 .. Len(tokens') : k \in 1 .. Len(tokens) \/ k = Len(tokens) + 1
  BY <1>1 DEF Forward
<1>4. ASSUME NEW k \in 1 .. Len(tokens'), k \notin 1 .. Len(tokens)
      PROVE  /\ k \in Len(tokens) + 1 .. Len(tokens')
             /\ tokens'[k].position + tokens'[k].length <= end
             /\ tokens'[k].length > 0 \/ tokens'[k].type = "tkEof"
             /\ tokens'[k].position >= i
  <2>1. k \in Len(tokens) + 1 .. Len(tokens')
    BY <1>1, <1>4
  <2>2. QED
    BY <2>1 DEF Forward, Grown
<1>5. ASSUME NEW k \in 1 .. Len(tokens)
      PROVE  /\ tokens'[k] = tokens[k] /\ tokens[k] \in Token
             /\ tokens[k].position + tokens[k].length <= i
             /\ tokens[k].position + tokens[k].length \in Nat
  <2>1. tokens'[k] = tokens[k]
    BY DEF Forward, Grown
  <2>2. QED
    BY <2>1, WholeIs
<1>6. \A k \in 1 .. Len(tokens') : tokens'[k].position + tokens'[k].length <= end
  <2>1. ASSUME NEW k \in 1 .. Len(tokens) PROVE tokens'[k].position + tokens'[k].length <= end
    <3>1. i \in Nat /\ end \in Nat /\ i <= end
      BY <1>1
    <3>2. QED
      BY <1>5, <3>1
  <2>2. QED
    BY <1>4, <2>1
<1>7. InOrderSoFar'
  <2>0. InOrderSoFar /\ DOMAIN tokens = 1 .. Len(tokens) /\ DOMAIN tokens' = 1 .. Len(tokens')
    BY <1>2, Parts DEF LexInv
  <2>1. ASSUME NEW k \in 2 .. Len(tokens')
        PROVE  tokens'[k - 1].position + tokens'[k - 1].length <= tokens'[k].position
    <3>1. CASE k \in 1 .. Len(tokens)
      <4>1. k - 1 \in 1 .. Len(tokens) /\ k \in 2 .. Len(tokens)
        BY <1>1, <3>1
      <4>2. tokens[k - 1].position + tokens[k - 1].length <= tokens[k].position
        BY <2>0, <4>1 DEF InOrderSoFar
      <4>3. tokens'[k - 1] = tokens[k - 1] /\ tokens'[k] = tokens[k]
        BY <1>5, <4>1
      <4>4. QED
        BY <4>2, <4>3
    <3>2. CASE k \notin 1 .. Len(tokens)
      <4>1. k \in 1 .. Len(tokens') /\ k = Len(tokens) + 1 /\ k - 1 \in 1 .. Len(tokens)
        BY <1>1, <1>3, <3>2
      <4>2. tokens'[k].position >= i /\ tokens'[k] \in Token
        BY <1>2, <1>4, <3>2, <4>1
      <4>3. tokens'[k].position \in Nat /\ i \in Nat
        BY <1>1, <4>2 DEF Token
      <4>4. /\ tokens'[k - 1] = tokens[k - 1] /\ tokens[k - 1].position + tokens[k - 1].length <= i
            /\ tokens[k - 1].position + tokens[k - 1].length \in Nat
        BY <1>5, <4>1
      <4>5. QED
        BY <4>2, <4>3, <4>4
    <3>3. QED
      BY <3>1, <3>2
  <2>2. ASSUME NEW k \in 1 .. Len(tokens') PROVE tokens'[k].length > 0 \/ tokens'[k].type = "tkEof"
    <3>1. CASE k \in 1 .. Len(tokens)
      <4>1. tokens[k].length > 0 \/ tokens[k].type = "tkEof"
        BY <2>0, <3>1 DEF InOrderSoFar
      <4>2. QED
        BY <1>5, <3>1, <4>1
    <3>2. CASE k \notin 1 .. Len(tokens)
      BY <1>4, <3>2
    <3>3. QED
      BY <3>1, <3>2
  <2>3. QED
    BY <2>0, <2>1, <2>2 DEF InOrderSoFar
<1>8. AfterShebang(code)' = AfterShebang(code) /\ AfterShebang(code) \in Nat
  <2>1. AfterShebang(code)' = AfterShebang(code)
    BY TextIsKept DEF Forward, Grown
  <2>2. Len(code) \in Nat
    BY <1>1 DEF n
  <2>3. AfterShebang(code) \in 0 .. Len(code)
    BY <2>2, ShebangIs
  <2>4. QED
    BY <2>1, <2>2, <2>3
<1>9. ASSUME NEW p \in AfterShebang(code) .. end - 1 PROVE Seen(p)'
  <2>0. i \in Nat /\ end \in Nat /\ p \in Int /\ AfterShebang(code) <= p /\ p <= end - 1
    BY <1>1a, <1>8
  <2>2. CASE p < i
    <3>1. p \in AfterShebang(code) .. i - 1 /\ p \in 0 .. i - 1
      BY <1>1a, <1>8, <2>0, <2>2
    <3>2. Seen(p)
      BY <3>1, Parts DEF LexInv
    <3>3. QED
      BY <3>1, <3>2, SeenIsKept DEF Forward
  <2>3. CASE ~(p < i)
    <3>1. p \in i .. end - 1
      BY <1>1a, <2>0, <2>3
    <3>2. QED
      BY <3>1
  <2>4. QED
    BY <2>2, <2>3
<1>10. EveryCharacterOnce'
  <2>1. (InOrderSoFar /\ \A p \in AfterShebang(code) .. i - 1 : Seen(p))'
    BY <1>1, <1>7, <1>8, <1>9
  <2>2. QED
    BY <2>1, Parts, PTL
<1>11. QED
  BY <1>1, <1>2, <1>6, <1>10 DEF LexInv

\* tokens' is tokens and t.
LEMMA Appended ==
  ASSUME LexInv, code' = code, NEW t \in Token, tokens' = Append(tokens, t), t.position = i,
         NEW end \in i .. n, i' = end, t.position + t.length = end, t.length > 0 \/ t.type = "tkEof"
  PROVE  /\ Forward(end)
         /\ Len(tokens) + 1 \in 1 .. Len(tokens') /\ tokens'[Len(tokens) + 1] = t
         /\ DOMAIN tokens' = 1 .. Len(tokens')
<1>1. tokens \in Seq(Token) /\ Len(tokens) \in Nat /\ i \in Nat
  BY DEF LexInv
<1>2. /\ tokens' \in Seq(Token) /\ Len(tokens') = Len(tokens) + 1
      /\ \A k \in 1 .. Len(tokens) : tokens'[k] = tokens[k]
      /\ tokens'[Len(tokens) + 1] = t
      /\ DOMAIN tokens' = 1 .. Len(tokens')
  BY <1>1
<1>3. \A k \in Len(tokens) + 1 .. Len(tokens') : k = Len(tokens) + 1
  BY <1>1, <1>2
<1>4. i >= i
  BY <1>1
<1>5. Grown
  BY <1>1, <1>2, <1>3, <1>4 DEF Grown
<1>6. Forward(end)
  BY <1>1, <1>2, <1>3, <1>5 DEF Forward
<1>7. QED
  BY <1>1, <1>2, <1>6

LEMMA PushKeeps ==
  ASSUME LexInv, NEW type \in TokenTypes, NEW end \in i + 1 .. n, Push(type, end)
  PROVE  LexInv'
<1> DEFINE t == [type |-> type, position |-> i, length |-> end - i]
<1>1. i \in Nat /\ n \in Nat /\ end \in i .. n /\ end - i \in Nat /\ end - i > 0 /\ i + (end - i) = end
  BY DEF LexInv
<1>2. t \in Token
  BY <1>1 DEF Token
<1>3. code' = code /\ tokens' = Append(tokens, t) /\ i' = end
  BY DEF Push
<1>4. t.position = i /\ t.length = end - i
  OBVIOUS
<1> HIDE DEF t
<1>5. t.position + t.length = end /\ t.length > 0
  BY <1>1, <1>4
<1>6. /\ Forward(end)
      /\ Len(tokens) + 1 \in 1 .. Len(tokens') /\ tokens'[Len(tokens) + 1] = t
      /\ DOMAIN tokens' = 1 .. Len(tokens')
  BY <1>1, <1>2, <1>3, <1>4, <1>5, Appended
<1>7. ASSUME NEW p \in i .. end - 1 PROVE Seen(p)'
  <2>1. p \in t.position .. t.position + t.length - 1
    <3>1. t.position + t.length - 1 = end - 1
      <4>1. t.position + t.length - 1 = i + (end - i) - 1
        BY <1>4
      <4>2. i + (end - i) - 1 = end - 1
        BY <1>1
      <4>3. QED
        BY <4>1, <4>2
    <3>2. t.position .. t.position + t.length - 1 = i .. end - 1
      BY <1>4, <3>1
    <3>3. QED
      BY <3>2
  <2>1a. p \in Span(t)
    BY <2>1 DEF Span
  <2>2. \E k \in DOMAIN tokens' : p \in Span(tokens'[k])
    BY <1>6, <2>1a
  <2>3. QED
    BY <2>2 DEF Seen, Covered, Span
<1>8. QED
  BY <1>6, <1>7, ForwardKeeps

LEMMA SkipKeeps ==
  ASSUME LexInv, NEW end \in i .. n, Skip(end),
         \A p \in i .. end - 1 : Char(p) \in Blanks \/ Commented(p)
  PROVE  LexInv'
<1>1. code' = code /\ tokens' = tokens /\ i' = end
  BY DEF Skip
<1>2. tokens \in Seq(Token) /\ Len(tokens) \in Nat
  BY DEF LexInv
<1>3. \A k \in Len(tokens) + 1 .. Len(tokens) : FALSE
  BY <1>2
<1>4. Grown
  BY <1>1, <1>2, <1>3 DEF Grown
<1>5. Forward(end)
  BY <1>1, <1>2, <1>3, <1>4 DEF Forward
<1>6. ASSUME NEW p \in i .. end - 1 PROVE Seen(p)'
  <2>1. (Char(p) \in Blanks)' <=> Char(p) \in Blanks
    BY <1>1, TextIsKept DEF Blanks
  <2>2. Commented(p)' <=> Commented(p)
    BY <1>1 DEF Commented, Covered, IsAt, Text, Char, Span, n
  <2>3. QED
    BY <2>1, <2>2 DEF Seen
<1>7. QED
  BY <1>5, <1>6, ForwardKeeps

LEMMA CommentIsOne ==
  ASSUME LexInv, i < n, IsAt(i, "//"), NEW p \in i .. EndOfLine(i) - 1
  PROVE  Commented(p)
<1> DEFINE q == EndOfLine(i)
<1>1. i \in 0 .. n /\ n \in Nat
  BY DEF LexInv
<1>2. q \in i .. n /\ \A r \in i .. q - 1 : Char(r) # "\n"
  BY <1>1, EndOfLineIs
<1>3. p \in i .. q - 1
  OBVIOUS
<1> HIDE DEF q
<1>4. i \in 0 .. p
  BY <1>1, <1>2, <1>3
<1>5. ASSUME NEW r \in i .. p PROVE Char(r) # "\n" /\ ~ Covered(r)
  <2>1. r \in i .. q - 1 /\ r \in Int /\ r >= i
    BY <1>1, <1>2, <1>3
  <2>2. QED
    BY <1>2, <2>1, NothingAhead
<1>6. QED
  BY <1>4, <1>5 DEF Commented

\* A turn of the loop.
LEMMA LexerKeeps ==
  ASSUME LexInv, LexerNext
  PROVE  LexInv'
<1>1. i \in 0 .. n /\ n \in Nat /\ i \in Nat
  BY DEF LexInv
<1>2. \/ EndOfFile
      \/ /\ i < n
         /\ \/ SkipBlank \/ checkComments \/ checkStringLiterals \/ checkNumbers
            \/ checkToken \/ checkIdentifierToken \/ LexerError
  BY Zenon DEF LexerNext
<1>3. CASE EndOfFile
  <2> DEFINE t == [type |-> "tkEof", position |-> n, length |-> 0]
  <2>1. i = n /\ code' = code /\ tokens' = Append(tokens, t) /\ i' = i
    BY <1>3 DEF EndOfFile
  <2>2. t \in Token
    BY <1>1 DEF Token, TokenTypes
  <2>3. t.position = i /\ t.position + t.length = i /\ t.type = "tkEof"
    BY <1>1, <2>1
  <2>4. i \in i .. n
    BY <1>1
  <2> HIDE DEF t
  <2>5. Forward(i)
    BY <2>1, <2>2, <2>3, <2>4, Appended
  <2>6. \A p \in i .. i - 1 : Seen(p)'
    <3>1. i .. i - 1 = {}
      BY <1>1
    <3>2. QED
      BY <3>1
  <2>7. QED
    BY <2>5, <2>6, ForwardKeeps
<1>4. ASSUME i < n PROVE i # n /\ i + 1 \in i + 1 .. n /\ i + 1 \in i .. n
  BY <1>1, <1>4
<1>5. CASE i < n /\ SkipBlank
  <2>1. Check(i) = "blank" /\ Skip(i + 1)
    BY <1>5 DEF SkipBlank, BlankEnd
  <2>2. Char(i) \in Blanks
    BY <2>1 DEF Check
  <2>3. \A p \in i .. (i + 1) - 1 : p = i
    BY <1>1
  <2>4. QED
    BY <1>4, <1>5, <2>1, <2>2, <2>3, SkipKeeps
<1>6. CASE i < n /\ checkComments
  <2>1. Check(i) = "comment" /\ Skip(EndOfLine(i))
    BY <1>6 DEF checkComments, CommentEnd
  <2>2. IsAt(i, "//")
    BY <2>1 DEF Check
  <2>3. EndOfLine(i) \in i .. n
    BY <1>1, EndOfLineIs
  <2>4. \A p \in i .. EndOfLine(i) - 1 : Commented(p)
    BY <1>6, <2>2, CommentIsOne
  <2>5. QED
    BY <2>1, <2>3, <2>4, SkipKeeps
<1>7. /\ "tkStringLiteral" \in TokenTypes /\ "tkIntLiteral" \in TokenTypes
      /\ "tkRealLiteral" \in TokenTypes /\ "tkIdent" \in TokenTypes
      /\ \A k \in DOMAIN typeChars : typeChars[k][2] \in TokenTypes
  BY Zenon DEF TokenTypes
<1>8. CASE i < n /\ checkStringLiterals
  <2>1. Check(i) = "string" /\ Push("tkStringLiteral", StringEnd(i + 1) + 1)
    BY <1>8 DEF checkStringLiterals
  <2>2. StringEnd(i + 1) + 1 \in i + 1 .. n
    BY <1>1, <1>4, <1>8, <2>1, EndsAre
  <2>3. QED
    BY <1>7, <2>1, <2>2, PushKeeps
<1>9. CASE i < n /\ checkNumbers
  <2>1. Check(i) = "number" /\ \E type \in {"tkIntLiteral", "tkRealLiteral"} : Push(type, NumberEnd(i))
    BY Zenon, <1>9 DEF checkNumbers
  <2>2. NumberEnd(i) \in i + 1 .. n
    BY <1>1, <1>4, <1>9, <2>1, EndsAre
  <2>3. QED
    BY <1>7, <2>1, <2>2, PushKeeps
<1>10. CASE i < n /\ checkToken
  <2>1. Check(i) = "token" /\ Push(typeChars[FirstMatch(i)][2], i + Len(typeChars[FirstMatch(i)][1]))
    BY Zenon, <1>10 DEF checkToken
  <2>2. i + Len(typeChars[FirstMatch(i)][1]) \in i + 1 .. n
    BY <1>1, <1>4, <1>10, <2>1, EndsAre
  <2>3. FirstMatch(i) \in DOMAIN typeChars
    BY <1>1, <2>1, MatchIs DEF Check
  <2>4. QED
    BY <1>7, <2>1, <2>2, <2>3, PushKeeps
<1>11. CASE i < n /\ checkIdentifierToken
  <2>1. Check(i) = "identifier" /\ Push("tkIdent", EndOfRun(i, Wordly))
    BY <1>11 DEF checkIdentifierToken
  <2>2. EndOfRun(i, Wordly) \in i + 1 .. n
    BY <1>1, <1>4, <1>11, <2>1, EndsAre
  <2>3. QED
    BY <1>7, <2>1, <2>2, PushKeeps
<1>12. CASE i < n /\ LexerError
  <2>1. code' = code /\ i' = i /\ tokens' = tokens
    BY <1>12 DEF LexerError
  <2>2. QED
    <3>1. EveryCharacterOnce' <=> EveryCharacterOnce
      BY <2>1 DEF n, EveryCharacterOnce, AfterShebang, IsAt, Text, Char, Span
    <3>2. n' = n
      BY <2>1 DEF n
    <3>3. QED
      BY <2>1, <3>1, <3>2 DEF LexInv
<1>13. QED
  BY <1>2, <1>3, <1>5, <1>6, <1>8, <1>9, <1>10, <1>11, <1>12

-----------------------------------------------------------------------------
(* What the lexer makes of a text is the same whenever it reads it.        *)

\* The lexer of any text.
Of(text) == INSTANCE Lexer
  WITH code <- text, i <- 0, tokens <- <<>>, diagnostics <- <<>>, lexing <- "on"

LEMMA SameTables ==
  ASSUME NEW text
  PROVE  /\ Of(text)!typeChars = typeChars /\ Of(text)!AlphabeticTypes = AlphabeticTypes
         /\ Of(text)!Latin = Latin /\ Of(text)!Digits = Digits /\ Of(text)!Wordly = Wordly
         /\ Of(text)!Blanks = Blanks /\ Of(text)!Escapes = Escapes
<1>1. Of(text)!typeChars = typeChars
  BY Zenon DEF typeChars, Of!typeChars
<1>2. ASSUME NEW t PROVE Of(text)!isAlphabeticToken(t) = isAlphabeticToken(t)
  BY SMT DEF isAlphabeticToken, Of!isAlphabeticToken, Types, Of!Types, alphabeticTokens, Of!alphabeticTokens
<1>3. Of(text)!AlphabeticTypes = AlphabeticTypes
  BY <1>1, <1>2, Zenon DEF AlphabeticTypes, Of!AlphabeticTypes
<1>4. /\ Of(text)!Latin = Latin /\ Of(text)!Digits = Digits
      /\ Of(text)!Blanks = Blanks /\ Of(text)!Escapes = Escapes
  BY Zenon DEF Latin, Of!Latin, Digits, Of!Digits, Blanks, Of!Blanks, Escapes, Of!Escapes
<1>5. Of(text)!Wordly = Wordly
  BY <1>4, Zenon DEF Wordly, Of!Wordly
<1>6. QED
  BY <1>1, <1>3, <1>4, <1>5

LEMMA SameText ==
  /\ Of(code)!n = n
  /\ \A p : Of(code)!Char(p) = Char(p)
  /\ \A p, t : Of(code)!IsAt(p, t) <=> IsAt(p, t)
<1>1. Of(code)!n = n
  BY Zenon DEF n, Of!n
<1>2. \A p : Of(code)!Char(p) = Char(p)
  BY Zenon DEF Char, Of!Char
<1>3. \A p, q : Of(code)!Text(p, q) = Text(p, q)
  BY Zenon DEF Text, Of!Text
<1>4. \A p, t : Of(code)!IsAt(p, t) <=> IsAt(p, t)
  BY <1>1, <1>3, Zenon DEF IsAt, Of!IsAt
<1>5. QED
  BY <1>1, <1>2, <1>4

LEMMA SameScans ==
  ASSUME NEW p
  PROVE  /\ \A S : Of(code)!EndOfRun(p, S) = EndOfRun(p, S)
         /\ Of(code)!EndOfLine(p) = EndOfLine(p)
         /\ Of(code)!StringEnd(p) = StringEnd(p)
         /\ (Of(code)!IsString(p) <=> IsString(p))
         /\ Of(code)!NumberEnd(p) = NumberEnd(p)
<1>1. Of(code)!n = n /\ \A q : Of(code)!Char(q) = Char(q)
  BY SameText
<1>2. \A q, S : Of(code)!EndOfRun(q, S) = EndOfRun(q, S)
  BY <1>1, Zenon DEF EndOfRun, Of!EndOfRun
<1>3. Of(code)!EndOfLine(p) = EndOfLine(p)
  BY <1>1, Zenon DEF EndOfLine, Of!EndOfLine
<1>5. ASSUME NEW q PROVE Of(code)!StringEnd(q) = StringEnd(q)
  BY SMT DEF StringEnd, Of!StringEnd, Escaped, Of!Escaped, Escapes, Of!Escapes, Char, Of!Char, n, Of!n
<1>6. (Of(code)!IsString(p) <=> IsString(p))
  BY <1>1, <1>5, Zenon DEF IsString, Of!IsString
<1>7. Of(code)!NumberEnd(p) = NumberEnd(p)
  BY <1>1, <1>2, SameTables, Zenon DEF NumberEnd, Of!NumberEnd
<1>8. QED
  BY <1>2, <1>3, <1>5, <1>6, <1>7

LEMMA SameChecks ==
  ASSUME NEW p
  PROVE  Of(code)!Check(p) = Check(p) /\ Of(code)!FirstMatch(p) = FirstMatch(p)
<1>1. /\ Of(code)!n = n /\ \A q : Of(code)!Char(q) = Char(q)
      /\ \A q, t : Of(code)!IsAt(q, t) <=> IsAt(q, t)
  BY SameText
<1>2. /\ Of(code)!typeChars = typeChars /\ Of(code)!AlphabeticTypes = AlphabeticTypes
      /\ Of(code)!Latin = Latin /\ Of(code)!Digits = Digits /\ Of(code)!Wordly = Wordly
      /\ Of(code)!Blanks = Blanks
  BY SameTables
<1>3. ASSUME NEW q PROVE Of(code)!GoesOn(q) <=> GoesOn(q)
  BY <1>1, <1>2, SMT DEF GoesOn, Of!GoesOn
<1>4. Of(code)!Matches(p) = Matches(p)
  BY <1>1, <1>2, <1>3, Zenon DEF Matches, Of!Matches
<1>5. Of(code)!FirstMatch(p) = FirstMatch(p)
  BY <1>4, Zenon DEF FirstMatch, Of!FirstMatch
<1>6. (Of(code)!IsString(p) <=> IsString(p))
  BY SameScans
<1>7. Of(code)!Check(p) = Check(p)
  <2>1. Of(code)!Char(p) = Char(p) /\ (Of(code)!IsAt(p, "//") <=> IsAt(p, "//"))
    BY <1>1
  <2>2. Check(p) =
          IF Of(code)!Char(p) \in Of(code)!Blanks THEN "blank"
          ELSE IF Of(code)!IsAt(p, "//") THEN "comment"
          ELSE IF Of(code)!IsString(p) THEN "string"
          ELSE IF Of(code)!Char(p) \in Of(code)!Digits THEN "number"
          ELSE IF Of(code)!Matches(p) # {} THEN "token"
          ELSE IF Of(code)!Char(p) \in Of(code)!Latin \cup {"_"} THEN "identifier"
          ELSE "none"
    BY <1>2, <1>4, <1>6, <2>1 DEF Check
  <2>3. QED
    BY <2>2, Zenon DEF Of!Check
<1>8. QED
  BY <1>5, <1>7

\* Where the check that succeeds at p ends.
Behind(text, p) ==
  CASE Of(text)!Check(p) = "blank"   -> p + 1
    [] Of(text)!Check(p) = "comment" -> Of(text)!EndOfLine(p)
    [] Of(text)!Check(p) = "string"  -> Of(text)!StringEnd(p + 1) + 1
    [] Of(text)!Check(p) = "number"  -> Of(text)!NumberEnd(p)
    [] Of(text)!Check(p) = "token"   -> p + Len(Of(text)!typeChars[Of(text)!FirstMatch(p)][1])
    [] OTHER -> Of(text)!EndOfRun(p, Of(text)!Wordly)
Goes(text, p, q) == Of(text)!Check(p) # "none" /\ q = Behind(text, p)

\* The positions from which the lexer comes to the end of the text: those in
\* every set that has the end and, with a position, all that go to it.
HasTheWay(text, S) ==
  /\ Len(text) \in S
  /\ \A p \in 0 .. Len(text) : \A q \in S : p # Len(text) /\ Goes(text, p, q) => p \in S
ComesThrough(text, p) == \A S \in SUBSET (0 .. Len(text)) : HasTheWay(text, S) => p \in S
Accepts(text) == ComesThrough(text, AfterShebang(text))

LEMMA EndComesThrough ==
  ASSUME NEW text
  PROVE  ComesThrough(text, Len(text))
  BY DEF ComesThrough, HasTheWay

\* Without p, the positions that come through have the way still, if p goes to
\* none of them.
LEMMA DeadEnd ==
  ASSUME NEW text, Len(text) \in Nat, NEW p \in 0 .. Len(text), p # Len(text),
         \A q \in 0 .. Len(text) : Goes(text, p, q) => ~ ComesThrough(text, q)
  PROVE  ~ ComesThrough(text, p)
<1> DEFINE all == 0 .. Len(text)
           S == {q \in all : q # p /\ ComesThrough(text, q)}
<1>1. Len(text) \in S
  BY EndComesThrough
<1>2. ASSUME NEW r \in all, NEW q \in S, r # Len(text), Goes(text, r, q) PROVE r \in S
  <2>1. q \in all /\ ComesThrough(text, q)
    OBVIOUS
  <2>2. r # p
    BY <1>2, <2>1
  <2>3. ASSUME NEW T \in SUBSET all, HasTheWay(text, T) PROVE r \in T
    <3>1. q \in T
      BY <2>1, <2>3 DEF ComesThrough
    <3>2. QED
      BY <1>2, <2>3, <3>1 DEF HasTheWay
  <2>4. ComesThrough(text, r)
    BY <2>3 DEF ComesThrough
  <2>5. QED
    BY <2>2, <2>4
<1>3. S \in SUBSET all /\ p \notin S
  OBVIOUS
<1> HIDE DEF S
<1>4. HasTheWay(text, S)
  BY <1>1, <1>2 DEF HasTheWay
<1>5. QED
  BY <1>3, <1>4 DEF ComesThrough

LEMMA WayGoesOn ==
  ASSUME NEW text, Len(text) \in Nat, NEW p \in 0 .. Len(text), p # Len(text),
         NEW q \in 0 .. Len(text), Goes(text, p, q)
  PROVE  ComesThrough(text, p) <=> ComesThrough(text, q)
<1>1. ASSUME ComesThrough(text, q) PROVE ComesThrough(text, p)
  <2>1. ASSUME NEW T \in SUBSET (0 .. Len(text)), HasTheWay(text, T) PROVE p \in T
    <3>1. q \in T
      BY <1>1, <2>1 DEF ComesThrough
    <3>2. QED
      BY <2>1, <3>1 DEF HasTheWay
  <2>2. QED
    BY <2>1 DEF ComesThrough
<1>2. ASSUME ~ ComesThrough(text, q) PROVE ~ ComesThrough(text, p)
  <2>1. \A r \in 0 .. Len(text) : Goes(text, p, r) => r = q
    BY DEF Goes
  <2>2. QED
    BY <1>2, <2>1, DeadEnd
<1>3. QED
  BY <1>1, <1>2

\* A turn of the loop goes where it goes in any reading of the text.
LEMMA TurnGoes ==
  ASSUME LexInv, LexerNext, ~ EndOfFile
  PROVE  /\ i < n /\ code' = code
         /\ ~ LexerError => Goes(code, i, i') /\ lexing' = lexing /\ diagnostics' = diagnostics
         /\ LexerError => lexing' = "failed" /\ \A q : ~ Goes(code, i, q)
<1>1. /\ i < n
      /\ \/ SkipBlank \/ checkComments \/ checkStringLiterals \/ checkNumbers
         \/ checkToken \/ checkIdentifierToken \/ LexerError
  BY Zenon DEF LexerNext
<1>2. Of(code)!Check(i) = Check(i) /\ Of(code)!FirstMatch(i) = FirstMatch(i)
  BY SameChecks
<1>3. /\ Of(code)!EndOfRun(i, Wordly) = EndOfRun(i, Wordly)
      /\ Of(code)!EndOfLine(i) = EndOfLine(i)
      /\ Of(code)!NumberEnd(i) = NumberEnd(i)
      /\ Of(code)!StringEnd(i + 1) = StringEnd(i + 1)
      /\ Of(code)!typeChars = typeChars /\ Of(code)!Wordly = Wordly
  BY SameScans, SameTables
<1>4. CASE SkipBlank
  <2>1. Check(i) = "blank" /\ i' = i + 1 /\ UNCHANGED <<code, lexing, diagnostics>>
    BY <1>4 DEF SkipBlank, Skip, BlankEnd
  <2>2. Goes(code, i, i')
    BY <1>2, <1>3, <2>1 DEF Goes, Behind
  <2>3. ~ LexerError
    BY <2>1 DEF LexerError
  <2>4. QED
    BY <1>1, <2>1, <2>2, <2>3
<1>5. CASE checkComments
  <2>1. Check(i) = "comment" /\ i' = EndOfLine(i) /\ UNCHANGED <<code, lexing, diagnostics>>
    BY <1>5 DEF checkComments, Skip, CommentEnd
  <2>2. Goes(code, i, i')
    BY <1>2, <1>3, <2>1 DEF Goes, Behind
  <2>3. ~ LexerError
    BY <2>1 DEF LexerError
  <2>4. QED
    BY <1>1, <2>1, <2>2, <2>3
<1>6. CASE checkStringLiterals
  <2>1. Check(i) = "string" /\ i' = StringEnd(i + 1) + 1 /\ UNCHANGED <<code, lexing, diagnostics>>
    BY <1>6 DEF checkStringLiterals, Push
  <2>2. Goes(code, i, i')
    BY <1>2, <1>3, <2>1 DEF Goes, Behind
  <2>3. ~ LexerError
    BY <2>1 DEF LexerError
  <2>4. QED
    BY <1>1, <2>1, <2>2, <2>3
<1>7. CASE checkNumbers
  <2>1. Check(i) = "number" /\ i' = NumberEnd(i) /\ UNCHANGED <<code, lexing, diagnostics>>
    BY <1>7 DEF checkNumbers, Push
  <2>2. Goes(code, i, i')
    BY <1>2, <1>3, <2>1 DEF Goes, Behind
  <2>3. ~ LexerError
    BY <2>1 DEF LexerError
  <2>4. QED
    BY <1>1, <2>1, <2>2, <2>3
<1>8. CASE checkToken
  <2>1. /\ Check(i) = "token" /\ i' = i + Len(typeChars[FirstMatch(i)][1])
        /\ UNCHANGED <<code, lexing, diagnostics>>
    BY Zenon, <1>8 DEF checkToken, Push
  <2>2. Goes(code, i, i')
    BY <1>2, <1>3, <2>1 DEF Goes, Behind
  <2>3. ~ LexerError
    BY <2>1 DEF LexerError
  <2>4. QED
    BY <1>1, <2>1, <2>2, <2>3
<1>9. CASE checkIdentifierToken
  <2>1. Check(i) = "identifier" /\ i' = EndOfRun(i, Wordly) /\ UNCHANGED <<code, lexing, diagnostics>>
    BY <1>9 DEF checkIdentifierToken, Push
  <2>2. Goes(code, i, i')
    BY <1>2, <1>3, <2>1 DEF Goes, Behind
  <2>3. ~ LexerError
    BY <2>1 DEF LexerError
  <2>4. QED
    BY <1>1, <2>1, <2>2, <2>3
<1>10. CASE LexerError
  <2>1. Check(i) = "none" /\ lexing' = "failed" /\ code' = code
    BY <1>10 DEF LexerError
  <2>2. \A q : ~ Goes(code, i, q)
    BY <1>2, <2>1 DEF Goes
  <2>3. QED
    BY <1>1, <1>10, <2>1, <2>2
<1>11. QED
  BY <1>1, <1>4, <1>5, <1>6, <1>7, <1>8, <1>9, <1>10

-----------------------------------------------------------------------------
(* The invariant.                                                          *)

\* The text is accepted exactly if its end is reached.
Reading ==
  CASE lexing = "on"   -> Accepts(code) <=> ComesThrough(code, i)
    [] lexing = "done" -> Accepts(code)
    [] OTHER           -> ~ Accepts(code)

\* What becomes of a file under --lexer.
FateOf(text, flags) ==
  IF text = Missing \/ ~ Accepts(text) THEN [ok |-> FALSE, did |-> {}]
  ELSE [ok |-> TRUE, did |-> IF "Check" \in flags THEN {} ELSE {"tokens"}]

EarlyEnds == {"Lexer", "Syntaxer", "Semantics", "Check"}
Fate(verdict, text, flags) ==
  /\ text = Missing => ~ verdict.ok /\ verdict.did = {}
  /\ "ran" \in verdict.did => {"parsed", "analyzed"} \subseteq verdict.did /\ flags \cap EarlyEnds = {}
  /\ "waited" \in verdict.did => "warned" \in verdict.did
  /\ "Lexer" \in flags => verdict = FateOf(text, flags)

\* What the user may see of a file.
Marks == {"tokens", "parsed", "analyzed", "warned", "waited", "explored", "ran", "traceback"}
Verdict == [ok : BOOLEAN, did : SUBSET Marks]
InFile == {"lexer", "syntax", "parsed", "semantics", "analyzed", "run"}
Stages == {"args", "files", "exit", "dead"} \cup InFile

WorldInv ==
  /\ argv \in Seq(DOMAIN disk) /\ arg \in Nat \ {0} /\ files \in Seq(DOMAIN disk)
  /\ \A name \in DOMAIN disk : disk[name] # Missing => Len(disk[name]) \in Nat

\* Every file up to the current one has its verdict.
SomeFailed == \E k \in 1 .. Len(verdicts) : ~ verdicts[k].ok
ProgressInv ==
  /\ stage \in Stages /\ verdicts \in Seq(Verdict) /\ failed \in BOOLEAN
  /\ Len(verdicts) <= Len(files)
  /\ stage = "args" => verdicts = <<>>
  /\ stage \in InFile \cup {"dead"} =>
       /\ Len(verdicts) < Len(files)
       /\ disk[Current] # Missing /\ code = disk[Current]
  /\ stage \notin {"exit", "dead"} => (failed <=> SomeFailed)
  /\ stage = "exit" /\ arg > Len(argv) => (failed <=> SomeFailed)
  /\ stage = "dead" => failed
  /\ stage = "exit" /\ arg > Len(argv) => Len(verdicts) = Len(files)
FatesInv == \A k \in 1 .. Len(verdicts) : Fate(verdicts[k], disk[files[k]], opts.flags)

\* Nothing has been executed that was not asked for or was not found right.
Permitted(seen) ==
  "ran" \in seen => {"parsed", "analyzed"} \subseteq seen /\ opts.flags \cap EarlyEnds = {}

\* What the user has seen, what has been logged, and which flags are not set.
Seeing ==
  /\ did \in SUBSET Marks
  /\ stage \in {"args", "files", "lexer", "syntax"} => did = {}
  /\ stage \in {"parsed", "semantics"} => did = {"parsed"}
  /\ stage \in {"analyzed", "run"} =>
       did \in {{"parsed", "analyzed"}, {"parsed", "analyzed", "warned"}}
  /\ (stage = "lexer" /\ lexing # "failed") \/ stage \in {"syntax", "parsed", "semantics"} => ~ logged
  /\ stage = "analyzed" /\ logged => "warned" \in did
  /\ stage \in {"syntax", "parsed", "semantics", "analyzed"} => ~ Flag("Lexer")
  /\ stage \in {"semantics", "analyzed"} => ~ Flag("Syntaxer")
  /\ stage = "run" => opts.flags \cap EarlyEnds = {}
  /\ stage = "lexer" => lexing \in {"on", "done", "failed"} /\ Reading
  /\ stage = "dead" => ~ Flag("Lexer") /\ Permitted(did)

MainInv == LexInv /\ WorldInv /\ ProgressInv /\ FatesInv /\ Seeing

LEMMA ReadingIsKept ==
  ASSUME LexInv, LexerNext, Reading
  PROVE  Reading' /\ lexing' \in {"on", "done", "failed"}
<1>1. Len(code) \in Nat /\ i \in 0 .. Len(code) /\ lexing = "on"
  BY DEF LexInv, n, LexerNext
<1>2. Accepts(code) <=> ComesThrough(code, i)
  BY <1>1 DEF Reading
<1>3. CASE EndOfFile
  <2>1. i = Len(code) /\ lexing' = "done" /\ code' = code
    BY <1>3 DEF EndOfFile, n
  <2>2. Accepts(code)
    BY <1>2, <2>1, EndComesThrough
  <2>3. QED
    BY <2>1, <2>2 DEF Reading
<1>4. CASE ~ EndOfFile
  <2>1. /\ i < n /\ code' = code
        /\ ~ LexerError => Goes(code, i, i') /\ lexing' = lexing /\ diagnostics' = diagnostics
        /\ LexerError => lexing' = "failed" /\ \A q : ~ Goes(code, i, q)
    BY <1>4, TurnGoes
  <2>2. i # Len(code)
    BY <1>1, <2>1 DEF n
  <2>3. CASE LexerError
    <3>1. ~ ComesThrough(code, i)
      BY <1>1, <2>1, <2>2, <2>3, DeadEnd
    <3>2. lexing' = "failed" /\ code' = code
      BY <2>1, <2>3
    <3>3. QED
      BY <1>2, <3>1, <3>2 DEF Reading
  <2>4. CASE ~ LexerError
    <3>1. i' \in 0 .. Len(code)
      BY <2>1, LexerKeeps DEF LexInv, n
    <3>2. ComesThrough(code, i) <=> ComesThrough(code, i')
      BY <1>1, <2>1, <2>2, <2>4, <3>1, WayGoesOn
    <3>3. lexing' = "on" /\ code' = code
      BY <1>1, <2>1, <2>4
    <3>4. QED
      BY <1>2, <3>2, <3>3 DEF Reading
  <2>5. QED
    BY <2>3, <2>4
<1>5. QED
  BY <1>3, <1>4

LEMMA StartIsRight ==
  ASSUME NEW text, Len(text) \in Nat, StartLexing(text, TRUE)
  PROVE  LexInv' /\ Reading' /\ lexing' = "on" /\ code' = text
<1>1. code' = text /\ i' = AfterShebang(text) /\ tokens' = <<>> /\ lexing' = "on"
  BY DEF StartLexing
<1>2. AfterShebang(text) \in 0 .. Len(text)
  BY ShebangIs
<1>3. n' \in Nat /\ i' \in 0 .. n'
  BY <1>1, <1>2 DEF n
<1>4. (InOrderSoFar /\ \A p \in AfterShebang(code) .. i - 1 : Seen(p))'
  <2>1. InOrderSoFar'
    BY <1>1 DEF InOrderSoFar
  <2>2. \A p \in AfterShebang(text) .. AfterShebang(text) - 1 : FALSE
    BY <1>2
  <2>3. QED
    BY <1>1, <2>1, <2>2
<1>5. EveryCharacterOnce'
  BY <1>4, Parts, PTL
<1>6. LexInv'
  BY <1>1, <1>3, <1>5 DEF LexInv
<1>7. Reading'
  BY <1>1 DEF Reading, Accepts
<1>8. QED
  BY <1>1, <1>6, <1>7

LEMMA InitIs ==
  ASSUME Init
  PROVE  MainInv
<1>1. code = "" /\ i = 0 /\ tokens = <<>>
  BY Zenon DEF Init
<1>2. /\ arg = 1 /\ files = <<>> /\ stage = "args" /\ verdicts = <<>> /\ failed = FALSE
      /\ logged = FALSE /\ did = {}
  BY Zenon DEF Init
<1>3. LexInv
  <2>0. i = 0 /\ tokens = <<>>
    BY <1>1
  <2>1. n = 0
    BY <1>1, StringAssumption DEF n
  <2>2. AfterShebang(code) \in 0 .. 0
    BY <2>1, ShebangIs DEF n
  <2>3. InOrderSoFar
    BY <2>0 DEF InOrderSoFar
  <2>4. \A p \in AfterShebang(code) .. i - 1 : FALSE
    <3>1. AfterShebang(code) = 0
      BY <2>2
    <3>2. AfterShebang(code) .. i - 1 = 0 .. -1
      BY <2>0, <3>1
    <3>3. QED
      BY <3>2
  <2>5. EveryCharacterOnce
    BY <2>3, <2>4, Parts
  <2>6. QED
    BY <2>0, <2>1, <2>5 DEF LexInv
<1>4. WorldInv
  <2>1. PICK world \in Worlds : argv = world.argv /\ disk = world.disk
    BY Zenon DEF Init
  <2>2. argv \in Seq(DOMAIN disk)
    BY <2>1, MainAssumption
  <2>3. \A name \in DOMAIN disk : disk[name] # Missing => Len(disk[name]) \in Nat
    BY <2>1, StringAssumption, Zenon
  <2>4. QED
    BY <1>2, <2>2, <2>3 DEF WorldInv
<1>5. ProgressInv
  <2>1. stage \in Stages /\ stage \notin InFile /\ stage \notin {"exit", "dead"}
    BY <1>2 DEF Stages, InFile
  <2>2. ~ SomeFailed /\ verdicts \in Seq(Verdict) /\ Len(verdicts) <= Len(files)
    BY <1>2 DEF SomeFailed
  <2>3. QED
    BY <1>2, <2>1, <2>2 DEF ProgressInv
<1>6. FatesInv
  BY <1>2 DEF FatesInv
<1>7. Seeing
  BY <1>2 DEF Seeing
<1>8. QED
  BY <1>3, <1>4, <1>5, <1>6, <1>7 DEF MainInv

LEMMA LexerAtRest ==
  ASSUME LexInv, UNCHANGED lexVars
  PROVE  LexInv' /\ (Reading' <=> Reading)
<1>1. code' = code /\ i' = i /\ tokens' = tokens /\ lexing' = lexing
  BY DEF lexVars
<1>2. EveryCharacterOnce' <=> EveryCharacterOnce
  BY <1>1 DEF n, EveryCharacterOnce, AfterShebang, IsAt, Text, Char, Span
<1>3. n' = n
  BY <1>1 DEF n
<1>4. QED
  BY <1>1, <1>2, <1>3 DEF LexInv, Reading

\* The arguments are read before there is any verdict.
LEMMA ArgumentsKeep ==
  ASSUME MainInv, stage = "args", arg' \in Nat \ {0}, files' \in Seq(DOMAIN disk),
         UNCHANGED <<lexVars, argv, disk, logged, did, verdicts>>,
         \/ stage' = "args" /\ failed' = failed
         \/ stage' = "files" /\ failed' = failed
         \/ stage' = "exit" /\ failed' = TRUE /\ ~(arg' > Len(argv))
  PROVE  MainInv'
<1>1. /\ argv' = argv /\ disk' = disk /\ did' = did
      /\ verdicts' = verdicts /\ verdicts = <<>> /\ UNCHANGED lexVars
  BY DEF MainInv, ProgressInv
<1>2. LexInv'
  BY <1>1, LexerAtRest DEF MainInv
<1>3. WorldInv'
  BY <1>1 DEF MainInv, WorldInv
<1>4. ProgressInv'
  <2>1. failed <=> SomeFailed
    BY DEF MainInv, ProgressInv
  <2>2. ~ SomeFailed /\ ~ SomeFailed'
    BY <1>1 DEF SomeFailed
  <2>3. stage' \in Stages /\ stage' \notin InFile /\ stage' # "dead" /\ failed' \in BOOLEAN
    BY DEF MainInv, ProgressInv, Stages, InFile
  <2>4. Len(files') \in Nat
    OBVIOUS
  <2>5. QED
    BY <1>1, <2>1, <2>2, <2>3, <2>4 DEF MainInv, ProgressInv
<1>5. FatesInv'
  BY <1>1 DEF FatesInv
<1>6. Seeing'
  BY <1>1 DEF MainInv, Seeing
<1>7. QED
  BY <1>2, <1>3, <1>4, <1>5, <1>6 DEF MainInv

LEMMA ArgsStep ==
  ASSUME MainInv, InterpretArgs \/ ArgsRead
  PROVE  MainInv'
<1>1. argv \in Seq(DOMAIN disk) /\ arg \in Nat \ {0} /\ files \in Seq(DOMAIN disk)
  BY DEF MainInv, WorldInv
<1>2. arg + 1 \in Nat \ {0} /\ arg + 2 \in Nat \ {0}
  BY <1>1
<1>3. ASSUME NEW newFiles \in Seq(DOMAIN disk), NEW newOpts, NEW newArg \in Nat \ {0},
             stage = "args", Read(newFiles, newOpts, newArg)
      PROVE  MainInv'
  <2>1. /\ files' = newFiles /\ arg' = newArg
        /\ UNCHANGED <<lexVars, argv, disk, stage, logged, did, verdicts, failed>>
    BY <1>3 DEF Read
  <2>2. QED
    BY <1>3, <2>1, ArgumentsKeep
<1>4. CASE ArgsRead
  <2>1. /\ stage = "args" /\ stage' = "files"
        /\ UNCHANGED <<lexVars, argv, disk, arg, files, logged, did, verdicts, failed>>
    BY <1>4 DEF ArgsRead, argVars
  <2>2. QED
    BY <1>1, <2>1, ArgumentsKeep
<1>5. CASE InterpretArgs
  <2>1. /\ stage = "args" /\ arg <= Len(argv)
        /\ FileName \/ EndOfOptions \/ NumberOption \/ LongFlag \/ ShortFlagsOf
    BY Zenon, <1>5 DEF InterpretArgs
  <2>2. CASE Refuse
    <3>1. /\ stage' = "exit" /\ failed' = TRUE
          /\ UNCHANGED <<lexVars, argv, disk, arg, files, logged, did, verdicts>>
      BY <2>2 DEF Refuse, argVars
    <3>2. ~(arg' > Len(argv))
      BY <1>1, <2>1, <3>1
    <3>3. QED
      BY <1>1, <2>1, <3>1, <3>2, ArgumentsKeep
  <2>3. ASSUME NEW flags, ReadFlags(flags) PROVE MainInv'
    BY <1>1, <1>2, <1>3, <2>1, <2>3 DEF ReadFlags
  <2>4. CASE FileName
    <3>1. argv[arg] \in DOMAIN disk
      BY <1>1, <2>1
    <3>2. Append(files, argv[arg]) \in Seq(DOMAIN disk)
      BY <1>1, <3>1
    <3>3. Read(Append(files, argv[arg]), opts, arg + 1)
      BY <2>4 DEF FileName
    <3>4. QED
      BY <1>2, <1>3, <2>1, <3>2, <3>3
  <2>5. CASE EndOfOptions
    <3>1. Read(files, opts, arg + 1)
      BY <2>5 DEF EndOfOptions
    <3>2. QED
      BY <1>1, <1>2, <1>3, <2>1, <3>1
  <2>6. CASE NumberOption
    <3>1. Refuse \/ \E newOpts : Read(files, newOpts, arg + 2)
      BY Zenon, <2>6 DEF NumberOption, AfterNumber
    <3>2. QED
      BY <1>1, <1>2, <1>3, <2>1, <2>2, <3>1
  <2>7. CASE LongFlag
    <3>1. Refuse \/ \E flags : ReadFlags(flags)
      BY Zenon, <2>7 DEF LongFlag
    <3>2. QED
      BY <2>2, <2>3, <3>1
  <2>8. CASE ShortFlagsOf
    <3>1. Refuse \/ \E flags : ReadFlags(flags)
      BY Zenon, <2>8 DEF ShortFlagsOf
    <3>2. QED
      BY <2>2, <2>3, <3>1
  <2>9. QED
    BY <2>1, <2>4, <2>5, <2>6, <2>7, <2>8
<1>6. QED
  BY <1>4, <1>5

\* ProcessFile returns: its verdict joins those of the files before.
LEMMA ReturnKeeps ==
  ASSUME MainInv, stage \in InFile \cup {"files"}, Len(verdicts) < Len(files),
         NEW ok \in BOOLEAN, NEW doing \in SUBSET Marks, Return(ok, doing),
         Fate([ok |-> ok, did |-> did \cup doing], disk[Current], opts.flags)
  PROVE  MainInv'
<1> DEFINE v == [ok |-> ok, did |-> did \cup doing]
<1>1. /\ verdicts' = Append(verdicts, v) /\ (failed' <=> failed \/ ~ ok) /\ failed' \in BOOLEAN
      /\ stage' = "files" /\ did' = {}
      /\ UNCHANGED <<lexVars, argv, disk, arg, opts, files, logged>>
  <2>1. /\ verdicts' = Append(verdicts, v) /\ failed' = (failed \/ ~ ok)
        /\ stage' = "files" /\ did' = {}
        /\ UNCHANGED <<lexVars, argv, disk, arg, opts, files, logged>>
    BY Zenon DEF Return, AfterFile, argVars
  <2>2. QED
    BY <2>1
<1>2. v \in Verdict /\ v.ok = ok /\ Fate(v, disk[Current], opts.flags)
  BY DEF MainInv, Seeing, Verdict
<1> HIDE DEF v
<1>3. /\ verdicts \in Seq(Verdict) /\ Len(verdicts) \in Nat /\ Len(files) \in Nat
      /\ stage \notin {"exit", "dead"} /\ (failed <=> SomeFailed)
  BY DEF MainInv, ProgressInv, WorldInv, InFile
<1>4. /\ verdicts' \in Seq(Verdict) /\ Len(verdicts') = Len(verdicts) + 1
      /\ \A k \in 1 .. Len(verdicts) : verdicts'[k] = verdicts[k]
      /\ verdicts'[Len(verdicts) + 1] = v
  BY <1>1, <1>2, <1>3
<1>5. \A k \in 1 .. Len(verdicts') : k \in 1 .. Len(verdicts) \/ k = Len(verdicts) + 1
  BY <1>3, <1>4
<1>6. /\ \A k \in 1 .. Len(verdicts) : k \in 1 .. Len(verdicts')
      /\ Len(verdicts) + 1 \in 1 .. Len(verdicts') /\ Len(verdicts') <= Len(files)
  BY <1>3, <1>4
<1>7. LexInv'
  BY <1>1, LexerAtRest DEF MainInv
<1>8. WorldInv'
  BY <1>1 DEF MainInv, WorldInv
<1>9. SomeFailed' <=> SomeFailed \/ ~ ok
  BY <1>2, <1>4, <1>5, <1>6 DEF SomeFailed
<1>10. ProgressInv'
  <2>1. stage' \in Stages /\ stage' \notin InFile /\ stage' \notin {"args", "exit", "dead"}
    BY <1>1 DEF Stages, InFile
  <2>2. failed' <=> SomeFailed'
    BY <1>1, <1>3, <1>9
  <2>3. QED
    BY <1>1, <1>4, <1>6, <2>1, <2>2 DEF ProgressInv
<1>11. FatesInv'
  <2>1. ASSUME NEW k \in 1 .. Len(verdicts')
        PROVE  Fate(verdicts'[k], disk[files[k]], opts.flags)
    <3>1. CASE k \in 1 .. Len(verdicts)
      BY <1>4, <3>1 DEF MainInv, FatesInv
    <3>2. CASE k = Len(verdicts) + 1
      BY <1>2, <1>4, <3>2 DEF Current
    <3>3. QED
      BY <1>5, <3>1, <3>2
  <2>2. QED
    BY <1>1, <2>1 DEF FatesInv
<1>12. Seeing'
  BY <1>1 DEF Seeing
<1>13. QED
  BY <1>7, <1>8, <1>10, <1>11, <1>12 DEF MainInv

\* The next stage of a file, or its first.
LEMMA InsideKeeps ==
  ASSUME MainInv, stage \in InFile \cup {"files"}, stage' \in InFile, Len(verdicts) < Len(files),
         disk[Current] # Missing, code' = disk[Current], UNCHANGED <<argVars, verdicts, failed>>
  PROVE  WorldInv' /\ ProgressInv' /\ FatesInv'
<1>1. /\ argv' = argv /\ disk' = disk /\ arg' = arg /\ opts' = opts /\ files' = files
      /\ verdicts' = verdicts /\ failed' = failed
  BY DEF argVars
<1>2. WorldInv'
  BY <1>1 DEF MainInv, WorldInv
<1>3. Current' = Current /\ (SomeFailed' <=> SomeFailed)
  BY <1>1 DEF Current, SomeFailed
<1>4. stage' \in Stages /\ stage' \notin {"args", "exit", "dead"} /\ stage \notin {"exit", "dead"}
  BY DEF Stages, InFile
<1>5. ProgressInv'
  BY <1>1, <1>3, <1>4 DEF MainInv, ProgressInv
<1>6. FatesInv'
  BY <1>1 DEF MainInv, FatesInv
<1>7. QED
  BY <1>2, <1>5, <1>6

LEMMA CurrentIs ==
  ASSUME MainInv, Len(verdicts) < Len(files)
  PROVE  Current \in DOMAIN disk /\ (disk[Current] # Missing => Len(disk[Current]) \in Nat)
<1>1. Len(verdicts) \in Nat /\ files \in Seq(DOMAIN disk) /\ Len(files) \in Nat
  BY DEF MainInv, ProgressInv, WorldInv
<1>2. Len(verdicts) + 1 \in 1 .. Len(files)
  BY <1>1
<1>3. Current \in DOMAIN disk
  BY <1>1, <1>2 DEF Current
<1>4. QED
  BY <1>3 DEF MainInv, WorldInv

\* What is returned for a text, if the run asks for more than tokens.
LEMMA FateBesides ==
  ASSUME NEW verdict, NEW text, text # Missing, NEW flags, "Lexer" \notin flags,
         "ran" \in verdict.did => {"parsed", "analyzed"} \subseteq verdict.did /\ flags \cap EarlyEnds = {},
         "waited" \in verdict.did => "warned" \in verdict.did
  PROVE  Fate(verdict, text, flags)
  BY DEF Fate

LEMMA OpenKeeps ==
  ASSUME MainInv, Open
  PROVE  MainInv'
<1>1. stage = "files" /\ Len(verdicts) < Len(files)
  BY DEF Open
<1>2. did = {}
  BY <1>1 DEF MainInv, Seeing
<1>3. CASE disk[Current] = Missing
  <2> DEFINE v == [ok |-> FALSE, did |-> did \cup {}]
  <2>1. Return(FALSE, {})
    BY <1>3 DEF Open
  <2>2. v = [ok |-> FALSE, did |-> {}]
    BY <1>2
  <2>3. ~ v.ok /\ v.did = {}
    BY <2>2
  <2>4. v = FateOf(disk[Current], opts.flags)
    BY <1>3, <2>2 DEF FateOf
  <2> HIDE DEF v
  <2>5. Fate(v, disk[Current], opts.flags)
    BY <2>3, <2>4 DEF Fate
  <2>6. Fate([ok |-> FALSE, did |-> did \cup {}], disk[Current], opts.flags)
    BY <2>5 DEF v
  <2>7. QED
    BY <1>1, <2>1, <2>6, ReturnKeeps
<1>4. CASE disk[Current] # Missing
  <2>1. /\ StartLexing(disk[Current], TRUE) /\ stage' = "lexer" /\ logged' = FALSE
        /\ UNCHANGED <<argVars, did, verdicts, failed>>
    BY Zenon, <1>4 DEF Open, FreshLog
  <2>2. Len(disk[Current]) \in Nat
    BY <1>1, <1>4, CurrentIs
  <2>3. LexInv' /\ Reading' /\ lexing' = "on" /\ code' = disk[Current]
    BY <2>1, <2>2, StartIsRight
  <2>4. WorldInv' /\ ProgressInv' /\ FatesInv'
    BY <1>1, <1>4, <2>1, <2>3, InsideKeeps DEF InFile
  <2>5. Seeing'
    BY <1>2, <2>1, <2>3 DEF Seeing
  <2>6. QED
    BY <2>3, <2>4, <2>5 DEF MainInv
<1>5. QED
  BY <1>3, <1>4

LEMMA TokenizeKeeps ==
  ASSUME MainInv, Tokenize
  PROVE  MainInv'
<1>1. /\ stage = "lexer" /\ LexerNext /\ stage' = stage
      /\ UNCHANGED <<argVars, did, verdicts, failed>>
  BY DEF Tokenize
<1>2. LexInv' /\ Reading' /\ lexing' \in {"on", "done", "failed"}
  BY <1>1, LexerKeeps, ReadingIsKept DEF MainInv, Seeing
<1>3. code' = code /\ (lexing' # "failed" => diagnostics' = diagnostics)
  <2>1. CASE EndOfFile
    BY <2>1 DEF EndOfFile
  <2>2. CASE ~ EndOfFile
    BY <1>1, <2>2, TurnGoes DEF MainInv
  <2>3. QED
    BY <2>1, <2>2
<1>4. lexing = "on" /\ ~ logged
  BY <1>1 DEF LexerNext, MainInv, Seeing
<1>5. lexing' # "failed" => ~ logged'
  BY Zenon, <1>3, <1>4 DEF Tokenize
<1>6. WorldInv' /\ ProgressInv' /\ FatesInv'
  <2>1. Len(verdicts) < Len(files) /\ disk[Current] # Missing /\ code = disk[Current]
    BY <1>1 DEF MainInv, ProgressInv, InFile
  <2>2. QED
    BY <1>1, <1>3, <2>1, InsideKeeps DEF InFile
<1>7. Seeing'
  <2>1. did' = did /\ did = {} /\ stage' = "lexer"
    BY <1>1 DEF MainInv, Seeing
  <2>2. QED
    BY <1>2, <1>5, <2>1 DEF Seeing
<1>8. QED
  BY <1>2, <1>6, <1>7 DEF MainInv

\* The stages after the lexer.
LEMMA EnterKeeps ==
  ASSUME MainInv, stage \in InFile, NEW next \in InFile, NEW messages \in BOOLEAN, NEW seen \in SUBSET Marks,
         Enter(next, messages, seen), Seeing'
  PROVE  MainInv'
<1>1. stage' = next /\ UNCHANGED <<lexVars, argVars, verdicts, failed>>
  BY DEF Enter
<1>2. Len(verdicts) < Len(files) /\ disk[Current] # Missing /\ code = disk[Current]
  BY DEF MainInv, ProgressInv
<1>3. WorldInv' /\ ProgressInv' /\ FatesInv'
  BY <1>1, <1>2, InsideKeeps DEF lexVars
<1>4. LexInv'
  BY <1>1, LexerAtRest DEF MainInv
<1>5. QED
  BY <1>3, <1>4 DEF MainInv

\* What is said of a file by its stage.
LEMMA InsideIs ==
  ASSUME MainInv, stage \in InFile
  PROVE  /\ Len(verdicts) < Len(files) /\ disk[Current] # Missing /\ code = disk[Current]
         /\ stage \in {"lexer", "syntax"} => did = {}
         /\ stage \in {"parsed", "semantics"} => did = {"parsed"}
         /\ stage \in {"analyzed", "run"} => did \in {{"parsed", "analyzed"}, {"parsed", "analyzed", "warned"}}
         /\ stage \in {"syntax", "parsed", "semantics"} => ~ logged
         /\ stage = "analyzed" /\ logged => "warned" \in did
         /\ stage \in {"syntax", "parsed", "semantics", "analyzed"} => "Lexer" \notin opts.flags
         /\ stage \in {"semantics", "analyzed"} => "Syntaxer" \notin opts.flags
         /\ stage = "run" => opts.flags \cap EarlyEnds = {}
  BY DEF MainInv, ProgressInv, Seeing, Flag

\* A file that is not asked for as tokens returns without having been run.
LEMMA PlainReturn ==
  ASSUME MainInv, stage \in InFile, "Lexer" \notin opts.flags,
         NEW ok \in BOOLEAN, NEW doing \in SUBSET Marks, Return(ok, doing),
         "ran" \in did \cup doing =>
           {"parsed", "analyzed"} \subseteq did \cup doing /\ opts.flags \cap EarlyEnds = {},
         "waited" \in did \cup doing => "warned" \in did \cup doing
  PROVE  MainInv'
<1> DEFINE v == [ok |-> ok, did |-> did \cup doing]
<1>1. v.did = did \cup doing
  OBVIOUS
<1> HIDE DEF v
<1>2. Len(verdicts) < Len(files) /\ disk[Current] # Missing
  BY InsideIs
<1>3. Fate(v, disk[Current], opts.flags)
  BY <1>1, <1>2, FateBesides
<1>4. Fate([ok |-> ok, did |-> did \cup doing], disk[Current], opts.flags)
  BY <1>3 DEF v
<1>5. QED
  BY <1>2, <1>4, ReturnKeeps

LEMMA TokenizedKeeps ==
  ASSUME MainInv, Tokenized
  PROVE  MainInv'
<1>1. stage = "lexer" /\ lexing # "on" /\ stage \in InFile
  BY DEF Tokenized, InFile
<1>2. /\ did = {} /\ Len(verdicts) < Len(files) /\ disk[Current] # Missing /\ code = disk[Current]
      /\ lexing \in {"done", "failed"} /\ Reading
  BY <1>1, InsideIs DEF MainInv, Seeing
<1>3. ASSUME NEW ok \in BOOLEAN, NEW doing \in SUBSET Marks, Return(ok, doing),
             "ran" \notin doing, "waited" \notin doing,
             "Lexer" \in opts.flags => [ok |-> ok, did |-> doing] = FateOf(disk[Current], opts.flags)
      PROVE  MainInv'
  <2> DEFINE v == [ok |-> ok, did |-> did \cup doing]
  <2>1. did \cup doing = doing
    BY <1>2
  <2>2. v = [ok |-> ok, did |-> doing] /\ v.did = doing
    BY <2>1
  <2> HIDE DEF v
  <2>3. Fate(v, disk[Current], opts.flags)
    BY <1>2, <1>3, <2>2 DEF Fate
  <2>4. Fate([ok |-> ok, did |-> did \cup doing], disk[Current], opts.flags)
    BY <2>3 DEF v
  <2>5. QED
    BY <1>1, <1>2, <1>3, <2>4, ReturnKeeps
<1>4. CASE lexing = "failed"
  <2>1. Return(FALSE, {})
    BY Zenon, <1>4 DEF Tokenized
  <2>2. ~ Accepts(disk[Current])
    BY <1>2, <1>4 DEF Reading
  <2>3. [ok |-> FALSE, did |-> {}] = FateOf(disk[Current], opts.flags)
    BY <2>2 DEF FateOf
  <2>4. QED
    BY <1>3, <2>1, <2>3
<1>5. CASE lexing # "failed" /\ Flag("Lexer")
  <2> DEFINE doing == IF "Check" \in opts.flags THEN {} ELSE {"tokens"}
  <2>1. Return(TRUE, doing)
    BY Zenon, <1>5 DEF Tokenized, Flag
  <2>2. Accepts(disk[Current])
    BY <1>2, <1>5 DEF Reading
  <2>3. [ok |-> TRUE, did |-> doing] = FateOf(disk[Current], opts.flags)
    BY <1>2, <2>2 DEF FateOf
  <2>4. doing \in SUBSET Marks /\ "ran" \notin doing /\ "waited" \notin doing
    <3>1. doing = {} \/ doing = {"tokens"}
      OBVIOUS
    <3>2. \A seen \in {{}, {"tokens"}} :
            seen \in SUBSET Marks /\ "ran" \notin seen /\ "waited" \notin seen
      BY DEF Marks
    <3> HIDE DEF doing
    <3>3. QED
      BY <3>1, <3>2, Zenon
  <2> HIDE DEF doing
  <2>5. QED
    BY <1>3, <2>1, <2>3, <2>4
<1>6. CASE lexing # "failed" /\ ~ Flag("Lexer")
  <2>1. Enter("syntax", FALSE, {})
    BY Zenon, <1>6 DEF Tokenized
  <2>2. ~ logged
    BY <1>1, <1>6 DEF MainInv, Seeing
  <2>3. stage' = "syntax" /\ ~ logged' /\ did' = {} /\ opts' = opts
    BY Zenon, <1>2, <2>1, <2>2 DEF Enter, argVars
  <2>4. Seeing'
    BY <1>6, <2>3 DEF Seeing, Flag
  <2>5. "syntax" \in InFile /\ FALSE \in BOOLEAN /\ {} \in SUBSET Marks
    BY DEF InFile
  <2>6. QED
    BY <1>1, <2>1, <2>4, <2>5, EnterKeeps, Zenon
<1>7. QED
  BY <1>4, <1>5, <1>6

\* A stage ends the process.
LEMMA DieKeeps ==
  ASSUME MainInv, stage \in InFile, ~ Flag("Lexer"), NEW doing \in SUBSET Marks, Die(doing),
         Permitted(did \cup doing)
  PROVE  MainInv'
<1>1. /\ stage' = "dead" /\ failed' = TRUE /\ did' = did \cup doing
      /\ UNCHANGED <<lexVars, argv, disk, arg, opts, files, logged, verdicts>>
  BY DEF Die, argVars
<1>2. LexInv' /\ code' = code
  BY <1>1, LexerAtRest DEF MainInv, lexVars
<1>3. WorldInv' /\ FatesInv'
  BY <1>1 DEF MainInv, WorldInv, FatesInv
<1>4. ProgressInv'
  <2>1. "dead" \in Stages /\ Current' = Current
    BY <1>1 DEF Stages, Current
  <2>2. Len(verdicts) < Len(files) /\ disk[Current] # Missing /\ code = disk[Current]
    BY DEF MainInv, ProgressInv
  <2>3. QED
    BY <1>1, <1>2, <2>1, <2>2 DEF MainInv, ProgressInv
<1>5. Seeing'
  <2>1. did' \in SUBSET Marks
    BY <1>1 DEF MainInv, Seeing
  <2>2. Permitted(did)' /\ ~ Flag("Lexer")'
    BY <1>1 DEF Permitted, Flag
  <2>3. QED
    BY <1>1, <2>1, <2>2 DEF Seeing
<1>6. QED
  BY <1>2, <1>3, <1>4, <1>5 DEF MainInv

LEMMA ParseKeeps ==
  ASSUME MainInv, Parse
  PROVE  MainInv'
<1>1. stage = "syntax" /\ stage \in InFile
  BY DEF Parse, InFile
<1>2. did = {} /\ ~ logged /\ "Lexer" \notin opts.flags
  BY <1>1, InsideIs
<1>3. FALSE \in BOOLEAN /\ {} \in SUBSET Marks /\ {"parsed"} \in SUBSET Marks /\ "parsed" \in InFile
  BY DEF Marks, InFile
<1>4. CASE Return(FALSE, {})
  <2>1. did \cup {} = {}
    BY <1>2
  <2>2. "ran" \notin did \cup {} /\ "waited" \notin did \cup {}
    BY <2>1
  <2>3. QED
    BY <1>1, <1>2, <1>3, <1>4, <2>2, PlainReturn, Zenon
<1>5. CASE Enter("parsed", FALSE, {"parsed"})
  <2>1. stage' = "parsed" /\ ~ logged' /\ opts' = opts /\ did' = did \cup {"parsed"}
    BY Zenon, <1>2, <1>5 DEF Enter, argVars
  <2>2. did' = {"parsed"}
    BY <1>2, <2>1
  <2>3. Seeing'
    BY <1>2, <1>3, <2>1, <2>2 DEF Seeing, Flag
  <2>4. QED
    BY <1>1, <1>3, <1>5, <2>3, EnterKeeps, Zenon
<1>6. CASE Die({})
  <2>1. {} \in SUBSET Marks /\ Permitted(did \cup {}) /\ ~ Flag("Lexer")
    BY <1>2 DEF Permitted, Flag
  <2>2. QED
    BY <1>1, <1>6, <2>1, DieKeeps
<1>7. QED
  BY Zenon, <1>4, <1>5, <1>6 DEF Parse

\* Nobody waits, or there is a message to read.
LEMMA ExploredIs ==
  /\ Explored \in SUBSET Marks /\ "ran" \notin Explored
  /\ "waited" \in Explored => logged
  BY DEF Explored, Marks

LEMMA ParsedKeeps ==
  ASSUME MainInv, Parsed
  PROVE  MainInv'
<1>1. stage = "parsed" /\ stage \in InFile
  BY DEF Parsed, InFile
<1>2. did = {"parsed"} /\ ~ logged /\ "Lexer" \notin opts.flags
  BY <1>1, InsideIs
<1>3. CASE Flag("Syntaxer")
  <2>1. Return(TRUE, Explored)
    BY <1>3 DEF Parsed
  <2>2. "ran" \notin did \cup Explored /\ "waited" \notin did \cup Explored
    BY <1>2, ExploredIs
  <2>3. TRUE \in BOOLEAN /\ Explored \in SUBSET Marks
    BY ExploredIs
  <2>4. QED
    BY <1>1, <1>2, <2>1, <2>2, <2>3, PlainReturn, Zenon
<1>4. CASE ~ Flag("Syntaxer")
  <2>1. Enter("semantics", FALSE, {})
    BY <1>4 DEF Parsed
  <2>2. stage' = "semantics" /\ ~ logged' /\ opts' = opts /\ did' = did \cup {}
    BY Zenon, <1>2, <2>1 DEF Enter, argVars
  <2>3. did' = {"parsed"}
    BY <1>2, <2>2
  <2>4. Seeing'
    BY <1>2, <1>4, <2>2, <2>3 DEF Seeing, Flag, Marks
  <2>5. FALSE \in BOOLEAN /\ {} \in SUBSET Marks /\ "semantics" \in InFile
    BY DEF InFile
  <2>6. QED
    BY <1>1, <2>1, <2>4, <2>5, EnterKeeps, Zenon
<1>5. QED
  BY <1>3, <1>4

LEMMA AnalyzeKeeps ==
  ASSUME MainInv, Analyze
  PROVE  MainInv'
<1>1. stage = "semantics" /\ stage \in InFile
  BY DEF Analyze, InFile
<1>2. did = {"parsed"} /\ ~ logged /\ "Lexer" \notin opts.flags /\ "Syntaxer" \notin opts.flags
  BY <1>1, InsideIs
<1>3. CASE Return(FALSE, {})
  <2>1. "ran" \notin did \cup {} /\ "waited" \notin did \cup {}
    BY <1>2
  <2>2. FALSE \in BOOLEAN /\ {} \in SUBSET Marks
    OBVIOUS
  <2>3. QED
    BY <1>1, <1>2, <1>3, <2>1, <2>2, PlainReturn, Zenon
<1>4. ASSUME NEW messages \in BOOLEAN, NEW seen, seen = IF messages THEN {"analyzed", "warned"} ELSE {"analyzed"},
             Enter("analyzed", messages, seen)
      PROVE  MainInv'
  <2>1. stage' = "analyzed" /\ (logged' => messages) /\ opts' = opts /\ did' = did \cup seen
    BY Zenon, <1>2, <1>4 DEF Enter, argVars
  <2>2. /\ messages => did' = {"parsed", "analyzed", "warned"}
        /\ ~ messages => did' = {"parsed", "analyzed"}
    BY <1>2, <1>4, <2>1
  <2>3. did' \in {{"parsed", "analyzed"}, {"parsed", "analyzed", "warned"}} /\ did' \in SUBSET Marks
    <3>1. CASE messages
      BY <2>2, <3>1 DEF Marks
    <3>2. CASE ~ messages
      BY <2>2, <3>2 DEF Marks
    <3>3. QED
      BY <3>1, <3>2
  <2>4. logged' => "warned" \in did'
    BY <2>1, <2>2
  <2>5. Seeing'
    BY <1>2, <2>1, <2>3, <2>4 DEF Seeing, Flag
  <2>6. seen \in SUBSET Marks /\ "analyzed" \in InFile
    BY <1>4 DEF Marks, InFile
  <2>7. QED
    BY <1>1, <1>4, <2>5, <2>6, EnterKeeps
<1>5. Return(FALSE, {}) \/ Die({}) \/
        \E messages \in BOOLEAN : Enter("analyzed", messages, IF messages THEN {"analyzed", "warned"} ELSE {"analyzed"})
  BY Zenon DEF Analyze
<1>6. CASE Die({})
  <2>1. {} \in SUBSET Marks /\ Permitted(did \cup {}) /\ ~ Flag("Lexer")
    BY <1>2 DEF Permitted, Flag
  <2>2. QED
    BY <1>1, <1>6, <2>1, DieKeeps
<1>7. QED
  BY <1>3, <1>4, <1>5, <1>6

LEMMA AnalyzedKeeps ==
  ASSUME MainInv, Analyzed
  PROVE  MainInv'
<1>1. stage = "analyzed" /\ stage \in InFile
  BY DEF Analyzed, InFile
<1>2. /\ did \in {{"parsed", "analyzed"}, {"parsed", "analyzed", "warned"}}
      /\ (logged => "warned" \in did)
      /\ "Lexer" \notin opts.flags /\ "Syntaxer" \notin opts.flags
  BY <1>1, InsideIs
<1>3. "ran" \notin did /\ "waited" \notin did /\ did \in SUBSET Marks
  BY <1>2 DEF Marks
<1>4. ASSUME NEW doing \in SUBSET Marks, "ran" \notin doing, "waited" \in doing => logged, Return(TRUE, doing)
      PROVE  MainInv'
  <2>1. "ran" \notin did \cup doing /\ ("waited" \in did \cup doing => "warned" \in did \cup doing)
    BY <1>2, <1>3, <1>4
  <2>2. TRUE \in BOOLEAN
    OBVIOUS
  <2>3. QED
    BY <1>1, <1>2, <1>4, <2>1, <2>2, PlainReturn, Zenon
<1>5. CASE Flag("Semantics")
  <2>1. Return(TRUE, Explored)
    BY <1>5 DEF Analyzed
  <2>2. QED
    BY <1>4, <2>1, ExploredIs
<1>6. CASE ~ Flag("Semantics") /\ Flag("Check")
  <2>1. Return(TRUE, {})
    BY <1>6 DEF Analyzed
  <2>2. QED
    BY <1>4, <2>1
<1>7. CASE ~ Flag("Semantics") /\ ~ Flag("Check")
  <2>1. Enter("run", FALSE, {})
    BY <1>7 DEF Analyzed
  <2>2. stage' = "run" /\ opts' = opts /\ did' = did \cup {}
    BY Zenon, <2>1 DEF Enter, argVars
  <2>3. did' = did
    BY <2>2
  <2>4. opts.flags \cap EarlyEnds = {}
    BY <1>2, <1>7 DEF EarlyEnds, Flag
  <2>5. Seeing'
    BY <1>2, <1>3, <2>2, <2>3, <2>4 DEF Seeing
  <2>6. FALSE \in BOOLEAN /\ {} \in SUBSET Marks /\ "run" \in InFile
    BY DEF InFile
  <2>7. QED
    BY <1>1, <2>1, <2>5, <2>6, EnterKeeps, Zenon
<1>8. QED
  BY <1>5, <1>6, <1>7

LEMMA RunKeeps ==
  ASSUME MainInv, Run
  PROVE  MainInv'
<1>1. stage = "run" /\ stage \in InFile
  BY DEF Run, InFile
<1>2. /\ did \in {{"parsed", "analyzed"}, {"parsed", "analyzed", "warned"}}
      /\ opts.flags \cap EarlyEnds = {}
  BY <1>1, InsideIs
<1>3. "waited" \notin did /\ {"parsed", "analyzed"} \subseteq did /\ "Lexer" \notin opts.flags
  BY <1>2 DEF EarlyEnds
<1>4. ASSUME NEW ok \in BOOLEAN, NEW doing \in {{"ran"}, {"ran", "traceback"}}, Return(ok, doing)
      PROVE  MainInv'
  <2>1. /\ doing \in SUBSET Marks
        /\ {"parsed", "analyzed"} \subseteq did \cup doing /\ "waited" \notin did \cup doing
    BY <1>3, <1>4 DEF Marks
  <2>2. QED
    BY <1>1, <1>2, <1>3, <1>4, <2>1, PlainReturn, Zenon
<1>5. Return(TRUE, {"ran"}) \/ Return(FALSE, {"ran"}) \/ Return(FALSE, {"ran", "traceback"})
        \/ Die({"ran"})
  BY Zenon DEF Run
<1>6. CASE Die({"ran"})
  <2>1. {"ran"} \in SUBSET Marks /\ Permitted(did \cup {"ran"}) /\ ~ Flag("Lexer")
    BY <1>2, <1>3 DEF Permitted, Flag, Marks
  <2>2. QED
    BY <1>1, <1>6, <2>1, DieKeeps
<1>7. QED
  BY <1>4, <1>5, <1>6

LEMMA ExitKeeps ==
  ASSUME MainInv, Exit
  PROVE  MainInv'
<1>1. /\ stage = "files" /\ Len(verdicts) = Len(files) /\ stage' = "exit"
      /\ UNCHANGED <<lexVars, argv, disk, arg, opts, files, logged, did, verdicts, failed>>
  BY DEF Exit, argVars
<1>2. LexInv'
  BY <1>1, LexerAtRest DEF MainInv
<1>3. WorldInv' /\ FatesInv'
  BY <1>1 DEF MainInv, WorldInv, FatesInv
<1>4. ProgressInv'
  <2>1. stage' \in Stages /\ stage' \notin InFile /\ stage' # "dead"
    BY <1>1 DEF Stages, InFile
  <2>2. (failed <=> SomeFailed) /\ (SomeFailed' <=> SomeFailed)
    BY <1>1 DEF MainInv, ProgressInv, SomeFailed
  <2>3. QED
    BY <1>1, <2>1, <2>2 DEF MainInv, ProgressInv
<1>5. Seeing'
  BY <1>1 DEF MainInv, Seeing
<1>6. QED
  BY <1>2, <1>3, <1>4, <1>5 DEF MainInv

LEMMA StutterKeeps ==
  ASSUME MainInv, UNCHANGED vars
  PROVE  MainInv'
<1>1. UNCHANGED lexVars /\ UNCHANGED <<argv, disk, arg, opts, files, stage, logged, did, verdicts, failed>>
  BY DEF vars, mainVars, argVars
<1>2. LexInv' /\ (Reading' <=> Reading) /\ code' = code /\ lexing' = lexing
  BY <1>1, LexerAtRest DEF MainInv, lexVars
<1>3. WorldInv' /\ FatesInv'
  BY <1>1 DEF MainInv, WorldInv, FatesInv
<1>4. ProgressInv'
  BY <1>1, <1>2 DEF MainInv, ProgressInv, SomeFailed, Current
<1>5. Seeing'
  BY <1>1, <1>2 DEF MainInv, Seeing, Flag, Permitted
<1>6. QED
  BY <1>2, <1>3, <1>4, <1>5 DEF MainInv

LEMMA StepKeeps ==
  ASSUME MainInv, [Next]_vars
  PROVE  MainInv'
<1>1. \/ InterpretArgs \/ ArgsRead \/ Open \/ Tokenize \/ Tokenized \/ Parse \/ Parsed
      \/ Analyze \/ Analyzed \/ Run \/ Exit \/ UNCHANGED vars
  BY DEF Next
<1>2. QED
  BY <1>1, ArgsStep, OpenKeeps, TokenizeKeeps, TokenizedKeeps, ParseKeeps, ParsedKeeps,
     AnalyzeKeeps, AnalyzedKeeps, RunKeeps, ExitKeeps, StutterKeeps

-----------------------------------------------------------------------------
(* Numerals.                                                               *)

\* A function that is given by its first value, and each other by the one before.
Given(f, m, V, v, G) ==
  f \in [0 .. m -> V] /\ f[0] = v /\ \A k \in 1 .. m : f[k] = G[<<f[k - 1], k>>]

LEMMA Recursion ==
  ASSUME NEW m \in Nat, NEW V, NEW v \in V, NEW G \in [V \X (1 .. m) -> V]
  PROVE  \E f : Given(f, m, V, v, G)
<1> DEFINE Good(f, d) ==
             f \in [0 .. d -> V] /\ f[0] = v /\ \A k \in 1 .. d : f[k] = G[<<f[k - 1], k>>]
           D == {d \in 0 .. m : ~ \E f : Good(f, d)}
<1>1. ASSUME D # {} PROVE FALSE
  <2>1. D \in SUBSET Nat
    OBVIOUS
  <2>2. PICK d \in D : \A e \in D : d <= e
    BY <1>1, <2>1, SmallestOf
  <2>3. d \in 0 .. m /\ d # 0
    <3>1. ASSUME d = 0 PROVE FALSE
      <4> DEFINE f == [k \in 0 .. 0 |-> v]
      <4>1. f \in [0 .. 0 -> V] /\ f[0] = v /\ 1 .. 0 = {}
        OBVIOUS
      <4> HIDE DEF f
      <4>2. Good(f, 0)
        BY <4>1
      <4>3. QED
        BY <3>1, <4>2
    <3>2. QED
      BY <3>1
  <2>4. d - 1 \in 0 .. m /\ d - 1 < d /\ d \in 1 .. m /\ d - 1 \in Nat /\ d \in Nat
    BY <2>3
  <2>5. PICK f : Good(f, d - 1)
    <3>1. d - 1 \notin D
      BY <2>2, <2>4
    <3>2. QED
      BY <2>4, <3>1
  <2> DEFINE g == [k \in 0 .. d |-> IF k = d THEN G[<<f[d - 1], d>>] ELSE f[k]]
  <2>6. \A k \in 0 .. d : k = d \/ k \in 0 .. d - 1
    BY <2>4
  <2>7. f[d - 1] \in V /\ G[<<f[d - 1], d>>] \in V /\ \A k \in 0 .. d - 1 : f[k] \in V
    BY <2>4, <2>5
  <2>8. g \in [0 .. d -> V]
    BY <2>6, <2>7
  <2>9. 0 \in 0 .. d /\ 0 # d /\ g[0] = v
    BY <2>4, <2>5
  <2>10. ASSUME NEW k \in 1 .. d PROVE g[k] = G[<<g[k - 1], k>>]
    <3>1. k \in 0 .. d /\ k - 1 \in 0 .. d /\ k - 1 # d
      BY <2>4
    <3>2. g[k - 1] = f[k - 1]
      BY <3>1
    <3>3. CASE k = d
      BY <3>1, <3>2, <3>3
    <3>4. CASE k # d
      <4>1. k \in 1 .. d - 1
        BY <2>4, <3>4
      <4>2. g[k] = f[k] /\ f[k] = G[<<f[k - 1], k>>]
        BY <2>5, <3>1, <3>4, <4>1
      <4>3. QED
        BY <3>2, <4>2
    <3>5. QED
      BY <3>3, <3>4
  <2> HIDE DEF g
  <2>11. Good(g, d)
    BY <2>8, <2>9, <2>10
  <2> HIDE DEF Good
  <2>12. QED
    BY <2>2, <2>11
<1>2. m \in 0 .. m
  OBVIOUS
<1>3. \E f : Good(f, m)
  BY <1>1, <1>2
<1>4. QED
  BY <1>3 DEF Given

LEMMA DigitIs ==
  ASSUME NEW ch \in Digits
  PROVE  Digit(ch) \in 0 .. 9
<1> DEFINE names == <<"0", "1", "2", "3", "4", "5", "6", "7", "8", "9">>
<1>1. \E d \in 0 .. 9 : names[d + 1] = ch
  <2>1. ch \in {"0", "1", "2", "3", "4", "5", "6", "7", "8", "9"}
    BY DEF Digits
  <2>2. /\ names[0 + 1] = "0" /\ names[1 + 1] = "1" /\ names[2 + 1] = "2" /\ names[3 + 1] = "3"
        /\ names[4 + 1] = "4" /\ names[5 + 1] = "5" /\ names[6 + 1] = "6" /\ names[7 + 1] = "7"
        /\ names[8 + 1] = "8" /\ names[9 + 1] = "9"
    OBVIOUS
  <2> HIDE DEF names
  <2>3. QED
    BY <2>1, <2>2
<1> HIDE DEF names
<1>2. QED
  BY <1>1 DEF Digit, names

\* What the beginnings of a numeral stand for.
LEMMA MeaningIs ==
  ASSUME NEW s, Len(s) \in Nat, Numeral(s)
  PROVE  /\ Meaning(s)[0] = 0
         /\ \A k \in 0 .. Len(s) : Meaning(s)[k] \in Nat
         /\ \A k \in 1 .. Len(s) :
              Meaning(s)[k] = 10 * Meaning(s)[k - 1] + Digit(SubSeq(s, k, k))
<1> DEFINE m == Len(s)
           Next10(p) == 10 * p[1] + Digit(SubSeq(s, p[2], p[2]))
           G == [p \in Nat \X (1 .. m) |-> Next10(p)]
           Mean(f) == f = [k \in 0 .. m |-> IF k = 0 THEN 0 ELSE 10 * f[k - 1] + Digit(SubSeq(s, k, k))]
<1>1. m \in Nat /\ \A k \in 1 .. m : Digit(SubSeq(s, k, k)) \in Nat
  BY DigitIs DEF Numeral
<1>2. G \in [Nat \X (1 .. m) -> Nat]
  <2>1. ASSUME NEW p \in Nat \X (1 .. m) PROVE Next10(p) \in Nat
    <3>1. p[1] \in Nat /\ p[2] \in 1 .. m
      OBVIOUS
    <3>2. QED
      BY <1>1, <3>1
  <2> HIDE DEF Next10
  <2>2. QED
    BY <2>1
<1>3. \A x \in Nat : \A k \in 1 .. m : G[<<x, k>>] = 10 * x + Digit(SubSeq(s, k, k))
  OBVIOUS
<1> HIDE DEF G, m
<1>4. PICK f \in [0 .. m -> Nat] : f[0] = 0 /\ \A k \in 1 .. m : f[k] = G[<<f[k - 1], k>>]
  <2>1. 0 \in Nat
    OBVIOUS
  <2>2. m \in Nat
    BY <1>1
  <2>3. \E h : Given(h, m, Nat, 0, G)
    BY <1>2, <2>1, <2>2, Recursion
  <2>4. QED
    BY <2>3 DEF Given
<1>5. /\ \A k \in 0 .. m : k = 0 \/ k \in 1 .. m
      /\ \A k \in 1 .. m : k - 1 \in 0 .. m
  BY <1>1
<1>6. ASSUME NEW k \in 1 .. m PROVE f[k] = 10 * f[k - 1] + Digit(SubSeq(s, k, k))
  <2>1. f[k - 1] \in Nat
    BY <1>4, <1>5
  <2>2. QED
    BY <1>3, <1>4, <2>1
<1>7. Mean(f)
  <2>1. f = [k \in 0 .. m |-> f[k]]
    BY <1>4
  <2>2. \A k \in 0 .. m : f[k] = IF k = 0 THEN 0 ELSE 10 * f[k - 1] + Digit(SubSeq(s, k, k))
    BY <1>4, <1>5, <1>6
  <2>3. QED
    BY <2>1, <2>2
<1> DEFINE g == CHOOSE g : Mean(g)
<1>8. Mean(g)
  BY <1>7
<1>9. Meaning(s) = g
  BY Zenon DEF Meaning, m
<1>10. ASSUME NEW h, Mean(h)
       PROVE  h[0] = 0 /\ \A k \in 1 .. m : h[k] = 10 * h[k - 1] + Digit(SubSeq(s, k, k))
  <2>1. \A k \in 1 .. m : k \in 0 .. m /\ k # 0
    BY <1>1
  <2>2. 0 \in 0 .. m
    BY <1>1
  <2>3. \A k \in 0 .. m : h[k] = IF k = 0 THEN 0 ELSE 10 * h[k - 1] + Digit(SubSeq(s, k, k))
    BY <1>10
  <2>4. QED
    BY <2>1, <2>2, <2>3
<1> HIDE DEF Mean, g
<1>11. g[0] = 0 /\ \A k \in 1 .. m : g[k] = 10 * g[k - 1] + Digit(SubSeq(s, k, k))
  BY <1>8, <1>10
<1> DEFINE D == {k \in 0 .. m : g[k] \notin Nat}
<1>12. D = {}
  <2>1. ASSUME D # {} PROVE FALSE
    <3>1. D \in SUBSET Nat
      BY <1>1
    <3>2. PICK k \in D : \A e \in D : k <= e
      BY <2>1, <3>1, SmallestOf
    <3>3. k \in 0 .. m /\ g[k] \notin Nat /\ k # 0
      BY <1>11
    <3>4. k \in 1 .. m /\ k - 1 \in 0 .. m /\ k - 1 < k
      BY <1>1, <3>3
    <3>5. g[k - 1] \in Nat
      BY <3>2, <3>4
    <3>6. g[k] = 10 * g[k - 1] + Digit(SubSeq(s, k, k))
      BY <1>11, <3>4
    <3>7. Digit(SubSeq(s, k, k)) \in Nat
      BY <1>1, <3>4
    <3>8. g[k] \in Nat
      BY <3>5, <3>6, <3>7
    <3>9. QED
      BY <3>3, <3>8
  <2>2. QED
    BY <2>1
<1>13. \A k \in 0 .. m : g[k] \in Nat
  BY <1>12
<1>14. QED
  BY <1>9, <1>11, <1>13 DEF m

LEMMA Remainders ==
  ASSUME NEW N \in Nat \ {0}, NEW a \in Int
  PROVE  a % N \in 0 .. N - 1 /\ a \div N \in Int /\ a = N * (a \div N) + (a % N)
  OBVIOUS

LEMMA OneRemainder ==
  ASSUME NEW N \in Nat \ {0}, NEW p \in Int, NEW q \in Int,
         NEW r \in 0 .. N - 1, NEW s \in 0 .. N - 1, N * p + r = N * q + s
  PROVE  p = q /\ r = s
<1>1. p = q
  OBVIOUS
<1>2. QED
  BY <1>1

\* The check for an overflow looks at the product alone.
LEMMA OverflowsIs ==
  ASSUME NEW x \in 0 .. SizeMax, NEW d \in 0 .. 9
  PROVE  /\ Overflows(x, d) <=> 10 * x > SizeMax
         /\ Size(x * 10 + d) \in 0 .. SizeMax
         /\ 10 * x + d <= SizeMax => Size(x * 10 + d) = 10 * x + d
<1> DEFINE N == SizeMax + 1
           sum == x * 10 + d
           back == Size(sum) - d
<1>1. /\ N \in Nat \ {0} /\ N - 1 = SizeMax /\ SizeMax \in Nat
      /\ x \in Nat /\ d \in Nat /\ sum \in Nat /\ sum = 10 * x + d
  BY MainAssumption
<1>2. Size(sum) = sum % N /\ Size(back) = back % N
  BY DEF Size
<1>3. Overflows(x, d) <=> Size(back) \div 10 # x
  BY DEF Overflows
<1> HIDE DEF N, sum
<1>4. Size(sum) \in 0 .. SizeMax /\ sum \div N \in Int /\ sum = N * (sum \div N) + Size(sum)
  <2>1. sum \in Int /\ N \in Nat \ {0}
    BY <1>1
  <2>2. sum % N \in 0 .. N - 1 /\ sum \div N \in Int /\ sum = N * (sum \div N) + (sum % N)
    BY <2>1, Remainders
  <2>3. QED
    BY <1>1, <1>2, <2>2
<1>5. back \in Int /\ back = 10 * x - N * (sum \div N)
  BY <1>1, <1>4
<1> HIDE DEF back
<1> DEFINE y == Size(back)
<1>6. y \in 0 .. N - 1 /\ back \div N \in Int /\ back = N * (back \div N) + y
  <2>1. back \in Int /\ N \in Nat \ {0}
    BY <1>1, <1>5
  <2>2. back % N \in 0 .. N - 1 /\ back \div N \in Int /\ back = N * (back \div N) + (back % N)
    BY <2>1, Remainders
  <2>3. QED
    BY <1>2, <2>2
<1> DEFINE q == sum \div N
           t == back \div N
<1>7. q \in Int /\ t \in Int /\ back = 10 * x - N * q /\ back = N * t + y
  BY <1>4, <1>5, <1>6
<1> HIDE DEF q, t, y
<1>8. 10 * x = N * (q + t) + y /\ q + t \in Int /\ y \in Nat
  <2>1. N * (q + t) = N * q + N * t /\ N * q \in Int /\ N * t \in Int
    BY <1>1, <1>7
  <2>2. QED
    BY <1>1, <1>6, <1>7, <2>1
<1>9. ASSUME 10 * x <= SizeMax PROVE ~ Overflows(x, d)
  <2>1. 10 * x \in 0 .. N - 1 /\ 10 * x = N * 0 + 10 * x
    BY <1>1, <1>9
  <2>2. y = 10 * x
    BY <1>1, <1>6, <1>8, <2>1, OneRemainder
  <2>3. y \div 10 = x
    BY <1>1, <2>2
  <2>4. QED
    BY <1>3, <2>3 DEF y
<1>10. ASSUME ~(10 * x <= SizeMax) PROVE Overflows(x, d)
  <2>1. q + t >= 1
    <3>1. ASSUME ~(q + t >= 1) PROVE FALSE
      <4>1. q + t <= 0
        BY <1>8, <3>1
      <4>2. N * (q + t) <= 0
        BY <1>1, <1>8, <4>1
      <4>3. QED
        BY <1>1, <1>6, <1>8, <1>10, <4>2
    <3>2. QED
      BY <3>1
  <2>2. N * (q + t) >= N
    BY <1>1, <1>8, <2>1
  <2>3. y < 10 * x
    BY <1>1, <1>8, <2>2
  <2>4. y \div 10 # x
    BY <1>1, <1>8, <2>3
  <2>5. QED
    BY <1>3, <2>4 DEF y
<1>11. ASSUME 10 * x + d <= SizeMax PROVE Size(sum) = sum
  <2>1. sum \in 0 .. N - 1 /\ sum = N * 0 + sum
    BY <1>1, <1>11
  <2>2. Size(sum) \in 0 .. N - 1 /\ sum = N * (sum \div N) + Size(sum) /\ sum \div N \in Int
    BY <1>1, <1>4
  <2>3. QED
    BY <1>1, <2>1, <2>2, OneRemainder
<1>12. (Overflows(x, d) <=> 10 * x > SizeMax)
  <2>1. 10 * x \in Int /\ SizeMax \in Int
    BY <1>1
  <2>2. QED
    BY <1>9, <1>10, <2>1
<1>13. QED
  BY <1>1, <1>4, <1>11, <1>12 DEF sum

\* What ParseSizeT knows of a numeral after k of its characters.
ParseNext(s, x, k) ==
  IF x = NoNumber \/ SubSeq(s, k, k) \notin Digits THEN NoNumber
  ELSE IF Overflows(x, Digit(SubSeq(s, k, k))) THEN NoNumber
  ELSE Size(x * 10 + Digit(SubSeq(s, k, k)))
Unnoticed(s, k) == \E j \in 1 .. k : Meaning(s)[j] > SizeMax /\ 10 * Meaning(s)[j - 1] <= SizeMax
ParsedSoFar(s, x, k) ==
  \/ /\ x = NoNumber
     /\ Numeral(s) => Meaning(s)[k] > SizeMax
  \/ /\ x \in 0 .. SizeMax
     /\ \A j \in 1 .. k : SubSeq(s, j, j) \in Digits
     /\ Numeral(s) => x = Meaning(s)[k] \/ (Meaning(s)[k] > SizeMax /\ Unnoticed(s, k))

LEMMA ParseStep ==
  ASSUME NEW s, Len(s) \in Nat, NEW k \in 1 .. Len(s), NEW x, ParsedSoFar(s, x, k - 1)
  PROVE  ParsedSoFar(s, ParseNext(s, x, k), k)
<1> DEFINE ch == SubSeq(s, k, k)
           d == Digit(ch)
           M == Meaning(s)
<1>1. k - 1 \in 0 .. Len(s) /\ k \in 0 .. Len(s) /\ k - 1 \in Nat /\ k \in 1 .. k /\ SizeMax \in Nat
  BY MainAssumption
<1>2. Numeral(s) => M[k - 1] \in Nat /\ M[k] = 10 * M[k - 1] + d /\ ch \in Digits
  BY <1>1, MeaningIs DEF Numeral
<1>3. ch \in Digits => d \in 0 .. 9
  BY DigitIs
<1>4. ParseNext(s, x, k) = IF x = NoNumber \/ ch \notin Digits THEN NoNumber
                           ELSE IF Overflows(x, d) THEN NoNumber ELSE Size(x * 10 + d)
  BY DEF ParseNext
<1>5. NoNumber \notin 0 .. SizeMax
  BY DEF NoNumber
<1> HIDE DEF ch, d, M
<1>6. ASSUME Numeral(s), M[k - 1] > SizeMax PROVE M[k] > SizeMax
  <2>1. M[k - 1] \in Nat /\ M[k] = 10 * M[k - 1] + d /\ d \in 0 .. 9
    BY <1>2, <1>3, <1>6
  <2>2. QED
    BY <1>1, <1>6, <2>1
<1>7. CASE x = NoNumber
  <2>1. Numeral(s) => M[k - 1] > SizeMax
    BY <1>5, <1>7 DEF ParsedSoFar, M
  <2>2. ParseNext(s, x, k) = NoNumber
    BY <1>4, <1>7
  <2>3. QED
    BY <1>6, <2>1, <2>2 DEF ParsedSoFar, M
<1>8. CASE x # NoNumber /\ ch \notin Digits
  <2>1. ParseNext(s, x, k) = NoNumber /\ ~ Numeral(s)
    BY <1>2, <1>4, <1>8
  <2>2. QED
    BY <2>1 DEF ParsedSoFar
<1>9. CASE x # NoNumber /\ ch \in Digits
  <2>1. /\ x \in 0 .. SizeMax /\ \A j \in 1 .. k - 1 : SubSeq(s, j, j) \in Digits
        /\ Numeral(s) => x = M[k - 1] \/ (M[k - 1] > SizeMax /\ Unnoticed(s, k - 1))
    BY <1>9 DEF ParsedSoFar, M
  <2>2. d \in 0 .. 9
    BY <1>3, <1>9
  <2>3. /\ Overflows(x, d) <=> 10 * x > SizeMax
        /\ Size(x * 10 + d) \in 0 .. SizeMax
        /\ 10 * x + d <= SizeMax => Size(x * 10 + d) = 10 * x + d
    BY <2>1, <2>2, OverflowsIs
  <2>4. ASSUME Unnoticed(s, k - 1) PROVE Unnoticed(s, k)
    <3>1. \A j \in 1 .. k - 1 : j \in 1 .. k
      BY <1>1
    <3>2. QED
      BY <2>4, <3>1 DEF Unnoticed
  <2>5. CASE Overflows(x, d)
    <3>1. ParseNext(s, x, k) = NoNumber
      BY <1>4, <1>9, <2>5
    <3>2. ASSUME Numeral(s), x = M[k - 1] PROVE M[k] > SizeMax
      <4>1. 10 * x > SizeMax /\ M[k] = 10 * x + d
        BY <1>2, <2>3, <2>5, <3>2
      <4>2. QED
        BY <1>1, <2>1, <2>2, <4>1
    <3>3. Numeral(s) => M[k] > SizeMax
      BY <1>6, <2>1, <3>2
    <3>4. QED
      BY <3>1, <3>3 DEF ParsedSoFar, M
  <2>6. CASE ~ Overflows(x, d)
    <3> DEFINE y == Size(x * 10 + d)
    <3>1. ParseNext(s, x, k) = y /\ y \in 0 .. SizeMax /\ ~(10 * x > SizeMax)
      BY <1>4, <1>9, <2>3, <2>6
    <3>2. \A j \in 1 .. k : SubSeq(s, j, j) \in Digits
      <4>1. \A j \in 1 .. k : j = k \/ j \in 1 .. k - 1
        BY <1>1
      <4>2. QED
        BY <1>9, <2>1, <4>1 DEF ch
    <3>3. ASSUME Numeral(s) PROVE y = M[k] \/ (M[k] > SizeMax /\ Unnoticed(s, k))
      <4>1. CASE x = M[k - 1] /\ 10 * x + d <= SizeMax
        BY <1>2, <2>3, <3>3, <4>1
      <4>2. CASE x = M[k - 1] /\ ~(10 * x + d <= SizeMax)
        <5>1. M[k] = 10 * x + d
          BY <1>2, <3>3, <4>2
        <5>2. M[k] > SizeMax /\ 10 * M[k - 1] <= SizeMax
          BY <1>1, <2>1, <2>2, <3>1, <4>2, <5>1
        <5>3. Unnoticed(s, k)
          BY <1>1, <5>2 DEF Unnoticed, M
        <5>4. QED
          BY <5>2, <5>3
      <4>3. CASE x # M[k - 1]
        <5>1. M[k - 1] > SizeMax /\ Unnoticed(s, k - 1)
          BY <2>1, <3>3, <4>3
        <5>2. QED
          BY <1>6, <2>4, <3>3, <5>1
      <4>4. QED
        BY <4>1, <4>2, <4>3
    <3> HIDE DEF y
    <3>4. QED
      BY <3>1, <3>2, <3>3 DEF ParsedSoFar, M
  <2>7. QED
    BY <2>5, <2>6
<1>10. QED
  BY <1>7, <1>8, <1>9

\* A refused numeral is too large, or none; one that is accepted is what it stands
\* for, unless it overflows unnoticed.
LEMMA ParseIs ==
  ASSUME NEW s, Len(s) \in Nat
  PROVE  /\ ParseSizeT(s) = NoNumber => ~ Numeral(s) \/ NumberIn(s) > SizeMax
         /\ ParseSizeT(s) # NoNumber =>
              /\ Numeral(s)
              /\ ~ OverflowsUnnoticed(s) => ParseSizeT(s) = NumberIn(s) /\ ~(NumberIn(s) > SizeMax)
<1> DEFINE m == Len(s)
           V == {NoNumber} \cup (0 .. SizeMax)
           G == [p \in V \X (1 .. m) |-> ParseNext(s, p[1], p[2])]
           Parses(f) == f = [k \in 0 .. m |-> IF k = 0 THEN 0 ELSE ParseNext(s, f[k - 1], k)]
<1>1. m \in Nat /\ SizeMax \in Nat /\ NoNumber \notin 0 .. SizeMax
  BY MainAssumption DEF NoNumber
<1>2. ASSUME NEW x \in V, NEW k \in 1 .. m PROVE ParseNext(s, x, k) \in V
  <2> DEFINE d == Digit(SubSeq(s, k, k))
  <2>1. ParseNext(s, x, k) = NoNumber \/
          (x # NoNumber /\ SubSeq(s, k, k) \in Digits /\ ParseNext(s, x, k) = Size(x * 10 + d))
    BY DEF ParseNext
  <2>2. ASSUME x # NoNumber, SubSeq(s, k, k) \in Digits PROVE Size(x * 10 + d) \in 0 .. SizeMax
    <3>1. x \in 0 .. SizeMax /\ d \in 0 .. 9
      BY <2>2, DigitIs
    <3> HIDE DEF d
    <3>2. QED
      BY <3>1, OverflowsIs
  <2>3. QED
    BY <2>1, <2>2
<1>3. G \in [V \X (1 .. m) -> V]
  <2>1. ASSUME NEW p \in V \X (1 .. m) PROVE ParseNext(s, p[1], p[2]) \in V
    <3>1. p[1] \in V /\ p[2] \in 1 .. m
      OBVIOUS
    <3> HIDE DEF V
    <3>2. QED
      BY <1>2, <3>1
  <2> HIDE DEF V, m
  <2>2. QED
    BY <2>1
<1>4. 0 \in V
  BY <1>1
<1>5. \A x \in V : \A k \in 1 .. m : G[<<x, k>>] = ParseNext(s, x, k)
  OBVIOUS
<1> HIDE DEF G, m, V
<1>6. PICK f : Given(f, m, V, 0, G)
  BY <1>1, <1>3, <1>4, Recursion
<1>7. /\ \A k \in 0 .. m : k = 0 \/ k \in 1 .. m
      /\ \A k \in 1 .. m : k - 1 \in 0 .. m /\ k \in 0 .. m /\ k # 0
      /\ 0 \in 0 .. m
  BY <1>1
<1>8. Parses(f)
  <2>1. f \in [0 .. m -> V] /\ f[0] = 0 /\ \A k \in 1 .. m : f[k] = G[<<f[k - 1], k>>]
    BY <1>6 DEF Given
  <2>2. f = [k \in 0 .. m |-> f[k]]
    BY <2>1
  <2>3. ASSUME NEW k \in 1 .. m PROVE f[k] = ParseNext(s, f[k - 1], k)
    <3>1. f[k - 1] \in V
      BY <1>7, <2>1
    <3>2. QED
      BY <1>5, <2>1, <3>1
  <2>4. \A k \in 0 .. m : f[k] = IF k = 0 THEN 0 ELSE ParseNext(s, f[k - 1], k)
    BY <1>7, <2>1, <2>3
  <2>5. QED
    BY <2>2, <2>4
<1> DEFINE g == CHOOSE g : Parses(g)
<1>9. Parses(g)
  BY <1>8
<1>10. ParseSizeT(s) = g[m]
  BY Zenon DEF ParseSizeT, ParseNext, m
<1>11. ASSUME NEW h, Parses(h)
       PROVE  h[0] = 0 /\ \A k \in 1 .. m : h[k] = ParseNext(s, h[k - 1], k)
  <2>1. \A k \in 0 .. m : h[k] = IF k = 0 THEN 0 ELSE ParseNext(s, h[k - 1], k)
    BY <1>11
  <2>2. QED
    BY <1>7, <2>1
<1> HIDE DEF Parses, g
<1>12. g[0] = 0 /\ \A k \in 1 .. m : g[k] = ParseNext(s, g[k - 1], k)
  BY <1>9, <1>11
<1> DEFINE D == {k \in 0 .. m : ~ ParsedSoFar(s, g[k], k)}
<1>13. ASSUME D # {} PROVE FALSE
  <2>1. D \in SUBSET Nat
    BY <1>1
  <2>2. PICK k \in D : \A e \in D : k <= e
    BY <1>13, <2>1, SmallestOf
  <2>3. k # 0
    <3>1. Numeral(s) => Meaning(s)[0] = 0
      BY MeaningIs
    <3>2. 0 \in 0 .. SizeMax /\ 1 .. 0 = {}
      BY <1>1
    <3>3. ParsedSoFar(s, g[0], 0)
      BY <1>12, <3>1, <3>2 DEF ParsedSoFar
    <3>4. QED
      BY <2>2, <3>3
  <2>4. k \in 1 .. m /\ k - 1 \in 0 .. m /\ k - 1 < k
    BY <1>1, <2>3
  <2>5. ParsedSoFar(s, g[k - 1], k - 1)
    BY <2>2, <2>4
  <2>6. ParsedSoFar(s, ParseNext(s, g[k - 1], k), k)
    BY <2>4, <2>5, ParseStep DEF m
  <2>7. QED
    BY <1>12, <2>2, <2>4, <2>6
<1>14. ParsedSoFar(s, g[m], m)
  <2>1. m \in 0 .. m
    BY <1>1
  <2>2. QED
    BY <1>13, <2>1
<1>15. ParsedSoFar(s, ParseSizeT(s), Len(s))
  BY <1>10, <1>14 DEF m
<1>16. CASE ParseSizeT(s) = NoNumber
  BY <1>1, <1>15, <1>16 DEF ParsedSoFar, NumberIn
<1>17. CASE ParseSizeT(s) # NoNumber
  <2>1. /\ ParseSizeT(s) \in 0 .. SizeMax /\ Numeral(s)
        /\ ParseSizeT(s) = NumberIn(s) \/ (NumberIn(s) > SizeMax /\ OverflowsUnnoticed(s))
    BY <1>15, <1>17 DEF ParsedSoFar, NumberIn, Numeral, Unnoticed, OverflowsUnnoticed
  <2>2. QED
    BY <1>1, <1>17, <2>1
<1>18. QED
  BY <1>16, <1>17

-----------------------------------------------------------------------------
(* What the arguments mean.                                                *)

RoleNames == {"rest", "number", "asks", "end", "long", "short", "file"}
RoleStep(before, k) ==
  IF before \in {"end", "rest"} THEN "rest"
  ELSE IF before = "asks" THEN "number"
  ELSE IF argv[k] \in NumberOptions THEN "asks"
  ELSE IF argv[k] = "--" THEN "end"
  ELSE IF StartsWith(argv[k], "--") THEN "long"
  ELSE IF StartsWith(argv[k], "-") THEN "short"
  ELSE "file"

\* The role of the argument before; the first one has none before it.
Before(k) == IF k = 1 THEN "file" ELSE Role[k - 1]

LEMMA RoleIs ==
  ASSUME Len(argv) \in Nat
  PROVE  \A k \in 1 .. Len(argv) : Role[k] \in RoleNames /\ Role[k] = RoleStep(Before(k), k)
<1> DEFINE m == Len(argv)
           G == [p \in RoleNames \X (1 .. m) |-> RoleStep(p[1], p[2])]
           Body(t, k) == IF k > 1 /\ t[k - 1] \in {"end", "rest"} THEN "rest"
                         ELSE IF k > 1 /\ t[k - 1] = "asks" THEN "number"
                         ELSE IF argv[k] \in NumberOptions THEN "asks"
                         ELSE IF argv[k] = "--" THEN "end"
                         ELSE IF StartsWith(argv[k], "--") THEN "long"
                         ELSE IF StartsWith(argv[k], "-") THEN "short"
                         ELSE "file"
           Roles(t) == t = [k \in 1 .. m |-> Body(t, k)]
<1>1. m \in Nat
  OBVIOUS
<1>2. \A x, k : RoleStep(x, k) \in RoleNames
  BY DEF RoleStep, RoleNames
<1>3. G \in [RoleNames \X (1 .. m) -> RoleNames]
  BY <1>2
<1>4. "file" \in RoleNames
  BY DEF RoleNames
<1>5. \A x \in RoleNames : \A k \in 1 .. m : G[<<x, k>>] = RoleStep(x, k)
  OBVIOUS
<1>6. ASSUME NEW t, NEW k \in 1 .. m
      PROVE  Body(t, k) = RoleStep(IF k = 1 THEN "file" ELSE t[k - 1], k)
  <2>1. k > 1 <=> k # 1
    BY <1>1
  <2>2. QED
    BY <2>1 DEF RoleStep
<1> HIDE DEF G, m, Body
<1>7. PICK f : Given(f, m, RoleNames, "file", G)
  BY <1>1, <1>3, <1>4, Recursion
<1> DEFINE t == [k \in 1 .. m |-> f[k]]
<1>8. Roles(t)
  <2>1. /\ f \in [0 .. m -> RoleNames] /\ f[0] = "file"
        /\ \A k \in 1 .. m : f[k] = G[<<f[k - 1], k>>]
    BY <1>7 DEF Given
  <2>2. ASSUME NEW k \in 1 .. m PROVE t[k] = Body(t, k)
    <3>1. k - 1 \in 0 .. m /\ (k # 1 => k - 1 \in 1 .. m)
      BY <1>1
    <3>2. f[k - 1] \in RoleNames /\ f[k] = RoleStep(f[k - 1], k)
      BY <1>5, <2>1, <3>1
    <3>3. f[k - 1] = IF k = 1 THEN "file" ELSE t[k - 1]
      <4>1. CASE k = 1
        BY <2>1, <4>1
      <4>2. CASE k # 1
        BY <3>1, <4>2
      <4>3. QED
        BY <4>1, <4>2
    <3>4. QED
      BY <1>6, <3>2, <3>3
  <2>3. t = [k \in 1 .. m |-> t[k]]
    OBVIOUS
  <2> HIDE DEF t
  <2>4. QED
    BY <2>2, <2>3
<1> DEFINE r == CHOOSE r : Roles(r)
<1>9. Roles(r)
  BY <1>8
<1>10. Role = r
  BY Zenon DEF Role, Body, m
<1> HIDE DEF t, r
<1>11. ASSUME NEW k \in 1 .. m PROVE Role[k] = Body(Role, k)
  BY <1>9, <1>10
<1>12. ASSUME NEW k \in 1 .. m PROVE Role[k] \in RoleNames /\ Role[k] = RoleStep(Before(k), k)
  BY <1>2, <1>6, <1>11 DEF Before
<1>13. QED
  BY <1>12 DEF m

\* Arguments up to p.
HavingUpTo(roles, p) == {k \in 1 .. p : Role[k] \in roles}
Asked(option, p) == {k \in HavingUpTo({"number"}, p) : argv[k - 1] = option}
LastOf(S) == CHOOSE k \in S : \A m \in S : m <= k
NumberUpTo(option, p) ==
  IF Asked(option, p) = {} THEN Default ELSE NumberIn(argv[LastOf(Asked(option, p))])
FlagsUpTo(p) ==
  {HelpLong[NameOf(argv[k])] : k \in HavingUpTo({"long"}, p)}
    \cup UNION {{HelpShort[l] : l \in LettersOf(argv[k])} : k \in HavingUpTo({"short"}, p)}
FileArgs(p) == HavingUpTo({"file", "rest"}, p)
Place(k, p) == Cardinality({m \in FileArgs(p) : m <= k})
FilesAre(names, p) ==
  /\ Len(names) = Cardinality(FileArgs(p))
  /\ \A k \in FileArgs(p) : names[Place(k, p)] = argv[k]

LEMMA OneMore ==
  ASSUME NEW p \in Nat, NEW roles
  PROVE  /\ Role[p + 1] \in roles => HavingUpTo(roles, p + 1) = HavingUpTo(roles, p) \cup {p + 1}
         /\ Role[p + 1] \notin roles => HavingUpTo(roles, p + 1) = HavingUpTo(roles, p)
<1>1. /\ \A k \in 1 .. p + 1 : k = p + 1 \/ k \in 1 .. p
      /\ \A k \in 1 .. p : k \in 1 .. p + 1
      /\ p + 1 \in 1 .. p + 1
  OBVIOUS
<1>2. QED
  BY <1>1 DEF HavingUpTo

LEMMA NumbersStay ==
  ASSUME NEW p \in Nat, NEW option, Role[p + 1] # "number" \/ argv[p] # option
  PROVE  NumberUpTo(option, p + 1) = NumberUpTo(option, p)
<1>1. (p + 1) - 1 = p
  OBVIOUS
<1>2. \/ HavingUpTo({"number"}, p + 1) = HavingUpTo({"number"}, p)
      \/ /\ HavingUpTo({"number"}, p + 1) = HavingUpTo({"number"}, p) \cup {p + 1}
         /\ argv[p] # option
  BY OneMore
<1>3. Asked(option, p + 1) = Asked(option, p)
  BY <1>1, <1>2 DEF Asked
<1>4. QED
  BY <1>3 DEF NumberUpTo

LEMMA NumbersChange ==
  ASSUME NEW p \in Nat, NEW option, Role[p + 1] = "number", argv[p] = option
  PROVE  NumberUpTo(option, p + 1) = NumberIn(argv[p + 1])
<1> DEFINE q == p + 1
           S == Asked(option, q)
<1>1. q \in S /\ S \subseteq 1 .. q
  <2>1. q \in 1 .. q /\ q - 1 = p
    OBVIOUS
  <2> HIDE DEF q
  <2>2. QED
    BY <2>1 DEF Asked, HavingUpTo, q
<1>2. q \in Nat
  OBVIOUS
<1>3. \A k \in S : k <= q /\ k \in Nat
  BY <1>1, <1>2
<1> HIDE DEF q, S
<1>4. LastOf(S) \in S /\ \A m \in S : m <= LastOf(S)
  BY <1>1, <1>3 DEF LastOf
<1>5. LastOf(S) = q
  <2>1. LastOf(S) \in Nat /\ LastOf(S) <= q
    BY <1>3, <1>4
  <2>2. q <= LastOf(S)
    BY <1>1, <1>4
  <2>3. QED
    BY <1>2, <2>1, <2>2
<1>6. S # {}
  BY <1>1
<1>7. NumberUpTo(option, q) = NumberIn(argv[q])
  BY <1>5, <1>6 DEF NumberUpTo, S
<1>8. QED
  BY <1>7 DEF q

LEMMA FlagsMore ==
  ASSUME NEW p \in Nat
  PROVE  /\ Role[p + 1] = "long" => FlagsUpTo(p + 1) = FlagsUpTo(p) \cup {HelpLong[NameOf(argv[p + 1])]}
         /\ Role[p + 1] = "short" =>
              FlagsUpTo(p + 1) = FlagsUpTo(p) \cup {HelpShort[l] : l \in LettersOf(argv[p + 1])}
         /\ Role[p + 1] \notin {"long", "short"} => FlagsUpTo(p + 1) = FlagsUpTo(p)
<1>1. CASE Role[p + 1] = "long"
  <2>1. /\ HavingUpTo({"long"}, p + 1) = HavingUpTo({"long"}, p) \cup {p + 1}
        /\ HavingUpTo({"short"}, p + 1) = HavingUpTo({"short"}, p)
    BY <1>1, OneMore
  <2>2. QED
    BY <1>1, <2>1 DEF FlagsUpTo
<1>2. CASE Role[p + 1] = "short"
  <2>1. /\ HavingUpTo({"long"}, p + 1) = HavingUpTo({"long"}, p)
        /\ HavingUpTo({"short"}, p + 1) = HavingUpTo({"short"}, p) \cup {p + 1}
    BY <1>2, OneMore
  <2>2. QED
    BY <1>2, <2>1 DEF FlagsUpTo
<1>3. CASE Role[p + 1] \notin {"long", "short"}
  <2>1. /\ HavingUpTo({"long"}, p + 1) = HavingUpTo({"long"}, p)
        /\ HavingUpTo({"short"}, p + 1) = HavingUpTo({"short"}, p)
    BY <1>3, OneMore
  <2>2. QED
    BY <1>3, <2>1 DEF FlagsUpTo
<1>4. QED
  BY <1>1, <1>2, <1>3

LEMMA FilesStay ==
  ASSUME NEW p \in Nat, Role[p + 1] \notin {"file", "rest"}, NEW names, FilesAre(names, p)
  PROVE  FilesAre(names, p + 1)
<1>1. FileArgs(p + 1) = FileArgs(p)
  BY OneMore DEF FileArgs
<1>2. QED
  BY <1>1 DEF FilesAre, Place

LEMMA PlacesMore ==
  ASSUME NEW p \in Nat, Role[p + 1] \in {"file", "rest"}
  PROVE  /\ FileArgs(p + 1) = FileArgs(p) \cup {p + 1}
         /\ Cardinality(FileArgs(p)) \in Nat
         /\ Cardinality(FileArgs(p + 1)) = Cardinality(FileArgs(p)) + 1
         /\ \A k \in FileArgs(p) : /\ Place(k, p + 1) = Place(k, p)
                                   /\ Place(k, p) \in 1 .. Cardinality(FileArgs(p))
         /\ Place(p + 1, p + 1) = Cardinality(FileArgs(p + 1))
<1> DEFINE q == p + 1
           F == FileArgs(p)
           E == FileArgs(q)
<1>1. /\ q \in Nat /\ E = F \cup {q} /\ F \subseteq 1 .. p /\ q \notin F
      /\ \A k \in F : k \in Nat /\ k < q /\ k <= k
  <2>1. E = F \cup {q}
    BY OneMore DEF FileArgs
  <2>2. F \subseteq 1 .. p
    BY DEF FileArgs, HavingUpTo
  <2>3. \A k \in 1 .. p : k \in Nat /\ k < q /\ k <= k
    OBVIOUS
  <2>4. q \in Nat /\ q \notin 1 .. p
    OBVIOUS
  <2> HIDE DEF q, E, F
  <2>5. QED
    BY <2>1, <2>2, <2>3, <2>4
<1>2. IsFiniteSet(F)
  <2>1. 1 \in Int /\ p \in Int
    OBVIOUS
  <2>2. IsFiniteSet(1 .. p)
    BY <2>1, FS_Interval
  <2>3. QED
    BY <1>1, <2>2, FS_Subset
<1>3. Cardinality(F) \in Nat /\ Cardinality(E) = Cardinality(F) + 1
  BY <1>1, <1>2, FS_CardinalityType, FS_AddElement
<1> HIDE DEF F, E, q
<1>4. ASSUME NEW k \in F PROVE Place(k, q) = Place(k, p) /\ Place(k, p) \in 1 .. Cardinality(F)
  <2> DEFINE Upto == {m \in F : m <= k}
  <2>1. {m \in E : m <= k} = Upto
    <3>1. k \in Nat /\ k < q /\ q \in Nat
      BY <1>1
    <3>2. ~(q <= k)
      BY <3>1
    <3>3. QED
      BY <1>1, <3>2
  <2>2. Place(k, q) = Cardinality(Upto) /\ Place(k, p) = Cardinality(Upto)
    BY <2>1 DEF Place, E, F
  <2>3. k \in Upto /\ Upto \subseteq F
    BY <1>1
  <2>4. IsFiniteSet(Upto) /\ Cardinality(Upto) <= Cardinality(F)
    BY <1>2, <2>3, FS_Subset
  <2>5. Cardinality(Upto) \in Nat /\ Cardinality(Upto) # 0
    BY <2>3, <2>4, FS_CardinalityType, FS_EmptySet
  <2> DEFINE c == Cardinality(Upto)
             f == Cardinality(F)
  <2>6. c \in Nat /\ c # 0 /\ c <= f /\ f \in Nat
    BY <1>3, <2>4, <2>5
  <2> HIDE DEF c, f
  <2>7. c \in 1 .. f
    BY <2>6
  <2>8. QED
    BY <2>2, <2>7 DEF c, f
<1>5. Place(q, q) = Cardinality(E)
  <2>1. {m \in E : m <= q} = E
    <3>1. q <= q /\ \A k \in F : k <= q
      BY <1>1
    <3>2. QED
      BY <1>1, <3>1
  <2>2. QED
    BY <2>1 DEF Place, E
<1>6. QED
  BY <1>1, <1>3, <1>4, <1>5 DEF q, E, F

LEMMA FilesMore ==
  ASSUME NEW p \in Nat, Role[p + 1] \in {"file", "rest"},
         NEW Names, NEW names \in Seq(Names), argv[p + 1] \in Names, FilesAre(names, p)
  PROVE  FilesAre(Append(names, argv[p + 1]), p + 1)
<1> DEFINE more == Append(names, argv[p + 1])
           F == FileArgs(p)
           E == FileArgs(p + 1)
<1>1. /\ Len(more) = Len(names) + 1 /\ more[Len(names) + 1] = argv[p + 1]
      /\ \A j \in 1 .. Len(names) : more[j] = names[j]
  OBVIOUS
<1>2. Len(names) = Cardinality(F) /\ \A k \in F : names[Place(k, p)] = argv[k]
  BY DEF FilesAre
<1>3. /\ E = F \cup {p + 1} /\ Cardinality(E) = Cardinality(F) + 1
      /\ \A k \in F : Place(k, p + 1) = Place(k, p) /\ Place(k, p) \in 1 .. Cardinality(F)
      /\ Place(p + 1, p + 1) = Cardinality(E)
  BY PlacesMore
<1> HIDE DEF more, F, E
<1>4. Len(more) = Cardinality(E)
  BY <1>1, <1>2, <1>3
<1>5. \A k \in E : more[Place(k, p + 1)] = argv[k]
  BY <1>1, <1>2, <1>3
<1>6. FilesAre(more, p + 1)
  BY <1>4, <1>5 DEF FilesAre, E
<1>7. QED
  BY <1>6 DEF more

-----------------------------------------------------------------------------
(* The arguments that have been read.                                      *)

\* The help's flags are those of the program, but for --notrace.
LEMMA HelpIsRight ==
  /\ HelpShort = ShortFlags
  /\ \A name : name \in DOMAIN HelpLong <=> name \in DOMAIN LongFlags \/ name = "notrace"
  /\ \A name \in DOMAIN LongFlags : HelpLong[name] = LongFlags[name]
<1>1. HelpShort = ShortFlags
  BY DEF HelpShort, ShortFlags
<1>2. /\ DOMAIN HelpLong = DOMAIN LongFlags \cup {"notrace"}
      /\ \A name \in DOMAIN LongFlags : HelpLong[name] = LongFlags[name]
  BY DEF HelpLong, LongFlags
<1>3. QED
  BY <1>1, <1>2

NothingOdd == \A k \in Having({"number"}) : ~(Numeral(argv[k]) /\ OverflowsUnnoticed(argv[k]))
\* The program refuses an argument for being bad or for being --notrace.
AtFault(k) == Bad(k) \/ (Role[k] = "long" /\ NameOf(argv[k]) = "notrace")
IsOptions(o) == o = [flags |-> o.flags, CallStackCap |-> o.CallStackCap, TraceLen |-> o.TraceLen]

\* The first p arguments have been read, and none is bad.
HasRead(names, o, p) ==
  /\ \A k \in 1 .. p : ~ Bad(k)
  /\ o.TraceLen = NumberUpTo("--tracelen", p)
  /\ o.CallStackCap = NumberUpTo("--callstack", p)
  /\ o.flags = FlagsUpTo(p)
  /\ FilesAre(names, p)

\* The argument a is the next one, and is not the number of an option.
AtArgument(a, only) ==
  /\ a \in 1 .. Len(argv) + 1
  /\ only \in BOOLEAN /\ (only <=> Before(a) \in {"end", "rest"})
  /\ Before(a) # "asks"

TextsInv ==
  /\ Len(argv) \in Nat
  /\ \A k \in 1 .. Len(argv) :
       /\ Len(argv[k]) \in Nat
       /\ StartsWith(argv[k], "--") => StartsWith(argv[k], "-")
OptionsInv ==
  /\ TextsInv
  /\ IsOptions(opts)
  /\ stage \notin {"args", "exit"} => arg > Len(argv)
  /\ stage = "exit" /\ arg <= Len(argv) => \E k \in 1 .. Len(argv) : AtFault(k)
  /\ stage = "args" \/ arg > Len(argv) =>
       /\ AtArgument(arg, onlyFiles)
       /\ NothingOdd => \A p \in Nat : p + 1 = arg => HasRead(files, opts, p)

\* What the arguments mean depends on nothing but them.
LEMMA SameArguments ==
  ASSUME argv' = argv
  PROVE  /\ Role' = Role
         /\ TextsInv' <=> TextsInv
         /\ NothingOdd' <=> NothingOdd
         /\ \A k : Bad(k)' <=> Bad(k)
         /\ \A k : AtFault(k)' <=> AtFault(k)
         /\ \A a, only : AtArgument(a, only)' <=> AtArgument(a, only)
         /\ \A names, o, p : HasRead(names, o, p)' <=> HasRead(names, o, p)
<1>1. Role' = Role
  BY Zenon DEF Role
<1>2. TextsInv' <=> TextsInv
  BY DEF TextsInv
<1>3. \A roles : Having(roles)' = Having(roles)
  BY <1>1 DEF Having
<1>4. NothingOdd' <=> NothingOdd
  BY <1>3 DEF NothingOdd
<1>5. \A k : Bad(k)' <=> Bad(k)
  BY <1>1, Zenon DEF Bad
<1>6. \A k : Before(k)' = Before(k)
  BY <1>1 DEF Before
<1>7. \A a, only : AtArgument(a, only)' <=> AtArgument(a, only)
  BY <1>6 DEF AtArgument
<1>8. \A roles, p : HavingUpTo(roles, p)' = HavingUpTo(roles, p)
  BY <1>1 DEF HavingUpTo
<1>9. \A option, p : Asked(option, p)' = Asked(option, p)
  BY <1>8 DEF Asked
<1>10. \A option, p : NumberUpTo(option, p)' = NumberUpTo(option, p)
  BY <1>9 DEF NumberUpTo
<1>11. \A p : FlagsUpTo(p)' = FlagsUpTo(p)
  BY <1>8 DEF FlagsUpTo
<1>12. \A p : FileArgs(p)' = FileArgs(p)
  BY <1>8 DEF FileArgs
<1>13. \A k, p : Place(k, p)' = Place(k, p)
  BY <1>12 DEF Place
<1>14. \A names, p : FilesAre(names, p)' <=> FilesAre(names, p)
  BY <1>12, <1>13 DEF FilesAre
<1>15. \A names, o, p : HasRead(names, o, p)' <=> HasRead(names, o, p)
  BY <1>5, <1>10, <1>11, <1>14 DEF HasRead
<1>16. \A k : AtFault(k)' <=> AtFault(k)
  BY <1>1, <1>5 DEF AtFault
<1>17. QED
  BY <1>1, <1>2, <1>4, <1>5, <1>7, <1>15, <1>16

\* A turn of the loop that goes on.
LEMMA TurnKeeps ==
  ASSUME OptionsInv, stage = "args", NEW a, NEW only, NEW o, NEW names,
         IsOptions(o), AtArgument(a, only),
         NothingOdd => \A p \in Nat : p + 1 = a => HasRead(names, o, p),
         argv' = argv, stage' = stage, arg' = a, onlyFiles' = only, opts' = o, files' = names
  PROVE  OptionsInv'
<1>1. TextsInv'
  BY SameArguments DEF OptionsInv
<1>2. IsOptions(opts)'
  BY DEF IsOptions
<1>3. AtArgument(arg, onlyFiles)'
  BY SameArguments
<1>4. NothingOdd' => \A p \in Nat : p + 1 = arg' => HasRead(files, opts, p)'
  BY SameArguments
<1>5. QED
  BY <1>1, <1>2, <1>3, <1>4 DEF OptionsInv

\* The program gives up at an argument that is bad.
LEMMA RefusalKeeps ==
  ASSUME OptionsInv, Refuse, arg <= Len(argv), arg \in Nat, NEW k \in 1 .. Len(argv), AtFault(k)
  PROVE  OptionsInv'
<1>1. stage' = "exit" /\ argv' = argv /\ arg' = arg /\ opts' = opts
  BY DEF Refuse, argVars
<1>2. TextsInv' /\ AtFault(k)'
  BY <1>1, SameArguments DEF OptionsInv
<1>3. IsOptions(opts)'
  BY <1>1 DEF OptionsInv, IsOptions
<1>4. ~(arg' > Len(argv'))
  BY <1>1 DEF OptionsInv, TextsInv
<1>5. QED
  BY <1>1, <1>2, <1>3, <1>4 DEF OptionsInv

\* The arguments have been read.
LEMMA LaterKeeps ==
  ASSUME OptionsInv, UNCHANGED argVars, arg > Len(argv) \/ stage' = stage
  PROVE  OptionsInv'
<1>1. /\ argv' = argv /\ arg' = arg /\ onlyFiles' = onlyFiles /\ opts' = opts /\ files' = files
  BY DEF argVars
<1>2. TextsInv' /\ IsOptions(opts)'
  BY <1>1, SameArguments DEF OptionsInv, IsOptions
<1>3. AtArgument(arg, onlyFiles)' <=> AtArgument(arg, onlyFiles)
  BY <1>1, SameArguments
<1>4. /\ NothingOdd' <=> NothingOdd
      /\ \A p : HasRead(files, opts, p)' <=> HasRead(files, opts, p)
      /\ \A k : AtFault(k)' <=> AtFault(k)
  BY <1>1, SameArguments
<1>5. CASE arg > Len(argv)
  <2>1. arg' > Len(argv') /\ ~(arg' <= Len(argv'))
    <3>1. arg \in Nat /\ Len(argv) \in Nat
      BY <1>5 DEF OptionsInv, TextsInv, AtArgument
    <3>2. ~(arg <= Len(argv))
      BY <1>5, <3>1
    <3>3. QED
      BY <1>1, <1>5, <3>2
  <2>2. QED
    BY <1>1, <1>2, <1>3, <1>4, <1>5, <2>1 DEF OptionsInv
<1>6. CASE stage' = stage
  BY <1>1, <1>2, <1>3, <1>4, <1>6 DEF OptionsInv
<1>7. QED
  BY <1>5, <1>6

\* One argument more: a file, a flag or the end of the options, a number.
LEMMA FileRead ==
  ASSUME NEW p \in Nat, Role[p + 1] \in {"file", "rest"}, NEW o,
         NEW Names, NEW names \in Seq(Names), argv[p + 1] \in Names, HasRead(names, o, p)
  PROVE  HasRead(Append(names, argv[p + 1]), o, p + 1)
<1>1. ~ Bad(p + 1)
  BY Zenon DEF Bad
<1>2. \A k \in 1 .. p + 1 : ~ Bad(k)
  <2>1. \A k \in 1 .. p + 1 : k = p + 1 \/ k \in 1 .. p
    OBVIOUS
  <2>2. QED
    BY <1>1, <2>1 DEF HasRead
<1>3. \A option : NumberUpTo(option, p + 1) = NumberUpTo(option, p)
  BY NumbersStay
<1>4. FlagsUpTo(p + 1) = FlagsUpTo(p)
  BY FlagsMore
<1>5. FilesAre(Append(names, argv[p + 1]), p + 1)
  BY FilesMore DEF HasRead
<1>6. QED
  BY <1>2, <1>3, <1>4, <1>5 DEF HasRead

LEMMA FlagRead ==
  ASSUME NEW p \in Nat, Role[p + 1] \in {"long", "short", "end"}, ~ Bad(p + 1),
         NEW o, NEW names, HasRead(names, o, p), NEW q, q.flags = FlagsUpTo(p + 1),
         q.TraceLen = o.TraceLen, q.CallStackCap = o.CallStackCap
  PROVE  HasRead(names, q, p + 1)
<1>1. \A k \in 1 .. p + 1 : ~ Bad(k)
  <2>1. \A k \in 1 .. p + 1 : k = p + 1 \/ k \in 1 .. p
    OBVIOUS
  <2>2. QED
    BY <2>1 DEF HasRead
<1>2. \A option : NumberUpTo(option, p + 1) = NumberUpTo(option, p)
  BY NumbersStay
<1>3. FilesAre(names, p + 1)
  BY FilesStay DEF HasRead
<1>4. QED
  BY <1>1, <1>2, <1>3 DEF HasRead

LEMMA NumberRead ==
  ASSUME NEW p \in Nat, Role[p + 1] = "asks", Role[p + 2] = "number", ~ Bad(p + 1), ~ Bad(p + 2),
         NEW o, NEW names, HasRead(names, o, p), argv[p + 1] \in NumberOptions,
         NEW q, q.flags = o.flags,
         q.TraceLen = IF argv[p + 1] = "--tracelen" THEN NumberIn(argv[p + 2]) ELSE o.TraceLen,
         q.CallStackCap = IF argv[p + 1] = "--tracelen" THEN o.CallStackCap ELSE NumberIn(argv[p + 2])
  PROVE  HasRead(names, q, p + 2)
<1> DEFINE m == p + 1
<1>1. m \in Nat /\ m + 1 = p + 2
  OBVIOUS
<1>2. \A k \in 1 .. p + 2 : ~ Bad(k)
  <2>1. \A k \in 1 .. p + 2 : k = p + 1 \/ k = p + 2 \/ k \in 1 .. p
    OBVIOUS
  <2>2. QED
    BY <2>1 DEF HasRead
<1>3. FlagsUpTo(p + 1) = FlagsUpTo(p)
  BY FlagsMore
<1>4. FilesAre(names, p + 1)
  BY FilesStay DEF HasRead
<1>5. \A option : NumberUpTo(option, p + 1) = NumberUpTo(option, p)
  BY NumbersStay
<1> HIDE DEF m
<1>6. FlagsUpTo(m + 1) = FlagsUpTo(m)
  BY <1>1, FlagsMore
<1>7. Role[m + 1] = "number" /\ Role[m] = "asks"
  BY <1>1 DEF m
<1>8. FilesAre(names, m + 1)
  <2>1. FilesAre(names, m)
    BY <1>4 DEF m
  <2>2. Role[m + 1] \notin {"file", "rest"}
    BY <1>7
  <2>3. QED
    BY <1>1, <2>1, <2>2, FilesStay
<1>9. \A option : argv[m] # option => NumberUpTo(option, m + 1) = NumberUpTo(option, m)
  BY <1>1, NumbersStay
<1>10. NumberUpTo(argv[m], m + 1) = NumberIn(argv[m + 1])
  BY <1>1, <1>7, NumbersChange
<1>11. \A option : NumberUpTo(option, p + 2) = IF argv[p + 1] = option THEN NumberIn(argv[p + 2])
                                               ELSE NumberUpTo(option, p)
  <2>1. \A option : NumberUpTo(option, m) = NumberUpTo(option, p)
    BY <1>5 DEF m
  <2>2. argv[m] = argv[p + 1]
    BY DEF m
  <2>3. QED
    BY <1>1, <1>9, <1>10, <2>1, <2>2
<1>12. "--tracelen" # "--callstack" /\ argv[p + 1] \in {"--tracelen", "--callstack"}
  BY DEF NumberOptions
<1>13. /\ q.TraceLen = NumberUpTo("--tracelen", p + 2)
       /\ q.CallStackCap = NumberUpTo("--callstack", p + 2)
  BY <1>11, <1>12 DEF HasRead
<1>14. q.flags = FlagsUpTo(p + 2) /\ FilesAre(names, p + 2)
  <2>1. FlagsUpTo(m + 1) = FlagsUpTo(p)
    BY <1>3, <1>6 DEF m
  <2>2. QED
    BY <1>1, <1>8, <2>1 DEF HasRead
<1>15. QED
  BY <1>2, <1>13, <1>14 DEF HasRead

\* What the loop of InterpretArgs decides by is the role of the argument.
LEMMA RoleNow ==
  ASSUME TextsInv, NEW k \in 1 .. Len(argv), NEW only, AtArgument(k, only)
  PROVE  /\ only => Role[k] = "rest"
         /\ ~ only =>
              /\ argv[k] \in NumberOptions => Role[k] = "asks"
              /\ argv[k] = "--" => Role[k] = "end"
              /\ StartsWith(argv[k], "--") /\ argv[k] \notin NumberOptions \cup {"--"} => Role[k] = "long"
              /\ StartsWith(argv[k], "-") /\ ~ StartsWith(argv[k], "--") => Role[k] = "short"
              /\ ~ StartsWith(argv[k], "-") => Role[k] = "file"
<1>1. Role[k] = RoleStep(Before(k), k) /\ Before(k) # "asks" /\ (only <=> Before(k) \in {"end", "rest"})
  BY RoleIs DEF TextsInv, AtArgument
<1>2. /\ StartsWith(argv[k], "--") => StartsWith(argv[k], "-")
      /\ argv[k] \in NumberOptions \cup {"--"} => StartsWith(argv[k], "--") /\ StartsWith(argv[k], "-")
  BY StringAssumption DEF TextsInv
<1>3. "--" \notin NumberOptions
  BY DEF NumberOptions
<1>4. QED
  BY <1>1, <1>2, <1>3 DEF RoleStep

\* A turn of the loop.
LEMMA TurnsKeep ==
  ASSUME MainInv, OptionsInv, InterpretArgs
  PROVE  OptionsInv'
<1>1. /\ stage = "args" /\ arg <= Len(argv)
      /\ FileName \/ EndOfOptions \/ NumberOption \/ LongFlag \/ ShortFlagsOf
  BY Zenon DEF InterpretArgs
<1>2. /\ TextsInv /\ Len(argv) \in Nat /\ IsOptions(opts) /\ AtArgument(arg, onlyFiles)
      /\ NothingOdd => \A p \in Nat : p + 1 = arg => HasRead(files, opts, p)
  BY <1>1 DEF OptionsInv, TextsInv
<1>3. arg \in 1 .. Len(argv) /\ arg \in Nat
  BY <1>1, <1>2 DEF AtArgument
<1>4. PICK p \in Nat : p + 1 = arg
  <2>1. arg - 1 \in Nat /\ (arg - 1) + 1 = arg
    BY <1>3
  <2>2. QED
    BY <2>1
<1>5. /\ arg + 1 \in 1 .. Len(argv) + 1 /\ Before(arg + 1) = Role[arg]
      /\ arg + 1 # 1 /\ (arg + 1) - 1 = arg
      /\ \A m \in Nat : m + 1 = arg + 1 => m = p + 1
  BY <1>2, <1>3, <1>4 DEF Before
<1>6. NothingOdd => HasRead(files, opts, p)
  BY <1>2, <1>4
<1>7. files \in Seq(DOMAIN disk) /\ argv[arg] \in DOMAIN disk
  BY <1>3 DEF MainInv, WorldInv
<1>8. ASSUME NEW only \in BOOLEAN, NEW o, NEW names, IsOptions(o), Role[arg] # "asks",
             only <=> Role[arg] \in {"end", "rest"},
             NothingOdd => HasRead(names, o, p + 1),
             Read(names, o, arg + 1), onlyFiles' = only
      PROVE  OptionsInv'
  <2>1. argv' = argv /\ stage' = stage /\ arg' = arg + 1 /\ opts' = o /\ files' = names
    BY <1>8 DEF Read
  <2>2. AtArgument(arg + 1, only)
    BY <1>5, <1>8 DEF AtArgument
  <2>3. NothingOdd => \A m \in Nat : m + 1 = arg + 1 => HasRead(names, o, m)
    BY <1>5, <1>8
  <2>4. QED
    BY <1>1, <1>8, <2>1, <2>2, <2>3, TurnKeeps
<1>9. ASSUME NEW flags, ReadFlags(flags), Role[arg] \in {"long", "short"}, ~ Bad(arg),
             FlagsUpTo(p + 1) = FlagsUpTo(p) \cup flags, ~ onlyFiles
      PROVE  OptionsInv'
  <2> DEFINE o == [opts EXCEPT !.flags = @ \cup flags]
  <2>1. Read(files, o, arg + 1) /\ onlyFiles' = onlyFiles
    BY <1>9 DEF ReadFlags
  <2>2. /\ IsOptions(o) /\ o.flags = opts.flags \cup flags
        /\ o.TraceLen = opts.TraceLen /\ o.CallStackCap = opts.CallStackCap
    <3> DEFINE more == opts.flags \cup flags
    <3>1. o = [opts EXCEPT !.flags = more]
      OBVIOUS
    <3> HIDE DEF o, more
    <3>2. o = [flags |-> more, CallStackCap |-> opts.CallStackCap, TraceLen |-> opts.TraceLen]
      BY <1>2, <3>1 DEF IsOptions
    <3>3. /\ IsOptions(o) /\ o.flags = more
          /\ o.TraceLen = opts.TraceLen /\ o.CallStackCap = opts.CallStackCap
      BY <3>2 DEF IsOptions
    <3>4. QED
      BY <3>3 DEF more
  <2> HIDE DEF o
  <2>3. ASSUME NothingOdd PROVE HasRead(files, o, p + 1)
    <3>1. HasRead(files, opts, p)
      BY <1>6, <2>3
    <3>2. o.flags = FlagsUpTo(p + 1)
      BY <1>9, <2>2, <3>1 DEF HasRead
    <3>3. Role[p + 1] \in {"long", "short", "end"} /\ ~ Bad(p + 1)
      BY <1>4, <1>9
    <3>4. QED
      BY <2>2, <3>1, <3>2, <3>3, FlagRead
  <2>4. onlyFiles' = FALSE
    BY <1>2, <1>9, <2>1 DEF AtArgument
  <2>5. QED
    BY <1>8, <1>9, <2>1, <2>2, <2>3, <2>4
<1>10. ASSUME Refuse, NEW k \in 1 .. Len(argv), AtFault(k) PROVE OptionsInv'
  BY <1>1, <1>3, <1>10, RefusalKeeps
<1>11. CASE FileName
  <2>1. /\ onlyFiles \/ ~ StartsWith(argv[arg], "-")
        /\ Read(Append(files, argv[arg]), opts, arg + 1) /\ onlyFiles' = onlyFiles
    BY <1>11 DEF FileName
  <2>2. Role[arg] = IF onlyFiles THEN "rest" ELSE "file"
    BY <1>2, <1>3, <2>1, RoleNow
  <2>3. NothingOdd => HasRead(Append(files, argv[arg]), opts, p + 1)
    BY <1>4, <1>6, <1>7, <2>2, FileRead
  <2>4. onlyFiles \in BOOLEAN
    BY <1>2 DEF AtArgument
  <2>5. QED
    BY <1>2, <1>8, <2>1, <2>2, <2>3, <2>4
<1>12. CASE EndOfOptions
  <2>1. ~ onlyFiles /\ argv[arg] = "--" /\ onlyFiles' = TRUE /\ Read(files, opts, arg + 1)
    BY <1>12 DEF EndOfOptions
  <2>2. Role[arg] = "end"
    BY <1>2, <1>3, <2>1, RoleNow
  <2>3. ASSUME NothingOdd PROVE HasRead(files, opts, p + 1)
    <3>1. ~ Bad(p + 1)
      BY <1>4, <2>2, Zenon DEF Bad
    <3>2. FlagsUpTo(p + 1) = FlagsUpTo(p)
      BY <1>4, <2>2, FlagsMore
    <3>3. HasRead(files, opts, p) /\ opts.flags = FlagsUpTo(p + 1)
      BY <1>6, <2>3, <3>2 DEF HasRead
    <3>4. QED
      BY <1>4, <2>2, <3>1, <3>3, FlagRead
  <2>4. QED
    BY <1>2, <1>8, <2>1, <2>2, <2>3
<1>13. CASE NumberOption
  <2>1. ~ onlyFiles /\ argv[arg] \in NumberOptions
    BY <1>13 DEF NumberOption
  <2>2. Role[arg] = "asks"
    BY <1>2, <1>3, <2>1, RoleNow
  <2>3. CASE arg = Len(argv)
    <3>1. Refuse
      BY <1>13, <2>3 DEF NumberOption
    <3>2. AtFault(arg)
      BY <2>2, <2>3, Zenon DEF Bad, AtFault
    <3>3. QED
      BY <1>3, <1>10, <3>1, <3>2
  <2>4. CASE arg # Len(argv)
    <3> DEFINE s == argv[arg + 1]
               v == ParseSizeT(s)
               o == IF argv[arg] = "--tracelen" THEN [opts EXCEPT !.TraceLen = v]
                    ELSE [opts EXCEPT !.CallStackCap = v]
    <3>1. (v = NoNumber /\ Refuse) \/ (v # NoNumber /\ Read(files, o, arg + 2) /\ onlyFiles' = onlyFiles)
      BY Zenon, <1>13, <2>4 DEF NumberOption, AfterNumber
    <3>2. /\ arg + 1 \in 1 .. Len(argv) /\ arg + 2 \in 1 .. Len(argv) + 1
          /\ p + 2 = arg + 1 /\ arg + 2 # 1 /\ (arg + 2) - 1 = arg + 1
          /\ \A m \in Nat : m + 1 = arg + 2 => m = p + 2
      BY <1>2, <1>3, <1>4, <2>4
    <3>3. Role[arg + 1] = "number"
      <4>1. Role[arg + 1] = RoleStep(Before(arg + 1), arg + 1)
        BY <1>2, <3>2, RoleIs
      <4>2. QED
        BY <1>5, <2>2, <4>1 DEF RoleStep
    <3>4. Len(s) \in Nat
      BY <1>2, <3>2 DEF TextsInv
    <3>5. /\ v = NoNumber => ~ Numeral(s) \/ NumberIn(s) > SizeMax
          /\ v # NoNumber =>
               /\ Numeral(s)
               /\ ~ OverflowsUnnoticed(s) => v = NumberIn(s) /\ ~(NumberIn(s) > SizeMax)
      BY <3>4, ParseIs
    <3>6. Bad(arg + 1) <=> ~ Numeral(s) \/ NumberIn(s) > SizeMax
      BY <3>3, Zenon DEF Bad
    <3> HIDE DEF s, v
    <3>7. CASE v = NoNumber /\ Refuse
      BY <1>10, <3>2, <3>5, <3>6, <3>7 DEF AtFault
    <3>8. CASE v # NoNumber /\ Read(files, o, arg + 2) /\ onlyFiles' = onlyFiles
      <4>1. argv' = argv /\ stage' = stage /\ arg' = arg + 2 /\ opts' = o /\ files' = files
        BY <3>8 DEF Read
      <4>2. /\ IsOptions(o) /\ o.flags = opts.flags
            /\ o.TraceLen = IF argv[arg] = "--tracelen" THEN v ELSE opts.TraceLen
            /\ o.CallStackCap = IF argv[arg] = "--tracelen" THEN opts.CallStackCap ELSE v
        BY <1>2 DEF IsOptions
      <4> HIDE DEF o
      <4>3. AtArgument(arg + 2, onlyFiles)
        <5>1. Before(arg + 2) = "number"
          BY <3>2, <3>3 DEF Before
        <5>2. onlyFiles = FALSE
          BY <1>2, <2>1 DEF AtArgument
        <5>3. QED
          BY <3>2, <5>1, <5>2 DEF AtArgument
      <4>4. ASSUME NothingOdd PROVE HasRead(files, o, p + 2)
        <5>1. arg + 1 \in Having({"number"})
          <6>1. DOMAIN argv = 1 .. Len(argv)
            BY DEF MainInv, WorldInv
          <6>2. QED
            BY <3>2, <3>3, <6>1 DEF Having
        <5>2. v = NumberIn(s) /\ ~ Bad(arg + 1)
          BY <3>5, <3>6, <3>8, <4>4, <5>1 DEF NothingOdd, s
        <5>3. ~ Bad(arg)
          BY <2>2, <2>4, Zenon DEF Bad
        <5>4. HasRead(files, opts, p)
          BY <1>6, <4>4
        <5>5. /\ Role[p + 1] = "asks" /\ Role[p + 2] = "number" /\ ~ Bad(p + 1) /\ ~ Bad(p + 2)
              /\ argv[p + 1] = argv[arg] /\ NumberIn(argv[p + 2]) = v /\ argv[p + 1] \in NumberOptions
          BY <1>4, <2>1, <2>2, <3>2, <3>3, <5>2, <5>3 DEF s
        <5>6. QED
          BY <4>2, <5>4, <5>5, NumberRead
      <4>5. NothingOdd => \A m \in Nat : m + 1 = arg + 2 => HasRead(files, o, m)
        BY <3>2, <4>4
      <4>6. QED
        BY <1>1, <3>8, <4>1, <4>2, <4>3, <4>5, TurnKeeps
    <3>9. QED
      BY <3>1, <3>7, <3>8
  <2>5. QED
    BY <2>3, <2>4
<1>14. CASE LongFlag
  <2>1. ~ onlyFiles /\ StartsWith(argv[arg], "--") /\ argv[arg] \notin NumberOptions \cup {"--"}
    BY <1>14 DEF LongFlag
  <2>2. Role[arg] = "long" /\ Role[p + 1] = "long"
    BY <1>2, <1>3, <1>4, <2>1, RoleNow
  <2> DEFINE name == NameOf(argv[arg])
  <2>3. Bad(arg) <=> name \notin DOMAIN HelpLong
    BY <2>2, Zenon DEF Bad
  <2>4. FlagsUpTo(p + 1) = FlagsUpTo(p) \cup {HelpLong[name]}
    BY <1>4, <2>2, FlagsMore
  <2>5. IF name \in DOMAIN LongFlags THEN ReadFlags({LongFlags[name]}) ELSE Refuse
    BY Zenon, <1>14 DEF LongFlag
  <2>6. Role[arg] = "long" /\ NameOf(argv[arg]) = name
    BY <2>2
  <2> HIDE DEF name
  <2>7. CASE name \in DOMAIN LongFlags
    <3>1. ~ Bad(arg) /\ HelpLong[name] = LongFlags[name]
      BY <2>3, <2>7, HelpIsRight
    <3>2. QED
      BY <1>9, <2>1, <2>2, <2>4, <2>5, <2>7, <3>1
  <2>8. CASE name \notin DOMAIN LongFlags
    <3>1. AtFault(arg)
      BY <2>3, <2>6, <2>8, HelpIsRight DEF AtFault
    <3>2. QED
      BY <1>3, <1>10, <2>5, <2>8, <3>1
  <2>9. QED
    BY <2>7, <2>8
<1>15. CASE ShortFlagsOf
  <2> DEFINE letters == LettersOf(argv[arg])
  <2>1. ~ onlyFiles /\ StartsWith(argv[arg], "-") /\ ~ StartsWith(argv[arg], "--")
    BY <1>15 DEF ShortFlagsOf
  <2>2. Role[arg] = "short" /\ Role[p + 1] = "short"
    BY <1>2, <1>3, <1>4, <2>1, RoleNow
  <2>3. Bad(arg) <=> ~(letters \subseteq DOMAIN ShortFlags)
    BY <2>2, HelpIsRight, Zenon DEF Bad
  <2>4. FlagsUpTo(p + 1) = FlagsUpTo(p) \cup {ShortFlags[l] : l \in letters}
    <3>1. FlagsUpTo(p + 1) = FlagsUpTo(p) \cup {HelpShort[l] : l \in letters}
      BY <1>4, <2>2, FlagsMore
    <3>2. HelpShort = ShortFlags
      BY HelpIsRight
    <3>3. QED
      BY <3>1, <3>2
  <2>5. IF letters \subseteq DOMAIN ShortFlags THEN ReadFlags({ShortFlags[l] : l \in letters}) ELSE Refuse
    BY Zenon, <1>15 DEF ShortFlagsOf
  <2> HIDE DEF letters
  <2>6. CASE letters \subseteq DOMAIN ShortFlags
    BY <1>9, <2>1, <2>2, <2>3, <2>4, <2>5, <2>6
  <2>7. CASE ~(letters \subseteq DOMAIN ShortFlags)
    BY <1>3, <1>10, <2>3, <2>5, <2>7 DEF AtFault
  <2>8. QED
    BY <2>6, <2>7
<1>16. QED
  BY <1>1, <1>11, <1>12, <1>13, <1>14, <1>15

LEMMA OptionsAtStart ==
  ASSUME Init
  PROVE  OptionsInv
<1>1. arg = 1 /\ onlyFiles = FALSE /\ files = <<>> /\ stage = "args"
  BY Zenon DEF Init
<1>2. opts = [flags |-> {}, CallStackCap |-> Default, TraceLen |-> Default]
  BY Zenon DEF Init
<1>3. argv \in Seq(DOMAIN disk) /\ DOMAIN argv = 1 .. Len(argv) /\ Len(argv) \in Nat
  <2>1. argv \in Seq(DOMAIN disk)
    BY InitIs DEF MainInv, WorldInv
  <2>2. QED
    BY <2>1
<1>4. TextsInv
  <2>1. PICK world \in Worlds : argv = world.argv
    BY Zenon DEF Init
  <2>2. \A k \in DOMAIN argv : Len(argv[k]) \in Nat /\ (StartsWith(argv[k], "--") => StartsWith(argv[k], "-"))
    BY <2>1, StringAssumption, Zenon
  <2>3. QED
    BY <1>3, <2>2 DEF TextsInv
<1>5. IsOptions(opts) /\ opts.flags = {} /\ opts.CallStackCap = Default /\ opts.TraceLen = Default
  BY <1>2 DEF IsOptions
<1>6. AtArgument(1, FALSE)
  <2>1. 1 \in 1 .. Len(argv) + 1
    BY <1>3
  <2>2. QED
    BY <2>1 DEF AtArgument, Before
<1>7. \A roles : HavingUpTo(roles, 0) = {}
  <2>1. 1 .. 0 = {}
    OBVIOUS
  <2>2. QED
    BY <2>1 DEF HavingUpTo
<1>8. FilesAre(<<>>, 0)
  <2>1. FileArgs(0) = {}
    BY <1>7 DEF FileArgs
  <2>2. Len(<<>>) = 0 /\ Cardinality({}) = 0
    BY FS_EmptySet
  <2>3. QED
    BY <2>1, <2>2 DEF FilesAre
<1>9. HasRead(files, opts, 0)
  <2>1. \A option : NumberUpTo(option, 0) = Default
    BY <1>7 DEF NumberUpTo, Asked
  <2>2. FlagsUpTo(0) = {}
    BY <1>7 DEF FlagsUpTo
  <2>3. \A k \in 1 .. 0 : ~ Bad(k)
    OBVIOUS
  <2>4. QED
    BY <1>1, <1>5, <1>8, <2>1, <2>2, <2>3 DEF HasRead
<1>10. \A p \in Nat : p + 1 = 1 => p = 0
  OBVIOUS
<1>11. QED
  BY <1>1, <1>4, <1>5, <1>6, <1>9, <1>10 DEF OptionsInv

LEMMA OptionsStay ==
  ASSUME MainInv, OptionsInv, [Next]_vars
  PROVE  OptionsInv'
<1>1. CASE InterpretArgs
  BY <1>1, TurnsKeep
<1>2. ASSUME UNCHANGED argVars, stage \notin {"args", "exit"} PROVE OptionsInv'
  <2>1. arg > Len(argv)
    BY <1>2 DEF OptionsInv
  <2>2. QED
    BY <1>2, <2>1, LaterKeeps
<1>3. CASE ArgsRead
  <2>1. UNCHANGED argVars /\ arg > Len(argv)
    BY <1>3 DEF ArgsRead
  <2>2. QED
    BY <2>1, LaterKeeps
<1>4. CASE Open
  <2>1. UNCHANGED argVars /\ stage = "files"
    BY Zenon, <1>4 DEF Open, Return
  <2>2. QED
    BY <1>2, <2>1
<1>5. CASE Tokenize
  <2>1. UNCHANGED argVars /\ stage = "lexer"
    BY Zenon, <1>5 DEF Tokenize
  <2>2. QED
    BY <1>2, <2>1
<1>6. CASE Tokenized
  <2>1. UNCHANGED argVars /\ stage = "lexer"
    BY Zenon, <1>6 DEF Tokenized, Return, Enter
  <2>2. QED
    BY <1>2, <2>1
<1>7. CASE Parse
  <2>1. UNCHANGED argVars /\ stage = "syntax"
    BY Zenon, <1>7 DEF Parse, Return, Enter, Die
  <2>2. QED
    BY <1>2, <2>1
<1>8. CASE Parsed
  <2>1. UNCHANGED argVars /\ stage = "parsed"
    BY Zenon, <1>8 DEF Parsed, Return, Enter
  <2>2. QED
    BY <1>2, <2>1
<1>9. CASE Analyze
  <2>1. UNCHANGED argVars /\ stage = "semantics"
    BY Zenon, <1>9 DEF Analyze, Return, Enter, Die
  <2>2. QED
    BY <1>2, <2>1
<1>10. CASE Analyzed
  <2>1. UNCHANGED argVars /\ stage = "analyzed"
    BY Zenon, <1>10 DEF Analyzed, Return, Enter
  <2>2. QED
    BY <1>2, <2>1
<1>11. CASE Run
  <2>1. UNCHANGED argVars /\ stage = "run"
    BY Zenon, <1>11 DEF Run, Return, Die
  <2>2. QED
    BY <1>2, <2>1
<1>12. CASE Exit
  <2>1. UNCHANGED argVars /\ stage = "files"
    BY Zenon, <1>12 DEF Exit
  <2>2. QED
    BY <1>2, <2>1
<1>13. CASE UNCHANGED vars
  <2>1. UNCHANGED argVars /\ stage' = stage
    BY <1>13 DEF vars, mainVars
  <2>2. QED
    BY <2>1, LaterKeeps
<1>14. QED
  BY <1>1, <1>3, <1>4, <1>5, <1>6, <1>7, <1>8, <1>9, <1>10, <1>11, <1>12, <1>13 DEF Next

\* When all arguments have been read, they mean what is said of the last one.
LEMMA OptionsAre ==
  ASSUME MainInv, OptionsInv, Constructs = {}
  PROVE  OptionsAreRight
<1> DEFINE N == Len(argv)
           NumberOf(option) ==
             LET asked == {k \in Having({"number"}) : argv[k - 1] = option}
             IN IF asked = {} THEN Default
                ELSE NumberIn(argv[CHOOSE k \in asked : \A m \in asked : m <= k])
<1>1. N \in Nat /\ DOMAIN argv = 1 .. N
  BY DEF MainInv, WorldInv
<1>2. \A roles : Having(roles) = HavingUpTo(roles, N)
  BY <1>1 DEF Having, HavingUpTo
<1>3. ASSUME NEW option PROVE NumberOf(option) = NumberUpTo(option, N)
  <2> DEFINE S == {k \in Having({"number"}) : argv[k - 1] = option}
  <2>1. S = Asked(option, N)
    BY <1>2 DEF Asked
  <2>2. NumberOf(option) = IF S = {} THEN Default ELSE NumberIn(argv[LastOf(S)])
    BY Zenon DEF LastOf
  <2> HIDE DEF S, NumberOf
  <2>3. QED
    BY <2>1, <2>2 DEF NumberUpTo
<1>4. ASSUME Promised("notrace"), stage = "exit", arg <= N PROVE \E k \in DOMAIN argv : Bad(k)
  <2>1. PICK k \in DOMAIN argv : AtFault(k)
    BY <1>1, <1>4 DEF OptionsInv
  <2>2. ~ \E m \in Having({"long"}) : NameOf(argv[m]) = "notrace"
    BY <1>4 DEF Promised, OddArguments, OddConstructs
  <2>3. QED
    BY <2>1, <2>2 DEF AtFault, Having
<1>5. ASSUME NothingOdd, arg > N
      PROVE  /\ \A k \in DOMAIN argv : ~ Bad(k)
             /\ opts.TraceLen = NumberOf("--tracelen")
             /\ opts.CallStackCap = NumberOf("--callstack")
             /\ opts.flags = {HelpLong[NameOf(argv[k])] : k \in Having({"long"})}
                               \cup UNION {{HelpShort[l] : l \in LettersOf(argv[k])} : k \in Having({"short"})}
             /\ Len(files) = Cardinality(Having({"file", "rest"}))
             /\ \A k \in Having({"file", "rest"}) :
                  files[Cardinality({m \in Having({"file", "rest"}) : m <= k})] = argv[k]
  <2>1. AtArgument(arg, onlyFiles) /\ \A p \in Nat : p + 1 = arg => HasRead(files, opts, p)
    BY <1>5 DEF OptionsInv
  <2>2. N + 1 = arg
    <3>1. arg \in 1 .. N + 1
      BY <2>1 DEF AtArgument
    <3>2. QED
      BY <1>1, <1>5, <3>1
  <2>3. HasRead(files, opts, N)
    BY <1>1, <2>1, <2>2
  <2>4. /\ \A k \in DOMAIN argv : ~ Bad(k)
        /\ opts.TraceLen = NumberUpTo("--tracelen", N)
        /\ opts.CallStackCap = NumberUpTo("--callstack", N)
        /\ opts.flags = FlagsUpTo(N)
        /\ FilesAre(files, N)
    BY <1>1, <2>3 DEF HasRead
  <2>5. FlagsUpTo(N) = {HelpLong[NameOf(argv[k])] : k \in Having({"long"})}
                         \cup UNION {{HelpShort[l] : l \in LettersOf(argv[k])} : k \in Having({"short"})}
    BY <1>2 DEF FlagsUpTo
  <2>6. FileArgs(N) = Having({"file", "rest"})
    BY <1>2 DEF FileArgs
  <2>7. /\ Len(files) = Cardinality(Having({"file", "rest"}))
        /\ \A k \in Having({"file", "rest"}) :
             files[Cardinality({m \in Having({"file", "rest"}) : m <= k})] = argv[k]
    BY <2>4, <2>6 DEF FilesAre, Place
  <2> HIDE DEF NumberOf, N
  <2>8. QED
    BY <1>3, <2>4, <2>5, <2>7
<1>6. Promised("overflow") => NothingOdd
  BY DEF Promised, OddArguments, OddConstructs, NothingOdd
<1>7. QED
  BY <1>4, <1>5, <1>6, Zenon DEF OptionsAreRight

-----------------------------------------------------------------------------
(* Which tokens are words.                                                 *)

RankOf(type) == CHOOSE k \in DOMAIN Types : Types[k] = type
AlphabeticRanks == <<20, 21, 22, 23, 24, 25, 27, 28, 30, 31, 32, 35, 36, 37, 38, 39, 40, 41,
                     42, 43, 44, 45, 46, 47, 48>>

\* alphabeticTokens is sorted.
LEMMA RanksAre ==
  ASSUME NEW j \in 1 .. 25
  PROVE  RankOf(alphabeticTokens[j]) = AlphabeticRanks[j]
<1>1. DOMAIN Types = 1 .. 53
  BY DEF Types
<1>2. AlphabeticRanks[j] \in 1 .. 53 /\ Types[AlphabeticRanks[j]] = alphabeticTokens[j]
  BY DEF AlphabeticRanks, Types, alphabeticTokens
<1>3. \A k \in 1 .. 53 : Types[k] = alphabeticTokens[j] => k = AlphabeticRanks[j]
  BY SMTT(60) DEF AlphabeticRanks, Types, alphabeticTokens
<1>4. QED
  BY <1>1, <1>2, <1>3 DEF RankOf

LEMMA RanksAreSorted ==
  /\ DOMAIN alphabeticTokens = 1 .. 25 /\ Len(alphabeticTokens) = 25
  /\ \A j, k \in 1 .. 25 : j < k => AlphabeticRanks[j] < AlphabeticRanks[k]
<1>1. DOMAIN alphabeticTokens = 1 .. 25 /\ Len(alphabeticTokens) = 25
  BY DEF alphabeticTokens
<1>2. \A j, k \in 1 .. 25 : j < k => AlphabeticRanks[j] < AlphabeticRanks[k]
  BY SMTT(60) DEF AlphabeticRanks
<1>3. QED
  BY <1>1, <1>2

\* The loop of the search: a function of its bounds, which stay in the table.
Middle(first, last) == first + (last - first) \div 2
LowerBound(f, R, r, N) ==
  f = [range \in (1 .. N + 1) \X (1 .. N + 1) |->
         LET first == range[1]
             last == range[2]
             middle == first + (last - first) \div 2
         IN IF first >= last THEN first
            ELSE IF R[middle] < r THEN f[<<middle + 1, last>>] ELSE f[<<first, middle>>]]

LEMMA MiddleIs ==
  ASSUME NEW first \in Int, NEW last \in Int, first < last
  PROVE  Middle(first, last) \in first .. last - 1
<1> DEFINE d == last - first
           h == d \div 2
           r == d % 2
<1>1. d \in Nat /\ d >= 1
  OBVIOUS
<1>2. h \in Int /\ r \in 0 .. 1 /\ d = 2 * h + r
  BY <1>1
<1> HIDE DEF h, r
<1>3. h >= 0 /\ h < d
  BY <1>1, <1>2
<1>4. first + h \in first .. last - 1
  BY <1>1, <1>2, <1>3
<1>5. QED
  BY <1>4 DEF Middle, h

\* Where the first rank is that is not below r.
NotBelow(R, r, first, last) == {q \in first .. last : q = last \/ ~(R[q] < r)}
FirstNotBelow(R, r, first, last) ==
  CHOOSE q \in NotBelow(R, r, first, last) : \A p \in NotBelow(R, r, first, last) : q <= p

LEMMA FirstNotBelowIs ==
  ASSUME NEW R, NEW r, NEW first \in Nat, NEW last \in Nat, first <= last
  PROVE  /\ FirstNotBelow(R, r, first, last) \in NotBelow(R, r, first, last)
         /\ \A p \in NotBelow(R, r, first, last) : FirstNotBelow(R, r, first, last) <= p
<1>1. NotBelow(R, r, first, last) \in SUBSET Nat /\ last \in NotBelow(R, r, first, last)
  BY DEF NotBelow
<1>2. \E q \in NotBelow(R, r, first, last) : \A p \in NotBelow(R, r, first, last) : q <= p
  BY <1>1, SmallestOf
<1>3. QED
  BY <1>2 DEF FirstNotBelow

LEMMA FirstNotBelowOnly ==
  ASSUME NEW R, NEW r, NEW first \in Nat, NEW last \in Nat, first <= last,
         NEW q \in NotBelow(R, r, first, last),
         \A p \in first .. q - 1 : R[p] < r
  PROVE  FirstNotBelow(R, r, first, last) = q
<1> DEFINE t == FirstNotBelow(R, r, first, last)
<1>1. /\ t \in first .. last /\ (t = last \/ ~(R[t] < r)) /\ t <= q
  BY FirstNotBelowIs DEF NotBelow
<1>2. q \in first .. last
  BY DEF NotBelow
<1> HIDE DEF t
<1>3. ~(t < q)
  <2>1. ASSUME t < q PROVE FALSE
    <3>1. t \in first .. q - 1 /\ t # last
      BY <1>1, <1>2, <2>1
    <3>2. QED
      BY <1>1, <3>1
  <2>2. QED
    BY <2>1
<1>4. QED
  BY <1>1, <1>2, <1>3 DEF t

Sorted(R, N) ==
  /\ \A j \in 1 .. N : R[j] \in Nat
  /\ \A j, k \in 1 .. N : j < k => R[j] < R[k]

LEMMA LowerBoundExists ==
  ASSUME NEW N \in Nat, NEW R, Sorted(R, N), NEW r \in Nat
  PROVE  \E f : LowerBound(f, R, r, N)
<1> DEFINE B == 1 .. N + 1
           F(first, last) == IF first >= last THEN first ELSE FirstNotBelow(R, r, first, last)
           f == [range \in B \X B |-> F(range[1], range[2])]
<1>1. ASSUME NEW first \in B, NEW last \in B
      PROVE  F(first, last) = LET middle == first + (last - first) \div 2
                              IN IF first >= last THEN first
                                 ELSE IF R[middle] < r THEN f[<<middle + 1, last>>] ELSE f[<<first, middle>>]
  <2> DEFINE m == Middle(first, last)
             Up == f[<<m + 1, last>>]
             Down == f[<<first, m>>]
  <2>1. CASE first >= last
    BY <2>1
  <2>2. CASE ~(first >= last)
    <3>1. first \in Nat /\ last \in Nat /\ first < last /\ 1 <= first /\ last <= N + 1
      BY <2>2
    <3>2. m \in first .. last - 1
      BY <3>1, MiddleIs
    <3>3. m + 1 \in B /\ m \in B /\ m \in 1 .. N /\ m + 1 \in Nat /\ m \in Nat
      BY <3>1, <3>2
    <3>4. Up = F(m + 1, last) /\ Down = F(first, m)
      BY <3>3
    <3> HIDE DEF m
    <3>5. ASSUME R[m] < r PROVE Up = FirstNotBelow(R, r, first, last)
      <4> DEFINE q == F(m + 1, last)
      <4>1. q \in m + 1 .. last /\ (q = last \/ ~(R[q] < r)) /\ \A p \in m + 1 .. q - 1 : R[p] < r
        <5>1. CASE m + 1 >= last
          BY <3>1, <3>2, <5>1
        <5>2. CASE ~(m + 1 >= last)
          <6>1. q = FirstNotBelow(R, r, m + 1, last)
            BY <5>2
          <6>2. /\ q \in NotBelow(R, r, m + 1, last)
                /\ \A p \in NotBelow(R, r, m + 1, last) : q <= p
            BY <3>1, <3>3, <5>2, <6>1, FirstNotBelowIs
          <6> HIDE DEF q
          <6>3. q \in m + 1 .. last /\ (q = last \/ ~(R[q] < r))
            BY <6>2 DEF NotBelow
          <6>4. ASSUME NEW p \in m + 1 .. q - 1 PROVE R[p] < r
            <7>1. p \in m + 1 .. last /\ ~(q <= p)
              BY <3>1, <3>3, <6>3
            <7>2. p \notin NotBelow(R, r, m + 1, last)
              BY <6>2, <7>1
            <7>3. QED
              BY <7>1, <7>2 DEF NotBelow
          <6>5. QED
            BY <6>3, <6>4
        <5>3. QED
          BY <5>1, <5>2
      <4> HIDE DEF q
      <4>2. ASSUME NEW p \in first .. q - 1 PROVE R[p] < r
        <5>1. p \in m + 1 .. q - 1 \/ p \in first .. m
          BY <3>1, <3>3, <4>1
        <5>2. ASSUME p \in first .. m PROVE R[p] < r
          <6>1. p \in 1 .. N /\ (p = m \/ p < m)
            BY <3>1, <3>3, <5>2
          <6>2. R[p] \in Nat /\ R[m] \in Nat /\ (p = m \/ R[p] < R[m])
            BY <3>3, <6>1 DEF Sorted
          <6>3. QED
            BY <3>5, <6>2
        <5>3. QED
          BY <4>1, <5>1, <5>2
      <4>3. q \in first .. last
        BY <3>1, <3>2, <3>3, <4>1
      <4>4. q \in NotBelow(R, r, first, last)
        BY <4>1, <4>3 DEF NotBelow
      <4>5. FirstNotBelow(R, r, first, last) = q
        BY <3>1, <4>2, <4>4, FirstNotBelowOnly
      <4>6. QED
        BY <3>4, <4>5 DEF q
    <3>6. ASSUME ~(R[m] < r) PROVE Down = FirstNotBelow(R, r, first, last)
      <4> DEFINE q == F(first, m)
      <4>1. q \in first .. m /\ (q = m \/ ~(R[q] < r)) /\ \A p \in first .. q - 1 : R[p] < r
        <5>1. CASE first >= m
          BY <3>1, <3>2, <5>1
        <5>2. CASE ~(first >= m)
          <6>1. q = FirstNotBelow(R, r, first, m)
            BY <5>2
          <6>2. /\ q \in NotBelow(R, r, first, m)
                /\ \A p \in NotBelow(R, r, first, m) : q <= p
            BY <3>1, <3>3, <5>2, <6>1, FirstNotBelowIs
          <6> HIDE DEF q
          <6>3. q \in first .. m /\ (q = m \/ ~(R[q] < r))
            BY <6>2 DEF NotBelow
          <6>4. ASSUME NEW p \in first .. q - 1 PROVE R[p] < r
            <7>1. p \in first .. m /\ ~(q <= p)
              BY <3>1, <3>3, <6>3
            <7>2. p \notin NotBelow(R, r, first, m)
              BY <6>2, <7>1
            <7>3. QED
              BY <7>1, <7>2 DEF NotBelow
          <6>5. QED
            BY <6>3, <6>4
        <5>3. QED
          BY <5>1, <5>2
      <4> HIDE DEF q
      <4>2. q \in first .. last /\ ~(R[q] < r)
        BY <3>1, <3>2, <3>3, <3>6, <4>1
      <4>3. q \in NotBelow(R, r, first, last)
        BY <4>2 DEF NotBelow
      <4>4. FirstNotBelow(R, r, first, last) = q
        BY <3>1, <4>1, <4>3, FirstNotBelowOnly
      <4>5. QED
        BY <3>4, <4>4 DEF q
    <3>7. F(first, last) = FirstNotBelow(R, r, first, last)
      BY <2>2
    <3> HIDE DEF F, f, Up, Down
    <3>8. F(first, last) = IF first >= last THEN first ELSE IF R[m] < r THEN Up ELSE Down
      BY <2>2, <3>5, <3>6, <3>7
    <3>9. QED
      BY Zenon, <3>8 DEF m, Up, Down, Middle
  <2>3. QED
    BY <2>1, <2>2
<1> HIDE DEF F
<1>2. LowerBound(f, R, r, N)
  BY Zenon, <1>1 DEF LowerBound
<1>3. QED
  BY <1>2

\* The search stays in its bounds and finds the rank if it is there.
Finds(f, R, r, N, a, b) ==
  /\ f[<<a, b>>] \in a .. b
  /\ \A j \in a .. b : j <= N /\ R[j] = r => f[<<a, b>>] = j

LEMMA SearchIs ==
  ASSUME NEW N \in Nat, NEW R, Sorted(R, N), NEW r \in Nat, NEW f, LowerBound(f, R, r, N)
  PROVE  /\ f[<<1, N + 1>>] \in 1 .. N + 1
         /\ \A j \in 1 .. N : R[j] = r => f[<<1, N + 1>>] = j
<1> DEFINE Found(a, b) == Finds(f, R, r, N, a, b)
           B == 1 .. N + 1
           D == {d \in 0 .. N : \E a \in B : \E b \in B : b - a = d /\ ~ Found(a, b)}
<1>1. ASSUME NEW a \in 1 .. N + 1, NEW b \in 1 .. N + 1
      PROVE  f[<<a, b>>] = IF a >= b THEN a
                       ELSE IF R[Middle(a, b)] < r THEN f[<<Middle(a, b) + 1, b>>] ELSE f[<<a, Middle(a, b)>>]
  BY DEF LowerBound, Middle
<1>2. ASSUME D # {} PROVE FALSE
  <2>1. D \in SUBSET Nat
    OBVIOUS
  <2>2. PICK d \in D : \A e \in D : d <= e
    BY <1>2, <2>1, SmallestOf
  <2>3. PICK a \in B, b \in B : b - a = d /\ ~ Found(a, b)
    OBVIOUS
  <2>4. d \in 0 .. N
    OBVIOUS
  <2>5. ASSUME NEW c \in B, NEW e \in B, e - c \in 0 .. N, e - c < d
        PROVE  Found(c, e)
    <3> DEFINE g == e - c
    <3>0. g \in 0 .. N /\ g < d /\ d \in 0 .. N
      BY <2>4, <2>5
    <3> HIDE DEF g, D
    <3>1. g \notin D
      BY <2>2, <3>0
    <3> USE DEF g, D
    <3>2. QED
      BY <2>5, <3>1
  <2> HIDE DEF D
  <2>6. CASE a = b
    <3>1. a \in a .. b /\ \A j \in a .. b : j = a
      BY <2>6
    <3>2. a >= b
      BY <2>6
    <3>3. f[<<a, b>>] = a
      BY <1>1, <3>2
    <3>4. Found(a, b)
      BY <3>1, <3>3 DEF Finds
    <3>5. QED
      BY <2>3, <3>4
  <2>7. CASE a # b
    <3> DEFINE m == Middle(a, b)
    <3>1. a \in Nat /\ b \in Nat /\ a < b /\ 1 <= a /\ b <= N + 1
      BY <2>3, <2>4, <2>7
    <3>2. m \in a .. b - 1
      BY <3>1, MiddleIs
    <3>3. f[<<a, b>>] = IF R[m] < r THEN f[<<m + 1, b>>] ELSE f[<<a, m>>]
      BY <1>1, <3>1
    <3> HIDE DEF m
    <3>4. m \in Nat /\ m \in 1 .. N /\ m \in 1 .. N + 1 /\ m + 1 \in 1 .. N + 1
      BY <3>1, <3>2
    <3>5. R[m] \in Nat /\ \A j \in 1 .. N : R[j] \in Nat /\ (j < m => R[j] < R[m]) /\ (m < j => R[m] < R[j])
      BY <3>4 DEF Sorted
    <3>6. CASE R[m] < r
      <4>1. b - (m + 1) \in 0 .. N /\ b - (m + 1) < d
        BY <2>3, <2>4, <3>1, <3>2, <3>4
      <4>2. Found(m + 1, b)
        BY <2>5, <3>4, <4>1
      <4>3. f[<<a, b>>] = f[<<m + 1, b>>]
        BY <3>3, <3>6
      <4>4. f[<<a, b>>] \in a .. b
        BY <3>1, <3>2, <3>4, <4>2, <4>3 DEF Finds
      <4>5. ASSUME NEW j \in a .. b, j <= N, R[j] = r PROVE f[<<a, b>>] = j
        <5>1. j \in 1 .. N
          BY <3>1, <4>5
        <5>2. ~(j < m) /\ j # m
          BY <3>5, <3>6, <4>5, <5>1
        <5>3. j \in m + 1 .. b
          BY <3>1, <3>4, <5>1, <5>2
        <5>4. QED
          BY <4>2, <4>3, <4>5, <5>3 DEF Finds
      <4>6. QED
        BY <2>3, <4>4, <4>5 DEF Finds
    <3>7. CASE ~(R[m] < r)
      <4>1. m - a \in 0 .. N /\ m - a < d
        BY <2>3, <2>4, <3>1, <3>2, <3>4
      <4>2. Found(a, m)
        BY <2>5, <3>4, <4>1
      <4>3. f[<<a, b>>] = f[<<a, m>>]
        BY <3>3, <3>7
      <4>4. f[<<a, b>>] \in a .. b
        BY <3>1, <3>2, <3>4, <4>2, <4>3 DEF Finds
      <4>5. ASSUME NEW j \in a .. b, j <= N, R[j] = r PROVE f[<<a, b>>] = j
        <5>1. j \in 1 .. N
          BY <3>1, <4>5
        <5>2. ~(m < j)
          BY <3>5, <3>7, <4>5, <5>1
        <5>3. j \in a .. m
          BY <3>1, <3>4, <5>1, <5>2
        <5>4. QED
          BY <4>2, <4>3, <4>5, <5>3 DEF Finds
      <4>6. QED
        BY <2>3, <4>4, <4>5 DEF Finds
    <3>8. QED
      BY <3>6, <3>7
  <2>8. QED
    BY <2>6, <2>7
<1>3. N \in 0 .. N /\ 1 \in 1 .. N + 1 /\ N + 1 \in 1 .. N + 1 /\ (N + 1) - 1 = N
  OBVIOUS
<1>4. D = {}
  BY <1>2
<1>5. Found(1, N + 1)
  BY <1>3, <1>4
<1>6. QED
  BY <1>5 DEF Finds

\* The table of tokens by its columns.
TextColumn == <<
  "var", "while", "for", "if", "then", "end", "exit", "print", "else", "loop", ",",
  "and", "or", "not", "xor", "real", "string", "bool", "none", "func", "+", "-",
  "*", "\n", "[", "]", "(", ")", "{", "}", ";", ":=", "true", "false", "is",
  "return", "int", "in", "..", ".", "=>", "=", ">=", ">", "<=", "<", "/=", "/">>
TypeColumn == <<
  "tkVar", "tkWhile", "tkFor", "tkIf", "tkThen", "tkEnd", "tkExit", "tkPrint",
  "tkElse", "tkLoop", "tkComma", "tkAnd", "tkOr", "tkNot", "tkXor", "tkReal",
  "tkString", "tkBool", "tkNone", "tkFunc", "tkPlus", "tkMinus", "tkTimes",
  "tkNewLine", "tkOpenBracket", "tkClosedBracket", "tkOpenParenthesis",
  "tkClosedParenthesis", "tkOpenCurlyBrace", "tkClosedCurlyBrace", "tkSemicolon",
  "tkAssign", "tkTrue", "tkFalse", "tkIs", "tkReturn", "tkInt", "tkIn", "tkRange",
  "tkDot", "tkArrow", "tkEqual", "tkGreaterEq", "tkGreater", "tkLessEq", "tkLess",
  "tkNotEqual", "tkDivide">>

Row(k) == typeChars[k] = <<TextColumn[k], TypeColumn[k]>>

LEMMA RowsOfTable ==
  /\ Row(1) /\ Row(2) /\ Row(3) /\ Row(4) /\ Row(5) /\ Row(6)
  /\ Row(7) /\ Row(8) /\ Row(9) /\ Row(10) /\ Row(11) /\ Row(12)
  /\ Row(13) /\ Row(14) /\ Row(15) /\ Row(16) /\ Row(17) /\ Row(18)
  /\ Row(19) /\ Row(20) /\ Row(21) /\ Row(22) /\ Row(23) /\ Row(24)
  /\ Row(25) /\ Row(26) /\ Row(27) /\ Row(28) /\ Row(29) /\ Row(30)
  /\ Row(31) /\ Row(32) /\ Row(33) /\ Row(34) /\ Row(35) /\ Row(36)
  /\ Row(37) /\ Row(38) /\ Row(39) /\ Row(40) /\ Row(41) /\ Row(42)
  /\ Row(43) /\ Row(44) /\ Row(45) /\ Row(46) /\ Row(47) /\ Row(48)
  BY DEF Row, typeChars, TextColumn, TypeColumn

LEMMA ColumnsAre ==
  ASSUME NEW k \in DOMAIN typeChars
  PROVE  /\ typeChars[k] = <<TextColumn[k], TypeColumn[k]>>
         /\ typeChars[k][1] = TextColumn[k] /\ typeChars[k][2] = TypeColumn[k]
<1>1. \/ k = 1 \/ k = 2 \/ k = 3 \/ k = 4 \/ k = 5 \/ k = 6 \/ k = 7 \/ k = 8
      \/ k = 9 \/ k = 10 \/ k = 11 \/ k = 12 \/ k = 13 \/ k = 14 \/ k = 15 \/ k = 16
      \/ k = 17 \/ k = 18 \/ k = 19 \/ k = 20 \/ k = 21 \/ k = 22 \/ k = 23 \/ k = 24
      \/ k = 25 \/ k = 26 \/ k = 27 \/ k = 28 \/ k = 29 \/ k = 30 \/ k = 31 \/ k = 32
      \/ k = 33 \/ k = 34 \/ k = 35 \/ k = 36 \/ k = 37 \/ k = 38 \/ k = 39 \/ k = 40
      \/ k = 41 \/ k = 42 \/ k = 43 \/ k = 44 \/ k = 45 \/ k = 46 \/ k = 47 \/ k = 48
  BY TableIs
<1>2. Row(k)
  BY <1>1, RowsOfTable
<1>3. QED
  BY <1>2 DEF Row

TableRanks == <<
  20, 21, 22, 23, 24, 25, 27, 28, 31, 32, 34, 35, 36, 37, 38, 40, 42, 41, 43, 44, 7,
  8, 9, 11, 13, 14, 15, 16, 17, 18, 19, 12, 45, 46, 47, 48, 39, 30, 29, 33, 26, 5,
  2, 1, 4, 3, 6, 10>>

LEMMA TypesHaveRanks ==
  ASSUME NEW k \in DOMAIN typeChars
  PROVE  RankOf(typeChars[k][2]) \in Nat
<1>1. DOMAIN Types = 1 .. 53
  BY DEF Types
<1>2. k \in 1 .. 48
  BY TableIs
<1>3. TableRanks[k] \in 1 .. 53 /\ Types[TableRanks[k]] = TypeColumn[k]
  BY <1>2, SMTT(60) DEF TableRanks, Types, TypeColumn
<1>4. \E r \in 1 .. 53 : Types[r] = typeChars[k][2]
  BY <1>3, ColumnsAre
<1>5. RankOf(typeChars[k][2]) \in 1 .. 53
  BY <1>1, <1>4 DEF RankOf
<1>6. QED
  BY <1>5

\* The search finds the types that are in the table of words, and no others.
LEMMA SearchFinds ==
  ASSUME NEW k \in DOMAIN typeChars
  PROVE  isAlphabeticToken(typeChars[k][2]) <=> IsWord(k)
<1> DEFINE type == typeChars[k][2]
           N == Len(alphabeticTokens)
           R == [m \in 1 .. N |-> RankOf(alphabeticTokens[m])]
           f == CHOOSE f : LowerBound(f, R, RankOf(type), N)
           found == f[<<1, N + 1>>]
<1>1. isAlphabeticToken(type) <=> found <= N /\ alphabeticTokens[found] = type
  BY Zenon DEF isAlphabeticToken, LowerBound, RankOf
<1>2. N = 25 /\ DOMAIN alphabeticTokens = 1 .. N
  BY RanksAreSorted
<1>3. \A j \in 1 .. N : R[j] = AlphabeticRanks[j]
  BY <1>2, RanksAre
<1>4. \A j \in 1 .. N : R[j] \in Nat
  <2>1. \A j \in 1 .. 25 : AlphabeticRanks[j] \in Nat
    BY DEF AlphabeticRanks
  <2>2. QED
    BY <1>2, <1>3, <2>1
<1>5. Sorted(R, N)
  <2>1. \A j, m \in 1 .. N : j < m => R[j] < R[m]
    BY <1>2, <1>3, RanksAreSorted
  <2>2. QED
    BY <1>4, <2>1 DEF Sorted
<1>6. RankOf(type) \in Nat
  BY TypesHaveRanks
<1>7. \A m \in 1 .. N : alphabeticTokens[m] = type => R[m] = RankOf(type)
  OBVIOUS
<1> HIDE DEF R, N, type
<1>8. LowerBound(f, R, RankOf(type), N)
  <2>1. \E g : LowerBound(g, R, RankOf(type), N)
    BY <1>2, <1>5, <1>6, LowerBoundExists
  <2>2. QED
    BY <2>1
<1> HIDE DEF f
<1>9. found \in 1 .. N + 1 /\ \A m \in 1 .. N : R[m] = RankOf(type) => found = m
  <2>1. N \in Nat
    BY <1>2
  <2>2. QED
    BY <2>1, <1>5, <1>6, <1>8, SearchIs
<1> HIDE DEF found
<1>10. found <= N => found \in 1 .. N
  BY <1>2, <1>9
<1>11. \A m \in 1 .. N : m <= N
  BY <1>2
<1>12. isAlphabeticToken(type) <=> \E m \in 1 .. N : alphabeticTokens[m] = type
  BY <1>1, <1>7, <1>9, <1>10, <1>11
<1>13. QED
  BY <1>2, <1>12 DEF IsWord, type

LEMMA WordsAre ==
  ASSUME NEW k \in DOMAIN typeChars
  PROVE  typeChars[k][2] \in AlphabeticTypes <=> IsWord(k)
<1>1. typeChars[k][2] \in AlphabeticTypes <=>
        \E m \in DOMAIN typeChars : typeChars[m][2] = typeChars[k][2] /\ isAlphabeticToken(typeChars[m][2])
  BY Zenon DEF AlphabeticTypes
<1>2. typeChars[k][2] \in AlphabeticTypes <=> isAlphabeticToken(typeChars[k][2])
  BY <1>1, Zenon
<1>3. QED
  BY <1>2, SearchFinds

-----------------------------------------------------------------------------
(* Tokens are the longest.                                                 *)

TextOf(k) == typeChars[k][1]

\* What SpellingAssumption says of an entry of the table.
LEMMA SpelledSo ==
  ASSUME NEW k \in DOMAIN typeChars
  PROVE  /\ HasParts(TextOf(k)) /\ Len(TextOf(k)) \in Nat \ {0}
         /\ IsWord(k) => \A p \in 1 .. Len(TextOf(k)) : SubSeq(TextOf(k), p, p) \in Wordly
         /\ ~ IsWord(k) => /\ SubSeq(TextOf(k), 1, 1) \notin Wordly
                           /\ \/ Len(TextOf(k)) = 1
                              \/ Len(TextOf(k)) = 2 /\ <<TextOf(k), SubSeq(TextOf(k), 1, 1)>> \in Pairs
<1>1. Len(TextOf(k)) \in Nat \ {0}
  BY StringAssumption DEF TextOf
<1>2. /\ HasParts(TextOf(k))
      /\ IF IsWord(k) THEN \A p \in 1 .. Len(TextOf(k)) : SubSeq(TextOf(k), p, p) \in Wordly
         ELSE /\ SubSeq(TextOf(k), 1, 1) \notin Wordly
              /\ \/ Len(TextOf(k)) = 1
                 \/ Len(TextOf(k)) = 2 /\ <<TextOf(k), SubSeq(TextOf(k), 1, 1)>> \in Pairs
  BY Zenon, SpellingAssumption DEF TextOf
<1>3. QED
  BY <1>1, <1>2

\* In the table, the longer operator is before the one it begins with.
LEMMA LongerBefore ==
  ASSUME NEW k \in DOMAIN typeChars, NEW m \in DOMAIN typeChars, k < m,
         <<TextOf(m), TextOf(k)>> \in Pairs
  PROVE  FALSE
<1>1. k \in 1 .. 48 /\ m \in 1 .. 48 /\ TextOf(k) = TextColumn[k] /\ TextOf(m) = TextColumn[m]
  BY TableIs, ColumnsAre DEF TextOf
<1>2. \/ TextOf(m) = ":=" /\ TextOf(k) = ":"
      \/ TextOf(m) = ".." /\ TextOf(k) = "."
      \/ TextOf(m) = "=>" /\ TextOf(k) = "="
      \/ TextOf(m) = ">=" /\ TextOf(k) = ">"
      \/ TextOf(m) = "<=" /\ TextOf(k) = "<"
      \/ TextOf(m) = "/=" /\ TextOf(k) = "/"
  BY Zenon DEF Pairs
<1>3. /\ \A j \in 1 .. 48 : TextColumn[j] # ":"
      /\ \A j \in 1 .. 48 : TextColumn[j] = ".." => j = 39
      /\ \A j \in 1 .. 48 : TextColumn[j] = "." => j = 40
      /\ \A j \in 1 .. 48 : TextColumn[j] = "=>" => j = 41
      /\ \A j \in 1 .. 48 : TextColumn[j] = "=" => j = 42
  BY SMTT(60) DEF TextColumn
<1>4. /\ \A j \in 1 .. 48 : TextColumn[j] = ">=" => j = 43
      /\ \A j \in 1 .. 48 : TextColumn[j] = ">" => j = 44
      /\ \A j \in 1 .. 48 : TextColumn[j] = "<=" => j = 45
      /\ \A j \in 1 .. 48 : TextColumn[j] = "<" => j = 46
      /\ \A j \in 1 .. 48 : TextColumn[j] = "/=" => j = 47
      /\ \A j \in 1 .. 48 : TextColumn[j] = "/" => j = 48
  BY SMTT(60) DEF TextColumn
<1>5. CASE TextOf(m) = ":=" /\ TextOf(k) = ":"
  BY <1>1, <1>3, <1>5
<1>6. CASE TextOf(m) = ".." /\ TextOf(k) = "."
  <2>1. TextColumn[m] = ".." /\ TextColumn[k] = "."
    BY <1>1, <1>6
  <2>2. m = 39 /\ k = 40
    BY <1>1, <1>3, <2>1
  <2>3. QED
    BY <2>2
<1>7. CASE TextOf(m) = "=>" /\ TextOf(k) = "="
  <2>1. TextColumn[m] = "=>" /\ TextColumn[k] = "="
    BY <1>1, <1>7
  <2>2. m = 41 /\ k = 42
    BY <1>1, <1>3, <2>1
  <2>3. QED
    BY <2>2
<1>8. CASE TextOf(m) = ">=" /\ TextOf(k) = ">"
  <2>1. TextColumn[m] = ">=" /\ TextColumn[k] = ">"
    BY <1>1, <1>8
  <2>2. m = 43 /\ k = 44
    BY <1>1, <1>4, <2>1
  <2>3. QED
    BY <2>2
<1>9. CASE TextOf(m) = "<=" /\ TextOf(k) = "<"
  <2>1. TextColumn[m] = "<=" /\ TextColumn[k] = "<"
    BY <1>1, <1>9
  <2>2. m = 45 /\ k = 46
    BY <1>1, <1>4, <2>1
  <2>3. QED
    BY <2>2
<1>10. CASE TextOf(m) = "/=" /\ TextOf(k) = "/"
  <2>1. TextColumn[m] = "/=" /\ TextColumn[k] = "/"
    BY <1>1, <1>10
  <2>2. m = 47 /\ k = 48
    BY <1>1, <1>4, <2>1
  <2>3. QED
    BY <2>2
<1>11. QED
  BY <1>2, <1>5, <1>6, <1>7, <1>8, <1>9, <1>10

\* A part of the text, and an entry of the table that stands in it.
LEMMA PartIs ==
  ASSUME n \in Nat, HasParts(code), NEW p \in 0 .. n, NEW q \in p .. n
  PROVE  /\ Len(Text(p, q)) = q - p
         /\ \A a \in 0 .. q - p - 1 : SubSeq(Text(p, q), a + 1, a + 1) = Char(p + a)
<1>1. p \in 0 .. Len(code) /\ q \in 0 .. Len(code) /\ p <= q /\ p \in Int /\ q \in Int
  BY DEF n
<1>2. /\ Len(SubSeq(code, p + 1, q)) = q - p
      /\ \A a, b \in 0 .. q - p : a <= b =>
           SubSeq(SubSeq(code, p + 1, q), a + 1, b) = SubSeq(code, p + a + 1, p + b)
  BY Zenon, <1>1 DEF HasParts
<1>3. ASSUME NEW a \in 0 .. q - p - 1
      PROVE  SubSeq(SubSeq(code, p + 1, q), a + 1, a + 1) = SubSeq(code, (p + a) + 1, (p + a) + 1)
  <2>1. a \in 0 .. q - p /\ a + 1 \in 0 .. q - p /\ a <= a + 1 /\ p + (a + 1) = (p + a) + 1 /\ p + a + 1 = (p + a) + 1
    BY <1>1
  <2>2. SubSeq(SubSeq(code, p + 1, q), a + 1, a + 1) = SubSeq(code, p + a + 1, p + (a + 1))
    BY <1>2, <2>1
  <2>3. QED
    BY <2>1, <2>2
<1>4. QED
  BY <1>2, <1>3 DEF Text, Char

LEMMA EntryStands ==
  ASSUME n \in Nat, HasParts(code), NEW p \in 0 .. n, NEW k \in DOMAIN typeChars, IsAt(p, TextOf(k))
  PROVE  /\ Len(TextOf(k)) \in Nat \ {0} /\ p + Len(TextOf(k)) \in p + 1 .. n
         /\ Text(p, p + Len(TextOf(k))) = TextOf(k)
         /\ \A a \in 0 .. Len(TextOf(k)) - 1 : SubSeq(TextOf(k), a + 1, a + 1) = Char(p + a)
<1> DEFINE L == Len(TextOf(k))
<1>1. L \in Nat \ {0} /\ p + L <= n /\ Text(p, p + L) = TextOf(k)
  BY SpelledSo DEF IsAt
<1> HIDE DEF L
<1>2. p + L \in p + 1 .. n /\ p + L \in p .. n /\ (p + L) - p = L
  BY <1>1
<1>3. \A a \in 0 .. (p + L) - p - 1 : SubSeq(Text(p, p + L), a + 1, a + 1) = Char(p + a)
  BY <1>2, PartIs
<1>4. \A a \in 0 .. L - 1 : SubSeq(TextOf(k), a + 1, a + 1) = Char(p + a)
  BY <1>1, <1>2, <1>3
<1>5. QED
  BY <1>1, <1>2, <1>4 DEF L

\* It begins as a word exactly if it is one, and then it is made of letters.
LEMMA WordStands ==
  ASSUME n \in Nat, HasParts(code), NEW p \in 0 .. n, NEW k \in DOMAIN typeChars, IsAt(p, TextOf(k))
  PROVE  /\ Char(p) \in Wordly <=> IsWord(k)
         /\ IsWord(k) => \A r \in p .. p + Len(TextOf(k)) - 1 : Char(r) \in Wordly
<1> DEFINE L == Len(TextOf(k))
<1>1. L \in Nat \ {0} /\ \A a \in 0 .. L - 1 : SubSeq(TextOf(k), a + 1, a + 1) = Char(p + a)
  BY EntryStands
<1>2. 0 \in 0 .. L - 1 /\ 0 + 1 = 1 /\ p + 0 = p /\ 1 \in 1 .. L
  BY <1>1
<1>3. SubSeq(TextOf(k), 1, 1) = Char(p)
  BY <1>1, <1>2
<1>4. IsWord(k) => \A a \in 1 .. L : SubSeq(TextOf(k), a, a) \in Wordly
  BY SpelledSo
<1>5. ~ IsWord(k) => SubSeq(TextOf(k), 1, 1) \notin Wordly
  BY SpelledSo
<1> HIDE DEF L
<1>6. ASSUME IsWord(k), NEW r \in p .. p + L - 1 PROVE Char(r) \in Wordly
  <2> DEFINE a == r - p
  <2>1. a \in 0 .. L - 1 /\ a + 1 \in 1 .. L /\ p + a = r
    BY <1>1
  <2>2. SubSeq(TextOf(k), a + 1, a + 1) = Char(r)
    BY <1>1, <2>1
  <2>3. SubSeq(TextOf(k), a + 1, a + 1) \in Wordly
    BY <1>4, <1>6, <2>1
  <2>4. QED
    BY <2>2, <2>3
<1>7. Char(p) \in Wordly <=> IsWord(k)
  BY <1>2, <1>3, <1>4, <1>5
<1>8. QED
  BY <1>6, <1>7 DEF L

LEMMA RunEnds ==
  ASSUME n \in Nat, NEW p \in 0 .. n, NEW S, NEW q \in p .. n,
         q = n \/ Char(q) \notin S, \A r \in p .. q - 1 : Char(r) \in S
  PROVE  EndOfRun(p, S) = q
<1> DEFINE e == EndOfRun(p, S)
<1>1. e \in p .. n /\ (e = n \/ Char(e) \notin S) /\ \A r \in p .. e - 1 : Char(r) \in S
  BY EndOfRunIs
<1> HIDE DEF e
<1>2. p \in Nat /\ e \in Nat /\ q \in Nat /\ e <= n /\ q <= n /\ p <= e /\ p <= q
  BY <1>1
<1>3. ASSUME e < q PROVE FALSE
  <2>1. e \in p .. q - 1 /\ e # n
    BY <1>2, <1>3
  <2>2. QED
    BY <1>1, <2>1
<1>4. ASSUME q < e PROVE FALSE
  <2>1. q \in p .. e - 1 /\ q # n
    BY <1>2, <1>4
  <2>2. QED
    BY <1>1, <2>1
<1>5. e = q
  BY <1>2, <1>3, <1>4
<1>6. QED
  BY <1>5 DEF e

\* What TokensAreLongest says of a token at p.
LongestAt(p, type, length) ==
  IF Char(p) \in Wordly
  THEN /\ length = EndOfRun(p, Wordly) - p
       /\ IF \E m \in DOMAIN typeChars : typeChars[m][1] = Text(p, p + length)
          THEN <<Text(p, p + length), type>> \in {typeChars[m] : m \in DOMAIN typeChars}
          ELSE type = "tkIdent"
  ELSE \A m \in DOMAIN typeChars : IsAt(p, typeChars[m][1]) => Len(typeChars[m][1]) <= length

\* When a table entry stands at p, why it is no match.
LEMMA MatchesAre ==
  ASSUME NEW p, NEW k \in DOMAIN typeChars
  PROVE  k \in Matches(p) <=> IsAt(p, TextOf(k)) /\ ~(IsWord(k) /\ GoesOn(p + Len(TextOf(k))))
<1>1. k \in Matches(p) <=>
        /\ IsAt(p, typeChars[k][1])
        /\ ~(typeChars[k][2] \in AlphabeticTypes /\ GoesOn(p + Len(typeChars[k][1])))
  BY Zenon DEF Matches
<1>2. typeChars[k][2] \in AlphabeticTypes <=> IsWord(k)
  BY WordsAre
<1>3. QED
  BY <1>1, <1>2, Zenon DEF TextOf

LEMMA FirstMatchIs ==
  ASSUME NEW p, Matches(p) # {}
  PROVE  /\ FirstMatch(p) \in DOMAIN typeChars /\ FirstMatch(p) \in Matches(p)
         /\ \A m \in Matches(p) : FirstMatch(p) <= m
<1>1. Matches(p) \subseteq DOMAIN typeChars
  BY DEF Matches
<1>2. Matches(p) \in SUBSET Nat
  BY <1>1, TableIs
<1>3. \E k \in Matches(p) : \A m \in Matches(p) : k <= m
  BY <1>2, SmallestOf
<1>4. FirstMatch(p) \in Matches(p) /\ \A m \in Matches(p) : FirstMatch(p) <= m
  BY <1>3 DEF FirstMatch
<1>5. QED
  BY <1>1, <1>4

LEMMA TokenIsLongest ==
  ASSUME n \in Nat, HasParts(code), NEW p \in 0 .. n, Matches(p) # {}
  PROVE  LET tok == typeChars[FirstMatch(p)] IN LongestAt(p, tok[2], Len(tok[1]))
<1> DEFINE k == FirstMatch(p)
           L == Len(TextOf(k))
<1>1. k \in DOMAIN typeChars /\ k \in Matches(p) /\ \A m \in Matches(p) : k <= m
  BY FirstMatchIs
<1> HIDE DEF k
<1>2. IsAt(p, TextOf(k)) /\ ~(IsWord(k) /\ GoesOn(p + L))
  BY <1>1, MatchesAre
<1>3. L \in Nat \ {0} /\ p + L \in p + 1 .. n /\ Text(p, p + L) = TextOf(k)
  BY <1>1, <1>2, EntryStands
<1>4. /\ Char(p) \in Wordly <=> IsWord(k)
      /\ IsWord(k) => \A r \in p .. p + L - 1 : Char(r) \in Wordly
  BY <1>1, <1>2, WordStands
<1>5. CASE Char(p) \in Wordly
  <2>1. ~ GoesOn(p + L) /\ p + L \in p .. n
    BY <1>2, <1>3, <1>4, <1>5
  <2>2. p + L = n \/ Char(p + L) \notin Wordly
    BY <2>1 DEF GoesOn
  <2>3. EndOfRun(p, Wordly) = p + L
    BY <1>4, <1>5, <2>1, <2>2, RunEnds
  <2>4. L = EndOfRun(p, Wordly) - p
    BY <1>3, <2>3
  <2>5. <<TextOf(k), typeChars[k][2]>> = typeChars[k]
    BY <1>1, ColumnsAre DEF TextOf
  <2>6. <<Text(p, p + L), typeChars[k][2]>> \in {typeChars[m] : m \in DOMAIN typeChars}
    BY <1>1, <1>3, <2>5
  <2>7. \E m \in DOMAIN typeChars : typeChars[m][1] = Text(p, p + L)
    BY <1>1, <1>3 DEF TextOf
  <2>8. LongestAt(p, typeChars[k][2], L)
    BY Zenon, <1>5, <2>4, <2>6, <2>7 DEF LongestAt
  <2>9. QED
    BY Zenon, <2>8 DEF k, TextOf
<1>6. CASE Char(p) \notin Wordly
  <2>1. ASSUME NEW m \in DOMAIN typeChars, IsAt(p, TextOf(m)) PROVE Len(TextOf(m)) <= L
    <3> DEFINE M == Len(TextOf(m))
    <3>1. ~ IsWord(m) /\ ~ IsWord(k)
      BY <1>4, <1>6, <2>1, WordStands
    <3>2. k <= m
      BY <1>1, <2>1, <3>1, MatchesAre
    <3>3. /\ M = 1 \/ (M = 2 /\ <<TextOf(m), SubSeq(TextOf(m), 1, 1)>> \in Pairs)
          /\ L = 1 \/ L = 2
      BY <1>1, <3>1, SpelledSo
    <3>4. ASSUME M = 2, L = 1 PROVE FALSE
      <4>1. SubSeq(TextOf(m), 0 + 1, 0 + 1) = Char(p + 0) /\ SubSeq(TextOf(k), 0 + 1, 0 + 1) = Char(p + 0)
        <5>1. 0 \in 0 .. M - 1 /\ 0 \in 0 .. L - 1
          BY <3>4
        <5>2. QED
          BY <1>1, <1>2, <2>1, <5>1, EntryStands
      <4>2. SubSeq(TextOf(m), 1, 1) = SubSeq(TextOf(k), 1, 1)
        BY <4>1
      <4>3. SubSeq(TextOf(k), 1, 1) = TextOf(k)
        BY <1>1, <3>4, SpelledSo DEF HasParts
      <4>4. <<TextOf(m), TextOf(k)>> \in Pairs
        BY <3>3, <3>4, <4>2, <4>3
      <4>5. k < m
        <5>1. k # m
          BY <3>4
        <5>2. k \in Int /\ m \in Int
          BY <1>1, TableIs
        <5>3. QED
          BY <3>2, <5>1, <5>2
      <4>6. QED
        BY <1>1, <4>4, <4>5, LongerBefore
    <3>5. QED
      BY <3>3, <3>4
  <2>2. \A m \in DOMAIN typeChars : IsAt(p, typeChars[m][1]) => Len(typeChars[m][1]) <= L
    BY Zenon, <2>1 DEF TextOf
  <2>3. LongestAt(p, typeChars[k][2], L)
    BY Zenon, <1>6, <2>2 DEF LongestAt
  <2>4. QED
    BY Zenon, <2>3 DEF k, TextOf
<1>7. QED
  BY <1>5, <1>6

LEMMA IdentifierIsLongest ==
  ASSUME n \in Nat, HasParts(code), NEW p \in 0 .. n, Matches(p) = {}, Char(p) \in Wordly
  PROVE  LongestAt(p, "tkIdent", EndOfRun(p, Wordly) - p)
<1> DEFINE e == EndOfRun(p, Wordly)
           L == e - p
<1>1. e \in p .. n /\ (e = n \/ Char(e) \notin Wordly)
  BY EndOfRunIs
<1> HIDE DEF e
<1>2. p + L = e
  BY <1>1
<1>3. ASSUME NEW m \in DOMAIN typeChars, TextOf(m) = Text(p, p + L) PROVE FALSE
  <2>1. Len(TextOf(m)) = L
    <3>1. Len(Text(p, e)) = L
      BY <1>1, PartIs
    <3>2. QED
      BY <1>2, <1>3, <3>1
  <2>2. IsAt(p, TextOf(m))
    <3>1. p + Len(TextOf(m)) = e /\ e <= n
      BY <1>1, <1>2, <2>1
    <3>2. QED
      BY <1>2, <1>3, <3>1 DEF IsAt
  <2>3. ~ GoesOn(p + Len(TextOf(m)))
    <3>1. ~ GoesOn(e)
      BY <1>1 DEF GoesOn
    <3>2. QED
      BY <1>2, <2>1, <3>1
  <2>4. m \in Matches(p)
    BY <2>2, <2>3, MatchesAre
  <2>5. QED
    BY <2>4
<1>4. ~ \E m \in DOMAIN typeChars : typeChars[m][1] = Text(p, p + L)
  BY Zenon, <1>3 DEF TextOf
<1>5. QED
  BY Zenon, <1>4 DEF LongestAt, e

-----------------------------------------------------------------------------
(* Strings end at their quote.                                             *)

Slash == "\\"
Quote == "\""
Break == "\n"
LEMMA EscapesAre ==
  Slash \in Escapes /\ Quote \in Escapes /\ Break \notin Escapes /\ Slash # Quote /\ Slash # Break /\ Quote # Break
  BY DEF Escapes, Slash, Quote, Break

Even(m) == m % 2 = 0
LEMMA EvenIs ==
  ASSUME NEW m \in Nat
  PROVE  Even(0) /\ (Even(m + 1) <=> ~ Even(m)) /\ (Even(m) => Even(m + 2))
  BY DEF Even

\* There are m backslashes before q and behind p, and the one before is none.
IsBackslashes(p, q, m) ==
  /\ m \in 0 .. q - p - 1
  /\ \A r \in q - m .. q - 1 : Char(r) = Slash
  /\ q - m - 1 = p \/ Char(q - m - 1) # Slash
Backslashes(p, q) == CHOOSE m \in 0 .. q - p - 1 :
  /\ \A r \in q - m .. q - 1 : Char(r) = Slash
  /\ q - m - 1 = p \/ Char(q - m - 1) # Slash
Closes(p, q) == Char(q) = Quote /\ Even(Backslashes(p, q))

LEMMA FewerBackslashes ==
  ASSUME NEW p \in Nat, NEW q \in Nat, NEW m, NEW l, IsBackslashes(p, q, m), IsBackslashes(p, q, l), m < l
  PROVE  FALSE
<1>1. /\ m \in Nat /\ l \in Nat /\ l <= q - p - 1
      /\ \A r \in q - l .. q - 1 : Char(r) = Slash
      /\ q - m - 1 = p \/ Char(q - m - 1) # Slash
  BY DEF IsBackslashes
<1>2. q - m - 1 \in q - l .. q - 1 /\ q - m - 1 # p
  BY <1>1
<1>3. QED
  BY <1>1, <1>2

LEMMA BackslashesAre ==
  ASSUME NEW p \in Nat, NEW q \in Nat, NEW m, IsBackslashes(p, q, m)
  PROVE  Backslashes(p, q) = m
<1> DEFINE l == Backslashes(p, q)
<1>1. \E k \in 0 .. q - p - 1 : /\ \A r \in q - k .. q - 1 : Char(r) = Slash
                                /\ q - k - 1 = p \/ Char(q - k - 1) # Slash
  BY Zenon DEF IsBackslashes
<1>2. IsBackslashes(p, q, l)
  BY Zenon, <1>1 DEF Backslashes, IsBackslashes
<1> HIDE DEF l
<1>3. m \in Int /\ l \in Int
  BY <1>2 DEF IsBackslashes
<1>4. ~(m < l) /\ ~(l < m)
  BY <1>2, FewerBackslashes
<1>5. l = m
  BY <1>3, <1>4
<1>6. QED
  BY <1>5 DEF l

LEMMA NextBackslashes ==
  ASSUME NEW p \in Nat, NEW q \in Nat, p < q
  PROVE  /\ IsBackslashes(p, p + 1, 0)
         /\ Char(q) # Slash => IsBackslashes(p, q + 1, 0)
         /\ \A m : IsBackslashes(p, q, m) /\ Char(q) = Slash => IsBackslashes(p, q + 1, m + 1)
<1>1. IsBackslashes(p, p + 1, 0)
  <2>1. 0 \in 0 .. (p + 1) - p - 1 /\ (p + 1) - 0 - 1 = p /\ (p + 1) - 0 .. (p + 1) - 1 = {}
    OBVIOUS
  <2>2. QED
    BY <2>1 DEF IsBackslashes
<1>2. ASSUME Char(q) # Slash PROVE IsBackslashes(p, q + 1, 0)
  <2>1. 0 \in 0 .. (q + 1) - p - 1 /\ (q + 1) - 0 - 1 = q /\ (q + 1) - 0 .. (q + 1) - 1 = {}
    OBVIOUS
  <2>2. QED
    BY <1>2, <2>1 DEF IsBackslashes
<1>3. ASSUME NEW m, IsBackslashes(p, q, m), Char(q) = Slash PROVE IsBackslashes(p, q + 1, m + 1)
  <2>1. /\ m \in 0 .. q - p - 1 /\ \A r \in q - m .. q - 1 : Char(r) = Slash
        /\ q - m - 1 = p \/ Char(q - m - 1) # Slash
    BY <1>3 DEF IsBackslashes
  <2>2. m + 1 \in 0 .. (q + 1) - p - 1 /\ (q + 1) - (m + 1) - 1 = q - m - 1
    BY <2>1
  <2>3. ASSUME NEW r \in (q + 1) - (m + 1) .. (q + 1) - 1 PROVE Char(r) = Slash
    <3>1. r \in q - m .. q - 1 \/ r = q
      BY <2>1
    <3>2. QED
      BY <1>3, <2>1, <3>1
  <2>4. (q + 1) - (m + 1) - 1 = p \/ Char((q + 1) - (m + 1) - 1) # Slash
    BY <2>1, <2>2
  <2>5. QED
    BY <2>2, <2>3, <2>4 DEF IsBackslashes
<1>4. QED
  BY <1>1, <1>2, <1>3

\* The loop comes to x only behind an even number of backslashes, or where no
\* escape is; it passes no line break and no quote that closes.
Reached(p, x) == \E m : IsBackslashes(p, x, m) /\ (Even(m) \/ (x # n => Char(x) \notin Escapes))
Passed(p, r) == Char(r) # Break /\ ~ Closes(p, r)
Stops(p, q) == q = n \/ Char(q) = Break \/ Closes(p, q)
EndsWell(p, x, e) == e \in x .. n /\ Stops(p, e) /\ \A r \in x .. e - 1 : Passed(p, r)

LEMMA EscapedIs ==
  ASSUME NEW x
  PROVE  /\ Escaped(x) <=> Char(x) = Slash /\ x + 1 < n /\ Char(x + 1) \in Escapes
         /\ \A t : NextEnd(t, x) = IF x = n \/ Char(x) = Quote \/ Char(x) = Break THEN x
                                   ELSE IF Escaped(x) THEN t[x + 2] ELSE t[x + 1]
<1>1. Escaped(x) <=> Char(x) = Slash /\ x + 1 < n /\ Char(x + 1) \in Escapes
  BY Zenon DEF Escaped, Slash
<1>2. \A t : NextEnd(t, x) = IF x = n \/ Char(x) = Quote \/ Char(x) = Break THEN x
                             ELSE IF Escaped(x) THEN t[x + 2] ELSE t[x + 1]
  BY Zenon DEF NextEnd, Quote, Break
<1>3. QED
  BY <1>1, <1>2

LEMMA GoesWell ==
  ASSUME n \in Nat, NEW p \in Nat, NEW x \in Nat, p < x, x <= n, NEW t, Reached(p, x),
         t[x] = NextEnd(t, x),
         \A y \in x + 1 .. n : Reached(p, y) => EndsWell(p, y, t[y])
  PROVE  EndsWell(p, x, t[x])
<1>1. PICK m : IsBackslashes(p, x, m) /\ (Even(m) \/ (x # n => Char(x) \notin Escapes))
  BY DEF Reached
<1>2. Backslashes(p, x) = m
  BY <1>1, BackslashesAre
<1>3. m \in Nat
  BY <1>1 DEF IsBackslashes
<1>4. /\ IsBackslashes(p, p + 1, 0)
      /\ Char(x) # Slash => IsBackslashes(p, x + 1, 0)
      /\ Char(x) = Slash => IsBackslashes(p, x + 1, m + 1)
  BY <1>1, NextBackslashes
<1>5. /\ Escaped(x) <=> Char(x) = Slash /\ x + 1 < n /\ Char(x + 1) \in Escapes
      /\ t[x] = IF x = n \/ Char(x) = Quote \/ Char(x) = Break THEN x
                ELSE IF Escaped(x) THEN t[x + 2] ELSE t[x + 1]
  BY EscapedIs
<1>6. CASE x = n \/ Char(x) = Quote \/ Char(x) = Break
  <2>1. t[x] = x /\ x \in x .. n /\ x .. x - 1 = {}
    BY <1>5, <1>6
  <2>2. Stops(p, x)
    <3>1. CASE x # n /\ Char(x) = Quote
      <4>1. Even(m)
        BY <1>1, <3>1, EscapesAre
      <4>2. QED
        BY <1>2, <3>1, <4>1 DEF Stops, Closes
    <3>2. CASE x = n \/ Char(x) = Break
      BY <3>2 DEF Stops
    <3>3. QED
      BY <1>6, <3>1, <3>2
  <2>3. QED
    BY <2>1, <2>2 DEF EndsWell
<1>7. CASE ~(x = n \/ Char(x) = Quote \/ Char(x) = Break) /\ Escaped(x)
  <2>1. Char(x) = Slash /\ x + 1 < n /\ Char(x + 1) \in Escapes /\ t[x] = t[x + 2] /\ x # n
    BY <1>5, <1>7
  <2>2. Even(m)
    BY <1>1, <2>1, EscapesAre
  <2>3. IsBackslashes(p, x + 1, m + 1) /\ ~ Even(m + 1) /\ Even(m + 2)
    BY <1>3, <1>4, <2>1, <2>2, EvenIs
  <2> DEFINE y == x + 1
             z == x + 2
  <2>4. y \in Nat /\ p < y /\ y + 1 = z /\ (m + 1) + 1 = m + 2 /\ z \in x + 1 .. n /\ z \in Nat
    BY <1>3, <2>1
  <2> HIDE DEF y, z
  <2>5. Backslashes(p, y) = m + 1
    BY <2>3, <2>4, BackslashesAre DEF y
  <2>6. Char(y) # Slash => IsBackslashes(p, z, 0)
    BY <2>4, NextBackslashes
  <2>7. Char(y) = Slash => IsBackslashes(p, z, m + 2)
    <3>1. IsBackslashes(p, y, m + 1)
      BY <2>3 DEF y
    <3>2. Char(y) = Slash => IsBackslashes(p, y + 1, (m + 1) + 1)
      BY <2>4, <3>1, NextBackslashes
    <3>3. QED
      BY <2>4, <3>2
  <2>8. Reached(p, z)
    BY <1>3, <2>3, <2>6, <2>7, EvenIs DEF Reached
  <2>9. EndsWell(p, z, t[z])
    BY <2>4, <2>8
  <2>10. Passed(p, x) /\ Passed(p, y)
    <3>1. Passed(p, x)
      BY <2>1, EscapesAre DEF Passed, Closes
    <3>2. Char(y) # Break
      BY <2>1, EscapesAre DEF y
    <3>3. QED
      BY <2>3, <2>5, <3>1, <3>2 DEF Passed, Closes
  <2>11. t[x] = t[z]
    BY <2>1 DEF z
  <2>12. ASSUME NEW r \in x .. t[z] - 1 PROVE Passed(p, r)
    <3>1. t[z] \in z .. n
      BY <2>9 DEF EndsWell
    <3>2. r = x \/ r = y \/ r \in z .. t[z] - 1
      BY <3>1 DEF y, z
    <3>3. QED
      BY <2>9, <2>10, <3>2 DEF EndsWell
  <2>13. t[z] \in x .. n /\ Stops(p, t[z])
    BY <2>9 DEF EndsWell, z
  <2>14. QED
    BY <2>11, <2>12, <2>13 DEF EndsWell
<1>8. CASE ~(x = n \/ Char(x) = Quote \/ Char(x) = Break) /\ ~ Escaped(x)
  <2> DEFINE y == x + 1
  <2>1. t[x] = t[y] /\ x # n /\ Char(x) # Quote /\ Char(x) # Break
    BY <1>5, <1>8
  <2>2. y \in x + 1 .. n /\ y \in Nat
    BY <2>1
  <2>3. Reached(p, y)
    <3>1. CASE Char(x) = Slash
      <4>1. y # n => Char(y) \notin Escapes
        <5>1. ~(x + 1 < n /\ Char(x + 1) \in Escapes)
          BY <1>5, <1>8, <3>1
        <5>2. y # n => x + 1 < n
          BY <2>2
        <5>3. QED
          BY <5>1, <5>2
      <4>2. QED
        BY <1>4, <3>1, <4>1 DEF Reached
    <3>2. CASE Char(x) # Slash
      BY <1>3, <1>4, <3>2, EvenIs DEF Reached
    <3>3. QED
      BY <3>1, <3>2
  <2>4. Passed(p, x)
    BY <2>1 DEF Passed, Closes
  <2>5. EndsWell(p, y, t[y])
    BY <2>2, <2>3
  <2>6. ASSUME NEW r \in x .. t[y] - 1 PROVE Passed(p, r)
    <3>1. t[y] \in y .. n
      BY <2>5 DEF EndsWell
    <3>2. r = x \/ r \in y .. t[y] - 1
      BY <3>1
    <3>3. QED
      BY <2>4, <2>5, <3>2 DEF EndsWell
  <2>7. t[y] \in x .. n /\ Stops(p, t[y])
    BY <2>5 DEF EndsWell
  <2>8. QED
    BY <2>1, <2>6, <2>7 DEF EndsWell
<1>9. QED
  BY <1>6, <1>7, <1>8

\* From behind the quote at p.
LEMMA StringEndsWell ==
  ASSUME n \in Nat, NEW p \in 0 .. n, p # n
  PROVE  EndsWell(p, p + 1, StringEnd(p + 1))
<1> DEFINE s == p + 1
           t == CHOOSE t : Ended(t, s)
<1>0. p \in Nat /\ s \in Nat /\ s \in 0 .. n /\ p < s /\ s <= n
  OBVIOUS
<1>1. StringEnd(s) = t[s]
  BY Zenon DEF StringEnd, Ended, NextEnd
<1>2. Ended(t, s)
  BY <1>0, EndedExists
<1> HIDE DEF t, s
<1>3. \A x \in s .. n : t[x] = NextEnd(t, x)
  BY <1>2 DEF Ended
<1> DEFINE D == {d \in 0 .. n - s : Reached(p, n - d) /\ ~ EndsWell(p, n - d, t[n - d])}
<1>4. ASSUME D # {} PROVE FALSE
  <2>1. D \in SUBSET Nat
    BY <1>0
  <2>2. PICK d \in D : \A e \in D : d <= e
    BY <1>4, <2>1, SmallestOf
  <2> DEFINE x == n - d
  <2>3. d \in 0 .. n - s /\ x \in s .. n /\ Reached(p, x) /\ ~ EndsWell(p, x, t[x])
    BY <1>0
  <2>4. ASSUME NEW y \in x + 1 .. n, Reached(p, y) PROVE EndsWell(p, y, t[y])
    <3>1. n - y \in 0 .. n - s /\ n - y < d /\ n - (n - y) = y
      BY <1>0, <2>3
    <3>2. n - y \notin D
      BY <1>0, <2>2, <2>3, <3>1
    <3>3. QED
      BY <2>4, <3>1, <3>2
  <2> HIDE DEF D, x
  <2>5. x \in Nat /\ p < x /\ x <= n /\ t[x] = NextEnd(t, x)
    BY <1>0, <1>3, <2>3
  <2>6. EndsWell(p, x, t[x])
    BY <1>0, <2>3, <2>4, <2>5, GoesWell
  <2>7. QED
    BY <2>3, <2>6
<1>5. n - s \in 0 .. n - s /\ n - (n - s) = s
  BY <1>0
<1>6. D = {}
  BY <1>4
<1>7. Reached(p, s)
  <2>1. IsBackslashes(p, p + 1, 0)
    BY <1>0, NextBackslashes
  <2>2. Even(0)
    BY EvenIs
  <2>3. QED
    BY <2>1, <2>2 DEF Reached, s
<1>8. EndsWell(p, s, t[s])
  BY <1>5, <1>6, <1>7
<1>9. QED
  BY <1>1, <1>8 DEF s

LEMMA LineEnds ==
  ASSUME n \in Nat, NEW p \in 0 .. n, NEW q \in p .. n,
         q = n \/ Char(q) = Break, \A r \in p .. q - 1 : Char(r) # Break
  PROVE  EndOfLine(p) = q
<1> DEFINE e == EndOfLine(p)
<1>1. e \in p .. n /\ (e = n \/ Char(e) = Break) /\ \A r \in p .. e - 1 : Char(r) # Break
  BY EndOfLineIs DEF Break
<1> HIDE DEF e
<1>2. p \in Nat /\ e \in Nat /\ q \in Nat /\ e <= n /\ q <= n /\ p <= e /\ p <= q
  BY <1>1
<1>3. ASSUME e < q PROVE FALSE
  <2>1. e \in p .. q - 1 /\ e # n
    BY <1>2, <1>3
  <2>2. QED
    BY <1>1, <2>1
<1>4. ASSUME q < e PROVE FALSE
  <2>1. q \in p .. e - 1 /\ q # n
    BY <1>2, <1>4
  <2>2. QED
    BY <1>1, <2>1
<1>5. e = q
  BY <1>2, <1>3, <1>4
<1>6. QED
  BY <1>5 DEF e

\* What StringsEndAtTheirQuote says of a string at p, and of one that does not end.
StringAt(p, length) ==
  LET q == p + length - 1
  IN q \in p + 1 .. EndOfLine(p) - 1 /\ Closes(p, q) /\ \A r \in p + 1 .. q - 1 : ~ Closes(p, r)
OpenAt(p, q) == q = EndOfLine(p) /\ \A r \in p + 1 .. q - 1 : ~ Closes(p, r)

LEMMA StringIs ==
  ASSUME NEW p
  PROVE  IsString(p) <=> Char(p) = Quote /\ StringEnd(p + 1) < n /\ Char(StringEnd(p + 1)) = Quote
  BY Zenon DEF IsString, Quote

LEMMA StringIsRight ==
  ASSUME n \in Nat, NEW p \in 0 .. n, p # n, IsString(p)
  PROVE  StringAt(p, (StringEnd(p + 1) + 1) - p)
<1> DEFINE q == StringEnd(p + 1)
           e == EndOfLine(p)
<1>1. Char(p) = Quote /\ q < n /\ Char(q) = Quote
  BY StringIs
<1>2. EndsWell(p, p + 1, q)
  BY StringEndsWell
<1>3. e \in p .. n /\ (e = n \/ Char(e) = Break)
  BY EndOfLineIs DEF Break
<1> HIDE DEF q, e
<1>4. q \in p + 1 .. n /\ Stops(p, q) /\ \A r \in p + 1 .. q - 1 : Passed(p, r)
  BY <1>2 DEF EndsWell
<1>5. Closes(p, q)
  <2>1. q # n /\ Char(q) # Break
    BY <1>1, <1>4, EscapesAre
  <2>2. QED
    BY <1>4, <2>1 DEF Stops
<1>6. ~(e <= q)
  <2>1. ASSUME e <= q PROVE FALSE
    <3>1. e # n /\ (e = p \/ e = q \/ e \in p + 1 .. q - 1)
      BY <1>1, <1>3, <1>4, <2>1
    <3>2. Char(e) # Break
      BY <1>1, <1>4, <3>1, EscapesAre DEF Passed
    <3>3. QED
      BY <1>3, <3>1, <3>2
  <2>2. QED
    BY <2>1
<1>7. q \in p + 1 .. e - 1
  BY <1>3, <1>4, <1>6
<1>8. \A r \in p + 1 .. q - 1 : ~ Closes(p, r)
  BY <1>4 DEF Passed
<1>9. p + ((q + 1) - p) - 1 = q
  BY <1>4
<1>10. StringAt(p, (q + 1) - p)
  BY <1>5, <1>7, <1>8, <1>9 DEF StringAt, e
<1>11. QED
  BY <1>10 DEF q

LEMMA OpenIsRight ==
  ASSUME n \in Nat, NEW p \in 0 .. n, p # n, Char(p) = Quote, ~ IsString(p)
  PROVE  OpenAt(p, StringEnd(p + 1))
<1> DEFINE q == StringEnd(p + 1)
<1>1. ~(q < n /\ Char(q) = Quote)
  BY StringIs
<1>2. EndsWell(p, p + 1, q)
  BY StringEndsWell
<1> HIDE DEF q
<1>3. q \in p + 1 .. n /\ Stops(p, q) /\ \A r \in p + 1 .. q - 1 : Passed(p, r)
  BY <1>2 DEF EndsWell
<1>4. q = n \/ Char(q) = Break
  <2>1. q # n => q < n
    BY <1>3
  <2>2. QED
    BY <1>1, <1>3, <2>1 DEF Stops, Closes
<1>5. \A r \in p .. q - 1 : Char(r) # Break
  <2>1. \A r \in p .. q - 1 : r = p \/ r \in p + 1 .. q - 1
    BY <1>3
  <2>2. QED
    BY <1>3, <2>1, EscapesAre DEF Passed
<1>6. q \in p .. n
  BY <1>3
<1>7. EndOfLine(p) = q
  BY <1>4, <1>5, <1>6, LineEnds
<1>8. \A r \in p + 1 .. q - 1 : ~ Closes(p, r)
  BY <1>3 DEF Passed
<1>9. QED
  BY <1>7, <1>8 DEF OpenAt, q

-----------------------------------------------------------------------------
(* The tokens of a text do not change.                                     *)

\* The same for any text.
ClosesIn(text, p, q) ==
  /\ Of(text)!Char(q) = Quote
  /\ Even(CHOOSE m \in 0 .. q - p - 1 :
            /\ \A r \in q - m .. q - 1 : Of(text)!Char(r) = Slash
            /\ q - m - 1 = p \/ Of(text)!Char(q - m - 1) # Slash)
LongestIn(text, p, type, length) ==
  IF Of(text)!Char(p) \in Wordly
  THEN /\ length = Of(text)!EndOfRun(p, Wordly) - p
       /\ IF \E m \in DOMAIN typeChars : typeChars[m][1] = Of(text)!Text(p, p + length)
          THEN <<Of(text)!Text(p, p + length), type>> \in {typeChars[m] : m \in DOMAIN typeChars}
          ELSE type = "tkIdent"
  ELSE \A m \in DOMAIN typeChars : Of(text)!IsAt(p, typeChars[m][1]) => Len(typeChars[m][1]) <= length
StringIn(text, p, length) ==
  LET q == p + length - 1
  IN /\ q \in p + 1 .. Of(text)!EndOfLine(p) - 1
     /\ ClosesIn(text, p, q)
     /\ \A r \in p + 1 .. q - 1 : ~ ClosesIn(text, p, r)
OpenIn(text, p, q) == q = Of(text)!EndOfLine(p) /\ \A r \in p + 1 .. q - 1 : ~ ClosesIn(text, p, r)

LEMMA InThisText ==
  ASSUME NEW p, NEW q, NEW type, NEW length
  PROVE  /\ ClosesIn(code, p, q) <=> Closes(p, q)
         /\ LongestIn(code, p, type, length) <=> LongestAt(p, type, length)
         /\ StringIn(code, p, length) <=> StringAt(p, length)
         /\ OpenIn(code, p, q) <=> OpenAt(p, q)
<1>1. /\ \A r : Of(code)!Char(r) = Char(r)
      /\ \A r, t : Of(code)!IsAt(r, t) <=> IsAt(r, t)
  BY SameText
<1>2. \A r, s : Of(code)!Text(r, s) = Text(r, s)
  BY Zenon DEF Text, Of!Text
<1>3. /\ Of(code)!EndOfRun(p, Wordly) = EndOfRun(p, Wordly)
      /\ Of(code)!EndOfLine(p) = EndOfLine(p)
  BY SameScans
<1>4. \A a, b : ClosesIn(code, a, b) <=> Closes(a, b)
  BY Zenon, <1>1 DEF ClosesIn, Closes, Backslashes
<1>5. LongestIn(code, p, type, length) <=> LongestAt(p, type, length)
  <2>1. Of(code)!Char(p) = Char(p) /\ Of(code)!Text(p, p + length) = Text(p, p + length)
    BY Zenon, <1>1, <1>2
  <2>2. \A m : Of(code)!IsAt(p, typeChars[m][1]) <=> IsAt(p, typeChars[m][1])
    BY Zenon, <1>1
  <2>3. CASE Char(p) \in Wordly
    BY SMT, <1>3, <2>1, <2>3 DEF LongestIn, LongestAt
  <2>4. CASE Char(p) \notin Wordly
    BY SMT, <2>1, <2>2, <2>4 DEF LongestIn, LongestAt
  <2>5. QED
    BY <2>3, <2>4
<1>6. StringIn(code, p, length) <=> StringAt(p, length)
  BY Zenon, <1>3, <1>4 DEF StringIn, StringAt
<1>7. OpenIn(code, p, q) <=> OpenAt(p, q)
  BY Zenon, <1>3, <1>4 DEF OpenIn, OpenAt
<1>8. QED
  BY <1>4, <1>5, <1>6, <1>7

-----------------------------------------------------------------------------
(* What the lexer returns is right.                                        *)

NotWords == {"tkEof", "tkStringLiteral", "tkIntLiteral", "tkRealLiteral"}
TokenFine(text, t) ==
  /\ t.type \notin NotWords => LongestIn(text, t.position, t.type, t.length)
  /\ t.type = "tkStringLiteral" => StringIn(text, t.position, t.length)

\* The parts of TokensAreRight, and what is known of the texts.
TokensFine == \A k \in 1 .. Len(tokens) : TokenFine(code, tokens[k])
FailureFine == lexing = "failed" /\ Of(code)!Char(i) = Quote => OpenIn(code, i, diagnostics[1].position)
TextsFine ==
  /\ lexing \in {"on", "done", "failed"}
  /\ lexing = "on" => HasParts(code)
  /\ \A name \in DOMAIN disk : disk[name] # Missing => HasParts(disk[name])
TokensInv == TokensFine /\ FailureFine /\ ErrorsStopTheFile /\ TextsFine

LEMMA RightIfFine ==
  ASSUME LexInv, TokensInv
  PROVE  TokensAreRight
<1>1. DOMAIN tokens = 1 .. Len(tokens)
  BY DEF LexInv
<1>2. ASSUME NEW k \in DOMAIN tokens
      PROVE  /\ tokens[k].type \notin NotWords =>
                  LongestAt(tokens[k].position, tokens[k].type, tokens[k].length)
             /\ tokens[k].type = "tkStringLiteral" => StringAt(tokens[k].position, tokens[k].length)
  <2>1. TokenFine(code, tokens[k])
    BY <1>1 DEF TokensInv, TokensFine
  <2>2. QED
    BY <2>1, InThisText DEF TokenFine
<1>3. TokensAreLongest
  BY Zenon, <1>2 DEF TokensAreLongest, LongestAt, Written, NotWords
<1>4. lexing = "failed" /\ Char(i) = Quote => OpenAt(i, diagnostics[1].position)
  BY SameText, InThisText DEF TokensInv, FailureFine
<1>5. StringsEndAtTheirQuote
  <2>1. \A k \in DOMAIN tokens : tokens[k].type = "tkStringLiteral" => StringAt(tokens[k].position, tokens[k].length)
    BY <1>2
  <2>2. lexing = "failed" /\ Char(i) = Quote =>
          /\ \A q \in i + 1 .. EndOfLine(i) - 1 : ~ Closes(i, q)
          /\ diagnostics[1].position = EndOfLine(i)
    BY <1>4 DEF OpenAt
  <2>3. QED
    BY Zenon, <2>1, <2>2 DEF StringsEndAtTheirQuote, StringAt, Closes, Backslashes, Even, Quote, Slash
<1>6. QED
  BY <1>3, <1>5 DEF TokensAreRight, TokensInv

LEMMA PushIsFine ==
  ASSUME LexInv, TokensInv, lexing = "on", disk' = disk, NEW type, NEW end, Push(type, end),
         TokenFine(code, [type |-> type, position |-> i, length |-> end - i])
  PROVE  TokensInv'
<1> DEFINE t == [type |-> type, position |-> i, length |-> end - i]
<1>1. /\ tokens' = Append(tokens, t) /\ code' = code /\ i' = end
      /\ diagnostics' = diagnostics /\ lexing' = lexing
  BY DEF Push
<1>2. TokenFine(code, t)
  OBVIOUS
<1> HIDE DEF t
<1>3. tokens \in Seq(Token) /\ Len(tokens) \in Nat
  BY DEF LexInv
<1>4. TokensFine'
  <2>1. /\ Len(tokens') = Len(tokens) + 1 /\ tokens'[Len(tokens) + 1] = t
        /\ \A k \in 1 .. Len(tokens) : tokens'[k] = tokens[k]
    BY <1>1, <1>3
  <2>2. \A k \in 1 .. Len(tokens') : k \in 1 .. Len(tokens) \/ k = Len(tokens) + 1
    BY <1>3, <2>1
  <2>3. \A k \in 1 .. Len(tokens') : TokenFine(code, tokens'[k])
    BY <1>2, <2>1, <2>2 DEF TokensInv, TokensFine
  <2>4. QED
    BY <1>1, <2>3 DEF TokensFine
<1>5. FailureFine' /\ TextsFine'
  BY <1>1 DEF TokensInv, TextsFine, FailureFine
<1>6. ErrorsStopTheFile'
  <2>1. diagnostics = <<>>
    BY DEF TokensInv, ErrorsStopTheFile
  <2>2. QED
    BY <1>1, <2>1 DEF ErrorsStopTheFile
<1>7. QED
  BY <1>4, <1>5, <1>6 DEF TokensInv

LEMMA SkipIsFine ==
  ASSUME TokensInv, lexing = "on", disk' = disk, NEW end, Skip(end)
  PROVE  TokensInv'
<1>1. /\ tokens' = tokens /\ code' = code /\ diagnostics' = diagnostics /\ lexing' = lexing
  BY DEF Skip
<1>2. diagnostics = <<>>
  BY DEF TokensInv, ErrorsStopTheFile
<1>3. TokensFine' /\ FailureFine' /\ TextsFine'
  BY <1>1 DEF TokensInv, TextsFine, FailureFine, TokensFine
<1>4. ErrorsStopTheFile'
  BY <1>1, <1>2 DEF ErrorsStopTheFile
<1>5. QED
  BY <1>3, <1>4 DEF TokensInv

\* One or two errors, put together.
LEMMA Joined ==
  ASSUME NEW a, NEW b
  PROVE  <<a>> \o <<b>> = <<a, b>> /\ <<>> \o <<b>> = <<b>> /\ <<>> \o <<a, b>> = <<a, b>>
<1>1. <<a>> \in Seq({a, b}) /\ <<b>> \in Seq({a, b}) /\ <<a, b>> \in Seq({a, b})
  OBVIOUS
<1>2. \A s \in Seq({a, b}) : <<>> \o s = s
  BY ConcatEmptySeq
<1>3. <<>> \o <<b>> = <<b>> /\ <<>> \o <<a, b>> = <<a, b>>
  BY <1>1, <1>2
<1>4. Append(<<a>>, b) = <<a>> \o <<b>>
  BY <1>1, AppendIsConcat
<1>5. Append(<<a>>, b) = <<a, b>>
  <2> DEFINE whole == Append(<<a>>, b)
             pair == <<a, b>>
  <2>1. whole \in Seq({a, b}) /\ pair \in Seq({a, b}) /\ Len(whole) = 2 /\ Len(pair) = 2
    BY <1>1
  <2>2. whole[1] = pair[1] /\ whole[2] = pair[2]
    BY <1>1
  <2> HIDE DEF whole, pair
  <2>3. \A k \in 1 .. 2 : k = 1 \/ k = 2
    OBVIOUS
  <2>4. \A k \in 1 .. Len(whole) : whole[k] = pair[k]
    BY <2>1, <2>2, <2>3
  <2>5. whole = pair
    BY <2>1, <2>4, SeqEqual
  <2>6. QED
    BY <2>5 DEF whole, pair
<1>6. QED
  BY <1>3, <1>4, <1>5

\* The errors of a failure: the last one says where the lexer is.
LEMMA ErrorsAre ==
  /\ Len(Errors) \in Nat \ {0} /\ Errors # <<>> /\ <<>> \o Errors = Errors
  /\ Errors[Len(Errors)] = [kind |-> "LexerError", position |-> i]
  /\ Char(i) = Quote => Errors[1] = StringError(StringEnd(i + 1))
<1> DEFINE a == StringError(StringEnd(i + 1))
           b == [kind |-> "LexerError", position |-> i]
<1>1. Errors = IF Char(i) = Quote THEN <<a>> \o <<b>> ELSE <<>> \o <<b>>
  BY Zenon DEF Errors, Quote
<1> HIDE DEF a, b
<1>2. /\ <<a>> \o <<b>> = <<a, b>> /\ <<>> \o <<b>> = <<b>>
      /\ <<>> \o <<a, b>> = <<a, b>>
  BY Joined
<1>3. Errors = IF Char(i) = Quote THEN <<a, b>> ELSE <<b>>
  BY <1>1, <1>2
<1> HIDE DEF Errors
<1>4. /\ Len(Errors) \in Nat \ {0} /\ Errors # <<>> /\ <<>> \o Errors = Errors
      /\ Errors[Len(Errors)] = b /\ (Char(i) = Quote => Errors[1] = a)
  BY <1>2, <1>3
<1>5. QED
  BY <1>4 DEF a, b

LEMMA FailureIsFine ==
  ASSUME LexInv, TokensInv, lexing = "on", i # n, disk' = disk, LexerError
  PROVE  TokensInv'
<1>1. /\ Check(i) = "none" /\ diagnostics' = diagnostics \o Errors /\ lexing' = "failed"
      /\ code' = code /\ i' = i /\ tokens' = tokens
  BY DEF LexerError
<1>2. i \in 0 .. n /\ n \in Nat
  BY DEF LexInv
<1>3. diagnostics = <<>>
  BY DEF TokensInv, ErrorsStopTheFile
<1>4. diagnostics' = Errors /\ Errors # <<>> /\ Errors[Len(Errors)] = [kind |-> "LexerError", position |-> i]
  BY <1>1, <1>3, ErrorsAre
<1>5. ErrorsStopTheFile'
  BY <1>1, <1>4 DEF ErrorsStopTheFile
<1>6. ASSUME Char(i) = Quote PROVE OpenIn(code, i, Errors[1].position)
  <2>1. ~ IsString(i)
    <3>1. Check(i) # "string"
      BY <1>1
    <3>2. Char(i) \notin Blanks /\ ~ IsAt(i, "//")
      BY Zenon, <1>1 DEF Check
    <3>3. QED
      BY Zenon, <3>1, <3>2 DEF Check
  <2>2. OpenAt(i, StringEnd(i + 1))
    BY <1>2, <1>6, <2>1, OpenIsRight
  <2>3. Errors[1].position = StringEnd(i + 1)
    BY <1>6, ErrorsAre DEF StringError
  <2>4. QED
    BY <2>2, <2>3, InThisText
<1>7. FailureFine'
  BY <1>1, <1>4, <1>6, SameText DEF FailureFine
<1>8. TokensFine' /\ TextsFine'
  BY <1>1 DEF TokensInv, TokensFine, TextsFine
<1>9. QED
  BY <1>5, <1>7, <1>8 DEF TokensInv

\* A turn of the loop.
LEMMA TurnIsFine ==
  ASSUME LexInv, TokensInv, LexerNext, disk' = disk
  PROVE  TokensInv'
<1>1. lexing = "on" /\ i \in 0 .. n /\ n \in Nat /\ HasParts(code)
  BY DEF LexInv, LexerNext, TokensInv, TextsFine
<1>2. \/ EndOfFile
      \/ /\ i < n
         /\ \/ SkipBlank \/ checkComments \/ checkStringLiterals \/ checkNumbers
            \/ checkToken \/ checkIdentifierToken \/ LexerError
  BY Zenon DEF LexerNext
<1>3. i < n => i # n
  BY <1>1
<1>4. \A type, end : [type |-> type, position |-> i, length |-> end - i].type = type
  OBVIOUS
<1>5. ASSUME NEW type, NEW end, Push(type, end),
             type \notin NotWords => LongestAt(i, type, end - i),
             type = "tkStringLiteral" => StringAt(i, end - i)
      PROVE  TokensInv'
  <2> DEFINE t == [type |-> type, position |-> i, length |-> end - i]
  <2>1. t.type = type /\ t.position = i /\ t.length = end - i
    OBVIOUS
  <2> HIDE DEF t
  <2>2. /\ LongestIn(code, i, type, end - i) <=> LongestAt(i, type, end - i)
        /\ StringIn(code, i, end - i) <=> StringAt(i, end - i)
    BY InThisText
  <2>3. TokenFine(code, t)
    BY <1>5, <2>1, <2>2 DEF TokenFine
  <2>4. QED
    BY <1>1, <1>5, <2>3, PushIsFine DEF t
<1>6. CASE EndOfFile
  <2> DEFINE t == [type |-> "tkEof", position |-> n, length |-> 0]
  <2>1. /\ i = n /\ tokens' = Append(tokens, t) /\ lexing' = "done"
        /\ code' = code /\ i' = i /\ diagnostics' = diagnostics
    BY <1>6 DEF EndOfFile
  <2>2. TokenFine(code, t)
    BY DEF TokenFine, NotWords
  <2> HIDE DEF t
  <2>3. tokens \in Seq(Token) /\ Len(tokens) \in Nat
    BY DEF LexInv
  <2>4. TokensFine'
    <3>1. /\ Len(tokens') = Len(tokens) + 1 /\ tokens'[Len(tokens) + 1] = t
          /\ \A k \in 1 .. Len(tokens) : tokens'[k] = tokens[k]
      BY <2>1, <2>3
    <3>2. \A k \in 1 .. Len(tokens') : k \in 1 .. Len(tokens) \/ k = Len(tokens) + 1
      BY <2>3, <3>1
    <3>3. \A k \in 1 .. Len(tokens') : TokenFine(code, tokens'[k])
      BY <2>2, <3>1, <3>2 DEF TokensInv, TokensFine
    <3>4. QED
      BY <2>1, <3>3 DEF TokensFine
  <2>5. FailureFine' /\ TextsFine'
    BY <2>1 DEF TokensInv, TextsFine, FailureFine
  <2>6. ErrorsStopTheFile'
    <3>1. diagnostics = <<>>
      BY <1>1 DEF TokensInv, ErrorsStopTheFile
    <3>2. QED
      BY <2>1, <3>1 DEF ErrorsStopTheFile
  <2>7. QED
    BY <2>4, <2>5, <2>6 DEF TokensInv
<1>7. CASE i < n /\ SkipBlank
  BY <1>1, <1>7, SkipIsFine DEF SkipBlank
<1>8. CASE i < n /\ checkComments
  BY <1>1, <1>8, SkipIsFine DEF checkComments
<1>9. CASE i < n /\ checkStringLiterals
  <2>1. Check(i) = "string" /\ Push("tkStringLiteral", StringEnd(i + 1) + 1)
    BY <1>9 DEF checkStringLiterals
  <2>2. IsString(i)
    BY Zenon, <2>1 DEF Check
  <2>3. StringAt(i, (StringEnd(i + 1) + 1) - i)
    BY <1>1, <1>3, <1>9, <2>2, StringIsRight
  <2> DEFINE type == "tkStringLiteral"
             end == StringEnd(i + 1) + 1
  <2>4. type \in NotWords
    BY DEF NotWords
  <2>5. Push(type, end)
    BY Zenon, <2>1
  <2>6. StringAt(i, end - i)
    BY <2>3
  <2> HIDE DEF type, end
  <2>7. QED
    BY <1>5, <2>4, <2>5, <2>6
<1>10. CASE i < n /\ checkNumbers
  <2> DEFINE whole == NumberEnd(i) = EndOfRun(i, Digits)
             type == IF whole THEN "tkIntLiteral" ELSE "tkRealLiteral"
             end == NumberEnd(i)
  <2>1. Push(type, end)
    BY Zenon, <1>10 DEF checkNumbers
  <2> HIDE DEF whole, end
  <2>2. type \in NotWords /\ type # "tkStringLiteral"
    BY DEF NotWords
  <2> HIDE DEF type
  <2>3. QED
    BY <1>5, <2>1, <2>2
<1>11. CASE i < n /\ checkToken
  <2> DEFINE tok == typeChars[FirstMatch(i)]
             end == i + Len(tok[1])
  <2>1. Check(i) = "token" /\ Push(tok[2], end)
    BY <1>11 DEF checkToken
  <2>2. Matches(i) # {}
    BY Zenon, <2>1 DEF Check
  <2>3. LongestAt(i, tok[2], Len(tok[1]))
    BY <1>1, <2>2, TokenIsLongest
  <2>4. FirstMatch(i) \in DOMAIN typeChars
    BY <2>2, FirstMatchIs
  <2>5. Len(tok[1]) \in Nat
    BY <2>4, StringAssumption
  <2>6. tok[2] # "tkStringLiteral"
    <3>1. FirstMatch(i) \in 1 .. 48 /\ tok[2] = TypeColumn[FirstMatch(i)]
      BY <2>4, TableIs, ColumnsAre
    <3>2. \A k \in 1 .. 48 : TypeColumn[k] # "tkStringLiteral"
      BY SMTT(60) DEF TypeColumn
    <3>3. QED
      BY <3>1, <3>2
  <2> DEFINE type == tok[2]
             L == Len(tok[1])
  <2>7. L \in Nat /\ LongestAt(i, type, L) /\ type # "tkStringLiteral" /\ end = i + L /\ Push(type, end)
    BY <2>1, <2>3, <2>5, <2>6
  <2> HIDE DEF tok, type, L, end
  <2>8. end - i = L
    BY <1>1, <2>7
  <2>9. QED
    BY <1>5, <2>7, <2>8
<1>12. CASE i < n /\ checkIdentifierToken
  <2>1. Check(i) = "identifier" /\ Push("tkIdent", EndOfRun(i, Wordly))
    BY <1>12 DEF checkIdentifierToken
  <2>2. Matches(i) = {} /\ Char(i) \in Latin \cup {"_"}
    BY Zenon, <2>1 DEF Check
  <2>3. Char(i) \in Wordly
    BY <2>2 DEF Wordly
  <2>4. LongestAt(i, "tkIdent", EndOfRun(i, Wordly) - i)
    BY <1>1, <2>2, <2>3, IdentifierIsLongest
  <2>5. "tkIdent" # "tkStringLiteral"
    OBVIOUS
  <2>6. QED
    BY <1>5, <2>1, <2>4, <2>5
<1>13. CASE i < n /\ LexerError
  BY <1>1, <1>3, <1>13, FailureIsFine
<1>14. QED
  BY <1>2, <1>6, <1>7, <1>8, <1>9, <1>10, <1>11, <1>12, <1>13

\* No step besides Open and Tokenize touches the lexer, and none the texts.
LEMMA TokensAtRest ==
  ASSUME TokensInv, UNCHANGED lexVars, disk' = disk
  PROVE  TokensInv'
<1>1. /\ code' = code /\ i' = i /\ tokens' = tokens /\ diagnostics' = diagnostics
      /\ lexing' = lexing
  BY DEF lexVars
<1>2. TokensFine' /\ FailureFine' /\ TextsFine' /\ ErrorsStopTheFile'
  BY <1>1 DEF TokensInv, TokensFine, FailureFine, TextsFine, ErrorsStopTheFile
<1>3. QED
  BY <1>2 DEF TokensInv

LEMMA NothingLexed ==
  ASSUME TextsFine, tokens = <<>>, diagnostics = <<>>, lexing # "failed"
  PROVE  TokensInv
<1>1. 1 .. Len(tokens) = {}
  OBVIOUS
<1>2. TokensFine
  BY <1>1 DEF TokensFine
<1>3. FailureFine /\ ErrorsStopTheFile
  BY DEF FailureFine, ErrorsStopTheFile
<1>4. QED
  BY <1>2, <1>3 DEF TokensInv

LEMMA TokensAtStart ==
  ASSUME Init
  PROVE  TokensInv
<1>1. tokens = <<>> /\ diagnostics = <<>> /\ lexing = "done"
  BY Zenon DEF Init
<1>2. PICK world \in Worlds : disk = world.disk
  BY Zenon DEF Init
<1>3. \A name \in DOMAIN disk : disk[name] # Missing => HasParts(disk[name])
  BY <1>2, SpellingAssumption, Zenon
<1>4. TextsFine
  BY <1>1, <1>3 DEF TextsFine
<1>5. QED
  BY <1>1, <1>4, NothingLexed

LEMMA OpenIsFine ==
  ASSUME MainInv, TokensInv, Open
  PROVE  TokensInv'
<1>1. disk' = disk /\ Len(verdicts) < Len(files)
  BY Zenon DEF Open, Return, argVars
<1>2. CASE disk[Current] = Missing
  <2>1. UNCHANGED lexVars
    BY Zenon, <1>2 DEF Open, Return
  <2>2. QED
    BY <1>1, <2>1, TokensAtRest
<1>3. CASE disk[Current] # Missing
  <2>1. /\ code' = disk[Current] /\ tokens' = <<>> /\ diagnostics' = <<>> /\ lexing' = "on"
    BY Zenon, <1>3 DEF Open, StartLexing
  <2>2. HasParts(disk[Current])
    BY <1>1, <1>3, CurrentIs DEF TokensInv, TextsFine
  <2>3. TextsFine'
    BY <1>1, <2>1, <2>2 DEF TokensInv, TextsFine
  <2>4. TokensFine' /\ FailureFine' /\ ErrorsStopTheFile'
    <3>1. 1 .. Len(tokens') = {}
      BY <2>1
    <3>2. TokensFine'
      BY <3>1 DEF TokensFine
    <3>3. QED
      BY <2>1, <3>2 DEF FailureFine, ErrorsStopTheFile
  <2>5. QED
    BY <2>3, <2>4 DEF TokensInv
<1>4. QED
  BY <1>2, <1>3

LEMMA TokensStay ==
  ASSUME MainInv, TokensInv, [Next]_vars
  PROVE  TokensInv'
<1>1. CASE InterpretArgs
  <2>1. FileName \/ EndOfOptions \/ NumberOption \/ LongFlag \/ ShortFlagsOf
    BY Zenon, <1>1 DEF InterpretArgs
  <2>2. UNCHANGED lexVars /\ disk' = disk
    BY Zenon, <2>1
       DEF FileName, EndOfOptions, NumberOption, LongFlag, ShortFlagsOf, ReadFlags, Read, Refuse, argVars
  <2>3. QED
    BY <2>2, TokensAtRest
<1>2. CASE Open
  BY <1>2, OpenIsFine
<1>3. CASE Tokenize
  <2>1. LexerNext /\ disk' = disk
    BY Zenon, <1>3 DEF Tokenize, argVars
  <2>2. QED
    BY <2>1, TurnIsFine DEF MainInv
<1>4. CASE ArgsRead \/ Tokenized \/ Parse \/ Parsed \/ Analyze \/ Analyzed \/ Run \/ Exit
  <2>1. UNCHANGED lexVars /\ disk' = disk
    BY Zenon, <1>4 DEF ArgsRead, Tokenized, Parse, Parsed, Analyze, Analyzed, Run, Exit, Return, Enter, Die, argVars
  <2>2. QED
    BY <2>1, TokensAtRest
<1>5. CASE UNCHANGED vars
  <2>1. UNCHANGED lexVars /\ disk' = disk
    BY <1>5 DEF vars, mainVars, argVars
  <2>2. QED
    BY <2>1, TokensAtRest
<1>6. QED
  BY Zenon, <1>1, <1>2, <1>3, <1>4, <1>5 DEF Next

-----------------------------------------------------------------------------
(* The theorems.                                                           *)

\* Whatever happens, the invariant holds.
THEOREM MainIsKept == Spec => []MainInv
<1>1. Init => MainInv
  BY InitIs
<1>2. MainInv /\ [Next]_vars => MainInv'
  BY StepKeeps
<1>3. QED
  BY <1>1, <1>2, PTL DEF Spec

\* In every text, each character up to the lexer's position is in exactly one
\* token, or white, or in a comment; tokens are in the order of the text.
\* (tokenize)
THEOREM CharactersOnce == Spec => []EveryCharacterOnce
<1>1. MainInv => EveryCharacterOnce
  BY DEF MainInv, LexInv
<1>2. QED
  BY <1>1, MainIsKept, PTL

\* Whatever the texts, the options and the verdicts of the stages, every file
\* has its turn and its own fate, unless a stage after the lexer has ended the
\* process at a file before it: a text is accepted by the lexer or not whichever
\* files were read before it, the exit code tells whether one has failed, and
\* nothing is executed, by a program that kills the process either, that was not
\* asked for or was not found right.  (main, ProcessFile)
THEOREM FilesHaveTheirFate == Spec => []EveryFileHasItsFate
<1>1. ASSUME MainInv PROVE EveryFileHasItsFate
  <2>1. /\ verdicts \in Seq(Verdict) /\ DOMAIN verdicts = 1 .. Len(verdicts)
        /\ failed \in BOOLEAN
    BY <1>1 DEF MainInv, ProgressInv
  <2>2. ASSUME stage = "exit", arg > Len(argv)
        PROVE  Len(verdicts) = Len(files) /\ failed = (\E k \in DOMAIN verdicts : ~ verdicts[k].ok)
    <3>1. Len(verdicts) = Len(files) /\ (failed <=> SomeFailed)
      BY <1>1, <2>2 DEF MainInv, ProgressInv
    <3>2. SomeFailed <=> \E k \in DOMAIN verdicts : ~ verdicts[k].ok
      BY <2>1 DEF SomeFailed
    <3>3. QED
      BY <2>1, <3>1, <3>2
  <2>3. ASSUME NEW k \in DOMAIN verdicts
        PROVE  /\ disk[files[k]] = Missing => ~ verdicts[k].ok /\ verdicts[k].did = {}
               /\ "ran" \in verdicts[k].did =>
                    /\ {"parsed", "analyzed"} \subseteq verdicts[k].did
                    /\ opts.flags \cap {"Lexer", "Syntaxer", "Semantics", "Check"} = {}
               /\ "waited" \in verdicts[k].did => "warned" \in verdicts[k].did
               /\ Flag("Lexer") => verdicts[k] = FateOf(disk[files[k]], opts.flags)
    <3>1. Fate(verdicts[k], disk[files[k]], opts.flags)
      BY <1>1, <2>1 DEF MainInv, FatesInv
    <3>2. QED
      BY <3>1 DEF Fate, EarlyEnds, Flag
  <2>4. ASSUME Flag("Lexer"), NEW k \in DOMAIN verdicts, NEW m \in DOMAIN verdicts, files[m] = files[k]
        PROVE  verdicts[m] = verdicts[k]
    BY <2>3, <2>4
  <2>5. ASSUME stage = "dead"
        PROVE  /\ Len(verdicts) < Len(files) /\ disk[Current] # Missing /\ ~ Flag("Lexer") /\ failed
               /\ "ran" \in did =>
                    /\ {"parsed", "analyzed"} \subseteq did
                    /\ opts.flags \cap {"Lexer", "Syntaxer", "Semantics", "Check"} = {}
    BY <1>1, <2>5 DEF MainInv, ProgressInv, Seeing, Permitted, EarlyEnds
  <2>6. QED
    BY <2>2, <2>3, <2>4, <2>5, Zenon DEF EveryFileHasItsFate
<1>2. QED
  BY <1>1, MainIsKept, PTL

\* Whatever the arguments, they mean what the help says: a number is that of the
\* option before it, or the program refuses it; nothing after "--" is an option;
\* the flags are those the help lists; the files are the arguments that name
\* files, in their order.  The exceptions are --notrace, which the help lists and
\* the program refuses, and a numeral whose overflow the program does not notice.
\* (InterpretArgs, ParseSizeT, Options::HELP)
THEOREM ArgumentsMean == Constructs = {} => (Spec => []OptionsAreRight)
<1> SUFFICES ASSUME Constructs = {} PROVE Spec => []OptionsAreRight
  OBVIOUS
<1>1. Init => MainInv /\ OptionsInv
  BY InitIs, OptionsAtStart
<1>2. (MainInv /\ OptionsInv) /\ [Next]_vars => (MainInv /\ OptionsInv)'
  BY StepKeeps, OptionsStay
<1>3. MainInv /\ OptionsInv => OptionsAreRight
  BY OptionsAre
<1>4. QED
  BY <1>1, <1>2, <1>3, PTL DEF Spec

\* Whatever a file contains, its tokens are the longest that begin where they do,
\* and keywords exactly where a keyword is a whole word, although the table is
\* searched from its beginning; a string ends at the first quote that no backslash
\* escapes, and where the line has none, the file is rejected; an error stops the
\* file.  (tokenize, checkToken, isAlphabeticToken, checkStringLiterals)
THEOREM TokensRight == Spec => []TokensAreRight
<1>1. Init => MainInv /\ TokensInv
  BY InitIs, TokensAtStart
<1>2. (MainInv /\ TokensInv) /\ [Next]_vars => (MainInv /\ TokensInv)'
  BY StepKeeps, TokensStay
<1>3. MainInv /\ TokensInv => TokensAreRight
  BY RightIfFine DEF MainInv
<1>4. QED
  BY <1>1, <1>2, <1>3, PTL DEF Spec
=============================================================================
