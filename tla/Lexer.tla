------------------------------- MODULE Lexer --------------------------------
(***************************************************************************)
(* Lexer::tokenize (src/src/lexer/lexer.cpp): one action per turn of its   *)
(* loop that a check ends.  Positions count from 0, as in the code; Char   *)
(* and Text take them.                                                     *)
(*                                                                         *)
(* Left out: the values of literals (the interpreter's arithmetic is       *)
(* BigInt; escapes are read here, but not what they stand for), and bytes  *)
(* outside of ASCII, which only strings and comments may have.             *)
(***************************************************************************)
EXTENDS Integers, Sequences, FiniteSets

VARIABLES
  code,         \* the text of the file
  i,            \* the position in it
  tokens,       \* type and span of the tokens so far
  diagnostics,  \* kind and position of the errors logged
  lexing        \* "on", "done", or "failed" when no tokens are returned

lexVars == <<code, i, tokens, diagnostics, lexing>>

\* Token::Type, in the order of the enumeration.
Types == <<
  "tkGreater", "tkGreaterEq", "tkLess", "tkLessEq", "tkEqual", "tkNotEqual", "tkPlus",
  "tkMinus", "tkTimes", "tkDivide", "tkNewLine", "tkAssign", "tkOpenBracket",
  "tkClosedBracket", "tkOpenParenthesis", "tkClosedParenthesis", "tkOpenCurlyBrace",
  "tkClosedCurlyBrace", "tkSemicolon", "tkVar", "tkWhile", "tkFor", "tkIf", "tkThen",
  "tkEnd", "tkArrow", "tkExit", "tkPrint", "tkRange", "tkIn", "tkElse", "tkLoop",
  "tkDot", "tkComma", "tkAnd", "tkOr", "tkNot", "tkXor", "tkInt", "tkReal", "tkBool",
  "tkString", "tkNone", "tkFunc", "tkTrue", "tkFalse", "tkIs", "tkReturn",
  "tkIntLiteral", "tkRealLiteral", "tkStringLiteral", "tkIdent", "tkEof">>

\* Token::typeChars.
typeChars == <<
  <<"var", "tkVar">>, <<"while", "tkWhile">>, <<"for", "tkFor">>, <<"if", "tkIf">>,
  <<"then", "tkThen">>, <<"end", "tkEnd">>, <<"exit", "tkExit">>, <<"print", "tkPrint">>,
  <<"else", "tkElse">>, <<"loop", "tkLoop">>, <<",", "tkComma">>, <<"and", "tkAnd">>,
  <<"or", "tkOr">>, <<"not", "tkNot">>, <<"xor", "tkXor">>, <<"real", "tkReal">>,
  <<"string", "tkString">>, <<"bool", "tkBool">>, <<"none", "tkNone">>,
  <<"func", "tkFunc">>, <<"+", "tkPlus">>, <<"-", "tkMinus">>, <<"*", "tkTimes">>,
  <<"\n", "tkNewLine">>, <<"[", "tkOpenBracket">>, <<"]", "tkClosedBracket">>,
  <<"(", "tkOpenParenthesis">>, <<")", "tkClosedParenthesis">>,
  <<"{", "tkOpenCurlyBrace">>, <<"}", "tkClosedCurlyBrace">>, <<";", "tkSemicolon">>,
  <<":=", "tkAssign">>, <<"true", "tkTrue">>, <<"false", "tkFalse">>, <<"is", "tkIs">>,
  <<"return", "tkReturn">>, <<"int", "tkInt">>, <<"in", "tkIn">>, <<"..", "tkRange">>,
  <<".", "tkDot">>, <<"=>", "tkArrow">>, <<"=", "tkEqual">>, <<">=", "tkGreaterEq">>,
  <<">", "tkGreater">>, <<"<=", "tkLessEq">>, <<"<", "tkLess">>, <<"/=", "tkNotEqual">>,
  <<"/", "tkDivide">>>>

\* Sorted, as the comment in the code demands.  (Mutant: in the order of typeChars.)
alphabeticTokensUnsorted == <<
  "tkVar", "tkWhile", "tkFor", "tkIf", "tkThen", "tkEnd", "tkExit", "tkPrint", "tkElse",
  "tkLoop", "tkAnd", "tkOr", "tkNot", "tkXor", "tkReal", "tkString", "tkBool", "tkNone",
  "tkFunc", "tkTrue", "tkFalse", "tkIs", "tkReturn", "tkInt", "tkIn">>
alphabeticTokens == <<
  "tkVar", "tkWhile", "tkFor", "tkIf", "tkThen", "tkEnd", "tkExit", "tkPrint", "tkIn",
  "tkElse", "tkLoop", "tkAnd", "tkOr", "tkNot", "tkXor", "tkInt", "tkReal", "tkBool",
  "tkString", "tkNone", "tkFunc", "tkTrue", "tkFalse", "tkIs", "tkReturn">>

\* isAlphabeticToken: binary search by the order of the enumeration.
isAlphabeticToken(tktype) ==
  LET N == Len(alphabeticTokens)
      Rank(type) == CHOOSE k \in DOMAIN Types : Types[k] = type
      ranks == [m \in 1 .. N |-> Rank(alphabeticTokens[m])]
      lower_bound[range \in (1 .. N + 1) \X (1 .. N + 1)] ==
        LET first == range[1]
            last == range[2]
            middle == first + (last - first) \div 2
        IN IF first >= last THEN first
           ELSE IF ranks[middle] < Rank(tktype) THEN lower_bound[<<middle + 1, last>>]
           ELSE lower_bound[<<first, middle>>]
      found == lower_bound[<<1, N + 1>>]
  IN found <= N /\ alphabeticTokens[found] = tktype

AlphabeticTypes == {typeChars[k][2] : k \in
                      {m \in DOMAIN typeChars : isAlphabeticToken(typeChars[m][2])}}

-----------------------------------------------------------------------------
(* Characters.                                                             *)

Latin == {"a", "b", "c", "d", "e", "f", "g", "h", "i", "j", "k", "l", "m", "n", "o", "p",
          "q", "r", "s", "t", "u", "v", "w", "x", "y", "z", "A", "B", "C", "D", "E", "F",
          "G", "H", "I", "J", "K", "L", "M", "N", "O", "P", "Q", "R", "S", "T", "U", "V",
          "W", "X", "Y", "Z"}
Digits == {"0", "1", "2", "3", "4", "5", "6", "7", "8", "9"}
Wordly == Latin \cup Digits \cup {"_"}
Blanks == {" ", "\r", "\t"}

n == Len(code)
Char(p) == SubSeq(code, p + 1, p + 1)
Text(p, q) == SubSeq(code, p + 1, q)
IsAt(p, text) == p + Len(text) <= n /\ Text(p, p + Len(text)) = text

\* while (p < n && "the character belongs to S") p++;
EndOfRun(p, S) ==
  CHOOSE q \in p .. n : (q = n \/ Char(q) \notin S) /\ \A r \in p .. q - 1 : Char(r) \in S
EndOfLine(p) ==
  CHOOSE q \in p .. n : (q = n \/ Char(q) = "\n") /\ \A r \in p .. q - 1 : Char(r) # "\n"

-----------------------------------------------------------------------------
(* The checks.                                                             *)

\* (Mutant: the line break belongs to the comment.)
CommentEndWithBreak(p) == LET q == EndOfLine(p) IN IF q = n THEN q ELSE q + 1
CommentEnd(p) == EndOfLine(p)

\* checkStringLiterals, from behind the quote: where its loop ends.  (Mutant: a
\* backslash before a backslash is read as any other.)
Escapes == {"n", "t", "r", "\"", "\\"}
EscapedOther(p) == Char(p) = "\\" /\ p + 1 < n /\ Char(p + 1) \in Escapes \ {"\\"}
Escaped(p) == Char(p) = "\\" /\ p + 1 < n /\ Char(p + 1) \in Escapes
StringEnd(start) ==
  LET end[p \in start .. n] ==
        IF p = n \/ Char(p) \in {"\"", "\n"} THEN p
        ELSE IF Escaped(p) THEN end[p + 2] ELSE end[p + 1]
  IN end[start]
IsString(p) ==
  Char(p) = "\"" /\ LET q == StringEnd(p + 1) IN q < n /\ Char(q) = "\""

\* checkNumbers: a point belongs to a number when a digit follows it.
NumberEnd(p) ==
  LET q == EndOfRun(p, Digits)
  IN IF q + 1 < n /\ Char(q) = "." /\ Char(q + 1) \in Digits THEN EndOfRun(q + 1, Digits) ELSE q

\* checkToken: the first entry of the table.  A word has to end with it.
GoesOn(p) == p < n /\ Char(p) \in Wordly
Matches(p) == {k \in DOMAIN typeChars :
                 /\ IsAt(p, typeChars[k][1])
                 /\ ~ (typeChars[k][2] \in AlphabeticTypes /\ GoesOn(p + Len(typeChars[k][1])))}
FirstMatch(p) == CHOOSE k \in Matches(p) : \A m \in Matches(p) : k <= m

\* The check that succeeds at p, in their order.
Check(p) ==
  IF Char(p) \in Blanks THEN "blank"
  ELSE IF IsAt(p, "//") THEN "comment"
  ELSE IF IsString(p) THEN "string"
  ELSE IF Char(p) \in Digits THEN "number"
  ELSE IF Matches(p) # {} THEN "token"
  ELSE IF Char(p) \in Latin \cup {"_"} THEN "identifier"
  ELSE "none"

-----------------------------------------------------------------------------
(* The loop.                                                               *)

Push(type, end) ==
  /\ tokens' = Append(tokens, [type |-> type, position |-> i, length |-> end - i])
  /\ i' = end
  /\ UNCHANGED <<code, diagnostics, lexing>>

Skip(end) == i' = end /\ UNCHANGED <<code, tokens, diagnostics, lexing>>

\* (Mutant: a carriage return is looked at again.)
BlankEndAgain(p) == IF Char(p) = "\r" THEN p ELSE p + 1
BlankEnd(p) == p + 1

SkipBlank == Check(i) = "blank" /\ Skip(BlankEnd(i))
checkComments == Check(i) = "comment" /\ Skip(CommentEnd(i))
checkStringLiterals == Check(i) = "string" /\ Push("tkStringLiteral", StringEnd(i + 1) + 1)
checkNumbers ==
  /\ Check(i) = "number"
  /\ Push(IF NumberEnd(i) = EndOfRun(i, Digits) THEN "tkIntLiteral" ELSE "tkRealLiteral",
          NumberEnd(i))
checkToken ==
  /\ Check(i) = "token"
  /\ LET tok == typeChars[FirstMatch(i)] IN Push(tok[2], i + Len(tok[1]))
checkIdentifierToken == Check(i) = "identifier" /\ Push("tkIdent", EndOfRun(i, Wordly))

\* A string that does not end has been reported when it was tried.  (Mutant: that
\* is all that is reported.)
StringError(q) == [kind |-> IF q = n THEN "Unclosed" ELSE "Newline", position |-> q]
StringErrorOnly ==
  <<IF Char(i) = "\"" THEN StringError(StringEnd(i + 1)) ELSE [kind |-> "LexerError", position |-> i]>>
Errors ==
  (IF Char(i) = "\"" THEN <<StringError(StringEnd(i + 1))>> ELSE <<>>)
    \o <<[kind |-> "LexerError", position |-> i]>>
LexerError ==
  /\ Check(i) = "none"
  /\ diagnostics' = diagnostics \o Errors
  /\ lexing' = "failed"
  /\ UNCHANGED <<code, i, tokens>>

EndOfFile ==
  /\ i = n
  /\ tokens' = Append(tokens, [type |-> "tkEof", position |-> n, length |-> 0])
  /\ lexing' = "done"
  /\ UNCHANGED <<code, i, diagnostics>>

\* The line of a shebang is skipped, with its line break.
AfterShebang(text) ==
  LET m == Len(text)
      breaks == {p \in 1 .. m : SubSeq(text, p, p) = "\n"}
  IN IF m < 2 \/ SubSeq(text, 1, IF m < 2 THEN m ELSE 2) # "#!" THEN 0
     ELSE IF breaks = {} THEN m ELSE CHOOSE p \in breaks : \A q \in breaks : p <= q

StartLexing(text, skipShebang) ==
  /\ code' = text
  /\ i' = IF skipShebang THEN AfterShebang(text) ELSE 0
  /\ tokens' = <<>>
  /\ diagnostics' = <<>>
  /\ lexing' = "on"

LexerNext ==
  /\ lexing = "on"
  /\ \/ EndOfFile
     \/ i < n /\ (\/ SkipBlank \/ checkComments \/ checkStringLiterals \/ checkNumbers
                  \/ checkToken \/ checkIdentifierToken \/ LexerError)

-----------------------------------------------------------------------------
(* Properties.                                                             *)

Span(t) == t.position .. t.position + t.length - 1
Written(t) == Text(t.position, t.position + t.length)

\* Every character up to i is in exactly one token, or white, or in a comment
\* that begins outside of all tokens (or in the line of the shebang); tokens
\* are in the order of the text.  (tokenize)
EveryCharacterOnce ==
  LET Covered(p) == \E k \in DOMAIN tokens : p \in Span(tokens[k])
      Commented(p) == \E q \in 0 .. p : /\ IsAt(q, "//")
                                        /\ \A r \in q .. p : Char(r) # "\n" /\ ~ Covered(r)
  IN /\ \A k \in 2 .. Len(tokens) : tokens[k - 1].position + tokens[k - 1].length <= tokens[k].position
     /\ \A k \in DOMAIN tokens : tokens[k].length > 0 \/ tokens[k].type = "tkEof"
     /\ \A p \in AfterShebang(code) .. i - 1 : Covered(p) \/ Char(p) \in Blanks \/ Commented(p)

\* A token is the longest that begins where it does: a word ends where its
\* letters and digits do, and is a keyword exactly if it is one as a whole; no
\* longer operator of the table is there.  (checkToken, checkIdentifierToken)
TokensAreLongest ==
  \A k \in DOMAIN tokens :
    LET t == tokens[k]
        p == t.position
    IN t.type \notin {"tkEof", "tkStringLiteral", "tkIntLiteral", "tkRealLiteral"} =>
       IF Char(p) \in Wordly
       THEN /\ t.length = EndOfRun(p, Wordly) - p
            /\ IF \E m \in DOMAIN typeChars : typeChars[m][1] = Written(t)
               THEN <<Written(t), t.type>> \in {typeChars[m] : m \in DOMAIN typeChars}
               ELSE t.type = "tkIdent"
       ELSE \A m \in DOMAIN typeChars : IsAt(p, typeChars[m][1]) =>
              Len(typeChars[m][1]) <= t.length

\* A string goes from its quote to the next one on the line that is preceded
\* by an even number of backslashes.  Where there is none, the file is rejected
\* and the error is at the line break or the end of the file.
\* (checkStringLiterals)
StringsEndAtTheirQuote ==
  LET Backslashes(p, q) == CHOOSE m \in 0 .. q - p - 1 :
        /\ \A r \in q - m .. q - 1 : Char(r) = "\\"
        /\ q - m - 1 = p \/ Char(q - m - 1) # "\\"
      Closes(p, q) == Char(q) = "\"" /\ Backslashes(p, q) % 2 = 0
      OnLine(p) == p + 1 .. EndOfLine(p) - 1
  IN /\ \A k \in DOMAIN tokens :
          LET p == tokens[k].position
              q == p + tokens[k].length - 1
          IN tokens[k].type = "tkStringLiteral" =>
               q \in OnLine(p) /\ Closes(p, q) /\ \A r \in p + 1 .. q - 1 : ~ Closes(p, r)
     /\ lexing = "failed" /\ Char(i) = "\"" =>
          /\ \A q \in OnLine(i) : ~ Closes(i, q)
          /\ diagnostics[1].position = EndOfLine(i)

\* Tokens are returned exactly if nothing was logged, and the error that
\* stops the lexer is the last.  (tokenize)
ErrorsStopTheFile ==
  /\ lexing = "failed" <=> diagnostics # <<>>
  /\ diagnostics # <<>> => diagnostics[Len(diagnostics)] = [kind |-> "LexerError", position |-> i]

TokensAreRight == TokensAreLongest /\ StringsEndAtTheirQuote /\ ErrorsStopTheFile
=============================================================================
