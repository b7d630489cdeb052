------------------------------ MODULE MCParser ------------------------------
(* Parser with alphabets for TLC.                                          *)
EXTENDS Parser

Operators == {"ident", "not", "minus", "times", "less", "and", "or", "xor"}

Statements ==
  {"ident", "openParen", "closedParen", "if", "then", "arrow", "end", "loop", "assign",
   "newline", "func", "is"}

InBrackets ==
  {<<"openParen", "func", "openParen", "closedParen", "is">>,
   <<"ident", "openParen", "func", "openParen", "closedParen">>,
   <<"if", "func", "openParen", "closedParen", "arrow">>,
   <<"if", "ident", "then", "ident", "newline">>,
   <<"if", "ident", "newline", "arrow", "newline">>,
   <<"loop", "newline", "ident", "assign", "openParen">>,
   <<"ident", "openParen", "ident", "openParen", "ident">>,
   <<"ident", "openParen", "func", "openParen", "closedParen", "is", "newline", "end">>,
   <<"openParen", "func", "openParen", "closedParen", "is", "loop", "newline", "end">>}

\* Every type that a production names, but one of each group of operators,
\* literals and types.
AllTokens ==
  {"newline", "semicolon", "var", "ident", "assign", "comma", "if", "then", "else", "end",
   "arrow", "while", "loop", "for", "in", "range", "exit", "print", "return", "dot",
   "intLiteral", "openBracket", "closedBracket", "openBrace", "closedBrace", "openParen",
   "closedParen", "times", "minus", "not", "less", "and", "is", "none", "func"}

\* Two for every statement and literal with parts of its own: at its
\* beginning, and further on.
Forms ==
  {<<"var", "ident", "comma", "newline">>, <<"if", "ident", "then", "semicolon">>,
   <<"while", "ident", "loop", "newline">>, <<"for", "ident", "in", "ident">>,
   <<"ident", "dot", "openParen", "ident">>, <<"ident", "openBracket", "newline", "ident">>,
   <<"return", "func", "openParen", "ident">>, <<"print", "ident", "is", "openBracket">>,
   <<"print", "openBrace", "ident", "assign">>, <<"openBracket", "none", "comma", "newline">>,
   <<"var", "ident", "assign", "ident", "comma", "newline", "ident">>,
   <<"if", "ident", "then", "exit", "else", "newline">>,
   <<"while", "ident", "loop", "print", "ident", "comma">>,
   <<"for", "ident", "in", "ident", "range", "ident">>,
   <<"ident", "dot", "openParen", "ident", "closedParen", "assign">>,
   <<"ident", "openBracket", "ident", "closedBracket", "dot", "intLiteral">>,
   <<"return", "func", "openParen", "ident", "closedParen", "arrow">>,
   <<"print", "ident", "is", "openBracket", "closedBracket", "openParen">>,
   <<"print", "openBrace", "ident", "assign", "none", "comma">>,
   <<"openBracket", "openBrace", "closedBrace", "comma", "none">>}

\* Programs with a beginning and some more tokens.
Family(programs, tokens, more) ==
  {[program |-> p, tokens |-> tokens, length |-> Len(p) + more] : p \in programs}
AllFamilies ==
  Family({<<>>}, Operators, 7) \cup Family(Forms, AllTokens, 2)
    \cup Family(InBrackets, Statements, 4)
TokensOfAll == Operators \cup AllTokens \cup Statements
=============================================================================
