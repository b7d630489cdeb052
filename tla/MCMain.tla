------------------------------- MODULE MCMain -------------------------------
(* Families of program starts, for TLC; a size_t of 0 .. 31.               *)
EXTENDS Main, TLC

Strs(alphabet, m) ==
  LET upTo[k \in 0 .. m] ==
        IF k = 0 THEN {""} ELSE upTo[k - 1] \cup {s \o c : s \in upTo[k - 1], c \in alphabet}
  IN upTo[m]

\* Texts for the lexer: operators, words and numbers, strings, first lines.
LexerTexts ==
  UNION {Strs({":", "=", "/", ">", ".", "\n", "-"}, 4),
         Strs({"i", "n", "t", "1", ".", "\r", "_"}, 4),
         Strs({"\"", "\\", "n", "\n", "/"}, 5),
         Strs({"#", "!", "\n", "a"}, 4),
         {"for", "func", "return x", "none,"}}

\* Arguments: every kind of flag, numbers around the largest size_t, names.
Arguments ==
  {"--check", "--syntaxer", "--notrace", "-lc", "-S", "-x", "-", "--", "--tracelen", "--callstack",
   "7", "31", "33", "40", "330", "a.d", "b.d"}

ArgumentLists == UNION {[1 .. m -> Arguments] : m \in 0 .. 3}

Flags == {"-l", "-s", "-S", "-c", "-T", "-lc", "-sc", "-Sc", "-hC"}

\* a.d is a program, b.d and c.d are not.
Disk == [name \in Arguments \cup Flags \cup {"c.d"} |->
           IF name = "a.d" THEN "x" ELSE IF name = "b.d" THEN "\"" ELSE Missing]

FlagLists ==
  {<<flag>> : flag \in Flags}
FileLists ==
  UNION {[1 .. m -> {"a.d", "b.d", "c.d"}] : m \in 1 .. 3}

Starts ==
  UNION {{[argv |-> args, disk |-> Disk] : args \in ArgumentLists},
         {[argv |-> flags \o names, disk |-> Disk] : flags \in FlagLists, names \in FileLists},
         {[argv |-> <<"-l", "a.d">>, disk |-> [name \in {"-l", "a.d"} |-> IF name = "a.d" THEN text ELSE Missing]]
            : text \in LexerTexts}}
=============================================================================
