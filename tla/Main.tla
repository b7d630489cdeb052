-------------------------------- MODULE Main --------------------------------
(***************************************************************************)
(* The program around the stages (src/src/main/main.cpp): the arguments,   *)
(* then each file through the stages, as far as the options let it, and    *)
(* the exit code.  The lexer is the module Lexer, whose state this one     *)
(* sets up and moves; the parser, the analyzer and the interpreter, which  *)
(* have modules of their own, are what they tell ProcessFile, or they end  *)
(* the process: nothing around them catches an exception.                  *)
(*                                                                         *)
(* A size_t is one of 0 .. SizeMax.  A program that never ends is not      *)
(* modelled.                                                               *)
(***************************************************************************)
EXTENDS Lexer

CONSTANTS
  Worlds,   \* what the program may be started with: arguments, and files' texts
  Missing,  \* in place of the text of a file that cannot be opened
  SizeMax,  \* the largest size_t
  Constructs  \* odd arguments that the promises are to cover

\* Every argument may be the name of a file.
ASSUME MainAssumption ==
  /\ SizeMax \in Nat
  /\ \A world \in Worlds : world.argv \in Seq(DOMAIN world.disk)

VARIABLES
  argv, disk,  \* the arguments; the text of each file
  arg,         \* InterpretArgs: the next argument
  onlyFiles,   \* InterpretArgs: has "--" been read?
  opts,        \* flags that are set, CallStackCap and TraceLen
  files,       \* names of files
  stage,       \* "args", "files", the stage of the current file, "exit" or "dead"
  logged,      \* SpyCompilationLog: has anything been logged for this file?
  did,         \* what the user has seen of this file
  verdicts,    \* of the files so far: what ProcessFile returned, and what it did
  failed       \* whether the exit code is not 0

argVars == <<argv, disk, arg, onlyFiles, opts, files>>
mainVars == <<argVars, stage, logged, did, verdicts, failed>>
vars == <<lexVars, mainVars>>

-----------------------------------------------------------------------------
(* Arguments.                                                              *)

StartsWith(s, prefix) == Len(s) >= Len(prefix) /\ SubSeq(s, 1, Len(prefix)) = prefix
LettersOf(s) == {SubSeq(s, k, k) : k \in 2 .. Len(s)}
NameOf(s) == SubSeq(s, 3, Len(s))
NumberOptions == {"--tracelen", "--callstack"}

\* What the proofs have to be told of strings: a text has a length, no entry of
\* typeChars is empty, and what begins with two dashes begins with one.
ASSUME StringAssumption ==
  /\ Len("") = 0
  /\ \A k \in DOMAIN typeChars : Len(typeChars[k][1]) \in Nat \ {0}
  /\ \A s \in NumberOptions \cup {"--"} : StartsWith(s, "--") /\ StartsWith(s, "-")
  /\ \A world \in Worlds :
       /\ \A name \in DOMAIN world.disk : world.disk[name] # Missing => Len(world.disk[name]) \in Nat
       /\ \A k \in DOMAIN world.argv :
            LET s == world.argv[k] IN Len(s) \in Nat /\ (StartsWith(s, "--") => StartsWith(s, "-"))

\* What they have to be told for TokensAreRight: parts of a part are parts of the
\* text; words are made of Wordly characters; the other entries of typeChars have
\* one character, which is not Wordly, or are the pairs here.
HasParts(s) ==
  /\ SubSeq(s, 1, Len(s)) = s
  /\ \A p, q \in 0 .. Len(s) : p <= q =>
       LET part == SubSeq(s, p + 1, q)
       IN /\ Len(part) = q - p
          /\ \A a, b \in 0 .. q - p : a <= b => SubSeq(part, a + 1, b) = SubSeq(s, p + a + 1, p + b)
IsWord(k) == \E m \in DOMAIN alphabeticTokens : alphabeticTokens[m] = typeChars[k][2]
Pairs == {<<":=", ":">>, <<"..", ".">>, <<"=>", "=">>, <<">=", ">">>, <<"<=", "<">>, <<"/=", "/">>}
ASSUME SpellingAssumption ==
  /\ \A world \in Worlds : \A name \in DOMAIN world.disk :
       world.disk[name] # Missing => HasParts(world.disk[name])
  /\ \A k \in DOMAIN typeChars :
       LET s == typeChars[k][1]
       IN /\ HasParts(s)
          /\ IF IsWord(k) THEN \A p \in 1 .. Len(s) : SubSeq(s, p, p) \in Wordly
             ELSE /\ SubSeq(s, 1, 1) \notin Wordly
                  /\ Len(s) = 1 \/ (Len(s) = 2 /\ <<s, SubSeq(s, 1, 1)>> \in Pairs)

\* GetLongFlag and GetShortFlag.
LongFlags ==
  [lexer |-> "Lexer", syntaxer |-> "Syntaxer", semantics |-> "Semantics", help |-> "Help",
   check |-> "Check", examples |-> "Examples", nocontext |-> "NoContext"]
ShortFlags ==
  [l |-> "Lexer", s |-> "Syntaxer", S |-> "Semantics", h |-> "Help", c |-> "Check",
   C |-> "NoContext", T |-> "NoTraceback"]

NoNumber == -1  \* what ParseSizeT returns for something else
Default == -2   \* 1024 calls, 50 lines of trace

\* ParseSizeT: arithmetic on size_t; an overflow is looked for in the product.
Size(x) == x % (SizeMax + 1)
Overflows(prevres, digit) == Size(Size(prevres * 10 + digit) - digit) \div 10 # prevres
Digit(ch) == CHOOSE d \in 0 .. 9 : <<"0", "1", "2", "3", "4", "5", "6", "7", "8", "9">>[d + 1] = ch
ParseSizeT(s) ==
  LET res[k \in 0 .. Len(s)] ==
        IF k = 0 THEN 0
        ELSE LET prevres == res[k - 1]
                 ch == SubSeq(s, k, k)
             IN IF prevres = NoNumber \/ ch \notin Digits THEN NoNumber
                ELSE IF Overflows(prevres, Digit(ch)) THEN NoNumber
                ELSE Size(prevres * 10 + Digit(ch))
  IN res[Len(s)]

\* The program ends with exit code 1.
Refuse ==
  /\ stage' = "exit" /\ failed' = TRUE
  /\ UNCHANGED <<lexVars, argVars, logged, did, verdicts>>

\* (Mutant: the number of an option is looked at as an argument, too.)
AfterNumberAgain == arg + 1
AfterNumber == arg + 2

Read(newFiles, newOpts, newArg) ==
  /\ files' = newFiles /\ opts' = newOpts /\ arg' = newArg
  /\ UNCHANGED <<lexVars, argv, disk, stage, logged, did, verdicts, failed>>
ReadFlags(flags) == Read(files, [opts EXCEPT !.flags = @ \cup flags], arg + 1) /\ UNCHANGED onlyFiles

\* InterpretArgs: a turn of its loop.
FileName ==
  /\ onlyFiles \/ ~ StartsWith(argv[arg], "-")
  /\ Read(Append(files, argv[arg]), opts, arg + 1)
  /\ UNCHANGED onlyFiles

EndOfOptions ==
  /\ ~ onlyFiles /\ argv[arg] = "--"
  /\ onlyFiles' = TRUE
  /\ Read(files, opts, arg + 1)

NumberOption ==
  /\ ~ onlyFiles /\ argv[arg] \in NumberOptions
  /\ IF arg = Len(argv) THEN Refuse
     ELSE LET number == ParseSizeT(argv[arg + 1])
          IN IF number = NoNumber THEN Refuse
             ELSE /\ Read(files,
                          IF argv[arg] = "--tracelen" THEN [opts EXCEPT !.TraceLen = number]
                          ELSE [opts EXCEPT !.CallStackCap = number],
                          AfterNumber)
                  /\ UNCHANGED onlyFiles

LongFlag ==
  /\ ~ onlyFiles /\ StartsWith(argv[arg], "--") /\ argv[arg] \notin NumberOptions \cup {"--"}
  /\ IF NameOf(argv[arg]) \in DOMAIN LongFlags THEN ReadFlags({LongFlags[NameOf(argv[arg])]})
     ELSE Refuse

ShortFlagsOf ==
  /\ ~ onlyFiles /\ StartsWith(argv[arg], "-") /\ ~ StartsWith(argv[arg], "--")
  /\ LET letters == LettersOf(argv[arg])
     IN IF letters \subseteq DOMAIN ShortFlags THEN ReadFlags({ShortFlags[l] : l \in letters})
        ELSE Refuse

InterpretArgs ==
  /\ stage = "args" /\ arg <= Len(argv)
  /\ FileName \/ EndOfOptions \/ NumberOption \/ LongFlag \/ ShortFlagsOf

\* --help and --examples are answered, and the files are processed all the same.
ArgsRead ==
  /\ stage = "args" /\ arg > Len(argv)
  /\ stage' = "files"
  /\ UNCHANGED <<lexVars, argVars, logged, did, verdicts, failed>>

-----------------------------------------------------------------------------
(* ProcessFile.                                                            *)

Current == files[Len(verdicts) + 1]
Flag(name) == name \in opts.flags

\* What ProcessFile returns, and what the user has seen: main goes on.  (Mutant:
\* main stops at the first file that fails.)
AfterFileIfGood(ok) == IF ok THEN "files" ELSE "exit"
AfterFile(ok) == "files"
Return(ok, doing) ==
  /\ verdicts' = Append(verdicts, [ok |-> ok, did |-> did \cup doing])
  /\ failed' = (failed \/ ~ ok)
  /\ stage' = AfterFile(ok)
  /\ did' = {}
  /\ UNCHANGED <<lexVars, argVars, logged>>

\* A log of its own for every file.  (Mutant: one for all.)
KeptLog(spy) == spy
FreshLog(spy) == FALSE

Open ==
  /\ stage = "files" /\ Len(verdicts) < Len(files)
  /\ IF disk[Current] = Missing THEN Return(FALSE, {})
     ELSE /\ StartLexing(disk[Current], TRUE)
          /\ stage' = "lexer" /\ logged' = FreshLog(logged)
          /\ UNCHANGED <<argVars, did, verdicts, failed>>

Tokenize ==
  /\ stage = "lexer"
  /\ LexerNext
  /\ logged' = (logged \/ diagnostics' # diagnostics)
  /\ UNCHANGED <<argVars, stage, did, verdicts, failed>>

\* The stages after the lexer are reached one after the other; each may be the
\* last that is asked for.
Enter(next, messages, seen) ==
  /\ stage' = next
  /\ logged' = (logged \/ messages)
  /\ did' = did \cup seen
  /\ UNCHANGED <<lexVars, argVars, verdicts, failed>>

\* WaitForUserToReadMessages, and the explorer of the syntax tree.
Explored ==
  (IF logged THEN {"waited"} ELSE {}) \cup (IF Flag("Check") THEN {} ELSE {"explored"})

Tokenized ==
  /\ stage = "lexer" /\ lexing # "on"
  /\ IF lexing = "failed" THEN Return(FALSE, {})
     ELSE IF Flag("Lexer") THEN Return(TRUE, IF Flag("Check") THEN {} ELSE {"tokens"})
     ELSE Enter("syntax", FALSE, {})

\* A stage may end the process, and the files after this one have no turn: a
\* program nested too deeply for the native stack in any of them, an exception
\* that Analyze does not catch (std::bad_variant_access), a Slice that reads
\* outside of its string.
Die(doing) ==
  /\ stage' = "dead" /\ failed' = TRUE
  /\ did' = did \cup doing
  /\ UNCHANGED <<lexVars, argVars, logged, verdicts>>

\* SyntaxAnalyzer::analyze logs something exactly if there is no tree.
Parse ==
  /\ stage = "syntax"
  /\ \/ Return(FALSE, {})
     \/ Enter("parsed", FALSE, {"parsed"})
     \/ Die({})

Parsed ==
  /\ stage = "parsed"
  /\ IF Flag("Syntaxer") THEN Return(TRUE, Explored) ELSE Enter("semantics", FALSE, {})

\* Analyze may log warnings and notes for a program it accepts.
Analyze ==
  /\ stage = "semantics"
  /\ \/ Return(FALSE, {})
     \/ \E messages \in BOOLEAN : Enter("analyzed", messages, IF messages THEN {"analyzed", "warned"} ELSE {"analyzed"})
     \/ Die({})

Analyzed ==
  /\ stage = "analyzed"
  /\ IF Flag("Semantics") THEN Return(TRUE, Explored)
     ELSE IF Flag("Check") THEN Return(TRUE, {})
     ELSE Enter("run", FALSE, {})

\* Run, and the report of an error, with a traceback unless NoTraceback is set.
Run ==
  /\ stage = "run"
  /\ \/ Return(TRUE, {"ran"})
     \/ Return(FALSE, IF Flag("NoTraceback") THEN {"ran"} ELSE {"ran", "traceback"})
     \/ Die({"ran"})

Exit ==
  /\ stage = "files" /\ Len(verdicts) = Len(files)
  /\ stage' = "exit"
  /\ UNCHANGED <<lexVars, argVars, logged, did, verdicts, failed>>

-----------------------------------------------------------------------------

Init ==
  /\ \E world \in Worlds : argv = world.argv /\ disk = world.disk
  /\ arg = 1 /\ onlyFiles = FALSE
  /\ opts = [flags |-> {}, CallStackCap |-> Default, TraceLen |-> Default]
  /\ files = <<>> /\ stage = "args" /\ verdicts = <<>> /\ failed = FALSE
  /\ logged = FALSE /\ did = {}
  /\ code = "" /\ i = 0 /\ tokens = <<>> /\ diagnostics = <<>> /\ lexing = "done"

Next ==
  \/ InterpretArgs \/ ArgsRead
  \/ Open \/ Tokenize \/ Tokenized \/ Parse \/ Parsed \/ Analyze \/ Analyzed \/ Run
  \/ Exit

\* One thread, which does not pause.
Spec == Init /\ [][Next]_vars /\ WF_vars(Next)

-----------------------------------------------------------------------------
(* Properties.                                                             *)

\* What an argument is, by those before it.
Role ==
  LET role[k \in 1 .. Len(argv)] ==
        IF k > 1 /\ role[k - 1] \in {"end", "rest"} THEN "rest"
        ELSE IF k > 1 /\ role[k - 1] = "asks" THEN "number"
        ELSE IF argv[k] \in NumberOptions THEN "asks"
        ELSE IF argv[k] = "--" THEN "end"
        ELSE IF StartsWith(argv[k], "--") THEN "long"
        ELSE IF StartsWith(argv[k], "-") THEN "short"
        ELSE "file"
  IN role
Having(roles) == {k \in DOMAIN argv : Role[k] \in roles}

\* The numbers that the beginnings of a numeral stand for.
Numeral(s) == \A k \in 1 .. Len(s) : SubSeq(s, k, k) \in Digits
Meaning(s) ==
  LET meaning[k \in 0 .. Len(s)] ==
        IF k = 0 THEN 0 ELSE 10 * meaning[k - 1] + Digit(SubSeq(s, k, k))
  IN meaning
NumberIn(s) == Meaning(s)[Len(s)]

\* How ParseSizeT understands a numeral: an overflow by the last digit of a
\* beginning goes unnoticed, and the rest is read as if nothing had happened.
OverflowsUnnoticed(s) ==
  \E k \in 1 .. Len(s) : Meaning(s)[k] > SizeMax /\ 10 * Meaning(s)[k - 1] <= SizeMax

\* The flags that the help lists.
HelpLong ==
  [help |-> "Help", check |-> "Check", examples |-> "Examples", lexer |-> "Lexer",
   syntaxer |-> "Syntaxer", semantics |-> "Semantics", nocontext |-> "NoContext",
   notrace |-> "NoTraceback"]
HelpShort ==
  [h |-> "Help", c |-> "Check", l |-> "Lexer", s |-> "Syntaxer", S |-> "Semantics",
   C |-> "NoContext", T |-> "NoTraceback"]

Bad(k) ==
  CASE Role[k] = "number" -> ~ Numeral(argv[k]) \/ NumberIn(argv[k]) > SizeMax
    [] Role[k] = "asks"   -> k = Len(argv)
    [] Role[k] = "long"   -> NameOf(argv[k]) \notin DOMAIN HelpLong
    [] Role[k] = "short"  -> ~ LettersOf(argv[k]) \subseteq DOMAIN HelpShort
    [] OTHER -> FALSE

\* Arguments that do not mean what the help says of them: --notrace is refused,
\* and some numbers that are too large are not.
OddConstructs == {"notrace", "overflow"}
OddArguments ==
  {kind \in OddConstructs :
     IF kind = "notrace" THEN \E k \in Having({"long"}) : NameOf(argv[k]) = "notrace"
     ELSE \E k \in Having({"number"}) : Numeral(argv[k]) /\ OverflowsUnnoticed(argv[k])}
Promised(kind) == kind \in OddArguments => kind \in Constructs

\* The arguments mean what the help says: each number belongs to the option
\* before it and is that number or is refused; the flags that are set are those
\* listed; nothing after "--" is an option; files keep their order; and only an
\* argument that the help does not allow is refused.  (InterpretArgs, ParseSizeT,
\* Options::HELP)
OptionsAreRight ==
  LET NumberOf(option) ==
        LET asked == {k \in Having({"number"}) : argv[k - 1] = option}
        IN IF asked = {} THEN Default
           ELSE NumberIn(argv[CHOOSE k \in asked : \A m \in asked : m <= k])
      Refused == stage = "exit" /\ arg <= Len(argv)
  IN /\ Promised("notrace") /\ Refused => \E k \in DOMAIN argv : Bad(k)
     /\ Promised("overflow") /\ arg > Len(argv) =>
       /\ \A k \in DOMAIN argv : ~ Bad(k)
       /\ opts.TraceLen = NumberOf("--tracelen")
       /\ opts.CallStackCap = NumberOf("--callstack")
       /\ opts.flags = {HelpLong[NameOf(argv[k])] : k \in Having({"long"})}
                         \cup UNION {{HelpShort[l] : l \in LettersOf(argv[k])} : k \in Having({"short"})}
       /\ Len(files) = Cardinality(Having({"file", "rest"}))
       /\ \A k \in Having({"file", "rest"}) :
            files[Cardinality({m \in Having({"file", "rest"}) : m <= k})] = argv[k]

\* Every file has its turn and its own fate, unless a file before it has ended
\* the process, which none does that is missing, and none when the tokens are all
\* that is asked for; the exit code says whether one has failed; nothing is
\* executed that was not asked for or was not found right; the user waits only
\* for messages about this file.  (main, ProcessFile)
EveryFileHasItsFate ==
  LET Permitted(seen) ==
        "ran" \in seen => {"parsed", "analyzed"} \subseteq seen
                            /\ opts.flags \cap {"Lexer", "Syntaxer", "Semantics", "Check"} = {}
  IN /\ stage = "exit" /\ arg > Len(argv) =>
          /\ Len(verdicts) = Len(files)
          /\ failed = \E k \in DOMAIN verdicts : ~ verdicts[k].ok
     /\ stage = "dead" =>
          /\ Len(verdicts) < Len(files) /\ disk[Current] # Missing /\ ~ Flag("Lexer")
          /\ failed /\ Permitted(did)
     /\ \A k \in DOMAIN verdicts :
          LET seen == verdicts[k].did
          IN /\ disk[files[k]] = Missing => ~ verdicts[k].ok /\ seen = {}
             /\ Permitted(seen)
             /\ "waited" \in seen => "warned" \in seen
             /\ Flag("Lexer") => \A m \in DOMAIN verdicts : files[m] = files[k] => verdicts[m] = verdicts[k]

\* The program ends, whatever the files contain, if the programs in them do.
ProgramEnds == <>(stage \in {"exit", "dead"})
=============================================================================
