------------------------------ MODULE CommandLine ------------------------------
(***************************************************************************)
(* The program before and around the model: parse_args and the chat        *)
(* template (src/src/cli_options.cpp), and main (src/src/main.cpp), which  *)
(* collects the prompts and either generates from them or serves lines.    *)
(*                                                                         *)
(* An argument is one word.  A text is a sequence of pieces; the pieces    *)
(* "{user_" and "query}" side by side are the place holder of the          *)
(* template, and " " is white space.                                       *)
(***************************************************************************)
EXTENDS Integers, Sequences, FiniteSets, SequencesExt

CONSTANTS
  Argvs,        \* the argument lists (without the program's name)
  Stoi(_),      \* the int, and
  Stof(_),      \*   the float in hundredths a word begins with, or Invalid
  Dashed,       \* the words that begin with '-'
  TextOf(_),    \* the text a word is as a prompt
  Files,        \* the lines of every prompt file that can be read, by name
  InputLines,   \* the lines the user may type into the service
  MaxLines,     \* bound: how many of them
  Invalid,      \* what Stoi and Stof return if the word begins with no number
  NotANumber    \* the float that is none: every comparison with it is false

VARIABLES
  phase,      \* where main is
  argv,       \* the arguments not yet parsed
  asked,      \* the arguments as they were given, a history variable
  options,    \* CliOptions
  prompts,    \* the prompts of main, as texts
  submitted,  \* the texts submitted to the service
  typed       \* what the user has typed, a history variable

frontVars == <<phase, argv, asked, options, prompts, submitted, typed>>
-----------------------------------------------------------------------------
IntegerOptions ==
  {"--max-steps", "--top-k", "--seed", "--serve-max-active", "--serve-prefill-batch",
   "--serve-idle-ms", "--serve-stats-ms"}
FloatOptions == {"--temperature", "--top-p"}
Flags == {"--greedy", "--serve"}

LongName(word) == CASE word = "-m" -> "--max-steps"
                    [] word = "-f" -> "--prompt-file"
                    [] word = "-h" -> "--help"
                    [] OTHER       -> word

\* CliOptions as it starts; a flag is 0 or 1 and an empty word is an empty string.
Defaults ==
  [numbers |-> [option \in IntegerOptions \cup FloatOptions |->
     CASE option = "--max-steps"           -> 100
       [] option = "--temperature"         -> 80
       [] option = "--top-p"               -> 95
       [] option = "--top-k"               -> 20
       [] option = "--seed"                -> 42
       [] option = "--serve-max-active"    -> 16
       [] option = "--serve-prefill-batch" -> 4
       [] option = "--serve-idle-ms"       -> 2
       [] option = "--serve-stats-ms"      -> 1000],
   flags |-> {}, prompt_file |-> "", prompt |-> ""]

Parsed(option, word) == IF option \in FloatOptions THEN Stof(word) ELSE Stoi(word)

\* The tests behind the conversions refuse what compares as too small or too large.
Refused(option, v) ==
  CASE option \in {"--max-steps", "--serve-max-active", "--serve-prefill-batch"} -> v <= 0
    [] option \in {"--top-k", "--seed", "--serve-idle-ms", "--serve-stats-ms"}   -> v < 0
    [] option = "--temperature" -> v # NotANumber /\ v <= 0
    [] option = "--top-p"       -> v # NotANumber /\ (v <= 0 \/ v > 100)

\* Outcomes of one iteration: on to the rest of the arguments, help at once, or an error.
GoOn(rest, opts) == [phase |-> "parsing", argv |-> rest, options |-> opts]
Stop(where) == [phase |-> where, argv |-> <<>>, options |-> Defaults]

(* Mutant of TakeNumber: the index stays at the value, which is read as an argument again. *)
TakeNumberStaying(option) ==
  IF Len(argv) < 2 THEN Stop("usage_error")
  ELSE LET v == Parsed(option, argv[2]) IN
    IF v = Invalid \/ Refused(option, v) THEN Stop("usage_error")
    ELSE GoOn(Tail(argv), [options EXCEPT !.numbers[option] = v])

TakeNumber(option) ==
  IF Len(argv) < 2 THEN Stop("usage_error")
  ELSE LET v == Parsed(option, argv[2]) IN
    IF v = Invalid \/ Refused(option, v) THEN Stop("usage_error")
    ELSE GoOn(SubSeq(argv, 3, Len(argv)), [options EXCEPT !.numbers[option] = v])

TakePromptFile ==
  IF Len(argv) < 2 \/ options.prompt_file # "" THEN Stop("usage_error")
  ELSE GoOn(SubSeq(argv, 3, Len(argv)), [options EXCEPT !.prompt_file = argv[2]])

TakePrompt ==
  IF argv[1] \in Dashed \/ options.prompt # "" THEN Stop("usage_error")
  ELSE GoOn(Tail(argv), [options EXCEPT !.prompt = argv[1]])

Iteration ==
  LET option == LongName(argv[1]) IN
    CASE option = "--help"                               -> Stop("help")
      [] option = "--prompt-file"                        -> TakePromptFile
      [] option \in IntegerOptions \cup FloatOptions     -> TakeNumber(option)
      [] option \in Flags                                ->
           GoOn(Tail(argv), [options EXCEPT !.flags = @ \cup {option}])
      [] OTHER                                           -> TakePrompt

Serving == "--serve" \in options.flags
-----------------------------------------------------------------------------
(***************************************************************************)
(* Texts.                                                                  *)
(***************************************************************************)
Blank(text) == \A i \in DOMAIN text : text[i] = " "

\* trim: from the first to the last piece that is not white space.
Trim(text) ==
  IF Blank(text) THEN <<>>
  ELSE LET solid == {i \in DOMAIN text : text[i] # " "}
       IN SubSeq(text, CHOOSE i \in solid : \A j \in solid : i <= j,
                       CHOOSE i \in solid : \A j \in solid : i >= j)

ChatTemplate == <<"<system>", "{user_", "query}", "<assistant>">>

\* The positions of the place holder at or behind pos.
Found(text, pos) ==
  {i \in pos .. Len(text) - 1 : text[i] = "{user_" /\ text[i + 1] = "query}"}

(* Mutant of Behind: the search goes on behind the length of the place holder. *)
BehindPlaceHolder(pos, query) == pos + 2

\* The search goes on behind what was put in.
Behind(pos, query) == pos + Len(query)

\* apply_chat_template, one iteration of its loop after the other.
Templated(query) ==
  LET loop[n \in 0 .. Len(ChatTemplate)] ==
        IF n = 0 THEN [text |-> ChatTemplate, pos |-> 1]
        ELSE LET s == loop[n - 1]
                 found == Found(s.text, s.pos)
                 at == CHOOSE i \in found : \A j \in found : i <= j
             IN IF found = {} THEN s
                ELSE [text |-> SubSeq(s.text, 1, at - 1) \o query
                               \o SubSeq(s.text, at + 2, Len(s.text)),
                      pos |-> Behind(at, query)]
  IN loop[Len(ChatTemplate)].text

\* read_prompts_file, line after line: what is empty once it is trimmed is left out.
PromptsOf(lines) ==
  LET read[n \in 0 .. Len(lines)] ==
        IF n = 0 THEN <<>>
        ELSE IF Trim(lines[n]) = <<>> THEN read[n - 1]
        ELSE Append(read[n - 1], Trim(lines[n]))
  IN read[Len(lines)]

QuitLines == {<<"/quit">>, <<":quit">>}
-----------------------------------------------------------------------------
FrontInit ==
  /\ phase = "parsing"
  /\ argv \in Argvs /\ asked = argv
  /\ options = Defaults
  /\ prompts = <<>> /\ submitted = <<>> /\ typed = <<>>

ParseArgument ==
  /\ phase = "parsing" /\ argv # <<>>
  /\ phase' = Iteration.phase
  /\ argv' = Iteration.argv
  /\ options' = Iteration.options
  /\ UNCHANGED <<asked, prompts, submitted, typed>>

\* All arguments are parsed: the prompts are collected.
CollectPrompts ==
  /\ phase = "parsing" /\ argv = <<>>
  /\ LET file == options.prompt_file
         given == IF options.prompt = "" THEN <<>> ELSE << TextOf(options.prompt) >>
         all == (IF file = "" THEN <<>> ELSE PromptsOf(Files[file])) \o given
     IN IF file # "" /\ file \notin DOMAIN Files
        THEN phase' = "file_error" /\ UNCHANGED prompts
        ELSE IF all = <<>> /\ ~ Serving
        THEN phase' = "no_prompts" /\ UNCHANGED prompts
        ELSE phase' = "loading" /\ prompts' = all
  /\ UNCHANGED <<argv, asked, options, submitted, typed>>

\* The model is loaded, and every prompt is put into the template.
ApplyTemplate ==
  /\ phase = "loading"
  /\ prompts' = [i \in DOMAIN prompts |-> Templated(prompts[i])]
  /\ phase' = IF Serving THEN "serving" ELSE "generating"
  /\ submitted' = IF Serving THEN prompts' ELSE <<>>
  /\ UNCHANGED <<argv, asked, options, typed>>

\* The input thread reads a line.
ReadLine(line) ==
  /\ phase = "serving" /\ Len(typed) < MaxLines
  /\ typed' = Append(typed, line)
  /\ IF line \in QuitLines
     THEN phase' = "draining" /\ UNCHANGED submitted
     ELSE /\ submitted' = IF Blank(line) THEN submitted ELSE Append(submitted, Templated(line))
          /\ UNCHANGED phase
  /\ UNCHANGED <<argv, asked, options, prompts>>

EndOfInput ==
  /\ phase = "serving"
  /\ phase' = "draining"
  /\ UNCHANGED <<argv, asked, options, prompts, submitted, typed>>

FrontNext ==
  \/ ParseArgument \/ CollectPrompts \/ ApplyTemplate
  \/ \E line \in InputLines : ReadLine(line)
  \/ EndOfInput
=============================================================================
