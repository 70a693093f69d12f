-------------------------------- MODULE FrontEnd --------------------------------
(***************************************************************************)
(* The way of the sampling options: from the command line through main and *)
(* the configuration into the sampler, and what the sampler then draws.    *)
(***************************************************************************)
EXTENDS CommandLine, Sampler, Functions

CONSTANT Weights    \* the weights a token may have

\* The words the program may be given, and the temperatures they may set.
AllWords == UNION {ToSet(words) : words \in Argvs}
Temperatures == {Defaults.numbers["--temperature"]} \cup {Stof(word) : word \in AllWords}

ASSUME FrontEndAssumption ==
  /\ Weights \subseteq Nat
  /\ Argvs \subseteq Seq(STRING)
  /\ \A word \in AllWords :
       Stoi(word) \in Int /\ Stof(word) \in Int /\ TextOf(word) \in Seq(STRING)
  /\ \A name \in DOMAIN Files : Files[name] \in Seq(Seq(STRING))
  /\ InputLines \subseteq Seq(STRING)
  /\ NotANumber = NaN

\* A power of a probability is one, and that of 0 is 0 (but for 0 ^ 0).
ASSUME PowerAssumption ==
  \A w \in Weights, T \in Temperatures :
    Below(0, T) => Power(w, T) \in Nat /\ (w = 0 /\ T # Infinite => Power(w, T) = 0)

VARIABLES
  params,      \* the parameters of the sampler (Config, then set_params)
  weights,     \* the probabilities the model gave the tokens
  candidates,  \* the tokens that may be drawn, heaviest first
  token        \* the token sampled

samplerVars == <<params, weights, candidates, token>>
vars == <<frontVars, samplerVars>>

NoToken == -1
NoWeights == [t \in Tokens |-> 0]
ParamsOf(opts) ==
  [temperature |-> opts.numbers["--temperature"], top_p |-> opts.numbers["--top-p"],
   top_k |-> opts.numbers["--top-k"], use_greedy |-> "--greedy" \in opts.flags]

Init ==
  /\ FrontInit
  /\ params = ParamsOf(Defaults)
  /\ weights = NoWeights /\ candidates = <<>> /\ token = NoToken

FrontStep == FrontNext /\ UNCHANGED samplerVars

\* The sampler gets its parameters.  The front end is not looked at again: forgetting it keeps
\* the states few.
SetParams ==
  /\ phase \in {"generating", "draining"}
  /\ phase' = "sampling"
  /\ params' = ParamsOf(options)
  /\ options' = Defaults
  /\ asked' = <<>> /\ prompts' = <<>> /\ submitted' = <<>> /\ typed' = <<>>
  /\ UNCHANGED <<argv, weights, candidates, token>>

\* sample_from_probs up to the draw, in whatever order equal weights are sorted.
CutCandidates(w, order) ==
  LET kept == Candidates(Adjusted(w, params.temperature), order, params.top_k, params.top_p) IN
    /\ weights' = w
    /\ IF AlwaysGreedy(params) \/ kept = <<>>
       THEN phase' = "sampled" /\ token' = Greedy(w) /\ UNCHANGED candidates
       ELSE phase' = "drawing" /\ candidates' = kept /\ UNCHANGED token
    /\ UNCHANGED <<argv, asked, options, prompts, submitted, typed, params>>

SampleFromProbs ==
  /\ phase = "sampling"
  /\ \E w \in [Tokens -> Weights] :
       \E order \in Descending(Adjusted(w, params.temperature)) : CutCandidates(w, order)

Adjustment == Adjusted(weights, params.temperature)

Draw(r) ==
  /\ phase = "drawing"
  /\ token' = Pick(Adjustment, candidates, r)
  /\ phase' = "sampled"
  /\ UNCHANGED <<argv, asked, options, prompts, submitted, typed, params, weights, candidates>>

Next ==
  \/ FrontStep
  \/ SetParams
  \/ SampleFromProbs
  \/ \E r \in 0 .. Total(Adjustment, candidates) : Draw(r)

Spec == Init /\ [][Next]_vars
-----------------------------------------------------------------------------
(***************************************************************************)
(* Properties.                                                             *)
(***************************************************************************)

(* What a command line says, read as a whole: a word that follows an option with a value is *)
(* that value, whatever it looks like.                                                      *)
TakesValue(word) == LongName(word) \in IntegerOptions \cup FloatOptions \cup {"--prompt-file"}
IsValue(words, i) ==
  LET value[j \in 0 .. Len(words)] ==
        j > 1 /\ ~ value[j - 1] /\ TakesValue(words[j - 1])
  IN value[i]
Named(words, option) == {i \in DOMAIN words : ~ IsValue(words, i) /\ LongName(words[i]) = option}
Plain(words) ==
  {i \in DOMAIN words : /\ ~ IsValue(words, i) /\ ~ TakesValue(words[i])
                        /\ words[i] \notin Flags /\ words[i] # ""}
WordsOf(words, positions) == {words[i] : i \in positions}
LastOf(positions) == CHOOSE i \in positions : \A j \in positions : j <= i

\* An accepted command line means what it says (parse_args): the last of several values of an
\* option counts, an option not given has its default, a flag is set if it is given, and of
\* the words that are no option and no value there is one at most, the prompt; nothing that
\* is not an empty string is dropped.
OptionsAsWritten ==
  phase = "loading" =>
    /\ \A option \in IntegerOptions \cup FloatOptions :
         options.numbers[option] =
           LET named == Named(asked, option) IN
             IF named = {} THEN Defaults.numbers[option]
             ELSE Parsed(option, asked[LastOf(named) + 1])
    /\ \A flag \in Flags : flag \in options.flags <=> Named(asked, flag) # {}
    /\ WordsOf(asked, Plain(asked)) = {options.prompt} \ {""}
    /\ WordsOf(asked, {i + 1 : i \in Named(asked, "--prompt-file")}) \ {""}
         = {options.prompt_file} \ {""}
    /\ Cardinality(Plain(asked)) <= 1

\* TrimmedFrom(text, line): text is line without the white space at its ends.
TrimmedFrom(text, line) ==
  \E i, j \in 0 .. Len(line) :
    /\ text = SubSeq(line, i + 1, j)
    /\ text # <<>> /\ text[1] # " " /\ Last(text) # " "
    /\ \A n \in DOMAIN line : n \in i + 1 .. j \/ line[n] = " "
Wrapped(text) == <<"<system>">> \o text \o <<"<assistant>">>

\* Every prompt reaches the model once, in order and whole: the lines of the file that are not
\* blank, trimmed, then the prompt of the command line, then (in service) the lines typed
\* before the end, each put into the template in one place, even if it contains the place
\* holder or a part of it itself (read_prompts_file, apply_chat_template, main).
Solid(lines) == {n \in DOMAIN lines : ~ Blank(lines[n])}
Live(lines) == {n \in Solid(lines) : lines[n] \notin QuitLines}
Rank(positions, n) == Cardinality({m \in positions : m <= n})
PromptLines == IF options.prompt_file = "" THEN <<>> ELSE Files[options.prompt_file]
Given == IF options.prompt = "" THEN <<>> ELSE << TextOf(options.prompt) >>
PromptsArriveWhole ==
  phase \in {"generating", "serving", "draining"} =>
    LET lines == PromptLines
        from_file == Cardinality(Solid(lines))
        before_live == from_file + Len(Given)
        got == IF Serving THEN submitted ELSE prompts
    IN /\ Len(got) = before_live + Cardinality(Live(typed))
       /\ \A n \in Solid(lines) :
            \E a, b \in DOMAIN lines[n] :
              /\ TrimmedFrom(SubSeq(lines[n], a, b), lines[n])
              /\ got[Rank(Solid(lines), n)] = Wrapped(SubSeq(lines[n], a, b))
       /\ \A i \in DOMAIN Given : got[from_file + i] = Wrapped(Given[i])
       /\ \A n \in Live(typed) :
            got[before_live + Rank(Live(typed), n)] = Wrapped(typed[n])

(* The sampler, described without an order of the tokens. *)
WeightOf(S) ==
  LET sum[n \in 0 .. VocabSize] ==
        IF n = 0 THEN 0 ELSE sum[n - 1] + (IF n - 1 \in S THEN Adjustment[n - 1] ELSE 0)
  IN sum[VocabSize]
Heaviest(S) == \A t \in S, u \in Tokens \ S : Adjustment[t] >= Adjustment[u]
Allowed == IF params.top_k \in 1 .. VocabSize THEN params.top_k ELSE VocabSize
TopKSets == {S \in SUBSET Tokens : Cardinality(S) = Allowed /\ Heaviest(S)}

\* What may be drawn is the smallest set of heaviest tokens that top-k and top-p admit: all of
\* the top k if top-p is 1 (or no number), else those of them that reach the share top_p of
\* the top k and no longer do without their lightest (sample_from_probs; the order in which
\* std::sort leaves equal weights does not matter).
NucleusIsSmallest ==
  phase = "drawing" =>
    LET N == Range(candidates) IN
      /\ Heaviest(N) /\ Cardinality(N) = Len(candidates)
      /\ \E K \in TopKSets :
           /\ N \subseteq K
           /\ IF Below(params.top_p, Unit)
              THEN /\ Unit * WeightOf(N) >= params.top_p * WeightOf(K)
                   /\ \A t \in N : (\A u \in N : Adjustment[t] <= Adjustment[u]) =>
                        Unit * WeightOf(N \ {t}) < params.top_p * WeightOf(K)
              ELSE N = K

\* The draw is fair: of the whole numbers from 1 to the total, each candidate is given as many
\* as it weighs; and the number 0 falls to a candidate too.
DrawIsProportional ==
  phase = "drawing" =>
    LET total == Total(Adjustment, candidates)
        drawn == [r \in 1 .. total |-> Pick(Adjustment, candidates, r)]
    IN
      /\ \A t \in Range(candidates) :
           Cardinality({r \in 1 .. total : drawn[r] = t}) = Adjustment[t]
      /\ Adjustment[Pick(Adjustment, candidates, 0)] > 0

\* A token of probability 0 is never sampled while another has more, neither by the draw at
\* the ends of its interval nor by the greedy choice (as long as the temperature is finite:
\* an infinite one makes all tokens equal).
ImpossibleNeverSampled ==
  phase = "sampled" /\ params.temperature # Infinite /\ (\E t \in Tokens : weights[t] > 0)
    => weights[token] > 0
=============================================================================
