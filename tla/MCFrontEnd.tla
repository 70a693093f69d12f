------------------------------- MODULE MCFrontEnd -------------------------------
EXTENDS FrontEnd

MCDashed == {"-h", "--help", "-f", "--prompt-file", "-m", "-1", "-x"}
              \cup IntegerOptions \cup FloatOptions \cup Flags
Values == {"0", "1", "2", "0.5", "nan", "inf", "-1", "x", ""}
Words == MCDashed \cup Values \cup {"prompts.txt", "{user_query}"}

MCInvalid == -1000
Whole(word) == CASE word \in {"0", "0.5"} -> 0 [] word = "1" -> 1 [] word = "2" -> 2
                 [] word = "-1" -> -1 [] OTHER -> MCInvalid
MCStoi(word) == Whole(word)
MCStof(word) == CASE word = "0.5" -> 50 [] word = "inf" -> Infinite [] word = "nan" -> NaN
                  [] Whole(word) # MCInvalid -> 100 * Whole(word)
                  [] OTHER -> MCInvalid

MCTextOf(word) == IF word = "{user_query}" THEN <<"{user_", "query}">> ELSE << word >>
MCFiles == [name \in {"prompts.txt", "1"} |->
  IF name = "1" THEN << <<" ">>, <<>> >>
  ELSE << <<" ", "a", " ", "{user_", "query}", " ">>, <<" ">>, <<>>, <<"query}", "{user_">> >>]
MCInputLines == { <<"/quit">>, <<":quit">>, <<" ", "/quit">>, <<" ", " ">>,
                  <<"b", "{user_", "query}", "{user_", "query}">> }

Sampling(t, p, k, more) == <<"--temperature", t, "--top-p", p, "--top-k", k>> \o more
MCArgvs ==
  UNION {[1 .. n -> Words] : n \in 0 .. 3}
  \cup {Sampling(t, p, k, more) : t \in {"0.5", "1", "2", "inf", "nan"}, p \in {"0.5", "1", "nan"},
          k \in {"0", "1", "2"}, more \in {<<"x">>, <<"--greedy", "x">>}}

\* w ^ (100 / T) for the weights and temperatures of the instance, exact for 0, 1 and 16.
MCPower(w, T) ==
  CASE T = Infinite -> 1
    [] w \in {0, 1} -> w
    [] T = 50       -> w * w
    [] T = 80       -> 2 * w
    [] T = 200      -> 4
    [] OTHER        -> w
=============================================================================
