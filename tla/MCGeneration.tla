---------------------------- MODULE MCGeneration ----------------------------
EXTENDS Generation

Words == {"a", "b"}
MCTokens == Words \cup {"pad", "eos", "unknown"}

(* One to three prompts of up to three tokens. *)
Prompts == {<<>>, <<"a">>, <<"b">>, <<"a", "b">>, <<"b", "a", "a">>}
MCBatches == UNION {[1 .. n -> Prompts] : n \in 1 .. 2}
             \cup [1 .. 3 -> {<<"a">>, <<"b", "a">>}]

MCFutures ==
    {<<"a", "b", "a", "b">>, <<"b", "a", "pad", "b">>, <<"a", "eos", "b", "a">>,
     <<"eos", "a", "a", "a">>, <<"pad", "b", "eos", "b">>, <<"a", "unknown", "a", "a">>}
=============================================================================
