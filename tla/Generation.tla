----------------------------- MODULE Generation -----------------------------
(***************************************************************************)
(* One-shot generation (easy_llm without --serve): GptEngine::run hands    *)
(* all prompts to GptModel::forward as one batch, padded on the left,      *)
(* which prefills it, then decodes one token at a time for the samples     *)
(* that are left, and drops a sample from the batch at its EOS.            *)
(*                                                                         *)
(* The rows of a batch shift when samples leave it; what belongs to a      *)
(* sample (its K/V cache, its pads, its position) is found through         *)
(* sample_ids.  The model here is an oracle: as long as a sample attends   *)
(* to its own prompt and its own tokens at the positions they would have   *)
(* alone, it yields the token that sample would get alone; from anything   *)
(* else it may yield any token.  All layers hold the same rows             *)
(* (SelfAttnCache), so one cache stands for them.                          *)
(***************************************************************************)
EXTENDS Integers, Sequences

CONSTANTS
    Batches,     \* the batches of tokenized prompts, each a sequence of them
    Futures,     \* the tokens a prompt may be followed by, as sequences
    Tokens,      \* the vocabulary: what a prompt holds and the sampler may return
    PadId,       \* DataManager::pad_id_
    EosId,       \* config.eos_token_id; not in Tokens when EOS is disabled
    Unnamed,     \* the tokens the tokenizer has no string for
    MaxSteps,    \* config.max_steps
    MayThrow     \* may a forward pass of the model throw?

ASSUME GenerationAssumption ==
    /\ \A prompts \in Batches : prompts # <<>> /\ prompts \in Seq(Seq(Tokens))
    /\ \A future \in Futures :
          future \in Seq(Tokens) /\ Len(future) > MaxSteps
    /\ Unnamed \subseteq Tokens
    /\ MaxSteps \in Nat \ {0}
    /\ MayThrow \in BOOLEAN

VARIABLES
    pc,
    (* DataManager *)
    inputs,                 \* token_ids of each sample
    seq_lens, pad_lens,     \* of each sample
    outputs,                \* token_ids of each OutputSample
    (* GenerationContext *)
    batch,                  \* the padded input
    sample_ids,             \* which sample each row of the batch belongs to
    next_generated_tokens,  \* per row
    pos_lens_by_sample,
    step,
    (* The blocks. *)
    kv_cache,               \* per sample: the rows appended to its cache
    (* The oracle. *)
    alone                   \* what each sample would generate alone

data_vars == <<inputs, seq_lens, pad_lens, batch>>
row_vars == <<sample_ids, next_generated_tokens>>
vars == <<pc, data_vars, outputs, row_vars, pos_lens_by_sample, step, kv_cache, alone>>

Larger(m, n) == IF m >= n THEN m ELSE n

(* add_input numbers the samples in the order of the prompts. *)
Samples == 1 .. Len(inputs)
EachSample(value(_)) == [s \in Samples |-> value(s)]

(* Mutant of MaxLen: the shortest prompt. *)
MaxLen_Shortest == CHOOSE n \in {Len(inputs[s]) : s \in Samples} :
                       \A s \in Samples : Len(inputs[s]) >= n
(* compute_batch_padding *)
MaxLen == CHOOSE n \in {Len(inputs[s]) : s \in Samples} :
              \A s \in Samples : Len(inputs[s]) <= n

(* apply_padding *)
Padded(s) == [i \in 1 .. pad_lens[s] |-> PadId] \o inputs[s]

-----------------------------------------------------------------------------
(* add_input for every prompt. *)
Init ==
    /\ pc = "get_inputs"
    /\ inputs \in Batches
    /\ alone \in [Samples -> Futures]
    /\ seq_lens = EachSample(LAMBDA s : 0)
    /\ pad_lens = EachSample(LAMBDA s : 0)
    /\ outputs = EachSample(LAMBDA s : <<>>)
    /\ batch = <<>>
    /\ sample_ids = <<>> /\ next_generated_tokens = <<>>
    /\ pos_lens_by_sample = <<>>
    /\ step = 0
    /\ kv_cache = EachSample(LAMBDA s : <<>>)

(* get_inputs: tokenize, compute_batch_padding. *)
GetInputs ==
    /\ pc = "get_inputs"
    /\ seq_lens' = EachSample(LAMBDA s : Len(inputs[s]))
    /\ pad_lens' = EachSample(LAMBDA s : MaxLen - Len(inputs[s]))
    /\ pc' = "forward"
    /\ UNCHANGED <<inputs, batch, outputs, row_vars, pos_lens_by_sample, step,
                   kv_cache, alone>>

(* forward throws when a sample is empty, but looks at the padded ones: only a
   batch whose prompts all have no tokens is rejected. *)
RejectEmptySample ==
    /\ pc = "forward"
    /\ \E s \in Samples : Len(Padded(s)) = 0
    /\ pc' = "terminated"
    /\ UNCHANGED <<data_vars, outputs, row_vars, pos_lens_by_sample, step,
                   kv_cache, alone>>

(* The rest of forward up to prefill; set_pad_lens gives the layers the same
   pad_lens. *)
StartForward ==
    /\ pc = "forward"
    /\ \A s \in Samples : Len(Padded(s)) > 0
    /\ batch' = EachSample(Padded)
    /\ sample_ids' = [i \in Samples |-> i]
    /\ pos_lens_by_sample' = seq_lens
    /\ kv_cache' = EachSample(LAMBDA s : <<>>)
    /\ pc' = "prefill"
    /\ UNCHANGED <<inputs, seq_lens, pad_lens, outputs, next_generated_tokens,
                   step, alone>>

-----------------------------------------------------------------------------
Rows == 1 .. Len(sample_ids)

(* The rows a forward pass appends for row i of the batch: its tokens at the
   positions from pos_offsets[i] on. *)
NewRows(tokens, offset) ==
    [j \in 1 .. Len(tokens) |-> [token |-> tokens[j], pos |-> offset + j - 1]]

CacheAfter(tokens, offsets) ==
    EachSample(LAMBDA s :
        IF \E i \in Rows : sample_ids[i] = s
        THEN LET i == CHOOSE i \in Rows : sample_ids[i] = s
             IN kv_cache[s] \o NewRows(tokens[i], offsets[i])
        ELSE kv_cache[s])

(* The rows the last position of a sample attends to: all but its pads. *)
Attended(s, cache) == SubSeq(cache[s], pad_lens[s] + 1, Len(cache[s]))

(* The rows a sample would attend to alone, before its n-th token. *)
SoloRows(s, n) == NewRows(inputs[s] \o SubSeq(alone[s], 1, n - 1), 0)

(* What may be sampled for sample s from these rows; a prompt without tokens
   cannot be generated from alone. *)
Sampled(s, cache) ==
    LET n == Len(Attended(s, cache)) - Len(inputs[s]) + 1
    IN IF /\ inputs[s] # <<>> /\ n \in 1 .. Len(alone[s])
          /\ Attended(s, cache) = SoloRows(s, n)
       THEN {alone[s][n]}
       ELSE Tokens

(* append_output_token *)
Recorded(token) == token # PadId

(* should_sample_step *)
ShouldSampleStep(s, at) == at >= Len(inputs[s]) - 1

(* forward_logits, then sample_and_record_last_token: every row of the batch
   samples from its last position and gives its token to its sample. *)
ForwardAndRecord(cache, at) ==
    /\ kv_cache' = cache
    /\ \E next \in [Rows -> Tokens \ Unnamed] :
          /\ \A i \in Rows : next[i] \in Sampled(sample_ids[i], cache)
          /\ next_generated_tokens' = next
          /\ outputs' = EachSample(LAMBDA s :
                IF \E i \in Rows : /\ sample_ids[i] = s /\ Recorded(next[i])
                                   /\ ShouldSampleStep(s, at)
                THEN Append(outputs[s], next[CHOOSE i \in Rows : sample_ids[i] = s])
                ELSE outputs[s])

(* build_prefill_pos_offsets *)
PrefillOffsets == [i \in Rows |-> -pad_lens[sample_ids[i]]]

(* build_decode_pos_offsets *)
DecodeOffsets == [i \in Rows |-> pos_lens_by_sample[sample_ids[i]]]

PrefillCache == CacheAfter(batch, PrefillOffsets)
DecodeCache == CacheAfter([i \in Rows |-> <<next_generated_tokens[i]>>], DecodeOffsets)

Prefill ==
    /\ pc = "prefill"
    /\ ForwardAndRecord(PrefillCache, Len(batch[1]) - 1)
    /\ step' = Len(batch[1])
    /\ pc' = "filter"
    /\ UNCHANGED <<data_vars, sample_ids, pos_lens_by_sample, alone>>

-----------------------------------------------------------------------------
(* The loop of filter_eos_samples: which of the first n tokens are not dropped,
   in their order, for every n. *)
KeptPositions(tokens, dropped) ==
    LET kept[n \in 0 .. Len(tokens)] ==
            IF n = 0 THEN <<>>
            ELSE IF tokens[n] = dropped THEN kept[n - 1]
            ELSE Append(kept[n - 1], n)
    IN kept

(* filter_eos_samples: which rows of the batch stay. *)
Stays(i) == next_generated_tokens[i] # EosId
KeptRows == KeptPositions(next_generated_tokens, EosId)[Len(next_generated_tokens)]

(* Mutant of FilterEos: the tokens keep their places. *)
FilterEos_TokensStay ==
    /\ pc = "filter"
    /\ sample_ids' = [k \in 1 .. Len(KeptRows) |-> sample_ids[KeptRows[k]]]
    /\ next_generated_tokens' = SubSeq(next_generated_tokens, 1, Len(KeptRows))
    /\ kv_cache' = [s \in Samples |->
          IF \E i \in Rows : sample_ids[i] = s /\ ~Stays(i) THEN <<>> ELSE kv_cache[s]]
    /\ pc' = "decode"
    /\ UNCHANGED <<data_vars, outputs, pos_lens_by_sample, step, alone>>
FilterEos ==
    /\ pc = "filter"
    /\ sample_ids' = [k \in 1 .. Len(KeptRows) |-> sample_ids[KeptRows[k]]]
    /\ next_generated_tokens' =
          [k \in 1 .. Len(KeptRows) |-> next_generated_tokens[KeptRows[k]]]
    /\ kv_cache' = [s \in Samples |->
          IF \E i \in Rows : sample_ids[i] = s /\ ~Stays(i) THEN <<>> ELSE kv_cache[s]]
    /\ pc' = "decode"
    /\ UNCHANGED <<data_vars, outputs, pos_lens_by_sample, step, alone>>

(* Mutant of KeepsDecoding: one step too many. *)
KeepsDecoding_TooLong == step <= MaxSteps /\ sample_ids # <<>>
KeepsDecoding == step < MaxSteps /\ sample_ids # <<>>

(* Mutant of IncrementPosLens: the position of the row moves, not that of its
   sample. *)
IncrementPosLens_ByRow ==
    [s \in Samples |-> pos_lens_by_sample[s] + (IF s \in Rows THEN 1 ELSE 0)]
IncrementPosLens ==
    [s \in Samples |-> pos_lens_by_sample[s]
                       + (IF \E i \in Rows : sample_ids[i] = s THEN 1 ELSE 0)]

(* One iteration of decode up to the filter of
   apply_eos_filter_and_update_state. *)
DecodeStep ==
    /\ pc = "decode"
    /\ KeepsDecoding
    /\ ForwardAndRecord(DecodeCache, step)
    /\ pos_lens_by_sample' = IncrementPosLens
    /\ step' = step + 1
    /\ pc' = "filter"
    /\ UNCHANGED <<data_vars, sample_ids, alone>>

(* The end of forward; run writes the outputs, one line per sample. *)
Finish ==
    /\ pc = "decode"
    /\ ~KeepsDecoding
    /\ kv_cache' = EachSample(LAMBDA s : <<>>)
    /\ pc' = "done"
    /\ UNCHANGED <<data_vars, outputs, row_vars, pos_lens_by_sample, step, alone>>

(* No output is written. *)
ModelThrows ==
    /\ MayThrow
    /\ pc \in {"prefill", "decode"}
    /\ pc = "decode" => KeepsDecoding
    /\ pc' = "terminated"
    /\ UNCHANGED <<data_vars, outputs, row_vars, pos_lens_by_sample, step,
                   kv_cache, alone>>

(* decode_token_raw reads the first string of an empty vector. *)
UnnamedTokenCrashes ==
    /\ \/ pc = "prefill" /\ \E i \in Rows :
             Sampled(sample_ids[i], PrefillCache) \cap Unnamed # {}
       \/ pc = "decode" /\ KeepsDecoding /\ \E i \in Rows :
             Sampled(sample_ids[i], DecodeCache) \cap Unnamed # {}
    /\ pc' = "terminated"
    /\ UNCHANGED <<data_vars, outputs, row_vars, pos_lens_by_sample, step,
                   kv_cache, alone>>

Stopped == pc \in {"done", "terminated"} /\ UNCHANGED vars

Next ==
    \/ GetInputs \/ RejectEmptySample \/ StartForward
    \/ Prefill \/ DecodeStep \/ FilterEos \/ Finish
    \/ ModelThrows \/ UnnamedTokenCrashes \/ Stopped

Spec == Init /\ [][Next]_vars

-----------------------------------------------------------------------------
TypeOK ==
    /\ pc \in {"get_inputs", "forward", "prefill", "filter", "decode", "done", "terminated"}
    /\ inputs \in Batches
    /\ seq_lens \in [Samples -> Nat] /\ pad_lens \in [Samples -> Nat]
    /\ outputs \in [Samples -> Seq(Tokens)]
    /\ sample_ids \in Seq(Samples)
    /\ next_generated_tokens \in Seq(Tokens)
    /\ pos_lens_by_sample \in Seq(Nat)
    /\ step \in Nat
    /\ alone \in [Samples -> Futures]

(* How many tokens have been sampled for s when k have been for every sample
   that is still in the batch. *)
SampledFor(s, k) ==
    LET stops == {i \in 1 .. k : alone[s][i] = EosId}
    IN IF stops = {} THEN k ELSE CHOOSE i \in stops : \A j \in stops : i <= j

(* What is left of the first n tokens without the pads. *)
WithoutPads(tokens, n) ==
    LET kept == KeptPositions(tokens, PadId)[n]
    IN [k \in 1 .. Len(kept) |-> tokens[kept[k]]]

Rounds == IF pc \in {"decode", "done"} THEN step - MaxLen + 1 ELSE 0

(* Whatever leaves the batch and when, each prompt gets the tokens it would
   get alone, in order, through its EOS and without the pads, and after k
   forward passes exactly k of them or all through its EOS: no token of
   another sample, no stale position, no attended pad. *)
GeneratesAsIfAlone ==
    pc \in {"decode", "done"} => \A s \in Samples :
        inputs[s] # <<>> =>
            outputs[s] = WithoutPads(alone[s], SampledFor(s, Rounds))

(* Between two forward passes a sample of the batch holds its pads, its prompt
   and all its tokens but the last; a sample that has left, nothing. *)
CachesFollowSamples ==
    pc = "decode" => \A s \in Samples :
        IF \E i \in Rows : sample_ids[i] = s
        THEN /\ Len(kv_cache[s]) = pad_lens[s] + pos_lens_by_sample[s]
             /\ inputs[s] # <<>> => Attended(s, kv_cache) = SoloRows(s, Rounds)
        ELSE kv_cache[s] = <<>>

(* A batch that is not rejected runs until every sample has met its EOS or the
   step limit, which the longest prompt of the batch sets for all, and no
   further. *)
StopsAtLimit ==
    /\ Rounds <= Larger(1, MaxSteps - MaxLen + 1)
    /\ pc = "done" => \A s \in Samples : inputs[s] # <<>> =>
          \/ Rounds = Larger(1, MaxSteps - MaxLen + 1)
          \/ \E i \in 1 .. Rounds : alone[s][i] = EosId

(* What forward means by "input sample is empty": it generates for prompts that
   have tokens only. *)
EmptyPromptsRejected ==
    pc \in {"decode", "done"} => \A s \in Samples : inputs[s] # <<>>

=============================================================================
