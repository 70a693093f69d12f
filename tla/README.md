# easy_llm in TLA+

easy_llm is an LLM inference program in C++: it loads a decoder-only model, tokenizes
prompts, runs the layers on the CPU or on CUDA with a KV cache per sample, samples tokens
and either answers one batch of prompts (*one-shot*) or serves prompts read from stdin
with *continuous batching* (`--serve`). These modules model who owns a cache slot, which rows a cache holds, which request is
where and when the service may stop; what a batch generates; which elements of which rows an
attention layer multiplies; what is in the device buffers the CUDA operators share; how a text
becomes tokens; which checkpoints are loaded; what a command line means and which token is
sampled. The arithmetic of the layers is not modelled.

All paths below are relative to the repository.

## Inventory

| component | state | operations | interacts with |
|---|---|---|---|
| `ContinuousBatchServer` (`src/continuous_batch_server.cpp`) | `pending_prompts_`, `input_closed_`, `next_request_id_` under `pending_mu_`; `free_slots_`, `pad_lens_by_slot_`, `active_requests_` of the server thread | `submit_prompt`, `mark_input_closed`, `run` = (`admit_prefill_round`, `decode_round`, `is_done`)*, `finish_request` | input thread (shared queue), `GptModel` (calls), stdout |
| `main` (`src/main.cpp`) | the prompts; where the input thread is | command line, prompts, template; one-shot run, or with `--serve`: initial prompts, read a line, submit, print `[accepted n]`, close, join | command line, server |
| `GptModel` (`src/models/gpt_model.cpp`) | `GenerationContext` of a one-shot run; the blocks | `forward` (prefill, EOS filter, decode), `start_continuous`, `set_continuous_pad_lens`, `sample_prefill_continuous`, `sample_decode_continuous`, `clear_continuous_sample`, `reset_continuous` | every layer's `SelfAttn`, `DataManager`, sampler |
| Generation invariants (`src/models/generation_invariants.cpp`) | none | position offsets, EOS filter | `GptModel` |
| `SelfAttn` (`src/models/self_attn.cpp`) | per layer: `cache_k/v_by_sample_`, `cache_len_by_sample_`, `pad_lens_by_sample_`, `cuda_enabled_` | `forward` with CUDA and fallback, `append_kv_cache`, masks, `init/clear/reset_kv_cache` | CUDA state, cache batching |
| CUDA self-attention (`src/cuda/ops/self_attn*`) | per layer: device caches with capacity, scratch buffers, upload caches, a captured decode graph | prefill path, decode path with graph reuse, clear, reset | CUDA runtime |
| Cache batching (`src/models/cache_batching.cpp`) | none | pad caches of different lengths into one batch, mask what is not valid | `SelfAttn` |
| CUDA runtime (`src/cuda/runtime*`, `device_buffer.hpp`) | availability, stream, weight cache by host address | `get_or_upload`, `available`, `disable`, `DeviceBuffer::reset` | CUDA ops |
| CUDA matmul and MLP (`src/cuda/ops/matmul.cu`, `mlp.cu`) | one set of scratch buffers and upload caches each, for all layers | `matmul_3d`, `mlp_forward_cuda`, fallback to the CPU | CUDA runtime, layers |
| `DataManager` (`src/data_manager.cpp`) | inputs with `seq_len`, `pad_len`; outputs | tokenize and pad a batch, record sampled tokens | tokenizer, `GptModel` |
| Tokenizer and BPE | vocabulary, merge ranks | tokenize, decode | `DataManager`, server |
| Sampler (`src/sampler.cpp`) | random generator, parameters | greedy, top-k, top-p, `set_params` | `GptModel` |
| Command line (`src/cli_options.cpp`) | the options | `parse_args`, `read_prompts_file`, `apply_chat_template` | `main` |
| Loading and validation | parameters by name | read, check names and shapes, consume | `GptModel` |
| configuration file, tensor operations, stateless layers | none that outlives a call | | |

What is hard here:

* **Concurrency.** The input thread submits and closes at any moment of a round. Each
  critical section under `pending_mu_` is short; the stop decision (`is_done`) reads two
  shared fields and one private list.
* **Slot reuse.** A slot outlives its requests. What a finished request leaves behind (K/V
  rows, a pad length, a captured graph) meets the next one.
* **Rounds that rebuild lists.** A request moves between seven lists in a life of several
  rounds; any of them may lose or repeat it.
* **Padding and positions.** Batches are padded on the left; positions start at
  `-pad_len`, so that a request's own tokens are at 0, 1, 2, ...
* **Failure.** Nothing catches an exception of the model; a CUDA failure may switch one
  layer to the CPU in the middle of a generation.
* **Counting.** The token limit is spread over two kinds of rounds, and pads do not count.

* **Rows and samples.** A one-shot batch loses rows as samples reach their EOS; tokens,
  positions and caches must all go on with the right sample.
* **Two layouts.** The CPU and CUDA keep K and V in different layouts, both batch caches of
  unequal lengths, and both must attend to the same elements.
* **Shared buffers.** The CUDA operators keep buffers and copies of host tensors from call to
  call and from layer to layer, behind keys: an address, a size, a checksum, a graph's
  signature. A failure may strike between a buffer and its record.
* **Three judges.** Validation, loading and the operations of a forward pass each decide
  what fits.

The properties that make the components correct are listed with the modules below; the
hazards, each at its line, are in `PROJECT.json`.

## Modules

### ContinuousBatchServer (the core)

Two processes and what they share.

| model | code |
|---|---|
| `pending_prompts`, `input_closed`, `next_request_id` | the fields of the same name, guarded by `pending_mu_`; one action per critical section |
| `input_pc` | where the lambda of the input thread in `main.cpp` is |
| `pc`, `candidates`, `tokenized`, `max_len`, `prepared`, `next_active` | where `run` is, and the locals of the rounds |
| `active_requests`, `free_slots` (a stack), `pad_lens_by_slot` | the fields of the same name |
| `pad_lens_by_sample`, `kv_cache` | what every layer's `SelfAttn` keeps: the pad lengths it masks with and the rows of each slot, each row reduced to the request it belongs to and its RoPE position |
| `out` | the lines of stdout that matter: accepted and answers |

`SubmitPrompt`, `PrintAccepted`, `MarkInputClosed` are the input thread. `admit_prefill_round`
is `PopAdmissionCandidates` (or `SkipAdmission`), one `AnswerEmptyPrompt` or `TokenizePrompt`
per candidate, one `AssignSlot` per prompt left, `PrefillForward`, one `AdmitRequest` per
sampled token, `EndAdmission`; `decode_round` is `DecodeForward`, one `DecodeRequest` per
sampled token, `EndDecode`. `finish_request` is part of the action that calls it. The
rounds are cut at their loop iterations so that the input thread can run between any two
of them. `ModelThrows` is an exception of a forward pass: `main` does not catch it and its
input thread is joinable, so the process is terminated.

Left out: the statistics, the sleep of an idle round (no state), wording of the lines, and
the tokens of a prompt (only their number matters; 0 means that none is in the vocabulary).

Properties:

* `TypeOK`.
* `SlotPartition`: every slot is free once or held by exactly one request.
* `CacheIsOwnHistory`: the rows and the pad length kept for a request are those it would
  have had alone; nothing is kept for a free slot.
* `EnoughFreeSlots`: a batch never needs more slots than are free.
* `RequestInOnePlace`: every request is in exactly one list, or answered once.
* `BudgetKept`: every answer has exactly the tokens its limit gives it (at most, if EOS
  ended it).
* `DrainedAtExit`: `run` returns only when every accepted request is answered, every slot
  is free and the input is closed.
* `EveryRequestAnswered`, `ServiceStops`: liveness.
* `ImplementsService`: refinement of `RequestService`.

### RequestService

What the user of the service sees: requests numbered in order, taken into service in that
order and at most `Capacity` at a time, answered once each in any order; after the close
nothing is accepted, what was accepted is answered, and only then the service stops; or it
breaks down. `ContinuousBatchServer` implements it under the mapping at its end:
`started` is `next_request_id - Len(pending_prompts)`, `answered` the requests with a line
in `out`.

### SlotProtocol

The calls the server makes to the model, as the model sees them: `Prefill` and `Decode` of
lists of slots, `Release` of a slot (which is `clear_continuous_sample` and the push on
`free_slots_` in one step), in rounds. It stands between two components: it is the abstract
specification `ContinuousBatchServer` implements (`FollowsSlotProtocol`; a slot counts as
popped from the forward pass on), and the environment in which `SelfAttnCache` is checked.
The one-shot generation follows a special case of it: one prefill of all slots, then decodes.

### SelfAttnCache

What every layer's `SelfAttn` and its CUDA state keep, under every order of calls that
`SlotProtocol` allows.

| model | code |
|---|---|
| `call` | the forward pass in progress: its `sample_ids`, its rows per sample, the layer that runs next (`GptModel::forward_logits`) |
| `history` | a history variable: the rows the calls have given a slot since it was cleared |
| `available` | `CudaContext::available_` |
| `cuda_enabled` | `SelfAttn::cuda_enabled_`, per layer |
| `host_rows`, `cache_len` | the sizes of `cache_k/v_by_sample_` and `cache_len_by_sample_` |
| `device` | `SampleCache`: `len` and `capacity_len`; a slot's buffers move exactly when its capacity changes, so that the capacity also stands for their addresses |
| `scratch` | the capacity of `ForwardScratchBuffers`, as one buffer measured in rows |
| `graph` | `DecodeGraphCache`: the slot and the capacity of its signature, and whether the scratch buffers it was captured with have been replaced since |
| `attended` | how many rows of each slot the last layer attended to |
| `failure` | the exception that ended the process |

`CudaForward`, `CudaFailsWithCache`, `FallBack` and `CpuForward` are the ways through
`SelfAttn::forward`. A failing CUDA forward may have appended its rows to any number of the
slots of its batch, and may have replaced the buffers of the next one (`CacheAfterFailure`).
`RuntimeDisabled` is `CudaContext::disable`, called by a matrix product of another operation
in the middle of a pass. `Init` covers builds and machines without CUDA (`available` is
FALSE) and the environment variable that disables CUDA self-attention (`cuda_enabled` is
FALSE everywhere).

Rows are counted, not told apart, because a slot's rows all belong to its one request
(`CacheIsOwnHistory` of the core). The buffers themselves, the uploaded pad lengths and the
graph's addresses are `CudaSelfAttn`'s.

Properties:

* `AttendsWholeHistory`: a layer that completes a forward has attended to all rows of every
  slot of the batch, never to a part of them or through a graph with freed addresses.
* `HistoryKeptOnce`: between two forwards each layer holds all rows of a slot, on one side.
* `CacheFits`: rows fit their buffers and capacities an `int`.
* `PrefillLensUniform`: the prefill path never meets slots of different lengths.

A fallback is refused only while the slots up to the largest of the failing batch have history
on the device (`src/models/self_attn.cpp:198`), where the documents speak of any history
(`my/docs/easy_llm_deep_dive.zh-CN.md:2510`). No wrong answer follows, as `AttendsWholeHistory`
shows: the next decode of a higher slot throws.

### DeviceBuffers, CudaSelfAttn

`DeviceBuffers` has the growth of a device buffer, by doubling, which the CUDA operators share.
`MaxInt` is the largest value a capacity can have (that of `int` or `size_t`): a capacity that
cannot be doubled becomes what is asked for.

`CudaSelfAttn` is one attention layer on the device, under the same calls of `SlotProtocol`, with
every buffer that is kept between calls. CUDA does not fail here.

| model | code |
|---|---|
| `pads`, `pos_len` | `pad_lens_by_slot_` and the `pos_len` of the requests, as the server gives them to a layer |
| `call`, `step` | the arguments of `self_attn_forward_cuda` and where it is |
| `samples` | `SampleCache` by slot, a row as slot and rotated position |
| `scratch` | `ForwardScratchBuffers`, each with its size (which stands for its address) and what is in it |
| `pads_on_device` | `pad_lens_cache` |
| `graph` | `decode_graph`: what its signature compares, and the addresses it was captured with |

A forward pass is `PrepareQkv`, `AppendKvCache`, `PrepareAttention`, then `LaunchAttention` or
`ReplayGraph`, then `CopyOutput`. A replayed graph whose addresses have moved computes nothing.

* `OutputOfThisCall`: every token gets its own query and the keys of its own request from the
  first to its own position, each once, and no pad.
* `ReplaysLiveAddresses`: a graph that is replayed holds no address of a buffer that has moved,
  although its signature compares only some of them.

The second is why `clear_kv_cache` may not keep the graph of another slot: scratch buffers grow
in calls of several samples, after which a single one is left only when another was cleared.

### CudaOperators

`matmul_3d` and the MLP on CUDA. `PassFrom` lists the operators of a forward pass, `MatmulSteps`
and `MlpSteps` their device calls in order, and each call is an action: `EnsureBuffer`,
`CopyInput`, `UploadTensor`, `GetOrUploadWeight`, `LaunchKernel`, `CopyOutput`, or one of the
failures (`AllocationFails`, `CopyFails`, `LaunchFails`, `ProductNotSupported`). A value on the
device is the term of what it was computed from. After a failure an MLP goes on on the CPU for
good, a product this time only, and `ProductNotSupported` turns CUDA off.

* `MlpComputesItsLayer`, `ProductsKeepToTheirTensors`: no tensor of another layer or product is
  used, whatever has failed before.
* `LaunchesInBounds`: no kernel and no copy is given a buffer that is too small or gone.
* `ProductsAddTheirBias`: violated, see the findings. The MLP's upload caches have the same
  order of steps, but each of them serves tensors of one size only, so a buffer that is large
  enough is not replaced.

### Generation

The one-shot run: `GetInputs` is `DataManager::get_inputs`, `RejectEmptySample` and
`StartForward` the tests and the set-up of `GptModel::forward`, `Prefill` the first forward
pass, one `DecodeStep` per iteration of its loop (EOS filter, test, forward pass, increment),
`Finish` the output. `ModelThrows` and `UnnamedTokenCrashes` end it early: the latter is the
read of element 0 of a list that is empty for a token the tokenizer has no string for
(`src/data_manager.cpp:116`).

The model is an oracle: each prompt has a future, the tokens it would get alone. A sample
that attends to its own prompt and tokens at the positions it would have alone gets the next
token of its future; one that attends to anything else may get any token.

* `GeneratesAsIfAlone`: every sample's outputs are its own future up to its EOS, without the pads.
* `CachesFollowSamples`: the rows a sample's cache holds are its own, for each step it took.
* `StopsAtLimit`: the steps end where the longest prompt of the batch leaves them.
* `EmptyPromptsRejected`: violated, see the findings.

### Tensors, AttentionDataflow

`Tensors` has the operations of `Tensor` that move elements without computing with them.
`AttentionDataflow` follows every element of a layer's projections to its output, on both
paths, one step per operation:

| step | CPU | CUDA |
|---|---|---|
| split into heads | `CpuSplit` | `CudaSplit` (kernel indices) |
| RoPE | `ApplyRope` | `ApplyRope` |
| repeat K/V heads | `ExpandKvHeads` | `KvHead` in the attention kernel |
| append | `CpuAppend` | `CudaAppend` (growth, interleaved rows) |
| batch of unequal caches | `CpuView` and the masks | `CudaView`, `KeyLimit` |
| scores, softmax, values | `CpuScores`, `CpuAttend` | `CudaAttend` |
| merge heads | `CpuMerge` | `CudaMerge` |

A score is the set of pairs that are multiplied and added, an output element the scores and
the values they weight. `OutputIsAttention` compares each output element with the definition
of attention: its own sample's rows, in order, of its own head group, causal, without pads,
rotated by position.

### Vocabulary and Tokenizer

`Vocabulary` is `Tokenizer::init_from_config` and the two conversions between tokens and ids, as
operators: the trained vocabulary, the added tokens registered one by one (`Register`, skipped by
`Taken`), the special tokens, the pad id (`PadId`), `TokensToIds` and `IdsToTokens`. The entries
of the files are records; an id is what `std::stoi` reads, or `Unreadable`. `Tokenizer` starts
with the vocabulary its files give; a pad token whose id cannot be read ends the construction.

A text is scanned for special tokens (`Scan`), the words between them are encoded one by one
(`EncodeWord`, with the merges of `Bpe::apply_bpe` and its cache), the special token follows
(`PushSpecial`). `NextText` is the next prompt, which meets the same cache. The byte encoder is
modelled by its effect on printable text: a blank becomes a character of its own.

* `DecodeRestoresText`: the ids of a text, read back, give the text with its white space
  normalized, behind the bos token; only special tokens that could not be registered are lost.
* `PadNamesItsToken`: where the two files agree, `pad_id_` is the pad token's own id. Both
  services drop sampled pads from the answers, so another id there would drop a word.
* `SpecialsStayWhole`: between two special tokens there is no other.
* `MergesAsPublished`: merging one occurrence at a time gives the tokens of the algorithm that
  merges all occurrences of the best pair at once.

The normal form is the code's: a word directly behind a special token gets a blank in front
unless the token has text on both sides, so the blank of `a <s>b` moves behind the token. The
documents do not promise the tokens of another tokenizer.

### ModelLoading

`LoadFromCkpt` reads all tensors of the file or none (`LoadFails`), `Validate` is
`validate_model_params_before_load` (with the test of `init_from_config`), `LoadPart` one
`load_param` in the order of `GptModel::load_param`, `EndLoad` the warning about what is left,
`FirstForward` the comparisons of shapes in a forward pass on the CPU. `failed_at` is the step
that threw.

* `ReadsWithinFile`: no tensor's bytes lie outside the file.
* `NeverHalfLoaded`: what passed the validation is loaded to the end.
* `AcceptedModelsRun`: and it runs, if the heads of the configuration fit (`HeadsFit`). The
  premise is needed: that `num_heads_kv` divides `num_heads`, that the head size is even and
  that `rope_theta` is positive is tested only by the first forward pass, which throws.
* `RejectsOnlyMisfits`: what is rejected would not have run, or differs from the configuration.
* `LeftoversAreForeign`: what is only warned of does not belong to the model.
A bias of another size than its layer's output is loaded and never added (`src/ops.cpp:63`;
`test/matmul_3d_test.cpp:79` wants it so): the validation does not look at biases.

### CommandLine, Sampler, FrontEnd

`CommandLine` is `main` around the model: `ParseArgument` is one iteration of `parse_args`,
`CollectPrompts` the prompts of file and command line, `ApplyTemplate` the chat template,
`ReadLine` a line typed into the service. `Sampler` has the operators of `TopKTopPSampler`:
probabilities are whole weights, so that sums are exact, temperature and top-p hundredths, with
a value that is no number and one that is infinite, as `stof` may return. `FrontEnd` joins
them: the options go through the configuration into the sampler (`SetParams`), which cuts the
candidates (`SampleFromProbs`) and draws (`Draw`).

* `OptionsAsWritten`: the options are what the command line, read as a whole, says.
* `PromptsArriveWhole`: every prompt reaches the model once, in order, in its template.
* `NucleusIsSmallest`: the candidates are a smallest set that top-k and top-p admit.
* `DrawIsProportional`: each candidate is drawn by its weight.
* `ImpossibleNeverSampled`: a token of probability 0 is not sampled while another has more.

### MC modules

`MCContinuousBatchServer`, `MCSelfAttnCache`, `MCCudaSelfAttn`, `MCCudaOperators`,
`MCGeneration`, `MCAttentionDataflow`, `MCTokenizer`, `MCModelLoading` and `MCFrontEnd` are the
modules TLC is run on.

### The proof modules

| module | about | EXTENDS besides |
|---|---|---|
| `ContinuousBatchServer_proofs` | the safety properties of the server, its refinements of `RequestService` and `SlotProtocol` | |
| `SharedParts_proofs` | the slots of `SlotProtocol`; lemmas about the growth of a buffer (`DeviceBuffers`) | |
| `SelfAttnCache_proofs` | the properties of `SelfAttnCache` | `SharedParts_proofs` |
| `CudaSelfAttn_proofs` | the properties of `CudaSelfAttn` | `SharedParts_proofs` |
| `CudaOperators_proofs` | the properties of `CudaOperators` | `SharedParts_proofs` |
| `Generation_proofs` | the properties of `Generation` | |
| `ModelLoading_proofs` | the properties of `ModelLoading` | |
| `FrontEnd_proofs` | the properties of `FrontEnd`: the command line, the way of the prompts and the sampler; of `Tokenizer`, the pad id and the special tokens | `Tokenizer` |

What they prove, and how, is told under "Proofs".

## Runs

| run | constants | shows |
|---|---|---|
| `server_safety` | 2 slots, batches of 2, `max_steps` 2, prompts of 0, 1 or 2 tokens, tokens `tok`, `eos`, `pad`, at most 3 prompts (0 or 1 of them from the command line), 1 pad per request, the model may throw | the seven invariants and the refinements of `RequestService` and `SlotProtocol` |
| `server_liveness` | as `server_safety` with prompts of 0 or 1 token, no exception | the two liveness properties |
| `attn_safety` | 2 slots, batches of 2, 2 layers, prompts of 1 to 3 rows, at most 5 rows decoded on | the four properties of `SelfAttnCache` and its types |
| `attn_device` | 3 slots, batches of 2, prompts of 1 or 3 rows, at most 5 rows decoded on | the two properties of `CudaSelfAttn` |
| `cuda_operators` | 2 layers, passes of 1 or 2 rows, five sizes of products, one bias that does not fit, at most 2 failures | the three properties of `CudaOperators` |
| `cuda_stale_bias` | 1 layer, passes of 1 row, at most 5 failures | a counterexample to "a product adds its own bias" |
| `generation_safety` | batches of one or two of five prompts of 0 to 3 tokens, or three of 1 or 2; six futures with EOS, pads and a nameless token; `max_steps` 3; the model may throw | the four properties of `Generation` |
| `generation_empty` | the same | a counterexample to "empty prompts are rejected" |
| `attention_output` | 4 heads, 2 K/V heads, head size 4, 2 samples of up to 3 rows | every output element on both paths |
| `tokenizer_texts` | texts of up to six pieces, words of up to seven letters, seven merges, two special tokens that begin alike; five pairs of files, four of them with texts of up to four pieces | the four properties of `Tokenizer` |
| `loading_safety` | twelve configurations, 11 791 pairs of configuration and checkpoint | the five properties of `ModelLoading` |
| `front_end` | all command lines of up to three words out of 27, and ninety longer ones for the sampler; two files, two typed lines; four tokens of weights 0, 1 and 16 | the five properties of `FrontEnd` |

Deadlock is checked in every run but `front_end`, where most command lines end the program: a
module stops only in an action of its own (`Stopped`, `Done`, `Ended`), enabled only when the
program has returned, failed or is gone.

Why the bounds are enough: three prompts over two slots make one prompt wait for a slot that
another one gave back; batches of two with prompts of one and two tokens need padding; a
prompt without tokens leaves its batch; `max_steps` 2 gives limits of 2 (prompt of 1) and 1
(prompt of 2, finished in its prefill round), so requests finish in both kinds of rounds.
Bounds: `MaxRequests` (prompts submitted) and `MaxPads` (pads sampled for a request) are
bounds of the model, not of the code.

`SelfAttnCache`: two layers let one be on the CPU while the other is on the device; two slots
make batches of one (graph replay) and two (no graph) alternate. The code's constants are
scaled down so that every branch of the growth is taken: the first allocation (`MinCacheLen`
2 for 8 rows, `MinScratchRows` 1 for 4096 bytes), one and two doublings, and with `MaxInt` 6
the branch that stops doubling because an `int` would overflow. `MaxRows` bounds the rows of
a slot that is decoded on; prompts may be longer than one more doubling.

`CudaSelfAttn`: three slots make batches of one, two and three, so that scratch buffers grow
while a slot waits to be alone; prompts of one row take the decode path, those of three grow a
cache from `MinCacheLen` 2 (8 in the code) by doubling, and the two together need pads.

`CudaOperators`: the products' sizes 1, 2, 3 and 5 over a first capacity of 2 (4096 in the code)
need none, one and two doublings; passes of one row and of two meet in every order. Two
failures are one more than a second layer needs to find what the first left. The counterexample of
`cuda_stale_bias` needs five: one turns the MLP off, and four keep the products in between from
renewing the record.

`FrontEnd`: three words are an option, its value and one more, or an option whose value is an
option; the longer command lines only carry the sampler's parameters through. The weights 0, 1
and 16 make ties, single heavy tokens and tokens of probability 0; four tokens are more than
`top_k` 2 keeps.

`Generation`: two samples of unequal length in every combination, an empty one among them,
and three so that a row leaves between two others; three steps let a sample leave at the
first, a later or no step.

`AttentionDataflow`: two K/V heads of two query heads each tell a head from its group, head
size 4 tells the rotated pair (d, d + 2) from neighbours and from the layout's stride, and
three rows from a first capacity of one (`MinCacheLen`, 8 in the code) grow a buffer twice.
Caches of 1 to 3 rows meet in one batch in every order.

`Tokenizer`: six pieces put text, white space and a special token on both sides of another;
the merges have a pair of equal parts (`aaa` merges in two ways), pairs that compete for a
letter and merges of merges. The files have special tokens that are new, trained already,
declared twice, without a readable id, empty, or under an id or a text that is taken; a pad token
that is special, trained, or unreadable; and a bos token that is one of these, none, or unknown.

`ModelLoading`: a checkpoint fits its configuration, lacks one key, or has one tensor of
another shape (transposed, flat, one or two dimensions more, other size, empty), one or two biases, a foreign
key, a tensor of another type or with other offsets; two deviating matrices and all
sizes of the MLP's three matrices cover mistakes that hide each other. Every configuration
meets every other one's checkpoint.

Fairness: `run` is a loop that never blocks (an idle round sleeps for a fixed time), so the
server thread is weakly fair. The input thread is not: the user may never type; only the
printing of a line already begun is. `EveryRequestAnswered` and `ServiceStops` hold for
models that sample finitely many pads per request (`MaxPads`): the code counts no pad and
would keep decoding for ever otherwise (`src/continuous_batch_server.cpp:189`).

## Findings

1. `generation_empty`: a prompt without tokens that is batched with others is padded to their
   length before `src/models/gpt_model.cpp:163` looks for empty samples, so it is not rejected
   (the message at `:164` says that empty samples are) and is generated from with every key
   masked. A batch of only empty prompts is rejected.
2. `cuda_stale_bias`: `maybe_add_bias` (`src/cuda/ops/matmul.cu:121`) replaces a buffer that is
   too small before it uploads the bias, and records which bias it holds afterwards. If the
   upload fails, the record still names the bias of the old memory; the next product with that
   bias uploads nothing and adds memory nobody has written.
   `my/docs/easy_llm_deep_dive.zh-CN.md:1926` says that after such a failure one can usually go
   on on the CPU.

Noted while modelling, and allowed for by the modules:

* The limit is `max(1, max_steps - seq_len + 1)` (`src/continuous_batch_server.cpp:313`), so
  prompt and generation together reach `max_steps + 1`; `my/docs/build-test-run.zh-CN.md:126`
  calls `--max-steps` the upper limit of both together.
* Only tokens other than pads count against the limit (`:189`); the usage text
  (`src/cli_options.cpp:29`) speaks of "Maximum generation steps per request".

## Proofs

`ContinuousBatchServer_proofs` proves for every value of the constants that satisfies
`ServerAssumption` (any number of slots, any batch size, any set of tokens and prompt
lengths):

* `TypeCorrect`: `Spec => []TypeOK`
* `SlotsSuffice`: `Spec => []EnoughFreeSlots`
* `BudgetIsKept`: `Spec => []BudgetKept`

The inductive invariant is `TypeInv == TypeOK /\ ListsSound /\ EnoughFreeSlots /\ Stages`.
`TypeOK` alone is not inductive: `AssignSlot` computes `max_len - seq_len`, which is a natural
number only because every tokenized prompt is at most `max_len` long, and pops the free
stack, which is not empty only because of `EnoughFreeSlots`. `ListsSound` says what each
element of a list satisfies by itself (its limit belongs to its prompt, an active request has
tokens left, an answer kept its budget), written as membership in a smaller set so that the
facts about sequences apply. `Stages` says which lists are empty at which point of a round.
There is one lemma per action or group of similar actions.

It also proves `SlotsPartitioned`: `Spec => []SlotPartition`. Its inductive
invariant `SlotInv` says of the four holders of slots (the free stack and three lists) that
each holds a slot at one index only and that the four sets of slots are disjoint and make up
all slots. Every action that moves a slot takes it from one set and adds it to another;
`TypeInv` is needed for the stack popped by `AssignSlot` not to be empty.

Next come `RequestsInOnePlace`: `Spec => []RequestInOnePlace`, and
`ServiceDrains`: `Spec => []DrainedAtExit`. The inductive invariant `RequestInv` says of the
seven places of a request (the queue, five lists of the rounds, the answers) that each holds an
id at one index only, that the seven sets of ids are disjoint and that they make up the ids
handed out so far. Every action leaves the sets alone, adds the new id to one of them or moves
ids from one to another, and one lemma (`TransferIds`) says that a move keeps them disjoint and
complete. `DrainInv` ties the end of `run` to the input thread; that all slots are free then
follows from `SlotInv` by counting.

The last one is `CachesAreOwnHistories`: `Spec => []CacheIsOwnHistory`. The property
is not inductive: what a slot holds is measured with the pads the attention masks
(`pad_lens_by_sample`), and `finish_request` and the prefill overwrite all of them with
`pad_lens_by_slot`. `HistoryInv` therefore adds that the two agree for every slot except those
given out in this round and not prefilled yet, whose new pad it also gives. That an action on one
slot leaves the others alone is `SlotInv` again.

The module also proves `ServerImplementsService`: `Spec => ImplementsService`, the
refinement of `RequestService`. Each action is shown to map to one action of the service or to a
stutter. Admission is the step that needs an argument: the popped prompts are the oldest ids
(`FifoInv`: the queue holds consecutive ids that end with the last one submitted), and
`Capacity` is kept because every request in service holds one of the `MaxActive` slots, which
bounds the number of ids by a bijection.

The second refinement is `ServerFollowsProtocol`: `Spec => FollowsSlotProtocol`, the
refinement of `SlotProtocol`. The slots popped one by one in `AssignSlot` are on the protocol's
stack until the forward pass, which pops them all at once (`AssignUnseen`, `PrefillStep`);
`BatchInv` bounds a batch by `PrefillBatch`, and `HistoryInv` gives the slots in use.

With these, every safety property and both refinements that `server_safety` checks on a small
instance hold for every value of the constants.

`SharedParts_proofs` proves `ProtocolKeepsSlotsApart`: whoever keeps to the protocol has every
slot on one of its lists at most, and the slots in use are those of the lists. The two layers
below take it over, because their steps are steps of the protocol or stutter
(`LayersFollowProtocol`, `DeviceFollowsProtocol`); `ServerFollowsProtocol` says that the server
provides it.

The same module has lemmas about `NextCapacity`: the doubling ends, gives at least what is
required, never less than before, and never more than `MaxInt` if that is not required. The loop
is a recursive function that does not descend, so that it exists has to be shown: its value at c
is read off the numbers that doubling c passes. Induction is replaced by the least counterexample
(`LeastElement`, from the well-foundedness of < on the naturals, which takes no operator as a
parameter). `CudaSelfAttn_proofs` (`LargestOf`), `CudaOperators_proofs` (`PassExists`),
`Generation_proofs` (`KeptExists`) and `FrontEnd_proofs` (`SumExists`, `MarksExist`,
`ReadExists`, `MapsExist`, `JoinedExist`, `MergedExist`) use the same device.

`SelfAttnCache_proofs` proves the five properties of `SelfAttnCache` for every number of slots and
layers. `AttnInv` is `TypeOK`, the invariant of the protocol, `CacheFits` and `PrefillLensUniform`,
together with `HistoryKeptOnce` once the layers have stopped and with `LiveInv` before:
`CallInv` (the pass in progress is the one the server's turn says), `HistoryInv` (a free slot has no
rows), `RowsInv` (a layer has all rows of a slot in one place, those of the running pass from the
layer that has run on) and `GraphInv`. `CacheFits` and `AttendsWholeHistory` need each other:
that a capacity stays within `MaxInt` follows from the lengths, and that the rows attended to are
all rows follows from the capacities. A failing CUDA forward is cut off before its last slot
(`CacheAfterFailure`), so that either a later slot of the batch has no rows on the device, and the
layer may fall back, or the pass throws. The assumptions (`CacheAssumption`) say that prompts and
`MaxRows` are counted by an `int`, as in the code.

`CudaSelfAttn_proofs` proves `DeviceOutputRight` (`OutputOfThisCall`) and `ReplayAddressesLive`
(`ReplaysLiveAddresses`). `LayerInv` follows the buffers through a pass: what `samples` holds of a
slot is its rows from the first on (`SamplesInv`), what each scratch buffer holds at each step
(`ContentInv`) and that it is large enough (`SizesInv`). The argument for the graph is in
`GraphInv`: its addresses are live, or another slot than its own is in use. A replay happens in a
pass of one slot, which is then the only one in use, so the second case is excluded.

`CudaOperators_proofs` proves the three properties of `CudaOperators` for every number of layers,
all sizes and any number of failures. The device calls of an operator have a rank that grows along
its program (`Ranked`; the programs are joined from parts, `JoinParts`), so that what is not among
the remaining calls has been made (`OrderInv`). What it left behind is stated under that condition
(`MlpContents`, `ProductContents`), with what the upload caches hold between operators (`CacheInv`):
a cache of the MLP has room for what it has recorded and holds it, because it serves one size only;
the cache of `matmul_3d` may hold memory nobody has written in place of what it has recorded, which
is finding 2. `SizeInv` (a buffer that was asked for is large enough) gives `LaunchesInBounds`.

`Generation_proofs` proves the four properties of `Generation` for every batch, every set of
futures, every EOS and pad token and every `max_steps`. `GenerationAssumption` says that a batch
has a prompt, that prompts and futures are of the vocabulary, and that a future is longer than the
steps that may be taken. The induction is over the rounds (`R`, the forward passes done): after
round R the cache of a sample in the batch holds its pads and, behind them, its prompt and R - 1
tokens of its future at their positions (`HoldsPrefix`, `CachesHold`), its row holds the R-th
(`LatestTokens`), and it is in the batch exactly if none of the R is EOS (`LeavesAtEos`). Then the
sample attends to what it would see alone (`AttendedAlone`), so the oracle has one token only to
give it (`SampledAlone`). Prefill and a decode step are two instances of one lemma (`PassKeeps`).
`RowsInStep` has what the EOS filter must not break: no sample has two rows, and tokens keep to
their rows. The loop of the filter (`KeptPositions`) is a recursive function; `KeptFacts` says that
it returns the positions that are kept, in order. For prompts without tokens nothing is claimed but
the length of their caches, see finding 1.

`ModelLoading_proofs` proves the five properties of `ModelLoading` for every set of configurations
and checkpoints. `CasesAssumption` says what the parsers of the configuration and the header let
through: whole numbers and shapes of whole numbers. `LoadInv` is the strengthening: while the parts
load, the validation's verdict holds of the file (`Checked`), `todo` are the parts behind those that
are done, `params_` is the file without the keys of the parts done (`TakenBefore`), and `model` has
the shapes of the file. It is inductive because the parts are distinct (`PartsOnce`, by counting by
nine) and no key belongs to two of them (`KeysApart`), so that the next part finds what the
validation saw (`CanTakeNext`); with `PartsAll` nothing of the model is left over. That accepted
models run (`CheckedRuns`) and runnable ones are accepted (`RunningFits`) are two lemmas about
sizes: under `HeadsFit` the sizes the validation computes and the ones a forward pass computes are
the same. The proof needs no bound on the sizes: where the heads fit, `num_heads_kv * head_dim` is
at most `hidden_size` and does not leave an `int`. Trying to prove `RejectsOnlyMisfits` showed that
an earlier form of it was false (a norm of the shape `[n, 1, 1]` has `n` elements and is refused);
`RanksFit` now says `[n]` or `[n, 1]`, and `loading_safety` has such shapes.

`FrontEnd_proofs` proves the five properties of the command line, the prompts and the sampler for
every vocabulary, all weights, every parameter, command lines and prompt files of any length and
any number of typed lines. `FrontEndAssumption`
gives words, lines and weights their types; `PowerAssumption` says that a power of a weight is a
weight, and that of 0 is 0. For the sampler the strengthening is `IInv`: the options and parameters
are sound (`ParsingInv`, `SoundParams`; a temperature or a top-p the tests of `parse_args` let
through is positive, or no number), and the candidates come from some order of the weights
(`DrawingInv`). The lemmas are about running sums: what top-k and top-p keep is a prefix of the
sorted tokens (`CandidatesArePrefix`), a prefix of a sorted order is a heaviest set
(`PrefixIsSmallest`), and the numbers between two neighbouring sums fall to one token
(`PickedBetween`, `DrawnByWeight`). `SmallestNucleus`, `DrawIsFair` and `NoImpossibleToken` follow. For
`CommandLineAsWritten` the strengthening is `WrittenInv`: while `parse_args` runs, the words behind
it end at a boundary (the next one is no value), and the options are what those words say, read as
a whole (`Parsing`, `SaidBy`). Which word is a value is a recursive function over the words; that one
more word does not change the marks of those before it is `ValueStep`.

For `PromptsArrive` the strengthening is `ArriveInv`: nothing has arrived while the options are
read, then the collected prompts are those of the file followed by that of the command line, then
each of them and each line typed so far has arrived once, in its template (`Arrived`). It rests on
three facts about the code. The search for the place holder goes on behind what was put in, so the
template's own place holder is the only one replaced, whatever the prompt contains
(`TemplatedWraps`). `trim` takes blanks off both ends and nothing else (`TrimFacts`). The loop over
the file's lines, a recursive function, puts each line that is not blank at the place its rank
among them gives (`PromptsOfFacts`, `RankFacts`); a typed line comes behind all before it
(`LineArrives`).

`FrontEnd_proofs` ends with two properties of `Tokenizer`, for all files and all texts
`TokenizerAssumption` admits: texts of any length, any number of them through one cache, any added
tokens, any merges. The assumption says of added tokens that they are printable and without white
space. The code does not check this, and `SpecialsAreNeverTakenApart` needs it: white space is not
kept as it was, so a special token with a blank in it could come out of a text with two.

For `PadOwnsItsId` the lemma `VocabularySound` follows the entries of `tokenizer_config.json` through
`Register`: the two maps stay each other's inverse, and where the files agree (`Consistent`) the
first entry of a text has the id it declares (`AsDeclared`), which is the one `parse_pad_id` reads.

For `SpecialsAreNeverTakenApart` the strengthening is `TokenizerInv`. `Clean` is the property for
the tokens so far, and what keeps it is that text meets text in two ways only. Either behind the
start or a special token (`AtSpecial`, which must hold whenever a word goes without a blank, so when
`local_first` is set), or with the mapped blank between them, which is in no special token
(`FreeAcross`). Inside a segment there is none because the search takes the first match
(`FirstMatch`, `WordFree`), and merging, or the cache, only divides a word (`MergesFlat`,
`CacheSound`). That `FlattenSeq` is a homomorphism (`FlattenConcat`) is proved by the last element.

Only model-checked: `OutputIsAttention` of `AttentionDataflow`, `DecodeRestoresText` and
`MergesAsPublished` of `Tokenizer`, and, out of the prover's reach, the liveness properties. The
first is about indices that are products of unknowns; the other two compare the code with a
second recursive definition, over a text or over the merges of a word, step by step: an induction
over data, which the prover has only where a least counterexample can be spelled out, as above.

## Plan

1. Done: `ContinuousBatchServer`, `RequestService`, `SlotProtocol`, `SelfAttnCache`,
   `CudaSelfAttn`, `CudaOperators`, `Generation`, `AttentionDataflow`, `Vocabulary`,
   `Tokenizer`, `ModelLoading`, `CommandLine`, `Sampler`, `FrontEnd`.
2. Number formats: FP16 and BF16 conversions over all bit patterns.
3. Proofs: done for the server and its refinements, the protocol, the three modules of the CUDA
   state, the one-shot generation, the loading of a model, the command line, the prompts, the
   sampler, the pad id and the special tokens of the tokenizer.

## Not modelled

The arithmetic of the layers and kernels (floating point) and the number formats, the
byte encoder beyond the blank, parsing of JSON files,
logging and statistics, vendored code, tests and scripts. The components not modelled are listed
in `PROJECT.json` with the reason.
