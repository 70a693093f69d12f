---------------------------- MODULE ModelLoading ----------------------------
(***************************************************************************)
(* From a checkpoint to a model that runs: ModelParam reads every tensor   *)
(* of a safetensors file, validate_model_params_before_load compares what  *)
(* it found with the configuration, the layers take their parameters out   *)
(* of ModelParam one by one, what is left is warned of, and the first      *)
(* forward pass meets the shapes that were let through.                    *)
(*                                                                         *)
(* Three places decide what fits: the validation, the load_param of the    *)
(* layers (which checks almost nothing) and the operations of a forward    *)
(* pass.  The properties compare them.                                     *)
(***************************************************************************)
EXTENDS Integers, SequencesExt

CONSTANTS
    Cases     \* records of a configuration and a checkpoint

(* The numbers of a configuration are whole but for the base of the rotation,
   of which only the sign counts; the header gives whole sizes and offsets. *)
ASSUME CasesAssumption ==
    \A case \in Cases :
        /\ \A field \in {"num_layers", "hidden_size", "num_heads", "num_heads_kv", "vocab_size"} :
              case.config[field] \in Int
        /\ case.file.base \in Int /\ case.file.size \in Int
        /\ \A key \in DOMAIN case.file.tensors :
              LET tensor == case.file.tensors[key]
              IN tensor.shape \in Seq(Int) /\ tensor.begin \in Int /\ tensor.end \in Int

(* A key is <<layer, part, kind>>; embedding and last norm are in layer -1. *)
Model == -1
EmbedWeight == <<Model, "embed_tokens", "weight">>
ModelNorm == <<Model, "norm", "weight">>

VARIABLES
    pc,
    config,     \* Config: num_layers, hidden_size, num_heads, num_heads_kv, ...
    file,       \* the checkpoint: base and size in bytes, tensors by key
    params,     \* params_ of ModelParam: key -> [shape, bytes]
    todo,       \* the parts that have still to take their parameters
    model,      \* <<layer, part>> -> what the part has taken
    failed_at   \* the step an exception ended the program in

vars == <<pc, config, file, params, todo, model, failed_at>>

-----------------------------------------------------------------------------
(* load_tensor *)

Elements(shape) == FoldLeft(LAMBDA n, dim : n * dim, 1, shape)

ByteWidth == [BF16 |-> 2, F16 |-> 2, F32 |-> 4]

ParsesShape(shape) == shape # <<>> /\ \A i \in DOMAIN shape : shape[i] > 0

(* Mutant of WithinFile: the header is taken for data. *)
WithinFile_Header(tensor) ==
    tensor.begin >= 0 /\ tensor.begin <= tensor.end /\ tensor.end <= file.size
WithinFile(tensor) ==
    /\ tensor.begin >= 0 /\ tensor.begin <= tensor.end
    /\ file.base <= file.size /\ tensor.end <= file.size - file.base

Loads(tensor) ==
    /\ tensor.dtype \in DOMAIN ByteWidth
    /\ ParsesShape(tensor.shape)
    /\ WithinFile(tensor)
    /\ tensor.end - tensor.begin = Elements(tensor.shape) * ByteWidth[tensor.dtype]

Loaded(tensor) ==
    [shape |-> tensor.shape,
     bytes |-> (file.base + tensor.begin) .. (file.base + tensor.end - 1)]

-----------------------------------------------------------------------------
(* validate_model_params_before_load *)

(* Mutant of Layers: the last layer is not looked at. *)
Layers_AllButLast == 0 .. config.num_layers - 2
Layers == 0 .. config.num_layers - 1

LinearParts == {"q_proj", "k_proj", "v_proj", "o_proj", "down_proj", "gate_proj", "up_proj"}
NormParts == {"input_layernorm", "post_attention_layernorm"}

LayerKeys == {<<l, part, "weight">> : l \in Layers, part \in LinearParts \cup NormParts}

ConfigFits ==
    /\ config.num_layers > 0
    /\ config.hidden_size > 0 /\ config.num_heads > 0 /\ config.num_heads_kv > 0
    /\ config.hidden_size % config.num_heads = 0
    /\ config.vocab_size > 0

RequiredKeys == {EmbedWeight, ModelNorm} \cup LayerKeys

HeadDim == config.hidden_size \div config.num_heads
(* Mutant of KvHiddenSize: no grouped queries. *)
KvHiddenSize_AllHeads == config.hidden_size
KvHiddenSize == config.num_heads_kv * HeadDim

IsMatrix(shape, rows, cols) == shape = <<rows, cols>>
IsVector(shape, dim) == shape = <<dim>> \/ shape = <<dim, 1>>

(* Mutant of MlpFits: the gate is not compared with up. *)
MlpFits_AnyGate(down, gate, up) ==
    /\ Len(down) = 2 /\ Len(gate) = 2 /\ Len(up) = 2
    /\ down[1] = config.hidden_size
    /\ gate[2] = config.hidden_size /\ up[2] = config.hidden_size
    /\ down[2] = up[1]
MlpFits(down, gate, up) ==
    /\ Len(down) = 2 /\ Len(gate) = 2 /\ Len(up) = 2
    /\ down[1] = config.hidden_size
    /\ gate[2] = config.hidden_size /\ up[2] = config.hidden_size
    /\ gate[1] = up[1] /\ down[2] = up[1]

LayerFits(l) ==
    LET shape(part) == params[<<l, part, "weight">>].shape
        hidden == config.hidden_size
    IN /\ IsMatrix(shape("q_proj"), hidden, hidden)
       /\ IsMatrix(shape("k_proj"), KvHiddenSize, hidden)
       /\ IsMatrix(shape("v_proj"), KvHiddenSize, hidden)
       /\ IsMatrix(shape("o_proj"), hidden, hidden)
       /\ \A part \in NormParts : IsVector(shape(part), hidden)
       /\ MlpFits(shape("down_proj"), shape("gate_proj"), shape("up_proj"))

ParamsFit ==
    /\ RequiredKeys \subseteq DOMAIN params
    /\ IsMatrix(params[EmbedWeight].shape, config.vocab_size, config.hidden_size)
    /\ IsVector(params[ModelNorm].shape, config.hidden_size)
    /\ \A l \in Layers : LayerFits(l)

-----------------------------------------------------------------------------
(* The order in which load_param takes the parts: those of an attention, then
   those of an MLP, layer by layer. *)
PartsOfLayer ==
    <<"q_proj", "k_proj", "v_proj", "o_proj", "input_layernorm",
      "down_proj", "gate_proj", "up_proj", "post_attention_layernorm">>

LayerPart(i) == <<i \div 9, PartsOfLayer[(i % 9) + 1]>>

Parts ==
    << <<Model, "embed_tokens">> >>
    \o [i \in 1 .. 9 * config.num_layers |-> LayerPart(i - 1)]
    \o << <<Model, "norm">> >>

-----------------------------------------------------------------------------
Init ==
    /\ pc = "read"
    /\ \E case \in Cases : config = case.config /\ file = case.file
    /\ params = <<>> /\ todo = <<>> /\ model = <<>>
    /\ failed_at = "nowhere"

Fail(step) ==
    /\ pc' = "failed" /\ failed_at' = step
    /\ UNCHANGED <<config, file, params, todo, model>>

(* ModelParam::load_from_ckpt *)
LoadFromCkpt ==
    /\ pc = "read"
    /\ \A key \in DOMAIN file.tensors : Loads(file.tensors[key])
    /\ params' = [key \in DOMAIN file.tensors |-> Loaded(file.tensors[key])]
    /\ pc' = "validate"
    /\ UNCHANGED <<config, file, todo, model, failed_at>>

LoadFails ==
    /\ pc = "read"
    /\ \E key \in DOMAIN file.tensors : ~Loads(file.tensors[key])
    /\ Fail("read")

Validate ==
    /\ pc = "validate"
    /\ IF ConfigFits /\ ParamsFit
       THEN /\ pc' = "load" /\ todo' = Parts
            /\ UNCHANGED <<config, file, params, model, failed_at>>
       ELSE Fail("validate")

part == Head(todo)
WeightKey == <<part[1], part[2], "weight">>
BiasKey == <<part[1], part[2], "bias">>

IsLinear == part[2] \in LinearParts

(* Mutant of Taken: a bias is looked at, but not taken out. *)
Taken_WeightOnly == {WeightKey}
(* The parameters a part takes out of params_. *)
Taken == {WeightKey} \cup (IF IsLinear THEN {BiasKey} \cap DOMAIN params ELSE {})

(* A linear layer without a bias gets one of zeros; reshaping the one it takes
   gives it the rank 1. *)
Bias ==
    IF BiasKey \in Taken THEN [given |-> TRUE, size |-> Elements(params[BiasKey].shape)]
    ELSE [given |-> FALSE, size |-> params[WeightKey].shape[1]]

(* Linear and Embedding read two dimensions of their weight without asking for
   its rank, RMSNorm one. *)
CanTake ==
    /\ WeightKey \in DOMAIN params
    /\ part[2] \in NormParts \cup {"norm"} \/ Len(params[WeightKey].shape) > 1

(* The load_param of one part: it fails if take_param does not find its weight
   or a dimension that is not there is read. *)
LoadPart ==
    /\ pc = "load" /\ todo # <<>>
    /\ IF CanTake
       THEN /\ model' = [p \in DOMAIN model \cup {part} |->
                           IF p # part THEN model[p]
                           ELSE [weight |-> params[WeightKey].shape,
                                 bias |-> IF IsLinear THEN Bias
                                          ELSE [given |-> FALSE, size |-> 0]]]
            /\ params' = [key \in DOMAIN params \ Taken |-> params[key]]
            /\ todo' = Tail(todo)
            /\ UNCHANGED <<pc, config, file, failed_at>>
       ELSE Fail("load")

(* validate_no_remaining_model_params only warns. *)
EndLoad ==
    /\ pc = "load" /\ todo = <<>>
    /\ pc' = "loaded"
    /\ UNCHANGED <<config, file, params, todo, model, failed_at>>

-----------------------------------------------------------------------------
(* The shapes a forward pass on the CPU compares, for inputs [batch, seq,
   hidden]; weights[<<l, part>>] is the shape of a part's weight. *)

(* split_head, validate_rope_shape, repeat, matmul_4d and reshape.  *)
HeadsRun(q, k, v, hidden) ==
    LET head_dim == q \div config.num_heads
        kv_head_dim == k \div config.num_heads_kv
        repeated == config.num_heads_kv * (config.num_heads \div config.num_heads_kv)
    IN /\ config.rope_theta > 0
       /\ q % config.num_heads = 0
       /\ k % config.num_heads_kv = 0 /\ v % config.num_heads_kv = 0
       /\ head_dim % 2 = 0 /\ kv_head_dim % 2 = 0
       /\ repeated = config.num_heads
       /\ kv_head_dim = head_dim
       /\ config.num_heads * (v \div config.num_heads_kv) = hidden

(* matmul_3d compares the last dimensions, RMSNorm its own, multiply and
   add_inplace the sizes. *)
LayerRuns(weights, l, hidden) ==
    LET out(name) == weights[<<l, name>>][1]
        in(name) == weights[<<l, name>>][2]
    IN /\ out("input_layernorm") = hidden
       /\ \A name \in {"q_proj", "k_proj", "v_proj", "o_proj"} : in(name) = hidden
       /\ HeadsRun(out("q_proj"), out("k_proj"), out("v_proj"), hidden)
       /\ out("o_proj") = hidden
       /\ out("post_attention_layernorm") = hidden
       /\ in("up_proj") = hidden /\ in("gate_proj") = hidden
       /\ out("up_proj") = out("gate_proj")
       /\ in("down_proj") = out("up_proj") /\ out("down_proj") = hidden

ModelRuns(weights) ==
    LET hidden == weights[<<Model, "embed_tokens">>][2]
    IN /\ \A l \in Layers : LayerRuns(weights, l, hidden)
       /\ weights[<<Model, "norm">>][1] = hidden

(* The first forward pass. *)
FirstForward ==
    /\ pc = "loaded"
    /\ IF ModelRuns([p \in DOMAIN model |-> model[p].weight])
       THEN pc' = "running" /\ UNCHANGED <<config, file, params, todo, model, failed_at>>
       ELSE Fail("forward")

Ended == pc \in {"running", "failed"} /\ UNCHANGED vars

Next ==
    \/ LoadFromCkpt \/ LoadFails
    \/ Validate
    \/ LoadPart \/ EndLoad
    \/ FirstForward
    \/ Ended

Spec == Init /\ [][Next]_vars

-----------------------------------------------------------------------------
(* What a configuration promises the attention. *)
HeadsFit ==
    /\ config.num_heads % config.num_heads_kv = 0
    /\ HeadDim % 2 = 0
    /\ config.rope_theta > 0

(* No tensor is read from outside the mapped file, whatever its offsets say. *)
ReadsWithinFile ==
    \A key \in DOMAIN params : params[key].bytes \subseteq file.base .. file.size - 1

(* What passes the validation is loaded: no layer is left half filled because
   a key is missing or a weight has too few dimensions. *)
NeverHalfLoaded == failed_at # "load"

(* And it runs: no shape that passed the validation is refused by an operation
   of the first forward pass, for any configuration whose heads fit. *)
AcceptedModelsRun == failed_at = "forward" => ~HeadsFit

(* Is every weight a matrix, and that of a norm a vector or one column? *)
RanksFit ==
    \A key \in RequiredKeys :
        LET shape == params[key].shape
        IN IF key[2] \in NormParts \cup {"norm"} THEN Len(shape) = 1 \/ (Len(shape) = 2 /\ shape[2] = 1)
           ELSE Len(shape) = 2

(* The validation is not too strict either: a checkpoint it refuses lacks a
   weight, has one of a wrong rank, has another embedding or other heads than
   the configuration says, or would be refused by the first forward pass. *)
RejectsOnlyMisfits ==
    (failed_at = "validate" /\ ConfigFits /\ HeadsFit /\ RequiredKeys \subseteq DOMAIN params) =>
        \/ ~RanksFit
        \/ params[EmbedWeight].shape # <<config.vocab_size, config.hidden_size>>
        \/ \E l \in Layers : params[<<l, "q_proj", "weight">>].shape[1] # config.hidden_size
        \/ ~ModelRuns([p \in ToSet(Parts) |-> params[<<p[1], p[2], "weight">>].shape])

(* The keys a Qwen2 checkpoint of this configuration may have. *)
KnownKeys ==
    {EmbedWeight, ModelNorm} \cup LayerKeys
        \cup {<<l, name, "bias">> : l \in Layers, name \in LinearParts}

(* Every parameter that belongs to the model is in the model when it is loaded:
   what is left, and only warned of, is foreign to it. *)
LeftoversAreForeign ==
    pc = "loaded" => DOMAIN params = DOMAIN file.tensors \ KnownKeys

=============================================================================
