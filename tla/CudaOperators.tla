---------------------------- MODULE CudaOperators ----------------------------
(***************************************************************************)
(* The operators without history that run on CUDA: matmul_3d               *)
(* (src/src/cuda/ops/matmul.cu) and the MLP (src/src/cuda/ops/mlp.cu).     *)
(* Each has one set of device buffers, shared by all layers: scratch       *)
(* buffers that grow and keep their size, and upload caches that remember  *)
(* which host tensor they hold.  Weights stay in the weight cache of the   *)
(* runtime.  Any call into CUDA may fail; the operator then throws, and    *)
(* the caller repeats its work on the CPU.                                 *)
(*                                                                         *)
(* A device value is a term: what was computed from which tensors.  A call *)
(* that reports an error has had no effect of its own.                     *)
(***************************************************************************)
EXTENDS Naturals, Sequences, DeviceBuffers

CONSTANTS
  NumLayers,        \* layers of the model
  Hidden,           \* sizes of a row: of the hidden state,
  Kv,               \*   of the keys and values,
  Inter,            \*   inside of the MLP,
  Vocab,            \*   and of the logits
  MaxRows,          \* rows (batch times tokens) of a forward pass are 1 .. MaxRows
  MinBytes,         \* the first capacity of a buffer (4096 in the code)
  Misfits,          \* the biases, <<layer, role>>, whose size is not that of the product
  MaxFailures       \* bound: how many CUDA calls of a behaviour fail

ASSUME OperatorsAssumption ==
  /\ {NumLayers, Hidden, Kv, Inter, Vocab, MaxRows, MinBytes} \subseteq Nat \ {0}
  /\ MaxFailures \in Nat

VARIABLES
  available,     \* CudaContext::available_
  attn_enabled,  \* SelfAttn::cuda_enabled_ by layer
  mlp_enabled,   \* MLP::cuda_enabled_ by layer
  rows,          \* rows of the forward pass
  todo,          \* the operators of the pass that are still to come, the running one first
  steps,         \* the device calls the running operator still makes
  device,        \* by buffer: DeviceBuffer, its bytes and what is in them
  recorded,      \* by upload cache: host_ptr and bytes of the tensor it holds
  weights,       \* the keys of the weight cache
  result,        \* what the last operator that ended on the device returned
  failures       \* how many CUDA calls have failed

vars == <<available, attn_enabled, mlp_enabled, rows, todo, steps, device, recorded,
          weights, result, failures>>
-----------------------------------------------------------------------------
Layers == 1 .. NumLayers

\* The products of a pass by role, and the size of a row they take and give.
Roles == {"q", "k", "v", "o", "up", "gate", "down", "head"}
InDim(r) == IF r = "down" THEN Inter ELSE Hidden
OutDim(r) == CASE r \in {"q", "o", "down"} -> Hidden
               [] r \in {"k", "v"}         -> Kv
               [] r \in {"up", "gate"}     -> Inter
               [] r = "head"               -> Vocab

\* Host tensors by name, and the terms that kernels make of them.
Bias(l, r) == <<"bias", l, r>>
Weight(l, r) == <<"weight", l, r>>
NormWeight(l) == <<"norm_weight", l>>
NoTensor == <<"none">>
Undefined == <<"undefined">>
Input == <<"input">>
Norm(x, w) == <<"norm", x, w>>
Linear(w, x) == <<"linear", w, x>>
Plus(x, b) == <<"plus", x, b>>
SiluMul(u, g) == <<"silu_mul", u, g>>

MatmulScratch == {"matmul_input", "matmul_output"}
MlpScratch == {"input", "norm_out", "up", "gate", "output"}
MlpCaches == {"norm_weight", "up_bias", "gate_bias", "down_bias"}
Caches == MlpCaches \cup {"matmul_bias"}
Buffers == MatmulScratch \cup MlpScratch \cup Caches

NoBuffer == [bytes |-> 0, content |-> Undefined]

Product(l, r) == [op |-> "product", layer |-> l, role |-> r]
Mlp(l) == [op |-> "mlp", layer |-> l, role |-> "mlp"]

\* A bias takes part if its size is that of the output; the head has none.
UsesBias(l, r) == r # "head" /\ <<l, r>> \notin Misfits

\* The bytes operator o uses of buffer b (an element is one byte here).
Size(o, b) ==
  CASE b = "matmul_input"                       -> rows * InDim(o.role)
    [] b = "matmul_output"                      -> rows * OutDim(o.role)
    [] b = "matmul_bias"                        -> OutDim(o.role)
    [] b \in {"input", "norm_out", "output"}    -> rows * Hidden
    [] b \in {"up", "gate"}                     -> rows * Inter
    [] b \in {"norm_weight", "down_bias"}       -> Hidden
    [] b \in {"up_bias", "gate_bias"}           -> Inter

\* The host tensor operator o uploads to cache c.
TensorOf(o, c) ==
  CASE c = "matmul_bias" -> Bias(o.layer, o.role)
    [] c = "norm_weight" -> NormWeight(o.layer)
    [] c = "up_bias"     -> Bias(o.layer, "up")
    [] c = "gate_bias"   -> Bias(o.layer, "gate")
    [] c = "down_bias"   -> Bias(o.layer, "down")
-----------------------------------------------------------------------------
(***************************************************************************)
(* The device calls of an operator, in order.                              *)
(***************************************************************************)
Ensure(b) == <<"ensure", b>>
CopyIn(b) == <<"copy_in", b>>
Upload(c) == <<"upload", c>>
UploadWeight(r) == <<"weight", r>>
LaunchNorm == <<"norm", "input", "norm_weight", "norm_out">>
LaunchLinear(r, from, to) == <<"linear", r, from, to>>
LaunchBias(b, c) == <<"bias", b, c>>
LaunchSilu == <<"silu_mul", "up", "gate">>
CopyOut(b) == <<"copy_out", b>>

If(P, step) == IF P THEN <<step>> ELSE <<>>

MatmulSteps(l, r) ==
  << Ensure("matmul_input"), Ensure("matmul_output"), CopyIn("matmul_input"),
     UploadWeight(r), LaunchLinear(r, "matmul_input", "matmul_output") >>
  \o If(UsesBias(l, r), Upload("matmul_bias"))
  \o If(UsesBias(l, r), LaunchBias("matmul_output", "matmul_bias"))
  \o << CopyOut("matmul_output") >>

MlpSteps(l) ==
  << Ensure("input"), Ensure("norm_out"), Ensure("up"), Ensure("gate"), Ensure("output"),
     CopyIn("input"), Upload("norm_weight"), LaunchNorm,
     UploadWeight("up"), UploadWeight("gate"), UploadWeight("down"),
     LaunchLinear("up", "norm_out", "up"), LaunchLinear("gate", "norm_out", "gate") >>
  \o If(UsesBias(l, "up"), Upload("up_bias"))
  \o If(UsesBias(l, "gate"), Upload("gate_bias"))
  \o If(UsesBias(l, "down"), Upload("down_bias"))
  \o If(UsesBias(l, "up"), LaunchBias("up", "up_bias"))
  \o If(UsesBias(l, "gate"), LaunchBias("gate", "gate_bias"))
  \o << LaunchSilu, LaunchLinear("down", "up", "output") >>
  \o If(UsesBias(l, "down"), LaunchBias("output", "down_bias"))
  \o << CopyOut("output") >>

\* forward_cpu of a layer's MLP: norm and activation on the host, the products through matmul_3d.
MlpProducts(l) == << Product(l, "up"), Product(l, "gate"), Product(l, "down") >>

\* The products of an attention layer on the CPU, which are matmul_3d too.
AttentionProducts(l) == << Product(l, "q"), Product(l, "k"), Product(l, "v"), Product(l, "o") >>

\* What forward_logits calls: the layers from the l-th on, then the head.
PassFrom[l \in 1 .. NumLayers + 1] ==
  IF l > NumLayers THEN << Product(NumLayers, "head") >>
  ELSE (IF available /\ attn_enabled[l] THEN <<>> ELSE AttentionProducts(l))
       \o << Mlp(l) >> \o PassFrom[l + 1]
-----------------------------------------------------------------------------
Current == Head(todo)
Step == Head(steps)
Running(kind) == steps # <<>> /\ Step[1] = kind
Advance == steps' = Tail(steps)

Init ==
  /\ available \in BOOLEAN
  /\ attn_enabled \in {[l \in Layers |-> on] : on \in BOOLEAN}
  /\ mlp_enabled = [l \in Layers |-> TRUE]
  /\ rows = 1
  /\ todo = <<>> /\ steps = <<>>
  /\ device = [b \in Buffers |-> NoBuffer]
  /\ recorded = [c \in Caches |-> [host |-> NoTensor, bytes |-> 0]]
  /\ weights = {}
  /\ result = [op |-> NoTensor, value |-> Undefined]
  /\ failures = 0

\* A prefill or decode begins.
BeginPass ==
  /\ todo = <<>>
  /\ rows' \in 1 .. MaxRows
  /\ todo' = PassFrom[1]
  /\ UNCHANGED <<available, attn_enabled, mlp_enabled, steps, device, recorded, weights,
                 result, failures>>

\* A self-attention layer turns to the CPU for good (module SelfAttnCache says when).
AttentionFallsBack(l) ==
  /\ todo = <<>>
  /\ attn_enabled[l]
  /\ attn_enabled' = [attn_enabled EXCEPT ![l] = FALSE]
  /\ UNCHANGED <<available, mlp_enabled, rows, todo, steps, device, recorded, weights,
                 result, failures>>

OnDevice(o) == available /\ (o.op = "mlp" => mlp_enabled[o.layer])

\* The operator is called, takes the mutex of the runtime and makes its device calls.  What
\* earlier operators left in the scratch buffers is of no use to it.
BeginOnDevice ==
  /\ steps = <<>> /\ todo # <<>> /\ OnDevice(Current)
  /\ steps' = IF Current.op = "mlp" THEN MlpSteps(Current.layer)
              ELSE MatmulSteps(Current.layer, Current.role)
  /\ device' = [b \in Buffers |->
                  IF b \in Caches THEN device[b] ELSE [device[b] EXCEPT !.content = Undefined]]
  /\ result' = [op |-> NoTensor, value |-> Undefined]
  /\ UNCHANGED <<available, attn_enabled, mlp_enabled, rows, todo, recorded, weights, failures>>

\* What is left of the pass when the running operator goes on on the CPU.
OnCpuInstead(o) ==
  IF o.op = "mlp" THEN MlpProducts(o.layer) \o Tail(todo) ELSE Tail(todo)

RunOnCpu ==
  /\ steps = <<>> /\ todo # <<>> /\ ~ OnDevice(Current)
  /\ todo' = OnCpuInstead(Current)
  /\ UNCHANGED <<available, attn_enabled, mlp_enabled, rows, steps, device, recorded, weights,
                 result, failures>>
-----------------------------------------------------------------------------
(***************************************************************************)
(* Device calls that succeed.                                              *)
(***************************************************************************)
TooSmall(b) == device[b].bytes < Size(Current, b)

\* reset: the old memory is freed and new memory allocated, with anything in it.
Grown(b) ==
  [bytes |-> NextCapacity(device[b].bytes, Size(Current, b), MinBytes), content |-> Undefined]

EnsureBuffer ==
  /\ Running("ensure")
  /\ LET b == Step[2] IN
       device' = IF TooSmall(b) THEN [device EXCEPT ![b] = Grown(b)] ELSE device
  /\ Advance
  /\ UNCHANGED <<available, attn_enabled, mlp_enabled, rows, todo, recorded, weights, result,
                 failures>>

CopyInput ==
  /\ Running("copy_in")
  /\ device' = [device EXCEPT ![Step[2]].content = Input]
  /\ Advance
  /\ UNCHANGED <<available, attn_enabled, mlp_enabled, rows, todo, recorded, weights, result,
                 failures>>

(* Mutant of NeedsUpload: a tensor of the size of the recorded one is taken to be the same. *)
NeedsUploadOfOtherSize(c) == TooSmall(c) \/ recorded[c].bytes # Size(Current, c)

NeedsUpload(c) ==
  \/ TooSmall(c)
  \/ recorded[c].host # TensorOf(Current, c)
  \/ recorded[c].bytes # Size(Current, c)

\* get_or_upload_tensor, and the first half of maybe_add_bias in matmul.cu.
UploadTensor ==
  /\ Running("upload")
  /\ LET c == Step[2]
         t == TensorOf(Current, c)
     IN IF NeedsUpload(c)
        THEN /\ device' = [device EXCEPT ![c] =
                  [(IF TooSmall(c) THEN Grown(c) ELSE device[c]) EXCEPT !.content = t]]
             /\ recorded' = [recorded EXCEPT ![c] = [host |-> t, bytes |-> Size(Current, c)]]
        ELSE UNCHANGED <<device, recorded>>
  /\ Advance
  /\ UNCHANGED <<available, attn_enabled, mlp_enabled, rows, todo, weights, result, failures>>

\* WeightCache::get_or_upload: a key is entered when its copy is under way.
GetOrUploadWeight ==
  /\ Running("weight")
  /\ weights' = weights \cup {Weight(Current.layer, Step[2])}
  /\ Advance
  /\ UNCHANGED <<available, attn_enabled, mlp_enabled, rows, todo, device, recorded, result,
                 failures>>

\* The buffers a kernel reads and writes, and the term it leaves in the last of them.
Content(b) == device[b].content
Touches(step) ==
  CASE step[1] = "norm"     -> {"input", "norm_weight", "norm_out"}
    [] step[1] = "linear"   -> {step[3], step[4]}
    [] step[1] = "bias"     -> {step[2], step[3]}
    [] step[1] = "silu_mul" -> {"up", "gate"}
    [] OTHER                -> {}
Written(step) ==
  CASE step[1] = "norm"     -> "norm_out"
    [] step[1] = "linear"   -> step[4]
    [] step[1] = "bias"     -> step[2]
    [] step[1] = "silu_mul" -> "up"
Computed(step) ==
  CASE step[1] = "norm"     -> Norm(Content("input"), Content("norm_weight"))
    [] step[1] = "linear"   -> Linear(Weight(Current.layer, step[2]), Content(step[3]))
    [] step[1] = "bias"     -> Plus(Content(step[2]), Content(step[3]))
    [] step[1] = "silu_mul" -> SiluMul(Content("up"), Content("gate"))

LaunchKernel ==
  /\ \E kernel \in {"norm", "linear", "bias", "silu_mul"} : Running(kernel)
  /\ device' = [device EXCEPT ![Written(Step)].content = Computed(Step)]
  /\ Advance
  /\ UNCHANGED <<available, attn_enabled, mlp_enabled, rows, todo, recorded, weights, result,
                 failures>>

\* The result is copied to the host and the stream is waited for.
CopyOutput ==
  /\ Running("copy_out")
  /\ result' = [op |-> <<Current.op, Current.layer, Current.role>>, value |-> Content(Step[2])]
  /\ todo' = Tail(todo)
  /\ Advance
  /\ UNCHANGED <<available, attn_enabled, mlp_enabled, rows, device, recorded, weights, failures>>
-----------------------------------------------------------------------------
(***************************************************************************)
(* Device calls that fail.  The operator throws; MLP::forward turns the    *)
(* layer's MLP to the CPU for good, matmul_3d_impl this one product only.  *)
(***************************************************************************)
Throws ==
  /\ failures < MaxFailures
  /\ failures' = failures + 1
  /\ steps' = <<>>
  /\ todo' = OnCpuInstead(Current)
  /\ mlp_enabled' = IF Current.op = "mlp" THEN [mlp_enabled EXCEPT ![Current.layer] = FALSE]
                    ELSE mlp_enabled
  /\ UNCHANGED <<attn_enabled, rows, recorded, weights, result>>

\* cudaMalloc fails: reset has freed the old memory by then.
AllocationFails ==
  /\ steps # <<>>
  /\ \/ /\ Step[1] \in {"ensure", "upload"} /\ TooSmall(Step[2])
        /\ device' = [device EXCEPT ![Step[2]] = NoBuffer]
     \/ /\ Running("weight") /\ Weight(Current.layer, Step[2]) \notin weights
        /\ UNCHANGED device
  /\ Throws
  /\ UNCHANGED available

\* cudaMemcpyAsync fails: a buffer that was too small has been replaced by then, and what the
\* cache has recorded has not.
CopyFails ==
  /\ steps # <<>>
  /\ \/ /\ Running("upload") /\ NeedsUpload(Step[2])
        /\ device' = IF TooSmall(Step[2]) THEN [device EXCEPT ![Step[2]] = Grown(Step[2])]
                     ELSE device
     \/ /\ Step[1] \in {"copy_in", "copy_out"}
        /\ UNCHANGED device
  /\ Throws
  /\ UNCHANGED available

\* A kernel cannot be launched, or cuBLAS reports an error.
LaunchFails ==
  /\ \E kernel \in {"norm", "linear", "bias", "silu_mul"} : Running(kernel)
  /\ Throws
  /\ UNCHANGED <<available, device>>

\* matmul_3d_cuda_impl turns CUDA off for everybody if cuBLAS has no such product.
ProductNotSupported ==
  /\ Running("linear") /\ Current.op = "product"
  /\ available' = FALSE
  /\ Throws
  /\ UNCHANGED device

CallFails == AllocationFails \/ CopyFails \/ LaunchFails \/ ProductNotSupported

Next ==
  \/ BeginPass
  \/ \E l \in Layers : AttentionFallsBack(l)
  \/ BeginOnDevice \/ RunOnCpu
  \/ EnsureBuffer \/ CopyInput \/ UploadTensor \/ GetOrUploadWeight \/ LaunchKernel \/ CopyOutput
  \/ CallFails

Spec == Init /\ [][Next]_vars
-----------------------------------------------------------------------------
(***************************************************************************)
(* Properties.                                                             *)
(***************************************************************************)

\* What the formula of the model says a product, and an MLP, of a layer is.
Biased(l, r, x) == IF UsesBias(l, r) THEN Plus(x, Bias(l, r)) ELSE x
ProductOf(l, r, x) == Biased(l, r, Linear(Weight(l, r), x))
MlpOf(l) ==
  LET normed == Norm(Input, NormWeight(l))
      hidden == SiluMul(ProductOf(l, "up", normed), ProductOf(l, "gate", normed))
  IN ProductOf(l, "down", hidden)

\* An MLP that ends on the device has computed its own layer's function: although all layers
\* use the same buffers and upload caches (mlp_cuda_state) and any earlier call may have
\* failed halfway, no norm weight and no bias is that of another layer or of nobody.
MlpComputesItsLayer ==
  \A l \in Layers : result.op = <<"mlp", l, "mlp">> => result.value = MlpOf(l)

\* A product that ends on the device has multiplied its own input with its own weight, and
\* what was added to it is not the bias of another product (maybe_add_bias keeps one cache
\* for all of them).
ProductsKeepToTheirTensors ==
  \A l \in Layers, r \in Roles :
    result.op = <<"product", l, r>> =>
      LET product == Linear(Weight(l, r), Input) IN
        result.value \in {ProductOf(l, r, Input)} \cup
                         (IF UsesBias(l, r) THEN {Plus(product, Undefined)} ELSE {})

\* Every kernel and every copy finds its buffers allocated and large enough, also after an
\* allocation failed that had freed the old memory (DeviceBuffer::reset).
LaunchesInBounds ==
  steps # <<>> =>
    \A b \in Touches(Step) \cup (IF Step[1] \in {"copy_in", "copy_out"} THEN {Step[2]} ELSE {}) :
      device[b].bytes >= Size(Current, b)

\* A product that ends on the device has added its own bias.
ProductsAddTheirBias ==
  \A l \in Layers, r \in Roles :
    result.op = <<"product", l, r>> => result.value = ProductOf(l, r, Input)
=============================================================================
