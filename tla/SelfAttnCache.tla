--------------------------- MODULE SelfAttnCache ---------------------------
(***************************************************************************)
(* The attention layers of the model and the K/V rows each of them keeps   *)
(* for the slots, on the host or on the device, under the calls of         *)
(* SlotProtocol.                                                           *)
(*                                                                         *)
(* A forward pass runs through the layers one by one.  Each layer takes    *)
(* the CUDA path while that is enabled; if CUDA fails it falls back to the *)
(* CPU or throws; the CPU path throws when the rows it needs are not on    *)
(* the host.  A layer that decodes a single slot on CUDA replays a         *)
(* captured graph, which holds the addresses of the slot's cache and of    *)
(* the scratch buffers.                                                    *)
(*                                                                         *)
(* Rows are counted, not told apart: a request that is not cleared owns    *)
(* all rows of its slot.  The buffers of the scratch space grow together   *)
(* with the rows of a forward pass and are modelled as one.                *)
(***************************************************************************)
EXTENDS SlotProtocol, DeviceBuffers

CONSTANTS
    NumLayers,      \* config.num_layers
    PromptRows,     \* the lengths a padded batch of prompts may have
    MaxRows,        \* bound: a slot with this many rows is not decoded on
    MinCacheLen,    \* next_capacity_len: the first allocation (8)
    MinScratchRows  \* next_capacity_bytes: the first allocation, in rows

ASSUME CacheAssumption ==
    /\ NumLayers \in Nat \ {0}
    /\ PromptRows \subseteq 1 .. MaxInt
    /\ MaxRows \in 0 .. MaxInt
    /\ MinCacheLen \in 1 .. MaxInt
    /\ MinScratchRows \in Nat \ {0}

VARIABLES
    call,           \* the forward pass: batch, rows per sample, next layer
    history,        \* the rows the calls have given each slot since cleared
    available,      \* CudaContext::available
    cuda_enabled,   \* per layer
    host_rows,      \* per layer and slot: rows of the host tensors
    cache_len,      \* per layer and slot: cache_len_by_sample_
    device,         \* per layer and slot: SampleCache
    scratch,        \* per layer: capacity of the scratch buffers in rows
    graph,          \* per layer: the captured decode graph
    attended,       \* what the last layer that ran attended to, per slot
    failure         \* why the process was terminated

layer_vars == <<available, cuda_enabled, host_rows, cache_len, device, scratch,
                graph, attended>>
vars == <<protocol_vars, call, history, layer_vars, failure>>

Layers == 1 .. NumLayers

NoGraph == [slot |-> -1, capacity |-> 0, scratch_moved |-> FALSE]
NoCache == [len |-> 0, capacity |-> 0]
Undefined == -1

-----------------------------------------------------------------------------
Init ==
    /\ ProtocolInit
    /\ call = [batch |-> <<>>, rows |-> 0, layer |-> NumLayers + 1]
    /\ history = [s \in Slots |-> 0]
    /\ available \in BOOLEAN
    /\ \E enabled \in BOOLEAN : cuda_enabled = [l \in Layers |-> enabled]
    /\ host_rows = [l \in Layers |-> [s \in Slots |-> 0]]
    /\ cache_len = [l \in Layers |-> [s \in Slots |-> 0]]
    /\ device = [l \in Layers |-> [s \in Slots |-> NoCache]]
    /\ scratch = [l \in Layers |-> 0]
    /\ graph = [l \in Layers |-> NoGraph]
    /\ attended = [s \in Slots |-> 0]
    /\ failure = "none"

-----------------------------------------------------------------------------
(* The calls of the server. *)

Idle == call.layer > NumLayers

BeginForward(batch, rows) ==
    /\ call' = [batch |-> batch, rows |-> rows, layer |-> 1]
    /\ history' = [s \in Slots |->
          IF s \in SlotsOf(batch) THEN history[s] + rows ELSE history[s]]
    /\ UNCHANGED <<layer_vars, failure>>

BeginPrefill ==
    \E k \in 1 .. MaxActive, rows \in PromptRows :
        Prefill(k) /\ BeginForward(Popped(k), rows)

BeginDecode == Decode /\ BeginForward(active, 1)

NoForward ==
    /\ NoPrefill \/ NoDecode \/ EndPrefill \/ EndDecode
    /\ Idle
    /\ UNCHANGED <<call, history, layer_vars, failure>>

(* Mutants of ClearSlot: the captured graph survives; so do the rows on the
   device. *)
ClearSlot_KeepsGraph(s) ==
    /\ history' = [history EXCEPT ![s] = 0]
    /\ host_rows' = [l \in Layers |-> [host_rows[l] EXCEPT ![s] = 0]]
    /\ cache_len' = [l \in Layers |-> [cache_len[l] EXCEPT ![s] = 0]]
    /\ device' = [l \in Layers |-> [device[l] EXCEPT ![s] = NoCache]]
    /\ UNCHANGED <<call, available, cuda_enabled, scratch, graph, attended, failure>>
ClearSlot_KeepsDevice(s) ==
    /\ history' = [history EXCEPT ![s] = 0]
    /\ host_rows' = [l \in Layers |-> [host_rows[l] EXCEPT ![s] = 0]]
    /\ cache_len' = [l \in Layers |-> [cache_len[l] EXCEPT ![s] = 0]]
    /\ graph' = [l \in Layers |-> NoGraph]
    /\ UNCHANGED <<call, available, cuda_enabled, device, scratch, attended, failure>>

(* clear_kv_cache in every layer, on both sides. *)
ClearSlot(s) ==
    /\ history' = [history EXCEPT ![s] = 0]
    /\ host_rows' = [l \in Layers |-> [host_rows[l] EXCEPT ![s] = 0]]
    /\ cache_len' = [l \in Layers |-> [cache_len[l] EXCEPT ![s] = 0]]
    /\ device' = [l \in Layers |-> [device[l] EXCEPT ![s] = NoCache]]
    /\ graph' = [l \in Layers |-> NoGraph]
    /\ UNCHANGED <<call, available, cuda_enabled, scratch, attended, failure>>

Settle(slot, finished) ==
    /\ Idle
    /\ finished \/ history[slot] < MaxRows
    /\ IF finished THEN ClearSlot(slot)
                   ELSE UNCHANGED <<call, history, layer_vars, failure>>

SettleRequest ==
    \E finished \in BOOLEAN :
        \/ SettlePrefill(finished) /\ Settle(Head(prepared), finished)
        \/ SettleDecode(finished) /\ Settle(Head(active), finished)

(* run returns: reset_kv_cache in every layer. *)
ResetAll ==
    /\ Idle /\ turn = "admit" /\ active = <<>>
    /\ Stop
    /\ history' = [s \in Slots |-> 0]
    /\ host_rows' = [l \in Layers |-> [s \in Slots |-> 0]]
    /\ cache_len' = [l \in Layers |-> [s \in Slots |-> 0]]
    /\ device' = [l \in Layers |-> [s \in Slots |-> NoCache]]
    /\ graph' = [l \in Layers |-> NoGraph]
    /\ UNCHANGED <<call, available, cuda_enabled, scratch, attended, failure>>

-----------------------------------------------------------------------------
(* One layer of a forward pass. *)

Batch == SlotsOf(call.batch)
InForward == turn # "stopped" /\ call.layer \in Layers
UsesCuda(l) == cuda_enabled[l] /\ available

(* Nothing catches the exception. *)
Throw(reason) == Stop /\ failure' = reason /\ UNCHANGED <<call, history>>

LayerDone ==
    /\ call' = [call EXCEPT !.layer = @ + 1]
    /\ UNCHANGED <<protocol_vars, history, failure>>

ScratchFor(l) == Ensured(scratch[l], Len(call.batch) * call.rows, MinScratchRows)

(* A graph captured before the scratch buffers moved holds their old
   addresses. *)
GraphFor(l) ==
    IF graph[l] = NoGraph \/ ScratchFor(l) = scratch[l] THEN graph[l]
    ELSE [graph[l] EXCEPT !.scratch_moved = TRUE]

Appended(cache) ==
    LET len == cache.len + call.rows
    IN [len |-> len, capacity |-> Ensured(cache.capacity, len, MinCacheLen)]

(* append_kv_cache, as far as the first n samples of the batch. *)
AppendFirst(l, n) ==
    [s \in Slots |->
        IF \E i \in 1 .. n : call.batch[i] = s THEN Appended(device[l][s])
        ELSE device[l][s]]

CacheAfter(l) == AppendFirst(l, Len(call.batch))

(* can_reuse_decode_graph: a slot's buffers move exactly when its capacity
   changes, so the capacity stands for their addresses. *)
CanReuse(l, s) ==
    /\ GraphFor(l).slot = s
    /\ GraphFor(l).capacity = CacheAfter(l)[s].capacity

SingleDecode == call.rows = 1 /\ Len(call.batch) = 1

(* What the prefill path insists on after the rows have been appended. *)
UniformLens(l) ==
    \A s, t \in Batch : CacheAfter(l)[s].len = CacheAfter(l)[t].len

(* The kernels read the device caches; a replayed graph whose scratch buffers
   were freed reads anything. *)
AttendedOnDevice(l, s) ==
    IF SingleDecode /\ CanReuse(l, s) /\ GraphFor(l).scratch_moved THEN Undefined
    ELSE CacheAfter(l)[s].len

CudaForward(l) ==
    /\ InForward /\ l = call.layer
    /\ UsesCuda(l)
    /\ call.rows > 1 => UniformLens(l)
    /\ device' = [device EXCEPT ![l] = CacheAfter(l)]
    /\ cache_len' = [cache_len EXCEPT ![l] = [s \in Slots |->
          IF s \in Batch THEN CacheAfter(l)[s].len ELSE @[s]]]
    /\ host_rows' = [host_rows EXCEPT ![l] = [s \in Slots |->
          IF s \in Batch THEN 0 ELSE @[s]]]
    /\ scratch' = [scratch EXCEPT ![l] = ScratchFor(l)]
    /\ graph' = [graph EXCEPT ![l] =
          IF SingleDecode /\ ~CanReuse(l, call.batch[1])
          THEN [slot |-> call.batch[1], scratch_moved |-> FALSE,
                capacity |-> CacheAfter(l)[call.batch[1]].capacity]
          ELSE GraphFor(l)]
    /\ attended' = [s \in Slots |-> IF s \in Batch THEN AttendedOnDevice(l, s) ELSE 0]
    /\ LayerDone
    /\ UNCHANGED <<available, cuda_enabled>>

(* The device caches a failed forward leaves behind: some of the batch
   appended, and perhaps the buffers of the next one already replaced. *)
CacheAfterFailure(l) ==
    {AppendFirst(l, n) : n \in 0 .. Len(call.batch)}
    \cup {[AppendFirst(l, n) EXCEPT ![call.batch[n + 1]].capacity =
              Appended(device[l][call.batch[n + 1]]).capacity] :
          n \in 0 .. Len(call.batch) - 1}

(* Mutant of HasCudaCache: no sample is searched. *)
HasCudaCache_Never(caches) == FALSE

(* The search forward makes: the samples up to the largest of the batch. *)
HasCudaCache(caches) ==
    \E s \in Slots : caches[s].len > 0 /\ \E t \in Batch : s <= t

(* A CUDA error anywhere in forward_cuda, or its own check on a prefill:
   with rows on the device there is no fallback. *)
CudaFailsWithCache(l) ==
    /\ InForward /\ l = call.layer
    /\ UsesCuda(l)
    /\ \E caches \in CacheAfterFailure(l) :
          /\ HasCudaCache(caches)
          /\ device' = [device EXCEPT ![l] = caches]
          /\ Throw(IF caches = CacheAfter(l) /\ call.rows > 1 /\ ~UniformLens(l)
                   THEN "lens_not_uniform" ELSE "cuda")
    /\ UNCHANGED <<available, cuda_enabled, host_rows, cache_len, scratch, graph,
                   attended>>

(* A slot whose rows are counted but not on the host: concat throws. *)
LostOnHost(l) == {s \in Batch : cache_len[l][s] > 0 /\ host_rows[l][s] = 0}

(* forward_cpu: the rows are appended and all of them attended to. *)
CpuAppends(l) ==
    /\ host_rows' = [host_rows EXCEPT ![l] = [s \in Slots |->
          IF s \notin Batch THEN @[s]
          ELSE IF cache_len[l][s] = 0 THEN call.rows ELSE @[s] + call.rows]]
    /\ cache_len' = [cache_len EXCEPT ![l] = [s \in Slots |->
          IF s \in Batch THEN @[s] + call.rows ELSE @[s]]]
    /\ attended' = [s \in Slots |-> IF s \in Batch THEN host_rows'[l][s] ELSE 0]
    /\ LayerDone

CpuPath(l) ==
    IF LostOnHost(l) = {} THEN CpuAppends(l)
    ELSE Throw("history_lost") /\ UNCHANGED <<host_rows, cache_len, attended>>

CpuForward(l) ==
    /\ InForward /\ l = call.layer
    /\ ~UsesCuda(l)
    /\ CpuPath(l)
    /\ UNCHANGED <<available, cuda_enabled, device, scratch, graph>>

(* CUDA failed and the search found no rows on the device: the layer goes on
   with the CPU, in this forward and from now on. *)
FallBack(l) ==
    /\ InForward /\ l = call.layer
    /\ UsesCuda(l)
    /\ \E caches \in CacheAfterFailure(l) :
          /\ ~HasCudaCache(caches)
          /\ device' = [device EXCEPT ![l] = caches]
    /\ cuda_enabled' = [cuda_enabled EXCEPT ![l] = FALSE]
    /\ \E grown \in {scratch[l], ScratchFor(l)} :
          scratch' = [scratch EXCEPT ![l] = grown]
    /\ CpuPath(l)
    /\ UNCHANGED <<available, graph>>

(* cublasGemmEx does not support a shape in the layer's MLP or in the output
   embedding: the whole runtime is disabled, those operations fall back. *)
RuntimeDisabled ==
    /\ turn # "stopped" /\ call.layer > 1 /\ call.rows > 0
    /\ available
    /\ available' = FALSE
    /\ UNCHANGED <<protocol_vars, call, history, cuda_enabled, host_rows, cache_len,
                   device, scratch, graph, attended, failure>>

Stopped == turn = "stopped" /\ UNCHANGED vars

Next ==
    \/ BeginPrefill \/ BeginDecode \/ NoForward \/ SettleRequest \/ ResetAll
    \/ \E l \in Layers :
          CudaForward(l) \/ CudaFailsWithCache(l) \/ FallBack(l) \/ CpuForward(l)
    \/ RuntimeDisabled
    \/ Stopped

Spec == Init /\ [][Next]_vars

-----------------------------------------------------------------------------
TypeOK ==
    /\ turn \in Turns
    /\ free_slots \in Seq(Slots) /\ prepared \in Seq(Slots)
    /\ active \in Seq(Slots) /\ next_active \in Seq(Slots)
    /\ used \subseteq Slots
    /\ call \in [batch : Seq(Slots), rows : Nat, layer : 1 .. NumLayers + 1]
    /\ history \in [Slots -> Nat]
    /\ available \in BOOLEAN
    /\ cuda_enabled \in [Layers -> BOOLEAN]
    /\ host_rows \in [Layers -> [Slots -> Nat]]
    /\ cache_len \in [Layers -> [Slots -> Nat]]
    /\ device \in [Layers -> [Slots -> [len : Nat, capacity : Nat]]]
    /\ scratch \in [Layers -> Nat]
    /\ graph \in [Layers -> [slot : Slots \cup {-1}, capacity : Nat, scratch_moved : BOOLEAN]]
    /\ attended \in [Slots -> Nat \cup {Undefined}]
    /\ failure \in {"none", "cuda", "lens_not_uniform", "history_lost"}

(* A layer that completes a forward has attended, for every slot of the batch,
   to all rows given to that slot since it was cleared and to no other: neither
   a fallback nor a reused slot nor a replayed graph ever answers from part of
   a history, or from freed memory. *)
AttendsWholeHistory ==
    call.layer > 1 /\ failure = "none" /\ turn \in {"prefilled", "decoded"}
        => \A s \in Batch : history[s] > 0 => attended[s] = history[s]

(* Between two forwards every layer has counted the same rows for a slot, and
   holds them in one place only: the host or the device. *)
HistoryKeptOnce ==
    Idle => \A l \in Layers, s \in Slots :
        /\ cache_len[l][s] = history[s]
        /\ host_rows[l][s] + device[l][s].len = history[s]
        /\ host_rows[l][s] = 0 \/ device[l][s].len = 0

(* The rows of a slot fit its device buffers, and the capacity an int, through
   every growth by doubling. *)
CacheFits ==
    \A l \in Layers, s \in Slots :
        device[l][s].len <= device[l][s].capacity /\ device[l][s].capacity <= MaxInt

(* The prefill path's check that the batch has uniform cache lengths never
   fails: slots are cleared before they are prefilled again, in every layer. *)
PrefillLensUniform == failure # "lens_not_uniform"

=============================================================================
