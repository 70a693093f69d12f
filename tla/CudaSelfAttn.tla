----------------------------- MODULE CudaSelfAttn -----------------------------
(***************************************************************************)
(* One attention layer on CUDA, buffer by buffer                           *)
(* (src/src/cuda/ops/self_attn.cu, self_attn_detail.cuh,                   *)
(* self_attn_state.cu), under the calls of SlotProtocol.                   *)
(*                                                                         *)
(* Where SelfAttnCache counts rows, this module follows them: a row is     *)
(* <<slot, position>>, the position it was rotated to, and negative ones   *)
(* are pads.  What is attended to depends on buffers that are kept from    *)
(* call to call: the caches of the slots, scratch buffers that move when   *)
(* they grow, a copy of the pad lengths that is uploaded when a checksum   *)
(* says so, and a decode graph that holds addresses.                       *)
(*                                                                         *)
(* A buffer that is replaced is larger than before, so its size stands for *)
(* its address.  A size is in elements.  CUDA does not fail here: what a   *)
(* failure leaves behind is SelfAttnCache's.                               *)
(***************************************************************************)
EXTENDS SlotProtocol, DeviceBuffers

CONSTANTS
  PromptRows,   \* the lengths a padded batch of prompts may have
  MaxRows,      \* bound: a slot with this many rows is not decoded on
  Hidden,       \* elements of a row of queries and of outputs
  Kv,           \* elements of a row of keys, or values
  MinBytes,     \* the first size of a buffer (4096 bytes)
  MinCacheLen   \* the first capacity of a slot's cache in rows (8)

ASSUME CudaSelfAttnAssumption ==
  /\ PromptRows \subseteq Nat \ {0}
  /\ MaxRows \in Nat
  /\ {Hidden, Kv, MinBytes, MinCacheLen} \subseteq Nat \ {0}

VARIABLES
  pads,            \* pad_lens_by_slot_, which the layer gets with set_pad_lens
  pos_len,         \* by slot: the rows of its request, without pads
  call,            \* the forward pass: batch, rows per sample, offsets
  step,            \* the step of the forward pass that comes next
  samples,         \* by slot: SampleCache, its rows and capacity
  scratch,         \* by name: the scratch buffers, their size and content
  pads_on_device,  \* pad_lens_cache: the vector it holds (and the checksum of)
  graph,           \* decode_graph: slot, capacity, and addresses of scratch buffers
  result           \* << what the forward pass returned >>, or <<>> again later

device_vars == <<samples, scratch, pads_on_device, graph>>
vars == <<protocol_vars, pads, pos_len, call, step, device_vars, result>>
-----------------------------------------------------------------------------
Undefined == <<>>
Zero == <<"zero">>
NoResult == <<>>
NoSample == [rows |-> <<>>, capacity |-> 0]
NoGraph == [slot |-> -1]

Batch == Len(call.batch)
Indices == 1 .. Batch
Decoding == call.rows = 1       \* seq_len == 1 takes the decode path, be it a prompt
SingleDecode == Decoding /\ Batch = 1
Len_(i) == Len(samples[call.batch[i]].rows)
TotalLen == CHOOSE n \in {Len_(i) : i \in Indices} : \A i \in Indices : Len_(i) <= n

\* The scratch buffers (k and v are treated alike) and the elements a call needs of them.
Scratch == {"q", "kv", "offsets", "cache_batch", "sample_ids", "active_len", "context",
            "merged", "output"}
Needed(b) ==
  CASE b \in {"q", "context", "merged", "output"}     -> Batch * call.rows * Hidden
    [] b = "kv"                                       -> Batch * call.rows * Kv
    [] b \in {"offsets", "sample_ids", "active_len"}  -> Batch
    [] b = "cache_batch"                              -> Batch * TotalLen * Kv

\* ensure_device_buffer, then a copy or a kernel that fills what the call uses of it.
Filled(b, content) ==
  [size |-> Ensured(scratch[b].size, Needed(b), MinBytes), content |-> content]
Content(b) == scratch[b].content

Init ==
  /\ ProtocolInit
  /\ pads = [s \in Slots |-> 0]
  /\ pos_len = [s \in Slots |-> 0]
  /\ call = [batch |-> <<>>, rows |-> 0, offsets |-> <<>>]
  /\ step = "idle"
  /\ samples = [s \in Slots |-> NoSample]
  /\ scratch = [b \in Scratch |-> [size |-> 0, content |-> Undefined]]
  /\ pads_on_device = Undefined
  /\ graph = NoGraph
  /\ result = NoResult
-----------------------------------------------------------------------------
(***************************************************************************)
(* The calls of the server.                                                *)
(***************************************************************************)

\* Prompts are padded to the longest of their batch.
PadLen(lens, i) == (CHOOSE n \in SlotsOf(lens) : \A m \in SlotsOf(lens) : m <= n) - lens[i]

IndexIn(batch, s) == CHOOSE i \in DOMAIN batch : batch[i] = s

BeginPrefill ==
  \E k \in 1 .. MaxActive : \E lens \in [1 .. k -> PromptRows] :
    LET batch == Popped(k)
        pad == [i \in 1 .. k |-> PadLen(lens, i)]
        of(s) == IndexIn(batch, s)
    IN /\ Prefill(k)
       /\ call' = [batch |-> batch, rows |-> lens[1] + pad[1], offsets |-> [i \in 1 .. k |-> -pad[i]]]
       /\ pads' = [s \in Slots |-> IF s \in SlotsOf(batch) THEN pad[of(s)] ELSE pads[s]]
       /\ pos_len' = [s \in Slots |-> IF s \in SlotsOf(batch) THEN lens[of(s)] ELSE pos_len[s]]
       /\ step' = "qkv"
       /\ result' = NoResult
       /\ UNCHANGED device_vars

BeginDecode ==
  /\ Decode
  /\ call' = [batch |-> active, rows |-> 1, offsets |-> [i \in DOMAIN active |-> pos_len[active[i]]]]
  /\ pos_len' = [s \in Slots |-> IF s \in SlotsOf(active) THEN pos_len[s] + 1 ELSE pos_len[s]]
  /\ step' = "qkv"
  /\ result' = NoResult
  /\ UNCHANGED <<pads, device_vars>>

NoForward ==
  /\ step = "idle"
  /\ NoPrefill \/ NoDecode \/ EndPrefill \/ EndDecode
  /\ UNCHANGED <<pads, pos_len, call, step, device_vars, result>>

(* Mutant of ClearedGraph: only the graph of the slot that is cleared is dropped. *)
ClearedGraphOfSlot(s) == IF graph.slot = s THEN NoGraph ELSE graph

\* A slot that is cleared takes the graph with it, whosever it is.
ClearedGraph(s) == NoGraph

\* clear_kv_cache and the reset of the slot's pad length.
ClearSlot(s) ==
  /\ samples' = [samples EXCEPT ![s] = NoSample]
  /\ graph' = ClearedGraph(s)
  /\ pads' = [pads EXCEPT ![s] = 0]
  /\ pos_len' = [pos_len EXCEPT ![s] = 0]
  /\ UNCHANGED <<scratch, pads_on_device>>

Settle(s, finished) ==
  /\ step = "idle"
  /\ finished \/ pos_len[s] < MaxRows
  /\ IF finished THEN ClearSlot(s) ELSE UNCHANGED <<pads, pos_len, device_vars>>
  /\ result' = NoResult
  /\ UNCHANGED <<call, step>>

SettleRequest ==
  \E finished \in BOOLEAN :
    \/ SettlePrefill(finished) /\ Settle(Head(prepared), finished)
    \/ SettleDecode(finished) /\ Settle(Head(active), finished)
-----------------------------------------------------------------------------
(***************************************************************************)
(* The steps of a forward pass (self_attn_forward_cuda).                   *)
(***************************************************************************)

\* Row j of sample i after the rotation by its uploaded offset.
Rotated(offsets, i, j) == <<call.batch[i], offsets[i] + j - 1>>

\* prepare_decode_qkv and prepare_prefill_qkv: projections, upload of the offsets, rotation.
PrepareQkv ==
  /\ step = "qkv"
  /\ LET rows == [i \in Indices |-> [j \in 1 .. call.rows |-> Rotated(call.offsets, i, j)]] IN
       scratch' = [scratch EXCEPT !["offsets"] = Filled("offsets", call.offsets),
                                  !["q"] = Filled("q", rows), !["kv"] = Filled("kv", rows)]
  /\ step' = "append"
  /\ UNCHANGED <<protocol_vars, pads, pos_len, call, samples, pads_on_device, graph, result>>

\* append_sample_cache; the cache moves when its capacity grows.
Appended(sample, new) ==
  [rows |-> sample.rows \o new,
   capacity |-> Ensured(sample.capacity, Len(sample.rows) + Len(new), MinCacheLen)]

AppendKvCache ==
  /\ step = "append"
  /\ samples' = [s \in Slots |->
       IF s \in SlotsOf(call.batch)
       THEN Appended(samples[s], Content("kv")[IndexIn(call.batch, s)])
       ELSE samples[s]]
  /\ step' = "prepare"
  /\ UNCHANGED <<protocol_vars, pads, pos_len, call, scratch, pads_on_device, graph, result>>

\* prepare_cache_batch_view: one sample is read in its cache, several are copied side by side
\* with zeros behind the shorter ones.
ViewLen ==
  IF ~ SingleDecode THEN TotalLen ELSE samples[call.batch[1]].capacity
BatchView == [i \in Indices |-> [t \in 1 .. TotalLen |->
                IF t <= Len_(i) THEN samples[call.batch[i]].rows[t] ELSE Zero]]

(* Mutant of UploadedPads: uploaded once. *)
UploadedPadsOnce == IF pads_on_device = Undefined THEN pads ELSE pads_on_device

\* get_or_upload_int_vector: the vector is uploaded when its checksum is another (a function
\* of its values, here the values themselves); its address and length are always the same.
UploadedPads == pads

\* The rest of prepare_decode_attention_resources, and of run_prefill_path up to the kernel.
PrepareAttention ==
  /\ step = "prepare"
  /\ LET view == IF Batch = 1 THEN scratch["cache_batch"] ELSE Filled("cache_batch", BatchView)
         lens == IF Decoding THEN Filled("active_len", [i \in Indices |-> Len_(i)])
                 ELSE scratch["active_len"]
     IN scratch' = [scratch EXCEPT !["cache_batch"] = view, !["active_len"] = lens,
                      !["sample_ids"] = Filled("sample_ids", call.batch),
                      !["context"] = Filled("context", Undefined)]
  /\ pads_on_device' = UploadedPads
  /\ step' = "attend"
  /\ UNCHANGED <<protocol_vars, pads, pos_len, call, samples, graph, result>>

\* Row t of sample i as the kernels find it.
ViewRow(i, t) ==
  IF Batch > 1 THEN Content("cache_batch")[i][t]
  ELSE IF t <= Len_(i) THEN samples[call.batch[i]].rows[t] ELSE Undefined

Clamp(n, max) == IF n < 0 THEN 0 ELSE IF n > max THEN max ELSE n

\* The keys query j of sample i may see: up to the key limit, without the pads.
KeyLimit(i, j) ==
  IF Decoding THEN Clamp(Content("active_len")[i], ViewLen)
  ELSE Clamp(TotalLen - call.rows + j, TotalLen)
PadRows(i, j) == Clamp(pads_on_device[Content("sample_ids")[i]], KeyLimit(i, j))

\* What the fused kernels compute for a row: the query and the keys it met, in order.
Context ==
  [i \in Indices |-> [j \in 1 .. call.rows |->
     [query |-> Content("q")[i][j],
      keys |-> [t \in 1 .. KeyLimit(i, j) - PadRows(i, j) |-> ViewRow(i, PadRows(i, j) + t)]]]]

\* launch_decode_attention_pipeline, or the kernel of the prefill, and the output projection.
AfterPipeline ==
  [scratch EXCEPT !["context"].content = Context, !["merged"] = Filled("merged", Context),
                  !["output"] = Filled("output", Context)]

\* The scratch buffers whose addresses are part of a captured graph.  Those of the caches and
\* of the pads are compared before it is reused.
GraphBuffers == {"q", "sample_ids", "active_len", "context", "merged", "output"}
Addresses(buffers) == [b \in GraphBuffers |-> buffers[b].size]

(* Mutant of CanReuse: the address of the slot's cache is not compared. *)
CanReuseMoved == graph.slot = call.batch[1]

\* can_reuse_decode_graph.
CanReuse == graph.slot = call.batch[1] /\ graph.capacity = ViewLen

LaunchAttention ==
  /\ step = "attend"
  /\ ~ (SingleDecode /\ CanReuse)
  /\ scratch' = AfterPipeline
  /\ graph' = IF ~ SingleDecode THEN graph
              ELSE [slot |-> call.batch[1], capacity |-> ViewLen,
                    addresses |-> Addresses(AfterPipeline)]
  /\ step' = "copy"
  /\ UNCHANGED <<protocol_vars, pads, pos_len, call, samples, pads_on_device, result>>

\* A replayed graph allocates nothing and knows the addresses of its capture only: with one of
\* them out of date it reads or writes freed memory.
ReplayGraph ==
  /\ step = "attend"
  /\ SingleDecode /\ CanReuse
  /\ scratch' = IF graph.addresses = Addresses(scratch) /\ graph.capacity = ViewLen
                THEN AfterPipeline ELSE scratch
  /\ step' = "copy"
  /\ UNCHANGED <<protocol_vars, pads, pos_len, call, samples, pads_on_device, graph, result>>

\* copy_output_to_host.  What the scratch buffers hold now must not matter again, and is
\* forgotten so that it shows if it does.
CopyOutput ==
  /\ step = "copy"
  /\ result' = << Content("output") >>
  /\ scratch' = [b \in Scratch |-> [scratch[b] EXCEPT !.content = Undefined]]
  /\ step' = "idle"
  /\ UNCHANGED <<protocol_vars, pads, pos_len, call, samples, pads_on_device, graph>>

\* run returns: every slot is free, and reset_kv_cache forgets the caches and the graph.
ResetAll ==
  /\ step = "idle" /\ turn = "admit" /\ active = <<>>
  /\ Stop
  /\ samples' = [s \in Slots |-> NoSample]
  /\ graph' = NoGraph
  /\ UNCHANGED <<pads, pos_len, call, step, scratch, pads_on_device, result>>

Stopped == turn = "stopped" /\ UNCHANGED vars

Forward ==
  \/ PrepareQkv \/ AppendKvCache \/ PrepareAttention
  \/ LaunchAttention \/ ReplayGraph \/ CopyOutput

Next ==
  \/ BeginPrefill \/ BeginDecode \/ NoForward \/ SettleRequest
  \/ Forward
  \/ ResetAll \/ Stopped

Spec == Init /\ [][Next]_vars
-----------------------------------------------------------------------------
(***************************************************************************)
(* Properties.                                                             *)
(***************************************************************************)

\* A forward pass returns, for every token of every request in its batch, that token's query
\* after it has met the keys of its own request from the first to its own position, each once,
\* and no pad and no row of the slot's former owner; so the positions given by the server, the
\* pad lengths on the device, the caches and the replayed graph all belong to this call.
OutputOfThisCall ==
  result # NoResult =>
    /\ result[1] # Undefined
    /\ \A i \in Indices, j \in 1 .. call.rows :
         LET s == call.batch[i]
             p == pos_len[s] - call.rows + j - 1
         IN p >= 0 => result[1][i][j] =
              [query |-> <<s, p>>, keys |-> [n \in 1 .. p + 1 |-> <<s, n - 1>>]]

\* A graph that is about to be replayed holds no address of a buffer that has moved since,
\* although its signature leaves six of them out (can_reuse_decode_graph): whatever made the
\* buffers grow was a request that has been cleared by then, and the graph with it.
ReplaysLiveAddresses ==
  step = "attend" /\ SingleDecode /\ CanReuse => graph.addresses = Addresses(scratch)
=============================================================================
