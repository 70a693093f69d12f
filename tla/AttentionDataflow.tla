------------------------- MODULE AttentionDataflow -------------------------
(***************************************************************************)
(* What one attention layer computes, on the CPU and on CUDA: which rows   *)
(* of K and V, of which head, with which RoPE positions, go into each      *)
(* element of its output.                                                  *)
(*                                                                         *)
(* Both paths split the projections into heads, rotate them, append them   *)
(* to a cache per sample, gather the caches of a batch, whose lengths may  *)
(* differ, attend, and merge the heads.  They keep different layouts: the  *)
(* CPU stores repeated heads, head by head; CUDA stores the K/V heads row  *)
(* by row in buffers with room to grow.  Elements are modelled by where    *)
(* they come from, scores by the elements that are multiplied: arithmetic  *)
(* is left out, every index is kept.                                       *)
(*                                                                         *)
(* One step is one operation of the code on the tensors or buffers of a    *)
(* forward pass.                                                           *)
(***************************************************************************)
EXTENDS Tensors

CONSTANTS
    NumHeads,     \* config.num_heads
    NumHeadsKv,   \* config.num_heads_kv
    HeadDim,      \* head_dim_
    SampleIds,    \* the slots in use
    MaxBatch,     \* bound: samples of one forward pass
    MaxRows,      \* bound: rows a sample may hold
    MinCacheLen   \* next_capacity_len: the first allocation (8)

ASSUME AttentionAssumption ==
    /\ NumHeadsKv \in Nat \ {0}
    /\ NumHeads \in Nat \ {0} /\ NumHeads % NumHeadsKv = 0
    /\ HeadDim \in Nat \ {0} /\ HeadDim % 2 = 0
    /\ SampleIds \subseteq Nat
    /\ MaxBatch \in Nat \ {0} /\ MaxRows \in Nat \ {0}
    /\ MinCacheLen \in Nat \ {0}

VARIABLES
    on_cuda,        \* the path this layer takes
    pc,             \* the operation that comes next
    batch,          \* sample_ids
    seq_len,
    history,        \* per sample: rows its caches are to hold
    pad_lens,       \* pad_lens_by_sample
    q, k, v,        \* the projections, then what becomes of them
    host,           \* per sample: cache_k_by_sample_ and cache_v_by_sample_
    device,         \* per sample: SampleCache
    cache_k, cache_v,   \* the caches of the batch
    scores,
    out             \* context, then attn_output

cache_vars == <<host, device>>
qkv_vars == <<q, k, v>>
view_vars == <<cache_k, cache_v>>
vars == <<on_cuda, pc, batch, seq_len, history, pad_lens, qkv_vars, cache_vars,
          view_vars, scores, out>>

RepeatFactor == NumHeads \div NumHeadsKv
HiddenDim == NumHeads * HeadDim
Rows == Len(batch)

NoDevice == [len |-> 0, capacity |-> 0, k |-> <<>>, v |-> <<>>]

(* What malloc leaves in a device buffer. *)
Unwritten == [bytes |-> "unwritten"]

-----------------------------------------------------------------------------
(* Element c of a projection of row `row` of a sample. *)
Element(name, sample, row, c) ==
    [name |-> name, sample |-> sample, row |-> row, channel |-> c]

(* Elements x1 and x2 of a head rotated by the angle of a position and a
   frequency; half 1 is x1 * cos - x2 * sin, half 2 is x1 * sin + x2 * cos. *)
Rotate(x1, x2, pos, freq, half) ==
    [x1 |-> x1, x2 |-> x2, pos |-> pos, freq |-> freq, half |-> half]

(* The projections of the batch: [batch, seq, width]. *)
Projection(name, width, samples, n) ==
    LET shape == <<Len(samples), n, width>>
    IN Tensor(shape, [index \in Indices(shape) |->
           LET at == Coordinates(shape, index)
               sample == samples[at[1] + 1]
           IN Element(name, sample, history[sample] + at[2], at[3])])

Init ==
    /\ on_cuda \in BOOLEAN
    /\ pc = "idle"
    /\ batch = <<>> /\ seq_len = 0
    /\ history = [s \in SampleIds |-> 0]
    /\ pad_lens = [s \in SampleIds |-> 0]
    /\ q = NoTensor /\ k = NoTensor /\ v = NoTensor
    /\ host = [s \in SampleIds |-> [k |-> NoTensor, v |-> NoTensor]]
    /\ device = [s \in SampleIds |-> NoDevice]
    /\ cache_k = NoTensor /\ cache_v = NoTensor
    /\ scores = NoTensor /\ out = NoTensor

BeginForward(samples, n) ==
    /\ pc = "idle"
    /\ batch' = samples /\ seq_len' = n
    /\ q' = Projection("q", HiddenDim, samples, n)
    /\ k' = Projection("k", NumHeadsKv * HeadDim, samples, n)
    /\ v' = Projection("v", NumHeadsKv * HeadDim, samples, n)
    /\ pc' = "split"
    /\ UNCHANGED <<on_cuda, history, cache_vars, view_vars, scores, out>>

Batches == {samples \in UNION {[1 .. n -> SampleIds] : n \in 1 .. MaxBatch} :
               IsInjective(samples)}

(* A prefill of cleared samples, padded to n rows. *)
BeginPrefill ==
    \E samples \in Batches, n \in 1 .. MaxRows :
        /\ \A i \in DOMAIN samples : history[samples[i]] = 0
        /\ \E pads \in [DOMAIN samples -> 0 .. n - 1] :
              /\ \E i \in DOMAIN samples : pads[i] = 0
              /\ pad_lens' = [s \in SampleIds |->
                    IF \E i \in DOMAIN samples : samples[i] = s
                    THEN pads[CHOOSE i \in DOMAIN samples : samples[i] = s]
                    ELSE pad_lens[s]]
        /\ BeginForward(samples, n)

(* A decode of samples that hold any numbers of rows. *)
BeginDecode ==
    \E samples \in Batches :
        /\ \A i \in DOMAIN samples : history[samples[i]] \in 1 .. MaxRows - 1
        /\ BeginForward(samples, 1)
        /\ UNCHANGED pad_lens

(* clear_kv_cache *)
Clear ==
    \E s \in SampleIds :
        /\ pc = "idle" /\ history[s] > 0
        /\ history' = [history EXCEPT ![s] = 0]
        /\ host' = [host EXCEPT ![s] = [k |-> NoTensor, v |-> NoTensor]]
        /\ device' = [device EXCEPT ![s] = NoDevice]
        /\ UNCHANGED <<on_cuda, pc, batch, seq_len, pad_lens, qkv_vars, view_vars,
                       scores, out>>

Step(label, path, next) ==
    /\ pc = label /\ on_cuda = path
    /\ pc' = next
    /\ UNCHANGED <<on_cuda, batch, seq_len, pad_lens>>

-----------------------------------------------------------------------------
(* Both paths: RoPE on [batch, heads, seq, head_dim].  The offsets are the
   positions of the first rows: -pad_len in a prefill, the tokens a sample has
   in a decode. *)

HalfDim == HeadDim \div 2
Offset(b) == history[batch[b + 1]] - pad_lens[batch[b + 1]]

(* The first of the two elements that are rotated together. *)
Partner(d) == d % HalfDim

Rope(t) ==
    Tensor(t.shape, [index \in Indices(t.shape) |->
        LET at == Coordinates(t.shape, index)
            x1 == index - at[4] + Partner(at[4])
        IN Rotate(t.data[x1], t.data[x1 + HalfDim], Offset(at[1]) + at[3],
                  Partner(at[4]), 1 + at[4] \div HalfDim)])

ApplyRope ==
    /\ \/ Step("rope", FALSE, "expand")
       \/ Step("rope", TRUE, "append")
    /\ q' = Rope(q) /\ k' = Rope(k)
    /\ UNCHANGED <<v, history, cache_vars, view_vars, scores, out>>

-----------------------------------------------------------------------------
(* forward_cpu *)

HeadsFirst(t, heads) == Transpose(SplitHead(t, heads), 1, 2)

CpuSplit ==
    /\ Step("split", FALSE, "rope")
    /\ q' = HeadsFirst(q, NumHeads)
    /\ k' = HeadsFirst(k, NumHeadsKv) /\ v' = HeadsFirst(v, NumHeadsKv)
    /\ UNCHANGED <<history, cache_vars, view_vars, scores, out>>

ExpandKvHeads ==
    /\ Step("expand", FALSE, "append")
    /\ k' = Repeat(k, RepeatFactor, 1) /\ v' = Repeat(v, RepeatFactor, 1)
    /\ UNCHANGED <<q, history, cache_vars, view_vars, scores, out>>

AppendedTo(cache, slice, len) == IF len = 0 THEN slice ELSE Concat(cache, slice, 2)

InBatch(s) == \E i \in 1 .. Rows : batch[i] = s
RowOf(s) == (CHOOSE i \in 1 .. Rows : batch[i] = s) - 1

Advance == history' = [s \in SampleIds |->
                          history[s] + (IF InBatch(s) THEN seq_len ELSE 0)]

(* append_kv_cache *)
CpuAppend ==
    /\ Step("append", FALSE, "view")
    /\ host' = [s \in SampleIds |->
          IF InBatch(s)
          THEN [k |-> AppendedTo(host[s].k, SliceBatch(k, RowOf(s)), history[s]),
                v |-> AppendedTo(host[s].v, SliceBatch(v, RowOf(s)), history[s])]
          ELSE host[s]]
    /\ Advance
    /\ UNCHANGED <<qkv_vars, device, view_vars, scores, out>>

(* build_padded_active_cache takes the lengths from the tensors. *)
ValidLen(b) == host[batch[b + 1]].k.shape[3]
MaxSeqLen == CHOOSE n \in {ValidLen(b) : b \in 0 .. Rows - 1} :
                 \A b \in 0 .. Rows - 1 : ValidLen(b) <= n

PaddedCache(caches) ==
    LET shape == <<Rows, NumHeads, MaxSeqLen, HeadDim>>
        element(at) ==
            LET cache == caches[batch[at[1] + 1]]
            IN IF at[3] < cache.shape[3]
               THEN cache.data[(at[2] * cache.shape[3] + at[3]) * HeadDim + at[4]]
               ELSE Zero
    IN Tensor(shape, [index \in Indices(shape) |-> element(Coordinates(shape, index))])

CpuView ==
    /\ Step("view", FALSE, "transpose")
    /\ cache_k' = PaddedCache([s \in SampleIds |-> host[s].k])
    /\ cache_v' = PaddedCache([s \in SampleIds |-> host[s].v])
    /\ UNCHANGED <<history, qkv_vars, cache_vars, scores, out>>

TransposeKeys ==
    /\ Step("transpose", FALSE, "scores")
    /\ cache_k' = Transpose(cache_k, 2, 3)
    /\ UNCHANGED <<history, qkv_vars, cache_vars, cache_v, scores, out>>

CausalMask(at, total) == seq_len > 1 /\ at[4] > total - seq_len + at[3]
ValidMask(at) == at[4] >= ValidLen(at[1])
PadMask(at) == at[4] < pad_lens[batch[at[1] + 1]]

(* matmul_4d(q, k), then apply_attention_masks.  A score is the pairs of
   elements that are multiplied, a masked one is none. *)
CpuScores ==
    /\ Step("scores", FALSE, "attend")
    /\ LET total == MaxSeqLen
           shape == <<Rows, NumHeads, seq_len, total>>
           head(at) == at[1] * NumHeads + at[2]
           product(at) ==
               {<<q.data[(head(at) * seq_len + at[3]) * HeadDim + d],
                  cache_k.data[head(at) * HeadDim * total + d * total + at[4]]>> :
                   d \in 0 .. HeadDim - 1}
       IN scores' = Tensor(shape, [index \in Indices(shape) |->
              LET at == Coordinates(shape, index)
              IN IF CausalMask(at, total) \/ ValidMask(at) \/ PadMask(at) THEN {}
                 ELSE product(at)])
    /\ UNCHANGED <<history, qkv_vars, cache_vars, view_vars, out>>

(* softmax and matmul_4d(attention, v): an element of the output is the scores
   that are not masked, each with the element of V it weighs.  When all are
   masked the weights are 0. *)
CpuAttend ==
    /\ Step("attend", FALSE, "merge")
    /\ LET total == MaxSeqLen
           shape == <<Rows, NumHeads, seq_len, HeadDim>>
           head(at) == at[1] * NumHeads + at[2]
           score(at, t) == scores.data[(head(at) * seq_len + at[3]) * total + t]
       IN out' = Tensor(shape, [index \in Indices(shape) |->
              LET at == Coordinates(shape, index)
              IN {[score |-> score(at, t),
                   value |-> cache_v.data[(head(at) * total + t) * HeadDim + at[4]]] :
                      t \in {t \in 0 .. total - 1 : score(at, t) # {}}}])
    /\ UNCHANGED <<history, qkv_vars, cache_vars, view_vars, scores>>

CpuMerge ==
    /\ Step("merge", FALSE, "idle")
    /\ LET heads_last == Transpose(out, 1, 2)
       IN out' = Tensor(<<Rows, seq_len, HiddenDim>>, heads_last.data)
    /\ UNCHANGED <<history, qkv_vars, cache_vars, view_vars, scores>>

-----------------------------------------------------------------------------
(* forward_cuda *)

(* split_transpose_kernel *)
SplitKernel(t, heads) ==
    LET shape == <<Rows, heads, seq_len, HeadDim>>
    IN Tensor(shape, [idx \in Indices(shape) |->
           LET d == idx % HeadDim
               s == (idx \div HeadDim) % seq_len
               h == (idx \div (HeadDim * seq_len)) % heads
               b == idx \div (HeadDim * seq_len * heads)
           IN t.data[(b * seq_len + s) * (heads * HeadDim) + (h * HeadDim + d)]])

CudaSplit ==
    /\ Step("split", TRUE, "rope")
    /\ q' = SplitKernel(q, NumHeads)
    /\ k' = SplitKernel(k, NumHeadsKv) /\ v' = SplitKernel(v, NumHeadsKv)
    /\ UNCHANGED <<history, cache_vars, view_vars, scores, out>>

RowElems == NumHeadsKv * HeadDim

Capacity(current, required) ==
    LET doubled[c \in Nat] == IF c >= required THEN c ELSE doubled[2 * c]
    IN doubled[IF current > 0 THEN current
               ELSE IF required > MinCacheLen THEN required ELSE MinCacheLen]

(* A larger buffer, with the rows the old one held. *)
Grown(buffer, old_len, capacity) ==
    [i \in 0 .. capacity * RowElems - 1 |->
        IF i < old_len * RowElems THEN buffer[i] ELSE Unwritten]

(* append_kv_interleaved_kernel: thread idx of sample b copies one element. *)
AppendKernel(buffer, t, b, old_len) ==
    LET elems == seq_len * RowElems
        target(idx) ==
            LET d == idx % HeadDim
                s == (idx \div HeadDim) % seq_len
                h == idx \div (HeadDim * seq_len)
            IN ((old_len + s) * NumHeadsKv + h) * HeadDim + d
        writers == [i \in DOMAIN buffer |-> {idx \in 0 .. elems - 1 : target(idx) = i}]
    IN [i \in DOMAIN buffer |->
           IF writers[i] = {} THEN buffer[i]
           ELSE t.data[b * elems + (CHOOSE idx \in writers[i] : TRUE)]]

(* append_sample_cache *)
AppendSample(cache, b) ==
    LET new_len == cache.len + seq_len
        grows == new_len > cache.capacity
        capacity == IF grows THEN Capacity(cache.capacity, new_len) ELSE cache.capacity
        room(buffer) == IF grows THEN Grown(buffer, cache.len, capacity) ELSE buffer
    IN [len |-> new_len, capacity |-> capacity,
        k |-> AppendKernel(room(cache.k), k, b, cache.len),
        v |-> AppendKernel(room(cache.v), v, b, cache.len)]

CudaAppend ==
    /\ Step("append", TRUE, "view")
    /\ device' = [s \in SampleIds |->
          IF InBatch(s) THEN AppendSample(device[s], RowOf(s)) ELSE device[s]]
    /\ Advance
    /\ UNCHANGED <<qkv_vars, host, view_vars, scores, out>>

ActiveLen(b) == device[batch[b + 1]].len
MaxActiveLen == CHOOSE n \in {ActiveLen(b) : b \in 0 .. Rows - 1} :
                    \A b \in 0 .. Rows - 1 : ActiveLen(b) <= n

(* How many rows apart the samples of the view are, and how many a score may
   have. *)
ViewLen == IF Rows = 1 /\ seq_len = 1 THEN device[batch[1]].capacity ELSE MaxActiveLen

(* prepare_cache_batch_view: the cache itself for one sample, else a copy of
   the caches with zeros behind the shorter ones. *)
BatchView(buffers) ==
    IF Rows = 1 THEN buffers[batch[1]]
    ELSE LET elems == MaxActiveLen * RowElems
         IN [i \in 0 .. Rows * elems - 1 |->
                LET b == i \div elems
                IN IF i % elems < ActiveLen(b) * RowElems
                   THEN buffers[batch[b + 1]][i % elems]
                   ELSE Zero]

CudaView ==
    /\ Step("view", TRUE, "attend")
    /\ cache_k' = BatchView([s \in SampleIds |-> device[s].k])
    /\ cache_v' = BatchView([s \in SampleIds |-> device[s].v])
    /\ UNCHANGED <<history, qkv_vars, cache_vars, scores, out>>

Clamp(n, low, high) == IF n < low THEN low ELSE IF n > high THEN high ELSE n

(* Mutant of KeyLimit: the longest sample sets the limit for all. *)
KeyLimit_Longest(b, s) ==
    IF seq_len = 1 THEN MaxActiveLen ELSE Clamp(ViewLen - seq_len + s + 1, 0, ViewLen)
(* The rows a query may see: resolve_active_len in a decode, the causal limit
   in a prefill. *)
KeyLimit(b, s) ==
    IF seq_len = 1 THEN Clamp(ActiveLen(b), 0, ViewLen)
    ELSE Clamp(ViewLen - seq_len + s + 1, 0, ViewLen)

KvHead(h) == h \div RepeatFactor

(* fused_decode_attention_kernel and fused_prefill_attention_kernel with
   run_online_attention_row. *)
CudaAttend ==
    /\ Step("attend", TRUE, "merge")
    /\ LET shape == <<Rows, NumHeads, seq_len, HeadDim>>
           key_base(b, h, t) == ((b * ViewLen + t) * NumHeadsKv + KvHead(h)) * HeadDim
           pad_len(b, s) == Clamp(pad_lens[batch[b + 1]], 0, KeyLimit(b, s))
           score(q_base, base) ==
               {<<q.data[q_base + d], cache_k[base + d]>> : d \in 0 .. HeadDim - 1}
       IN out' = Tensor(shape, [index \in Indices(shape) |->
              LET at == Coordinates(shape, index)
                  b == at[1] h == at[2] s == at[3]
              IN {[score |-> score(index - at[4], key_base(b, h, t)),
                   value |-> cache_v[key_base(b, h, t) + at[4]]] :
                      t \in pad_len(b, s) .. KeyLimit(b, s) - 1}])
    /\ UNCHANGED <<history, qkv_vars, cache_vars, view_vars, scores>>

(* merge_heads_kernel *)
CudaMerge ==
    /\ Step("merge", TRUE, "idle")
    /\ LET shape == <<Rows, seq_len, HiddenDim>>
       IN out' = Tensor(shape, [idx \in Indices(shape) |->
              LET hidden == idx % HiddenDim
                  d == hidden % HeadDim
                  h == hidden \div HeadDim
                  s == (idx \div HiddenDim) % seq_len
                  b == idx \div (HiddenDim * seq_len)
              IN out.data[((b * NumHeads + h) * seq_len + s) * HeadDim + d]])
    /\ UNCHANGED <<history, qkv_vars, cache_vars, view_vars, scores>>

-----------------------------------------------------------------------------
Next ==
    \/ BeginPrefill \/ BeginDecode \/ Clear
    \/ ApplyRope
    \/ CpuSplit \/ ExpandKvHeads \/ CpuAppend \/ CpuView \/ TransposeKeys
    \/ CpuScores \/ CpuAttend \/ CpuMerge
    \/ CudaSplit \/ CudaAppend \/ CudaView \/ CudaAttend \/ CudaMerge

Spec == Init /\ [][Next]_vars

-----------------------------------------------------------------------------
(* The definition both paths are measured by. *)

Rotated(name, s, row, head, d) ==
    LET first == head * HeadDim + (d % HalfDim)
    IN Rotate(Element(name, s, row, first), Element(name, s, row, first + HalfDim),
              row - pad_lens[s], d % HalfDim, 1 + d \div HalfDim)

(* Row `row` of sample s, output channel c: the query of head h = c / head_dim
   meets the keys of its group from the first row that is not a pad to itself,
   at their positions in the prompt. *)
Attention(s, row, c) ==
    LET h == c \div HeadDim
        group == h \div RepeatFactor
    IN {[score |-> {<<Rotated("q", s, row, h, d), Rotated("k", s, t, group, d)>> :
                       d \in 0 .. HeadDim - 1},
         value |-> Element("v", s, t, group * HeadDim + (c % HeadDim))] :
            t \in pad_lens[s] .. row}

(* Whatever the batch, the lengths of its caches, the pads, the layout and the
   growth of the buffers, every element a layer outputs is the attention of its
   own sample, row and head: nothing of another sample, of a pad, of a later
   row, of the zeros between caches or of unwritten memory. *)
OutputIsAttention ==
    pc = "idle" => \A index \in DOMAIN out.data :
        LET at == Coordinates(out.shape, index)
            s == batch[at[1] + 1]
        IN history[s] > 0 =>
               out.data[index] = Attention(s, history[s] - seq_len + at[2], at[3])

=============================================================================
