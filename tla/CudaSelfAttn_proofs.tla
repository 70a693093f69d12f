------------------------ MODULE CudaSelfAttn_proofs ------------------------
(***************************************************************************)
(* Proofs about CudaSelfAttn for every number of slots, every size of a    *)
(* row and every length of prompts: what the kernels compute from the      *)
(* buffers that are kept from call to call is the attention of this call.  *)
(***************************************************************************)
EXTENDS CudaSelfAttn, SharedParts_proofs

BatchSlots == SlotsOf(call.batch)

(* n rows of a slot on the device, the pads first; and how many it has. *)
RowsOf(s, n) == [t \in 1 .. n |-> <<s, t - 1 - pads[s]>>]
Held(s) ==
    IF s \in BatchSlots /\ step \in {"qkv", "append"}
    THEN pads[s] + pos_len[s] - call.rows
    ELSE pads[s] + pos_len[s]

(* The rows of the call, rotated to their positions in their requests. *)
QueryRows ==
    [i \in Indices |-> [j \in 1 .. call.rows |->
        <<call.batch[i], pos_len[call.batch[i]] - call.rows + j - 1>>]]

(* What OutputOfThisCall asks of an output. *)
RightFor(out, batch, rows, positions) ==
    \A i \in 1 .. Len(batch), j \in 1 .. rows :
        LET s == batch[i]
            p == positions[s] - rows + j - 1
        IN p >= 0 => out[i][j] =
             [query |-> <<s, p>>, keys |-> [n \in 1 .. p + 1 |-> <<s, n - 1>>]]

RightOutput(out) == RightFor(out, call.batch, call.rows, pos_len)

ForwardSteps == {"qkv", "append", "prepare", "attend", "copy"}

TypeInv ==
    /\ pads \in [Slots -> Nat] /\ pos_len \in [Slots -> Nat]
    /\ call.batch \in Seq(Slots) /\ call.rows \in Nat
    /\ step \in ForwardSteps \cup {"idle"}
    /\ samples \in [Slots -> [rows : Seq(Slots \X Int), capacity : Nat]]
    /\ DOMAIN scratch = Scratch
    /\ \A b \in Scratch : /\ scratch[b].size \in Nat
                          /\ scratch[b] = [size |-> scratch[b].size,
                                           content |-> scratch[b].content]

(* The forward pass in progress is the one the server's turn says. *)
CallInv ==
    /\ turn \in {"admit", "decode", "stopped"} => step = "idle"
    /\ step # "idle" =>
          /\ call.batch # <<>> /\ Once(call.batch) /\ call.rows >= 1
          /\ \A i \in Indices : call.offsets[i] = pos_len[call.batch[i]] - call.rows
          /\ turn = "prefilled" =>
                /\ BatchSlots = SlotsOf(prepared)
                /\ \A s \in BatchSlots : pads[s] + pos_len[s] = call.rows
          /\ turn = "decoded" =>
                /\ BatchSlots = SlotsOf(active) /\ next_active = <<>> /\ call.rows = 1
                /\ \A s \in BatchSlots : pos_len[s] >= 1

(* A slot's cache holds its request and fits; a free slot has nothing. *)
SamplesInv ==
    \A s \in Slots :
        /\ samples[s].rows = RowsOf(s, Held(s))
        /\ Held(s) <= samples[s].capacity
        /\ s \notin used => pads[s] = 0 /\ pos_len[s] = 0

(* What the scratch buffers hold at each step, and that it fits. *)
ContentInv ==
    /\ step \in {"append", "prepare", "attend"} => Content("q") = QueryRows
    /\ step = "append" => Content("kv") = QueryRows
    /\ step = "attend" =>
          /\ Batch > 1 => Content("cache_batch") = BatchView
          /\ Decoding => Content("active_len") = [i \in Indices |-> Len_(i)]
          /\ Content("sample_ids") = call.batch
          /\ pads_on_device = pads
    /\ step = "copy" => Content("output") # Undefined /\ RightOutput(Content("output"))
    /\ result # NoResult => step = "idle" /\ result[1] # Undefined /\ RightOutput(result[1])

SizesInv ==
    /\ step \in {"append", "prepare", "attend"} => scratch["q"].size >= Needed("q")
    /\ step = "attend" =>
          /\ scratch["sample_ids"].size >= Needed("sample_ids")
          /\ scratch["context"].size >= Needed("context")
          /\ Decoding => scratch["active_len"].size >= Needed("active_len")

(* A captured graph is of a slot in use, and its buffers are where they were
   unless another slot is in use too. *)
SingleNeeds(b) == IF b \in {"sample_ids", "active_len"} THEN 1 ELSE Hidden

GraphInv ==
    graph.slot # -1 =>
        /\ graph.slot \in used
        /\ \A b \in GraphBuffers : scratch[b].size >= SingleNeeds(b)
        /\ graph.addresses = Addresses(scratch) \/ \E s \in used : s # graph.slot
        /\ turn = "prefilled" /\ step \in {"qkv", "append", "prepare", "attend"}
              => graph.slot \notin BatchSlots

LayerInv ==
    ProtocolInv /\ TypeInv /\ CallInv /\ SamplesInv /\ ContentInv /\ SizesInv /\ GraphInv

-----------------------------------------------------------------------------
(* A finite sequence of numbers has a largest one. *)
LEMMA LargestOf ==
    ASSUME NEW n \in Nat \ {0}, NEW f, \A i \in 1 .. n : f[i] \in Int
    PROVE  \E i \in 1 .. n : \A j \in 1 .. n : f[j] <= f[i]
<1> DEFINE Bad == {m \in Nat : m \in 1 .. n /\ ~\E i \in 1 .. m : \A j \in 1 .. m : f[j] <= f[i]}
<1>1. ASSUME Bad # {} PROVE FALSE
  <2>1. PICK m \in Bad : \A e \in Bad : m <= e
    BY <1>1, LeastElement
  <2>2. m \in 1 .. n /\ ~\E i \in 1 .. m : \A j \in 1 .. m : f[j] <= f[i]
    BY <2>1
  <2>3. m # 1
    BY <2>2
  <2>4. m - 1 \in 1 .. n /\ m - 1 \notin Bad /\ m - 1 \in Nat
    <3> HIDE DEF Bad
    <3> QED
      BY <2>1, <2>2, <2>3
  <2>5. PICK i \in 1 .. m - 1 : \A j \in 1 .. m - 1 : f[j] <= f[i]
    BY <2>4
  <2>6. CASE f[m] <= f[i]
    <3>1. i \in 1 .. m /\ \A j \in 1 .. m : f[j] <= f[i]
      BY <2>2, <2>5, <2>6
    <3> QED
      BY <2>2, <3>1
  <2>7. CASE ~(f[m] <= f[i])
    <3>1. \A j \in 1 .. m : f[j] <= f[m]
      BY <2>2, <2>5, <2>7
    <3> QED
      BY <2>2, <3>1
  <2> QED
    BY <2>6, <2>7
<1>2. n \notin Bad /\ n \in Nat /\ n \in 1 .. n
  <2> HIDE DEF Bad
  <2> QED
    BY <1>1
<1> QED
  BY <1>2

LEMMA PadsToLongest ==
    ASSUME NEW k \in Nat \ {0}, NEW lens \in [1 .. k -> PromptRows]
    PROVE  \E m \in Nat \ {0} :
             \A i \in 1 .. k : lens[i] <= m /\ lens[i] \in Nat \ {0} /\ PadLen(lens, i) = m - lens[i]
<1>1. \A i \in 1 .. k : lens[i] \in Nat \ {0}
  BY CudaSelfAttnAssumption
<1>2. \E i \in 1 .. k : \A j \in 1 .. k : lens[j] <= lens[i]
  <2>1. \A i \in 1 .. k : lens[i] \in Int
    BY <1>1
  <2> QED
    BY <2>1, LargestOf
<1> DEFINE m == CHOOSE n \in SlotsOf(lens) : \A l \in SlotsOf(lens) : l <= n
<1>3. \E n \in SlotsOf(lens) : \A l \in SlotsOf(lens) : l <= n
  BY <1>2 DEF SlotsOf
<1>4. m \in SlotsOf(lens) /\ \A l \in SlotsOf(lens) : l <= m
  BY <1>3
<1>5. \A i \in 1 .. k : lens[i] \in SlotsOf(lens)
  BY DEF SlotsOf
<1>6. m \in Nat \ {0}
  BY <1>1, <1>4 DEF SlotsOf
<1>7. \A i \in 1 .. k : PadLen(lens, i) = m - lens[i]
  BY DEF PadLen
<1> QED
  BY <1>1, <1>4, <1>5, <1>6, <1>7

LEMMA IndexOfSlot ==
    ASSUME NEW batch \in Seq(Slots), Once(batch), NEW i \in 1 .. Len(batch)
    PROVE  IndexIn(batch, batch[i]) = i
  BY DEF IndexIn, Once

LEMMA SlotAtIndex ==
    ASSUME NEW batch \in Seq(Slots), NEW s \in SlotsOf(batch)
    PROVE  IndexIn(batch, s) \in 1 .. Len(batch) /\ batch[IndexIn(batch, s)] = s
  BY DEF IndexIn, SlotsOf

-----------------------------------------------------------------------------
LEMMA InitLayerInv == Init => LayerInv
<1> SUFFICES ASSUME Init PROVE LayerInv
  OBVIOUS
<1>1. /\ ProtocolInv /\ turn = "admit" /\ used = {}
  BY InitProtocolInv DEF Init, ProtocolInit
<1>2. /\ pads = [s \in Slots |-> 0] /\ pos_len = [s \in Slots |-> 0]
      /\ call = [batch |-> <<>>, rows |-> 0, offsets |-> <<>>]
      /\ step = "idle" /\ samples = [s \in Slots |-> NoSample]
      /\ scratch = [b \in Scratch |-> [size |-> 0, content |-> Undefined]]
      /\ graph = NoGraph /\ result = NoResult
  BY DEF Init
<1>3. TypeInv
  <2>1. <<>> \in Seq(Slots \X Int)
    OBVIOUS
  <2> QED
    BY <1>2, <2>1, NoSlots DEF TypeInv, NoSample
<1>4. CallInv
  BY <1>2 DEF CallInv
<1>5. SamplesInv
  <2> SUFFICES ASSUME NEW s \in Slots
               PROVE  samples[s].rows = RowsOf(s, Held(s)) /\ Held(s) = 0
                      /\ samples[s].capacity = 0 /\ pads[s] = 0 /\ pos_len[s] = 0
    BY DEF SamplesInv
  <2>1. Held(s) = 0 /\ pads[s] = 0 /\ pos_len[s] = 0
    BY <1>2 DEF Held
  <2>2. RowsOf(s, 0) = <<>>
    BY DEF RowsOf
  <2> QED
    BY <1>2, <2>1, <2>2 DEF NoSample
<1>6. ContentInv /\ SizesInv /\ GraphInv
  BY <1>2 DEF ContentInv, SizesInv, GraphInv, NoGraph
<1> QED
  BY <1>1, <1>3, <1>4, <1>5, <1>6 DEF LayerInv

(* A forward pass begins.  Its slots have what is before it, and their rows are
   those of the call and what the calls before have left. *)
LEMMA BeginForwardInv ==
    ASSUME LayerInv, ProtocolInv', step = "idle", step' = "qkv", result' = NoResult,
           UNCHANGED device_vars, turn' \in {"prefilled", "decoded"},
           pads' \in [Slots -> Nat], pos_len' \in [Slots -> Nat],
           call'.batch \in Seq(Slots), call'.rows \in Nat \ {0}, call'.batch # <<>>,
           Once(call'.batch), used \subseteq used', SlotsOf(call'.batch) \subseteq used',
           \A i \in 1 .. Len(call'.batch) :
              call'.offsets[i] = pos_len'[call'.batch[i]] - call'.rows,
           \A s \in SlotsOf(call'.batch) :
              pads'[s] + pos_len'[s] - call'.rows = pads[s] + pos_len[s]
              /\ (pads'[s] = pads[s] \/ pads[s] + pos_len[s] = 0),
           \A s \in Slots \ SlotsOf(call'.batch) :
              pads'[s] = pads[s] /\ pos_len'[s] = pos_len[s],
           turn' = "prefilled" =>
              /\ SlotsOf(call'.batch) = SlotsOf(prepared')
              /\ SlotsOf(call'.batch) \cap used = {}
              /\ \A s \in SlotsOf(call'.batch) : pads'[s] + pos_len'[s] = call'.rows,
           turn' = "decoded" =>
              /\ SlotsOf(call'.batch) = SlotsOf(active') /\ next_active' = <<>>
              /\ call'.rows = 1 /\ \A s \in SlotsOf(call'.batch) : pos_len'[s] >= 1
    PROVE  LayerInv'
<1>1. /\ TypeInv /\ SamplesInv /\ GraphInv
      /\ samples' = samples /\ scratch' = scratch /\ graph' = graph
      /\ BatchSlots' = SlotsOf(call'.batch)
  BY DEF LayerInv, device_vars, BatchSlots
<1>2. TypeInv'
  BY <1>1 DEF TypeInv, ForwardSteps
<1>3. CallInv'
  BY <1>1 DEF CallInv, Indices, Batch, BatchSlots
<1>4. SamplesInv'
  <2> SUFFICES ASSUME NEW s \in Slots
               PROVE  /\ samples[s].rows = RowsOf(s, Held(s))'
                      /\ Held(s)' <= samples[s].capacity
                      /\ s \notin used' => pads'[s] = 0 /\ pos_len'[s] = 0
    BY <1>1 DEF SamplesInv
  <2>1. /\ samples[s].rows = RowsOf(s, Held(s)) /\ Held(s) <= samples[s].capacity
        /\ Held(s) = pads[s] + pos_len[s]
        /\ s \notin used => pads[s] = 0 /\ pos_len[s] = 0
    BY <1>1 DEF SamplesInv, Held
  <2>2. Held(s)' = IF s \in SlotsOf(call'.batch) THEN pads'[s] + pos_len'[s] - call'.rows
                   ELSE pads'[s] + pos_len'[s]
    BY <1>1 DEF Held
  <2>3. Held(s)' = Held(s)
    BY <2>1, <2>2
  <2>4. RowsOf(s, Held(s))' = RowsOf(s, Held(s))
    <3>1. RowsOf(s, Held(s))' = [t \in 1 .. Held(s)' |-> <<s, t - 1 - pads'[s]>>]
      BY DEF RowsOf
    <3>2. CASE pads'[s] = pads[s]
      BY <2>3, <3>1, <3>2 DEF RowsOf
    <3>3. CASE pads'[s] # pads[s]
      <4>1. Held(s) = 0
        BY <2>1, <3>3
      <4>2. RowsOf(s, Held(s)) = <<>> /\ RowsOf(s, Held(s))' = <<>>
        BY <2>3, <3>1, <4>1 DEF RowsOf
      <4> QED
        BY <4>2
    <3> QED
      BY <3>2, <3>3
  <2> QED
    BY <2>1, <2>3, <2>4
<1>5. ContentInv' /\ SizesInv'
  BY <1>1 DEF ContentInv, SizesInv
<1>6. GraphInv'
  <2>1. Addresses(scratch)' = Addresses(scratch)
    BY <1>1 DEF Addresses
  <2> QED
    BY <1>1, <2>1 DEF GraphInv
<1> QED
  BY <1>2, <1>3, <1>4, <1>5, <1>6 DEF LayerInv

LEMMA BeginDecodeInv ==
    ASSUME LayerInv, ProtocolInv', BeginDecode PROVE LayerInv'
<1>1. /\ turn = "decode" /\ turn' = "decoded" /\ active # <<>>
      /\ active' = active /\ next_active' = next_active /\ used' = used
      /\ call' = [batch |-> active, rows |-> 1,
                  offsets |-> [i \in DOMAIN active |-> pos_len[active[i]]]]
      /\ pos_len' = [s \in Slots |-> IF s \in SlotsOf(active) THEN pos_len[s] + 1
                                     ELSE pos_len[s]]
      /\ step' = "qkv" /\ result' = NoResult /\ pads' = pads /\ UNCHANGED device_vars
  BY DEF BeginDecode, Decode
<1>2. /\ step = "idle" /\ next_active = <<>> /\ active \in Seq(Slots) /\ Once(active)
      /\ SlotsOf(active) \subseteq used
      /\ pads \in [Slots -> Nat] /\ pos_len \in [Slots -> Nat]
  BY <1>1 DEF LayerInv, CallInv, TypeInv, ProtocolInv, ListsTyped, ListsApart, UsedListed,
     PhaseLists
<1>3. /\ SlotsOf(active) \subseteq Slots /\ DOMAIN active = 1 .. Len(active)
      /\ \A i \in 1 .. Len(active) : active[i] \in Slots /\ active[i] \in SlotsOf(active)
  BY <1>2, SlotsTyped
<1>4. /\ call'.batch = active /\ call'.rows = 1
      /\ \A i \in 1 .. Len(active) : call'.offsets[i] = pos_len'[active[i]] - 1
  BY <1>1, <1>2, <1>3
<1>5. /\ pos_len' \in [Slots -> Nat]
      /\ \A s \in SlotsOf(active) : pos_len'[s] = pos_len[s] + 1 /\ pos_len[s] \in Nat
                                    /\ pads[s] \in Nat
      /\ \A s \in Slots \ SlotsOf(active) : pos_len'[s] = pos_len[s]
  BY <1>1, <1>2, <1>3
<1>6. /\ pads' = pads /\ turn' = "decoded" /\ step' = "qkv" /\ result' = NoResult
      /\ used' = used /\ active' = active /\ next_active' = <<>>
      /\ UNCHANGED device_vars
  BY <1>1, <1>2
<1>7. \A s \in SlotsOf(active) :
         pads'[s] + pos_len'[s] - 1 = pads[s] + pos_len[s] /\ pos_len'[s] >= 1
  BY <1>5, <1>6
<1>8. /\ call'.batch = active /\ call'.rows = 1 /\ call'.rows \in Nat \ {0}
      /\ call'.batch # <<>> /\ Once(call'.batch) /\ call'.batch \in Seq(Slots)
  BY <1>1, <1>2, <1>4
<1>9. /\ \A i \in 1 .. Len(call'.batch) :
            call'.offsets[i] = pos_len'[call'.batch[i]] - call'.rows
      /\ \A s \in SlotsOf(call'.batch) :
            /\ pads'[s] + pos_len'[s] - call'.rows = pads[s] + pos_len[s]
            /\ pads'[s] = pads[s]
            /\ pos_len'[s] >= 1
      /\ \A s \in Slots \ SlotsOf(call'.batch) : pads'[s] = pads[s] /\ pos_len'[s] = pos_len[s]
  BY <1>4, <1>5, <1>6, <1>7, <1>8
<1>10. /\ SlotsOf(call'.batch) = SlotsOf(active') /\ SlotsOf(call'.batch) \subseteq used'
       /\ used \subseteq used' /\ pads' \in [Slots -> Nat] /\ pos_len' \in [Slots -> Nat]
  BY <1>2, <1>5, <1>6, <1>8
<1> QED
  BY <1>2, <1>6, <1>8, <1>9, <1>10, BeginForwardInv

LEMMA BeginPrefillInv ==
    ASSUME LayerInv, ProtocolInv', BeginPrefill PROVE LayerInv'
<1>0. PICK k \in 1 .. MaxActive : \E lens \in [1 .. k -> PromptRows] :
         LET batch == Popped(k)
             pad == [i \in 1 .. k |-> PadLen(lens, i)]
         IN /\ Prefill(k)
            /\ call' = [batch |-> batch, rows |-> lens[1] + pad[1],
                        offsets |-> [i \in 1 .. k |-> -pad[i]]]
            /\ pads' = [s \in Slots |-> IF s \in SlotsOf(batch)
                                        THEN pad[IndexIn(batch, s)] ELSE pads[s]]
            /\ pos_len' = [s \in Slots |-> IF s \in SlotsOf(batch)
                                           THEN lens[IndexIn(batch, s)] ELSE pos_len[s]]
            /\ step' = "qkv" /\ result' = NoResult /\ UNCHANGED device_vars
  BY DEF BeginPrefill
<1>1. PICK lens \in [1 .. k -> PromptRows] :
         LET batch == Popped(k)
             pad == [i \in 1 .. k |-> PadLen(lens, i)]
         IN /\ Prefill(k)
            /\ call' = [batch |-> batch, rows |-> lens[1] + pad[1],
                        offsets |-> [i \in 1 .. k |-> -pad[i]]]
            /\ pads' = [s \in Slots |-> IF s \in SlotsOf(batch)
                                        THEN pad[IndexIn(batch, s)] ELSE pads[s]]
            /\ pos_len' = [s \in Slots |-> IF s \in SlotsOf(batch)
                                           THEN lens[IndexIn(batch, s)] ELSE pos_len[s]]
            /\ step' = "qkv" /\ result' = NoResult /\ UNCHANGED device_vars
  BY <1>0
<1> DEFINE batch == Popped(k)
<1>2. k \in Nat \ {0}
  BY ProtocolAssumption
<1>3. PICK m \in Nat \ {0} :
         \A i \in 1 .. k : lens[i] <= m /\ lens[i] \in Nat \ {0} /\ PadLen(lens, i) = m - lens[i]
  BY <1>2, PadsToLongest
<1>4. /\ turn = "admit" /\ turn' = "prefilled" /\ prepared' = batch
      /\ used' = used \cup SlotsOf(batch) /\ k <= Len(free_slots)
  BY <1>1 DEF Prefill
<1>5. /\ free_slots \in Seq(Slots) /\ Once(free_slots) /\ step = "idle"
      /\ pads \in [Slots -> Nat] /\ pos_len \in [Slots -> Nat] /\ SamplesInv
      /\ SlotsOf(free_slots) \cap used = {}
  BY <1>4 DEF LayerInv, CallInv, TypeInv, ProtocolInv, ListsTyped, ListsApart, UsedListed
<1>6. /\ batch \in Seq(Slots) /\ Once(batch) /\ Len(batch) = k
      /\ SlotsOf(batch) \subseteq SlotsOf(free_slots) /\ SlotsOf(batch) \subseteq Slots
  BY <1>2, <1>4, <1>5, PopSlots, SlotsTyped
<1>7. \A i \in 1 .. k : batch[i] \in SlotsOf(batch) /\ IndexIn(batch, batch[i]) = i
  BY <1>6, SlotsTyped, IndexOfSlot
<1>8. \A s \in SlotsOf(batch) : IndexIn(batch, s) \in 1 .. k
  BY <1>6, SlotAtIndex
<1> HIDE DEF batch
<1>9. /\ call'.batch = batch /\ call'.rows = lens[1] + PadLen(lens, 1)
      /\ \A i \in 1 .. k : call'.offsets[i] = -PadLen(lens, i)
      /\ \A s \in SlotsOf(batch) : /\ pads'[s] = PadLen(lens, IndexIn(batch, s))
                                   /\ pos_len'[s] = lens[IndexIn(batch, s)]
      /\ \A s \in Slots \ SlotsOf(batch) : pads'[s] = pads[s] /\ pos_len'[s] = pos_len[s]
      /\ pads' = [s \in Slots |-> pads'[s]] /\ pos_len' = [s \in Slots |-> pos_len'[s]]
  BY <1>1, <1>6, <1>8 DEF batch
<1>10. call'.rows = m
  BY <1>2, <1>3, <1>9
<1>11. \A s \in SlotsOf(batch) :
          /\ pads'[s] \in Nat /\ pos_len'[s] \in Nat \ {0} /\ pads'[s] + pos_len'[s] = m
          /\ pads[s] = 0 /\ pos_len[s] = 0
  BY <1>3, <1>5, <1>6, <1>8, <1>9 DEF SamplesInv
<1>12. pads' \in [Slots -> Nat] /\ pos_len' \in [Slots -> Nat]
  BY <1>5, <1>9, <1>11
<1>13. \A i \in 1 .. k : call'.offsets[i] = pos_len'[batch[i]] - m
  BY <1>3, <1>7, <1>9
<1>14. batch # <<>>
  BY <1>2, <1>6
<1>15. SlotsOf(batch) \cap used = {}
  BY <1>5, <1>6
<1>16. \A s \in SlotsOf(batch) : pads'[s] + pos_len'[s] - m = pads[s] + pos_len[s]
                                /\ pads[s] + pos_len[s] = 0
  BY <1>11
<1>17. step' = "qkv" /\ result' = NoResult /\ UNCHANGED device_vars
  BY <1>1
<1> QED
  BY <1>4, <1>5, <1>6, <1>9, <1>10, <1>11, <1>12, <1>13, <1>14, <1>15, <1>16, <1>17,
     BeginForwardInv

-----------------------------------------------------------------------------
(* A step of the server between two forward passes. *)
LEMMA KeepInv ==
    ASSUME LayerInv, ProtocolInv', step = "idle", used' = used,
           UNCHANGED <<pads, pos_len, call, step, device_vars>>,
           result' = NoResult \/ result' = result
    PROVE  LayerInv'
<1>1. /\ TypeInv /\ SamplesInv /\ ContentInv /\ GraphInv
      /\ pads' = pads /\ pos_len' = pos_len /\ call' = call /\ step' = "idle"
      /\ samples' = samples /\ scratch' = scratch /\ graph' = graph
  BY DEF LayerInv, device_vars
<1>2. TypeInv' /\ CallInv'
  BY <1>1 DEF TypeInv, CallInv
<1>3. SamplesInv'
  BY <1>1 DEF SamplesInv, Held, RowsOf, BatchSlots
<1>4. ContentInv'
  BY <1>1 DEF ContentInv, RightOutput
<1>5. SizesInv'
  BY <1>1 DEF SizesInv
<1>6. GraphInv'
  BY <1>1 DEF GraphInv, Addresses
<1> QED
  BY <1>2, <1>3, <1>4, <1>5, <1>6 DEF LayerInv

LEMMA NoForwardInv ==
    ASSUME LayerInv, ProtocolInv', NoForward PROVE LayerInv'
<1>1. /\ step = "idle" /\ used' = used /\ result' = result
      /\ UNCHANGED <<pads, pos_len, call, step, device_vars>>
  BY DEF NoForward, NoPrefill, NoDecode, EndPrefill, EndDecode
<1> QED
  BY <1>1, KeepInv

LEMMA SameInv ==
    ASSUME LayerInv, ProtocolInv', UNCHANGED vars PROVE LayerInv'
<1>1. /\ pads' = pads /\ pos_len' = pos_len /\ call' = call /\ step' = step
      /\ samples' = samples /\ scratch' = scratch /\ graph' = graph
      /\ pads_on_device' = pads_on_device /\ result' = result /\ used' = used
      /\ turn' = turn /\ prepared' = prepared /\ active' = active /\ next_active' = next_active
  BY DEF vars, device_vars, protocol_vars
<1>2. TypeInv' /\ CallInv' /\ SizesInv'
  BY <1>1 DEF LayerInv, TypeInv, CallInv, SizesInv, Needed, Decoding, Batch, BatchSlots,
     Indices
<1>3. SamplesInv' /\ GraphInv'
  BY <1>1 DEF LayerInv, SamplesInv, Held, RowsOf, BatchSlots, GraphInv, Addresses
<1>4. ContentInv'
  BY <1>1 DEF LayerInv, ContentInv, RightOutput, QueryRows, Content, Indices, Batch,
     BatchView, Len_, TotalLen, Decoding
<1> QED
  BY <1>2, <1>3, <1>4 DEF LayerInv

(* A request is finished: its slot keeps nothing, and no graph is left. *)
LEMMA ClearInv ==
    ASSUME LayerInv, ProtocolInv', step = "idle", step' = "idle", result' = NoResult,
           call' = call, NEW slot \in Slots, ClearSlot(slot), used' = used \ {slot}
    PROVE  LayerInv'
<1>1. /\ TypeInv /\ SamplesInv
      /\ pads' = [pads EXCEPT ![slot] = 0] /\ pos_len' = [pos_len EXCEPT ![slot] = 0]
      /\ samples' = [samples EXCEPT ![slot] = NoSample]
      /\ scratch' = scratch /\ graph' = NoGraph
  BY DEF LayerInv, ClearSlot, ClearedGraph
<1>2. /\ pads' \in [Slots -> Nat] /\ pos_len' \in [Slots -> Nat]
      /\ pads'[slot] = 0 /\ pos_len'[slot] = 0
      /\ samples'[slot].rows = <<>> /\ samples'[slot].capacity = 0
      /\ \A s \in Slots \ {slot} : /\ pads'[s] = pads[s] /\ pos_len'[s] = pos_len[s]
                                  /\ samples'[s] = samples[s]
  BY <1>1 DEF TypeInv, NoSample
<1>3. samples' \in [Slots -> [rows : Seq(Slots \X Int), capacity : Nat]]
  <2>1. NoSample \in [rows : Seq(Slots \X Int), capacity : Nat]
    BY DEF NoSample
  <2> QED
    BY <1>1, <2>1 DEF TypeInv
<1>4. TypeInv'
  BY <1>1, <1>2, <1>3 DEF TypeInv
<1>5. SamplesInv'
  <2> SUFFICES ASSUME NEW s \in Slots
               PROVE  /\ samples'[s].rows = RowsOf(s, Held(s))'
                      /\ Held(s)' <= samples'[s].capacity
                      /\ s \notin used' => pads'[s] = 0 /\ pos_len'[s] = 0
    BY DEF SamplesInv
  <2>1. Held(s)' = pads'[s] + pos_len'[s] /\ Held(s) = pads[s] + pos_len[s]
    BY DEF Held
  <2>2. CASE s = slot
    <3>1. Held(s)' = 0
      BY <1>2, <2>1, <2>2
    <3>2. RowsOf(s, Held(s))' = <<>>
      BY <3>1 DEF RowsOf
    <3> QED
      BY <1>2, <2>2, <3>1, <3>2
  <2>3. CASE s # slot
    <3>1. /\ Held(s)' = Held(s) /\ samples'[s] = samples[s] /\ pads'[s] = pads[s]
          /\ pos_len'[s] = pos_len[s]
      BY <1>2, <2>1, <2>3
    <3>2. RowsOf(s, Held(s))' = RowsOf(s, Held(s))
      BY <3>1 DEF RowsOf
    <3> QED
      BY <1>1, <2>3, <3>1, <3>2 DEF SamplesInv
  <2> QED
    BY <2>2, <2>3
<1>6. CallInv' /\ ContentInv' /\ SizesInv' /\ GraphInv'
  BY <1>1 DEF CallInv, ContentInv, SizesInv, GraphInv, NoGraph
<1> QED
  BY <1>4, <1>5, <1>6 DEF LayerInv

LEMMA SettleInv ==
    ASSUME LayerInv, ProtocolInv', SettleRequest PROVE LayerInv'
<1>1. PICK finished \in BOOLEAN :
         \/ SettlePrefill(finished) /\ Settle(Head(prepared), finished)
         \/ SettleDecode(finished) /\ Settle(Head(active), finished)
  BY DEF SettleRequest
<1>2. PICK list \in Seq(Slots) :
         /\ list # <<>> /\ Once(list) /\ Settle(Head(list), finished)
         /\ IF finished THEN used' = used \ {Head(list)} ELSE used' = used
  BY <1>1 DEF SettlePrefill, SettleDecode, Release, Keep, LayerInv, ProtocolInv, ListsTyped,
     ListsApart
<1>3. Head(list) \in Slots
  BY <1>2, DropSlot
<1>4. step = "idle" /\ step' = "idle" /\ call' = call /\ result' = NoResult
  BY <1>2 DEF Settle
<1>5. CASE finished
  BY <1>2, <1>3, <1>4, <1>5, ClearInv DEF Settle
<1>6. CASE ~finished
  BY <1>2, <1>4, <1>6, KeepInv DEF Settle
<1> QED
  BY <1>5, <1>6

(* The server stops between two rounds without an active request: every slot is
   free by then and nothing is forgotten that belongs to one. *)
LEMMA ResetInv ==
    ASSUME LayerInv, ProtocolInv', ResetAll PROVE LayerInv'
<1>1. /\ turn = "admit" /\ active = <<>> /\ step = "idle" /\ step' = "idle"
      /\ used' = used /\ call' = call /\ result' = result
      /\ pads' = pads /\ pos_len' = pos_len /\ scratch' = scratch
      /\ samples' = [s \in Slots |-> NoSample] /\ graph' = NoGraph
  BY DEF ResetAll, Stop
<1>2. used = {}
  BY <1>1, NoSlots DEF LayerInv, ProtocolInv, UsedListed, PhaseLists
<1>3. TypeInv'
  <2>1. NoSample \in [rows : Seq(Slots \X Int), capacity : Nat]
    BY DEF NoSample
  <2> QED
    BY <1>1, <2>1 DEF LayerInv, TypeInv
<1>4. SamplesInv'
  <2> SUFFICES ASSUME NEW s \in Slots
               PROVE  /\ samples'[s].rows = RowsOf(s, Held(s))'
                      /\ Held(s)' <= samples'[s].capacity
                      /\ pads'[s] = 0 /\ pos_len'[s] = 0
    BY DEF SamplesInv
  <2>1. pads'[s] = 0 /\ pos_len'[s] = 0
    BY <1>1, <1>2 DEF LayerInv, SamplesInv
  <2>2. Held(s)' = 0
    BY <1>1, <2>1 DEF Held
  <2>3. RowsOf(s, Held(s))' = <<>>
    BY <2>2 DEF RowsOf
  <2>4. samples'[s].rows = <<>> /\ samples'[s].capacity = 0
    BY <1>1 DEF NoSample
  <2> QED
    BY <2>1, <2>2, <2>3, <2>4
<1>5. CallInv' /\ SizesInv' /\ GraphInv'
  BY <1>1 DEF CallInv, SizesInv, GraphInv, NoGraph
<1>6. ContentInv'
  BY <1>1 DEF LayerInv, ContentInv, RightOutput
<1> QED
  BY <1>3, <1>4, <1>5, <1>6 DEF LayerInv

-----------------------------------------------------------------------------
(* In a forward pass. *)
LEMMA InCall ==
    ASSUME LayerInv, step \in ForwardSteps
    PROVE  /\ turn \in {"prefilled", "decoded"}
           /\ Batch \in Nat \ {0} /\ call.rows \in Nat \ {0}
           /\ call.batch \in Seq(Slots) /\ Once(call.batch)
           /\ BatchSlots \subseteq Slots /\ BatchSlots \subseteq used
           /\ \A i \in Indices : call.batch[i] \in BatchSlots
           /\ \A s \in BatchSlots : /\ pads[s] \in Nat /\ pos_len[s] \in Nat
                                    /\ pads[s] + pos_len[s] >= call.rows
           /\ turn = "prefilled" => \A s \in BatchSlots : pads[s] + pos_len[s] = call.rows
           /\ result = NoResult
<1>1. /\ ProtocolInv /\ TypeInv /\ CallInv /\ ContentInv /\ step # "idle"
      /\ result = NoResult
  BY DEF LayerInv, ForwardSteps, ContentInv
<1>2. turn \in {"prefilled", "decoded"}
  BY <1>1 DEF CallInv, ProtocolInv, ListsTyped, Turns
<1>3. /\ call.batch \in Seq(Slots) /\ Once(call.batch) /\ call.batch # <<>>
      /\ call.rows \in Nat \ {0}
  BY <1>1 DEF TypeInv, CallInv
<1>4. /\ BatchSlots \subseteq Slots /\ Batch \in Nat \ {0}
      /\ \A i \in Indices : call.batch[i] \in BatchSlots
  BY <1>3, SlotsTyped DEF BatchSlots, Batch, Indices
<1>5. BatchSlots \subseteq used
  BY <1>1, <1>2 DEF CallInv, ProtocolInv, UsedListed
<1>6. \A s \in BatchSlots : pads[s] \in Nat /\ pos_len[s] \in Nat
  BY <1>1, <1>4 DEF TypeInv
<1>7. turn = "prefilled" => \A s \in BatchSlots : pads[s] + pos_len[s] = call.rows
  BY <1>1 DEF CallInv
<1>8. turn = "decoded" => call.rows = 1 /\ \A s \in BatchSlots : pos_len[s] >= 1
  BY <1>1 DEF CallInv
<1>9. \A s \in BatchSlots : pads[s] + pos_len[s] >= call.rows
  BY <1>2, <1>3, <1>6, <1>7, <1>8
<1> QED
  BY <1>1, <1>2, <1>3, <1>4, <1>5, <1>6, <1>7, <1>9

(* The rows of sample i, and the longest sample of the batch. *)
LEMMA SampleRows ==
    ASSUME LayerInv, NEW s \in Slots
    PROVE  /\ samples[s].rows = RowsOf(s, Held(s)) /\ Held(s) <= samples[s].capacity
           /\ samples[s].capacity \in Nat /\ Len(samples[s].rows) \in Nat
           /\ Len(samples[s].rows) = Held(s)
<1>1. /\ samples[s].rows = RowsOf(s, Held(s)) /\ Held(s) <= samples[s].capacity
      /\ samples[s].capacity \in Nat /\ samples[s].rows \in Seq(Slots \X Int)
  BY DEF LayerInv, SamplesInv, TypeInv
<1>2. Held(s) \in Nat
  <2>1. pads[s] \in Nat /\ pos_len[s] \in Nat /\ step \in ForwardSteps \cup {"idle"}
    BY DEF LayerInv, TypeInv
  <2>2. CASE s \in BatchSlots /\ step \in {"qkv", "append"}
    BY <2>1, <2>2, InCall DEF Held, ForwardSteps
  <2>3. CASE ~(s \in BatchSlots /\ step \in {"qkv", "append"})
    BY <2>1, <2>3 DEF Held
  <2> QED
    BY <2>2, <2>3
<1>3. Len(RowsOf(s, Held(s))) = Held(s)
  BY <1>2 DEF RowsOf
<1> QED
  BY <1>1, <1>2, <1>3

LEMMA LongestSample ==
    ASSUME LayerInv, step \in ForwardSteps
    PROVE  /\ TotalLen \in Nat
           /\ \E i \in Indices : TotalLen = Len_(i)
           /\ \A i \in Indices : Len_(i) <= TotalLen /\ Len_(i) \in Nat
<1>1. /\ Batch \in Nat \ {0} /\ BatchSlots \subseteq Slots
      /\ \A i \in Indices : call.batch[i] \in BatchSlots
  BY InCall
<1>2. \A i \in Indices : Len_(i) \in Nat
  BY <1>1, SampleRows DEF Len_
<1> DEFINE f == [i \in Indices |-> Len_(i)]
<1>3. \A i \in 1 .. Batch : f[i] \in Int /\ f[i] = Len_(i)
  BY <1>2 DEF Indices
<1> HIDE DEF f
<1>4. \E i \in 1 .. Batch : \A j \in 1 .. Batch : f[j] <= f[i]
  BY <1>1, <1>3, LargestOf
<1>5. \E i \in Indices : \A j \in Indices : Len_(j) <= Len_(i)
  BY <1>3, <1>4 DEF Indices
<1> DEFINE Lens == {Len_(i) : i \in Indices}
<1>6. \E n \in Lens : \A i \in Indices : Len_(i) <= n
  BY <1>5
<1>7. TotalLen = CHOOSE n \in Lens : \A i \in Indices : Len_(i) <= n
  BY DEF TotalLen
<1>8. TotalLen \in Lens /\ \A i \in Indices : Len_(i) <= TotalLen
  <2> HIDE DEF Lens
  <2> QED
    BY <1>6, <1>7
<1> QED
  BY <1>2, <1>8

(* No scratch buffer is made smaller, and none that a decode of one request
   has found large enough is replaced by another one. *)
GrowsTo(b, new) ==
    /\ new.size \in Nat /\ new.size >= scratch[b].size
    /\ new = [size |-> new.size, content |-> new.content]
    /\ (SingleDecode /\ b \in GraphBuffers /\ scratch[b].size >= SingleNeeds(b))
          => new.size = scratch[b].size

ScratchGrows ==
    /\ DOMAIN scratch' = Scratch
    /\ \A b \in Scratch : GrowsTo(b, scratch'[b])

(* A scratch buffer that is asked for enough, and that has enough for a decode
   of one request where there is one. *)
LEMMA FilledGrows ==
    ASSUME LayerInv, step \in ForwardSteps, NEW b \in Scratch, NEW content
    PROVE  /\ GrowsTo(b, Filled(b, content)) /\ GrowsTo(b, scratch[b])
           /\ Filled(b, content).size >= Needed(b) /\ Needed(b) \in Nat
           /\ Filled(b, content).content = content
           /\ SingleDecode /\ b \in GraphBuffers => Needed(b) = SingleNeeds(b)
<1>1. /\ Batch \in Nat \ {0} /\ call.rows \in Nat \ {0} /\ TotalLen \in Nat
      /\ Hidden \in Nat \ {0} /\ Kv \in Nat \ {0} /\ MinBytes \in Nat \ {0}
  BY InCall, LongestSample, CudaSelfAttnAssumption
<1>2. scratch[b].size \in Nat
  BY DEF LayerInv, TypeInv
<1>3. \A x, y \in Nat : x * y \in Nat
  OBVIOUS
<1>4. /\ Batch * call.rows * Hidden \in Nat /\ Batch * call.rows * Kv \in Nat
      /\ Batch * TotalLen * Kv \in Nat
  BY <1>1, <1>3
<1>5. Needed(b) \in Nat
  BY <1>1, <1>4 DEF Needed, Scratch
<1>6. ASSUME SingleDecode, b \in GraphBuffers
      PROVE  Needed(b) = SingleNeeds(b)
  <2>1. Batch = 1 /\ call.rows = 1
    BY <1>6 DEF SingleDecode, Decoding
  <2>2. 1 * 1 * Hidden = Hidden
    BY <1>1
  <2> QED
    BY <1>6, <2>1, <2>2 DEF Needed, SingleNeeds, GraphBuffers
<1>7. LET new == Ensured(scratch[b].size, Needed(b), MinBytes)
      IN /\ new \in Nat /\ new >= Needed(b) /\ new >= scratch[b].size
         /\ (new = scratch[b].size) <=> (scratch[b].size >= Needed(b))
  BY <1>1, <1>2, <1>5, EnsuredSuffices
<1>8. /\ Filled(b, content).size = Ensured(scratch[b].size, Needed(b), MinBytes)
      /\ Filled(b, content).content = content
      /\ Filled(b, content) = [size |-> Filled(b, content).size,
                               content |-> Filled(b, content).content]
  BY DEF Filled
<1>9. GrowsTo(b, Filled(b, content))
  BY <1>6, <1>7, <1>8 DEF GrowsTo
<1>10. GrowsTo(b, scratch[b])
  BY <1>2 DEF GrowsTo, LayerInv, TypeInv
<1> QED
  BY <1>5, <1>6, <1>7, <1>8, <1>9, <1>10

(* A step of the forward pass leaves the call alone. *)
InPass ==
    /\ step \in ForwardSteps /\ step' \in ForwardSteps \cup {"idle"}
    /\ UNCHANGED <<protocol_vars, pads, pos_len, call>>

LEMMA SameCall ==
    ASSUME InPass
    PROVE  /\ used' = used /\ turn' = turn /\ Batch' = Batch /\ Indices' = Indices
           /\ BatchSlots' = BatchSlots /\ QueryRows' = QueryRows
           /\ Decoding' = Decoding /\ SingleDecode' = SingleDecode
           /\ \A s, n : RowsOf(s, n)' = RowsOf(s, n)
           /\ \A out : RightOutput(out) => RightOutput(out)'
  BY DEF InPass, protocol_vars, Batch, Indices, BatchSlots, QueryRows, RowsOf, RightOutput,
     Decoding, SingleDecode

LEMMA PassInv ==
    ASSUME LayerInv, InPass PROVE ProtocolInv' /\ CallInv'
<1>1. ProtocolInv'
  BY TurnProtocolInv DEF InPass, LayerInv
<1>2. /\ call' = call /\ pads' = pads /\ pos_len' = pos_len /\ turn' = turn
      /\ prepared' = prepared /\ active' = active /\ next_active' = next_active
      /\ Indices' = Indices /\ BatchSlots' = BatchSlots /\ step # "idle"
  BY SameCall DEF InPass, protocol_vars, ForwardSteps
<1>3. turn \in {"prefilled", "decoded"}
  BY InCall DEF InPass
<1>4. CallInv'
  BY <1>2, <1>3 DEF LayerInv, CallInv
<1> QED
  BY <1>1, <1>4

LEMMA PassTypeInv ==
    ASSUME LayerInv, InPass, ScratchGrows,
           samples' \in [Slots -> [rows : Seq(Slots \X Int), capacity : Nat]]
    PROVE  TypeInv'
  BY DEF LayerInv, InPass, ScratchGrows, GrowsTo, TypeInv

(* A captured graph stays where it can be trusted. *)
LEMMA PassGraphInv ==
    ASSUME LayerInv, InPass, ScratchGrows, graph' = graph,
           step = "copy" => step' = "idle" /\ Addresses(scratch)' = Addresses(scratch)
    PROVE  GraphInv'
<1> SUFFICES ASSUME graph.slot # -1
             PROVE  /\ graph.slot \in used
                    /\ \A b \in GraphBuffers : scratch'[b].size >= SingleNeeds(b)
                    /\ graph.addresses = Addresses(scratch') \/ \E s \in used : s # graph.slot
                    /\ turn = "prefilled" /\ step' \in {"qkv", "append", "prepare", "attend"}
                          => graph.slot \notin BatchSlots
  BY SameCall DEF GraphInv
<1>1. /\ graph.slot \in used
      /\ \A b \in GraphBuffers : scratch[b].size >= SingleNeeds(b)
      /\ graph.addresses = Addresses(scratch) \/ \E s \in used : s # graph.slot
      /\ turn = "prefilled" /\ step \in {"qkv", "append", "prepare", "attend"}
            => graph.slot \notin BatchSlots
  BY DEF LayerInv, GraphInv
<1>2. /\ GraphBuffers \subseteq Scratch
      /\ \A b \in GraphBuffers : /\ scratch'[b].size \in Nat /\ scratch[b].size \in Nat
                                 /\ scratch'[b].size >= scratch[b].size
                                 /\ SingleNeeds(b) \in Nat
  <2>1. GraphBuffers \subseteq Scratch
    BY DEF GraphBuffers, Scratch
  <2>2. \A b \in GraphBuffers : SingleNeeds(b) \in Nat
    BY CudaSelfAttnAssumption DEF SingleNeeds
  <2> QED
    BY <2>1, <2>2 DEF LayerInv, TypeInv, ScratchGrows, GrowsTo
<1>3. \A b \in GraphBuffers : scratch'[b].size >= SingleNeeds(b)
  BY <1>1, <1>2
<1>4. turn = "prefilled" /\ step' \in {"qkv", "append", "prepare", "attend"}
         => graph.slot \notin BatchSlots
  BY <1>1 DEF InPass, ForwardSteps
<1>5. graph.addresses = Addresses(scratch') \/ \E s \in used : s # graph.slot
  <2>1. CASE SingleDecode \/ step = "copy"
    <3>1. CASE SingleDecode
      <4>1. \A b \in GraphBuffers : scratch'[b].size = scratch[b].size
        BY <1>1, <1>2, <3>1 DEF ScratchGrows, GrowsTo
      <4>2. Addresses(scratch') = Addresses(scratch)
        BY <4>1 DEF Addresses
      <4> QED
        BY <1>1, <4>2
    <3>2. CASE step = "copy"
      BY <1>1, <3>2
    <3> QED
      BY <2>1, <3>1, <3>2
  <2>2. CASE ~SingleDecode /\ step # "copy" /\ turn = "prefilled"
    <3>1. graph.slot \notin BatchSlots
      BY <1>1, <2>2 DEF InPass, ForwardSteps
    <3>2. \E s \in BatchSlots : s \in used
      BY InCall DEF InPass, Indices
    <3> QED
      BY <3>1, <3>2
  <2>3. CASE ~SingleDecode /\ step # "copy" /\ turn = "decoded"
    <3>1. call.rows = 1 /\ Batch \in Nat \ {0} /\ Batch # 1
      BY <2>3, InCall DEF InPass, LayerInv, CallInv, SingleDecode, Decoding, ForwardSteps
    <3>2. 1 \in Indices /\ 2 \in Indices
      BY <3>1 DEF Indices
    <3>3. call.batch[1] # call.batch[2]
      BY <3>2, InCall DEF InPass, Once, Indices, Batch
    <3>4. call.batch[1] \in used /\ call.batch[2] \in used
      BY <3>2, InCall DEF InPass
    <3> QED
      BY <3>3, <3>4
  <2> QED
    BY <2>1, <2>2, <2>3, InCall DEF InPass
<1> QED
  BY <1>1, <1>3, <1>4, <1>5

-----------------------------------------------------------------------------
(* The steps of a forward pass. *)
LEMMA QkvInv ==
    ASSUME LayerInv, PrepareQkv PROVE LayerInv'
<1> DEFINE rows == [i \in Indices |-> [j \in 1 .. call.rows |-> Rotated(call.offsets, i, j)]]
<1>1. /\ step = "qkv" /\ step' = "append" /\ InPass
      /\ samples' = samples /\ graph' = graph /\ result' = result
  BY DEF PrepareQkv, InPass, ForwardSteps
<1>2. step \in ForwardSteps
  BY <1>1 DEF InPass
<1>3. rows = QueryRows
  <2>1. \A i \in Indices : /\ call.offsets[i] = pos_len[call.batch[i]] - call.rows
                           /\ pos_len[call.batch[i]] \in Nat
    BY <1>1, <1>2, InCall DEF LayerInv, CallInv
  <2>2. ASSUME NEW i \in Indices, NEW j \in 1 .. call.rows
        PROVE  Rotated(call.offsets, i, j)
                 = <<call.batch[i], pos_len[call.batch[i]] - call.rows + j - 1>>
    BY <2>1 DEF Rotated
  <2> QED
    BY <2>2 DEF QueryRows
<1> HIDE DEF rows
<1>4. DOMAIN scratch = Scratch
  BY DEF LayerInv, TypeInv
<1>5. /\ DOMAIN scratch' = Scratch
      /\ scratch'["offsets"] = Filled("offsets", call.offsets)
      /\ scratch'["q"] = Filled("q", rows) /\ scratch'["kv"] = Filled("kv", rows)
      /\ \A b \in Scratch \ {"offsets", "q", "kv"} : scratch'[b] = scratch[b]
  BY <1>4 DEF PrepareQkv, Scratch, rows
<1>7. {"offsets", "q", "kv"} \subseteq Scratch
  BY DEF Scratch
<1>8. ScratchGrows
  BY <1>2, <1>5, FilledGrows DEF ScratchGrows
<1>9. TypeInv' /\ GraphInv' /\ ProtocolInv' /\ CallInv'
  BY <1>1, <1>8, PassTypeInv, PassGraphInv, PassInv DEF LayerInv, TypeInv
<1>10. SamplesInv'
  <2>1. \A s \in Slots : Held(s)' = Held(s)
    BY <1>1, SameCall DEF InPass, Held
  <2> QED
    BY <1>1, <2>1, SameCall DEF InPass, LayerInv, SamplesInv
<1>11. ContentInv'
  <2>1. scratch'["q"].content = QueryRows /\ scratch'["kv"].content = QueryRows
    BY <1>3, <1>5 DEF Filled
  <2>2. result' = NoResult
    BY <1>1, <1>2, InCall
  <2> QED
    BY <1>1, <2>1, <2>2, SameCall DEF ContentInv, Content
<1>12. SizesInv'
  <2>1. scratch'["q"].size >= Needed("q")
    BY <1>2, <1>5, <1>7, FilledGrows
  <2>2. Needed("q")' = Needed("q")
    BY <1>1, SameCall DEF InPass, Needed
  <2> QED
    BY <1>1, <2>1, <2>2 DEF SizesInv
<1> QED
  BY <1>9, <1>10, <1>11, <1>12 DEF LayerInv

(* The rows of a sample, and the next ones behind them. *)
LEMMA RowsAppended ==
    ASSUME NEW s, NEW h \in Nat, NEW n \in Nat, NEW new, pads[s] \in Nat,
           new = [j \in 1 .. n |-> <<s, h + j - 1 - pads[s]>>]
    PROVE  RowsOf(s, h) \o new = RowsOf(s, h + n)
<1> DEFINE old == RowsOf(s, h)
           Row == {s} \X Int
<1>1. /\ old \in Seq(Row) /\ new \in Seq(Row) /\ Len(old) = h /\ Len(new) = n
      /\ \A t \in 1 .. h : old[t] = <<s, t - 1 - pads[s]>>
      /\ \A t \in 1 .. n : new[t] = <<s, h + t - 1 - pads[s]>>
  BY DEF RowsOf
<1> HIDE DEF old, Row
<1>2. old \o new \in Seq(Row)
  BY <1>1, ConcatProperties
<1>3. /\ Len(old \o new) = Len(old) + Len(new)
      /\ \A t \in 1 .. Len(old) + Len(new) :
            (old \o new)[t] = IF t <= Len(old) THEN old[t] ELSE new[t - Len(old)]
  <2>1. old \in Seq(Row) /\ new \in Seq(Row)
    BY <1>1
  <2> HIDE <1>1
  <2> QED
    BY <2>1, ConcatProperties
<1>4. /\ Len(old \o new) = h + n
      /\ \A t \in 1 .. h + n : (old \o new)[t] = IF t <= h THEN old[t] ELSE new[t - h]
  <2>1. Len(old) = h /\ Len(new) = n
    BY <1>1
  <2> QED
    BY <1>3, <2>1
<1>5. \A t \in 1 .. h + n : (old \o new)[t] = <<s, t - 1 - pads[s]>>
  <2> TAKE t \in 1 .. h + n
  <2>1. CASE t <= h
    <3>1. t \in 1 .. h
      BY <2>1
    <3> QED
      BY <1>1, <1>4, <3>1, SMTT(30)
  <2>2. CASE ~(t <= h)
    <3>1. t - h \in 1 .. n /\ h + (t - h) = t
      BY <2>2
    <3>2. (old \o new)[t] = new[t - h]
      <4>1. ~(t <= h)
        BY <2>2
      <4> QED
        BY <1>4, <4>1
    <3>3. new[t - h] = <<s, h + (t - h) - 1 - pads[s]>>
      BY <1>1, <3>1
    <3>4. h + (t - h) - 1 - pads[s] = t - 1 - pads[s]
      OBVIOUS
    <3> QED
      BY <3>2, <3>3, <3>4
  <2> QED
    BY <2>1, <2>2
<1>6. DOMAIN (old \o new) = 1 .. h + n /\ old \o new = [t \in 1 .. h + n |-> (old \o new)[t]]
  <2> DEFINE all == old \o new
  <2>1. all \in Seq(Row) /\ Len(all) = h + n
    BY <1>2, <1>4
  <2> HIDE DEF all
  <2>2. DOMAIN all = 1 .. h + n /\ all = [t \in DOMAIN all |-> all[t]]
    BY <2>1, LenProperties
  <2> QED
    BY <2>2 DEF all
<1> QED
  BY <1>5, <1>6 DEF RowsOf, old

LEMMA AppendInv ==
    ASSUME LayerInv, AppendKvCache PROVE LayerInv'
<1>1. /\ step = "append" /\ step' = "prepare" /\ InPass
      /\ scratch' = scratch /\ graph' = graph /\ result' = result
      /\ samples' = [s \in Slots |->
           IF s \in BatchSlots
           THEN Appended(samples[s], Content("kv")[IndexIn(call.batch, s)])
           ELSE samples[s]]
  BY DEF AppendKvCache, InPass, ForwardSteps, BatchSlots
<1>2. step \in ForwardSteps
  BY <1>1 DEF InPass
<1>3. ScratchGrows
  BY <1>1, <1>2, FilledGrows DEF ScratchGrows, LayerInv, TypeInv
<1>4. \A s \in Slots : pads[s] \in Nat /\ pos_len[s] \in Nat
  BY DEF LayerInv, TypeInv
<1>5. ASSUME NEW s \in BatchSlots
      PROVE  /\ samples'[s].rows = RowsOf(s, pads[s] + pos_len[s])
             /\ samples'[s].capacity \in Nat /\ pads[s] + pos_len[s] <= samples'[s].capacity
             /\ samples'[s] = [rows |-> samples'[s].rows, capacity |-> samples'[s].capacity]
  <2> DEFINE new == Content("kv")[IndexIn(call.batch, s)]
             h == pads[s] + pos_len[s] - call.rows
  <2>1. /\ s \in Slots /\ call.rows \in Nat \ {0} /\ h \in Nat
        /\ IndexIn(call.batch, s) \in Indices /\ call.batch[IndexIn(call.batch, s)] = s
    BY <1>2, <1>4, InCall, SlotAtIndex, SMTT(30) DEF BatchSlots, Indices, Batch
  <2>2. Held(s) = h
    BY <1>1 DEF Held
  <2>3. /\ samples[s].rows = RowsOf(s, h) /\ Len(samples[s].rows) = h
        /\ samples[s].capacity \in Nat
    BY <2>1, <2>2, SampleRows
  <2>4. new = [j \in 1 .. call.rows |-> <<s, pos_len[s] - call.rows + j - 1>>]
    <3>1. Content("kv") = QueryRows
      BY <1>1 DEF LayerInv, ContentInv
    <3> HIDE DEF h
    <3> QED
      BY <2>1, <3>1 DEF QueryRows
  <2>5. new = [j \in 1 .. call.rows |-> <<s, h + j - 1 - pads[s]>>]
    <3>1. \A j \in 1 .. call.rows : h + j - 1 - pads[s] = pos_len[s] - call.rows + j - 1
      BY <1>4, <2>1
    <3> HIDE DEF new, h
    <3> QED
      BY <2>4, <3>1
  <2>6. Len(new) = call.rows
    BY <2>1, <2>4
  <2>7. samples'[s] = [rows |-> samples[s].rows \o new,
                       capacity |-> Ensured(samples[s].capacity, Len(samples[s].rows) + Len(new),
                                            MinCacheLen)]
    BY <1>1, <2>1 DEF Appended
  <2> HIDE DEF new
  <2>8. h + call.rows = pads[s] + pos_len[s]
    BY <1>4, <2>1
  <2>9. samples'[s].rows = RowsOf(s, h + call.rows)
    <3> HIDE DEF h
    <3>1. pads[s] \in Nat /\ call.rows \in Nat /\ h \in Nat
      BY <1>4, <2>1
    <3>2. RowsOf(s, h) \o new = RowsOf(s, h + call.rows)
      BY <2>5, <3>1, RowsAppended
    <3>3. samples'[s].rows = samples[s].rows \o new
      BY <2>7
    <3> QED
      BY <2>3, <3>2, <3>3
  <2>10. samples'[s].capacity \in Nat /\ samples'[s].capacity >= h + call.rows
    <3> HIDE DEF h
    <3>1. MinCacheLen \in Nat \ {0} /\ h + call.rows \in Nat
      BY <2>1, CudaSelfAttnAssumption
    <3>2. samples'[s].capacity = Ensured(samples[s].capacity, Len(samples[s].rows) + Len(new),
                                         MinCacheLen)
      BY <2>7
    <3>3. Len(samples[s].rows) + Len(new) = h + call.rows
      BY <2>3, <2>6
    <3>4. \A c, r \in Nat : /\ Ensured(c, r, MinCacheLen) \in Nat
                            /\ Ensured(c, r, MinCacheLen) >= r
      BY <3>1, EnsuredSuffices
    <3>5. samples'[s].capacity = Ensured(samples[s].capacity, h + call.rows, MinCacheLen)
      BY <3>2, <3>3
    <3>6. samples[s].capacity \in Nat
      BY <2>3
    <3> QED
      BY <3>1, <3>4, <3>5, <3>6
  <2>11. samples'[s] = [rows |-> samples'[s].rows, capacity |-> samples'[s].capacity]
    BY <2>7
  <2> QED
    BY <2>8, <2>9, <2>10, <2>11
<1>6. ASSUME NEW s \in Slots \ BatchSlots
      PROVE  samples'[s] = samples[s]
  BY <1>1
<1>7. samples' \in [Slots -> [rows : Seq(Slots \X Int), capacity : Nat]]
  <2>1. ASSUME NEW s \in BatchSlots
        PROVE  samples'[s] \in [rows : Seq(Slots \X Int), capacity : Nat]
    <3>1. s \in Slots
      BY <1>2, InCall
    <3>2. RowsOf(s, pads[s] + pos_len[s]) \in Seq(Slots \X Int)
      <4>1. pads[s] \in Nat /\ pads[s] + pos_len[s] \in Nat
        BY <1>4, <3>1
      <4>2. \A t \in 1 .. pads[s] + pos_len[s] : <<s, t - 1 - pads[s]>> \in Slots \X Int
        BY <3>1, <4>1
      <4> QED
        BY <4>1, <4>2 DEF RowsOf
    <3>3. /\ samples'[s] = [rows |-> samples'[s].rows, capacity |-> samples'[s].capacity]
          /\ samples'[s].rows \in Seq(Slots \X Int) /\ samples'[s].capacity \in Nat
      BY <1>5, <3>2
    <3> QED
      BY <3>3
  <2>2. ASSUME NEW s \in Slots \ BatchSlots
        PROVE  samples'[s] \in [rows : Seq(Slots \X Int), capacity : Nat]
    BY <1>6, <2>2 DEF LayerInv, TypeInv
  <2>3. samples' = [s \in Slots |-> samples'[s]]
    BY <1>1
  <2> QED
    BY <2>1, <2>2, <2>3
<1>8. TypeInv' /\ GraphInv' /\ ProtocolInv' /\ CallInv'
  BY <1>1, <1>3, <1>7, PassTypeInv, PassGraphInv, PassInv
<1>9. SamplesInv'
  <2> SUFFICES ASSUME NEW s \in Slots
               PROVE  /\ samples'[s].rows = RowsOf(s, Held(s))'
                      /\ Held(s)' <= samples'[s].capacity
                      /\ s \notin used => pads[s] = 0 /\ pos_len[s] = 0
    BY <1>1, SameCall DEF SamplesInv, InPass
  <2>1. Held(s)' = pads[s] + pos_len[s]
    BY <1>1 DEF InPass, Held
  <2>2. RowsOf(s, Held(s))' = RowsOf(s, pads[s] + pos_len[s])
    BY <1>1, <2>1 DEF InPass, RowsOf
  <2>3. s \notin used => pads[s] = 0 /\ pos_len[s] = 0
    BY DEF LayerInv, SamplesInv
  <2>4. CASE s \in BatchSlots
    BY <1>5, <2>1, <2>2, <2>3, <2>4
  <2>5. CASE s \notin BatchSlots
    <3>1. Held(s) = pads[s] + pos_len[s]
      BY <2>5 DEF Held
    <3> QED
      BY <1>6, <2>1, <2>2, <2>3, <2>5, <3>1, SampleRows
  <2> QED
    BY <2>4, <2>5
<1>10. ContentInv'
  <2>1. result' = NoResult
    BY <1>1, <1>2, InCall
  <2>2. scratch["q"].content = QueryRows
    BY <1>1 DEF LayerInv, ContentInv, Content
  <2> QED
    BY <1>1, <2>1, <2>2, SameCall DEF ContentInv, Content
<1>11. SizesInv'
  <2>1. Needed("q")' = Needed("q")
    BY <1>1, SameCall DEF InPass, Needed
  <2> QED
    BY <1>1, <2>1 DEF LayerInv, SizesInv
<1> QED
  BY <1>8, <1>9, <1>10, <1>11 DEF LayerInv

LEMMA PrepareInv ==
    ASSUME LayerInv, PrepareAttention PROVE LayerInv'
<1>1. /\ step = "prepare" /\ step' = "attend" /\ InPass /\ pads_on_device' = pads
      /\ samples' = samples /\ graph' = graph /\ result' = result
  BY DEF PrepareAttention, InPass, ForwardSteps, UploadedPads
<1>2. step \in ForwardSteps
  BY <1>1 DEF InPass
<1>3. DOMAIN scratch = Scratch
  BY DEF LayerInv, TypeInv
<1> DEFINE lens == [i \in Indices |-> Len_(i)]
<1>4. /\ DOMAIN scratch' = Scratch
      /\ scratch'["cache_batch"] = IF Batch = 1 THEN scratch["cache_batch"]
                                   ELSE Filled("cache_batch", BatchView)
      /\ scratch'["active_len"] = IF Decoding THEN Filled("active_len", lens)
                                  ELSE scratch["active_len"]
      /\ scratch'["sample_ids"] = Filled("sample_ids", call.batch)
      /\ scratch'["context"] = Filled("context", Undefined)
      /\ \A b \in Scratch \ {"cache_batch", "active_len", "sample_ids", "context"} :
            scratch'[b] = scratch[b]
  BY <1>3 DEF PrepareAttention, Scratch
<1> HIDE DEF lens
<1>5. {"q", "cache_batch", "active_len", "sample_ids", "context"} \subseteq Scratch
  BY DEF Scratch
<1>6. ScratchGrows
  BY <1>2, <1>4, FilledGrows DEF ScratchGrows
<1>7. TypeInv' /\ GraphInv' /\ ProtocolInv' /\ CallInv'
  BY <1>1, <1>6, PassTypeInv, PassGraphInv, PassInv DEF LayerInv, TypeInv
<1>8. SamplesInv'
  <2>1. \A s \in Slots : Held(s)' = Held(s)
    BY <1>1, SameCall DEF InPass, Held
  <2> QED
    BY <1>1, <2>1, SameCall DEF InPass, LayerInv, SamplesInv
<1>9. ContentInv'
  <2>1. result' = NoResult
    BY <1>1, <1>2, InCall
  <2>2. scratch'["q"].content = QueryRows
    BY <1>1, <1>4, <1>5 DEF LayerInv, ContentInv, Content
  <2>3. BatchView' = BatchView /\ [i \in Indices |-> Len_(i)]' = lens /\ call' = call
    BY <1>1, SameCall DEF InPass, BatchView, Len_, TotalLen, lens
  <2>4. Batch > 1 => scratch'["cache_batch"].content = BatchView
    BY <1>4 DEF Filled
  <2>5. Decoding => scratch'["active_len"].content = lens
    BY <1>4 DEF Filled
  <2>6. scratch'["sample_ids"].content = call.batch
    BY <1>4 DEF Filled
  <2>7. pads_on_device' = pads'
    BY <1>1 DEF InPass
  <2> QED
    BY <1>1, <2>1, <2>2, <2>3, <2>4, <2>5, <2>6, <2>7, SameCall DEF ContentInv, Content
<1>10. SizesInv'
  <2>1. /\ Needed("q")' = Needed("q") /\ Needed("sample_ids")' = Needed("sample_ids")
        /\ Needed("context")' = Needed("context")
        /\ Needed("active_len")' = Needed("active_len")
    BY <1>1, SameCall DEF InPass, Needed
  <2>2. scratch'["q"].size >= Needed("q")
    BY <1>1, <1>4, <1>5 DEF LayerInv, SizesInv
  <2>3. /\ scratch'["sample_ids"].size >= Needed("sample_ids")
        /\ scratch'["context"].size >= Needed("context")
        /\ Decoding => scratch'["active_len"].size >= Needed("active_len")
    BY <1>2, <1>4, <1>5, FilledGrows
  <2> QED
    BY <1>1, <2>1, <2>2, <2>3, SameCall DEF SizesInv
<1> QED
  BY <1>7, <1>8, <1>9, <1>10 DEF LayerInv

-----------------------------------------------------------------------------
(* What the kernels find at the moment they run: every buffer is of this call,
   and what each query meets is its own request up to itself. *)
LEMMA ContextIsRight ==
    ASSUME LayerInv, step = "attend"
    PROVE  RightOutput(Context) /\ Context # Undefined
<1>1. step \in ForwardSteps
  BY DEF ForwardSteps
<1>2. /\ turn \in {"prefilled", "decoded"}
      /\ Batch \in Nat \ {0} /\ call.rows \in Nat \ {0}
      /\ BatchSlots \subseteq Slots /\ \A i \in Indices : call.batch[i] \in BatchSlots
      /\ \A s \in BatchSlots : /\ pads[s] \in Nat /\ pos_len[s] \in Nat
                               /\ pads[s] + pos_len[s] >= call.rows
      /\ turn = "prefilled" => \A s \in BatchSlots : pads[s] + pos_len[s] = call.rows
  BY <1>1, InCall
<1>3. /\ Content("q") = QueryRows
      /\ Batch > 1 => Content("cache_batch") = BatchView
      /\ Decoding => Content("active_len") = [i \in Indices |-> Len_(i)]
      /\ Content("sample_ids") = call.batch /\ pads_on_device = pads
      /\ turn = "decoded" => Decoding
  BY DEF LayerInv, ContentInv, CallInv, Decoding
<1>4. ASSUME NEW i \in Indices
      PROVE  LET s == call.batch[i]
             IN /\ Len_(i) = pads[s] + pos_len[s]
                /\ Len_(i) <= samples[s].capacity /\ samples[s].capacity \in Nat
                /\ \A t \in 1 .. Len_(i) : samples[s].rows[t] = <<s, t - 1 - pads[s]>>
  <2> DEFINE s == call.batch[i]
  <2>1. s \in Slots /\ Held(s) = pads[s] + pos_len[s]
    BY <1>2 DEF Held
  <2>2. /\ samples[s].rows = RowsOf(s, Held(s)) /\ Held(s) <= samples[s].capacity
        /\ samples[s].capacity \in Nat /\ Len(samples[s].rows) = Held(s)
    BY <2>1, SampleRows
  <2>3. Len_(i) = Held(s)
    BY <2>2 DEF Len_
  <2>4. \A t \in 1 .. Held(s) : samples[s].rows[t] = <<s, t - 1 - pads[s]>>
    BY <2>2 DEF RowsOf
  <2> QED
    BY <2>1, <2>2, <2>3, <2>4
<1>5. /\ TotalLen \in Nat /\ \E i \in Indices : TotalLen = Len_(i)
      /\ \A i \in Indices : Len_(i) <= TotalLen /\ Len_(i) \in Nat
  BY <1>1, LongestSample
<1>6. ASSUME NEW i \in Indices, NEW j \in 1 .. call.rows,
             pos_len[call.batch[i]] - call.rows + j - 1 >= 0
      PROVE  Context[i][j] =
               [query |-> <<call.batch[i], pos_len[call.batch[i]] - call.rows + j - 1>>,
                keys |-> [n \in 1 .. pos_len[call.batch[i]] - call.rows + j - 1 + 1
                            |-> <<call.batch[i], n - 1>>]]
  <2> DEFINE s == call.batch[i]
             p == pos_len[s] - call.rows + j - 1
  <2>1. /\ s \in BatchSlots /\ pads[s] \in Nat /\ pos_len[s] \in Nat /\ p \in Nat
        /\ Len_(i) \in Nat /\ Len_(i) = pads[s] + pos_len[s]
        /\ call.rows \in Nat \ {0} /\ j \in 1 .. call.rows
    BY <1>2, <1>4, <1>5, <1>6
  <2>2. KeyLimit(i, j) = pads[s] + p + 1
    <3>1. CASE Decoding
      <4>1. call.rows = 1 /\ j = 1 /\ pads[s] + p + 1 = Len_(i)
        BY <2>1, <3>1 DEF Decoding
      <4>2. Content("active_len")[i] = Len_(i)
        BY <1>3, <3>1
      <4>3. ViewLen \in Nat /\ Len_(i) <= ViewLen
        <5>1. CASE SingleDecode
          <6>1. i = 1
            BY <5>1 DEF SingleDecode, Indices
          <6> QED
            BY <1>4, <5>1, <6>1 DEF ViewLen
        <5>2. CASE ~SingleDecode
          BY <1>5, <5>2 DEF ViewLen
        <5> QED
          BY <5>1, <5>2
      <4>4. Clamp(Len_(i), ViewLen) = Len_(i)
        BY <2>1, <4>3 DEF Clamp
      <4> QED
        BY <3>1, <4>1, <4>2, <4>4 DEF KeyLimit
    <3>2. CASE ~Decoding
      <4>1. turn = "prefilled"
        BY <1>2, <1>3, <3>2
      <4>2. \A k \in Indices : Len_(k) = call.rows
        BY <1>2, <1>4, <4>1
      <4>3. TotalLen = call.rows
        BY <1>5, <4>2
      <4>4. TotalLen - call.rows + j = j /\ pads[s] + p + 1 = j
        BY <2>1, <4>2, <4>3
      <4>5. Clamp(j, TotalLen) = j
        BY <2>1, <4>3 DEF Clamp
      <4> QED
        BY <3>2, <4>4, <4>5 DEF KeyLimit
    <3> QED
      BY <3>1, <3>2
  <2>3. PadRows(i, j) = pads[s]
    <3>1. pads_on_device[Content("sample_ids")[i]] = pads[s]
      BY <1>3
    <3>2. Clamp(pads[s], pads[s] + p + 1) = pads[s]
      <4> HIDE DEF p
      <4> QED
        BY <2>1 DEF Clamp
    <3> QED
      BY <2>2, <3>1, <3>2 DEF PadRows
  <2>4. ASSUME NEW t \in 1 .. p + 1
        PROVE  ViewRow(i, pads[s] + t) = <<s, t - 1>>
    <3>1. PICK u \in Int : u = pads[s] + t
      BY <2>1
    <3>2. u \in 1 .. Len_(i) /\ u - 1 - pads[s] = t - 1
      BY <2>1, <3>1
    <3>3. samples[s].rows[u] = <<s, u - 1 - pads[s]>>
      BY <1>4, <3>2
    <3>4. samples[s].rows[u] = <<s, t - 1>>
      BY <3>2, <3>3
    <3>5. u \in 1 .. TotalLen /\ u <= Len_(i)
      BY <1>5, <3>2
    <3>6. CASE Batch > 1
      <4>1. BatchView[i][u] = samples[s].rows[u]
        BY <3>5 DEF BatchView
      <4> QED
        BY <1>3, <3>1, <3>4, <3>6, <4>1 DEF ViewRow
    <3>7. CASE ~(Batch > 1)
      BY <3>1, <3>4, <3>5, <3>7 DEF ViewRow
    <3> QED
      BY <3>6, <3>7
  <2>5. KeyLimit(i, j) - PadRows(i, j) = p + 1
    <3> HIDE DEF p
    <3> QED
      BY <2>1, <2>2, <2>3
  <2>6. Content("q")[i][j] = <<s, p>>
    <3>1. QueryRows[i] = [k \in 1 .. call.rows |-> <<s, pos_len[s] - call.rows + k - 1>>]
      BY DEF QueryRows
    <3>2. QueryRows[i][j] = <<s, p>>
      BY <3>1
    <3> QED
      BY <1>3, <3>2
  <2>7. Context[i][j] =
          [query |-> Content("q")[i][j],
           keys |-> [t \in 1 .. KeyLimit(i, j) - PadRows(i, j) |-> ViewRow(i, PadRows(i, j) + t)]]
    BY <2>1 DEF Context
  <2>8. [t \in 1 .. KeyLimit(i, j) - PadRows(i, j) |-> ViewRow(i, PadRows(i, j) + t)]
          = [n \in 1 .. p + 1 |-> <<s, n - 1>>]
    BY <2>3, <2>4, <2>5
  <2> QED
    BY <2>6, <2>7, <2>8
<1>7. RightOutput(Context)
  BY <1>6 DEF RightOutput, RightFor, Indices, Batch
<1>8. Context # Undefined
  <2>1. DOMAIN Context = Indices /\ 1 \in Indices
    BY <1>2 DEF Context, Indices
  <2>2. DOMAIN Undefined = {}
    BY DEF Undefined
  <2> QED
    BY <2>1, <2>2
<1> QED
  BY <1>7, <1>8

(* A graph that may be replayed is of the one request that decodes, which is
   alone on the device: no other request has made a buffer move since. *)
LEMMA ReplayIsLive == LayerInv => ReplaysLiveAddresses
<1> SUFFICES ASSUME LayerInv, step = "attend", SingleDecode, CanReuse
             PROVE  graph.addresses = Addresses(scratch)
  BY DEF ReplaysLiveAddresses
<1>1. step \in ForwardSteps
  BY DEF ForwardSteps
<1>2. /\ graph.slot = call.batch[1] /\ Batch = 1 /\ call.batch[1] \in BatchSlots
      /\ BatchSlots \subseteq Slots /\ turn \in {"prefilled", "decoded"}
  BY <1>1, InCall DEF CanReuse, SingleDecode, Indices
<1>3. graph.slot # -1
  BY <1>2, ProtocolAssumption DEF Slots
<1>4. /\ graph.addresses = Addresses(scratch) \/ \E s \in used : s # graph.slot
      /\ turn = "prefilled" => graph.slot \notin BatchSlots
  BY <1>3 DEF LayerInv, GraphInv
<1>5. turn = "decoded"
  BY <1>2, <1>4
<1>6. BatchSlots = SlotsOf(active) /\ next_active = <<>> /\ prepared = <<>>
  BY <1>5 DEF LayerInv, CallInv, ProtocolInv, PhaseLists
<1>7. BatchSlots = {call.batch[1]}
  <2>1. DOMAIN call.batch = 1 .. 1
    BY <1>2 DEF Batch, LayerInv, TypeInv
  <2> QED
    BY <2>1 DEF BatchSlots, SlotsOf
<1>8. used = {graph.slot}
  BY <1>2, <1>6, <1>7, NoSlots DEF LayerInv, ProtocolInv, UsedListed
<1> QED
  BY <1>4, <1>8

(* The buffers when the kernels have run. *)
LEMMA PipelineFacts ==
    ASSUME LayerInv, step = "attend"
    PROVE  /\ DOMAIN AfterPipeline = Scratch
           /\ \A b \in Scratch : GrowsTo(b, AfterPipeline[b])
           /\ AfterPipeline["output"].content = Context
           /\ SingleDecode => \A b \in GraphBuffers : AfterPipeline[b].size >= SingleNeeds(b)
<1>1. step \in ForwardSteps
  BY DEF ForwardSteps
<1>2. /\ DOMAIN scratch = Scratch
      /\ scratch["context"] = [size |-> scratch["context"].size,
                               content |-> scratch["context"].content]
      /\ {"context", "merged", "output"} \subseteq Scratch
  <2>1. {"context", "merged", "output"} \subseteq Scratch
    BY DEF Scratch
  <2> QED
    BY <2>1 DEF LayerInv, TypeInv
<1>3. /\ DOMAIN AfterPipeline = Scratch
      /\ AfterPipeline["context"] = [size |-> scratch["context"].size, content |-> Context]
      /\ AfterPipeline["merged"] = Filled("merged", Context)
      /\ AfterPipeline["output"] = Filled("output", Context)
      /\ \A b \in Scratch \ {"context", "merged", "output"} : AfterPipeline[b] = scratch[b]
  BY <1>2 DEF AfterPipeline, Scratch
<1>4. GrowsTo("context", AfterPipeline["context"])
  <2>1. GrowsTo("context", scratch["context"])
    BY <1>1, <1>2, FilledGrows
  <2> QED
    BY <1>3, <2>1 DEF GrowsTo
<1>5. \A b \in Scratch : GrowsTo(b, AfterPipeline[b])
  BY <1>1, <1>3, <1>4, FilledGrows
<1>6. AfterPipeline["output"].content = Context
  BY <1>1, <1>2, <1>3, FilledGrows
<1>7. ASSUME SingleDecode, NEW b \in GraphBuffers
      PROVE  AfterPipeline[b].size >= SingleNeeds(b)
  <2>1. b \in Scratch
    BY DEF GraphBuffers, Scratch
  <2>2. Needed(b) = SingleNeeds(b) /\ Decoding
    BY <1>1, <1>7, <2>1, FilledGrows DEF SingleDecode
  <2>3. CASE b \in {"q", "sample_ids", "active_len", "context"}
    <3>1. scratch[b].size >= Needed(b)
      BY <2>2, <2>3 DEF LayerInv, SizesInv
    <3>2. AfterPipeline[b].size = scratch[b].size
      BY <1>3, <2>1, <2>3
    <3> QED
      BY <2>2, <3>1, <3>2
  <2>4. CASE b \in {"merged", "output"}
    <3>1. AfterPipeline[b] = Filled(b, Context)
      BY <1>3, <2>4
    <3> QED
      BY <1>1, <2>1, <2>2, <3>1, FilledGrows
  <2> QED
    BY <2>3, <2>4 DEF GraphBuffers
<1> QED
  BY <1>3, <1>5, <1>6, <1>7

(* The kernels have run, however they were launched. *)
LEMMA KernelsInv ==
    ASSUME LayerInv, InPass, step = "attend", step' = "copy", scratch' = AfterPipeline,
           samples' = samples, result' = result, GraphInv'
    PROVE  LayerInv'
<1>1. step \in ForwardSteps
  BY DEF ForwardSteps
<1>2. ScratchGrows
  BY PipelineFacts DEF ScratchGrows
<1>3. TypeInv' /\ ProtocolInv' /\ CallInv'
  BY <1>2, PassTypeInv, PassInv DEF LayerInv, TypeInv
<1>4. SamplesInv'
  <2>1. \A s \in Slots : Held(s)' = Held(s)
    BY SameCall DEF InPass, Held
  <2> QED
    BY <2>1, SameCall DEF InPass, LayerInv, SamplesInv
<1>5. ContentInv'
  <2>1. result' = NoResult
    BY <1>1, InCall
  <2>2. scratch'["output"].content = Context
    BY PipelineFacts
  <2>3. RightOutput(Context) /\ Context # Undefined
    BY ContextIsRight
  <2>4. RightFor(Context, call'.batch, call'.rows, pos_len')
    BY <2>3 DEF RightOutput, InPass
  <2>5. RightOutput(Content("output"))'
    BY <2>2, <2>4 DEF RightOutput, Content
  <2>6. Content("output")' # Undefined
    BY <2>2, <2>3 DEF Content, Undefined
  <2> QED
    BY <2>1, <2>5, <2>6 DEF ContentInv
<1>6. SizesInv'
  BY DEF SizesInv
<1> QED
  BY <1>3, <1>4, <1>5, <1>6 DEF LayerInv

LEMMA LaunchInv ==
    ASSUME LayerInv, LaunchAttention PROVE LayerInv'
<1>1. /\ step = "attend" /\ step' = "copy" /\ InPass /\ scratch' = AfterPipeline
      /\ samples' = samples /\ result' = result
      /\ graph' = IF ~SingleDecode THEN graph
                  ELSE [slot |-> call.batch[1], capacity |-> ViewLen,
                        addresses |-> Addresses(AfterPipeline)]
  BY DEF LaunchAttention, InPass, ForwardSteps
<1>2. step \in ForwardSteps /\ ScratchGrows
  BY <1>1, PipelineFacts DEF InPass, ScratchGrows
<1>3. GraphInv'
  <2>1. CASE ~SingleDecode
    BY <1>1, <1>2, <2>1, PassGraphInv
  <2>2. CASE SingleDecode
    <3>1. call.batch[1] \in used
      BY <1>2, <2>2, InCall DEF SingleDecode, Indices
    <3>2. \A b \in GraphBuffers : scratch'[b].size >= SingleNeeds(b)
      BY <1>1, <2>2, PipelineFacts
    <3>3. graph'.slot = call.batch[1] /\ graph'.addresses = Addresses(scratch')
      BY <1>1, <2>2
    <3> QED
      BY <1>1, <3>1, <3>2, <3>3, SameCall DEF GraphInv
  <2> QED
    BY <2>1, <2>2
<1> QED
  BY <1>1, <1>3, KernelsInv

LEMMA ReplayInv ==
    ASSUME LayerInv, ReplayGraph PROVE LayerInv'
<1>1. /\ step = "attend" /\ step' = "copy" /\ InPass /\ SingleDecode /\ CanReuse
      /\ samples' = samples /\ result' = result /\ graph' = graph
      /\ scratch' = IF graph.addresses = Addresses(scratch) /\ graph.capacity = ViewLen
                    THEN AfterPipeline ELSE scratch
  BY DEF ReplayGraph, InPass, ForwardSteps
<1>2. scratch' = AfterPipeline
  BY <1>1, ReplayIsLive DEF ReplaysLiveAddresses, CanReuse
<1>3. ScratchGrows
  BY <1>1, <1>2, PipelineFacts DEF ScratchGrows
<1> QED
  BY <1>1, <1>2, <1>3, PassGraphInv, KernelsInv

LEMMA CopyInv ==
    ASSUME LayerInv, CopyOutput PROVE LayerInv'
<1>1. /\ step = "copy" /\ step' = "idle" /\ InPass /\ result' = << Content("output") >>
      /\ scratch' = [b \in Scratch |-> [scratch[b] EXCEPT !.content = Undefined]]
      /\ samples' = samples /\ graph' = graph
  BY DEF CopyOutput, InPass, ForwardSteps
<1>2. step \in ForwardSteps
  BY <1>1 DEF InPass
<1>3. ASSUME NEW b \in Scratch
      PROVE  /\ scratch'[b] = [size |-> scratch[b].size, content |-> Undefined]
             /\ scratch'[b].size = scratch[b].size /\ GrowsTo(b, scratch[b])
  <2>1. scratch[b] = [size |-> scratch[b].size, content |-> scratch[b].content]
    BY DEF LayerInv, TypeInv
  <2>2. scratch'[b] = [scratch[b] EXCEPT !.content = Undefined]
    BY <1>1
  <2>3. scratch'[b] = [size |-> scratch[b].size, content |-> Undefined]
    BY <2>1, <2>2
  <2>4. GrowsTo(b, scratch[b])
    BY <1>2, FilledGrows
  <2> QED
    BY <2>3, <2>4
<1>4. ScratchGrows
  BY <1>1, <1>3 DEF ScratchGrows, GrowsTo
<1>5. Addresses(scratch)' = Addresses(scratch)
  <2>1. GraphBuffers \subseteq Scratch
    BY DEF GraphBuffers, Scratch
  <2>2. \A b \in GraphBuffers : scratch'[b].size = scratch[b].size
    BY <1>3, <2>1
  <2> QED
    BY <2>2 DEF Addresses
<1>6. TypeInv' /\ GraphInv' /\ ProtocolInv' /\ CallInv'
  BY <1>1, <1>4, <1>5, PassTypeInv, PassGraphInv, PassInv DEF LayerInv, TypeInv
<1>7. SamplesInv'
  <2>1. \A s \in Slots : Held(s)' = Held(s)
    BY <1>1, SameCall DEF InPass, Held
  <2> QED
    BY <1>1, <2>1, SameCall DEF InPass, LayerInv, SamplesInv
<1>8. ContentInv'
  <2>1. Content("output") # Undefined /\ RightOutput(Content("output"))
    BY <1>1 DEF LayerInv, ContentInv
  <2>2. result'[1] = Content("output")
    BY <1>1
  <2>3. result'[1] # Undefined /\ RightOutput(result[1])'
    BY <1>1, <2>1, <2>2 DEF RightOutput, InPass
  <2> QED
    BY <1>1, <2>3 DEF ContentInv
<1>9. SizesInv'
  BY <1>1 DEF SizesInv
<1> QED
  BY <1>6, <1>7, <1>8, <1>9 DEF LayerInv

-----------------------------------------------------------------------------
LEMMA StepOfProtocol == [Next]_vars => [ProtocolNext]_protocol_vars
<1> SUFFICES ASSUME [Next]_vars PROVE [ProtocolNext]_protocol_vars
  OBVIOUS
<1>1. CASE BeginPrefill \/ BeginDecode \/ NoForward \/ SettleRequest \/ ResetAll
  BY <1>1 DEF BeginPrefill, BeginDecode, NoForward, SettleRequest, ResetAll, ProtocolNext
<1>2. CASE Forward \/ Stopped \/ UNCHANGED vars
  BY <1>2 DEF Forward, PrepareQkv, AppendKvCache, PrepareAttention, LaunchAttention,
     ReplayGraph, CopyOutput, Stopped, vars, protocol_vars
<1> QED
  BY <1>1, <1>2 DEF Next

LEMMA NextLayerInv == LayerInv /\ [Next]_vars => LayerInv'
<1> SUFFICES ASSUME LayerInv, [Next]_vars PROVE LayerInv'
  OBVIOUS
<1>1. ProtocolInv'
  BY StepOfProtocol, NextProtocolInv DEF LayerInv
<1>2. CASE BeginPrefill
  BY <1>1, <1>2, BeginPrefillInv
<1>3. CASE BeginDecode
  BY <1>1, <1>3, BeginDecodeInv
<1>4. CASE NoForward
  BY <1>1, <1>4, NoForwardInv
<1>5. CASE SettleRequest
  BY <1>1, <1>5, SettleInv
<1>6. CASE Forward
  BY <1>6, QkvInv, AppendInv, PrepareInv, LaunchInv, ReplayInv, CopyInv DEF Forward
<1>7. CASE ResetAll
  BY <1>1, <1>7, ResetInv
<1>8. CASE Stopped \/ UNCHANGED vars
  BY <1>1, <1>8, SameInv DEF Stopped
<1> QED
  BY <1>2, <1>3, <1>4, <1>5, <1>6, <1>7, <1>8 DEF Next

LEMMA ResultIsRight == LayerInv => OutputOfThisCall
  BY DEF LayerInv, ContentInv, OutputOfThisCall, RightOutput, RightFor, Indices, Batch

(* A forward pass on the device returns the attention of exactly this call for
   every token, whatever earlier calls left in the scratch buffers, in the
   caches of the slots, in the uploaded pad lengths and in a captured graph. *)
THEOREM DeviceOutputRight == Spec => []OutputOfThisCall
<1>1. Spec => []LayerInv
  BY InitLayerInv, NextLayerInv, PTL DEF Spec
<1> QED
  BY <1>1, ResultIsRight, PTL

(* A graph whose signature allows its replay holds no address of a scratch
   buffer that has been replaced since it was captured, although the signature
   compares none of the six. *)
THEOREM ReplayAddressesLive == Spec => []ReplaysLiveAddresses
<1>1. Spec => []LayerInv
  BY InitLayerInv, NextLayerInv, PTL DEF Spec
<1> QED
  BY <1>1, ReplayIsLive, PTL

(* The layer on the device is called as SlotProtocol says, so what is proved of
   the protocol holds of its slots. *)
THEOREM DeviceFollowsProtocol == Spec => ProtocolSpec
<1>1. Init => ProtocolInit
  BY DEF Init
<1> QED
  BY <1>1, StepOfProtocol, PTL DEF Spec, ProtocolSpec

=============================================================================
