------------------------ MODULE SelfAttnCache_proofs ------------------------
(***************************************************************************)
(* Proofs about SelfAttnCache for every number of slots and layers, every  *)
(* length of prompts and every order of calls the protocol allows.         *)
(***************************************************************************)
EXTENDS SelfAttnCache, SharedParts_proofs

(* The rows a layer has of a slot: those of the forward pass in progress too
   once it has run. *)
Given(l, s) ==
    IF l >= call.layer /\ s \in Batch THEN history[s] - call.rows ELSE history[s]

(* The forward pass in progress is the one the server's turn says: a prefill of
   slots that had nothing, or one more row for every active slot. *)
CallInv ==
    /\ turn \in {"admit", "decode"} => Idle
    /\ ~Idle =>
          /\ call.rows >= 1 /\ call.batch # <<>> /\ Once(call.batch)
          /\ turn = "prefilled" =>
                Batch = SlotsOf(prepared) /\ \A s \in Batch : history[s] = call.rows
          /\ turn = "decoded" =>
                /\ Batch = SlotsOf(active) /\ next_active = <<>> /\ call.rows = 1
                /\ \A s \in Batch : history[s] >= 1

(* A free slot has no rows, and no slot more than an int can count. *)
HistoryInv ==
    /\ \A s \in Slots : history[s] <= MaxInt
    /\ \A s \in Slots \ used : history[s] = 0
    /\ \A s \in SlotsOf(next_active) : history[s] < MaxRows
    /\ turn # "decoded" => \A s \in SlotsOf(active) : history[s] < MaxRows

(* A layer has all rows in one place, and on the device while it uses CUDA. *)
RowsInv ==
    \A l \in Layers, s \in Slots :
        /\ cache_len[l][s] = Given(l, s)
        /\ host_rows[l][s] + device[l][s].len = Given(l, s)
        /\ host_rows[l][s] = 0 \/ device[l][s].len = 0
        /\ UsesCuda(l) => host_rows[l][s] = 0

(* A captured graph is of a slot in use; while its scratch buffers are gone
   another slot is in use too, so that no forward has its slot alone. *)
GraphInv ==
    \A l \in Layers :
        /\ graph[l].slot = -1 => graph[l] = NoGraph
        /\ graph[l].slot # -1 =>
              /\ graph[l].slot \in used
              /\ scratch[l] >= 1
              /\ turn = "prefilled" /\ l >= call.layer => graph[l].slot \notin Batch
        /\ graph[l].scratch_moved => \E s \in used : s # graph[l].slot

LiveInv == CallInv /\ HistoryInv /\ RowsInv /\ GraphInv /\ AttendsWholeHistory

AttnInv ==
    /\ TypeOK /\ ProtocolInv /\ CacheFits /\ PrefillLensUniform
    /\ turn # "stopped" => LiveInv
    /\ turn = "stopped" => HistoryKeptOnce

-----------------------------------------------------------------------------
(* Between forwards a layer has counted and holds the whole history. *)
LEMMA RowsKept == TypeOK /\ RowsInv => HistoryKeptOnce
<1> SUFFICES ASSUME TypeOK, RowsInv, Idle, NEW l \in Layers, NEW s \in Slots
             PROVE  Given(l, s) = history[s]
  BY DEF HistoryKeptOnce, RowsInv
<1>1. ~(l >= call.layer)
  BY CacheAssumption DEF TypeOK, Idle, Layers
<1> QED
  BY <1>1 DEF Given

LEMMA InvImplies ==
    AttnInv => /\ TypeOK /\ HistoryKeptOnce /\ CacheFits /\ PrefillLensUniform
               /\ AttendsWholeHistory
<1>1. turn = "stopped" => AttendsWholeHistory
  BY DEF AttendsWholeHistory
<1> QED
  BY <1>1, RowsKept DEF AttnInv, LiveInv

LEMMA InitAttnInv == Init => AttnInv
<1> SUFFICES ASSUME Init PROVE AttnInv
  OBVIOUS
<1>1. ProtocolInit /\ ProtocolInv
  BY InitProtocolInv DEF Init
<1>2. /\ turn = "admit" /\ used = {} /\ active = <<>> /\ next_active = <<>>
  BY <1>1 DEF ProtocolInit
<1>3. NumLayers \in Nat \ {0} /\ MaxInt \in Nat
  BY CacheAssumption, SizeAssumption
<1>4. /\ call \in [batch : Seq(Slots), rows : Nat, layer : 1 .. NumLayers + 1]
      /\ call.layer = NumLayers + 1 /\ Idle
  BY <1>3, NoSlots DEF Init, Idle
<1>5. /\ history = [s \in Slots |-> 0]
      /\ host_rows = [l \in Layers |-> [s \in Slots |-> 0]]
      /\ cache_len = [l \in Layers |-> [s \in Slots |-> 0]]
      /\ device = [l \in Layers |-> [s \in Slots |-> NoCache]]
      /\ scratch = [l \in Layers |-> 0] /\ graph = [l \in Layers |-> NoGraph]
      /\ available \in BOOLEAN /\ cuda_enabled \in [Layers -> BOOLEAN]
      /\ attended = [s \in Slots |-> 0] /\ failure = "none"
  BY DEF Init
<1>6. TypeOK
  BY <1>1, <1>2, <1>4, <1>5 DEF ProtocolInv, ListsTyped, TypeOK, NoGraph, NoCache
<1>7. CacheFits /\ PrefillLensUniform
  BY <1>3, <1>5 DEF CacheFits, PrefillLensUniform, NoCache
<1>8. CallInv /\ HistoryInv /\ GraphInv /\ AttendsWholeHistory
  BY <1>2, <1>3, <1>4, <1>5, NoSlots
     DEF CallInv, HistoryInv, GraphInv, AttendsWholeHistory, NoGraph
<1>9. RowsInv
  <2>1. \A l \in Layers : ~(l >= call.layer)
    BY <1>3, <1>4 DEF Layers
  <2> QED
    BY <1>5, <2>1 DEF RowsInv, Given, NoCache
<1> QED
  BY <1>1, <1>2, <1>6, <1>7, <1>8, <1>9 DEF AttnInv, LiveInv

-----------------------------------------------------------------------------
(* Every step is a step of the protocol or leaves its variables alone. *)
LEMMA StepOfProtocol == [Next]_vars => [ProtocolNext]_protocol_vars
<1> SUFFICES ASSUME [Next]_vars PROVE [ProtocolNext]_protocol_vars
  OBVIOUS
<1>1. CASE BeginPrefill \/ BeginDecode \/ NoForward \/ SettleRequest \/ ResetAll
  BY <1>1 DEF BeginPrefill, BeginDecode, NoForward, SettleRequest, ResetAll, ProtocolNext
<1>2. ASSUME NEW l \in Layers,
             CudaForward(l) \/ CudaFailsWithCache(l) \/ FallBack(l) \/ CpuForward(l)
      PROVE  Stop \/ UNCHANGED protocol_vars
  BY <1>2 DEF CudaForward, CudaFailsWithCache, FallBack, CpuForward, CpuPath, CpuAppends,
     Throw, LayerDone
<1>3. CASE RuntimeDisabled \/ Stopped \/ UNCHANGED vars
  BY <1>3 DEF RuntimeDisabled, Stopped, vars
<1> QED
  BY <1>1, <1>2, <1>3 DEF Next, ProtocolNext

(* The steps after which every layer is as it was: the protocol goes on
   without the model, or nothing happens at all. *)
LEMMA NoForwardInv ==
    ASSUME AttnInv, ProtocolInv', NoForward PROVE AttnInv'
<1>1. /\ UNCHANGED <<call, history, layer_vars, failure>> /\ UNCHANGED used
      /\ turn # "stopped" /\ turn' \in {"admit", "decode"} /\ Idle
      /\ turn = "decoded" => active' = next_active
      /\ turn # "decoded" => active' = active
      /\ SlotsOf(next_active') \subseteq SlotsOf(next_active)
  BY NoSlots DEF NoForward, NoPrefill, NoDecode, EndPrefill, EndDecode
<1>2. TypeOK' /\ CacheFits' /\ PrefillLensUniform'
  BY <1>1 DEF AttnInv, TypeOK, layer_vars, CacheFits, PrefillLensUniform, ProtocolInv,
     ListsTyped
<1>3. LiveInv
  BY <1>1 DEF AttnInv
<1>4. Idle' /\ CallInv' /\ AttendsWholeHistory'
  BY <1>1 DEF Idle, CallInv, AttendsWholeHistory
<1>5. HistoryInv'
  BY <1>1, <1>3 DEF LiveInv, HistoryInv
<1>6. RowsInv'
  BY <1>1, <1>3 DEF LiveInv, RowsInv, Given, Batch, UsesCuda, layer_vars
<1>7. GraphInv'
  BY <1>1, <1>3 DEF LiveInv, GraphInv, layer_vars
<1> QED
  BY <1>1, <1>2, <1>4, <1>5, <1>6, <1>7 DEF AttnInv, LiveInv

LEMMA SameInv ==
    ASSUME AttnInv, ProtocolInv', RuntimeDisabled \/ UNCHANGED vars PROVE AttnInv'
<1>1. /\ UNCHANGED <<protocol_vars, call, history, cuda_enabled, host_rows, cache_len,
                     device, scratch, graph, attended, failure>>
      /\ available' = FALSE \/ available' = available
  BY DEF RuntimeDisabled, vars, layer_vars
<1>2. TypeOK' /\ CacheFits' /\ PrefillLensUniform' /\ (HistoryKeptOnce => HistoryKeptOnce')
  BY <1>1 DEF AttnInv, TypeOK, CacheFits, PrefillLensUniform, HistoryKeptOnce, Idle,
     protocol_vars
<1>3. LiveInv => CallInv' /\ HistoryInv' /\ AttendsWholeHistory'
  BY <1>1 DEF LiveInv, CallInv, HistoryInv, AttendsWholeHistory, Idle, Batch, protocol_vars
<1>4. LiveInv => RowsInv' /\ GraphInv'
  BY <1>1 DEF LiveInv, RowsInv, GraphInv, Given, Batch, UsesCuda, protocol_vars
<1> QED
  BY <1>1, <1>2, <1>3, <1>4 DEF AttnInv, LiveInv, protocol_vars

(* A forward pass begins: no layer has run. *)
LEMMA BeginInv ==
    ASSUME AttnInv, ProtocolInv', turn # "stopped", Idle,
           NEW batch \in Seq(Slots), NEW rows \in Nat \ {0}, BeginForward(batch, rows),
           batch # <<>>, Once(batch), SlotsOf(batch) \subseteq used',
           used \subseteq used', turn' \in {"prefilled", "decoded"},
           \A s \in SlotsOf(batch) : history[s] + rows <= MaxInt,
           \A s \in SlotsOf(active') \cup SlotsOf(next_active') :
              turn' # "decoded" => history[s] < MaxRows /\ s \notin SlotsOf(batch),
           turn' = "decoded" => next_active' = <<>>,
           turn' = "prefilled" => /\ SlotsOf(batch) = SlotsOf(prepared')
                                  /\ SlotsOf(batch) \cap used = {},
           turn' = "decoded" => SlotsOf(batch) = SlotsOf(active') /\ rows = 1
    PROVE  AttnInv'
<1>1. /\ call' = [batch |-> batch, rows |-> rows, layer |-> 1]
      /\ history' = [s \in Slots |->
            IF s \in SlotsOf(batch) THEN history[s] + rows ELSE history[s]]
      /\ UNCHANGED <<layer_vars, failure>>
      /\ Batch' = SlotsOf(batch) /\ SlotsOf(batch) \subseteq Slots
  BY SlotsTyped DEF BeginForward, Batch
<1>2. TypeOK /\ LiveInv /\ NumLayers \in Nat \ {0} /\ history \in [Slots -> Nat]
  BY CacheAssumption DEF AttnInv, TypeOK
<1>3. TypeOK'
  <2>1. call' \in [batch : Seq(Slots), rows : Nat, layer : 1 .. NumLayers + 1]
    BY <1>1, <1>2
  <2>2. history' \in [Slots -> Nat]
    BY <1>1, <1>2
  <2>3. used' \subseteq Slots
    BY SlotsTyped DEF ProtocolInv, ListsTyped, UsedListed
  <2> QED
    BY <1>1, <1>2, <2>1, <2>2, <2>3 DEF TypeOK, layer_vars, ProtocolInv, ListsTyped
<1>4. CacheFits' /\ PrefillLensUniform'
  BY <1>1 DEF AttnInv, CacheFits, PrefillLensUniform, layer_vars
<1>5. \A s \in SlotsOf(batch) : history[s] \in Nat /\ history'[s] = history[s] + rows
  BY <1>1, <1>2
<1>6. CallInv'
  <2>1. turn' = "prefilled" => \A s \in SlotsOf(batch) : history[s] = 0
    BY <1>1, <1>2 DEF LiveInv, HistoryInv
  <2>2. turn' = "prefilled" =>
          Batch' = SlotsOf(prepared') /\ \A s \in Batch' : history'[s] = call'.rows
    BY <1>1, <1>5, <2>1
  <2>3. turn' = "decoded" =>
          /\ Batch' = SlotsOf(active') /\ next_active' = <<>> /\ call'.rows = 1
          /\ \A s \in Batch' : history'[s] >= 1
    <3>1. \A s \in SlotsOf(batch) : history'[s] >= 1
      BY <1>5
    <3> QED
      BY <1>1, <3>1
  <2>4. call'.rows >= 1 /\ call'.batch # <<>> /\ Once(call'.batch)
    BY <1>1
  <2> QED
    BY <2>2, <2>3, <2>4 DEF CallInv, Idle
<1>7. HistoryInv'
  <2>1. \A s \in Slots : history'[s] <= MaxInt
    BY <1>1, <1>2 DEF LiveInv, HistoryInv
  <2>2. \A s \in Slots \ used' : history'[s] = 0
    BY <1>1, <1>2 DEF LiveInv, HistoryInv
  <2>3. turn' # "decoded" => \A s \in SlotsOf(active') \cup SlotsOf(next_active') :
                                history'[s] < MaxRows
    <3>1. SlotsOf(active') \subseteq Slots /\ SlotsOf(next_active') \subseteq Slots
      BY SlotsTyped DEF ProtocolInv, ListsTyped
    <3> QED
      BY <1>1, <3>1
  <2> QED
    BY <2>1, <2>2, <2>3, NoSlots DEF HistoryInv
<1>8. RowsInv'
  <2> SUFFICES ASSUME NEW l \in Layers, NEW s \in Slots
               PROVE  Given(l, s)' = Given(l, s) /\ UsesCuda(l)' = UsesCuda(l)
    BY <1>1, <1>2 DEF LiveInv, RowsInv, layer_vars
  <2>1. Given(l, s) = history[s]
    BY <1>2 DEF Given, Idle, Layers, TypeOK
  <2>2. Given(l, s)' = IF s \in SlotsOf(batch) THEN history'[s] - rows ELSE history'[s]
    BY <1>1 DEF Given, Layers
  <2>3. Given(l, s)' = history[s]
    BY <1>1, <1>2, <1>5, <2>2
  <2> QED
    BY <1>1, <2>1, <2>3 DEF UsesCuda, layer_vars
<1>9. GraphInv'
  BY <1>1, <1>2 DEF LiveInv, GraphInv, layer_vars
<1>10. AttendsWholeHistory'
  BY <1>1 DEF AttendsWholeHistory
<1> QED
  BY <1>3, <1>4, <1>6, <1>7, <1>8, <1>9, <1>10 DEF AttnInv, LiveInv

LEMMA BeginPrefillInv ==
    ASSUME AttnInv, ProtocolInv', BeginPrefill PROVE AttnInv'
<1>1. PICK k \in 1 .. MaxActive, rows \in PromptRows :
         Prefill(k) /\ BeginForward(Popped(k), rows)
  BY DEF BeginPrefill
<1>2. /\ turn = "admit" /\ turn' = "prefilled" /\ prepared' = Popped(k)
      /\ used' = used \cup SlotsOf(Popped(k)) /\ active' = active
      /\ next_active' = next_active /\ next_active = <<>> /\ prepared = <<>>
      /\ k \in Nat \ {0} /\ k <= Len(free_slots)
  BY <1>1, ProtocolAssumption DEF Prefill, AttnInv, ProtocolInv, PhaseLists
<1>3. LiveInv /\ Idle /\ rows \in Nat \ {0} /\ rows <= MaxInt
  BY <1>2, CacheAssumption, SizeAssumption DEF AttnInv, LiveInv, CallInv
<1>4. /\ Popped(k) \in Seq(Slots) /\ Once(Popped(k)) /\ Popped(k) # <<>>
      /\ SlotsOf(Popped(k)) \subseteq SlotsOf(free_slots)
  BY <1>2, PopSlots DEF AttnInv, ProtocolInv, ListsTyped, ListsApart
<1>5. /\ SlotsOf(free_slots) \subseteq Slots
      /\ SlotsOf(free_slots) \cap used = {} /\ SlotsOf(active) \subseteq used
  BY <1>2, SlotsTyped DEF AttnInv, ProtocolInv, ListsTyped, ListsApart, UsedListed
<1>6. \A s \in SlotsOf(Popped(k)) : history[s] = 0
  BY <1>3, <1>4, <1>5 DEF LiveInv, HistoryInv
<1>7. \A s \in SlotsOf(active) \cup SlotsOf(next_active) :
         history[s] < MaxRows /\ s \notin SlotsOf(Popped(k))
  BY <1>2, <1>3, <1>4, <1>5, NoSlots DEF LiveInv, HistoryInv
<1> QED
  BY <1>1, <1>2, <1>3, <1>4, <1>5, <1>6, <1>7, BeginInv

LEMMA BeginDecodeInv ==
    ASSUME AttnInv, ProtocolInv', BeginDecode PROVE AttnInv'
<1>1. /\ turn = "decode" /\ turn' = "decoded" /\ active # <<>>
      /\ UNCHANGED <<active, next_active, used>> /\ BeginForward(active, 1)
      /\ next_active = <<>>
  BY DEF BeginDecode, Decode, AttnInv, ProtocolInv, PhaseLists
<1>2. LiveInv /\ Idle
  BY <1>1 DEF AttnInv, LiveInv, CallInv
<1>3. active \in Seq(Slots) /\ Once(active) /\ SlotsOf(active) \subseteq used
  BY DEF AttnInv, ProtocolInv, ListsTyped, ListsApart, UsedListed
<1>4. \A s \in SlotsOf(active) : history[s] + 1 <= MaxInt
  <2>1. MaxRows \in Nat /\ MaxRows <= MaxInt /\ MaxInt \in Nat
    BY CacheAssumption, SizeAssumption
  <2>2. \A s \in SlotsOf(active) : history[s] < MaxRows /\ history[s] \in Nat
    BY <1>1, <1>2, <1>3, SlotsTyped DEF LiveInv, HistoryInv, AttnInv, TypeOK
  <2> QED
    BY <2>1, <2>2
<1> QED
  BY <1>1, <1>2, <1>3, <1>4, BeginInv

(* A request was settled: its slot is cleared in every layer, or it goes on. *)
LEMMA ClearInv ==
    ASSUME AttnInv, ProtocolInv', turn # "stopped", turn' = turn, Idle,
           NEW slot \in Slots, ClearSlot(slot), used' = used \ {slot},
           SlotsOf(active') \subseteq SlotsOf(active), next_active' = next_active
    PROVE  AttnInv'
<1>1. /\ history' = [history EXCEPT ![slot] = 0]
      /\ host_rows' = [l \in Layers |-> [host_rows[l] EXCEPT ![slot] = 0]]
      /\ cache_len' = [l \in Layers |-> [cache_len[l] EXCEPT ![slot] = 0]]
      /\ device' = [l \in Layers |-> [device[l] EXCEPT ![slot] = NoCache]]
      /\ graph' = [l \in Layers |-> NoGraph]
      /\ UNCHANGED <<call, available, cuda_enabled, scratch, attended, failure>>
  BY DEF ClearSlot
<1>2. TypeOK /\ LiveInv /\ CacheFits
  BY DEF AttnInv
<1>3. TypeOK'
  <2>1. history' \in [Slots -> Nat]
    BY <1>1, <1>2 DEF TypeOK
  <2>2. /\ host_rows' \in [Layers -> [Slots -> Nat]]
        /\ cache_len' \in [Layers -> [Slots -> Nat]]
    BY <1>1, <1>2 DEF TypeOK
  <2>3. device' \in [Layers -> [Slots -> [len : Nat, capacity : Nat]]]
    <3>1. NoCache \in [len : Nat, capacity : Nat]
      BY DEF NoCache
    <3> QED
      BY <1>1, <1>2, <3>1 DEF TypeOK
  <2>4. graph' \in [Layers -> [slot : Slots \cup {-1}, capacity : Nat,
                               scratch_moved : BOOLEAN]]
    BY <1>1 DEF NoGraph
  <2>5. used' \subseteq Slots
    BY <1>2 DEF TypeOK
  <2> QED
    BY <1>1, <1>2, <2>1, <2>2, <2>3, <2>4, <2>5 DEF TypeOK, ProtocolInv, ListsTyped
<1>4. \A l \in Layers, s \in Slots :
         /\ history'[s] = IF s = slot THEN 0 ELSE history[s]
         /\ host_rows'[l][s] = IF s = slot THEN 0 ELSE host_rows[l][s]
         /\ cache_len'[l][s] = IF s = slot THEN 0 ELSE cache_len[l][s]
         /\ device'[l][s] = IF s = slot THEN NoCache ELSE device[l][s]
  BY <1>1, <1>2 DEF TypeOK
<1>5. CacheFits' /\ PrefillLensUniform'
  BY <1>1, <1>2, <1>4, SizeAssumption
     DEF AttnInv, CacheFits, PrefillLensUniform, NoCache
<1>6. CallInv'
  BY <1>1, <1>2 DEF LiveInv, CallInv, Idle
<1>7. HistoryInv'
  <2>1. 0 <= MaxInt
    BY SizeAssumption
  <2>2. \A s \in Slots : history'[s] <= MaxInt
    BY <1>1, <1>2, <2>1 DEF LiveInv, HistoryInv, TypeOK
  <2>3. \A s \in Slots \ used' : history'[s] = 0
    BY <1>1, <1>2 DEF LiveInv, HistoryInv, TypeOK
  <2>4. SlotsOf(active) \subseteq Slots /\ SlotsOf(next_active) \subseteq Slots
    BY <1>2, SlotsTyped DEF TypeOK
  <2>5. slot \notin SlotsOf(active') /\ slot \notin SlotsOf(next_active')
    BY DEF ProtocolInv, UsedListed
  <2>6. \A s \in Slots : s # slot => history'[s] = history[s]
    BY <1>1, <1>2 DEF TypeOK
  <2> QED
    BY <1>2, <2>2, <2>3, <2>4, <2>5, <2>6 DEF LiveInv, HistoryInv
<1>8. RowsInv'
  <2> SUFFICES ASSUME NEW l \in Layers, NEW s \in Slots
               PROVE  /\ cache_len'[l][s] = Given(l, s)'
                      /\ host_rows'[l][s] + device'[l][s].len = Given(l, s)'
                      /\ host_rows'[l][s] = 0 \/ device'[l][s].len = 0
                      /\ UsesCuda(l)' => host_rows'[l][s] = 0
    BY DEF RowsInv
  <2>1. Given(l, s) = history[s] /\ Given(l, s)' = history'[s] /\ UsesCuda(l)' = UsesCuda(l)
    <3>1. ~(l >= call.layer) /\ ~(l >= call'.layer)
      BY <1>1, <1>2, CacheAssumption DEF Idle, Layers, TypeOK
    <3> QED
      BY <1>1, <3>1 DEF Given, UsesCuda
  <2> QED
    BY <1>2, <1>4, <2>1 DEF LiveInv, RowsInv, NoCache
<1>9. GraphInv'
  BY <1>1 DEF GraphInv, NoGraph
<1>10. AttendsWholeHistory'
  <2> SUFFICES ASSUME call.layer > 1, failure = "none", turn \in {"prefilled", "decoded"},
                      NEW s \in Batch, history'[s] > 0
               PROVE  attended[s] = history'[s]
    BY <1>1 DEF AttendsWholeHistory, Batch
  <2>1. s \in Slots
    BY <1>2, SlotsTyped DEF Batch, TypeOK
  <2>2. s # slot /\ history'[s] = history[s]
    BY <1>1, <1>2, <2>1 DEF TypeOK
  <2> QED
    BY <1>2, <2>2 DEF LiveInv, AttendsWholeHistory
<1> QED
  BY <1>3, <1>5, <1>6, <1>7, <1>8, <1>9, <1>10 DEF AttnInv, LiveInv

LEMMA GoOnInv ==
    ASSUME AttnInv, ProtocolInv', turn # "stopped", turn' = turn, Idle,
           NEW slot \in Slots, history[slot] < MaxRows,
           UNCHANGED <<call, history, layer_vars, failure>>, used' = used,
           SlotsOf(active') \subseteq SlotsOf(active) \cup {slot},
           SlotsOf(next_active') \subseteq SlotsOf(next_active) \cup {slot}
    PROVE  AttnInv'
<1>1. TypeOK' /\ CacheFits' /\ PrefillLensUniform'
  BY DEF AttnInv, TypeOK, layer_vars, CacheFits, PrefillLensUniform, ProtocolInv, ListsTyped
<1>2. LiveInv
  BY DEF AttnInv
<1>3. CallInv' /\ AttendsWholeHistory'
  BY <1>2 DEF LiveInv, Idle, CallInv, AttendsWholeHistory, Batch, layer_vars
<1>4. HistoryInv'
  BY <1>2 DEF LiveInv, HistoryInv
<1>5. RowsInv' /\ GraphInv'
  BY <1>2 DEF LiveInv, RowsInv, GraphInv, Given, Batch, UsesCuda, layer_vars
<1> QED
  BY <1>1, <1>3, <1>4, <1>5 DEF AttnInv, LiveInv

LEMMA SettleInv ==
    ASSUME AttnInv, ProtocolInv', SettleRequest PROVE AttnInv'
<1>1. PICK finished \in BOOLEAN :
         \/ SettlePrefill(finished) /\ Settle(Head(prepared), finished)
         \/ SettleDecode(finished) /\ Settle(Head(active), finished)
  BY DEF SettleRequest
<1>2. CASE SettlePrefill(finished) /\ Settle(Head(prepared), finished)
  <2>1. /\ turn = "prefilled" /\ turn' = turn /\ Idle /\ prepared # <<>>
        /\ next_active' = next_active
    BY <1>2 DEF SettlePrefill, Settle
  <2>2. Head(prepared) \in Slots /\ active \in Seq(Slots) /\ Once(active)
    BY <2>1, DropSlot DEF AttnInv, ProtocolInv, ListsTyped, ListsApart
  <2>3. CASE finished
    BY <1>2, <2>1, <2>2, <2>3, ClearInv DEF SettlePrefill, Settle, Release
  <2>4. CASE ~finished
    <3>1. /\ active' = Append(active, Head(prepared)) /\ used' = used
          /\ history[Head(prepared)] < MaxRows
          /\ UNCHANGED <<call, history, layer_vars, failure>>
      BY <1>2, <2>4 DEF SettlePrefill, Settle, Keep
    <3>2. SlotsOf(active') = SlotsOf(active) \cup {Head(prepared)}
      <4>1. Head(prepared) \notin SlotsOf(active)
        BY <2>1, DropSlot DEF AttnInv, ProtocolInv, ListsTyped, ListsApart
      <4> QED
        BY <2>2, <3>1, <4>1, AddSlot
    <3> QED
      BY <2>1, <2>2, <3>1, <3>2, GoOnInv
  <2> QED
    BY <2>3, <2>4
<1>3. CASE SettleDecode(finished) /\ Settle(Head(active), finished)
  <2>1. /\ turn = "decoded" /\ turn' = turn /\ Idle /\ active # <<>>
        /\ active' = Tail(active)
    BY <1>3 DEF SettleDecode, Settle
  <2>2. /\ Head(active) \in Slots /\ next_active \in Seq(Slots) /\ Once(next_active)
        /\ SlotsOf(active') \subseteq SlotsOf(active)
        /\ Head(active) \notin SlotsOf(next_active)
    BY <2>1, DropSlot DEF AttnInv, ProtocolInv, ListsTyped, ListsApart
  <2>3. CASE finished
    BY <1>3, <2>1, <2>2, <2>3, ClearInv DEF SettleDecode, Settle, Release
  <2>4. CASE ~finished
    <3>1. /\ next_active' = Append(next_active, Head(active)) /\ used' = used
          /\ history[Head(active)] < MaxRows
          /\ UNCHANGED <<call, history, layer_vars, failure>>
      BY <1>3, <2>4 DEF SettleDecode, Settle, Keep
    <3>2. SlotsOf(next_active') = SlotsOf(next_active) \cup {Head(active)}
      BY <2>2, <3>1, AddSlot
    <3> QED
      BY <2>1, <2>2, <3>1, <3>2, GoOnInv
  <2> QED
    BY <2>3, <2>4
<1> QED
  BY <1>1, <1>2, <1>3

LEMMA ResetInv ==
    ASSUME AttnInv, ProtocolInv', ResetAll PROVE AttnInv'
<1>1. /\ turn # "stopped" /\ turn' = "stopped" /\ UNCHANGED used /\ Idle
      /\ history' = [s \in Slots |-> 0]
      /\ host_rows' = [l \in Layers |-> [s \in Slots |-> 0]]
      /\ cache_len' = [l \in Layers |-> [s \in Slots |-> 0]]
      /\ device' = [l \in Layers |-> [s \in Slots |-> NoCache]]
      /\ graph' = [l \in Layers |-> NoGraph]
      /\ UNCHANGED <<call, available, cuda_enabled, scratch, attended, failure>>
  BY DEF ResetAll, Stop
<1>2. TypeOK'
  BY <1>1 DEF AttnInv, TypeOK, ProtocolInv, ListsTyped, NoCache, NoGraph
<1>3. CacheFits' /\ PrefillLensUniform' /\ HistoryKeptOnce'
  BY <1>1, SizeAssumption
     DEF AttnInv, CacheFits, PrefillLensUniform, HistoryKeptOnce, NoCache
<1> QED
  BY <1>1, <1>2, <1>3 DEF AttnInv

-----------------------------------------------------------------------------
(* One layer of a forward pass. *)

LEMMA InForwardFacts ==
    ASSUME AttnInv, InForward
    PROVE  /\ turn \in {"prefilled", "decoded"} /\ ~Idle /\ LiveInv /\ TypeOK
           /\ call.layer \in Layers /\ call.layer \in Nat
           /\ call.batch \in Seq(Slots) /\ Len(call.batch) \in Nat \ {0}
           /\ Batch \subseteq Slots /\ Batch \subseteq used
           /\ \A i \in 1 .. Len(call.batch) : call.batch[i] \in Batch
           /\ \A s \in Batch : \E i \in 1 .. Len(call.batch) : call.batch[i] = s
           /\ call.rows \in Nat \ {0}
           /\ \A s \in Batch : history[s] >= call.rows
           /\ \A s \in Slots : history[s] \in Nat /\ history[s] <= MaxInt
           /\ \A s \in Slots : Given(call.layer, s) =
                 IF s \in Batch THEN history[s] - call.rows ELSE history[s]
<1>1. TypeOK /\ LiveInv /\ call.layer \in Layers /\ call.layer \in Nat /\ ~Idle
  <2>1. TypeOK /\ LiveInv /\ call.layer \in Layers
    BY DEF AttnInv, InForward
  <2>2. call.layer \in Nat /\ ~(call.layer > NumLayers)
    BY <2>1, CacheAssumption DEF Layers
  <2> QED
    BY <2>1, <2>2 DEF Idle
<1>2. turn \in {"prefilled", "decoded"}
  BY <1>1 DEF InForward, TypeOK, Turns, LiveInv, CallInv
<1>3. call.batch \in Seq(Slots) /\ call.batch # <<>> /\ call.rows \in Nat \ {0}
  BY <1>1 DEF TypeOK, LiveInv, CallInv
<1>4. Batch \subseteq used
  BY <1>1, <1>2 DEF LiveInv, CallInv, AttnInv, ProtocolInv, UsedListed
<1>5. \A s \in Batch : history[s] >= call.rows
  <2>1. turn = "prefilled" => \A s \in Batch : history[s] = call.rows
    BY <1>1 DEF LiveInv, CallInv
  <2>2. turn = "decoded" => call.rows = 1 /\ \A s \in Batch : history[s] >= 1
    BY <1>1 DEF LiveInv, CallInv
  <2> QED
    BY <1>2, <1>3, <2>1, <2>2
<1>6. /\ DOMAIN call.batch = 1 .. Len(call.batch) /\ Len(call.batch) \in Nat \ {0}
      /\ Batch \subseteq Slots
  BY <1>3, SlotsTyped, EmptySeq DEF Batch
<1>7. \A s \in Slots : history[s] \in Nat /\ history[s] <= MaxInt
  BY <1>1 DEF TypeOK, LiveInv, HistoryInv
<1>8. \A s \in Slots : Given(call.layer, s) =
         IF s \in Batch THEN history[s] - call.rows ELSE history[s]
  BY <1>1 DEF Given
<1>9. /\ \A i \in 1 .. Len(call.batch) : call.batch[i] \in Batch
      /\ \A s \in Batch : \E i \in 1 .. Len(call.batch) : call.batch[i] = s
  BY <1>6 DEF Batch, SlotsOf
<1> QED
  BY <1>1, <1>2, <1>3, <1>4, <1>5, <1>6, <1>7, <1>8, <1>9

(* The device caches of a layer: each holds its rows. *)
Sound(caches) ==
    /\ caches \in [Slots -> [len : Nat, capacity : Nat]]
    /\ \A s \in Slots : caches[s].len <= caches[s].capacity /\ caches[s].capacity <= MaxInt

LEMMA AppendedSound ==
    ASSUME AttnInv, InForward, NEW s \in Batch
    PROVE  LET old == device[call.layer][s]
               new == Appended(old)
           IN /\ old \in [len : Nat, capacity : Nat]
              /\ new \in [len : Nat, capacity : Nat]
              /\ new.len = old.len + call.rows
              /\ new.len <= new.capacity /\ new.capacity <= MaxInt
              /\ old.len <= new.capacity
<1> DEFINE old == device[call.layer][s]
           len == old.len + call.rows
           capacity == Ensured(old.capacity, len, MinCacheLen)
<1>1. /\ TypeOK /\ LiveInv /\ CacheFits /\ s \in Slots /\ call.layer \in Layers
      /\ call.rows \in Nat /\ history[s] \in Nat /\ history[s] <= MaxInt
      /\ Given(call.layer, s) = history[s] - call.rows
  BY InForwardFacts DEF AttnInv
<1>2. /\ old \in [len : Nat, capacity : Nat] /\ host_rows[call.layer][s] \in Nat
      /\ old.len \in Nat /\ old.capacity \in Nat /\ old.capacity <= MaxInt
      /\ host_rows[call.layer][s] + old.len = history[s] - call.rows
  BY <1>1 DEF TypeOK, CacheFits, LiveInv, RowsInv
<1>3. len \in Nat /\ len <= MaxInt /\ MaxInt \in Nat
  BY <1>1, <1>2, SizeAssumption
<1>4. MinCacheLen \in Nat \ {0} /\ MinCacheLen <= MaxInt
  BY CacheAssumption, SizeAssumption
<1>5. capacity \in Nat /\ capacity >= len /\ capacity <= MaxInt
  <2> HIDE DEF len
  <2> QED
    BY <1>2, <1>3, <1>4, EnsuredSuffices
<1>6. Appended(old) = [len |-> len, capacity |-> capacity]
  BY DEF Appended
<1> HIDE DEF capacity, old
<1> QED
  BY <1>1, <1>2, <1>3, <1>5, <1>6 DEF old

LEMMA AppendFirstSound ==
    ASSUME AttnInv, InForward, NEW n \in 0 .. Len(call.batch)
    PROVE  Sound(AppendFirst(call.layer, n))
<1>1. /\ TypeOK /\ CacheFits /\ call.layer \in Layers /\ Len(call.batch) \in Nat
      /\ \A i \in 1 .. Len(call.batch) : call.batch[i] \in Batch
  BY InForwardFacts DEF AttnInv
<1>2. \A s \in Slots :
         /\ AppendFirst(call.layer, n)[s] \in {Appended(device[call.layer][s]),
                                               device[call.layer][s]}
         /\ s \notin Batch => AppendFirst(call.layer, n)[s] = device[call.layer][s]
  BY <1>1 DEF AppendFirst
<1>3. \A s \in Slots :
         /\ device[call.layer][s] \in [len : Nat, capacity : Nat]
         /\ device[call.layer][s].len <= device[call.layer][s].capacity
         /\ device[call.layer][s].capacity <= MaxInt
  BY <1>1 DEF TypeOK, CacheFits
<1>4. \A s \in Batch :
         /\ Appended(device[call.layer][s]) \in [len : Nat, capacity : Nat]
         /\ Appended(device[call.layer][s]).len <= Appended(device[call.layer][s]).capacity
         /\ Appended(device[call.layer][s]).capacity <= MaxInt
  BY AppendedSound
<1>5. ASSUME NEW s \in Slots
      PROVE  /\ AppendFirst(call.layer, n)[s] \in [len : Nat, capacity : Nat]
             /\ AppendFirst(call.layer, n)[s].len <= AppendFirst(call.layer, n)[s].capacity
             /\ AppendFirst(call.layer, n)[s].capacity <= MaxInt
  <2>1. CASE s \in Batch
    BY <1>2, <1>3, <1>4, <2>1
  <2>2. CASE s \notin Batch
    BY <1>2, <1>3, <2>2
  <2> QED
    BY <2>1, <2>2
<1> QED
  BY <1>5 DEF Sound, AppendFirst

LEMMA CacheAfterRows ==
    ASSUME AttnInv, InForward
    PROVE  /\ Sound(CacheAfter(call.layer))
           /\ \A s \in Slots : CacheAfter(call.layer)[s].len =
                 device[call.layer][s].len + (IF s \in Batch THEN call.rows ELSE 0)
<1>1. /\ TypeOK /\ call.layer \in Layers /\ Len(call.batch) \in Nat
      /\ \A i \in 1 .. Len(call.batch) : call.batch[i] \in Batch
      /\ \A s \in Batch : \E i \in 1 .. Len(call.batch) : call.batch[i] = s
  BY InForwardFacts
<1>2. ASSUME NEW s \in Slots
      PROVE  CacheAfter(call.layer)[s] =
                IF s \in Batch THEN Appended(device[call.layer][s])
                ELSE device[call.layer][s]
  BY <1>1 DEF CacheAfter, AppendFirst
<1>3. \A s \in Slots : device[call.layer][s].len \in Nat
  BY <1>1 DEF TypeOK
<1>4. Sound(CacheAfter(call.layer))
  BY <1>1, AppendFirstSound DEF CacheAfter
<1> QED
  BY <1>2, <1>3, <1>4, AppendedSound

(* What a failed forward leaves on the device; and if the search finds nothing
   there, no row was added. *)
LEMMA FailedCaches ==
    ASSUME AttnInv, InForward, NEW caches \in CacheAfterFailure(call.layer)
    PROVE  /\ Sound(caches)
           /\ ~HasCudaCache(caches) =>
                \A s \in Slots : caches[s].len = device[call.layer][s].len
           /\ ~HasCudaCache(caches) => \A s \in Batch : caches[s].len = 0
<1> DEFINE l == call.layer
           after(n) == AppendFirst(l, n)
<1>1. /\ TypeOK /\ l \in Layers /\ Len(call.batch) \in Nat \ {0} /\ Batch \subseteq Slots
      /\ \A i \in 1 .. Len(call.batch) : call.batch[i] \in Batch
      /\ call.rows \in Nat \ {0}
  BY InForwardFacts
<1>2. PICK n \in 0 .. Len(call.batch) :
         /\ Sound(caches)
         /\ \A s \in Slots : caches[s].len = after(n)[s].len
  <2>1. CASE \E n \in 0 .. Len(call.batch) : caches = after(n)
    BY <2>1, AppendFirstSound
  <2>2. CASE \E n \in 0 .. Len(call.batch) - 1 :
                caches = [after(n) EXCEPT ![call.batch[n + 1]].capacity =
                             Appended(device[l][call.batch[n + 1]]).capacity]
    <3>1. PICK n \in 0 .. Len(call.batch) - 1 :
                caches = [after(n) EXCEPT ![call.batch[n + 1]].capacity =
                             Appended(device[l][call.batch[n + 1]]).capacity]
      BY <2>2
    <3> DEFINE t == call.batch[n + 1]
               grown == Appended(device[l][t]).capacity
    <3>2. n \in 0 .. Len(call.batch) /\ n + 1 \in 1 .. Len(call.batch) /\ t \in Batch
      BY <1>1
    <3>3. Sound(after(n))
      BY <3>2, AppendFirstSound
    <3>4. /\ grown \in Nat /\ grown <= MaxInt
          /\ device[l][t].len <= grown /\ Appended(device[l][t]).len <= grown
      BY <3>2, AppendedSound
    <3>5. after(n)[t] = Appended(device[l][t]) \/ after(n)[t] = device[l][t]
      BY <1>1, <3>2 DEF AppendFirst
    <3>6. after(n)[t].len <= grown
      BY <3>4, <3>5
    <3> HIDE DEF t, grown, after
    <3>7. caches = [after(n) EXCEPT ![t].capacity = grown]
      BY <3>1 DEF t, grown
    <3>8. /\ caches \in [Slots -> [len : Nat, capacity : Nat]]
          /\ \A s \in Slots : /\ caches[s].len = after(n)[s].len
                              /\ caches[s].capacity = IF s = t THEN grown
                                                      ELSE after(n)[s].capacity
      BY <3>3, <3>4, <3>7 DEF Sound
    <3>9. Sound(caches)
      BY <3>3, <3>4, <3>6, <3>8 DEF Sound
    <3> QED
      BY <3>2, <3>8, <3>9
  <2> QED
    BY <2>1, <2>2 DEF CacheAfterFailure
<1>3. ASSUME ~HasCudaCache(caches)
      PROVE  /\ \A s \in Slots : caches[s].len = device[l][s].len
             /\ \A s \in Batch : caches[s].len = 0
  <2>1. \A s \in Batch : caches[s].len = 0
    <3>1. \A s \in Batch : s \in Slots /\ s <= s /\ ~(caches[s].len > 0)
      BY <1>1, <1>3 DEF HasCudaCache, Slots
    <3> QED
      BY <1>2, <3>1 DEF Sound
  <2>2. n = 0
    <3> SUFFICES ASSUME n # 0 PROVE FALSE
      OBVIOUS
    <3> DEFINE t == call.batch[1]
    <3>1. t \in Batch /\ 1 \in 1 .. n /\ t \in Slots
      BY <1>1
    <3>2. after(n)[t] = Appended(device[l][t])
      BY <3>1 DEF AppendFirst
    <3>3. after(n)[t].len = device[l][t].len + call.rows /\ device[l][t].len \in Nat
      BY <1>1, <3>1, <3>2, AppendedSound DEF TypeOK
    <3> HIDE DEF after, t
    <3> QED
      BY <1>1, <1>2, <2>1, <3>1, <3>3
  <2>3. \A s \in Slots : after(0)[s] = device[l][s]
    BY DEF AppendFirst
  <2> QED
    BY <1>2, <2>1, <2>2, <2>3
<1> QED
  BY <1>2, <1>3

(* The process is gone in the middle of a forward pass. *)
LEMMA ThrowInv ==
    ASSUME AttnInv, ProtocolInv', InForward, turn' = "stopped", UNCHANGED used,
           UNCHANGED <<call, history, available, attended, graph>>,
           failure' \in {"cuda", "history_lost"},
           cuda_enabled' \in [Layers -> BOOLEAN],
           host_rows' = host_rows, cache_len' = cache_len, scratch' \in [Layers -> Nat],
           NEW caches, Sound(caches),
           device' = [device EXCEPT ![call.layer] = caches] \/ device' = device
    PROVE  AttnInv'
<1>1. TypeOK /\ CacheFits /\ ~Idle /\ call.layer \in Layers
  BY InForwardFacts DEF AttnInv
<1>2. device' \in [Layers -> [Slots -> [len : Nat, capacity : Nat]]] /\ CacheFits'
  <2>1. CASE device' = device
    BY <1>1, <2>1 DEF TypeOK, CacheFits
  <2>2. CASE device' = [device EXCEPT ![call.layer] = caches]
    <3>1. device' \in [Layers -> [Slots -> [len : Nat, capacity : Nat]]]
      BY <1>1, <2>2 DEF Sound, TypeOK
    <3>2. \A l \in Layers : device'[l] = IF l = call.layer THEN caches ELSE device[l]
      BY <1>1, <2>2 DEF TypeOK
    <3> QED
      BY <1>1, <3>1, <3>2 DEF Sound, CacheFits
  <2> QED
    BY <2>1, <2>2
<1>3. TypeOK'
  BY <1>1, <1>2 DEF TypeOK, ProtocolInv, ListsTyped
<1>4. PrefillLensUniform' /\ HistoryKeptOnce'
  BY <1>1 DEF PrefillLensUniform, HistoryKeptOnce, Idle
<1> QED
  BY <1>2, <1>3, <1>4 DEF AttnInv

(* A layer has run: the caches it leaves behind hold the whole history, the
   graph it may have captured is of a slot in use, and it attended to all of
   the batch's rows. *)
LayerHas(caches, counts, rows) ==
    /\ Sound(caches) /\ counts \in [Slots -> Nat] /\ rows \in [Slots -> Nat]
    /\ \A s \in Slots : /\ counts[s] = history[s]
                        /\ rows[s] + caches[s].len = history[s]
                        /\ rows[s] = 0 \/ caches[s].len = 0

LayerCaptured(grown, captured) ==
    /\ grown \in Nat
    /\ captured \in [slot : Slots \cup {-1}, capacity : Nat, scratch_moved : BOOLEAN]
    /\ captured.slot = -1 => captured = NoGraph
    /\ captured.slot # -1 => captured.slot \in used /\ grown >= 1
    /\ captured.scratch_moved => \E s \in used : s # captured.slot

LayerStep(caches, counts, rows, grown, captured) ==
    /\ LayerDone /\ available' = available
    /\ device' = [device EXCEPT ![call.layer] = caches]
    /\ cache_len' = [cache_len EXCEPT ![call.layer] = counts]
    /\ host_rows' = [host_rows EXCEPT ![call.layer] = rows]
    /\ scratch' = [scratch EXCEPT ![call.layer] = grown]
    /\ graph' = [graph EXCEPT ![call.layer] = captured]
    /\ cuda_enabled' \in [Layers -> BOOLEAN]
    /\ \A l \in Layers : l # call.layer => cuda_enabled'[l] = cuda_enabled[l]
    /\ (cuda_enabled'[call.layer] /\ available) => \A s \in Slots : rows[s] = 0
    /\ attended' \in [Slots -> Nat \cup {Undefined}]
    /\ \A s \in Batch : attended'[s] = history[s]

LEMMA LayerInv ==
    ASSUME AttnInv, ProtocolInv', InForward,
           NEW caches, NEW counts, NEW rows, NEW grown, NEW captured,
           LayerHas(caches, counts, rows), LayerCaptured(grown, captured),
           LayerStep(caches, counts, rows, grown, captured)
    PROVE  AttnInv'
<1> DEFINE here == call.layer
<1> USE DEF LayerHas, LayerCaptured, LayerStep
<1>1. /\ TypeOK /\ LiveInv /\ CacheFits /\ ~Idle /\ here \in Layers /\ here \in Nat
      /\ turn \in {"prefilled", "decoded"}
  BY InForwardFacts DEF AttnInv
<1>2. /\ call' = [call EXCEPT !.layer = here + 1]
      /\ UNCHANGED <<turn, free_slots, prepared, active, next_active, used, history, failure>>
  BY DEF LayerDone, protocol_vars
<1>3. /\ call'.batch = call.batch /\ call'.rows = call.rows /\ call'.layer = here + 1
      /\ call' \in [batch : Seq(Slots), rows : Nat, layer : 1 .. NumLayers + 1]
      /\ Batch' = Batch
  <2>1. call \in [batch : Seq(Slots), rows : Nat, layer : 1 .. NumLayers + 1]
    BY <1>1 DEF TypeOK
  <2>2. call'.batch = call.batch /\ call'.rows = call.rows /\ call'.layer = here + 1
    BY <1>2, <2>1
  <2>3. here + 1 \in 1 .. NumLayers + 1
    BY <1>1, CacheAssumption DEF Layers
  <2>4. call' \in [batch : Seq(Slots), rows : Nat, layer : 1 .. NumLayers + 1]
    BY <1>2, <2>1, <2>3
  <2> QED
    BY <2>2, <2>4 DEF Batch
<1> HIDE DEF here
<1>4. \A l \in Layers : /\ device'[l] = IF l = here THEN caches ELSE device[l]
                        /\ cache_len'[l] = IF l = here THEN counts ELSE cache_len[l]
                        /\ host_rows'[l] = IF l = here THEN rows ELSE host_rows[l]
                        /\ scratch'[l] = IF l = here THEN grown ELSE scratch[l]
                        /\ graph'[l] = IF l = here THEN captured ELSE graph[l]
  BY <1>1 DEF TypeOK, here
<1>5. TypeOK'
  <2>1. /\ device' \in [Layers -> [Slots -> [len : Nat, capacity : Nat]]]
        /\ cache_len' \in [Layers -> [Slots -> Nat]]
        /\ host_rows' \in [Layers -> [Slots -> Nat]]
    BY <1>1 DEF TypeOK, Sound, here
  <2>2. /\ scratch' \in [Layers -> Nat]
        /\ graph' \in [Layers -> [slot : Slots \cup {-1}, capacity : Nat,
                                  scratch_moved : BOOLEAN]]
    BY <1>1 DEF TypeOK, here
  <2> QED
    BY <1>1, <1>2, <1>3, <2>1, <2>2 DEF TypeOK
<1>6. CacheFits' /\ PrefillLensUniform'
  BY <1>1, <1>2, <1>4 DEF AttnInv, CacheFits, PrefillLensUniform, Sound
<1>7. CallInv'
  BY <1>1, <1>2, <1>3 DEF LiveInv, CallInv, Idle
<1>8. HistoryInv'
  BY <1>1, <1>2 DEF LiveInv, HistoryInv
<1>9. RowsInv'
  <2> SUFFICES ASSUME NEW l \in Layers, NEW s \in Slots
               PROVE  /\ cache_len'[l][s] = Given(l, s)'
                      /\ host_rows'[l][s] + device'[l][s].len = Given(l, s)'
                      /\ host_rows'[l][s] = 0 \/ device'[l][s].len = 0
                      /\ UsesCuda(l)' => host_rows'[l][s] = 0
    BY DEF RowsInv
  <2>1. CASE l = here
    <3>1. Given(l, s)' = history[s]
      <4>1. ~(l >= here + 1)
        BY <1>1, <2>1
      <4> QED
        BY <1>2, <1>3, <4>1 DEF Given
    <3>2. UsesCuda(l)' => rows[s] = 0
      BY <2>1 DEF UsesCuda, here
    <3> QED
      BY <1>4, <2>1, <3>1, <3>2
  <2>2. CASE l # here
    <3>1. Given(l, s)' = Given(l, s)
      <4>1. l >= here + 1 <=> l >= here
        BY <1>1, <2>2, CacheAssumption DEF Layers
      <4> QED
        BY <1>2, <1>3, <4>1 DEF Given, here
    <3>2. UsesCuda(l)' = UsesCuda(l)
      BY <2>2 DEF UsesCuda, here
    <3> QED
      BY <1>1, <1>4, <2>2, <3>1, <3>2 DEF LiveInv, RowsInv
  <2> QED
    BY <2>1, <2>2
<1>10. GraphInv'
  <2> SUFFICES ASSUME NEW l \in Layers
               PROVE  /\ graph'[l].slot = -1 => graph'[l] = NoGraph
                      /\ graph'[l].slot # -1 =>
                            /\ graph'[l].slot \in used'
                            /\ scratch'[l] >= 1
                            /\ turn' = "prefilled" /\ l >= call'.layer
                                  => graph'[l].slot \notin Batch'
                      /\ graph'[l].scratch_moved => \E s \in used' : s # graph'[l].slot
    BY DEF GraphInv
  <2>1. CASE l = here
    <3>1. ~(l >= call'.layer)
      BY <1>1, <1>3, <2>1
    <3> QED
      BY <1>2, <1>4, <2>1, <3>1
  <2>2. CASE l # here
    <3>1. l >= call'.layer => l >= call.layer
      BY <1>1, <1>3, <2>2, CacheAssumption DEF Layers, here
    <3> QED
      BY <1>1, <1>2, <1>3, <1>4, <2>2, <3>1 DEF LiveInv, GraphInv
  <2> QED
    BY <2>1, <2>2
<1>11. AttendsWholeHistory'
  BY <1>2, <1>3 DEF AttendsWholeHistory
<1> QED
  BY <1>1, <1>2, <1>5, <1>6, <1>7, <1>8, <1>9, <1>10, <1>11 DEF AttnInv, LiveInv

(* forward_cpu, from device caches that hold nothing of the batch that is not
   on the host: the rows are appended there. *)
LEMMA CpuAppendsInv ==
    ASSUME AttnInv, ProtocolInv', InForward, CpuAppends(call.layer),
           LostOnHost(call.layer) = {},
           NEW caches, Sound(caches),
           \A s \in Slots : caches[s].len = device[call.layer][s].len,
           NEW grown \in Nat, grown >= scratch[call.layer],
           device' = [device EXCEPT ![call.layer] = caches],
           scratch' = [scratch EXCEPT ![call.layer] = grown], graph' = graph,
           available' = available, cuda_enabled' \in [Layers -> BOOLEAN],
           ~(cuda_enabled'[call.layer] /\ available),
           \A l \in Layers : l # call.layer => cuda_enabled'[l] = cuda_enabled[l]
    PROVE  AttnInv'
<1> DEFINE here == call.layer
           rows == [s \in Slots |->
                      IF s \notin Batch THEN host_rows[here][s]
                      ELSE IF cache_len[here][s] = 0 THEN call.rows
                      ELSE host_rows[here][s] + call.rows]
           counts == [s \in Slots |->
                      IF s \in Batch THEN cache_len[here][s] + call.rows
                      ELSE cache_len[here][s]]
<1>1. /\ TypeOK /\ LiveInv /\ here \in Layers /\ call.rows \in Nat \ {0}
      /\ Batch \subseteq Slots
      /\ \A s \in Slots : history[s] \in Nat
      /\ \A s \in Batch : history[s] >= call.rows
      /\ \A s \in Slots : Given(here, s) =
            IF s \in Batch THEN history[s] - call.rows ELSE history[s]
  BY InForwardFacts
<1>2. /\ host_rows' = [host_rows EXCEPT ![here] = rows]
      /\ cache_len' = [cache_len EXCEPT ![here] = counts]
      /\ attended' = [s \in Slots |-> IF s \in Batch THEN host_rows'[here][s] ELSE 0]
      /\ LayerDone
  BY <1>1 DEF CpuAppends, TypeOK
<1>3. \A s \in Slots :
         /\ cache_len[here][s] \in Nat /\ host_rows[here][s] \in Nat
         /\ device[here][s].len \in Nat
         /\ cache_len[here][s] = Given(here, s)
         /\ host_rows[here][s] + device[here][s].len = Given(here, s)
         /\ host_rows[here][s] = 0 \/ device[here][s].len = 0
  BY <1>1 DEF TypeOK, LiveInv, RowsInv
<1>4. \A s \in Batch : cache_len[here][s] > 0 => host_rows[here][s] > 0
  BY <1>1, <1>3 DEF LostOnHost
<1>5. rows \in [Slots -> Nat] /\ counts \in [Slots -> Nat]
  BY <1>1, <1>3
<1>6. ASSUME NEW s \in Slots
      PROVE  /\ counts[s] = history[s]
             /\ rows[s] + caches[s].len = history[s]
             /\ rows[s] = 0 \/ caches[s].len = 0
             /\ s \in Batch => rows[s] = history[s]
  <2>1. CASE s \in Batch
    <3>1. device[here][s].len = 0
      BY <1>3, <1>4, <2>1
    <3>2. /\ caches[s].len = 0 /\ cache_len[here][s] + call.rows = history[s]
          /\ cache_len[here][s] = host_rows[here][s]
      BY <1>1, <1>3, <2>1, <3>1
    <3>3. counts[s] = cache_len[here][s] + call.rows
      BY <2>1
    <3>4. rows[s] = IF cache_len[here][s] = 0 THEN call.rows ELSE host_rows[here][s] + call.rows
      BY <2>1
    <3> HIDE DEF rows, counts, here
    <3>5. rows[s] = history[s]
      BY <1>1, <1>3, <3>2, <3>4
    <3>6. counts[s] = history[s] /\ history[s] \in Nat
      BY <1>1, <3>2, <3>3
    <3> QED
      BY <3>2, <3>5, <3>6
  <2>2. CASE s \notin Batch
    <3>1. /\ cache_len[here][s] = history[s] /\ caches[s].len = device[here][s].len
          /\ host_rows[here][s] + caches[s].len = history[s]
          /\ host_rows[here][s] = 0 \/ caches[s].len = 0
      BY <1>1, <1>3, <2>2
    <3>2. counts[s] = cache_len[here][s] /\ rows[s] = host_rows[here][s]
      BY <2>2
    <3> HIDE DEF rows, counts
    <3> QED
      BY <2>2, <3>1, <3>2
  <2> QED
    BY <2>1, <2>2
<1>7. /\ graph[here] \in [slot : Slots \cup {-1}, capacity : Nat, scratch_moved : BOOLEAN]
      /\ graph' = [graph EXCEPT ![here] = graph[here]]
      /\ graph[here].slot = -1 => graph[here] = NoGraph
      /\ graph[here].slot # -1 => graph[here].slot \in used /\ grown >= 1
      /\ graph[here].scratch_moved => \E s \in used : s # graph[here].slot
  <2>1. scratch[here] \in Nat
    BY <1>1 DEF TypeOK
  <2> QED
    BY <1>1, <2>1 DEF TypeOK, LiveInv, GraphInv
<1>8. attended' \in [Slots -> Nat \cup {Undefined}] /\ \A s \in Batch : attended'[s] = history[s]
  <2>1. host_rows'[here] = rows
    BY <1>1, <1>2 DEF TypeOK
  <2> HIDE DEF rows
  <2> QED
    BY <1>1, <1>2, <1>5, <1>6, <2>1
<1> HIDE DEF rows, counts
<1>9. LayerHas(caches, counts, rows)
  BY <1>5, <1>6 DEF LayerHas
<1>10. LayerCaptured(grown, graph[here])
  BY <1>7 DEF LayerCaptured
<1>11. LayerStep(caches, counts, rows, grown, graph[here])
  BY <1>2, <1>7, <1>8 DEF LayerStep
<1> QED
  BY <1>9, <1>10, <1>11, LayerInv

LEMMA CpuForwardInv ==
    ASSUME AttnInv, ProtocolInv', NEW l \in Layers, CpuForward(l) PROVE AttnInv'
<1>1. /\ InForward /\ l = call.layer /\ ~UsesCuda(l) /\ CpuPath(l)
      /\ UNCHANGED <<available, cuda_enabled, device, scratch, graph>>
  BY DEF CpuForward
<1>2. /\ TypeOK /\ CacheFits /\ LiveInv
  BY <1>1, InForwardFacts DEF AttnInv
<1>3. /\ Sound(device[l]) /\ device' = [device EXCEPT ![l] = device[l]]
      /\ scratch[l] \in Nat /\ scratch' = [scratch EXCEPT ![l] = scratch[l]]
      /\ scratch' \in [Layers -> Nat]
      /\ cuda_enabled' \in [Layers -> BOOLEAN]
  BY <1>1, <1>2 DEF TypeOK, CacheFits, Sound
<1>4. CASE LostOnHost(l) = {}
  <2>1. CpuAppends(l)
    BY <1>1, <1>4 DEF CpuPath
  <2>2. scratch[l] >= scratch[l] /\ cuda_enabled' = cuda_enabled
    BY <1>1, <1>3
  <2>3. ~(cuda_enabled'[l] /\ available)
    BY <1>1 DEF UsesCuda
  <2> QED
    BY <1>1, <1>3, <1>4, <2>1, <2>2, <2>3, CpuAppendsInv
<1>5. CASE LostOnHost(l) # {}
  <2>1. /\ Throw("history_lost") /\ UNCHANGED <<host_rows, cache_len, attended>>
    BY <1>1, <1>5 DEF CpuPath
  <2>2. /\ turn' = "stopped" /\ failure' = "history_lost" /\ UNCHANGED <<used, call, history>>
        /\ device' = [device EXCEPT ![call.layer] = device[l]]
    BY <1>1, <1>3, <2>1 DEF Throw, Stop
  <2> QED
    BY <1>1, <1>3, <2>1, <2>2, ThrowInv
<1> QED
  BY <1>4, <1>5

LEMMA ScratchGrows ==
    ASSUME AttnInv, InForward
    PROVE  LET grown == ScratchFor(call.layer)
           IN /\ grown \in Nat /\ grown >= scratch[call.layer] /\ grown >= 1
              /\ (grown = scratch[call.layer])
                    <=> (scratch[call.layer] >= Len(call.batch) * call.rows)
<1> DEFINE rows == Len(call.batch) * call.rows
<1>1. /\ TypeOK /\ call.layer \in Layers /\ Len(call.batch) \in Nat \ {0}
      /\ call.rows \in Nat \ {0}
  BY InForwardFacts
<1>2. scratch[call.layer] \in Nat
  BY <1>1 DEF TypeOK
<1>3. rows \in Nat /\ rows >= 1
  BY <1>1
<1>4. MinScratchRows \in Nat \ {0}
  BY CacheAssumption
<1>5. ScratchFor(call.layer) = Ensured(scratch[call.layer], rows, MinScratchRows)
  BY DEF ScratchFor
<1> HIDE DEF rows
<1>6. LET grown == Ensured(scratch[call.layer], rows, MinScratchRows)
      IN /\ grown \in Nat /\ grown >= rows /\ grown >= scratch[call.layer]
         /\ (grown = scratch[call.layer]) <=> (scratch[call.layer] >= rows)
  BY <1>2, <1>3, <1>4, EnsuredSuffices
<1>7. ScratchFor(call.layer) >= 1
  BY <1>3, <1>5, <1>6
<1> QED
  BY <1>5, <1>6, <1>7 DEF rows

LEMMA FallBackInv ==
    ASSUME AttnInv, ProtocolInv', NEW l \in Layers, FallBack(l) PROVE AttnInv'
<1>1. /\ InForward /\ l = call.layer /\ CpuPath(l)
      /\ cuda_enabled' = [cuda_enabled EXCEPT ![l] = FALSE]
      /\ UNCHANGED <<available, graph>>
  BY DEF FallBack
<1>2. PICK caches \in CacheAfterFailure(l) :
         ~HasCudaCache(caches) /\ device' = [device EXCEPT ![l] = caches]
  BY DEF FallBack
<1>3. PICK grown \in {scratch[l], ScratchFor(l)} : scratch' = [scratch EXCEPT ![l] = grown]
  BY DEF FallBack
<1>4. TypeOK
  BY DEF AttnInv
<1>5. grown \in Nat /\ grown >= scratch[l] /\ scratch' \in [Layers -> Nat]
  BY <1>1, <1>3, <1>4, ScratchGrows DEF TypeOK
<1>6. /\ cuda_enabled' \in [Layers -> BOOLEAN] /\ ~cuda_enabled'[l]
      /\ \A k \in Layers : k # l => cuda_enabled'[k] = cuda_enabled[k]
  BY <1>1, <1>4 DEF TypeOK
<1>7. /\ Sound(caches)
      /\ \A s \in Slots : caches[s].len = device[l][s].len
  BY <1>1, <1>2, FailedCaches
<1>8. CASE LostOnHost(l) = {}
  <2>1. CpuAppends(l)
    BY <1>1, <1>8 DEF CpuPath
  <2> QED
    BY <1>1, <1>2, <1>3, <1>5, <1>6, <1>7, <1>8, <2>1, CpuAppendsInv
<1>9. CASE LostOnHost(l) # {}
  <2>1. /\ Throw("history_lost") /\ UNCHANGED <<host_rows, cache_len, attended>>
    BY <1>1, <1>9 DEF CpuPath
  <2> QED
    BY <1>1, <1>2, <1>5, <1>6, <1>7, <2>1, ThrowInv DEF Throw, Stop
<1> QED
  BY <1>8, <1>9

(* In a layer that uses CUDA every row appended makes the history whole. *)
LEMMA CudaRows ==
    ASSUME AttnInv, InForward, UsesCuda(call.layer)
    PROVE  /\ \A s \in Batch : CacheAfter(call.layer)[s].len = history[s]
           /\ call.rows > 1 => UniformLens(call.layer)
<1>1. /\ TypeOK /\ LiveInv /\ call.layer \in Layers /\ Batch \subseteq Slots
      /\ turn \in {"prefilled", "decoded"} /\ ~Idle
      /\ call.rows \in Nat /\ \A s \in Slots : history[s] \in Nat
      /\ \A s \in Slots : Given(call.layer, s) =
            IF s \in Batch THEN history[s] - call.rows ELSE history[s]
  BY InForwardFacts
<1>2. ASSUME NEW s \in Batch PROVE CacheAfter(call.layer)[s].len = history[s]
  <2>1. /\ host_rows[call.layer][s] = 0
        /\ host_rows[call.layer][s] + device[call.layer][s].len = history[s] - call.rows
        /\ device[call.layer][s].len \in Nat
    BY <1>1 DEF LiveInv, RowsInv, TypeOK
  <2>2. CacheAfter(call.layer)[s].len = device[call.layer][s].len + call.rows
    BY <1>1, CacheAfterRows
  <2> QED
    BY <1>1, <2>1, <2>2
<1>3. call.rows > 1 => \A s \in Batch : history[s] = call.rows
  BY <1>1 DEF LiveInv, CallInv
<1> QED
  BY <1>2, <1>3 DEF UniformLens

LEMMA CudaFailsInv ==
    ASSUME AttnInv, ProtocolInv', NEW l \in Layers, CudaFailsWithCache(l) PROVE AttnInv'
<1>1. /\ InForward /\ l = call.layer /\ UsesCuda(l)
      /\ UNCHANGED <<available, cuda_enabled, host_rows, cache_len, scratch, graph, attended>>
  BY DEF CudaFailsWithCache
<1>2. PICK caches \in CacheAfterFailure(l) :
         /\ device' = [device EXCEPT ![l] = caches]
         /\ Throw(IF caches = CacheAfter(l) /\ call.rows > 1 /\ ~UniformLens(l)
                  THEN "lens_not_uniform" ELSE "cuda")
  BY DEF CudaFailsWithCache
<1>3. Throw("cuda")
  BY <1>1, <1>2, CudaRows
<1>4. Sound(caches)
  BY <1>1, <1>2, FailedCaches
<1>5. scratch' \in [Layers -> Nat] /\ cuda_enabled' \in [Layers -> BOOLEAN]
  BY <1>1 DEF AttnInv, TypeOK
<1> QED
  BY <1>1, <1>2, <1>3, <1>4, <1>5, ThrowInv DEF Throw, Stop

(* A batch of one has one slot; a larger one has two. *)
LEMMA BatchSlots ==
    ASSUME AttnInv, InForward
    PROVE  /\ call.batch[1] \in Batch
           /\ Len(call.batch) = 1 => \A s \in Batch : s = call.batch[1]
           /\ Len(call.batch) # 1 => \A t : \E s \in Batch : s # t
<1>1. /\ Len(call.batch) \in Nat \ {0} /\ Once(call.batch) /\ call.batch \in Seq(Slots)
      /\ \A i \in 1 .. Len(call.batch) : call.batch[i] \in Batch
      /\ \A s \in Batch : \E i \in 1 .. Len(call.batch) : call.batch[i] = s
  BY InForwardFacts DEF LiveInv, CallInv
<1>2. ASSUME Len(call.batch) # 1
      PROVE  call.batch[1] # call.batch[2] /\ call.batch[2] \in Batch
  <2>1. 1 \in 1 .. Len(call.batch) /\ 2 \in 1 .. Len(call.batch)
    <3>1. ASSUME NEW n \in Nat \ {0}, n # 1 PROVE 2 \in 1 .. n /\ 1 \in 1 .. n
      BY <3>1
    <3>2. Len(call.batch) \in Nat \ {0}
      BY <1>1
    <3> QED
      BY <1>2, <3>1, <3>2
  <2>2. DOMAIN call.batch = 1 .. Len(call.batch)
    BY <1>1, LenProperties
  <2> QED
    BY <1>1, <2>1, <2>2 DEF Once
<1> QED
  BY <1>1, <1>2

(* The graph a layer holds when the scratch buffers have grown: if it lost its
   buffers, a slot other than its own is in use. *)
LEMMA GraphKept ==
    ASSUME AttnInv, InForward
    PROVE  LET held == GraphFor(call.layer)
           IN /\ held \in [slot : Slots \cup {-1}, capacity : Nat, scratch_moved : BOOLEAN]
              /\ held.slot = graph[call.layer].slot
              /\ held.slot = -1 => held = NoGraph
              /\ held.slot # -1 => held.slot \in used
              /\ turn = "prefilled" => held.slot \notin Batch
              /\ held.scratch_moved => \E s \in used : s # held.slot
<1> DEFINE here == call.layer
           held == GraphFor(here)
<1>1. /\ TypeOK /\ LiveInv /\ here \in Layers /\ here \in Nat /\ Batch \subseteq used
      /\ Batch \subseteq Slots
      /\ turn \in {"prefilled", "decoded"} /\ ~Idle
      /\ Len(call.batch) \in Nat \ {0} /\ call.rows \in Nat \ {0}
  BY InForwardFacts
<1>2. /\ graph[here] \in [slot : Slots \cup {-1}, capacity : Nat, scratch_moved : BOOLEAN]
      /\ graph[here].slot = -1 => graph[here] = NoGraph
      /\ graph[here].slot # -1 => graph[here].slot \in used /\ scratch[here] >= 1
      /\ graph[here].slot # -1 /\ turn = "prefilled" => graph[here].slot \notin Batch
      /\ graph[here].scratch_moved => \E s \in used : s # graph[here].slot
  <2>1. here >= call.layer
    BY <1>1
  <2>2. graph[here] \in [slot : Slots \cup {-1}, capacity : Nat, scratch_moved : BOOLEAN]
    BY <1>1 DEF TypeOK
  <2>3. GraphInv
    BY <1>1 DEF LiveInv
  <2> HIDE DEF here
  <2> QED
    BY <1>1, <2>1, <2>2, <2>3 DEF GraphInv
<1>3. -1 \notin Slots
  BY DEF Slots
<1>4. CASE graph[here] = NoGraph \/ ScratchFor(here) = scratch[here]
  <2>1. held = graph[here]
    BY <1>4 DEF GraphFor
  <2> QED
    BY <1>1, <1>2, <1>3, <2>1
<1>5. CASE graph[here] # NoGraph /\ ScratchFor(here) # scratch[here]
  <2>1. held = [graph[here] EXCEPT !.scratch_moved = TRUE]
    BY <1>5 DEF GraphFor
  <2>2. /\ held \in [slot : Slots \cup {-1}, capacity : Nat, scratch_moved : BOOLEAN]
        /\ held.slot = graph[here].slot /\ held.slot # -1
    BY <1>2, <1>5, <2>1
  <2>3. scratch[here] \in Nat /\ scratch[here] >= 1
    BY <1>1, <1>2, <2>2 DEF TypeOK
  <2>4. \E s \in Batch : s # held.slot
    <3>1. CASE turn = "prefilled"
      BY <1>2, <2>2, <3>1, BatchSlots
    <3>2. CASE turn = "decoded"
      <4>1. call.rows = 1
        BY <1>1, <3>2 DEF LiveInv, CallInv
      <4>2. ~(scratch[here] >= Len(call.batch) * call.rows)
        BY <1>5, ScratchGrows
      <4>3. Len(call.batch) # 1
        <5>1. Len(call.batch) * 1 = Len(call.batch)
          BY <1>1
        <5> QED
          BY <2>3, <4>1, <4>2, <5>1
      <4> QED
        BY <4>3, BatchSlots
    <3> QED
      BY <1>1, <3>1, <3>2
  <2>5. /\ held.slot \in used
        /\ turn = "prefilled" => held.slot \notin Batch
        /\ \E s \in used : s # held.slot
    BY <1>1, <1>2, <2>2, <2>4
  <2> HIDE DEF held
  <2> QED
    BY <2>2, <2>5 DEF held
<1> QED
  BY <1>4, <1>5

(* A replayed graph reads the scratch buffers of now. *)
LEMMA ReplayIsSafe ==
    ASSUME AttnInv, InForward, NEW s \in Batch, SingleDecode, CanReuse(call.layer, s)
    PROVE  ~GraphFor(call.layer).scratch_moved
<1>1. /\ turn \in {"prefilled", "decoded"} /\ LiveInv /\ ~Idle
  BY InForwardFacts
<1>2. GraphFor(call.layer).slot = s
  BY DEF CanReuse
<1>3. turn = "decoded"
  BY <1>1, <1>2, GraphKept
<1>4. used = Batch
  <2>1. Batch = SlotsOf(active) /\ next_active = <<>>
    BY <1>1, <1>3 DEF LiveInv, CallInv
  <2>2. prepared = <<>>
    BY <1>3 DEF AttnInv, ProtocolInv, PhaseLists
  <2> QED
    BY <2>1, <2>2, NoSlots DEF AttnInv, ProtocolInv, UsedListed
<1>5. \A t \in used : t = s
  BY <1>4, BatchSlots DEF SingleDecode
<1> QED
  BY <1>2, <1>5, GraphKept

LEMMA CudaForwardInv ==
    ASSUME AttnInv, ProtocolInv', NEW l \in Layers, CudaForward(l) PROVE AttnInv'
<1> DEFINE caches == CacheAfter(l)
           counts == [s \in Slots |-> IF s \in Batch THEN CacheAfter(l)[s].len
                                      ELSE cache_len[l][s]]
           rows == [s \in Slots |-> IF s \in Batch THEN 0 ELSE host_rows[l][s]]
           slot == call.batch[1]
           captured == IF SingleDecode /\ ~CanReuse(l, slot)
                       THEN [slot |-> slot, scratch_moved |-> FALSE,
                             capacity |-> CacheAfter(l)[slot].capacity]
                       ELSE GraphFor(l)
           grown == ScratchFor(l)
<1>1. /\ InForward /\ l = call.layer /\ UsesCuda(l) /\ LayerDone
      /\ UNCHANGED <<available, cuda_enabled>>
  BY DEF CudaForward
<1>2. /\ TypeOK /\ LiveInv /\ Batch \subseteq Slots /\ Batch \subseteq used
      /\ \A s \in Slots : history[s] \in Nat
      /\ \A s \in Slots : Given(l, s) =
            IF s \in Batch THEN history[s] - call.rows ELSE history[s]
  BY <1>1, InForwardFacts
<1>3. /\ device' = [device EXCEPT ![l] = caches]
      /\ cache_len' = [cache_len EXCEPT ![l] = counts]
      /\ host_rows' = [host_rows EXCEPT ![l] = rows]
      /\ scratch' = [scratch EXCEPT ![l] = grown]
      /\ graph' = [graph EXCEPT ![l] = captured]
      /\ attended' = [s \in Slots |-> IF s \in Batch THEN AttendedOnDevice(l, s) ELSE 0]
  BY <1>2 DEF CudaForward, TypeOK
<1>4. /\ Sound(caches)
      /\ \A s \in Slots : caches[s].len =
            device[l][s].len + (IF s \in Batch THEN call.rows ELSE 0)
      /\ \A s \in Batch : caches[s].len = history[s]
  BY <1>1, CacheAfterRows, CudaRows
<1>5. \A s \in Slots :
         /\ cache_len[l][s] \in Nat /\ host_rows[l][s] = 0 /\ device[l][s].len \in Nat
         /\ cache_len[l][s] = Given(l, s)
         /\ host_rows[l][s] + device[l][s].len = Given(l, s)
  BY <1>1, <1>2 DEF TypeOK, LiveInv, RowsInv
<1>6. LayerHas(caches, counts, rows)
  <2> HIDE DEF caches
  <2>1. counts \in [Slots -> Nat] /\ rows \in [Slots -> Nat]
    BY <1>2, <1>4, <1>5 DEF caches
  <2>2. ASSUME NEW s \in Slots
        PROVE  counts[s] = history[s] /\ rows[s] = 0 /\ caches[s].len = history[s]
    <3>1. CASE s \in Batch
      BY <1>4, <3>1 DEF caches
    <3>2. CASE s \notin Batch
      BY <1>2, <1>4, <1>5, <3>2
    <3> QED
      BY <3>1, <3>2
  <2> HIDE DEF counts, rows
  <2> QED
    BY <1>2, <1>4, <2>1, <2>2 DEF LayerHas
<1>7. LayerCaptured(grown, captured)
  <2>1. grown \in Nat /\ grown >= 1
    BY <1>1, ScratchGrows
  <2>2. slot \in Batch
    BY <1>1, BatchSlots
  <2>3. CASE SingleDecode /\ ~CanReuse(l, slot)
    <3>1. slot \in Slots /\ slot \in used
      BY <1>2, <2>2
    <3>2. slot # -1
      BY <3>1 DEF Slots
    <3>3. CacheAfter(l)[slot].capacity \in Nat
      BY <1>4, <3>1 DEF Sound
    <3> HIDE DEF slot, grown
    <3> QED
      BY <2>1, <2>3, <3>1, <3>2, <3>3 DEF LayerCaptured
  <2>4. CASE ~(SingleDecode /\ ~CanReuse(l, slot))
    <3>1. captured = GraphFor(l)
      BY <2>4
    <3> HIDE DEF captured, grown
    <3> QED
      BY <1>1, <2>1, <3>1, GraphKept DEF LayerCaptured
  <2> QED
    BY <2>3, <2>4
<1>8. \A s \in Batch : AttendedOnDevice(l, s) = history[s]
  BY <1>1, <1>4, ReplayIsSafe DEF AttendedOnDevice
<1>9. LayerStep(caches, counts, rows, grown, captured)
  <2>1. \A s \in Slots : rows[s] = 0
    BY <1>5
  <2>2. attended' \in [Slots -> Nat \cup {Undefined}]
    BY <1>2, <1>3, <1>8
  <2>3. \A s \in Batch : attended'[s] = history[s]
    BY <1>2, <1>3, <1>8
  <2>4. cuda_enabled' \in [Layers -> BOOLEAN]
    BY <1>1, <1>2 DEF TypeOK
  <2> HIDE DEF caches, counts, rows, grown, captured
  <2> QED
    BY <1>1, <1>3, <2>1, <2>2, <2>3, <2>4 DEF LayerStep
<1> HIDE DEF caches, counts, rows, grown, captured
<1> QED
  BY <1>1, <1>6, <1>7, <1>9, LayerInv

-----------------------------------------------------------------------------
LEMMA NextAttnInv == AttnInv /\ [Next]_vars => AttnInv'
<1> SUFFICES ASSUME AttnInv, [Next]_vars PROVE AttnInv'
  OBVIOUS
<1>1. ProtocolInv'
  BY StepOfProtocol, NextProtocolInv DEF AttnInv
<1>2. CASE BeginPrefill \/ BeginDecode \/ NoForward \/ SettleRequest \/ ResetAll
  BY <1>1, <1>2, BeginPrefillInv, BeginDecodeInv, NoForwardInv, SettleInv, ResetInv
<1>3. CASE \E l \in Layers :
              CudaForward(l) \/ CudaFailsWithCache(l) \/ FallBack(l) \/ CpuForward(l)
  BY <1>1, <1>3, CudaForwardInv, CudaFailsInv, FallBackInv, CpuForwardInv
<1>4. CASE RuntimeDisabled \/ Stopped \/ UNCHANGED vars
  BY <1>1, <1>4, SameInv DEF Stopped
<1> QED
  BY <1>2, <1>3, <1>4 DEF Next

LEMMA AttnInvariance == Spec => []AttnInv
  BY InitAttnInv, NextAttnInv, PTL DEF Spec

(* The attention layers' variables keep their types. *)
THEOREM AttnTypeCorrect == Spec => []TypeOK
  BY AttnInvariance, InvImplies, PTL

(* No layer ever answers from part of a history: not after a fallback, not on a
   slot that was used before, not from a replayed graph. *)
THEOREM HistoryAttended == Spec => []AttendsWholeHistory
  BY AttnInvariance, InvImplies, PTL

(* Between two forwards every layer has each row once. *)
THEOREM RowsInOnePlace == Spec => []HistoryKeptOnce
  BY AttnInvariance, InvImplies, PTL

(* The device buffers always hold the rows of their slots, and their capacity
   stays an int. *)
THEOREM BuffersFit == Spec => []CacheFits
  BY AttnInvariance, InvImplies, PTL

(* The uniformity check of the CUDA prefill never rejects a batch. *)
THEOREM PrefillUniform == Spec => []PrefillLensUniform
  BY AttnInvariance, InvImplies, PTL

(* The layers keep to the protocol they are called under. *)
THEOREM LayersFollowProtocol == Spec => ProtocolSpec
<1>1. Init => ProtocolInit
  BY DEF Init
<1> QED
  BY <1>1, StepOfProtocol, PTL DEF Spec, ProtocolSpec

=============================================================================
