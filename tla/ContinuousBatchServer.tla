----------------------- MODULE ContinuousBatchServer -----------------------
(***************************************************************************)
(* The service mode of easy_llm (easy_llm --serve): one thread reads       *)
(* prompts from stdin and submits them, the main thread runs               *)
(* ContinuousBatchServer::run, which admits waiting requests into free KV  *)
(* cache slots (a prefill round), advances every active request by one     *)
(* token (a decode round) and answers the finished ones, until the input   *)
(* is closed and nothing is left to do.                                    *)
(*                                                                         *)
(* Only pending_prompts, input_closed and next_request_id are shared; the  *)
(* code touches them under pending_mu_, and here each critical section is  *)
(* one action.  A round is cut into the iterations of its loops, so that   *)
(* the input thread may run between any two of them.                       *)
(*                                                                         *)
(* The text of a prompt is abstracted to the number of tokens it has, a    *)
(* sampled token to a member of Tokens, and the K/V rows of a slot to the  *)
(* request and the RoPE position each row was computed for.                *)
(***************************************************************************)
EXTENDS Integers, Sequences

CONSTANTS
    MaxActive,       \* options.max_active_requests: the number of slots
    PrefillBatch,    \* options.prefill_batch_size
    MaxSteps,        \* config.max_steps
    Tokens,          \* the tokens the sampler may return
    PadId,           \* the tokenizer's pad token
    EosId,           \* config.eos_token_id; not in Tokens when EOS is disabled
    SeqLens,         \* how many tokens a prompt may have (0: none in the vocabulary)
    InitialPrompts,  \* how many prompts the command line may carry
    MaxRequests,     \* bound: no prompt is submitted beyond this many
    MaxPads,         \* bound: pad tokens sampled for one request
    MayThrow         \* may a forward pass of the model throw?

ASSUME ServerAssumption ==
    /\ MaxActive \in Nat \ {0}
    /\ PrefillBatch \in Nat \ {0}
    /\ MaxSteps \in Nat \ {0}
    /\ SeqLens \subseteq Nat
    /\ InitialPrompts \in Nat
    /\ MaxRequests \in Nat
    /\ MaxPads \in Nat
    /\ MayThrow \in BOOLEAN

VARIABLES
    (* Guarded by pending_mu_. *)
    pending_prompts,    \* the FIFO of submitted, unadmitted prompts
    input_closed,
    next_request_id,
    (* The input thread. *)
    input_pc,
    (* The server thread. *)
    pc,
    candidates,         \* popped, not tokenized yet
    tokenized,          \* tokenized, no slot yet
    max_len,            \* the longest prompt of the batch so far
    prepared,           \* given a slot, first token not handled yet
    active_requests,
    next_active,        \* the survivors of the decode round in progress
    free_slots,         \* a stack, its top last
    pad_lens_by_slot,
    (* The model. *)
    pad_lens_by_sample, \* the copy the attention layers mask with
    kv_cache,           \* the K/V rows held for each slot
    (* stdout. *)
    out

input_vars == <<input_closed, next_request_id, input_pc>>
queue_vars == <<pending_prompts, input_vars>>
admission_vars == <<candidates, tokenized, max_len>>
slot_vars == <<free_slots, pad_lens_by_slot>>
model_vars == <<pad_lens_by_sample, kv_cache>>
request_vars == <<prepared, active_requests, next_active>>
vars == <<queue_vars, pc, admission_vars, request_vars, slot_vars, model_vars, out>>

Slots == 0 .. MaxActive - 1

Larger(m, n) == IF m >= n THEN m ELSE n
Smaller(m, n) == IF m <= n THEN m ELSE n
Last(s) == s[Len(s)]
Front(s) == SubSeq(s, 1, Len(s) - 1)

(* The tokens a prompt of seq_len tokens may generate. *)
MaxGenerateTokens(seq_len) == Larger(1, MaxSteps - seq_len + 1)

(* n tokens of request id behind pad pad tokens: what a forward pass appends
   to a slot, and what a slot holds when only that request has used it. *)
Rows(id, pad, n) ==
    [i \in 1 .. (pad + n) |-> [request_id |-> id, pos |-> i - 1 - pad]]

Accepted(id) == [line |-> "accepted", request_id |-> id]
Answer(id, seq_len, generated, reason) ==
    [line |-> "request", request_id |-> id, seq_len |-> seq_len,
     generated |-> generated, reason |-> reason]
IsAnswer(line) == line.line = "request"

-----------------------------------------------------------------------------
(* The prompts of the command line are submitted before either loop runs. *)
Init ==
    /\ \E k \in 0 .. InitialPrompts : \E lens \in [1 .. k -> SeqLens] :
          /\ pending_prompts =
                [i \in 1 .. k |-> [request_id |-> i - 1, seq_len |-> lens[i]]]
          /\ next_request_id = k
    /\ input_closed = FALSE
    /\ input_pc = "reading"
    /\ pc = "admit"
    /\ candidates = <<>> /\ tokenized = <<>> /\ max_len = 0
    /\ prepared = <<>> /\ active_requests = <<>> /\ next_active = <<>>
    /\ free_slots = [i \in 1 .. MaxActive |-> MaxActive - i]
    /\ pad_lens_by_slot = [s \in Slots |-> 0]
    /\ pad_lens_by_sample = [s \in Slots |-> 0]
    /\ kv_cache = [s \in Slots |-> <<>>]
    /\ out = <<>>

-----------------------------------------------------------------------------
(* The input thread.  std::terminate in the main thread takes it along. *)

InputThreadAt(label) == pc # "terminated" /\ input_pc = label

SubmitPrompt(seq_len) ==
    /\ InputThreadAt("reading")
    /\ next_request_id < MaxRequests
    /\ pending_prompts' = Append(pending_prompts,
          [request_id |-> next_request_id, seq_len |-> seq_len])
    /\ next_request_id' = next_request_id + 1
    /\ input_pc' = "submitted"
    /\ UNCHANGED <<input_closed, pc, admission_vars, request_vars, slot_vars,
                   model_vars, out>>

(* Outside the lock; no other thread submits, so the id submit_prompt
   returned is still the last one. *)
PrintAccepted ==
    /\ InputThreadAt("submitted")
    /\ out' = Append(out, Accepted(next_request_id - 1))
    /\ input_pc' = "reading"
    /\ UNCHANGED <<pending_prompts, input_closed, next_request_id, pc,
                   admission_vars, request_vars, slot_vars, model_vars>>

(* /quit, :quit or the end of stdin. *)
MarkInputClosed ==
    /\ InputThreadAt("reading")
    /\ input_closed' = TRUE
    /\ input_pc' = "ended"
    /\ UNCHANGED <<pending_prompts, next_request_id, pc, admission_vars,
                   request_vars, slot_vars, model_vars, out>>

-----------------------------------------------------------------------------
(* The server thread: admit_prefill_round. *)

(* Mutant of AdmissionCount: the batch is not limited by the free slots. *)
AdmissionCount_AnySlots == Smaller(PrefillBatch, Len(pending_prompts))

AdmissionCount ==
    Smaller(Smaller(PrefillBatch, Len(free_slots)), Len(pending_prompts))

(* Mutant of PopAdmissionCandidates: the newest prompts are served first. *)
PopAdmissionCandidates_Newest ==
    LET left == Len(pending_prompts) - AdmissionCount IN
    /\ pc = "admit"
    /\ AdmissionCount > 0
    /\ candidates' = SubSeq(pending_prompts, left + 1, Len(pending_prompts))
    /\ pending_prompts' = SubSeq(pending_prompts, 1, left)
    /\ max_len' = 0
    /\ pc' = "prepare"
    /\ UNCHANGED <<input_vars, tokenized, request_vars, slot_vars, model_vars, out>>

PopAdmissionCandidates ==
    /\ pc = "admit"
    /\ AdmissionCount > 0
    /\ candidates' = SubSeq(pending_prompts, 1, AdmissionCount)
    /\ pending_prompts' =
          SubSeq(pending_prompts, AdmissionCount + 1, Len(pending_prompts))
    /\ max_len' = 0
    /\ pc' = "prepare"
    /\ UNCHANGED <<input_vars, tokenized, request_vars, slot_vars, model_vars, out>>

SkipAdmission ==
    /\ pc = "admit"
    /\ AdmissionCount = 0
    /\ pc' = "decode"
    /\ UNCHANGED <<queue_vars, admission_vars, request_vars, slot_vars,
                   model_vars, out>>

(* Mutant of AnswerEmptyPrompt: the prompt is skipped without a word. *)
AnswerEmptyPrompt_Silent ==
    /\ pc = "prepare"
    /\ candidates # <<>> /\ Head(candidates).seq_len = 0
    /\ candidates' = Tail(candidates)
    /\ UNCHANGED <<queue_vars, pc, tokenized, max_len, request_vars, slot_vars,
                   model_vars, out>>

(* A prompt without a token is answered on the spot and takes no slot. *)
AnswerEmptyPrompt ==
    /\ pc = "prepare"
    /\ candidates # <<>> /\ Head(candidates).seq_len = 0
    /\ candidates' = Tail(candidates)
    /\ out' = Append(out, Answer(Head(candidates).request_id, 0, 0, "empty"))
    /\ UNCHANGED <<queue_vars, pc, tokenized, max_len, request_vars, slot_vars,
                   model_vars>>

TokenizePrompt ==
    /\ pc = "prepare"
    /\ candidates # <<>> /\ Head(candidates).seq_len # 0
    /\ candidates' = Tail(candidates)
    /\ tokenized' = Append(tokenized, Head(candidates))
    /\ max_len' = Larger(max_len, Head(candidates).seq_len)
    /\ UNCHANGED <<queue_vars, pc, request_vars, slot_vars, model_vars, out>>

NothingToPrefill ==
    /\ pc = "prepare"
    /\ candidates = <<>> /\ tokenized = <<>> /\ prepared = <<>>
    /\ pc' = "decode"
    /\ UNCHANGED <<queue_vars, admission_vars, request_vars, slot_vars,
                   model_vars, out>>

(* The batch is padded on the left to its longest prompt. *)
AssignSlot ==
    /\ pc = "prepare"
    /\ candidates = <<>> /\ tokenized # <<>>
    /\ LET req == Head(tokenized)
           slot == Last(free_slots)
           pad_len == max_len - req.seq_len
       IN /\ prepared' = Append(prepared,
                [request_id |-> req.request_id, slot_id |-> slot,
                 seq_len |-> req.seq_len, pad_len |-> pad_len,
                 max_generate_tokens |-> MaxGenerateTokens(req.seq_len)])
          /\ pad_lens_by_slot' = [pad_lens_by_slot EXCEPT ![slot] = pad_len]
    /\ tokenized' = Tail(tokenized)
    /\ free_slots' = Front(free_slots)
    /\ UNCHANGED <<queue_vars, pc, candidates, max_len, active_requests,
                   next_active, model_vars, out>>

(* The indices of the requests of a batch that were given slot. *)
InSlot(batch, slot) == {i \in DOMAIN batch : batch[i].slot_id = slot}

ReadyToPrefill ==
    pc = "prepare" /\ candidates = <<>> /\ tokenized = <<>> /\ prepared # <<>>

(* sample_prefill_continuous: every prepared slot gets the rows of its padded
   prompt, at positions counted from -pad_len. *)
PrefillForward ==
    /\ ReadyToPrefill
    /\ pad_lens_by_sample' = pad_lens_by_slot
    /\ kv_cache' = [s \in Slots |->
          IF InSlot(prepared, s) = {} THEN kv_cache[s]
          ELSE LET req == prepared[CHOOSE i \in InSlot(prepared, s) : TRUE]
               IN kv_cache[s] \o Rows(req.request_id, req.pad_len, req.seq_len)]
    /\ pc' = "prefilled"
    /\ UNCHANGED <<queue_vars, admission_vars, request_vars, slot_vars, out>>

-----------------------------------------------------------------------------
(* What both rounds do with the token sampled for a request. *)

PadsSampled(req) == req.decode_steps + 1 - req.generated

(* request with token as its next token, if the bound on pad tokens allows. *)
MaySample(req, token) == token = PadId => PadsSampled(req) <= MaxPads

HitEos(req) == req.next_token = EosId
(* Mutant of HitLimit: one token too many. *)
HitLimit_OffByOne(req) == req.generated > req.max_generate_tokens

HitLimit(req) == req.generated >= req.max_generate_tokens
Finished(req) == HitEos(req) \/ HitLimit(req)
Reason(req) == IF HitEos(req) THEN "eos" ELSE "max_tokens"

(* Mutants of FinishRequest: the id of the request is taken for its slot; the
   slot is not given back; the cache is left to the next request. *)
FinishRequest_ById(req) ==
    /\ kv_cache' = [kv_cache EXCEPT ![req.slot_id] = <<>>]
    /\ pad_lens_by_slot' = [pad_lens_by_slot EXCEPT ![req.slot_id] = 0]
    /\ free_slots' = Append(free_slots, req.request_id)
    /\ pad_lens_by_sample' = pad_lens_by_slot'
    /\ out' = Append(out, Answer(req.request_id, req.pos_len - req.decode_steps,
                                 req.generated, Reason(req)))
FinishRequest_LeaksSlot(req) ==
    /\ kv_cache' = [kv_cache EXCEPT ![req.slot_id] = <<>>]
    /\ pad_lens_by_slot' = [pad_lens_by_slot EXCEPT ![req.slot_id] = 0]
    /\ pad_lens_by_sample' = pad_lens_by_slot'
    /\ out' = Append(out, Answer(req.request_id, req.pos_len - req.decode_steps,
                                 req.generated, Reason(req)))
    /\ UNCHANGED free_slots
FinishRequest_KeepsCache(req) ==
    /\ pad_lens_by_slot' = [pad_lens_by_slot EXCEPT ![req.slot_id] = 0]
    /\ free_slots' = Append(free_slots, req.slot_id)
    /\ pad_lens_by_sample' = pad_lens_by_slot'
    /\ out' = Append(out, Answer(req.request_id, req.pos_len - req.decode_steps,
                                 req.generated, Reason(req)))
    /\ UNCHANGED kv_cache

(* finish_request: clear the slot, give it back, print the answer. *)
FinishRequest(req) ==
    /\ kv_cache' = [kv_cache EXCEPT ![req.slot_id] = <<>>]
    /\ pad_lens_by_slot' = [pad_lens_by_slot EXCEPT ![req.slot_id] = 0]
    /\ free_slots' = Append(free_slots, req.slot_id)
    /\ pad_lens_by_sample' = pad_lens_by_slot'
    /\ out' = Append(out, Answer(req.request_id, req.pos_len - req.decode_steps,
                                 req.generated, Reason(req)))

Counted(token) == IF token # PadId THEN 1 ELSE 0

(* The ActiveRequest built from a prepared admission and its first token. *)
Admitted(req, token) ==
    [request_id |-> req.request_id, slot_id |-> req.slot_id,
     pos_len |-> req.seq_len, max_generate_tokens |-> req.max_generate_tokens,
     next_token |-> token, generated |-> Counted(token), decode_steps |-> 0]

(* An active request one decode step later. *)
Advanced(req, token) ==
    [req EXCEPT !.pos_len = @ + 1, !.decode_steps = @ + 1,
                !.next_token = token, !.generated = @ + Counted(token)]

(* The loop over the sampled tokens that ends admit_prefill_round. *)
AdmitRequest(token) ==
    /\ pc = "prefilled"
    /\ prepared # <<>>
    /\ LET req == Admitted(Head(prepared), token)
       IN /\ MaySample(req, token)
          /\ \/ /\ Finished(req)
                /\ FinishRequest(req)
                /\ UNCHANGED active_requests
             \/ /\ ~Finished(req)
                /\ active_requests' = Append(active_requests, req)
                /\ UNCHANGED <<slot_vars, model_vars, out>>
    /\ prepared' = Tail(prepared)
    /\ UNCHANGED <<queue_vars, pc, admission_vars, next_active>>

EndAdmission ==
    /\ pc = "prefilled"
    /\ prepared = <<>>
    /\ pc' = "decode"
    /\ UNCHANGED <<queue_vars, admission_vars, request_vars, slot_vars,
                   model_vars, out>>

-----------------------------------------------------------------------------
(* The server thread: decode_round. *)

SkipDecode ==
    /\ pc = "decode"
    /\ active_requests = <<>>
    /\ pc' = "check"
    /\ UNCHANGED <<queue_vars, admission_vars, request_vars, slot_vars,
                   model_vars, out>>

ReadyToDecode == pc = "decode" /\ active_requests # <<>>

(* sample_decode_continuous: one row more for every active request. *)
DecodeForward ==
    /\ ReadyToDecode
    /\ kv_cache' = [s \in Slots |->
          IF InSlot(active_requests, s) = {} THEN kv_cache[s]
          ELSE LET req == active_requests[CHOOSE i \in InSlot(active_requests, s) : TRUE]
               IN Append(kv_cache[s], [request_id |-> req.request_id, pos |-> req.pos_len])]
    /\ pc' = "decoded"
    /\ UNCHANGED <<queue_vars, admission_vars, request_vars, slot_vars,
                   pad_lens_by_sample, out>>

DecodeRequest(token) ==
    /\ pc = "decoded"
    /\ active_requests # <<>>
    /\ LET req == Advanced(Head(active_requests), token)
       IN /\ MaySample(req, token)
          /\ \/ /\ Finished(req)
                /\ FinishRequest(req)
                /\ UNCHANGED next_active
             \/ /\ ~Finished(req)
                /\ next_active' = Append(next_active, req)
                /\ UNCHANGED <<slot_vars, model_vars, out>>
    /\ active_requests' = Tail(active_requests)
    /\ UNCHANGED <<queue_vars, pc, admission_vars, prepared>>

EndDecode ==
    /\ pc = "decoded"
    /\ active_requests = <<>>
    /\ active_requests' = next_active
    /\ next_active' = <<>>
    /\ pc' = "check"
    /\ UNCHANGED <<queue_vars, admission_vars, prepared, slot_vars, model_vars, out>>

-----------------------------------------------------------------------------
(* The end of an iteration of run. *)

(* Mutant of IsDone: only the queue is looked at. *)
IsDone_QueueOnly == input_closed /\ pending_prompts = <<>>

IsDone == active_requests = <<>> /\ input_closed /\ pending_prompts = <<>>

(* Sleep or not, go round again. *)
Continue ==
    /\ pc = "check"
    /\ ~IsDone
    /\ pc' = "admit"
    /\ UNCHANGED <<queue_vars, admission_vars, request_vars, slot_vars,
                   model_vars, out>>

(* reset_continuous drops every cache; main then joins the input thread. *)
Exit ==
    /\ pc = "check"
    /\ IsDone
    /\ kv_cache' = [s \in Slots |-> <<>>]
    /\ pc' = "exited"
    /\ UNCHANGED <<queue_vars, admission_vars, request_vars, slot_vars,
                   pad_lens_by_sample, out>>

(* Nothing catches what the model throws, and the input thread is joinable:
   the process is terminated. *)
ModelThrows ==
    /\ MayThrow
    /\ ReadyToPrefill \/ ReadyToDecode
    /\ pc' = "terminated"
    /\ UNCHANGED <<queue_vars, admission_vars, request_vars, slot_vars,
                   model_vars, out>>

(* main has returned, or the process is gone. *)
Stopped ==
    /\ \/ pc = "exited" /\ input_pc = "ended"
       \/ pc = "terminated"
    /\ UNCHANGED vars

-----------------------------------------------------------------------------
InputThread ==
    \/ \E n \in SeqLens : SubmitPrompt(n)
    \/ PrintAccepted
    \/ MarkInputClosed

AdmitPrefillRound ==
    \/ PopAdmissionCandidates
    \/ SkipAdmission
    \/ AnswerEmptyPrompt
    \/ TokenizePrompt
    \/ NothingToPrefill
    \/ AssignSlot
    \/ PrefillForward
    \/ \E token \in Tokens : AdmitRequest(token)
    \/ EndAdmission

DecodeRound ==
    \/ SkipDecode
    \/ DecodeForward
    \/ \E token \in Tokens : DecodeRequest(token)
    \/ EndDecode

ServerThread == AdmitPrefillRound \/ DecodeRound \/ Continue \/ Exit

Next == InputThread \/ ServerThread \/ ModelThrows \/ Stopped

Spec == Init /\ [][Next]_vars

(* run is a loop that never waits for anyone: the server thread keeps going.
   The input thread may wait for its user for ever, but not in the middle of
   printing a line. *)
FairSpec == Spec /\ WF_vars(ServerThread) /\ WF_vars(PrintAccepted)

-----------------------------------------------------------------------------
PromptType == [request_id : Nat, seq_len : SeqLens]
PreparedType == [request_id : Nat, slot_id : Slots, seq_len : SeqLens,
                 pad_len : Nat, max_generate_tokens : Nat]
ActiveType == [request_id : Nat, slot_id : Slots, pos_len : Nat,
               max_generate_tokens : Nat, next_token : Tokens,
               generated : Nat, decode_steps : Nat]
LineType == [line : {"accepted"}, request_id : Nat]
            \cup [line : {"request"}, request_id : Nat, seq_len : Nat,
                  generated : Nat, reason : {"empty", "eos", "max_tokens"}]

(* The values every variable of the service ranges over. *)
TypeOK ==
    /\ pending_prompts \in Seq(PromptType)
    /\ input_closed \in BOOLEAN
    /\ next_request_id \in Nat
    /\ input_pc \in {"reading", "submitted", "ended"}
    /\ pc \in {"admit", "prepare", "prefilled", "decode", "decoded", "check",
               "exited", "terminated"}
    /\ candidates \in Seq(PromptType)
    /\ tokenized \in Seq(PromptType)
    /\ max_len \in Nat
    /\ prepared \in Seq(PreparedType)
    /\ active_requests \in Seq(ActiveType)
    /\ next_active \in Seq(ActiveType)
    /\ free_slots \in Seq(Slots)
    /\ pad_lens_by_slot \in [Slots -> Nat]
    /\ pad_lens_by_sample \in [Slots -> Nat]
    /\ kv_cache \in [Slots -> Seq([request_id : Nat, pos : Int])]
    /\ out \in Seq(LineType)

-----------------------------------------------------------------------------
(* The places slot s is found in: the free stack, or a request. *)
OwnersOf(s) ==
    ({"free"} \X {i \in DOMAIN free_slots : free_slots[i] = s})
    \cup ({"prepared"} \X InSlot(prepared, s))
    \cup ({"active"} \X InSlot(active_requests, s))
    \cup ({"next_active"} \X InSlot(next_active, s))

(* Every slot is either free, once, or held by exactly one request: no round
   loses a slot, hands one out twice or frees one that is still in use. *)
SlotPartition ==
    \A s \in Slots :
        OwnersOf(s) # {} /\ \A o, p \in OwnersOf(s) : o = p

(* What the model holds for a request is the history that request would have
   had alone: behind the pads the attention masks, the rows of its own tokens
   at the positions 0, 1, 2, ...; a free slot holds no row and no pad, so
   nothing of an earlier request is left for the next one to attend to. *)
CacheIsOwnHistory ==
    /\ \A i \in DOMAIN free_slots :
          /\ kv_cache[free_slots[i]] = <<>>
          /\ pad_lens_by_slot[free_slots[i]] = 0
          /\ pad_lens_by_sample[free_slots[i]] = 0
    /\ \A i \in DOMAIN prepared :
          LET req == prepared[i] IN
          IF pc = "prefilled"
          THEN /\ pad_lens_by_sample[req.slot_id] = req.pad_len
               /\ kv_cache[req.slot_id] = Rows(req.request_id, req.pad_len, req.seq_len)
          ELSE kv_cache[req.slot_id] = <<>>
    /\ \A i \in DOMAIN active_requests :
          LET req == active_requests[i]
              pending_row == IF pc = "decoded" THEN 1 ELSE 0
          IN pc # "exited" => kv_cache[req.slot_id] =
                Rows(req.request_id, pad_lens_by_sample[req.slot_id],
                     req.pos_len + pending_row)
    /\ \A i \in DOMAIN next_active :
          LET req == next_active[i]
          IN kv_cache[req.slot_id] =
                Rows(req.request_id, pad_lens_by_sample[req.slot_id], req.pos_len)

(* A batch never needs more slots than are free: the run-time check "not
   enough free slots" of prepare_admissions cannot fire. *)
EnoughFreeSlots ==
    Len(candidates) + Len(tokenized) <= Len(free_slots) \/ pc # "prepare"

With(batch, id) == {i \in DOMAIN batch : batch[i].request_id = id}
AnswersTo(id) == {i \in DOMAIN out : IsAnswer(out[i]) /\ out[i].request_id = id}

PlacesOf(id) ==
    ({"pending"} \X With(pending_prompts, id))
    \cup ({"candidate"} \X With(candidates, id))
    \cup ({"tokenized"} \X With(tokenized, id))
    \cup ({"prepared"} \X With(prepared, id))
    \cup ({"active"} \X With(active_requests, id))
    \cup ({"next_active"} \X With(next_active, id))
    \cup ({"answered"} \X AnswersTo(id))

(* A submitted request is in exactly one place: waiting, in service or
   answered, never lost between two lists, never answered twice. *)
RequestInOnePlace ==
    \A id \in 0 .. next_request_id - 1 :
        PlacesOf(id) # {} /\ \A p, q \in PlacesOf(id) : p = q

(* A request that its limit stopped generated exactly
   max(1, max_steps - seq_len + 1) tokens, one that EOS stopped at most that
   many: however its tokens fall on prefill and decode rounds, no request is
   cut short or runs over. *)
BudgetKept ==
    \A i \in DOMAIN out : IsAnswer(out[i]) =>
        LET budget == MaxGenerateTokens(out[i].seq_len) IN
        CASE out[i].reason = "max_tokens" -> out[i].generated = budget
          [] out[i].reason = "eos" -> out[i].generated <= budget
          [] out[i].reason = "empty" -> out[i].generated = 0

(* When run returns, every request ever accepted has its answer, no slot is
   held and no cache is left: /quit drains. *)
DrainedAtExit ==
    pc = "exited" =>
        /\ \A id \in 0 .. next_request_id - 1 : AnswersTo(id) # {}
        /\ Len(free_slots) = MaxActive
        /\ input_pc = "ended"

(* Every request accepted is answered, whatever else keeps arriving. *)
EveryRequestAnswered ==
    \A id \in 0 .. MaxRequests - 1 :
        (id < next_request_id) ~> (AnswersTo(id) # {})

(* Once the input is closed, run returns. *)
ServiceStops == input_closed ~> (pc = "exited")

-----------------------------------------------------------------------------
(* The service as its user sees it: slots, rounds and caches hidden. *)

Service == INSTANCE RequestService WITH
    Capacity <- MaxActive,
    InitialRequests <- InitialPrompts,
    accepted <- next_request_id,
    started <- next_request_id - Len(pending_prompts),
    answered <- {id \in 0 .. next_request_id - 1 : AnswersTo(id) # {}},
    closed <- input_closed,
    status <- CASE pc = "exited" -> "down"
                [] pc = "terminated" -> "broken"
                [] OTHER -> "up"

(* Every behaviour of the server and its input thread is one the service
   promises: first come first admitted, at most MaxActive in service, each
   request answered once, nothing accepted after the close and no stop
   before the last answer. *)
ImplementsService == Service!Spec

(* The service as the model sees it: the slots of the calls made to it.  What
   is popped in prepare_admissions counts from the forward pass on. *)
SlotIds(batch) == [i \in DOMAIN batch |-> batch[i].slot_id]
UnpoppedSlots ==
    [i \in DOMAIN prepared |-> prepared[Len(prepared) + 1 - i].slot_id]

Protocol == INSTANCE SlotProtocol WITH
    turn <- CASE pc \in {"admit", "prepare", "check"} -> "admit"
              [] pc \in {"exited", "terminated"} -> "stopped"
              [] OTHER -> pc,
    free_slots <- IF pc = "prefilled" THEN free_slots
                  ELSE free_slots \o UnpoppedSlots,
    prepared <- IF pc = "prefilled" THEN SlotIds(prepared) ELSE <<>>,
    active <- SlotIds(active_requests),
    next_active <- SlotIds(next_active),
    used <- {s \in Slots : kv_cache[s] # <<>>}

(* The server prefills only cleared slots, decodes exactly the slots of its
   active requests, and clears a slot in the same step that frees it: the
   order of calls the attention layers rely on. *)
FollowsSlotProtocol == Protocol!ProtocolSpec

=============================================================================
