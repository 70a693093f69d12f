-------------------- MODULE ContinuousBatchServer_proofs --------------------
(***************************************************************************)
(* Proofs about ContinuousBatchServer for every value of its constants:    *)
(* its type, the ownership of the slots and of the requests, the history   *)
(* each request attends to, and the refinements of RequestService and      *)
(* SlotProtocol.                                                           *)
(***************************************************************************)
EXTENDS ContinuousBatchServer, SequenceTheorems, FiniteSetTheorems, TLAPS

-----------------------------------------------------------------------------
(* The first and the last element of a sequence. *)

LEMMA DropFirst ==
    ASSUME NEW S, NEW s \in Seq(S), s # <<>>
    PROVE  /\ Head(s) \in S /\ Head(s) = s[1]
           /\ Tail(s) \in Seq(S)
           /\ Len(s) \in Nat \ {0}
           /\ DOMAIN s = 1 .. Len(s)
           /\ Len(Tail(s)) = Len(s) - 1
           /\ DOMAIN Tail(s) = 1 .. Len(s) - 1
           /\ \A i \in 1 .. Len(s) - 1 : Tail(s)[i] = s[i + 1]
  BY HeadTailProperties, LenProperties

LEMMA DropLast ==
    ASSUME NEW S, NEW s \in Seq(S), s # <<>>
    PROVE  /\ Last(s) \in S
           /\ Front(s) \in Seq(S)
           /\ Len(s) \in Nat \ {0}
           /\ DOMAIN s = 1 .. Len(s)
           /\ Len(Front(s)) = Len(s) - 1
           /\ DOMAIN Front(s) = 1 .. Len(s) - 1
           /\ \A i \in 1 .. Len(s) - 1 : Front(s)[i] = s[i]
<1>1. Len(s) \in Nat \ {0} /\ DOMAIN s = 1 .. Len(s) /\ s \in [1 .. Len(s) -> S]
  BY LenProperties, EmptySeq
<1>2. Last(s) \in S
  BY <1>1 DEF Last
<1>3. /\ Front(s) \in Seq(S)
      /\ Len(Front(s)) = Len(s) - 1
      /\ \A i \in 1 .. Len(s) - 1 : Front(s)[i] = s[i]
  BY <1>1, SubSeqProperties DEF Front
<1> QED
  BY <1>1, <1>2, <1>3, LenProperties

LEMMA AddLast ==
    ASSUME NEW S, NEW s \in Seq(S), NEW e \in S
    PROVE  /\ Append(s, e) \in Seq(S)
           /\ Len(s) \in Nat
           /\ DOMAIN s = 1 .. Len(s)
           /\ Len(Append(s, e)) = Len(s) + 1
           /\ DOMAIN Append(s, e) = 1 .. Len(s) + 1
           /\ \A i \in 1 .. Len(s) : Append(s, e)[i] = s[i]
           /\ Append(s, e)[Len(s) + 1] = e
  BY AppendProperties, LenProperties

LEMMA FirstN ==
    ASSUME NEW S, NEW s \in Seq(S), NEW n \in 0 .. Len(s)
    PROVE  /\ SubSeq(s, 1, n) \in Seq(S)
           /\ Len(SubSeq(s, 1, n)) = n
           /\ \A i \in 1 .. n : SubSeq(s, 1, n)[i] = s[i]
           /\ SubSeq(s, n + 1, Len(s)) \in Seq(S)
           /\ Len(SubSeq(s, n + 1, Len(s))) = Len(s) - n
           /\ \A i \in 1 .. Len(s) - n : SubSeq(s, n + 1, Len(s))[i] = s[n + i]
<1>1. Len(s) \in Nat /\ \A i \in 1 .. Len(s) : s[i] \in S
  BY LenProperties
<1>2. /\ SubSeq(s, 1, n) \in Seq(S)
      /\ Len(SubSeq(s, 1, n)) = IF 1 <= n THEN n - 1 + 1 ELSE 0
      /\ \A i \in 1 .. n - 1 + 1 : SubSeq(s, 1, n)[i] = s[1 + i - 1]
  <2>1. \A i \in 1 .. n : s[i] \in S
    BY <1>1
  <2> QED
    BY <2>1, SubSeqProperties
<1>3. /\ SubSeq(s, n + 1, Len(s)) \in Seq(S)
      /\ Len(SubSeq(s, n + 1, Len(s))) = IF n + 1 <= Len(s) THEN Len(s) - (n + 1) + 1 ELSE 0
      /\ \A i \in 1 .. Len(s) - (n + 1) + 1 : SubSeq(s, n + 1, Len(s))[i] = s[(n + 1) + i - 1]
  <2>1. \A i \in n + 1 .. Len(s) : s[i] \in S
    BY <1>1
  <2>2. n + 1 \in Int /\ Len(s) \in Int
    BY <1>1
  <2> QED
    BY <2>1, <2>2, SubSeqProperties
<1> QED
  BY <1>1, <1>2, <1>3

-----------------------------------------------------------------------------
(* Type correctness.  What an element of a list must satisfy by itself is    *)
(* put into the set the list is a sequence over.                             *)

(* A prompt that got through tokenization: at least one token, and no more
   than the longest of its batch. *)
FittingPrompt ==
    {p \in PromptType : p.seq_len # 0 /\ p.seq_len <= max_len}

SoundPrepared ==
    {p \in PreparedType :
        p.max_generate_tokens = MaxGenerateTokens(p.seq_len)}

(* An active request has tokens left to generate. *)
SoundActive ==
    {r \in ActiveType :
        /\ r.pos_len - r.decode_steps \in SeqLens
        /\ r.max_generate_tokens = MaxGenerateTokens(r.pos_len - r.decode_steps)
        /\ r.generated < r.max_generate_tokens}

SoundLine ==
    {l \in LineType : IsAnswer(l) =>
        LET budget == MaxGenerateTokens(l.seq_len) IN
        CASE l.reason = "max_tokens" -> l.generated = budget
          [] l.reason = "eos" -> l.generated <= budget
          [] l.reason = "empty" -> l.generated = 0}

ListsSound ==
    /\ tokenized \in Seq(FittingPrompt)
    /\ prepared \in Seq(SoundPrepared)
    /\ active_requests \in Seq(SoundActive)
    /\ next_active \in Seq(SoundActive)
    /\ out \in Seq(SoundLine)

(* Which lists are in use at which point of a round. *)
Stages ==
    /\ pc \notin {"prepare", "terminated"} => candidates = <<>> /\ tokenized = <<>>
    /\ pc \notin {"prepare", "prefilled", "terminated"} => prepared = <<>>
    /\ pc \notin {"decoded", "terminated"} => next_active = <<>>
    /\ pc = "exited" => active_requests = <<>>
    /\ input_pc = "submitted" => next_request_id > 0

TypeInv == TypeOK /\ ListsSound /\ EnoughFreeSlots /\ Stages

LEMMA GenerateAtLeastOne ==
    ASSUME NEW n \in Nat
    PROVE  MaxGenerateTokens(n) \in Nat \ {0}
  BY ServerAssumption DEF MaxGenerateTokens, Larger

LEMMA InitTypeInv == Init => TypeInv
<1> SUFFICES ASSUME Init PROVE TypeInv
  OBVIOUS
<1>1. PICK k \in 0 .. InitialPrompts : \E lens \in [1 .. k -> SeqLens] :
          /\ pending_prompts =
                [i \in 1 .. k |-> [request_id |-> i - 1, seq_len |-> lens[i]]]
          /\ next_request_id = k
  BY DEF Init
<1>2. pending_prompts \in Seq(PromptType) /\ next_request_id \in Nat
  BY <1>1, ServerAssumption DEF PromptType
<1>3. free_slots \in Seq(Slots) /\ Len(free_slots) \in Nat
  BY ServerAssumption DEF Init, Slots
<1>4. kv_cache \in [Slots -> Seq([request_id : Nat, pos : Int])]
  BY EmptySeq DEF Init
<1>5. /\ pad_lens_by_slot \in [Slots -> Nat]
      /\ pad_lens_by_sample \in [Slots -> Nat]
  BY DEF Init
<1>6. /\ candidates \in Seq(PromptType)
      /\ tokenized \in Seq(PromptType)
      /\ prepared \in Seq(PreparedType)
      /\ active_requests \in Seq(ActiveType)
      /\ next_active \in Seq(ActiveType)
      /\ out \in Seq(LineType)
  BY EmptySeq DEF Init
<1>7. TypeOK
  BY <1>2, <1>3, <1>4, <1>5, <1>6 DEF Init, TypeOK
<1>8. ListsSound
  BY EmptySeq DEF Init, ListsSound
<1>9. EnoughFreeSlots /\ Stages
  BY <1>3 DEF Init, EnoughFreeSlots, Stages
<1> QED
  BY <1>7, <1>8, <1>9 DEF TypeInv

(* The actions that only move a program counter or hand a list over. *)
LEMMA ControlTypeInv ==
    ASSUME TypeInv,
           MarkInputClosed \/ SkipAdmission \/ NothingToPrefill \/ EndAdmission
           \/ SkipDecode \/ EndDecode \/ Continue \/ ModelThrows \/ UNCHANGED vars
    PROVE  TypeInv'
<1>1. FittingPrompt' = FittingPrompt
  BY DEF FittingPrompt, MarkInputClosed, SkipAdmission, NothingToPrefill, EndAdmission,
         SkipDecode, EndDecode, Continue, ModelThrows, vars, admission_vars
<1> USE <1>1 DEF TypeInv, TypeOK, ListsSound, EnoughFreeSlots, Stages, vars, queue_vars,
        input_vars, admission_vars, slot_vars, model_vars, request_vars
<1>2. CASE MarkInputClosed
  BY <1>2 DEF MarkInputClosed
<1>3. CASE SkipAdmission
  BY <1>3 DEF SkipAdmission
<1>4. CASE NothingToPrefill
  BY <1>4 DEF NothingToPrefill
<1>5. CASE EndAdmission
  BY <1>5 DEF EndAdmission
<1>6. CASE SkipDecode
  BY <1>6 DEF SkipDecode
<1>7. CASE EndDecode
  BY <1>7, EmptySeq DEF EndDecode
<1>8. CASE Continue
  BY <1>8 DEF Continue
<1>9. CASE ModelThrows
  BY <1>9 DEF ModelThrows, ReadyToPrefill, ReadyToDecode
<1>10. CASE UNCHANGED vars
  BY <1>10
<1> QED
  BY <1>2, <1>3, <1>4, <1>5, <1>6, <1>7, <1>8, <1>9, <1>10

LEMMA InputTypeInv ==
    ASSUME TypeInv, (\E n \in SeqLens : SubmitPrompt(n)) \/ PrintAccepted
    PROVE  TypeInv'
<1>1. FittingPrompt' = FittingPrompt
  BY DEF FittingPrompt, SubmitPrompt, PrintAccepted, admission_vars
<1>2. ASSUME NEW n \in SeqLens, SubmitPrompt(n) PROVE TypeInv'
  <2>1. pending_prompts' \in Seq(PromptType) /\ next_request_id' \in Nat \ {0}
    BY <1>2, AddLast DEF SubmitPrompt, PromptType, TypeInv, TypeOK
  <2>7. TypeOK'
    BY <1>1, <1>2, <2>1 DEF SubmitPrompt, TypeInv, TypeOK, admission_vars, slot_vars,
          model_vars, request_vars
  <2>8. ListsSound'
    BY <1>1, <1>2, <2>1 DEF SubmitPrompt, TypeInv, ListsSound, admission_vars, slot_vars,
          model_vars, request_vars
  <2>9. EnoughFreeSlots' /\ Stages'
    BY <1>1, <1>2, <2>1 DEF SubmitPrompt, TypeInv, EnoughFreeSlots, Stages, admission_vars, slot_vars,
          model_vars, request_vars
  <2> QED
    BY <2>7, <2>8, <2>9 DEF TypeInv
<1>3. CASE PrintAccepted
  <2>1. next_request_id - 1 \in Nat
    BY <1>3 DEF PrintAccepted, InputThreadAt, TypeInv, TypeOK, Stages
  <2>2. Accepted(next_request_id - 1) \in LineType /\ Accepted(next_request_id - 1) \in SoundLine
    BY <2>1 DEF Accepted, LineType, SoundLine, IsAnswer
  <2>3. out' \in Seq(LineType) /\ out' \in Seq(SoundLine)
    BY <1>3, <2>2, AddLast DEF PrintAccepted, TypeInv, TypeOK, ListsSound
  <2> QED
    BY <1>1, <1>3, <2>3
       DEF PrintAccepted, TypeInv, TypeOK, ListsSound, EnoughFreeSlots, Stages,
           admission_vars, slot_vars, model_vars, request_vars
<1> QED
  BY <1>2, <1>3

LEMMA PopTypeInv ==
    ASSUME TypeInv, PopAdmissionCandidates PROVE TypeInv'
<1>1. /\ pending_prompts \in Seq(PromptType) /\ free_slots \in Seq(Slots)
      /\ Len(pending_prompts) \in Nat /\ Len(free_slots) \in Nat
  BY LenProperties DEF TypeInv, TypeOK
<1>2. AdmissionCount \in 0 .. Len(pending_prompts) /\ AdmissionCount <= Len(free_slots)
  BY <1>1, ServerAssumption DEF AdmissionCount, Smaller
<1>3. /\ candidates' \in Seq(PromptType) /\ Len(candidates') = AdmissionCount
      /\ pending_prompts' \in Seq(PromptType)
  BY <1>1, <1>2, FirstN DEF PopAdmissionCandidates
<1>4. tokenized' = <<>> /\ tokenized' \in Seq(FittingPrompt')
  BY EmptySeq DEF PopAdmissionCandidates, TypeInv, Stages
<1> QED
  BY <1>1, <1>2, <1>3, <1>4, SMTT(30)
     DEF PopAdmissionCandidates, TypeInv, TypeOK, ListsSound, EnoughFreeSlots, Stages,
         input_vars, slot_vars, model_vars, request_vars

LEMMA TokenizeTypeInv ==
    ASSUME TypeInv, AnswerEmptyPrompt \/ TokenizePrompt PROVE TypeInv'
<1>1. /\ Head(candidates) \in PromptType
      /\ candidates' \in Seq(PromptType)
      /\ Len(candidates') = Len(candidates) - 1
      /\ Len(candidates) \in Nat /\ Len(tokenized) \in Nat /\ Len(free_slots) \in Nat
  BY DropFirst, LenProperties DEF AnswerEmptyPrompt, TokenizePrompt, TypeInv, TypeOK
<1>2. Head(candidates).seq_len \in Nat /\ Head(candidates).request_id \in Nat
  BY <1>1, ServerAssumption DEF PromptType
<1>3. CASE AnswerEmptyPrompt
  <2> DEFINE line == Answer(Head(candidates).request_id, 0, 0, "empty")
  <2>1. line \in LineType /\ line \in SoundLine
    BY <1>2 DEF Answer, LineType, SoundLine
  <2>2. out' \in Seq(LineType) /\ out' \in Seq(SoundLine)
    BY <1>3, <2>1, AddLast DEF AnswerEmptyPrompt, TypeInv, TypeOK, ListsSound
  <2>3. FittingPrompt' = FittingPrompt
    BY <1>3 DEF FittingPrompt, AnswerEmptyPrompt
  <2>7. TypeOK'
    BY <1>1, <1>3, <2>2, <2>3 DEF AnswerEmptyPrompt, TypeInv, TypeOK, queue_vars,
          input_vars, slot_vars, model_vars, request_vars
  <2>8. ListsSound'
    BY <1>1, <1>3, <2>2, <2>3 DEF AnswerEmptyPrompt, TypeInv, ListsSound, queue_vars,
          input_vars, slot_vars, model_vars, request_vars
  <2>9. EnoughFreeSlots' /\ Stages'
    BY <1>1, <1>3, <2>2, <2>3 DEF AnswerEmptyPrompt, TypeInv, EnoughFreeSlots, Stages, queue_vars,
          input_vars, slot_vars, model_vars, request_vars
  <2> QED
    BY <2>7, <2>8, <2>9 DEF TypeInv
<1>4. CASE TokenizePrompt
  <2>1. /\ max_len \in Nat /\ max_len' \in Nat
        /\ max_len <= max_len' /\ Head(candidates).seq_len <= max_len'
    BY <1>2, <1>4 DEF TokenizePrompt, Larger, TypeInv, TypeOK
  <2>2. FittingPrompt \subseteq FittingPrompt'
    <3> SUFFICES ASSUME NEW p \in FittingPrompt PROVE p \in FittingPrompt'
      OBVIOUS
    <3>1. p.seq_len \in Nat
      BY ServerAssumption DEF FittingPrompt, PromptType
    <3> QED
      BY <2>1, <3>1 DEF FittingPrompt
  <2>3. Head(candidates) \in FittingPrompt'
    BY <1>1, <1>4, <2>1 DEF FittingPrompt, TokenizePrompt
  <2>4. tokenized \in Seq(FittingPrompt')
    BY <2>2, SeqMonotonic DEF TypeInv, ListsSound
  <2>5. tokenized' \in Seq(FittingPrompt') /\ tokenized' \in Seq(PromptType)
        /\ Len(tokenized') = Len(tokenized) + 1
    BY <1>1, <1>4, <2>3, <2>4, AddLast DEF TokenizePrompt, TypeInv, TypeOK
  <2>7. TypeOK'
    BY <1>1, <1>4, <2>1, <2>5 DEF TokenizePrompt, TypeInv, TypeOK, queue_vars,
          input_vars, slot_vars, model_vars, request_vars
  <2>8. ListsSound'
    BY <1>1, <1>4, <2>1, <2>5 DEF TokenizePrompt, TypeInv, ListsSound, queue_vars,
          input_vars, slot_vars, model_vars, request_vars
  <2>9. EnoughFreeSlots' /\ Stages'
    BY <1>1, <1>4, <2>1, <2>5 DEF TokenizePrompt, TypeInv, EnoughFreeSlots, Stages, queue_vars,
          input_vars, slot_vars, model_vars, request_vars
  <2> QED
    BY <2>7, <2>8, <2>9 DEF TypeInv
<1> QED
  BY <1>3, <1>4

LEMMA AssignTypeInv ==
    ASSUME TypeInv, AssignSlot PROVE TypeInv'
<1> DEFINE req == Head(tokenized)
           slot == Last(free_slots)
           pad_len == max_len - req.seq_len
           adm == [request_id |-> req.request_id, slot_id |-> slot,
                   seq_len |-> req.seq_len, pad_len |-> pad_len,
                   max_generate_tokens |-> MaxGenerateTokens(req.seq_len)]
<1>1. /\ req \in FittingPrompt
      /\ tokenized' \in Seq(FittingPrompt) /\ tokenized' \in Seq(PromptType)
      /\ Len(tokenized') = Len(tokenized) - 1
      /\ Len(tokenized) \in Nat \ {0} /\ candidates = <<>>
  BY DropFirst DEF AssignSlot, TypeInv, TypeOK, ListsSound
<1>2. Len(free_slots) \in Nat /\ Len(free_slots) >= Len(tokenized) /\ free_slots # <<>>
  BY <1>1, LenProperties, EmptySeq DEF AssignSlot, TypeInv, TypeOK, EnoughFreeSlots
<1>3. /\ slot \in Slots
      /\ free_slots' \in Seq(Slots) /\ Len(free_slots') = Len(free_slots) - 1
  BY <1>2, DropLast DEF AssignSlot, TypeInv, TypeOK
<1>4. req.request_id \in Nat /\ req.seq_len \in SeqLens /\ req.seq_len \in Nat
  BY <1>1, ServerAssumption DEF FittingPrompt, PromptType
<1>5. pad_len \in Nat
  BY <1>1, <1>4 DEF FittingPrompt, TypeInv, TypeOK
<1>6. adm \in PreparedType
  BY <1>3, <1>4, <1>5, GenerateAtLeastOne DEF PreparedType
<1>7. adm \in SoundPrepared
  BY <1>6 DEF SoundPrepared
<1>8. prepared' \in Seq(PreparedType) /\ prepared' \in Seq(SoundPrepared)
  BY <1>6, <1>7, AddLast DEF AssignSlot, TypeInv, TypeOK, ListsSound
<1>9. pad_lens_by_slot' \in [Slots -> Nat]
  BY <1>3, <1>5 DEF AssignSlot, TypeInv, TypeOK
<1>10. FittingPrompt' = FittingPrompt
  BY DEF AssignSlot, FittingPrompt
<1>11. TypeOK'
  BY <1>1, <1>3, <1>8, <1>9 DEF AssignSlot, TypeInv, TypeOK, queue_vars, input_vars, model_vars
<1>12. ListsSound'
  BY <1>1, <1>8, <1>10 DEF AssignSlot, TypeInv, ListsSound
<1>13. EnoughFreeSlots' /\ Stages'
  BY <1>1, <1>2, <1>3
     DEF AssignSlot, TypeInv, EnoughFreeSlots, Stages, queue_vars, input_vars
<1> QED
  BY <1>11, <1>12, <1>13 DEF TypeInv

RowType == [request_id : Nat, pos : Int]

LEMMA RowsType ==
    ASSUME NEW id \in Nat, NEW pad \in Nat, NEW n \in Nat
    PROVE  Rows(id, pad, n) \in Seq(RowType) /\ Len(Rows(id, pad, n)) = pad + n
  BY DEF Rows, RowType

(* The forward passes: the cache keeps its type. *)
LEMMA ForwardTypeInv ==
    ASSUME TypeInv, PrefillForward \/ DecodeForward PROVE TypeInv'
<1>1. kv_cache' \in [Slots -> Seq(RowType)]
  <2>1. CASE PrefillForward
    <3>1. ASSUME NEW s \in Slots, InSlot(prepared, s) # {}
          PROVE  LET req == prepared[CHOOSE i \in InSlot(prepared, s) : TRUE]
                 IN kv_cache[s] \o Rows(req.request_id, req.pad_len, req.seq_len)
                        \in Seq(RowType)
      <4> DEFINE i == CHOOSE i \in InSlot(prepared, s) : TRUE
                 req == prepared[i]
      <4>1. i \in DOMAIN prepared
        BY <3>1 DEF InSlot
      <4> HIDE DEF i
      <4>2. req \in PreparedType
        BY <4>1, LenProperties, ElementOfSeq DEF TypeInv, TypeOK
      <4>3. req.request_id \in Nat /\ req.pad_len \in Nat /\ req.seq_len \in Nat
        BY <4>2, ServerAssumption DEF PreparedType
      <4>4. kv_cache[s] \in Seq(RowType)
        BY DEF TypeInv, TypeOK, RowType
      <4> QED
        BY <4>3, <4>4, RowsType, ConcatProperties DEF i
    <3>2. \A s \in Slots : kv_cache[s] \in Seq(RowType)
      BY DEF TypeInv, TypeOK, RowType
    <3> QED
      BY <2>1, <3>1, <3>2 DEF PrefillForward
  <2>2. CASE DecodeForward
    <3>1. ASSUME NEW s \in Slots, InSlot(active_requests, s) # {}
          PROVE  LET req == active_requests[CHOOSE i \in InSlot(active_requests, s) : TRUE]
                 IN Append(kv_cache[s], [request_id |-> req.request_id, pos |-> req.pos_len])
                        \in Seq(RowType)
      <4> DEFINE i == CHOOSE i \in InSlot(active_requests, s) : TRUE
                 req == active_requests[i]
      <4>1. i \in DOMAIN active_requests
        BY <3>1 DEF InSlot
      <4> HIDE DEF i
      <4>2. req \in ActiveType
        BY <4>1, LenProperties, ElementOfSeq DEF TypeInv, TypeOK
      <4>3. [request_id |-> req.request_id, pos |-> req.pos_len] \in RowType
        BY <4>2 DEF ActiveType, RowType
      <4>4. kv_cache[s] \in Seq(RowType)
        BY DEF TypeInv, TypeOK, RowType
      <4> QED
        BY <4>3, <4>4, AppendProperties DEF i
    <3>2. \A s \in Slots : kv_cache[s] \in Seq(RowType)
      BY DEF TypeInv, TypeOK, RowType
    <3> QED
      BY <2>2, <3>1, <3>2 DEF DecodeForward
  <2> QED
    BY <2>1, <2>2
<1>2. FittingPrompt' = FittingPrompt
  BY DEF FittingPrompt, PrefillForward, DecodeForward, admission_vars
<1>3. TypeOK'
  BY <1>1 DEF PrefillForward, DecodeForward, TypeInv, TypeOK, RowType, queue_vars,
              input_vars, admission_vars, slot_vars, request_vars
<1>4. ListsSound'
  BY <1>2 DEF PrefillForward, DecodeForward, TypeInv, ListsSound, admission_vars, request_vars
<1>5. EnoughFreeSlots' /\ Stages'
  BY DEF PrefillForward, DecodeForward, ReadyToPrefill, ReadyToDecode, TypeInv,
         EnoughFreeSlots, Stages, queue_vars, input_vars, admission_vars, slot_vars,
         request_vars
<1> QED
  BY <1>3, <1>4, <1>5 DEF TypeInv

(* An active request, or one whose last token has just been sampled. *)
SoundSampled ==
    {r \in ActiveType :
        /\ r.pos_len - r.decode_steps \in SeqLens
        /\ r.max_generate_tokens = MaxGenerateTokens(r.pos_len - r.decode_steps)
        /\ r.generated <= r.max_generate_tokens}

LEMMA FinishTypes ==
    ASSUME TypeInv, NEW req \in SoundSampled, Finished(req), FinishRequest(req)
    PROVE  /\ kv_cache' \in [Slots -> Seq([request_id : Nat, pos : Int])]
           /\ pad_lens_by_slot' \in [Slots -> Nat]
           /\ pad_lens_by_sample' \in [Slots -> Nat]
           /\ free_slots' \in Seq(Slots)
           /\ Len(free_slots') = Len(free_slots) + 1
           /\ out' \in Seq(LineType)
           /\ out' \in Seq(SoundLine)
<1> DEFINE seq_len == req.pos_len - req.decode_steps
           line == Answer(req.request_id, seq_len, req.generated, Reason(req))
<1>1. /\ req.slot_id \in Slots /\ req.request_id \in Nat /\ req.generated \in Nat
      /\ seq_len \in Nat
      /\ req.max_generate_tokens = MaxGenerateTokens(seq_len)
      /\ req.max_generate_tokens \in Nat
      /\ req.generated <= req.max_generate_tokens
  BY ServerAssumption DEF SoundSampled, ActiveType
<1>2. /\ kv_cache' \in [Slots -> Seq([request_id : Nat, pos : Int])]
      /\ pad_lens_by_slot' \in [Slots -> Nat]
      /\ pad_lens_by_sample' \in [Slots -> Nat]
  BY <1>1, EmptySeq DEF FinishRequest, TypeInv, TypeOK
<1>3. free_slots' \in Seq(Slots) /\ Len(free_slots') = Len(free_slots) + 1
  BY <1>1, AddLast DEF FinishRequest, TypeInv, TypeOK
<1>4. line \in LineType
  BY <1>1 DEF Answer, Reason, LineType
<1>5. line \in SoundLine
  <2>1. CASE HitEos(req)
    <3>1. line.reason = "eos" /\ line.generated = req.generated /\ line.seq_len = seq_len
      BY <2>1 DEF Answer, Reason
    <3> QED
      BY <1>1, <1>4, <3>1 DEF SoundLine
  <2>2. CASE ~HitEos(req)
    <3>1. line.reason = "max_tokens" /\ line.generated = req.generated /\ line.seq_len = seq_len
      BY <2>2 DEF Answer, Reason
    <3>2. req.generated = req.max_generate_tokens
      BY <1>1, <2>2 DEF Finished, HitLimit
    <3> QED
      BY <1>1, <1>4, <3>1, <3>2 DEF SoundLine
  <2> QED
    BY <2>1, <2>2
<1>6. out' \in Seq(LineType) /\ out' \in Seq(SoundLine)
  BY <1>4, <1>5, AddLast DEF FinishRequest, TypeInv, TypeOK, ListsSound
<1> QED
  BY <1>2, <1>3, <1>6

LEMMA AdmittedSound ==
    ASSUME NEW adm \in SoundPrepared, NEW token \in Tokens
    PROVE  Admitted(adm, token) \in SoundSampled
<1>1. /\ adm \in PreparedType /\ adm.seq_len \in Nat /\ adm.seq_len \in SeqLens
      /\ adm.max_generate_tokens = MaxGenerateTokens(adm.seq_len)
      /\ adm.request_id \in Nat /\ adm.slot_id \in Slots
  BY ServerAssumption DEF SoundPrepared, PreparedType
<1>2. MaxGenerateTokens(adm.seq_len) \in Nat \ {0} /\ Counted(token) \in {0, 1}
  BY <1>1, GenerateAtLeastOne DEF Counted
<1>3. Admitted(adm, token) \in ActiveType
  BY <1>1, <1>2 DEF Admitted, ActiveType
<1> QED
  BY <1>1, <1>2, <1>3 DEF Admitted, SoundSampled

LEMMA AdvancedSound ==
    ASSUME NEW req \in SoundActive, NEW token \in Tokens
    PROVE  Advanced(req, token) \in SoundSampled
<1> DEFINE next == Advanced(req, token)
<1>1. Counted(token) \in {0, 1}
  BY DEF Counted
<1>2. req \in ActiveType
  BY DEF SoundActive
<1>3. /\ req.pos_len \in Nat /\ req.decode_steps \in Nat /\ req.generated \in Nat
      /\ req.max_generate_tokens \in Nat /\ req.generated < req.max_generate_tokens
  BY <1>2 DEF SoundActive, ActiveType
<1>4. next \in ActiveType
  <2>1. ASSUME NEW r \in ActiveType, NEW n \in Nat
        PROVE  /\ [r EXCEPT !.pos_len = n] \in ActiveType
               /\ [r EXCEPT !.decode_steps = n] \in ActiveType
               /\ [r EXCEPT !.generated = n] \in ActiveType
               /\ [r EXCEPT !.next_token = token] \in ActiveType
    BY DEF ActiveType
  <2>2. /\ req.pos_len + 1 \in Nat /\ req.decode_steps + 1 \in Nat
        /\ req.generated + Counted(token) \in Nat
    BY <1>1, <1>3
  <2> QED
    BY <1>2, <2>1, <2>2 DEF Advanced
<1>5. /\ next.pos_len = req.pos_len + 1
      /\ next.decode_steps = req.decode_steps + 1
      /\ next.generated = req.generated + Counted(token)
      /\ next.max_generate_tokens = req.max_generate_tokens
  <2>1. DOMAIN req = {"request_id", "slot_id", "pos_len", "max_generate_tokens",
                      "next_token", "generated", "decode_steps"}
    BY <1>2 DEF ActiveType
  <2> QED
    BY <2>1 DEF Advanced
<1>6. /\ next.pos_len - next.decode_steps = req.pos_len - req.decode_steps
      /\ next.generated <= next.max_generate_tokens
  BY <1>1, <1>3, <1>5
<1> QED
  BY <1>4, <1>5, <1>6 DEF SoundSampled, SoundActive

LEMMA UnfinishedSound ==
    ASSUME NEW req \in SoundSampled, ~Finished(req)
    PROVE  req \in SoundActive
  BY DEF SoundSampled, SoundActive, ActiveType, Finished, HitLimit

LEMMA SampleTypeInv ==
    ASSUME TypeInv, NEW token \in Tokens, AdmitRequest(token) \/ DecodeRequest(token)
    PROVE  TypeInv'
<1>1. FittingPrompt' = FittingPrompt
  BY DEF FittingPrompt, AdmitRequest, DecodeRequest, admission_vars
<1>2. CASE AdmitRequest(token)
  <2> DEFINE req == Admitted(Head(prepared), token)
  <2>1. /\ Head(prepared) \in SoundPrepared
        /\ prepared' \in Seq(SoundPrepared) /\ prepared' \in Seq(PreparedType)
    BY <1>2, DropFirst DEF AdmitRequest, TypeInv, TypeOK, ListsSound
  <2>2. req \in SoundSampled /\ req \in ActiveType
    BY <2>1, AdmittedSound DEF SoundSampled
  <2>3. CASE Finished(req)
    <3>1. FinishRequest(req) /\ active_requests' = active_requests
      BY <1>2, <2>3 DEF AdmitRequest
    <3>2. TypeOK'
      BY <1>2, <2>1, <2>2, <2>3, <3>1, FinishTypes
         DEF AdmitRequest, TypeInv, TypeOK, queue_vars, input_vars, admission_vars
    <3>3. ListsSound'
      BY <1>1, <1>2, <2>1, <2>2, <2>3, <3>1, FinishTypes
         DEF AdmitRequest, TypeInv, ListsSound, admission_vars
    <3>4. EnoughFreeSlots' /\ Stages'
      BY <1>2 DEF AdmitRequest, TypeInv, EnoughFreeSlots, Stages, queue_vars, input_vars, admission_vars
    <3> QED
      BY <3>2, <3>3, <3>4 DEF TypeInv
  <2>4. CASE ~Finished(req)
    <3>1. /\ active_requests' = Append(active_requests, req)
          /\ UNCHANGED <<slot_vars, model_vars, out>>
      BY <1>2, <2>4 DEF AdmitRequest
    <3>2. active_requests' \in Seq(ActiveType) /\ active_requests' \in Seq(SoundActive)
      BY <2>2, <2>4, <3>1, UnfinishedSound, AddLast DEF TypeInv, TypeOK, ListsSound
    <3>3. TypeOK'
      BY <1>2, <2>1, <3>1, <3>2
         DEF AdmitRequest, TypeInv, TypeOK, queue_vars, input_vars, admission_vars,
             slot_vars, model_vars
    <3>4. ListsSound'
      BY <1>1, <1>2, <2>1, <3>1, <3>2 DEF AdmitRequest, TypeInv, ListsSound, admission_vars
    <3>5. EnoughFreeSlots' /\ Stages'
      BY <1>2 DEF AdmitRequest, TypeInv, EnoughFreeSlots, Stages, queue_vars, input_vars, admission_vars
    <3> QED
      BY <3>3, <3>4, <3>5 DEF TypeInv
  <2> QED
    BY <2>3, <2>4
<1>3. CASE DecodeRequest(token)
  <2> DEFINE req == Advanced(Head(active_requests), token)
  <2>1. /\ Head(active_requests) \in SoundActive
        /\ active_requests' \in Seq(SoundActive) /\ active_requests' \in Seq(ActiveType)
    BY <1>3, DropFirst DEF DecodeRequest, TypeInv, TypeOK, ListsSound
  <2>2. req \in SoundSampled /\ req \in ActiveType
    BY <2>1, AdvancedSound DEF SoundSampled
  <2>3. CASE Finished(req)
    <3>1. FinishRequest(req) /\ next_active' = next_active
      BY <1>3, <2>3 DEF DecodeRequest
    <3>2. TypeOK'
      BY <1>3, <2>1, <2>2, <2>3, <3>1, FinishTypes
         DEF DecodeRequest, TypeInv, TypeOK, queue_vars, input_vars, admission_vars
    <3>3. ListsSound'
      BY <1>1, <1>3, <2>1, <2>2, <2>3, <3>1, FinishTypes
         DEF DecodeRequest, TypeInv, ListsSound, admission_vars
    <3>4. EnoughFreeSlots' /\ Stages'
      BY <1>3 DEF DecodeRequest, TypeInv, EnoughFreeSlots, Stages, queue_vars, input_vars, admission_vars
    <3> QED
      BY <3>2, <3>3, <3>4 DEF TypeInv
  <2>4. CASE ~Finished(req)
    <3>1. /\ next_active' = Append(next_active, req)
          /\ UNCHANGED <<slot_vars, model_vars, out>>
      BY <1>3, <2>4 DEF DecodeRequest
    <3>2. next_active' \in Seq(ActiveType) /\ next_active' \in Seq(SoundActive)
      BY <2>2, <2>4, <3>1, UnfinishedSound, AddLast DEF TypeInv, TypeOK, ListsSound
    <3>3. TypeOK'
      BY <1>3, <2>1, <3>1, <3>2
         DEF DecodeRequest, TypeInv, TypeOK, queue_vars, input_vars, admission_vars,
             slot_vars, model_vars
    <3>4. ListsSound'
      BY <1>1, <1>3, <2>1, <3>1, <3>2 DEF DecodeRequest, TypeInv, ListsSound, admission_vars
    <3>5. EnoughFreeSlots' /\ Stages'
      BY <1>3 DEF DecodeRequest, TypeInv, EnoughFreeSlots, Stages, queue_vars, input_vars, admission_vars
    <3> QED
      BY <3>3, <3>4, <3>5 DEF TypeInv
  <2> QED
    BY <2>3, <2>4
<1> QED
  BY <1>2, <1>3

LEMMA ExitTypeInv ==
    ASSUME TypeInv, Exit PROVE TypeInv'
<1>1. FittingPrompt' = FittingPrompt
  BY DEF FittingPrompt, Exit, admission_vars
<1>2. kv_cache' \in [Slots -> Seq([request_id : Nat, pos : Int])]
  BY EmptySeq DEF Exit
<1>3. TypeOK'
  BY <1>2 DEF Exit, TypeInv, TypeOK, queue_vars, input_vars, admission_vars, slot_vars, request_vars
<1>4. ListsSound'
  BY <1>1 DEF Exit, TypeInv, ListsSound, admission_vars, request_vars
<1>5. EnoughFreeSlots' /\ Stages'
  BY DEF Exit, IsDone, TypeInv, EnoughFreeSlots, Stages, queue_vars, input_vars,
         admission_vars, slot_vars, request_vars
<1> QED
  BY <1>3, <1>4, <1>5 DEF TypeInv

LEMMA NextTypeInv == TypeInv /\ [Next]_vars => TypeInv'
<1> SUFFICES ASSUME TypeInv, [Next]_vars PROVE TypeInv'
  OBVIOUS
<1>1. CASE InputThread
  BY <1>1, InputTypeInv, ControlTypeInv DEF InputThread
<1>2. CASE AdmitPrefillRound
  BY <1>2, PopTypeInv, ControlTypeInv, TokenizeTypeInv, AssignTypeInv, ForwardTypeInv,
     SampleTypeInv DEF AdmitPrefillRound
<1>3. CASE DecodeRound
  BY <1>3, ControlTypeInv, ForwardTypeInv, SampleTypeInv DEF DecodeRound
<1>4. CASE Continue \/ Exit \/ ModelThrows \/ Stopped \/ UNCHANGED vars
  BY <1>4, ControlTypeInv, ExitTypeInv DEF Stopped
<1> QED
  BY <1>1, <1>2, <1>3, <1>4 DEF Next, ServerThread

LEMMA TypeInvariance == Spec => []TypeInv
  BY InitTypeInv, NextTypeInv, PTL DEF Spec

(* The variables of the service keep their types. *)
THEOREM TypeCorrect == Spec => []TypeOK
  BY TypeInvariance, PTL DEF TypeInv

(* prepare_admissions never runs out of slots. *)
THEOREM SlotsSuffice == Spec => []EnoughFreeSlots
  BY TypeInvariance, PTL DEF TypeInv

(* Every answer has the number of tokens its limit allows, and every request
   that its limit stopped has exactly that many. *)
THEOREM BudgetIsKept == Spec => []BudgetKept
<1>1. TypeInv => BudgetKept
  <2> SUFFICES ASSUME TypeInv, NEW i \in DOMAIN out, IsAnswer(out[i])
               PROVE  out[i] \in SoundLine
    BY DEF BudgetKept, SoundLine
  <2> QED
    BY LenProperties DEF TypeInv, ListsSound
<1> QED
  BY <1>1, TypeInvariance, PTL

-----------------------------------------------------------------------------
(***************************************************************************)
(* No slot is ever lost, handed out twice or freed while in use, for every *)
(* value of the constants of ContinuousBatchServer.                        *)
(***************************************************************************)

(* The holders of slots: the stack of free slots and three lists of          *)
(* requests.  Each holds a set of slots, every slot at one index.            *)

Taken(stack) == {stack[i] : i \in DOMAIN stack}
HeldBy(batch) == {batch[i].slot_id : i \in DOMAIN batch}

TakenOnce(stack) == \A i, j \in DOMAIN stack : stack[i] = stack[j] => i = j
HeldOnce(batch) ==
    \A i, j \in DOMAIN batch : batch[i].slot_id = batch[j].slot_id => i = j

(* Four pairwise disjoint sets that make up all slots. *)
Split(free, ready, active, next) ==
    /\ free \cap ready = {} /\ free \cap active = {} /\ free \cap next = {}
    /\ ready \cap active = {} /\ ready \cap next = {} /\ active \cap next = {}
    /\ Slots = free \cup ready \cup active \cup next

SlotInv ==
    /\ TakenOnce(free_slots)
    /\ HeldOnce(prepared) /\ HeldOnce(active_requests) /\ HeldOnce(next_active)
    /\ Split(Taken(free_slots), HeldBy(prepared), HeldBy(active_requests),
             HeldBy(next_active))

(* Taking the first request of a batch out of it. *)
LEMMA DropHolder ==
    ASSUME NEW S, NEW batch \in Seq(S), batch # <<>>, HeldOnce(batch)
    PROVE  /\ HeldOnce(Tail(batch))
           /\ Head(batch).slot_id \in HeldBy(batch)
           /\ HeldBy(Tail(batch)) = HeldBy(batch) \ {Head(batch).slot_id}
<1>1. /\ Len(batch) \in Nat \ {0}
      /\ DOMAIN batch = 1 .. Len(batch)
      /\ DOMAIN Tail(batch) = 1 .. Len(batch) - 1
      /\ Head(batch) = batch[1]
      /\ \A i \in 1 .. Len(batch) - 1 : Tail(batch)[i] = batch[i + 1]
  BY DropFirst
<1>2. HeldOnce(Tail(batch))
  BY <1>1 DEF HeldOnce
<1>3. Head(batch).slot_id \in HeldBy(batch)
  BY <1>1 DEF HeldBy
<1>4. ASSUME NEW s \in HeldBy(Tail(batch))
      PROVE  s \in HeldBy(batch) /\ s # Head(batch).slot_id
  <2>1. PICK i \in 1 .. Len(batch) - 1 : s = batch[i + 1].slot_id
    BY <1>1 DEF HeldBy
  <2>2. i + 1 \in DOMAIN batch /\ 1 \in DOMAIN batch /\ i + 1 # 1
    BY <1>1
  <2> QED
    BY <1>1, <2>1, <2>2 DEF HeldBy, HeldOnce
<1>5. ASSUME NEW s \in HeldBy(batch), s # Head(batch).slot_id
      PROVE  s \in HeldBy(Tail(batch))
  <2>1. PICK i \in 1 .. Len(batch) : s = batch[i].slot_id
    BY <1>1 DEF HeldBy
  <2>2. i - 1 \in 1 .. Len(batch) - 1 /\ (i - 1) + 1 = i
    BY <1>1, <1>5, <2>1
  <2> QED
    BY <1>1, <2>1, <2>2 DEF HeldBy
<1> QED
  BY <1>2, <1>3, <1>4, <1>5

(* Adding a request to a batch that does not hold its slot. *)
LEMMA AddHolder ==
    ASSUME NEW S, NEW batch \in Seq(S), NEW req \in S
    PROVE  /\ HeldBy(Append(batch, req)) = HeldBy(batch) \cup {req.slot_id}
           /\ HeldOnce(batch) /\ req.slot_id \notin HeldBy(batch)
                => HeldOnce(Append(batch, req))
<1> DEFINE more == Append(batch, req)
<1>1. /\ Len(batch) \in Nat
      /\ DOMAIN batch = 1 .. Len(batch)
      /\ DOMAIN more = 1 .. Len(batch) + 1
      /\ \A i \in 1 .. Len(batch) : more[i] = batch[i]
      /\ more[Len(batch) + 1] = req
  BY AddLast
<1> HIDE DEF more
<1>2. ASSUME NEW s \in HeldBy(more) PROVE s \in HeldBy(batch) \cup {req.slot_id}
  <2>1. PICK i \in 1 .. Len(batch) + 1 : s = more[i].slot_id
    BY <1>1 DEF HeldBy
  <2>2. CASE i = Len(batch) + 1
    BY <1>1, <2>1, <2>2
  <2>3. CASE i \in 1 .. Len(batch)
    BY <1>1, <2>1, <2>3 DEF HeldBy
  <2> QED
    BY <1>1, <2>2, <2>3
<1>3. ASSUME NEW s \in HeldBy(batch) PROVE s \in HeldBy(more)
  <2>1. PICK i \in 1 .. Len(batch) : s = batch[i].slot_id
    BY <1>1 DEF HeldBy
  <2>2. i \in DOMAIN more /\ more[i].slot_id = s
    BY <1>1, <2>1
  <2> QED
    BY <2>2 DEF HeldBy
<1>4. req.slot_id \in HeldBy(more)
  <2>1. Len(batch) + 1 \in DOMAIN more
    BY <1>1
  <2> QED
    BY <1>1, <2>1 DEF HeldBy
<1>5. ASSUME HeldOnce(batch), req.slot_id \notin HeldBy(batch) PROVE HeldOnce(more)
  <2> SUFFICES ASSUME NEW i \in 1 .. Len(batch) + 1, NEW j \in 1 .. Len(batch) + 1,
                      more[i].slot_id = more[j].slot_id
               PROVE  i = j
    BY <1>1 DEF HeldOnce
  <2>1. \A n \in 1 .. Len(batch) : more[n].slot_id \in HeldBy(batch)
    BY <1>1 DEF HeldBy
  <2>2. CASE i \in 1 .. Len(batch) /\ j \in 1 .. Len(batch)
    BY <1>1, <1>5, <2>2 DEF HeldOnce
  <2>3. CASE i = Len(batch) + 1 /\ j \in 1 .. Len(batch)
    BY <1>1, <1>5, <2>1, <2>3
  <2>4. CASE j = Len(batch) + 1 /\ i \in 1 .. Len(batch)
    BY <1>1, <1>5, <2>1, <2>4
  <2> QED
    BY <1>1, <2>2, <2>3, <2>4
<1> QED
  BY <1>2, <1>3, <1>4, <1>5 DEF more

(* The same for the stack of free slots: its top is popped, a slot is pushed. *)
LEMMA PopFree ==
    ASSUME NEW S, NEW s \in Seq(S), s # <<>>, TakenOnce(s)
    PROVE  /\ TakenOnce(Front(s))
           /\ Last(s) \in Taken(s)
           /\ Taken(Front(s)) = Taken(s) \ {Last(s)}
<1> DEFINE less == Front(s)
<1>1. /\ Len(s) \in Nat \ {0}
      /\ DOMAIN s = 1 .. Len(s)
      /\ DOMAIN less = 1 .. Len(s) - 1
      /\ \A i \in 1 .. Len(s) - 1 : less[i] = s[i]
      /\ Last(s) = s[Len(s)]
  BY DropLast DEF Last
<1> HIDE DEF less
<1>2. TakenOnce(less)
  BY <1>1 DEF TakenOnce
<1>3. Last(s) \in Taken(s)
  BY <1>1 DEF Taken
<1>4. ASSUME NEW e \in Taken(less) PROVE e \in Taken(s) /\ e # Last(s)
  <2>1. PICK i \in 1 .. Len(s) - 1 : e = s[i]
    BY <1>1 DEF Taken
  <2>2. i \in 1 .. Len(s) /\ Len(s) \in 1 .. Len(s) /\ i # Len(s)
    <3>1. Len(s) \in Nat \ {0}
      BY <1>1
    <3> QED
      BY <3>1
  <2>3. e \in Taken(s)
    BY <1>1, <2>1, <2>2 DEF Taken
  <2>4. s[i] # s[Len(s)]
    BY <1>1, <2>2 DEF TakenOnce
  <2> QED
    BY <1>1, <2>1, <2>3, <2>4
<1>5. ASSUME NEW e \in Taken(s), e # Last(s) PROVE e \in Taken(less)
  <2>1. PICK i \in 1 .. Len(s) : e = s[i]
    BY <1>1 DEF Taken
  <2>2. i \in 1 .. Len(s) - 1
    BY <1>1, <1>5, <2>1
  <2> QED
    BY <1>1, <2>1, <2>2 DEF Taken
<1> QED
  BY <1>2, <1>3, <1>4, <1>5 DEF less

LEMMA PushFree ==
    ASSUME NEW S, NEW s \in Seq(S), NEW e \in S
    PROVE  /\ Taken(Append(s, e)) = Taken(s) \cup {e}
           /\ TakenOnce(s) /\ e \notin Taken(s) => TakenOnce(Append(s, e))
<1> DEFINE more == Append(s, e)
<1>1. /\ Len(s) \in Nat
      /\ DOMAIN s = 1 .. Len(s)
      /\ DOMAIN more = 1 .. Len(s) + 1
      /\ \A i \in 1 .. Len(s) : more[i] = s[i]
      /\ more[Len(s) + 1] = e
  BY AddLast
<1> HIDE DEF more
<1>2. ASSUME NEW x \in Taken(more) PROVE x \in Taken(s) \cup {e}
  <2>1. PICK i \in 1 .. Len(s) + 1 : x = more[i]
    BY <1>1 DEF Taken
  <2>2. CASE i = Len(s) + 1
    BY <1>1, <2>1, <2>2
  <2>3. CASE i \in 1 .. Len(s)
    BY <1>1, <2>1, <2>3 DEF Taken
  <2> QED
    BY <1>1, <2>2, <2>3
<1>3. ASSUME NEW x \in Taken(s) PROVE x \in Taken(more)
  <2>1. PICK i \in 1 .. Len(s) : x = s[i]
    BY <1>1 DEF Taken
  <2>2. i \in DOMAIN more /\ more[i] = x
    BY <1>1, <2>1
  <2> QED
    BY <2>2 DEF Taken
<1>4. e \in Taken(more)
  <2>1. Len(s) + 1 \in DOMAIN more
    BY <1>1
  <2> QED
    BY <1>1, <2>1 DEF Taken
<1>5. ASSUME TakenOnce(s), e \notin Taken(s) PROVE TakenOnce(more)
  <2> SUFFICES ASSUME NEW i \in 1 .. Len(s) + 1, NEW j \in 1 .. Len(s) + 1,
                      more[i] = more[j]
               PROVE  i = j
    BY <1>1 DEF TakenOnce
  <2>1. \A n \in 1 .. Len(s) : more[n] \in Taken(s)
    BY <1>1 DEF Taken
  <2>2. CASE i \in 1 .. Len(s) /\ j \in 1 .. Len(s)
    BY <1>1, <1>5, <2>2 DEF TakenOnce
  <2>3. CASE i = Len(s) + 1 /\ j \in 1 .. Len(s)
    BY <1>1, <1>5, <2>1, <2>3
  <2>4. CASE j = Len(s) + 1 /\ i \in 1 .. Len(s)
    BY <1>1, <1>5, <2>1, <2>4
  <2> QED
    BY <1>1, <2>2, <2>3, <2>4
<1> QED
  BY <1>2, <1>3, <1>4, <1>5 DEF more

LEMMA NothingHeld == HeldBy(<<>>) = {} /\ HeldOnce(<<>>)
  BY DEF HeldBy, HeldOnce

-----------------------------------------------------------------------------
LEMMA InitSlotInv == Init => SlotInv
<1> SUFFICES ASSUME Init PROVE SlotInv
  OBVIOUS
<1>1. /\ MaxActive \in Nat \ {0}
      /\ DOMAIN free_slots = 1 .. MaxActive
      /\ \A i \in 1 .. MaxActive : free_slots[i] = MaxActive - i
  BY ServerAssumption DEF Init
<1>2. TakenOnce(free_slots)
  BY <1>1 DEF TakenOnce
<1>3. Taken(free_slots) \subseteq Slots
  BY <1>1 DEF Taken, Slots
<1>4. ASSUME NEW s \in Slots PROVE s \in Taken(free_slots)
  <2>1. MaxActive - s \in 1 .. MaxActive /\ MaxActive - (MaxActive - s) = s
    BY <1>1 DEF Slots
  <2> QED
    BY <1>1, <2>1 DEF Taken
<1> QED
  BY <1>2, <1>3, <1>4, NothingHeld DEF Init, SlotInv, Split

(* Actions that move no request and no slot. *)
LEMMA KeepSlotInv ==
    ASSUME SlotInv, UNCHANGED <<prepared, active_requests, next_active, free_slots>>
    PROVE  SlotInv'
<1>1. /\ TakenOnce(free_slots)' /\ Taken(free_slots)' = Taken(free_slots)
      /\ HeldOnce(prepared)' /\ HeldBy(prepared)' = HeldBy(prepared)
  BY DEF SlotInv, TakenOnce, Taken, HeldOnce, HeldBy
<1>2. /\ HeldOnce(active_requests)' /\ HeldBy(active_requests)' = HeldBy(active_requests)
      /\ HeldOnce(next_active)' /\ HeldBy(next_active)' = HeldBy(next_active)
  BY DEF SlotInv, HeldOnce, HeldBy
<1> QED
  BY <1>1, <1>2 DEF SlotInv, Split, Slots

LEMMA AssignSlotInv ==
    ASSUME TypeInv, SlotInv, AssignSlot PROVE SlotInv'
<1> DEFINE slot == Last(free_slots)
<1>1. tokenized \in Seq(FittingPrompt) /\ tokenized # <<>> /\ candidates = <<>>
  BY DEF TypeInv, ListsSound, AssignSlot
<1>2. free_slots \in Seq(Slots) /\ free_slots # <<>>
  <2>1. Len(tokenized) \in Nat \ {0}
    BY <1>1, DropFirst
  <2> QED
    BY <1>1, <2>1, LenProperties, EmptySeq DEF TypeInv, TypeOK, EnoughFreeSlots, AssignSlot
<1>3. /\ TakenOnce(free_slots') /\ slot \in Taken(free_slots)
      /\ Taken(free_slots') = Taken(free_slots) \ {slot}
  BY <1>2, PopFree DEF SlotInv, AssignSlot
<1>4. PICK adm : prepared' = Append(prepared, adm) /\ adm.slot_id = slot
  BY DEF AssignSlot
<1>5. PICK S : prepared \in Seq(S) /\ adm \in S
  <2>1. prepared \in Seq(PreparedType \cup {adm})
    BY SeqMonotonic DEF TypeInv, TypeOK
  <2> QED
    BY <2>1
<1>6. slot \notin HeldBy(prepared)
  BY <1>3 DEF SlotInv, Split
<1>7. HeldBy(prepared') = HeldBy(prepared) \cup {slot} /\ HeldOnce(prepared')
  BY <1>4, <1>5, <1>6, AddHolder DEF SlotInv
<1>8. active_requests' = active_requests /\ next_active' = next_active
  BY DEF AssignSlot
<1>9. Split(Taken(free_slots'), HeldBy(prepared'), HeldBy(active_requests), HeldBy(next_active))
  BY <1>3, <1>7 DEF SlotInv, Split
<1> QED
  BY <1>3, <1>7, <1>8, <1>9 DEF SlotInv, Split, Slots

(* The first prepared request gets its first token: it goes on, or its slot
   is given back. *)
LEMMA AdmitSlotInv ==
    ASSUME TypeInv, SlotInv, NEW token \in Tokens, AdmitRequest(token)
    PROVE  SlotInv'
<1> DEFINE req == Admitted(Head(prepared), token)
           slot == Head(prepared).slot_id
<1>1. /\ prepared \in Seq(PreparedType) /\ prepared # <<>> /\ HeldOnce(prepared)
      /\ prepared' = Tail(prepared) /\ next_active' = next_active
  BY DEF AdmitRequest, TypeInv, TypeOK, SlotInv
<1>2. /\ HeldOnce(prepared')
      /\ slot \in HeldBy(prepared)
      /\ HeldBy(prepared') = HeldBy(prepared) \ {slot}
  BY <1>1, DropHolder
<1>3. req.slot_id = slot
  BY DEF Admitted
<1>4. slot \in Slots /\ slot \notin Taken(free_slots) /\ slot \notin HeldBy(active_requests)
  BY <1>2 DEF SlotInv, Split
<1> HIDE DEF req, slot
<1>5. CASE Finished(req)
  <2>1. free_slots' = Append(free_slots, slot) /\ active_requests' = active_requests
    BY <1>3, <1>5 DEF AdmitRequest, FinishRequest, req
  <2>2. free_slots \in Seq(Slots) /\ TakenOnce(free_slots)
    BY DEF TypeInv, TypeOK, SlotInv
  <2>3. TakenOnce(free_slots') /\ Taken(free_slots') = Taken(free_slots) \cup {slot}
    BY <1>4, <2>1, <2>2, PushFree
  <2>4. Split(Taken(free_slots'), HeldBy(prepared'), HeldBy(active_requests), HeldBy(next_active))
    BY <1>2, <1>4, <2>3 DEF SlotInv, Split
  <2> QED
    BY <1>1, <1>2, <2>1, <2>3, <2>4 DEF SlotInv, Split, Slots
<1>6. CASE ~Finished(req)
  <2>1. active_requests' = Append(active_requests, req) /\ free_slots' = free_slots
    BY <1>6 DEF AdmitRequest, slot_vars, req
  <2>2. PICK S : active_requests \in Seq(S) /\ req \in S
    <3>1. active_requests \in Seq(ActiveType \cup {req})
      BY SeqMonotonic DEF TypeInv, TypeOK
    <3> QED
      BY <3>1
  <2>3. /\ HeldOnce(active_requests')
        /\ HeldBy(active_requests') = HeldBy(active_requests) \cup {slot}
    BY <1>3, <1>4, <2>1, <2>2, AddHolder DEF SlotInv
  <2>4. Split(Taken(free_slots), HeldBy(prepared'), HeldBy(active_requests'), HeldBy(next_active))
    BY <1>2, <1>4, <2>3 DEF SlotInv, Split
  <2> QED
    BY <1>1, <1>2, <2>1, <2>3, <2>4 DEF SlotInv, Split, Slots
<1> QED
  BY <1>5, <1>6

(* The same for an active request and its next token. *)
LEMMA DecodeSlotInv ==
    ASSUME TypeInv, SlotInv, NEW token \in Tokens, DecodeRequest(token)
    PROVE  SlotInv'
<1> DEFINE req == Advanced(Head(active_requests), token)
           slot == Head(active_requests).slot_id
<1>1. /\ active_requests \in Seq(ActiveType) /\ active_requests # <<>>
      /\ HeldOnce(active_requests)
      /\ active_requests' = Tail(active_requests) /\ prepared' = prepared
  BY DEF DecodeRequest, TypeInv, TypeOK, SlotInv
<1>2. /\ HeldOnce(active_requests')
      /\ slot \in HeldBy(active_requests)
      /\ HeldBy(active_requests') = HeldBy(active_requests) \ {slot}
  BY <1>1, DropHolder
<1>3. req.slot_id = slot
  <2>1. Head(active_requests) \in ActiveType
    BY <1>1, DropFirst
  <2> QED
    BY <2>1 DEF Advanced, ActiveType
<1>4. slot \in Slots /\ slot \notin Taken(free_slots) /\ slot \notin HeldBy(next_active)
  BY <1>2 DEF SlotInv, Split
<1> HIDE DEF req, slot
<1>5. CASE Finished(req)
  <2>1. free_slots' = Append(free_slots, slot) /\ next_active' = next_active
    BY <1>3, <1>5 DEF DecodeRequest, FinishRequest, req
  <2>2. free_slots \in Seq(Slots) /\ TakenOnce(free_slots)
    BY DEF TypeInv, TypeOK, SlotInv
  <2>3. TakenOnce(free_slots') /\ Taken(free_slots') = Taken(free_slots) \cup {slot}
    BY <1>4, <2>1, <2>2, PushFree
  <2>4. Split(Taken(free_slots'), HeldBy(prepared), HeldBy(active_requests'), HeldBy(next_active))
    BY <1>2, <1>4, <2>3 DEF SlotInv, Split
  <2> QED
    BY <1>1, <1>2, <2>1, <2>3, <2>4 DEF SlotInv, Split, Slots
<1>6. CASE ~Finished(req)
  <2>1. next_active' = Append(next_active, req) /\ free_slots' = free_slots
    BY <1>6 DEF DecodeRequest, slot_vars, req
  <2>2. PICK S : next_active \in Seq(S) /\ req \in S
    <3>1. next_active \in Seq(ActiveType \cup {req})
      BY SeqMonotonic DEF TypeInv, TypeOK
    <3> QED
      BY <3>1
  <2>3. /\ HeldOnce(next_active')
        /\ HeldBy(next_active') = HeldBy(next_active) \cup {slot}
    BY <1>3, <1>4, <2>1, <2>2, AddHolder DEF SlotInv
  <2>4. Split(Taken(free_slots), HeldBy(prepared), HeldBy(active_requests'), HeldBy(next_active'))
    BY <1>2, <1>4, <2>3 DEF SlotInv, Split
  <2> QED
    BY <1>1, <1>2, <2>1, <2>3, <2>4 DEF SlotInv, Split, Slots
<1> QED
  BY <1>5, <1>6

(* The survivors of the round become the active requests. *)
LEMMA EndDecodeSlotInv ==
    ASSUME SlotInv, EndDecode PROVE SlotInv'
<1>1. /\ active_requests = <<>> /\ active_requests' = next_active /\ next_active' = <<>>
      /\ prepared' = prepared /\ free_slots' = free_slots
  BY DEF EndDecode, slot_vars
<1>2. HeldBy(active_requests) = {} /\ HeldBy(next_active') = {} /\ HeldOnce(next_active')
  BY <1>1, NothingHeld
<1>3. Split(Taken(free_slots), HeldBy(prepared), HeldBy(next_active), HeldBy(next_active'))
  BY <1>2 DEF SlotInv, Split
<1> QED
  BY <1>1, <1>2, <1>3 DEF SlotInv, Split, Slots

LEMMA NextSlotInv == TypeInv /\ SlotInv /\ [Next]_vars => SlotInv'
<1> SUFFICES ASSUME TypeInv, SlotInv, [Next]_vars PROVE SlotInv'
  OBVIOUS
<1>1. CASE InputThread
  BY <1>1, KeepSlotInv DEF InputThread, SubmitPrompt, PrintAccepted, MarkInputClosed,
     request_vars, slot_vars
<1>2. CASE AdmitPrefillRound
  <2>1. ASSUME \/ PopAdmissionCandidates \/ SkipAdmission \/ AnswerEmptyPrompt
               \/ TokenizePrompt \/ NothingToPrefill \/ PrefillForward \/ EndAdmission
        PROVE  SlotInv'
    BY <2>1, KeepSlotInv DEF PopAdmissionCandidates, SkipAdmission, AnswerEmptyPrompt,
       TokenizePrompt, NothingToPrefill, PrefillForward, EndAdmission, request_vars, slot_vars
  <2> QED
    BY <1>2, <2>1, AssignSlotInv, AdmitSlotInv DEF AdmitPrefillRound
<1>3. CASE DecodeRound
  <2>1. ASSUME SkipDecode \/ DecodeForward PROVE SlotInv'
    BY <2>1, KeepSlotInv DEF SkipDecode, DecodeForward, request_vars, slot_vars
  <2> QED
    BY <1>3, <2>1, DecodeSlotInv, EndDecodeSlotInv DEF DecodeRound
<1>4. CASE Continue \/ Exit \/ ModelThrows \/ Stopped \/ UNCHANGED vars
  BY <1>4, KeepSlotInv DEF Continue, Exit, ModelThrows, Stopped, vars, request_vars, slot_vars
<1> QED
  BY <1>1, <1>2, <1>3, <1>4 DEF Next, ServerThread

(* A batch that holds each slot once holds s at one index. *)
LEMMA OneHolder ==
    ASSUME NEW batch, NEW s, HeldOnce(batch)
    PROVE  /\ InSlot(batch, s) # {} <=> s \in HeldBy(batch)
           /\ \A i, j \in InSlot(batch, s) : i = j
  BY DEF InSlot, HeldBy, HeldOnce

LEMMA SlotInvPartition == SlotInv => SlotPartition
<1> SUFFICES ASSUME SlotInv, NEW s \in Slots
             PROVE  OwnersOf(s) # {} /\ \A o, p \in OwnersOf(s) : o = p
  BY DEF SlotPartition
<1> DEFINE free == {i \in DOMAIN free_slots : free_slots[i] = s}
           ready == InSlot(prepared, s)
           active == InSlot(active_requests, s)
           next == InSlot(next_active, s)
<1>1. (free # {} <=> s \in Taken(free_slots)) /\ \A i, j \in free : i = j
  BY DEF SlotInv, Taken, TakenOnce
<1>2. (ready # {} <=> s \in HeldBy(prepared)) /\ \A i, j \in ready : i = j
  BY OneHolder DEF SlotInv
<1>3. (active # {} <=> s \in HeldBy(active_requests)) /\ \A i, j \in active : i = j
  BY OneHolder DEF SlotInv
<1>4. (next # {} <=> s \in HeldBy(next_active)) /\ \A i, j \in next : i = j
  BY OneHolder DEF SlotInv
<1>5. OwnersOf(s) = ({"free"} \X free) \cup ({"prepared"} \X ready)
                    \cup ({"active"} \X active) \cup ({"next_active"} \X next)
  BY DEF OwnersOf
<1> HIDE DEF free, ready, active, next
<1>6. \/ free # {} /\ ready = {} /\ active = {} /\ next = {}
      \/ free = {} /\ ready # {} /\ active = {} /\ next = {}
      \/ free = {} /\ ready = {} /\ active # {} /\ next = {}
      \/ free = {} /\ ready = {} /\ active = {} /\ next # {}
  BY <1>1, <1>2, <1>3, <1>4 DEF SlotInv, Split
<1>7. OwnersOf(s) # {}
  <2>1. PICK i : i \in free \/ i \in ready \/ i \in active \/ i \in next
    BY <1>6
  <2>2. \/ <<"free", i>> \in OwnersOf(s) \/ <<"prepared", i>> \in OwnersOf(s)
        \/ <<"active", i>> \in OwnersOf(s) \/ <<"next_active", i>> \in OwnersOf(s)
    BY <1>5, <2>1
  <2> QED
    BY <2>2
<1>8. ASSUME NEW o \in OwnersOf(s), NEW p \in OwnersOf(s) PROVE o = p
  <2>1. CASE free # {}
    BY <1>1, <1>5, <1>6, <1>8, <2>1
  <2>2. CASE ready # {}
    BY <1>2, <1>5, <1>6, <1>8, <2>2
  <2>3. CASE active # {}
    BY <1>3, <1>5, <1>6, <1>8, <2>3
  <2>4. CASE next # {}
    BY <1>4, <1>5, <1>6, <1>8, <2>4
  <2> QED
    BY <1>6, <2>1, <2>2, <2>3, <2>4
<1> QED
  BY <1>7, <1>8

LEMMA SlotInvariance == Spec => [](TypeInv /\ SlotInv)
  BY InitTypeInv, NextTypeInv, InitSlotInv, NextSlotInv, PTL DEF Spec

(* Every slot is free or held by exactly one request. *)
THEOREM SlotsPartitioned == Spec => []SlotPartition
  BY SlotInvariance, SlotInvPartition, PTL

-----------------------------------------------------------------------------
(***************************************************************************)
(* No request is ever lost between two lists, served twice or answered     *)
(* twice, and the service drains before it stops, for every value of the   *)
(* constants of ContinuousBatchServer.                                     *)
(***************************************************************************)

(* Where a request may be: in one of six lists, or among the answers.  Each  *)
(* place holds a set of request ids, every id at one index.                  *)

IdsOf(batch) == {batch[i].request_id : i \in DOMAIN batch}
IdsOnce(batch) ==
    \A i, j \in DOMAIN batch : batch[i].request_id = batch[j].request_id => i = j

Answers(lines) == {i \in DOMAIN lines : IsAnswer(lines[i])}
IdsAnswered(lines) == {lines[i].request_id : i \in Answers(lines)}
AnsweredOnce(lines) ==
    \A i, j \in Answers(lines) : lines[i].request_id = lines[j].request_id => i = j

Places == {"pending", "candidate", "tokenized", "prepared", "active",
           "next_active", "answered"}

IdsAt ==
    [p \in Places |->
        CASE p = "pending" -> IdsOf(pending_prompts)
          [] p = "candidate" -> IdsOf(candidates)
          [] p = "tokenized" -> IdsOf(tokenized)
          [] p = "prepared" -> IdsOf(prepared)
          [] p = "active" -> IdsOf(active_requests)
          [] p = "next_active" -> IdsOf(next_active)
          [] p = "answered" -> IdsAnswered(out)]

(* A family of pairwise disjoint sets that make up a whole. *)
Divides(family, whole) ==
    /\ \A p, q \in Places : p # q => family[p] \cap family[q] = {}
    /\ \A id \in whole : \E p \in Places : id \in family[p]
    /\ \A p \in Places : family[p] \subseteq whole

EachOnce ==
    /\ IdsOnce(pending_prompts) /\ IdsOnce(candidates) /\ IdsOnce(tokenized)
    /\ IdsOnce(prepared) /\ IdsOnce(active_requests) /\ IdsOnce(next_active)
    /\ AnsweredOnce(out)

Submitted == 0 .. next_request_id - 1

RequestInv == EachOnce /\ Divides(IdsAt, Submitted)

(* Some members of one set go over to another. *)
LEMMA MoveIds ==
    ASSUME NEW f, NEW g, NEW whole, Divides(f, whole),
           NEW p \in Places, NEW q \in Places, p # q,
           NEW moved, moved \subseteq f[p],
           g[p] = f[p] \ moved, g[q] = f[q] \cup moved,
           \A r \in Places \ {p, q} : g[r] = f[r]
    PROVE  Divides(g, whole)
<1>1. ASSUME NEW r \in Places, NEW s \in Places, r # s, NEW id, id \in g[r], id \in g[s]
      PROVE  FALSE
  <2>1. \A t, u \in Places : id \in f[t] /\ id \in f[u] => t = u
    BY DEF Divides
  <2>2. \A t \in Places : id \in g[t] => id \in f[t] \/ (t = q /\ id \in moved)
    OBVIOUS
  <2>3. id \in moved => id \in f[p] /\ id \notin g[p]
    BY <1>1
  <2>4. CASE id \in moved
    BY <1>1, <2>1, <2>2, <2>3, <2>4
  <2>5. CASE id \notin moved
    BY <1>1, <2>1, <2>2, <2>5
  <2> QED
    BY <2>4, <2>5
<1>2. ASSUME NEW id \in whole PROVE \E r \in Places : id \in g[r]
  <2>1. PICK r \in Places : id \in f[r]
    BY DEF Divides
  <2> QED
    BY <2>1
<1>3. ASSUME NEW r \in Places PROVE g[r] \subseteq whole
  BY DEF Divides
<1> QED
  BY <1>1, <1>2, <1>3 DEF Divides

(* One id is added to the whole and to one set. *)
LEMMA AddId ==
    ASSUME NEW f, NEW g, NEW whole, Divides(f, whole),
           NEW id, id \notin whole,
           NEW p \in Places, g[p] = f[p] \cup {id},
           \A r \in Places \ {p} : g[r] = f[r]
    PROVE  Divides(g, whole \cup {id})
  BY DEF Divides

-----------------------------------------------------------------------------
(* The lists.                                                                *)

LEMMA NoIds == IdsOf(<<>>) = {} /\ IdsOnce(<<>>)
  BY DEF IdsOf, IdsOnce

(* Taking the first request out of a list. *)
LEMMA DropRequest ==
    ASSUME NEW S, NEW batch \in Seq(S), batch # <<>>, IdsOnce(batch)
    PROVE  /\ IdsOnce(Tail(batch))
           /\ Head(batch).request_id \in IdsOf(batch)
           /\ IdsOf(Tail(batch)) = IdsOf(batch) \ {Head(batch).request_id}
<1>1. /\ Len(batch) \in Nat \ {0}
      /\ DOMAIN batch = 1 .. Len(batch)
      /\ DOMAIN Tail(batch) = 1 .. Len(batch) - 1
      /\ Head(batch) = batch[1]
      /\ \A i \in 1 .. Len(batch) - 1 : Tail(batch)[i] = batch[i + 1]
  BY DropFirst
<1>2. IdsOnce(Tail(batch))
  BY <1>1 DEF IdsOnce
<1>3. Head(batch).request_id \in IdsOf(batch)
  BY <1>1 DEF IdsOf
<1>4. ASSUME NEW id \in IdsOf(Tail(batch))
      PROVE  id \in IdsOf(batch) /\ id # Head(batch).request_id
  <2>1. PICK i \in 1 .. Len(batch) - 1 : id = batch[i + 1].request_id
    BY <1>1 DEF IdsOf
  <2>2. i + 1 \in DOMAIN batch /\ 1 \in DOMAIN batch /\ i + 1 # 1
    BY <1>1
  <2> QED
    BY <1>1, <2>1, <2>2 DEF IdsOf, IdsOnce
<1>5. ASSUME NEW id \in IdsOf(batch), id # Head(batch).request_id
      PROVE  id \in IdsOf(Tail(batch))
  <2>1. PICK i \in 1 .. Len(batch) : id = batch[i].request_id
    BY <1>1 DEF IdsOf
  <2>2. i - 1 \in 1 .. Len(batch) - 1 /\ (i - 1) + 1 = i
    BY <1>1, <1>5, <2>1
  <2> QED
    BY <1>1, <2>1, <2>2 DEF IdsOf
<1> QED
  BY <1>2, <1>3, <1>4, <1>5

(* Adding a request to a list that does not hold its id. *)
LEMMA AddRequest ==
    ASSUME NEW S, NEW batch \in Seq(S), NEW req \in S
    PROVE  /\ IdsOf(Append(batch, req)) = IdsOf(batch) \cup {req.request_id}
           /\ IdsOnce(batch) /\ req.request_id \notin IdsOf(batch)
                => IdsOnce(Append(batch, req))
<1> DEFINE more == Append(batch, req)
<1>1. /\ Len(batch) \in Nat
      /\ DOMAIN batch = 1 .. Len(batch)
      /\ DOMAIN more = 1 .. Len(batch) + 1
      /\ \A i \in 1 .. Len(batch) : more[i] = batch[i]
      /\ more[Len(batch) + 1] = req
  BY AddLast
<1> HIDE DEF more
<1>2. ASSUME NEW id \in IdsOf(more) PROVE id \in IdsOf(batch) \cup {req.request_id}
  <2>1. PICK i \in 1 .. Len(batch) + 1 : id = more[i].request_id
    BY <1>1 DEF IdsOf
  <2>2. CASE i = Len(batch) + 1
    BY <1>1, <2>1, <2>2
  <2>3. CASE i \in 1 .. Len(batch)
    BY <1>1, <2>1, <2>3 DEF IdsOf
  <2> QED
    BY <1>1, <2>2, <2>3
<1>3. ASSUME NEW id \in IdsOf(batch) PROVE id \in IdsOf(more)
  <2>1. PICK i \in 1 .. Len(batch) : id = batch[i].request_id
    BY <1>1 DEF IdsOf
  <2>2. i \in DOMAIN more /\ more[i].request_id = id
    BY <1>1, <2>1
  <2> QED
    BY <2>2 DEF IdsOf
<1>4. req.request_id \in IdsOf(more)
  <2>1. Len(batch) + 1 \in DOMAIN more
    BY <1>1
  <2> QED
    BY <1>1, <2>1 DEF IdsOf
<1>5. ASSUME IdsOnce(batch), req.request_id \notin IdsOf(batch) PROVE IdsOnce(more)
  <2> SUFFICES ASSUME NEW i \in 1 .. Len(batch) + 1, NEW j \in 1 .. Len(batch) + 1,
                      more[i].request_id = more[j].request_id
               PROVE  i = j
    BY <1>1 DEF IdsOnce
  <2>1. \A n \in 1 .. Len(batch) : more[n].request_id \in IdsOf(batch)
    BY <1>1 DEF IdsOf
  <2>2. CASE i \in 1 .. Len(batch) /\ j \in 1 .. Len(batch)
    BY <1>1, <1>5, <2>2 DEF IdsOnce
  <2>3. CASE i = Len(batch) + 1 /\ j \in 1 .. Len(batch)
    BY <1>1, <1>5, <2>1, <2>3
  <2>4. CASE j = Len(batch) + 1 /\ i \in 1 .. Len(batch)
    BY <1>1, <1>5, <2>1, <2>4
  <2> QED
    BY <1>1, <2>2, <2>3, <2>4
<1> QED
  BY <1>2, <1>3, <1>4, <1>5 DEF more

(* Cutting a list in two. *)
LEMMA CutRequests ==
    ASSUME NEW S, NEW batch \in Seq(S), NEW n \in 0 .. Len(batch), IdsOnce(batch)
    PROVE  LET first == SubSeq(batch, 1, n)
               rest == SubSeq(batch, n + 1, Len(batch))
           IN /\ IdsOnce(first) /\ IdsOnce(rest)
              /\ IdsOf(first) \subseteq IdsOf(batch)
              /\ IdsOf(rest) = IdsOf(batch) \ IdsOf(first)
<1> DEFINE first == SubSeq(batch, 1, n)
           rest == SubSeq(batch, n + 1, Len(batch))
<1>1. /\ Len(batch) \in Nat /\ n \in Nat /\ n <= Len(batch)
      /\ DOMAIN batch = 1 .. Len(batch)
      /\ DOMAIN first = 1 .. n
      /\ DOMAIN rest = 1 .. Len(batch) - n
      /\ \A i \in 1 .. n : first[i] = batch[i]
      /\ \A i \in 1 .. Len(batch) - n : rest[i] = batch[n + i]
  BY FirstN, LenProperties
<1> HIDE DEF first, rest
<1>2. IdsOnce(first) /\ IdsOf(first) \subseteq IdsOf(batch)
  BY <1>1 DEF IdsOnce, IdsOf
<1>3. IdsOnce(rest)
  <2> SUFFICES ASSUME NEW i \in 1 .. Len(batch) - n, NEW j \in 1 .. Len(batch) - n,
                      rest[i].request_id = rest[j].request_id
               PROVE  i = j
    BY <1>1 DEF IdsOnce
  <2>1. n + i \in DOMAIN batch /\ n + j \in DOMAIN batch
    BY <1>1
  <2>2. n + i = n + j
    BY <1>1, <2>1 DEF IdsOnce
  <2> QED
    BY <1>1, <2>2
<1>4. ASSUME NEW id \in IdsOf(rest) PROVE id \in IdsOf(batch) /\ id \notin IdsOf(first)
  <2>1. PICK i \in 1 .. Len(batch) - n : id = batch[n + i].request_id
    BY <1>1 DEF IdsOf
  <2>2. n + i \in DOMAIN batch /\ \A j \in 1 .. n : j \in DOMAIN batch /\ j # n + i
    BY <1>1
  <2>3. \A j \in 1 .. n : first[j].request_id # id
    BY <1>1, <2>1, <2>2 DEF IdsOnce
  <2>4. id \in IdsOf(batch)
    BY <2>1, <2>2 DEF IdsOf
  <2> QED
    BY <1>1, <2>3, <2>4 DEF IdsOf
<1>5. ASSUME NEW id \in IdsOf(batch), id \notin IdsOf(first) PROVE id \in IdsOf(rest)
  <2>1. PICK i \in 1 .. Len(batch) : id = batch[i].request_id
    BY <1>1 DEF IdsOf
  <2>2. i \notin 1 .. n
    BY <1>1, <1>5, <2>1 DEF IdsOf
  <2>3. i - n \in 1 .. Len(batch) - n /\ n + (i - n) = i
    BY <1>1, <2>2
  <2> QED
    BY <1>1, <2>1, <2>3 DEF IdsOf
<1> QED
  BY <1>2, <1>3, <1>4, <1>5 DEF first, rest

(* Printing a line. *)
LEMMA PrintLine ==
    ASSUME NEW S, NEW lines \in Seq(S), NEW line \in S
    PROVE  /\ IsAnswer(line) =>
                /\ IdsAnswered(Append(lines, line)) = IdsAnswered(lines) \cup {line.request_id}
                /\ AnsweredOnce(lines) /\ line.request_id \notin IdsAnswered(lines)
                     => AnsweredOnce(Append(lines, line))
           /\ ~IsAnswer(line) =>
                /\ IdsAnswered(Append(lines, line)) = IdsAnswered(lines)
                /\ AnsweredOnce(lines) => AnsweredOnce(Append(lines, line))
<1> DEFINE more == Append(lines, line)
           n == Len(lines)
<1>1. /\ n \in Nat
      /\ DOMAIN lines = 1 .. n
      /\ DOMAIN more = 1 .. n + 1
      /\ \A i \in 1 .. n : more[i] = lines[i]
      /\ more[n + 1] = line
  BY AddLast
<1> HIDE DEF more, n
<1>2. Answers(more) = Answers(lines) \cup (IF IsAnswer(line) THEN {n + 1} ELSE {})
  <2>1. 1 .. n + 1 = (1 .. n) \cup {n + 1}
    BY <1>1
  <2> QED
    BY <1>1, <2>1 DEF Answers
<1>3. \A i \in Answers(lines) : i \in 1 .. n /\ i # n + 1 /\ more[i] = lines[i]
  BY <1>1 DEF Answers
<1>4. CASE IsAnswer(line)
  <2>1. IdsAnswered(more) = IdsAnswered(lines) \cup {line.request_id}
    BY <1>1, <1>2, <1>3, <1>4 DEF IdsAnswered
  <2>2. ASSUME AnsweredOnce(lines), line.request_id \notin IdsAnswered(lines)
        PROVE  AnsweredOnce(more)
    <3>1. \A i \in Answers(lines) : more[i].request_id # more[n + 1].request_id
      BY <1>1, <1>3, <2>2 DEF IdsAnswered
    <3> QED
      BY <1>2, <1>3, <1>4, <2>2, <3>1 DEF AnsweredOnce
  <2> QED
    BY <1>4, <2>1, <2>2 DEF more
<1>5. CASE ~IsAnswer(line)
  <2>1. IdsAnswered(more) = IdsAnswered(lines)
    BY <1>2, <1>3, <1>5 DEF IdsAnswered
  <2>2. AnsweredOnce(lines) => AnsweredOnce(more)
    BY <1>2, <1>3, <1>5 DEF AnsweredOnce
  <2> QED
    BY <1>5, <2>1, <2>2 DEF more
<1> QED
  BY <1>4, <1>5

-----------------------------------------------------------------------------
(* The places of a state and of the next one. *)
LEMMA IdsAtPlaces ==
    /\ IdsAt["pending"] = IdsOf(pending_prompts)
    /\ IdsAt["candidate"] = IdsOf(candidates)
    /\ IdsAt["tokenized"] = IdsOf(tokenized)
    /\ IdsAt["prepared"] = IdsOf(prepared)
    /\ IdsAt["active"] = IdsOf(active_requests)
    /\ IdsAt["next_active"] = IdsOf(next_active)
    /\ IdsAt["answered"] = IdsAnswered(out)
    /\ IdsAt'["pending"] = IdsOf(pending_prompts')
    /\ IdsAt'["candidate"] = IdsOf(candidates')
    /\ IdsAt'["tokenized"] = IdsOf(tokenized')
    /\ IdsAt'["prepared"] = IdsOf(prepared')
    /\ IdsAt'["active"] = IdsOf(active_requests')
    /\ IdsAt'["next_active"] = IdsOf(next_active')
    /\ IdsAt'["answered"] = IdsAnswered(out')
  BY DEF IdsAt, Places

LEMMA Elsewhere ==
    ASSUME RequestInv, NEW p \in Places, NEW q \in Places, p # q, NEW id \in IdsAt[p]
    PROVE  id \notin IdsAt[q]
  BY DEF RequestInv, Divides

LEMMA TransferIds ==
    ASSUME RequestInv, EachOnce', next_request_id' = next_request_id,
           NEW p \in Places, NEW q \in Places, p # q,
           NEW moved, moved \subseteq IdsAt[p],
           IdsAt'[p] = IdsAt[p] \ moved, IdsAt'[q] = IdsAt[q] \cup moved,
           \A r \in Places \ {p, q} : IdsAt'[r] = IdsAt[r]
    PROVE  RequestInv'
<1>1. Divides(IdsAt, Submitted)
  BY DEF RequestInv
<1>2. Divides(IdsAt', Submitted)
  BY <1>1, MoveIds
<1> QED
  BY <1>2 DEF RequestInv, Submitted, Divides

LEMMA InitRequestInv == Init => RequestInv
<1> SUFFICES ASSUME Init PROVE RequestInv
  OBVIOUS
<1>1. PICK k \in 0 .. InitialPrompts : \E lens \in [1 .. k -> SeqLens] :
          /\ pending_prompts =
                [i \in 1 .. k |-> [request_id |-> i - 1, seq_len |-> lens[i]]]
          /\ next_request_id = k
  BY DEF Init
<1>2. /\ k \in Nat /\ next_request_id = k
      /\ DOMAIN pending_prompts = 1 .. k
      /\ \A i \in 1 .. k : pending_prompts[i].request_id = i - 1
  BY <1>1, ServerAssumption
<1>3. IdsOnce(pending_prompts)
  BY <1>2 DEF IdsOnce
<1>4. IdsOf(pending_prompts) = Submitted
  <2>1. ASSUME NEW id \in Submitted PROVE id \in IdsOf(pending_prompts)
    <3>1. id + 1 \in 1 .. k /\ (id + 1) - 1 = id
      BY <1>2 DEF Submitted
    <3> QED
      BY <1>2, <3>1 DEF IdsOf
  <2>2. IdsOf(pending_prompts) \subseteq Submitted
    BY <1>2 DEF IdsOf, Submitted
  <2> QED
    BY <2>1, <2>2
<1>5. /\ IdsOf(candidates) = {} /\ IdsOf(tokenized) = {} /\ IdsOf(prepared) = {}
      /\ IdsOf(active_requests) = {} /\ IdsOf(next_active) = {}
      /\ IdsOnce(candidates) /\ IdsOnce(tokenized) /\ IdsOnce(prepared)
      /\ IdsOnce(active_requests) /\ IdsOnce(next_active)
  BY NoIds DEF Init
<1>6. IdsAnswered(out) = {} /\ AnsweredOnce(out)
  BY DEF Init, IdsAnswered, AnsweredOnce, Answers
<1>7. \A p \in Places : IdsAt[p] = IF p = "pending" THEN Submitted ELSE {}
  BY <1>4, <1>5, <1>6, IdsAtPlaces DEF Places
<1>8. Divides(IdsAt, Submitted)
  <2>1. "pending" \in Places
    BY DEF Places
  <2> QED
    BY <1>7, <2>1 DEF Divides
<1> QED
  BY <1>3, <1>5, <1>6, <1>8 DEF RequestInv, EachOnce

(* Actions that move no request. *)
LEMMA KeepRequestInv ==
    ASSUME RequestInv,
           UNCHANGED <<pending_prompts, candidates, tokenized, prepared,
                       active_requests, next_active, out, next_request_id>>
    PROVE  RequestInv'
<1>1. EachOnce'
  BY DEF RequestInv, EachOnce, IdsOnce, AnsweredOnce, Answers
<1>2. IdsAt' = IdsAt
  BY DEF IdsAt, IdsOf, IdsAnswered, Answers
<1> QED
  BY <1>1, <1>2 DEF RequestInv, Submitted, Divides

LEMMA SubmitRequestInv ==
    ASSUME TypeInv, RequestInv, NEW n \in SeqLens, SubmitPrompt(n)
    PROVE  RequestInv'
<1> DEFINE id == next_request_id
           prompt == [request_id |-> id, seq_len |-> n]
<1>1. /\ pending_prompts \in Seq(PromptType) /\ prompt \in PromptType /\ id \in Nat
      /\ prompt.request_id = id
      /\ pending_prompts' = Append(pending_prompts, prompt)
      /\ next_request_id' = id + 1
  BY DEF SubmitPrompt, TypeInv, TypeOK, PromptType
<1> HIDE DEF prompt
<1>2. id \notin Submitted /\ Submitted' = Submitted \cup {id}
  BY <1>1 DEF Submitted
<1>3. id \notin IdsOf(pending_prompts)
  BY <1>2, IdsAtPlaces DEF RequestInv, Divides, Places
<1>4. /\ IdsOf(pending_prompts') = IdsOf(pending_prompts) \cup {id}
      /\ IdsOnce(pending_prompts')
  BY <1>1, <1>3, AddRequest DEF RequestInv, EachOnce
<1>5. /\ candidates' = candidates /\ tokenized' = tokenized /\ prepared' = prepared
      /\ active_requests' = active_requests /\ next_active' = next_active /\ out' = out
  BY DEF SubmitPrompt, admission_vars, request_vars
<1>6. /\ "pending" \in Places
      /\ IdsAt'["pending"] = IdsAt["pending"] \cup {id}
      /\ \A r \in Places \ {"pending"} : IdsAt'[r] = IdsAt[r]
  BY <1>4, <1>5, IdsAtPlaces DEF Places
<1>7. Divides(IdsAt', Submitted \cup {id})
  BY <1>2, <1>6, AddId DEF RequestInv
<1>8. EachOnce'
  BY <1>4, <1>5 DEF RequestInv, EachOnce
<1> QED
  BY <1>2, <1>7, <1>8 DEF RequestInv, Divides

LEMMA PrintRequestInv ==
    ASSUME TypeInv, RequestInv, PrintAccepted PROVE RequestInv'
<1> DEFINE line == Accepted(next_request_id - 1)
<1>1. /\ out \in Seq(LineType \cup {line}) /\ line \in LineType \cup {line}
      /\ out' = Append(out, line) /\ ~IsAnswer(line)
  BY SeqMonotonic DEF PrintAccepted, TypeInv, TypeOK, Accepted, IsAnswer
<1> HIDE DEF line
<1>2. IdsAnswered(out') = IdsAnswered(out) /\ AnsweredOnce(out')
  BY <1>1, PrintLine DEF RequestInv, EachOnce
<1>3. /\ candidates' = candidates /\ tokenized' = tokenized /\ prepared' = prepared
      /\ active_requests' = active_requests /\ next_active' = next_active
      /\ pending_prompts' = pending_prompts /\ next_request_id' = next_request_id
  BY DEF PrintAccepted, admission_vars, request_vars
<1>4. \A r \in Places : IdsAt'[r] = IdsAt[r]
  BY <1>2, <1>3, IdsAtPlaces DEF Places
<1>5. Divides(IdsAt', Submitted)
  BY <1>4 DEF RequestInv, Divides
<1> QED
  BY <1>2, <1>3, <1>5 DEF RequestInv, EachOnce, Submitted, Divides

LEMMA PopRequestInv ==
    ASSUME TypeInv, RequestInv, PopAdmissionCandidates PROVE RequestInv'
<1> DEFINE n == AdmissionCount
           moved == IdsOf(candidates')
<1>1. pending_prompts \in Seq(PromptType) /\ n \in 0 .. Len(pending_prompts)
  <2>1. /\ pending_prompts \in Seq(PromptType) /\ free_slots \in Seq(Slots)
        /\ Len(pending_prompts) \in Nat /\ Len(free_slots) \in Nat
    BY LenProperties DEF TypeInv, TypeOK
  <2> QED
    BY <2>1, ServerAssumption DEF AdmissionCount, Smaller
<1>2. /\ candidates' = SubSeq(pending_prompts, 1, n)
      /\ pending_prompts' = SubSeq(pending_prompts, n + 1, Len(pending_prompts))
      /\ candidates = <<>>
  BY DEF PopAdmissionCandidates, TypeInv, Stages
<1> HIDE DEF n
<1>3. /\ IdsOnce(candidates') /\ IdsOnce(pending_prompts')
      /\ moved \subseteq IdsOf(pending_prompts)
      /\ IdsOf(pending_prompts') = IdsOf(pending_prompts) \ moved
  BY <1>1, <1>2, CutRequests DEF RequestInv, EachOnce
<1>4. IdsOf(candidates) = {}
  BY <1>2, NoIds
<1>5. /\ tokenized' = tokenized /\ prepared' = prepared
      /\ active_requests' = active_requests /\ next_active' = next_active
      /\ out' = out /\ next_request_id' = next_request_id
  BY DEF PopAdmissionCandidates, input_vars, request_vars
<1>6. EachOnce'
  BY <1>3, <1>5 DEF RequestInv, EachOnce
<1> HIDE DEF moved
<1>7. /\ moved \subseteq IdsAt["pending"]
      /\ IdsAt'["pending"] = IdsAt["pending"] \ moved
      /\ IdsAt'["candidate"] = IdsAt["candidate"] \cup moved
      /\ \A r \in Places \ {"pending", "candidate"} : IdsAt'[r] = IdsAt[r]
  BY <1>3, <1>4, <1>5, IdsAtPlaces DEF Places, moved
<1>8. "pending" \in Places /\ "candidate" \in Places
  BY DEF Places
<1> QED
  BY <1>5, <1>6, <1>7, <1>8, TransferIds

(* A prompt without a token is answered, any other is tokenized. *)
LEMMA AnswerEmptyRequestInv ==
    ASSUME TypeInv, RequestInv, AnswerEmptyPrompt PROVE RequestInv'
<1> DEFINE id == Head(candidates).request_id
           line == Answer(id, 0, 0, "empty")
<1>1. /\ candidates \in Seq(PromptType) /\ candidates # <<>> /\ IdsOnce(candidates)
      /\ candidates' = Tail(candidates)
  BY DEF AnswerEmptyPrompt, TypeInv, TypeOK, RequestInv, EachOnce
<1>2. /\ IdsOnce(candidates') /\ id \in IdsOf(candidates)
      /\ IdsOf(candidates') = IdsOf(candidates) \ {id}
  BY <1>1, DropRequest
<1>3. /\ out \in Seq(LineType \cup {line}) /\ line \in LineType \cup {line}
      /\ out' = Append(out, line) /\ IsAnswer(line) /\ line.request_id = id
  BY SeqMonotonic DEF AnswerEmptyPrompt, TypeInv, TypeOK, Answer, IsAnswer
<1> HIDE DEF id, line
<1>4. "candidate" \in Places /\ "answered" \in Places
  BY DEF Places
<1>5. id \notin IdsAnswered(out)
  BY <1>2, <1>4, Elsewhere, IdsAtPlaces
<1>6. IdsAnswered(out') = IdsAnswered(out) \cup {id} /\ AnsweredOnce(out')
  BY <1>3, <1>5, PrintLine DEF RequestInv, EachOnce
<1>7. /\ pending_prompts' = pending_prompts /\ tokenized' = tokenized
      /\ prepared' = prepared /\ active_requests' = active_requests
      /\ next_active' = next_active /\ next_request_id' = next_request_id
  BY DEF AnswerEmptyPrompt, queue_vars, input_vars, request_vars
<1>8. EachOnce'
  BY <1>2, <1>6, <1>7 DEF RequestInv, EachOnce
<1>9. /\ {id} \subseteq IdsAt["candidate"]
      /\ IdsAt'["candidate"] = IdsAt["candidate"] \ {id}
      /\ IdsAt'["answered"] = IdsAt["answered"] \cup {id}
      /\ \A r \in Places \ {"candidate", "answered"} : IdsAt'[r] = IdsAt[r]
  BY <1>2, <1>6, <1>7, IdsAtPlaces DEF Places
<1> QED
  BY <1>4, <1>7, <1>8, <1>9, TransferIds

LEMMA TokenizeRequestInv ==
    ASSUME TypeInv, RequestInv, TokenizePrompt PROVE RequestInv'
<1> DEFINE req == Head(candidates)
           id == req.request_id
<1>1. /\ candidates \in Seq(PromptType) /\ candidates # <<>> /\ IdsOnce(candidates)
      /\ candidates' = Tail(candidates) /\ tokenized' = Append(tokenized, req)
  BY DEF TokenizePrompt, TypeInv, TypeOK, RequestInv, EachOnce
<1>2. /\ IdsOnce(candidates') /\ id \in IdsOf(candidates)
      /\ IdsOf(candidates') = IdsOf(candidates) \ {id}
  BY <1>1, DropRequest
<1>3. tokenized \in Seq(PromptType) /\ req \in PromptType
  BY <1>1, DropFirst DEF TypeInv, TypeOK
<1>4. "candidate" \in Places /\ "tokenized" \in Places
  BY DEF Places
<1>5. id \notin IdsOf(tokenized)
  BY <1>2, <1>4, Elsewhere, IdsAtPlaces
<1> HIDE DEF req
<1>6. IdsOf(tokenized') = IdsOf(tokenized) \cup {id} /\ IdsOnce(tokenized')
  BY <1>1, <1>3, <1>5, AddRequest DEF RequestInv, EachOnce
<1> HIDE DEF id
<1>7. /\ pending_prompts' = pending_prompts /\ out' = out
      /\ prepared' = prepared /\ active_requests' = active_requests
      /\ next_active' = next_active /\ next_request_id' = next_request_id
  BY DEF TokenizePrompt, queue_vars, input_vars, request_vars
<1>8. EachOnce'
  BY <1>2, <1>6, <1>7 DEF RequestInv, EachOnce
<1>9. /\ {id} \subseteq IdsAt["candidate"]
      /\ IdsAt'["candidate"] = IdsAt["candidate"] \ {id}
      /\ IdsAt'["tokenized"] = IdsAt["tokenized"] \cup {id}
      /\ \A r \in Places \ {"candidate", "tokenized"} : IdsAt'[r] = IdsAt[r]
  BY <1>2, <1>6, <1>7, IdsAtPlaces DEF Places
<1> QED
  BY <1>4, <1>7, <1>8, <1>9, TransferIds

LEMMA AssignRequestInv ==
    ASSUME TypeInv, RequestInv, AssignSlot PROVE RequestInv'
<1> DEFINE id == Head(tokenized).request_id
<1>1. /\ tokenized \in Seq(PromptType) /\ tokenized # <<>> /\ IdsOnce(tokenized)
      /\ tokenized' = Tail(tokenized)
  BY DEF AssignSlot, TypeInv, TypeOK, RequestInv, EachOnce
<1>2. /\ IdsOnce(tokenized') /\ id \in IdsOf(tokenized)
      /\ IdsOf(tokenized') = IdsOf(tokenized) \ {id}
  BY <1>1, DropRequest
<1>3. PICK adm : prepared' = Append(prepared, adm) /\ adm.request_id = id
  BY DEF AssignSlot
<1>4. prepared \in Seq(PreparedType \cup {adm}) /\ adm \in PreparedType \cup {adm}
  BY SeqMonotonic DEF TypeInv, TypeOK
<1> HIDE DEF id
<1>5. "tokenized" \in Places /\ "prepared" \in Places
  BY DEF Places
<1>6. id \notin IdsOf(prepared)
  BY <1>2, <1>5, Elsewhere, IdsAtPlaces
<1>7. IdsOf(prepared') = IdsOf(prepared) \cup {id} /\ IdsOnce(prepared')
  BY <1>3, <1>4, <1>6, AddRequest DEF RequestInv, EachOnce
<1>8. /\ pending_prompts' = pending_prompts /\ candidates' = candidates /\ out' = out
      /\ active_requests' = active_requests
      /\ next_active' = next_active /\ next_request_id' = next_request_id
  BY DEF AssignSlot, queue_vars, input_vars
<1>9. EachOnce'
  BY <1>2, <1>7, <1>8 DEF RequestInv, EachOnce
<1>10. /\ {id} \subseteq IdsAt["tokenized"]
       /\ IdsAt'["tokenized"] = IdsAt["tokenized"] \ {id}
       /\ IdsAt'["prepared"] = IdsAt["prepared"] \cup {id}
       /\ \A r \in Places \ {"tokenized", "prepared"} : IdsAt'[r] = IdsAt[r]
  BY <1>2, <1>7, <1>8, IdsAtPlaces DEF Places
<1> QED
  BY <1>5, <1>8, <1>9, <1>10, TransferIds

(* A finished request is answered. *)
LEMMA FinishAnswers ==
    ASSUME TypeInv, RequestInv, NEW req, FinishRequest(req),
           req.request_id \notin IdsAnswered(out)
    PROVE  /\ IdsAnswered(out') = IdsAnswered(out) \cup {req.request_id}
           /\ AnsweredOnce(out')
<1> DEFINE line == Answer(req.request_id, req.pos_len - req.decode_steps,
                          req.generated, Reason(req))
<1>1. /\ out \in Seq(LineType \cup {line}) /\ line \in LineType \cup {line}
      /\ out' = Append(out, line)
      /\ IsAnswer(line) /\ line.request_id = req.request_id
  BY SeqMonotonic DEF FinishRequest, TypeInv, TypeOK, Answer, IsAnswer
<1> HIDE DEF line
<1> QED
  BY <1>1, PrintLine DEF RequestInv, EachOnce

LEMMA AdmitRequestInv ==
    ASSUME TypeInv, RequestInv, NEW token \in Tokens, AdmitRequest(token)
    PROVE  RequestInv'
<1> DEFINE req == Admitted(Head(prepared), token)
           id == Head(prepared).request_id
<1>1. /\ prepared \in Seq(PreparedType) /\ prepared # <<>> /\ IdsOnce(prepared)
      /\ prepared' = Tail(prepared)
  BY DEF AdmitRequest, TypeInv, TypeOK, RequestInv, EachOnce
<1>2. /\ IdsOnce(prepared') /\ id \in IdsOf(prepared)
      /\ IdsOf(prepared') = IdsOf(prepared) \ {id}
  BY <1>1, DropRequest
<1>3. req.request_id = id
  BY DEF Admitted
<1>4. "prepared" \in Places /\ "answered" \in Places /\ "active" \in Places
  BY DEF Places
<1>5. /\ pending_prompts' = pending_prompts /\ candidates' = candidates
      /\ tokenized' = tokenized
      /\ next_active' = next_active /\ next_request_id' = next_request_id
  BY DEF AdmitRequest, queue_vars, input_vars, admission_vars
<1>6. id \notin IdsAnswered(out) /\ id \notin IdsOf(active_requests)
  BY <1>2, <1>4, Elsewhere, IdsAtPlaces
<1>7. CASE Finished(req)
  <2>1. FinishRequest(req) /\ active_requests' = active_requests
    BY <1>7 DEF AdmitRequest
  <2> HIDE DEF req, id
  <2>2. IdsAnswered(out') = IdsAnswered(out) \cup {id} /\ AnsweredOnce(out')
    BY <1>3, <1>6, <2>1, FinishAnswers
  <2>3. EachOnce'
    BY <1>2, <1>5, <2>1, <2>2 DEF RequestInv, EachOnce
  <2>4. /\ {id} \subseteq IdsAt["prepared"]
        /\ IdsAt'["prepared"] = IdsAt["prepared"] \ {id}
        /\ IdsAt'["answered"] = IdsAt["answered"] \cup {id}
        /\ \A r \in Places \ {"prepared", "answered"} : IdsAt'[r] = IdsAt[r]
    BY <1>2, <1>5, <2>1, <2>2, IdsAtPlaces DEF Places
  <2> QED
    BY <1>4, <1>5, <2>3, <2>4, TransferIds
<1>8. CASE ~Finished(req)
  <2>1. active_requests' = Append(active_requests, req) /\ out' = out
    BY <1>8 DEF AdmitRequest
  <2> HIDE DEF req, id
  <2>2. active_requests \in Seq(ActiveType \cup {req}) /\ req \in ActiveType \cup {req}
    BY SeqMonotonic DEF TypeInv, TypeOK
  <2>3. /\ IdsOf(active_requests') = IdsOf(active_requests) \cup {id}
        /\ IdsOnce(active_requests')
    BY <1>3, <1>6, <2>1, <2>2, AddRequest DEF RequestInv, EachOnce
  <2>4. EachOnce'
    BY <1>2, <1>5, <2>1, <2>3 DEF RequestInv, EachOnce
  <2>5. /\ {id} \subseteq IdsAt["prepared"]
        /\ IdsAt'["prepared"] = IdsAt["prepared"] \ {id}
        /\ IdsAt'["active"] = IdsAt["active"] \cup {id}
        /\ \A r \in Places \ {"prepared", "active"} : IdsAt'[r] = IdsAt[r]
    BY <1>2, <1>5, <2>1, <2>3, IdsAtPlaces DEF Places
  <2> QED
    BY <1>4, <1>5, <2>4, <2>5, TransferIds
<1> QED
  BY <1>7, <1>8

LEMMA DecodeRequestInv ==
    ASSUME TypeInv, RequestInv, NEW token \in Tokens, DecodeRequest(token)
    PROVE  RequestInv'
<1> DEFINE req == Advanced(Head(active_requests), token)
           id == Head(active_requests).request_id
<1>1. /\ active_requests \in Seq(ActiveType) /\ active_requests # <<>>
      /\ IdsOnce(active_requests)
      /\ active_requests' = Tail(active_requests)
  BY DEF DecodeRequest, TypeInv, TypeOK, RequestInv, EachOnce
<1>2. /\ IdsOnce(active_requests') /\ id \in IdsOf(active_requests)
      /\ IdsOf(active_requests') = IdsOf(active_requests) \ {id}
  BY <1>1, DropRequest
<1>3. req.request_id = id
  <2>1. Head(active_requests) \in ActiveType
    BY <1>1, DropFirst
  <2> QED
    BY <2>1 DEF Advanced, ActiveType
<1>4. "active" \in Places /\ "answered" \in Places /\ "next_active" \in Places
  BY DEF Places
<1>5. /\ pending_prompts' = pending_prompts /\ candidates' = candidates
      /\ tokenized' = tokenized
      /\ prepared' = prepared /\ next_request_id' = next_request_id
  BY DEF DecodeRequest, queue_vars, input_vars, admission_vars
<1>6. id \notin IdsAnswered(out) /\ id \notin IdsOf(next_active)
  BY <1>2, <1>4, Elsewhere, IdsAtPlaces
<1>7. CASE Finished(req)
  <2>1. FinishRequest(req) /\ next_active' = next_active
    BY <1>7 DEF DecodeRequest
  <2> HIDE DEF req, id
  <2>2. IdsAnswered(out') = IdsAnswered(out) \cup {id} /\ AnsweredOnce(out')
    BY <1>3, <1>6, <2>1, FinishAnswers
  <2>3. EachOnce'
    BY <1>2, <1>5, <2>1, <2>2 DEF RequestInv, EachOnce
  <2>4. /\ {id} \subseteq IdsAt["active"]
        /\ IdsAt'["active"] = IdsAt["active"] \ {id}
        /\ IdsAt'["answered"] = IdsAt["answered"] \cup {id}
        /\ \A r \in Places \ {"active", "answered"} : IdsAt'[r] = IdsAt[r]
    BY <1>2, <1>5, <2>1, <2>2, IdsAtPlaces DEF Places
  <2> QED
    BY <1>4, <1>5, <2>3, <2>4, TransferIds
<1>8. CASE ~Finished(req)
  <2>1. next_active' = Append(next_active, req) /\ out' = out
    BY <1>8 DEF DecodeRequest
  <2> HIDE DEF req, id
  <2>2. next_active \in Seq(ActiveType \cup {req}) /\ req \in ActiveType \cup {req}
    BY SeqMonotonic DEF TypeInv, TypeOK
  <2>3. /\ IdsOf(next_active') = IdsOf(next_active) \cup {id}
        /\ IdsOnce(next_active')
    BY <1>3, <1>6, <2>1, <2>2, AddRequest DEF RequestInv, EachOnce
  <2>4. EachOnce'
    BY <1>2, <1>5, <2>1, <2>3 DEF RequestInv, EachOnce
  <2>5. /\ {id} \subseteq IdsAt["active"]
        /\ IdsAt'["active"] = IdsAt["active"] \ {id}
        /\ IdsAt'["next_active"] = IdsAt["next_active"] \cup {id}
        /\ \A r \in Places \ {"active", "next_active"} : IdsAt'[r] = IdsAt[r]
    BY <1>2, <1>5, <2>1, <2>3, IdsAtPlaces DEF Places
  <2> QED
    BY <1>4, <1>5, <2>4, <2>5, TransferIds
<1> QED
  BY <1>7, <1>8

LEMMA EndDecodeRequestInv ==
    ASSUME RequestInv, EndDecode PROVE RequestInv'
<1>1. /\ active_requests = <<>> /\ active_requests' = next_active /\ next_active' = <<>>
      /\ pending_prompts' = pending_prompts /\ candidates' = candidates
      /\ tokenized' = tokenized /\ prepared' = prepared /\ out' = out
      /\ next_request_id' = next_request_id
  BY DEF EndDecode, queue_vars, input_vars, admission_vars
<1>2. /\ IdsOf(active_requests) = {} /\ IdsOf(next_active') = {}
      /\ IdsOf(active_requests') = IdsOf(next_active)
      /\ IdsOnce(next_active') /\ IdsOnce(active_requests')
  BY <1>1, NoIds DEF RequestInv, EachOnce
<1>3. EachOnce'
  BY <1>1, <1>2 DEF RequestInv, EachOnce
<1>4. "active" \in Places /\ "next_active" \in Places
  BY DEF Places
<1>5. /\ IdsAt'["next_active"] = IdsAt["next_active"] \ IdsAt["next_active"]
      /\ IdsAt'["active"] = IdsAt["active"] \cup IdsAt["next_active"]
      /\ \A r \in Places \ {"next_active", "active"} : IdsAt'[r] = IdsAt[r]
  BY <1>1, <1>2, IdsAtPlaces DEF Places
<1> QED
  BY <1>1, <1>3, <1>4, <1>5, TransferIds

LEMMA NextRequestInv == TypeInv /\ RequestInv /\ [Next]_vars => RequestInv'
<1> SUFFICES ASSUME TypeInv, RequestInv, [Next]_vars PROVE RequestInv'
  OBVIOUS
<1>1. CASE InputThread
  <2>1. CASE MarkInputClosed
    BY <2>1, KeepRequestInv DEF MarkInputClosed, admission_vars, request_vars
  <2> QED
    BY <1>1, <2>1, SubmitRequestInv, PrintRequestInv DEF InputThread
<1>2. CASE AdmitPrefillRound
  <2>1. ASSUME SkipAdmission \/ NothingToPrefill \/ PrefillForward \/ EndAdmission
        PROVE  RequestInv'
    BY <2>1, KeepRequestInv DEF SkipAdmission, NothingToPrefill, PrefillForward,
       EndAdmission, queue_vars, input_vars, admission_vars, request_vars
  <2> QED
    BY <1>2, <2>1, PopRequestInv, AnswerEmptyRequestInv, TokenizeRequestInv,
       AssignRequestInv, AdmitRequestInv DEF AdmitPrefillRound
<1>3. CASE DecodeRound
  <2>1. ASSUME SkipDecode \/ DecodeForward PROVE RequestInv'
    BY <2>1, KeepRequestInv DEF SkipDecode, DecodeForward, queue_vars, input_vars,
       admission_vars, request_vars
  <2> QED
    BY <1>3, <2>1, DecodeRequestInv, EndDecodeRequestInv DEF DecodeRound
<1>4. CASE Continue \/ Exit \/ ModelThrows \/ Stopped \/ UNCHANGED vars
  BY <1>4, KeepRequestInv DEF Continue, Exit, ModelThrows, Stopped, vars, queue_vars,
     input_vars, admission_vars, request_vars
<1> QED
  BY <1>1, <1>2, <1>3, <1>4 DEF Next, ServerThread

LEMMA RequestInvariance == Spec => [](TypeInv /\ RequestInv)
  BY InitTypeInv, NextTypeInv, InitRequestInv, NextRequestInv, PTL DEF Spec

-----------------------------------------------------------------------------
(* The indices at which request id is found, by place. *)
FoundAt(id) ==
    [p \in Places |->
        CASE p = "pending" -> With(pending_prompts, id)
          [] p = "candidate" -> With(candidates, id)
          [] p = "tokenized" -> With(tokenized, id)
          [] p = "prepared" -> With(prepared, id)
          [] p = "active" -> With(active_requests, id)
          [] p = "next_active" -> With(next_active, id)
          [] p = "answered" -> AnswersTo(id)]

LEMMA FoundOnce ==
    ASSUME RequestInv, NEW id, NEW p \in Places
    PROVE  /\ FoundAt(id)[p] # {} <=> id \in IdsAt[p]
           /\ \A i, j \in FoundAt(id)[p] : i = j
<1>1. ASSUME NEW batch, IdsOnce(batch)
      PROVE  /\ With(batch, id) # {} <=> id \in IdsOf(batch)
             /\ \A i, j \in With(batch, id) : i = j
  BY <1>1 DEF With, IdsOf, IdsOnce
<1>2. /\ AnswersTo(id) # {} <=> id \in IdsAnswered(out)
      /\ \A i, j \in AnswersTo(id) : i = j
  BY DEF RequestInv, EachOnce, AnswersTo, IdsAnswered, AnsweredOnce, Answers
<1>3. CASE p = "pending"
  BY <1>1, <1>3, IdsAtPlaces DEF RequestInv, EachOnce, FoundAt
<1>4. CASE p = "candidate"
  BY <1>1, <1>4, IdsAtPlaces DEF RequestInv, EachOnce, FoundAt
<1>5. CASE p = "tokenized"
  BY <1>1, <1>5, IdsAtPlaces DEF RequestInv, EachOnce, FoundAt
<1>6. CASE p = "prepared"
  BY <1>1, <1>6, IdsAtPlaces DEF RequestInv, EachOnce, FoundAt
<1>7. CASE p = "active"
  BY <1>1, <1>7, IdsAtPlaces DEF RequestInv, EachOnce, FoundAt
<1>8. CASE p = "next_active"
  BY <1>1, <1>8, IdsAtPlaces DEF RequestInv, EachOnce, FoundAt
<1>9. CASE p = "answered"
  BY <1>2, <1>9, IdsAtPlaces DEF FoundAt
<1> QED
  BY <1>3, <1>4, <1>5, <1>6, <1>7, <1>8, <1>9 DEF Places

LEMMA RequestInvOnePlace == RequestInv => RequestInOnePlace
<1> SUFFICES ASSUME RequestInv, NEW id \in Submitted
             PROVE  PlacesOf(id) # {} /\ \A o, q \in PlacesOf(id) : o = q
  BY DEF RequestInOnePlace, Submitted
<1>1. \A o : o \in PlacesOf(id) <=> \E p \in Places : \E i \in FoundAt(id)[p] : o = <<p, i>>
  BY DEF PlacesOf, Places, FoundAt
<1>2. PICK p \in Places : id \in IdsAt[p]
  BY DEF RequestInv, Divides
<1>3. PlacesOf(id) # {}
  <2>1. PICK i : i \in FoundAt(id)[p]
    BY <1>2, FoundOnce
  <2>2. <<p, i>> \in PlacesOf(id)
    BY <1>1, <2>1
  <2> QED
    BY <2>2
<1>4. ASSUME NEW o \in PlacesOf(id), NEW q \in PlacesOf(id) PROVE o = q
  <2>1. PICK r \in Places : \E i \in FoundAt(id)[r] : o = <<r, i>>
    BY <1>1
  <2>2. PICK s \in Places : \E i \in FoundAt(id)[s] : q = <<s, i>>
    BY <1>1
  <2>3. id \in IdsAt[r] /\ id \in IdsAt[s]
    BY <2>1, <2>2, FoundOnce
  <2>4. r = s
    BY <2>3, Elsewhere
  <2>5. \A i, j \in FoundAt(id)[r] : i = j
    BY FoundOnce
  <2> QED
    BY <2>1, <2>2, <2>4, <2>5
<1> QED
  BY <1>3, <1>4

(* Every submitted request is waiting, in service or answered, in one place. *)
THEOREM RequestsInOnePlace == Spec => []RequestInOnePlace
  BY RequestInvariance, RequestInvOnePlace, PTL

-----------------------------------------------------------------------------
(* The end of the service.                                                   *)

(* A closed input stays closed and empty. *)
DrainInv ==
    /\ input_closed => input_pc = "ended"
    /\ pc = "exited" => input_closed /\ pending_prompts = <<>>

LEMMA NextDrainInv == DrainInv /\ [Next]_vars => DrainInv'
<1> SUFFICES ASSUME DrainInv, [Next]_vars PROVE DrainInv'
  OBVIOUS
<1>1. CASE InputThread
  <2>1. ASSUME NEW n \in SeqLens, SubmitPrompt(n) PROVE DrainInv'
    <3>1. ~input_closed /\ ~input_closed' /\ pc' = pc
      BY <2>1 DEF SubmitPrompt, InputThreadAt, DrainInv
    <3> QED
      BY <3>1 DEF DrainInv
  <2>2. CASE PrintAccepted
    BY <2>2 DEF PrintAccepted, InputThreadAt, DrainInv
  <2>3. CASE MarkInputClosed
    BY <2>3 DEF MarkInputClosed, InputThreadAt, DrainInv
  <2> QED
    BY <1>1, <2>1, <2>2, <2>3 DEF InputThread
<1>2. CASE AdmitPrefillRound
  <2>1. ASSUME \/ PopAdmissionCandidates \/ SkipAdmission \/ AnswerEmptyPrompt
               \/ TokenizePrompt \/ NothingToPrefill \/ AssignSlot \/ PrefillForward
               \/ EndAdmission
        PROVE  UNCHANGED input_vars /\ pc' # "exited"
    BY <2>1 DEF PopAdmissionCandidates, SkipAdmission, AnswerEmptyPrompt, TokenizePrompt,
       NothingToPrefill, AssignSlot, PrefillForward, EndAdmission, queue_vars
  <2>2. ASSUME NEW token \in Tokens, AdmitRequest(token)
        PROVE  UNCHANGED input_vars /\ pc' # "exited"
    BY <2>2 DEF AdmitRequest, queue_vars
  <2> QED
    BY <1>2, <2>1, <2>2 DEF AdmitPrefillRound, DrainInv, input_vars
<1>3. CASE DecodeRound
  <2>1. ASSUME SkipDecode \/ DecodeForward \/ EndDecode
        PROVE  UNCHANGED input_vars /\ pc' # "exited"
    BY <2>1 DEF SkipDecode, DecodeForward, EndDecode, queue_vars
  <2>2. ASSUME NEW token \in Tokens, DecodeRequest(token)
        PROVE  UNCHANGED input_vars /\ pc' # "exited"
    BY <2>2 DEF DecodeRequest, queue_vars
  <2> QED
    BY <1>3, <2>1, <2>2 DEF DecodeRound, DrainInv, input_vars
<1>4. CASE Exit
  BY <1>4 DEF Exit, IsDone, queue_vars, input_vars, DrainInv
<1>5. CASE Continue \/ ModelThrows \/ Stopped \/ UNCHANGED vars
  BY <1>5 DEF Continue, ModelThrows, Stopped, vars, queue_vars, input_vars, DrainInv
<1> QED
  BY <1>1, <1>2, <1>3, <1>4, <1>5 DEF Next, ServerThread

(* A list that holds every slot once is as long as there are slots. *)
LEMMA StackSize ==
    ASSUME NEW S, NEW s \in Seq(S), TakenOnce(s)
    PROVE  IsFiniteSet(Taken(s)) /\ Cardinality(Taken(s)) = Len(s)
<1>1. Len(s) \in Nat /\ DOMAIN s = 1 .. Len(s) /\ s \in [1 .. Len(s) -> S]
  BY LenProperties
<1>2. s \in Bijection(1 .. Len(s), Taken(s))
  <2>1. s \in [1 .. Len(s) -> Taken(s)]
    BY <1>1 DEF Taken
  <2>2. \A i, j \in 1 .. Len(s) : s[i] = s[j] => i = j
    BY <1>1 DEF TakenOnce
  <2>3. \A e \in Taken(s) : \E i \in 1 .. Len(s) : s[i] = e
    BY <1>1 DEF Taken
  <2> QED
    BY <2>1, <2>2, <2>3 DEF Bijection, Injection, Surjection, IsInjective
<1>3. ExistsBijection(1 .. Len(s), Taken(s))
  BY <1>2 DEF ExistsBijection
<1>4. IsFiniteSet(1 .. Len(s)) /\ Cardinality(1 .. Len(s)) = Len(s)
  BY <1>1, FS_Interval
<1> QED
  BY <1>3, <1>4, FS_Bijection

LEMMA InvDrained == TypeInv /\ SlotInv /\ RequestInv /\ DrainInv => DrainedAtExit
<1> SUFFICES ASSUME TypeInv, SlotInv, RequestInv, DrainInv, pc = "exited"
             PROVE  /\ \A id \in Submitted : AnswersTo(id) # {}
                    /\ Len(free_slots) = MaxActive
                    /\ input_pc = "ended"
  BY DEF DrainedAtExit, Submitted
<1>1. /\ pending_prompts = <<>> /\ candidates = <<>> /\ tokenized = <<>>
      /\ prepared = <<>> /\ active_requests = <<>> /\ next_active = <<>>
      /\ input_pc = "ended"
  BY DEF TypeInv, Stages, DrainInv
<1>2. ASSUME NEW id \in Submitted PROVE AnswersTo(id) # {}
  <2>1. PICK p \in Places : id \in IdsAt[p]
    BY DEF RequestInv, Divides
  <2>2. p = "answered"
    BY <1>1, <2>1, NoIds, IdsAtPlaces DEF Places
  <2>3. FoundAt(id)[p] # {}
    BY <2>1, FoundOnce
  <2> QED
    BY <2>2, <2>3 DEF FoundAt
<1>3. Len(free_slots) = MaxActive
  <2>1. Taken(free_slots) = 0 .. MaxActive - 1
    BY <1>1, NothingHeld DEF SlotInv, Split, Slots
  <2>2. Cardinality(0 .. MaxActive - 1) = MaxActive
    BY ServerAssumption, FS_Interval
  <2>3. Cardinality(Taken(free_slots)) = Len(free_slots)
    BY StackSize DEF TypeInv, TypeOK, SlotInv
  <2> QED
    BY <2>1, <2>2, <2>3
<1> QED
  BY <1>1, <1>2, <1>3

(* When run returns, every request has its answer, every slot is free and the
   input is closed. *)
THEOREM ServiceDrains == Spec => []DrainedAtExit
<1>1. Init => DrainInv
  BY DEF Init, DrainInv
<1> QED
  BY <1>1, NextDrainInv, SlotInvariance, RequestInvariance, InvDrained, PTL DEF Spec

-----------------------------------------------------------------------------
(***************************************************************************)
(* Every request attends to its own history and to nothing else, for every *)
(* value of the constants of ContinuousBatchServer.                        *)
(***************************************************************************)

(* What the model keeps for the slot of a request, stage by stage.  The two  *)
(* pads are equal whenever a forward pass or finish_request has copied them. *)

Members(batch) == {batch[i] : i \in DOMAIN batch}

SamePads(s) == pad_lens_by_slot[s] = pad_lens_by_sample[s]

Clean(s) ==
    kv_cache[s] = <<>> /\ pad_lens_by_slot[s] = 0 /\ pad_lens_by_sample[s] = 0

(* Given a slot, not prefilled. *)
Waiting(req) ==
    /\ req.seq_len # 0
    /\ kv_cache[req.slot_id] = <<>>
    /\ pad_lens_by_slot[req.slot_id] = req.pad_len

(* Prefilled, its first token not handled. *)
Filled(req) ==
    /\ req.seq_len # 0
    /\ kv_cache[req.slot_id] = Rows(req.request_id, req.pad_len, req.seq_len)
    /\ pad_lens_by_slot[req.slot_id] = req.pad_len
    /\ pad_lens_by_sample[req.slot_id] = req.pad_len

(* Active, with the rows of n tokens. *)
Holds(req, n) ==
    /\ req.pos_len # 0
    /\ kv_cache[req.slot_id] =
          Rows(req.request_id, pad_lens_by_sample[req.slot_id], n)
    /\ SamePads(req.slot_id)

(* The row the decode round has appended and pos_len does not count yet. *)
PendingRow == IF pc = "decoded" THEN 1 ELSE 0

FreeClean == \A s \in Taken(free_slots) : Clean(s)
PreparedHistory ==
    \A req \in Members(prepared) :
        IF pc = "prefilled" THEN Filled(req) ELSE Waiting(req)
ActiveHistory ==
    \A req \in Members(active_requests) : Holds(req, req.pos_len + PendingRow)
NextHistory == \A req \in Members(next_active) : Holds(req, req.pos_len)

HistoryInv ==
    FreeClean /\ PreparedHistory /\ ActiveHistory /\ NextHistory

-----------------------------------------------------------------------------
(* The rows of a request, one token more. *)
LEMMA OneRowMore ==
    ASSUME NEW id \in Nat, NEW pad \in Nat, NEW n \in Nat
    PROVE  Append(Rows(id, pad, n), [request_id |-> id, pos |-> n]) = Rows(id, pad, n + 1)
<1> DEFINE row == [request_id |-> id, pos |-> n]
           more == Append(Rows(id, pad, n), row)
<1>1. Rows(id, pad, n) \in Seq(RowType) /\ Len(Rows(id, pad, n)) = pad + n /\ row \in RowType
  BY RowsType DEF RowType
<1>2. /\ more \in Seq(RowType) /\ DOMAIN more = 1 .. pad + n + 1
      /\ \A i \in 1 .. pad + n : more[i] = Rows(id, pad, n)[i]
      /\ more[pad + n + 1] = row
  BY <1>1, AddLast
<1>3. Rows(id, pad, n + 1) = [i \in 1 .. pad + n + 1 |-> [request_id |-> id, pos |-> i - 1 - pad]]
  BY DEF Rows
<1>4. more = [i \in 1 .. pad + n + 1 |-> more[i]]
  BY <1>2, LenProperties
<1> HIDE DEF more
<1>5. ASSUME NEW i \in 1 .. pad + n + 1
      PROVE  more[i] = [request_id |-> id, pos |-> i - 1 - pad]
  <2>1. CASE i = pad + n + 1
    BY <1>2, <2>1
  <2>2. CASE i \in 1 .. pad + n
    BY <1>2, <2>2 DEF Rows
  <2> QED
    BY <2>1, <2>2
<1>6. more = Rows(id, pad, n + 1)
  BY <1>3, <1>4, <1>5
<1> QED
  BY <1>6 DEF more

LEMMA RowsFromNothing ==
    ASSUME NEW id \in Nat, NEW pad \in Nat, NEW n \in Nat
    PROVE  <<>> \o Rows(id, pad, n) = Rows(id, pad, n)
  BY RowsType, ConcatEmptySeq

LEMMA NoMembers == Members(<<>>) = {}
  BY DEF Members

LEMMA MemberType ==
    ASSUME NEW S, NEW batch \in Seq(S)
    PROVE  Members(batch) \subseteq S
  BY LenProperties, ElementOfSeq DEF Members

LEMMA MemberSlot ==
    ASSUME NEW batch, NEW req \in Members(batch)
    PROVE  req.slot_id \in HeldBy(batch)
  BY DEF Members, HeldBy

LEMMA DropMember ==
    ASSUME NEW S, NEW batch \in Seq(S), batch # <<>>, HeldOnce(batch)
    PROVE  /\ Head(batch) \in Members(batch)
           /\ \A req \in Members(Tail(batch)) :
                 req \in Members(batch) /\ req.slot_id # Head(batch).slot_id
<1>1. /\ Len(batch) \in Nat \ {0} /\ DOMAIN batch = 1 .. Len(batch)
      /\ DOMAIN Tail(batch) = 1 .. Len(batch) - 1 /\ Head(batch) = batch[1]
      /\ \A i \in 1 .. Len(batch) - 1 : Tail(batch)[i] = batch[i + 1]
  BY DropFirst
<1>2. Head(batch) \in Members(batch)
  BY <1>1 DEF Members
<1>3. ASSUME NEW req \in Members(Tail(batch)) PROVE req \in Members(batch)
  <2>1. PICK i \in 1 .. Len(batch) - 1 : req = batch[i + 1]
    BY <1>1 DEF Members
  <2>2. i + 1 \in 1 .. Len(batch)
    BY <1>1
  <2> QED
    BY <1>1, <2>1, <2>2 DEF Members
<1>4. ASSUME NEW req \in Members(Tail(batch)) PROVE req.slot_id # Head(batch).slot_id
  BY MemberSlot, DropHolder
<1> QED
  BY <1>2, <1>3, <1>4

LEMMA AddMember ==
    ASSUME NEW S, NEW batch \in Seq(S), NEW req \in S
    PROVE  \A r \in Members(Append(batch, req)) : r \in Members(batch) \/ r = req
<1> DEFINE more == Append(batch, req)
<1>1. /\ Len(batch) \in Nat /\ DOMAIN batch = 1 .. Len(batch)
      /\ DOMAIN more = 1 .. Len(batch) + 1
      /\ \A i \in 1 .. Len(batch) : more[i] = batch[i]
      /\ more[Len(batch) + 1] = req
  BY AddLast
<1> HIDE DEF more
<1> SUFFICES ASSUME NEW r \in Members(more) PROVE r \in Members(batch) \/ r = req
  BY DEF more
<1>2. PICK i \in 1 .. Len(batch) + 1 : r = more[i]
  BY <1>1 DEF Members
<1>3. CASE i = Len(batch) + 1
  BY <1>1, <1>2, <1>3
<1>4. CASE i \in 1 .. Len(batch)
  BY <1>1, <1>2, <1>4 DEF Members
<1> QED
  BY <1>1, <1>3, <1>4

(* What the holders of slots have to do with each other. *)
LEMMA Holders ==
    ASSUME TypeInv, SlotInv
    PROVE  /\ \A req \in Members(prepared) :
                 /\ req \in PreparedType /\ req.slot_id \in HeldBy(prepared)
                 /\ req.slot_id \in Slots
           /\ \A req \in Members(active_requests) :
                 /\ req \in ActiveType /\ req.slot_id \in HeldBy(active_requests)
                 /\ req.slot_id \in Slots
           /\ \A req \in Members(next_active) :
                 /\ req \in ActiveType /\ req.slot_id \in HeldBy(next_active)
                 /\ req.slot_id \in Slots
           /\ Taken(free_slots) \subseteq Slots
  BY MemberType, MemberSlot DEF TypeInv, TypeOK, SlotInv, Split, PreparedType, ActiveType

-----------------------------------------------------------------------------
(* finish_request clears one slot and leaves the others alone. *)

SameSlot(s) ==
    /\ kv_cache'[s] = kv_cache[s]
    /\ pad_lens_by_slot'[s] = pad_lens_by_slot[s]
    /\ pad_lens_by_sample'[s] = pad_lens_by_sample[s]

LEMMA PadsCopied ==
    ASSUME SlotInv, HistoryInv, pc = "prefilled" \/ prepared = <<>>
    PROVE  \A s \in Slots : SamePads(s)
<1> SUFFICES ASSUME NEW s \in Slots PROVE SamePads(s)
  OBVIOUS
<1>1. CASE s \in Taken(free_slots)
  BY <1>1 DEF HistoryInv, FreeClean, Clean, SamePads
<1>2. CASE s \in HeldBy(prepared)
  <2>1. PICK req \in Members(prepared) : req.slot_id = s
    BY <1>2 DEF HeldBy, Members
  <2>2. pc = "prefilled"
    BY <1>2, NothingHeld
  <2> QED
    BY <2>1, <2>2 DEF HistoryInv, PreparedHistory, Filled, SamePads
<1>3. CASE s \in HeldBy(active_requests)
  <2>1. PICK req \in Members(active_requests) : req.slot_id = s
    BY <1>3 DEF HeldBy, Members
  <2> QED
    BY <2>1 DEF HistoryInv, ActiveHistory, Holds
<1>4. CASE s \in HeldBy(next_active)
  <2>1. PICK req \in Members(next_active) : req.slot_id = s
    BY <1>4 DEF HeldBy, Members
  <2> QED
    BY <2>1 DEF HistoryInv, NextHistory, Holds
<1> QED
  BY <1>1, <1>2, <1>3, <1>4 DEF SlotInv, Split

LEMMA FinishClears ==
    ASSUME TypeInv, NEW req, req.slot_id \in Slots, FinishRequest(req),
           \A s \in Slots : SamePads(s)
    PROVE  /\ Clean(req.slot_id)'
           /\ \A s \in Slots \ {req.slot_id} : SameSlot(s)
<1>1. /\ kv_cache' = [kv_cache EXCEPT ![req.slot_id] = <<>>]
      /\ pad_lens_by_slot' = [pad_lens_by_slot EXCEPT ![req.slot_id] = 0]
      /\ pad_lens_by_sample' = pad_lens_by_slot'
  BY DEF FinishRequest
<1>2. /\ DOMAIN kv_cache = Slots /\ DOMAIN pad_lens_by_slot = Slots
  BY DEF TypeInv, TypeOK
<1>3. kv_cache'[req.slot_id] = <<>> /\ pad_lens_by_slot'[req.slot_id] = 0
  BY <1>1, <1>2
<1>4. ASSUME NEW s \in Slots, s # req.slot_id PROVE SameSlot(s)
  BY <1>1, <1>2, <1>4 DEF SameSlot, SamePads
<1> QED
  BY <1>1, <1>3, <1>4 DEF Clean

(* Requests whose slots are left alone keep what they hold. *)
LEMMA Undisturbed ==
    ASSUME NEW req, SameSlot(req.slot_id)
    PROVE  /\ Filled(req) => Filled(req)'
           /\ Waiting(req) => Waiting(req)'
           /\ \A n : Holds(req, n) => Holds(req, n)'
  BY DEF SameSlot, Filled, Waiting, Holds, SamePads

-----------------------------------------------------------------------------
LEMMA InitHistoryInv == Init => HistoryInv
<1> SUFFICES ASSUME Init PROVE HistoryInv
  OBVIOUS
<1>1. \A s \in Slots : Clean(s)
  BY DEF Init, Clean
<1>2. Taken(free_slots) \subseteq Slots
  BY InitTypeInv, InitSlotInv, Holders
<1> QED
  BY <1>1, <1>2, NoMembers DEF Init, HistoryInv, FreeClean, PreparedHistory, ActiveHistory,
     NextHistory

(* Actions that touch no slot and no request of a round: only the program
   counter may move, and no further than the rows allow. *)
LEMMA KeepHistoryInv ==
    ASSUME HistoryInv, UNCHANGED <<request_vars, slot_vars, model_vars>>,
           \/ pc' = pc
           \/ /\ pc # "decoded" /\ pc' # "decoded"
              /\ \/ prepared = <<>>
                 \/ pc # "prefilled" /\ pc' # "prefilled"
    PROVE  HistoryInv'
<1>1. FreeClean'
  BY DEF HistoryInv, FreeClean, Clean, Taken, slot_vars, model_vars
<1>2. PreparedHistory'
  BY NoMembers DEF HistoryInv, PreparedHistory, Filled, Waiting, Members, request_vars,
     slot_vars, model_vars
<1>3. PendingRow' = PendingRow
  BY DEF PendingRow
<1>4. ActiveHistory' /\ NextHistory'
  BY <1>3 DEF HistoryInv, ActiveHistory, NextHistory, Holds, SamePads, Members, request_vars,
     slot_vars, model_vars
<1> QED
  BY <1>1, <1>2, <1>4 DEF HistoryInv

(* The slot on top of the stack is clean; its new pad is all that changes. *)
LEMMA AssignHistoryInv ==
    ASSUME TypeInv, SlotInv, HistoryInv, AssignSlot PROVE HistoryInv'
<1> DEFINE slot == Last(free_slots)
           req == Head(tokenized)
           pad_len == max_len - req.seq_len
           adm == [request_id |-> req.request_id, slot_id |-> slot,
                   seq_len |-> req.seq_len, pad_len |-> pad_len,
                   max_generate_tokens |-> MaxGenerateTokens(req.seq_len)]
<1>1. tokenized \in Seq(FittingPrompt) /\ tokenized # <<>> /\ candidates = <<>>
  BY DEF TypeInv, ListsSound, AssignSlot
<1>2. free_slots \in Seq(Slots) /\ free_slots # <<>>
  <2>1. Len(tokenized) \in Nat \ {0}
    BY <1>1, DropFirst
  <2> QED
    BY <1>1, <2>1, LenProperties, EmptySeq DEF TypeInv, TypeOK, EnoughFreeSlots, AssignSlot
<1>3. slot \in Taken(free_slots) /\ Taken(free_slots') = Taken(free_slots) \ {slot}
  BY <1>2, PopFree DEF SlotInv, AssignSlot
<1>4. req.seq_len # 0
  BY <1>1, DropFirst DEF FittingPrompt
<1>5. /\ prepared' = Append(prepared, adm)
      /\ pad_lens_by_slot' = [pad_lens_by_slot EXCEPT ![slot] = pad_len]
      /\ kv_cache' = kv_cache /\ pad_lens_by_sample' = pad_lens_by_sample
      /\ active_requests' = active_requests /\ next_active' = next_active
      /\ pc' = pc /\ pc = "prepare"
  BY DEF AssignSlot, model_vars
<1>6. slot \in Slots /\ pad_lens_by_slot \in [Slots -> Nat]
  BY <1>3, Holders DEF TypeInv, TypeOK
<1>7. adm.slot_id = slot /\ adm.seq_len = req.seq_len /\ adm.pad_len = pad_len
  OBVIOUS
<1> HIDE DEF slot, req, pad_len, adm
<1>8. \A s \in Slots \ {slot} : SameSlot(s)
  BY <1>5, <1>6 DEF SameSlot
<1>9. FreeClean'
  <2> SUFFICES ASSUME NEW s \in Taken(free_slots') PROVE Clean(s)'
    BY DEF FreeClean
  <2>1. Clean(s) /\ SameSlot(s)
    BY <1>3, <1>8, Holders DEF HistoryInv, FreeClean
  <2> QED
    BY <2>1 DEF Clean, SameSlot
<1>10. PreparedHistory'
  <2> SUFFICES ASSUME NEW r \in Members(prepared') PROVE Waiting(r)'
    BY <1>5 DEF PreparedHistory
  <2>1. r \in Members(prepared) \/ r = adm
    <3>1. prepared \in Seq(PreparedType \cup {adm})
      BY SeqMonotonic DEF TypeInv, TypeOK
    <3> QED
      BY <1>5, <3>1, AddMember
  <2>2. CASE r = adm
    <3>1. kv_cache[slot] = <<>>
      BY <1>3 DEF HistoryInv, FreeClean, Clean
    <3> QED
      BY <1>4, <1>5, <1>6, <1>7, <2>2, <3>1 DEF Waiting
  <2>3. CASE r \in Members(prepared)
    <3>1. r.slot_id \in Slots \ {slot}
      BY <1>3, <2>3, Holders DEF SlotInv, Split
    <3>2. Waiting(r)
      BY <1>5, <2>3 DEF HistoryInv, PreparedHistory
    <3> QED
      BY <1>8, <3>1, <3>2, Undisturbed
  <2> QED
    BY <2>1, <2>2, <2>3
<1>11. ActiveHistory'
  <2> SUFFICES ASSUME NEW r \in Members(active_requests)
               PROVE  Holds(r, r.pos_len + PendingRow)'
    BY <1>5 DEF ActiveHistory
  <2>1. r.slot_id \in Slots \ {slot}
    BY <1>3, Holders DEF SlotInv, Split
  <2>2. Holds(r, r.pos_len + PendingRow)
    BY DEF HistoryInv, ActiveHistory
  <2> QED
    BY <1>5, <1>8, <2>1, <2>2, Undisturbed DEF PendingRow
<1>12. NextHistory'
  <2> SUFFICES ASSUME NEW r \in Members(next_active) PROVE Holds(r, r.pos_len)'
    BY <1>5 DEF NextHistory
  <2>1. r.slot_id \in Slots \ {slot}
    BY <1>3, Holders DEF SlotInv, Split
  <2>2. Holds(r, r.pos_len)
    BY DEF HistoryInv, NextHistory
  <2> QED
    BY <1>8, <2>1, <2>2, Undisturbed
<1> QED
  BY <1>9, <1>10, <1>11, <1>12 DEF HistoryInv

(* The request a slot was given to, as the forward passes find it. *)
LEMMA ChosenHolder ==
    ASSUME NEW batch, HeldOnce(batch), NEW req \in Members(batch)
    PROVE  /\ InSlot(batch, req.slot_id) # {}
           /\ batch[CHOOSE i \in InSlot(batch, req.slot_id) : TRUE] = req
<1>1. PICK j \in DOMAIN batch : req = batch[j]
  BY DEF Members
<1>2. j \in InSlot(batch, req.slot_id)
  BY <1>1 DEF InSlot
<1>3. \A i \in InSlot(batch, req.slot_id) : i = j
  BY <1>2, OneHolder
<1>4. (CHOOSE i \in InSlot(batch, req.slot_id) : TRUE) = j
  BY <1>2, <1>3
<1> QED
  BY <1>1, <1>2, <1>4

LEMMA PrefillHistoryInv ==
    ASSUME TypeInv, SlotInv, HistoryInv, PrefillForward PROVE HistoryInv'
<1>1. /\ pc = "prepare" /\ pc' = "prefilled"
      /\ pad_lens_by_sample' = pad_lens_by_slot /\ pad_lens_by_slot' = pad_lens_by_slot
      /\ prepared' = prepared /\ active_requests' = active_requests
      /\ next_active' = next_active /\ free_slots' = free_slots
  BY DEF PrefillForward, ReadyToPrefill, request_vars, slot_vars
<1>2. ASSUME NEW s \in Slots, s \notin HeldBy(prepared)
      PROVE  kv_cache'[s] = kv_cache[s]
  <2>1. InSlot(prepared, s) = {}
    BY <1>2 DEF InSlot, HeldBy
  <2> QED
    BY <2>1 DEF PrefillForward
<1>3. FreeClean'
  <2> SUFFICES ASSUME NEW s \in Taken(free_slots) PROVE Clean(s)'
    BY <1>1 DEF FreeClean
  <2>1. Clean(s) /\ s \in Slots /\ s \notin HeldBy(prepared)
    BY Holders DEF HistoryInv, FreeClean, SlotInv, Split
  <2> QED
    BY <1>1, <1>2, <2>1 DEF Clean
<1>4. PreparedHistory'
  <2> SUFFICES ASSUME NEW req \in Members(prepared) PROVE Filled(req)'
    BY <1>1 DEF PreparedHistory
  <2>1. Waiting(req) /\ req.slot_id \in Slots
    BY <1>1, Holders DEF HistoryInv, PreparedHistory
  <2>2. req.request_id \in Nat /\ req.pad_len \in Nat /\ req.seq_len \in Nat
    BY Holders, ServerAssumption DEF PreparedType
  <2>3. InSlot(prepared, req.slot_id) # {}
        /\ prepared[CHOOSE i \in InSlot(prepared, req.slot_id) : TRUE] = req
    BY ChosenHolder DEF SlotInv
  <2>4. kv_cache'[req.slot_id] =
           kv_cache[req.slot_id] \o Rows(req.request_id, req.pad_len, req.seq_len)
    BY <2>1, <2>3 DEF PrefillForward
  <2> QED
    BY <1>1, <2>1, <2>2, <2>4, RowsFromNothing DEF Waiting, Filled
<1>5. ASSUME NEW req, NEW n, Holds(req, n), req.slot_id \in Slots,
             req.slot_id \notin HeldBy(prepared)
      PROVE  Holds(req, n)'
  BY <1>1, <1>2, <1>5 DEF Holds, SamePads
<1>6. ActiveHistory'
  <2>1. PendingRow = 0 /\ PendingRow' = 0
    BY <1>1 DEF PendingRow
  <2> SUFFICES ASSUME NEW req \in Members(active_requests)
               PROVE  Holds(req, req.pos_len + PendingRow)'
    BY <1>1 DEF ActiveHistory
  <2>2. Holds(req, req.pos_len + PendingRow) /\ req.slot_id \in Slots
        /\ req.slot_id \notin HeldBy(prepared)
    BY Holders DEF HistoryInv, ActiveHistory, SlotInv, Split
  <2> QED
    BY <1>5, <2>1, <2>2
<1>7. NextHistory'
  <2> SUFFICES ASSUME NEW req \in Members(next_active) PROVE Holds(req, req.pos_len)'
    BY <1>1 DEF NextHistory
  <2>1. Holds(req, req.pos_len) /\ req.slot_id \in Slots
        /\ req.slot_id \notin HeldBy(prepared)
    BY Holders DEF HistoryInv, NextHistory, SlotInv, Split
  <2> QED
    BY <1>5, <2>1
<1> QED
  BY <1>3, <1>4, <1>6, <1>7 DEF HistoryInv

LEMMA DecodeForwardHistoryInv ==
    ASSUME TypeInv, SlotInv, HistoryInv, DecodeForward PROVE HistoryInv'
<1>1. /\ pc = "decode" /\ pc' = "decoded"
      /\ pad_lens_by_sample' = pad_lens_by_sample /\ pad_lens_by_slot' = pad_lens_by_slot
      /\ prepared' = prepared /\ active_requests' = active_requests
      /\ next_active' = next_active /\ free_slots' = free_slots
  BY DEF DecodeForward, ReadyToDecode, request_vars, slot_vars
<1>2. prepared = <<>> /\ next_active = <<>>
  BY <1>1 DEF TypeInv, Stages
<1>3. FreeClean'
  <2> SUFFICES ASSUME NEW s \in Taken(free_slots) PROVE Clean(s)'
    BY <1>1 DEF FreeClean
  <2>1. Clean(s) /\ s \in Slots /\ s \notin HeldBy(active_requests)
    BY Holders DEF HistoryInv, FreeClean, SlotInv, Split
  <2>2. InSlot(active_requests, s) = {}
    BY <2>1 DEF InSlot, HeldBy
  <2>3. kv_cache'[s] = kv_cache[s]
    BY <2>1, <2>2 DEF DecodeForward
  <2> QED
    BY <1>1, <2>1, <2>3 DEF Clean
<1>4. ActiveHistory'
  <2>1. PendingRow = 0 /\ PendingRow' = 1
    BY <1>1 DEF PendingRow
  <2> SUFFICES ASSUME NEW req \in Members(active_requests)
               PROVE  Holds(req, req.pos_len + PendingRow)'
    BY <1>1 DEF ActiveHistory
  <2> DEFINE pad == pad_lens_by_sample[req.slot_id]
  <2>2. req.request_id \in Nat /\ req.pos_len \in Nat /\ req.slot_id \in Slots
    BY Holders DEF ActiveType
  <2>3. pad \in Nat
    BY <2>2 DEF TypeInv, TypeOK
  <2>4. Holds(req, req.pos_len)
    BY <2>1, <2>2 DEF HistoryInv, ActiveHistory
  <2>5. InSlot(active_requests, req.slot_id) # {}
        /\ active_requests[CHOOSE i \in InSlot(active_requests, req.slot_id) : TRUE] = req
    BY ChosenHolder DEF SlotInv
  <2>6. kv_cache'[req.slot_id] =
           Append(kv_cache[req.slot_id], [request_id |-> req.request_id, pos |-> req.pos_len])
    BY <2>2, <2>5 DEF DecodeForward
  <2>7. kv_cache'[req.slot_id] = Rows(req.request_id, pad, req.pos_len + 1)
    BY <2>2, <2>3, <2>4, <2>6, OneRowMore DEF Holds
  <2> QED
    BY <1>1, <2>1, <2>4, <2>7 DEF Holds, SamePads
<1> QED
  BY <1>1, <1>2, <1>3, <1>4, NoMembers DEF HistoryInv, PreparedHistory, NextHistory

-----------------------------------------------------------------------------
(* A request is finished: its slot is clean when it goes back on the stack,
   and nobody else's slot is touched. *)
LEMMA FinishHistory ==
    ASSUME TypeInv, SlotInv, HistoryInv, NEW req, FinishRequest(req),
           req.slot_id \in Slots, req.slot_id \notin Taken(free_slots),
           pc = "prefilled" \/ prepared = <<>>
    PROVE  /\ FreeClean'
           /\ \A s \in Slots \ {req.slot_id} : SameSlot(s)
<1>1. \A s \in Slots : SamePads(s)
  BY PadsCopied
<1>2. Clean(req.slot_id)' /\ \A s \in Slots \ {req.slot_id} : SameSlot(s)
  BY <1>1, FinishClears
<1>3. Taken(free_slots') = Taken(free_slots) \cup {req.slot_id}
  BY PushFree DEF FinishRequest, TypeInv, TypeOK
<1>4. ASSUME NEW s \in Taken(free_slots) PROVE Clean(s)'
  <2>1. Clean(s) /\ SameSlot(s)
    BY <1>2, Holders DEF HistoryInv, FreeClean
  <2> QED
    BY <2>1 DEF Clean, SameSlot
<1>5. FreeClean'
  BY <1>2, <1>3, <1>4 DEF FreeClean
<1> QED
  BY <1>2, <1>5

LEMMA AdmitHistoryInv ==
    ASSUME TypeInv, SlotInv, HistoryInv, NEW token \in Tokens, AdmitRequest(token)
    PROVE  HistoryInv'
<1> DEFINE adm == Head(prepared)
           req == Admitted(adm, token)
<1>1. /\ prepared \in Seq(PreparedType) /\ prepared # <<>> /\ HeldOnce(prepared)
      /\ prepared' = Tail(prepared) /\ next_active' = next_active
      /\ pc = "prefilled" /\ pc' = pc
  BY DEF AdmitRequest, TypeInv, TypeOK, SlotInv
<1>2. /\ adm \in Members(prepared)
      /\ \A r \in Members(prepared') : r \in Members(prepared) /\ r.slot_id # adm.slot_id
  BY <1>1, DropMember
<1>3. /\ adm.slot_id \in HeldBy(prepared) /\ adm.slot_id \in Slots
      /\ adm.slot_id \notin Taken(free_slots)
  BY <1>2, Holders DEF SlotInv, Split
<1>4. /\ req.slot_id = adm.slot_id /\ req.request_id = adm.request_id
      /\ req.pos_len = adm.seq_len
  BY DEF Admitted
<1>5. Filled(adm) /\ adm.seq_len \in Nat
  BY <1>1, <1>2, Holders, ServerAssumption DEF HistoryInv, PreparedHistory, PreparedType
<1>6. PendingRow = 0 /\ PendingRow' = 0
  BY <1>1 DEF PendingRow
<1> HIDE DEF adm, req
<1>7. CASE Finished(req)
  <2>1. FinishRequest(req) /\ active_requests' = active_requests
    BY <1>7 DEF AdmitRequest, req, adm
  <2>2. FreeClean' /\ \A s \in Slots \ {adm.slot_id} : SameSlot(s)
    BY <1>1, <1>3, <1>4, <2>1, FinishHistory
  <2>3. ASSUME NEW r \in Members(prepared') PROVE Filled(r)'
    BY <1>1, <1>2, <2>2, Holders, Undisturbed DEF HistoryInv, PreparedHistory
  <2>4. ASSUME NEW r \in Members(active_requests)
        PROVE  Holds(r, r.pos_len + PendingRow)'
    <3>1. r.slot_id \in Slots \ {adm.slot_id}
      BY <1>3, Holders DEF SlotInv, Split
    <3>2. Holds(r, r.pos_len + 0)
      BY <1>6 DEF HistoryInv, ActiveHistory
    <3> QED
      BY <1>6, <2>2, <3>1, <3>2, Undisturbed
  <2>5. ASSUME NEW r \in Members(next_active) PROVE Holds(r, r.pos_len)'
    <3>1. r.slot_id \in Slots \ {adm.slot_id}
      BY <1>3, Holders DEF SlotInv, Split
    <3>2. Holds(r, r.pos_len)
      BY DEF HistoryInv, NextHistory
    <3> QED
      BY <2>2, <3>1, <3>2, Undisturbed
  <2> QED
    BY <1>1, <2>1, <2>2, <2>3, <2>4, <2>5
       DEF HistoryInv, PreparedHistory, ActiveHistory, NextHistory
<1>8. CASE ~Finished(req)
  <2>1. /\ active_requests' = Append(active_requests, req)
        /\ UNCHANGED <<slot_vars, model_vars>>
    BY <1>8 DEF AdmitRequest, req, adm
  <2>2. \A s : SameSlot(s)
    BY <2>1 DEF SameSlot, slot_vars, model_vars
  <2>3. FreeClean'
    BY <2>1 DEF HistoryInv, FreeClean, Clean, Taken, slot_vars, model_vars
  <2>4. ASSUME NEW r \in Members(prepared') PROVE Filled(r)'
    BY <1>1, <1>2, <2>2, Undisturbed DEF HistoryInv, PreparedHistory
  <2>5. ASSUME NEW r \in Members(active_requests')
        PROVE  Holds(r, r.pos_len + PendingRow)'
    <3>1. r \in Members(active_requests) \/ r = req
      <4>1. active_requests \in Seq(ActiveType \cup {req})
        BY SeqMonotonic DEF TypeInv, TypeOK
      <4> QED
        BY <2>1, <4>1, AddMember
    <3>2. CASE r \in Members(active_requests)
      <4>1. Holds(r, r.pos_len + 0)
        BY <1>6, <3>2 DEF HistoryInv, ActiveHistory
      <4> QED
        BY <1>6, <2>2, <4>1, Undisturbed
    <3>3. CASE r = req
      <4>1. r.pos_len + 0 = adm.seq_len
        BY <1>4, <1>5, <3>3
      <4>2. Holds(r, adm.seq_len)
        BY <1>4, <1>5, <3>3 DEF Filled, Holds, SamePads
      <4> QED
        BY <1>6, <2>2, <4>1, <4>2, Undisturbed
    <3> QED
      BY <3>1, <3>2, <3>3
  <2>6. ASSUME NEW r \in Members(next_active) PROVE Holds(r, r.pos_len)'
    BY <2>2, Undisturbed DEF HistoryInv, NextHistory
  <2> QED
    BY <1>1, <2>3, <2>4, <2>5, <2>6
       DEF HistoryInv, PreparedHistory, ActiveHistory, NextHistory
<1> QED
  BY <1>7, <1>8

LEMMA AdvancedFields ==
    ASSUME NEW old \in ActiveType, NEW token \in Tokens
    PROVE  /\ Advanced(old, token).slot_id = old.slot_id
           /\ Advanced(old, token).request_id = old.request_id
           /\ Advanced(old, token).pos_len = old.pos_len + 1
  BY DEF Advanced, ActiveType

LEMMA DecodeHistoryInv ==
    ASSUME TypeInv, SlotInv, HistoryInv, NEW token \in Tokens, DecodeRequest(token)
    PROVE  HistoryInv'
<1> DEFINE old == Head(active_requests)
           req == Advanced(old, token)
<1>1. /\ active_requests \in Seq(ActiveType) /\ active_requests # <<>>
      /\ HeldOnce(active_requests) /\ active_requests' = Tail(active_requests)
      /\ prepared' = prepared /\ pc = "decoded" /\ pc' = pc
  BY DEF DecodeRequest, TypeInv, TypeOK, SlotInv
<1>2. prepared = <<>>
  BY <1>1 DEF TypeInv, Stages
<1>3. /\ old \in Members(active_requests)
      /\ \A r \in Members(active_requests') :
            r \in Members(active_requests) /\ r.slot_id # old.slot_id
  BY <1>1, DropMember
<1>4. /\ old \in ActiveType /\ old.slot_id \in HeldBy(active_requests)
      /\ old.slot_id \in Slots /\ old.slot_id \notin Taken(free_slots)
  BY <1>3, Holders DEF SlotInv, Split
<1>5. /\ req.slot_id = old.slot_id /\ req.request_id = old.request_id
      /\ req.pos_len = old.pos_len + 1 /\ old.pos_len \in Nat
  BY <1>4, AdvancedFields DEF ActiveType
<1>6. PendingRow = 1 /\ PendingRow' = 1
  BY <1>1 DEF PendingRow
<1>7. Holds(old, old.pos_len + 1)
  BY <1>3, <1>6 DEF HistoryInv, ActiveHistory
<1> HIDE DEF old, req
<1>8. CASE Finished(req)
  <2>1. FinishRequest(req) /\ next_active' = next_active
    BY <1>8 DEF DecodeRequest, req, old
  <2>2. FreeClean' /\ \A s \in Slots \ {old.slot_id} : SameSlot(s)
    BY <1>2, <1>4, <1>5, <2>1, FinishHistory
  <2>3. ASSUME NEW r \in Members(active_requests')
        PROVE  Holds(r, r.pos_len + PendingRow)'
    <3>1. Holds(r, r.pos_len + 1) /\ r.slot_id \in Slots \ {old.slot_id}
      BY <1>3, <1>6, Holders DEF HistoryInv, ActiveHistory
    <3> QED
      BY <1>6, <2>2, <3>1, Undisturbed
  <2>4. ASSUME NEW r \in Members(next_active) PROVE Holds(r, r.pos_len)'
    <3>1. Holds(r, r.pos_len) /\ r.slot_id \in Slots \ {old.slot_id}
      BY <1>4, Holders DEF SlotInv, Split, HistoryInv, NextHistory
    <3> QED
      BY <2>2, <3>1, Undisturbed
  <2> QED
    BY <1>1, <1>2, <2>1, <2>2, <2>3, <2>4, NoMembers
       DEF HistoryInv, PreparedHistory, ActiveHistory, NextHistory
<1>9. CASE ~Finished(req)
  <2>1. /\ next_active' = Append(next_active, req)
        /\ UNCHANGED <<slot_vars, model_vars>>
    BY <1>9 DEF DecodeRequest, req, old
  <2>2. \A s : SameSlot(s)
    BY <2>1 DEF SameSlot, slot_vars, model_vars
  <2>3. FreeClean'
    BY <2>1 DEF HistoryInv, FreeClean, Clean, Taken, slot_vars, model_vars
  <2>4. ASSUME NEW r \in Members(active_requests')
        PROVE  Holds(r, r.pos_len + PendingRow)'
    <3>1. Holds(r, r.pos_len + 1)
      BY <1>3, <1>6 DEF HistoryInv, ActiveHistory
    <3> QED
      BY <1>6, <2>2, <3>1, Undisturbed
  <2>5. ASSUME NEW r \in Members(next_active') PROVE Holds(r, r.pos_len)'
    <3>1. r \in Members(next_active) \/ r = req
      <4>1. next_active \in Seq(ActiveType \cup {req})
        BY SeqMonotonic DEF TypeInv, TypeOK
      <4> QED
        BY <2>1, <4>1, AddMember
    <3>2. CASE r \in Members(next_active)
      BY <2>2, <3>2, Undisturbed DEF HistoryInv, NextHistory
    <3>3. CASE r = req
      <4>1. r.pos_len # 0
        BY <1>5, <3>3
      <4>2. Holds(r, r.pos_len)
        BY <1>5, <1>7, <3>3, <4>1 DEF Holds, SamePads
      <4> QED
        BY <2>2, <4>2, Undisturbed
    <3> QED
      BY <3>1, <3>2, <3>3
  <2> QED
    BY <1>1, <1>2, <2>3, <2>4, <2>5, NoMembers
       DEF HistoryInv, PreparedHistory, ActiveHistory, NextHistory
<1> QED
  BY <1>8, <1>9

LEMMA EndDecodeHistoryInv ==
    ASSUME TypeInv, SlotInv, HistoryInv, EndDecode PROVE HistoryInv'
<1>1. /\ pc = "decoded" /\ pc' = "check" /\ prepared' = prepared
      /\ active_requests' = next_active /\ next_active' = <<>>
      /\ UNCHANGED <<slot_vars, model_vars>>
  BY DEF EndDecode
<1>2. prepared = <<>>
  BY <1>1 DEF TypeInv, Stages
<1>3. FreeClean'
  BY <1>1 DEF HistoryInv, FreeClean, Clean, Taken, slot_vars, model_vars
<1>4. ASSUME NEW req \in Members(next_active)
      PROVE  Holds(req, req.pos_len + PendingRow)'
  <2>1. Holds(req, req.pos_len) /\ SameSlot(req.slot_id)
    BY <1>1 DEF HistoryInv, NextHistory, SameSlot, slot_vars, model_vars
  <2>2. req.pos_len \in Nat /\ PendingRow' = 0
    BY <1>1, Holders DEF ActiveType, PendingRow
  <2>3. req.pos_len + PendingRow' = req.pos_len
    BY <2>2
  <2> QED
    BY <2>1, <2>3, Undisturbed
<1> QED
  BY <1>1, <1>2, <1>3, <1>4, NoMembers
     DEF HistoryInv, PreparedHistory, ActiveHistory, NextHistory

LEMMA ExitHistoryInv ==
    ASSUME TypeInv, SlotInv, HistoryInv, Exit PROVE HistoryInv'
<1>1. /\ pc = "check" /\ active_requests = <<>>
      /\ UNCHANGED <<request_vars, slot_vars, pad_lens_by_sample>>
      /\ \A s \in Slots : kv_cache'[s] = <<>>
  BY DEF Exit, IsDone
<1>2. prepared = <<>> /\ next_active = <<>>
  BY <1>1 DEF TypeInv, Stages
<1>3. FreeClean'
  <2> SUFFICES ASSUME NEW s \in Taken(free_slots) PROVE Clean(s)'
    BY <1>1 DEF FreeClean, slot_vars
  <2>1. Clean(s) /\ s \in Slots
    BY Holders DEF HistoryInv, FreeClean
  <2> QED
    BY <1>1, <2>1 DEF Clean, slot_vars
<1> QED
  BY <1>1, <1>2, <1>3, NoMembers
     DEF HistoryInv, PreparedHistory, ActiveHistory, NextHistory, request_vars

LEMMA NextHistoryInv == TypeInv /\ SlotInv /\ HistoryInv /\ [Next]_vars => HistoryInv'
<1> SUFFICES ASSUME TypeInv, SlotInv, HistoryInv, [Next]_vars PROVE HistoryInv'
  OBVIOUS
<1>1. CASE InputThread
  BY <1>1, KeepHistoryInv DEF InputThread, SubmitPrompt, PrintAccepted, MarkInputClosed
<1>2. CASE AdmitPrefillRound
  <2>1. ASSUME \/ PopAdmissionCandidates \/ SkipAdmission \/ AnswerEmptyPrompt
               \/ TokenizePrompt \/ NothingToPrefill \/ EndAdmission
        PROVE  HistoryInv'
    BY <2>1, KeepHistoryInv DEF PopAdmissionCandidates, SkipAdmission, AnswerEmptyPrompt,
       TokenizePrompt, NothingToPrefill, EndAdmission
  <2> QED
    BY <1>2, <2>1, AssignHistoryInv, PrefillHistoryInv, AdmitHistoryInv
       DEF AdmitPrefillRound
<1>3. CASE DecodeRound
  <2>1. CASE SkipDecode
    BY <2>1, KeepHistoryInv DEF SkipDecode
  <2> QED
    BY <1>3, <2>1, DecodeForwardHistoryInv, DecodeHistoryInv, EndDecodeHistoryInv
       DEF DecodeRound
<1>4. CASE Exit
  BY <1>4, ExitHistoryInv
<1>5. CASE Continue \/ ModelThrows
  BY <1>5, KeepHistoryInv DEF Continue, ModelThrows, ReadyToPrefill, ReadyToDecode
<1>6. CASE Stopped \/ UNCHANGED vars
  BY <1>6, KeepHistoryInv DEF Stopped, vars
<1> QED
  BY <1>1, <1>2, <1>3, <1>4, <1>5, <1>6 DEF Next, ServerThread

LEMMA HistoryInvariance == Spec => [](TypeInv /\ SlotInv /\ HistoryInv)
  BY SlotInvariance, InitHistoryInv, NextHistoryInv, PTL DEF Spec

LEMMA OwnHistory == HistoryInv => CacheIsOwnHistory
<1> SUFFICES ASSUME HistoryInv PROVE CacheIsOwnHistory
  OBVIOUS
<1>1. \A i \in DOMAIN free_slots : Clean(free_slots[i])
  BY DEF HistoryInv, FreeClean, Taken
<1>2. \A i \in DOMAIN prepared :
         IF pc = "prefilled" THEN Filled(prepared[i]) ELSE Waiting(prepared[i])
  BY DEF HistoryInv, PreparedHistory, Members
<1>3. \A i \in DOMAIN active_requests :
         Holds(active_requests[i], active_requests[i].pos_len + PendingRow)
  BY DEF HistoryInv, ActiveHistory, Members
<1>4. \A i \in DOMAIN next_active : Holds(next_active[i], next_active[i].pos_len)
  BY DEF HistoryInv, NextHistory, Members
<1> QED
  BY <1>1, <1>2, <1>3, <1>4
     DEF CacheIsOwnHistory, Clean, Filled, Waiting, Holds, PendingRow

(* The model holds for each request exactly the rows of its own tokens behind
   the pads its mask hides, whatever was prefilled, decoded or finished in the
   other slots and whoever had the slot before. *)
THEOREM CachesAreOwnHistories == Spec => []CacheIsOwnHistory
  BY HistoryInvariance, OwnHistory, PTL

-----------------------------------------------------------------------------
(***************************************************************************)
(* The server and its input thread implement RequestService, for every     *)
(* value of the constants of ContinuousBatchServer.                        *)
(***************************************************************************)

(* The variables of RequestService, as the refinement mapping gives them.    *)
StartedNow == next_request_id - Len(pending_prompts)
AnsweredNow == {id \in 0 .. next_request_id - 1 : AnswersTo(id) # {}}
StatusNow == CASE pc = "exited" -> "down"
               [] pc = "terminated" -> "broken"
               [] OTHER -> "up"
InServiceNow == (0 .. StartedNow - 1) \ AnsweredNow

(* The queue holds the requests that were submitted last, in their order. *)
FifoInv ==
    \A i \in DOMAIN pending_prompts :
        pending_prompts[i].request_id = StartedNow + i - 1

RefineInv == TypeInv /\ SlotInv /\ RequestInv /\ DrainInv /\ FifoInv

LEMMA InitFifoInv == Init => FifoInv
<1> SUFFICES ASSUME Init PROVE FifoInv
  OBVIOUS
<1>1. PICK k \in 0 .. InitialPrompts : \E lens \in [1 .. k -> SeqLens] :
          /\ pending_prompts =
                [i \in 1 .. k |-> [request_id |-> i - 1, seq_len |-> lens[i]]]
          /\ next_request_id = k
  BY DEF Init
<1>2. /\ k \in Nat /\ next_request_id = k
      /\ pending_prompts \in Seq(PromptType)
      /\ DOMAIN pending_prompts = 1 .. k
      /\ \A i \in 1 .. k : pending_prompts[i].request_id = i - 1
  BY <1>1, ServerAssumption DEF PromptType
<1>3. Len(pending_prompts) = k
  BY <1>2, LenProperties
<1> QED
  BY <1>2, <1>3 DEF FifoInv, StartedNow

(* A submitted prompt is the last, the popped ones are the first. *)
LEMMA NextFifoInv == TypeInv /\ FifoInv /\ [Next]_vars => FifoInv'
<1> SUFFICES ASSUME TypeInv, FifoInv, [Next]_vars PROVE FifoInv'
  OBVIOUS
<1> DEFINE len == Len(pending_prompts)
<1>1. /\ pending_prompts \in Seq(PromptType) /\ len \in Nat
      /\ DOMAIN pending_prompts = 1 .. len /\ next_request_id \in Nat
  BY LenProperties DEF TypeInv, TypeOK
<1>2. ASSUME NEW n \in SeqLens, SubmitPrompt(n) PROVE FifoInv'
  <2> DEFINE prompt == [request_id |-> next_request_id, seq_len |-> n]
  <2>1. /\ pending_prompts' = Append(pending_prompts, prompt) /\ prompt \in PromptType
        /\ next_request_id' = next_request_id + 1
        /\ prompt.request_id = next_request_id
    BY <1>1, <1>2 DEF SubmitPrompt, PromptType
  <2> HIDE DEF prompt
  <2>2. /\ Len(pending_prompts') = len + 1
        /\ DOMAIN pending_prompts' = 1 .. len + 1
        /\ \A i \in 1 .. len : pending_prompts'[i] = pending_prompts[i]
        /\ pending_prompts'[len + 1] = prompt
    BY <1>1, <2>1, AddLast
  <2>3. StartedNow' = StartedNow
    BY <1>1, <2>1, <2>2 DEF StartedNow
  <2>4. ASSUME NEW i \in 1 .. len + 1
        PROVE  pending_prompts'[i].request_id = StartedNow + i - 1
    <3>1. CASE i \in 1 .. len
      BY <1>1, <2>2, <3>1 DEF FifoInv
    <3>2. CASE i = len + 1
      BY <1>1, <2>1, <2>2, <3>2 DEF StartedNow
    <3> QED
      BY <1>1, <3>1, <3>2
  <2> QED
    BY <2>2, <2>3, <2>4 DEF FifoInv
<1>3. CASE PopAdmissionCandidates
  <2>1. AdmissionCount \in 0 .. len
    <3>1. free_slots \in Seq(Slots) /\ Len(free_slots) \in Nat
      BY LenProperties DEF TypeInv, TypeOK
    <3> QED
      BY <1>1, <3>1, ServerAssumption DEF AdmissionCount, Smaller
  <2>2. PICK n \in 0 .. len :
          /\ pending_prompts' = SubSeq(pending_prompts, n + 1, len)
          /\ next_request_id' = next_request_id
    BY <1>3, <2>1 DEF PopAdmissionCandidates, input_vars
  <2>3. /\ pending_prompts' \in Seq(PromptType)
        /\ Len(pending_prompts') = len - n
        /\ \A i \in 1 .. len - n : pending_prompts'[i] = pending_prompts[n + i]
    BY <1>1, <2>2, FirstN
  <2>4. DOMAIN pending_prompts' = 1 .. len - n
    BY <2>3, LenProperties
  <2>5. StartedNow' = StartedNow + n
    <3>1. StartedNow' = next_request_id - (len - n)
      BY <2>2, <2>3 DEF StartedNow
    <3>2. n \in Int /\ len \in Int /\ next_request_id \in Int
      BY <1>1
    <3> QED
      BY <3>1, <3>2 DEF StartedNow
  <2>6. ASSUME NEW i \in 1 .. len - n
        PROVE  pending_prompts'[i].request_id = StartedNow + n + i - 1
    <3>1. n + i \in 1 .. len
      BY <1>1
    <3>2. pending_prompts[n + i].request_id = StartedNow + (n + i) - 1
      BY <1>1, <3>1 DEF FifoInv
    <3>3. StartedNow \in Int
      BY <1>1 DEF StartedNow
    <3> QED
      BY <1>1, <2>3, <3>2, <3>3
  <2> QED
    BY <2>4, <2>5, <2>6 DEF FifoInv
<1>4. ASSUME UNCHANGED <<pending_prompts, next_request_id>> PROVE FifoInv'
  BY <1>4 DEF FifoInv, StartedNow
<1>5. CASE InputThread
  BY <1>2, <1>4, <1>5 DEF InputThread, PrintAccepted, MarkInputClosed
<1>6. CASE AdmitPrefillRound
  <2>1. ASSUME \/ SkipAdmission \/ AnswerEmptyPrompt
               \/ TokenizePrompt \/ NothingToPrefill \/ AssignSlot \/ PrefillForward
               \/ EndAdmission
        PROVE  FifoInv'
    BY <1>4, <2>1 DEF SkipAdmission, AnswerEmptyPrompt, TokenizePrompt,
       NothingToPrefill, AssignSlot, PrefillForward, EndAdmission, queue_vars, input_vars
  <2>2. ASSUME NEW token \in Tokens, AdmitRequest(token) PROVE FifoInv'
    BY <1>4, <2>2 DEF AdmitRequest, queue_vars, input_vars
  <2> QED
    BY <1>3, <1>6, <2>1, <2>2 DEF AdmitPrefillRound
<1>7. CASE DecodeRound
  <2>1. ASSUME SkipDecode \/ DecodeForward \/ EndDecode PROVE FifoInv'
    BY <1>4, <2>1 DEF SkipDecode, DecodeForward, EndDecode, queue_vars, input_vars
  <2>2. ASSUME NEW token \in Tokens, DecodeRequest(token) PROVE FifoInv'
    BY <1>4, <2>2 DEF DecodeRequest, queue_vars, input_vars
  <2> QED
    BY <1>7, <2>1, <2>2 DEF DecodeRound
<1>8. CASE Continue \/ Exit \/ ModelThrows \/ Stopped \/ UNCHANGED vars
  BY <1>4, <1>8 DEF Continue, Exit, ModelThrows, Stopped, vars, queue_vars, input_vars
<1> QED
  BY <1>5, <1>6, <1>7, <1>8 DEF Next, ServerThread

LEMMA RefineInvariance == Spec => []RefineInv
<1>1. Init => DrainInv
  BY DEF Init, DrainInv
<1> QED
  BY <1>1, NextDrainInv, InitFifoInv, NextFifoInv, SlotInvariance, RequestInvariance, PTL
     DEF Spec, RefineInv

-----------------------------------------------------------------------------
(* What the mapping gives.                                                   *)

(* The requests answered are those a line answers. *)
LEMMA MappedAnswers == RequestInv => AnsweredNow = IdsAnswered(out)
<1> SUFFICES ASSUME RequestInv PROVE AnsweredNow = IdsAnswered(out)
  OBVIOUS
<1>1. "answered" \in Places
  BY DEF Places
<1>2. IdsAnswered(out) \subseteq Submitted
  BY <1>1, IdsAtPlaces DEF RequestInv, Divides
<1>3. \A id : AnswersTo(id) # {} <=> id \in IdsAnswered(out)
  <2> TAKE id
  <2>1. FoundAt(id)["answered"] # {} <=> id \in IdsAt["answered"]
    BY <1>1, FoundOnce
  <2>2. FoundAt(id)["answered"] = AnswersTo(id)
    BY DEF FoundAt, Places
  <2> QED
    BY <2>1, <2>2, IdsAtPlaces
<1> QED
  BY <1>2, <1>3 DEF AnsweredNow, Submitted

(* The requests in service are those of the five lists behind the queue. *)
LEMMA MappedInService ==
    ASSUME TypeInv, RequestInv, FifoInv
    PROVE  /\ StartedNow \in Nat
           /\ \A id : id \in InServiceNow <=>
                \E p \in Places \ {"pending", "answered"} : id \in IdsAt[p]
<1> DEFINE len == Len(pending_prompts)
<1>1. /\ len \in Nat /\ DOMAIN pending_prompts = 1 .. len /\ next_request_id \in Nat
      /\ StartedNow = next_request_id - len
  BY LenProperties DEF TypeInv, TypeOK, StartedNow
<1>2. "pending" \in Places /\ "answered" \in Places
  BY DEF Places
<1>3. \A id : id \in IdsAt["pending"] <=> \E i \in 1 .. len : id = StartedNow + i - 1
  BY <1>1, IdsAtPlaces DEF IdsOf, FifoInv
<1>4. StartedNow \in Nat
  <2>1. CASE len = 0
    BY <1>1, <2>1
  <2>2. CASE len # 0
    <3>1. 1 \in 1 .. len /\ StartedNow + 1 - 1 = StartedNow
      BY <1>1, <2>2
    <3>2. StartedNow \in IdsAt["pending"]
      BY <1>3, <3>1
    <3> QED
      BY <1>2, <3>2 DEF RequestInv, Divides, Submitted
  <2> QED
    BY <2>1, <2>2
<1>5. \A id : id \in IdsAt["pending"] <=> id \in StartedNow .. next_request_id - 1
  <2> TAKE id
  <2>1. ASSUME id \in StartedNow .. next_request_id - 1 PROVE id \in IdsAt["pending"]
    <3>1. id - StartedNow + 1 \in 1 .. len /\ id = StartedNow + (id - StartedNow + 1) - 1
      BY <1>1, <1>4, <2>1
    <3> QED
      BY <1>3, <3>1
  <2>2. ASSUME id \in IdsAt["pending"] PROVE id \in StartedNow .. next_request_id - 1
    BY <1>1, <1>3, <1>4, <2>2
  <2> QED
    BY <2>1, <2>2
<1>6. \A id : id \in AnsweredNow <=> id \in IdsAt["answered"]
  BY MappedAnswers, IdsAtPlaces
<1>7. ASSUME NEW id \in InServiceNow
      PROVE  \E p \in Places \ {"pending", "answered"} : id \in IdsAt[p]
  <2>1. /\ id \in Submitted /\ id \notin StartedNow .. next_request_id - 1
        /\ id \notin AnsweredNow
    BY <1>1, <1>4 DEF InServiceNow, Submitted
  <2>2. PICK p \in Places : id \in IdsAt[p]
    BY <2>1 DEF RequestInv, Divides
  <2> QED
    BY <1>5, <1>6, <2>1, <2>2
<1>8. ASSUME NEW p \in Places \ {"pending", "answered"}, NEW id \in IdsAt[p]
      PROVE  id \in InServiceNow
  <2>1. id \notin IdsAt["pending"] /\ id \notin IdsAt["answered"]
    BY <1>2, Elsewhere
  <2>2. id \in Submitted
    BY DEF RequestInv, Divides
  <2> QED
    BY <1>1, <1>4, <1>5, <1>6, <2>1, <2>2 DEF InServiceNow, Submitted
<1> QED
  BY <1>4, <1>7, <1>8

-----------------------------------------------------------------------------
(* Every step is one of the service, or changes nothing it shows.            *)

(* Two actions of the service, in the terms of the mapping. *)
LEMMA MappedAccept ==
    ASSUME StatusNow = "up", ~input_closed, next_request_id' = next_request_id + 1,
           UNCHANGED <<StartedNow, AnsweredNow, input_closed, StatusNow>>
    PROVE  Service!Accept
  BY Zenon DEF Service!Accept, StartedNow, AnsweredNow, StatusNow

LEMMA MappedStart ==
    ASSUME NEW n, StatusNow = "up", n > 0, StartedNow + n <= next_request_id,
           Cardinality(InServiceNow) + n <= MaxActive, StartedNow' = StartedNow + n,
           UNCHANGED <<next_request_id, AnsweredNow, input_closed, StatusNow>>
    PROVE  Service!Start(n)
<1>1. Service!Cardinality(InServiceNow) = Cardinality(InServiceNow)
  BY DEF Service!Cardinality, Cardinality
<1> QED
  BY <1>1, Zenon DEF Service!Start, Service!InService, InServiceNow, StartedNow,
     AnsweredNow, StatusNow

(* A step that prints no answer, pops nothing and stops nothing. *)
LEMMA Unseen ==
    ASSUME RequestInv, RequestInv', IdsAnswered(out') = IdsAnswered(out),
           UNCHANGED <<pending_prompts, next_request_id, input_closed, StatusNow>>
    PROVE  UNCHANGED Service!vars
<1>1. AnsweredNow = IdsAnswered(out)
  BY MappedAnswers
<1>2. (RequestInv => AnsweredNow = IdsAnswered(out))'
  BY MappedAnswers, PTL
<1>3. AnsweredNow' = AnsweredNow
  BY <1>1, <1>2
<1>4. StartedNow' = StartedNow
  BY DEF StartedNow
<1> QED
  BY <1>3, <1>4 DEF Service!vars, AnsweredNow, StartedNow, StatusNow

(* A step that answers a request in service. *)
LEMMA Responds ==
    ASSUME TypeInv, RequestInv, RequestInv', FifoInv,
           NEW p \in Places \ {"pending", "answered"}, NEW id \in IdsAt[p],
           IdsAnswered(out') = IdsAnswered(out) \cup {id},
           UNCHANGED <<pending_prompts, next_request_id, input_closed, StatusNow>>,
           StatusNow = "up"
    PROVE  Service!Next
<1>1. AnsweredNow = IdsAnswered(out)
  BY MappedAnswers
<1>2. (RequestInv => AnsweredNow = IdsAnswered(out))'
  BY MappedAnswers, PTL
<1>3. AnsweredNow' = AnsweredNow \cup {id}
  BY <1>1, <1>2
<1>4. StartedNow' = StartedNow
  BY DEF StartedNow
<1>5. id \in InServiceNow
  BY MappedInService
<1>6. id \in Service!InService
  BY <1>5 DEF Service!InService, InServiceNow, StartedNow, AnsweredNow
<1>7. Service!Respond(id)
  BY <1>3, <1>4, <1>6 DEF Service!Respond, AnsweredNow, StartedNow, StatusNow
<1> QED
  BY <1>6, <1>7 DEF Service!Next

LEMMA UpUnlessStopped == StatusNow = "up" <=> pc \notin {"exited", "terminated"}
  BY DEF StatusNow

(* While run goes round, the main thread is neither gone nor done. *)
LEMMA InputSteps ==
    ASSUME RefineInv, RefineInv', InputThread
    PROVE  [Service!Next]_Service!vars
<1>1. RequestInv /\ RequestInv'
  BY DEF RefineInv
<1>2. ASSUME NEW n \in SeqLens, SubmitPrompt(n) PROVE Service!Next
  <2>1. /\ ~input_closed /\ input_closed' = input_closed
        /\ pc' = pc /\ pc \notin {"exited", "terminated"}
    BY <1>2 DEF SubmitPrompt, InputThreadAt, RefineInv, DrainInv
  <2>2. StatusNow = "up" /\ StatusNow' = StatusNow
    BY <2>1 DEF StatusNow
  <2>3. next_request_id' = next_request_id + 1 /\ StartedNow' = StartedNow
    <3> DEFINE prompt == [request_id |-> next_request_id, seq_len |-> n]
    <3>1. /\ pending_prompts \in Seq(PromptType \cup {prompt})
          /\ prompt \in PromptType \cup {prompt}
          /\ pending_prompts' = Append(pending_prompts, prompt)
          /\ next_request_id' = next_request_id + 1 /\ next_request_id \in Nat
      BY <1>2, SeqMonotonic DEF SubmitPrompt, RefineInv, TypeInv, TypeOK
    <3> HIDE DEF prompt
    <3>2. Len(pending_prompts') = Len(pending_prompts) + 1 /\ Len(pending_prompts) \in Nat
      BY <3>1, AddLast
    <3> QED
      BY <3>1, <3>2 DEF StartedNow
  <2>4. AnsweredNow' = AnsweredNow
    <3>1. out' = out
      BY <1>2 DEF SubmitPrompt
    <3>2. AnsweredNow = IdsAnswered(out)
      BY <1>1, MappedAnswers
    <3>3. (RequestInv => AnsweredNow = IdsAnswered(out))'
      BY MappedAnswers, PTL
    <3> QED
      BY <1>1, <3>1, <3>2, <3>3
  <2>5. Service!Accept
    BY <2>1, <2>2, <2>3, <2>4, MappedAccept
  <2> QED
    BY <2>5 DEF Service!Next
<1>3. CASE PrintAccepted
  <2>1. IdsAnswered(out') = IdsAnswered(out)
    <3> DEFINE line == Accepted(next_request_id - 1)
    <3>1. /\ out \in Seq(LineType \cup {line}) /\ line \in LineType \cup {line}
          /\ out' = Append(out, line) /\ ~IsAnswer(line)
      BY <1>3, SeqMonotonic
         DEF PrintAccepted, RefineInv, TypeInv, TypeOK, Accepted, IsAnswer
    <3> HIDE DEF line
    <3> QED
      BY <3>1, PrintLine
  <2>2. UNCHANGED <<pending_prompts, next_request_id, input_closed, StatusNow>>
    BY <1>3 DEF PrintAccepted, StatusNow
  <2> QED
    BY <1>1, <2>1, <2>2, Unseen
<1>4. CASE MarkInputClosed
  <2>1. ~input_closed /\ input_closed' /\ pc' = pc /\ pc \notin {"exited", "terminated"}
    BY <1>4 DEF MarkInputClosed, InputThreadAt, RefineInv, DrainInv
  <2>2. StatusNow = "up" /\ StatusNow' = StatusNow
    BY <2>1 DEF StatusNow
  <2>3. /\ StartedNow' = StartedNow /\ AnsweredNow' = AnsweredNow
        /\ next_request_id' = next_request_id /\ input_closed' = TRUE
    BY <1>4 DEF MarkInputClosed, StartedNow, AnsweredNow, AnswersTo
  <2>4. Service!Close
    BY <2>1, <2>2, <2>3 DEF Service!Close, AnsweredNow, StartedNow, StatusNow
  <2> QED
    BY <2>4 DEF Service!Next
<1> QED
  BY <1>2, <1>3, <1>4 DEF InputThread

(* The slots of a list, and its requests, are as many as the list is long. *)
LEMMA BatchSize ==
    ASSUME NEW S, NEW batch \in Seq(S)
    PROVE  /\ HeldOnce(batch) => /\ IsFiniteSet(HeldBy(batch))
                                 /\ Cardinality(HeldBy(batch)) = Len(batch)
           /\ IdsOnce(batch) => /\ IsFiniteSet(IdsOf(batch))
                                /\ Cardinality(IdsOf(batch)) = Len(batch)
<1> DEFINE slots == [i \in DOMAIN batch |-> batch[i].slot_id]
           ids == [i \in DOMAIN batch |-> batch[i].request_id]
<1>1. Len(batch) \in Nat /\ DOMAIN batch = 1 .. Len(batch)
  BY LenProperties
<1>2. /\ slots \in Seq(HeldBy(batch)) /\ Len(slots) = Len(batch)
      /\ Taken(slots) = HeldBy(batch) /\ (HeldOnce(batch) => TakenOnce(slots))
  BY <1>1 DEF HeldBy, Taken, HeldOnce, TakenOnce
<1>3. /\ ids \in Seq(IdsOf(batch)) /\ Len(ids) = Len(batch)
      /\ Taken(ids) = IdsOf(batch) /\ (IdsOnce(batch) => TakenOnce(ids))
  BY <1>1 DEF IdsOf, Taken, IdsOnce, TakenOnce
<1> HIDE DEF slots, ids
<1> QED
  BY <1>2, <1>3, StackSize

(* A batch that is popped finds a free slot for each of its requests. *)
LEMMA PopStarts ==
    ASSUME RefineInv, RefineInv', PopAdmissionCandidates
    PROVE  Service!Next
<1> DEFINE n == AdmissionCount
<1>1. RequestInv /\ RequestInv'
  BY DEF RefineInv
<1>2. /\ pending_prompts \in Seq(PromptType) /\ free_slots \in Seq(Slots)
      /\ active_requests \in Seq(ActiveType)
      /\ Len(pending_prompts) \in Nat /\ Len(free_slots) \in Nat
      /\ Len(active_requests) \in Nat /\ next_request_id \in Nat
  BY LenProperties DEF RefineInv, TypeInv, TypeOK
<1>3. n \in 1 .. Len(pending_prompts) /\ n <= Len(free_slots)
  BY <1>2, ServerAssumption DEF PopAdmissionCandidates, AdmissionCount, Smaller
<1>4. /\ candidates = <<>> /\ tokenized = <<>> /\ prepared = <<>> /\ next_active = <<>>
      /\ pc = "admit" /\ pc' = "prepare"
  BY DEF PopAdmissionCandidates, RefineInv, TypeInv, Stages
<1>5. InServiceNow = IdsOf(active_requests)
  <2>1. \A p \in Places \ {"pending", "answered", "active"} : IdsAt[p] = {}
    BY <1>4, NoIds, IdsAtPlaces DEF Places
  <2>2. "active" \in Places \ {"pending", "answered"}
    BY DEF Places
  <2>3. \A id : id \in InServiceNow <=> id \in IdsAt["active"]
    BY <2>1, <2>2, MappedInService DEF RefineInv
  <2> QED
    BY <2>3, IdsAtPlaces
<1>6. Len(free_slots) + Len(active_requests) = MaxActive
  <2>1. /\ Slots = Taken(free_slots) \cup HeldBy(active_requests)
        /\ Taken(free_slots) \cap HeldBy(active_requests) = {}
    BY <1>4, NothingHeld DEF RefineInv, SlotInv, Split
  <2>2. /\ IsFiniteSet(Taken(free_slots)) /\ Cardinality(Taken(free_slots)) = Len(free_slots)
        /\ IsFiniteSet(HeldBy(active_requests))
        /\ Cardinality(HeldBy(active_requests)) = Len(active_requests)
    BY <1>2, StackSize, BatchSize DEF RefineInv, SlotInv
  <2>3. Cardinality(Slots) = Len(free_slots) + Len(active_requests) - Cardinality({})
    BY <2>1, <2>2, FS_Union
  <2>4. Cardinality(Slots) = MaxActive
    BY ServerAssumption, FS_Interval DEF Slots
  <2> QED
    BY <1>2, <2>3, <2>4, FS_EmptySet
<1>7. Cardinality(InServiceNow) + n <= MaxActive /\ n \in 1 .. MaxActive
  <2>1. Cardinality(InServiceNow) = Len(active_requests)
    BY <1>1, <1>2, <1>5, BatchSize DEF RequestInv, EachOnce
  <2> QED
    BY <1>2, <1>3, <1>6, <2>1
<1>8. /\ StartedNow' = StartedNow + n /\ StartedNow + n <= next_request_id
      /\ next_request_id' = next_request_id /\ input_closed' = input_closed
      /\ out' = out
  <2>1. /\ pending_prompts' = SubSeq(pending_prompts, n + 1, Len(pending_prompts))
        /\ next_request_id' = next_request_id /\ input_closed' = input_closed
        /\ out' = out
    BY DEF PopAdmissionCandidates, input_vars
  <2>2. Len(pending_prompts') = Len(pending_prompts) - n
    BY <1>2, <1>3, <2>1, FirstN
  <2>3. StartedNow' = next_request_id - (Len(pending_prompts) - n)
    BY <2>1, <2>2 DEF StartedNow
  <2> HIDE DEF n
  <2>4. n \in Int /\ Len(pending_prompts) \in Int /\ next_request_id \in Int
    BY <1>2, <1>3
  <2>5. StartedNow' = StartedNow + n
    BY <2>3, <2>4 DEF StartedNow
  <2>6. StartedNow + n <= next_request_id
    BY <1>3, <2>4 DEF StartedNow
  <2> QED
    BY <2>1, <2>5, <2>6
<1>9. AnsweredNow' = AnsweredNow
  BY <1>8 DEF AnsweredNow, AnswersTo
<1>10. StatusNow = "up" /\ StatusNow' = "up"
  BY <1>4 DEF StatusNow
<1> HIDE DEF n
<1>11. Service!Start(n)
  BY <1>3, <1>7, <1>8, <1>9, <1>10, MappedStart
<1> QED
  BY <1>7, <1>11 DEF Service!Next

(* Steps of the server that print nothing and take nothing from the queue. *)
LEMMA QuietSteps ==
    ASSUME RefineInv, RefineInv',
           \/ SkipAdmission \/ TokenizePrompt \/ NothingToPrefill \/ AssignSlot
           \/ PrefillForward \/ EndAdmission \/ SkipDecode \/ DecodeForward \/ EndDecode
           \/ Continue \/ Stopped \/ UNCHANGED vars
    PROVE  UNCHANGED Service!vars
<1>1. /\ out' = out
      /\ UNCHANGED <<pending_prompts, next_request_id, input_closed>>
  BY DEF SkipAdmission, TokenizePrompt, NothingToPrefill, AssignSlot, PrefillForward,
     EndAdmission, SkipDecode, DecodeForward, EndDecode, Continue, Stopped, vars,
     queue_vars, input_vars
<1>2. pc' = pc \/ {pc, pc'} \cap {"exited", "terminated"} = {}
  BY DEF SkipAdmission, TokenizePrompt, NothingToPrefill, AssignSlot, PrefillForward,
     EndAdmission, SkipDecode, DecodeForward, EndDecode, Continue, Stopped, vars,
     ReadyToPrefill, ReadyToDecode
<1>3. StatusNow' = StatusNow
  BY <1>2 DEF StatusNow
<1> QED
  BY <1>1, <1>3, Unseen DEF RefineInv

LEMMA EmptyStep ==
    ASSUME RefineInv, RefineInv', AnswerEmptyPrompt PROVE Service!Next
<1> DEFINE id == Head(candidates).request_id
           line == Answer(id, 0, 0, "empty")
<1>1. candidates \in Seq(PromptType) /\ candidates # <<>> /\ IdsOnce(candidates)
  BY DEF AnswerEmptyPrompt, RefineInv, TypeInv, TypeOK, RequestInv, EachOnce
<1>2. id \in IdsAt["candidate"]
  BY <1>1, DropRequest, IdsAtPlaces
<1>3. /\ out \in Seq(LineType \cup {line}) /\ line \in LineType \cup {line}
      /\ out' = Append(out, line) /\ IsAnswer(line) /\ line.request_id = id
  BY SeqMonotonic DEF AnswerEmptyPrompt, RefineInv, TypeInv, TypeOK, Answer, IsAnswer
<1> HIDE DEF id, line
<1>4. IdsAnswered(out') = IdsAnswered(out) \cup {id}
  BY <1>3, PrintLine
<1>5. /\ UNCHANGED <<pending_prompts, next_request_id, input_closed, StatusNow>>
      /\ StatusNow = "up"
  BY DEF AnswerEmptyPrompt, StatusNow, queue_vars, input_vars
<1>6. "candidate" \in Places \ {"pending", "answered"}
  BY DEF Places
<1> QED
  BY <1>2, <1>4, <1>5, <1>6, Responds DEF RefineInv

(* A sampled token ends a request or does not. *)
LEMMA SampleSteps ==
    ASSUME RefineInv, RefineInv', NEW token \in Tokens,
           AdmitRequest(token) \/ DecodeRequest(token)
    PROVE  [Service!Next]_Service!vars
<1>1. RequestInv /\ RequestInv' /\ TypeInv
  BY DEF RefineInv
<1>2. /\ UNCHANGED <<pending_prompts, next_request_id, input_closed, StatusNow>>
      /\ StatusNow = "up"
  BY DEF AdmitRequest, DecodeRequest, StatusNow, queue_vars, input_vars
<1>3. /\ "prepared" \in Places \ {"pending", "answered"}
      /\ "active" \in Places \ {"pending", "answered"}
      /\ "answered" \in Places
  BY DEF Places
<1>4. CASE AdmitRequest(token)
  <2> DEFINE req == Admitted(Head(prepared), token)
             id == Head(prepared).request_id
  <2>1. prepared \in Seq(PreparedType) /\ prepared # <<>> /\ IdsOnce(prepared)
    BY <1>1, <1>4 DEF AdmitRequest, TypeInv, TypeOK, RequestInv, EachOnce
  <2>2. id \in IdsAt["prepared"] /\ req.request_id = id
    BY <2>1, DropRequest, IdsAtPlaces DEF Admitted
  <2>3. id \notin IdsAnswered(out)
    BY <1>1, <1>3, <2>2, Elsewhere, IdsAtPlaces
  <2>4. CASE Finished(req)
    <3>1. FinishRequest(req)
      BY <1>4, <2>4 DEF AdmitRequest
    <3> HIDE DEF req, id
    <3>2. IdsAnswered(out') = IdsAnswered(out) \cup {id}
      BY <1>1, <2>2, <2>3, <3>1, FinishAnswers
    <3> QED
      BY <1>1, <1>2, <1>3, <2>2, <3>2, Responds DEF RefineInv
  <2>5. CASE ~Finished(req)
    <3>1. out' = out
      BY <1>4, <2>5 DEF AdmitRequest
    <3> QED
      BY <1>1, <1>2, <3>1, Unseen
  <2> QED
    BY <2>4, <2>5
<1>5. CASE DecodeRequest(token)
  <2> DEFINE req == Advanced(Head(active_requests), token)
             id == Head(active_requests).request_id
  <2>1. /\ active_requests \in Seq(ActiveType) /\ active_requests # <<>>
        /\ IdsOnce(active_requests)
    BY <1>1, <1>5 DEF DecodeRequest, TypeInv, TypeOK, RequestInv, EachOnce
  <2>2. id \in IdsAt["active"] /\ req.request_id = id
    <3>1. Head(active_requests) \in ActiveType
      BY <2>1, DropFirst
    <3> QED
      BY <2>1, <3>1, DropRequest, IdsAtPlaces DEF Advanced, ActiveType
  <2>3. id \notin IdsAnswered(out)
    BY <1>1, <1>3, <2>2, Elsewhere, IdsAtPlaces
  <2>4. CASE Finished(req)
    <3>1. FinishRequest(req)
      BY <1>5, <2>4 DEF DecodeRequest
    <3> HIDE DEF req, id
    <3>2. IdsAnswered(out') = IdsAnswered(out) \cup {id}
      BY <1>1, <2>2, <2>3, <3>1, FinishAnswers
    <3> QED
      BY <1>1, <1>2, <1>3, <2>2, <3>2, Responds DEF RefineInv
  <2>5. CASE ~Finished(req)
    <3>1. out' = out
      BY <1>5, <2>5 DEF DecodeRequest
    <3> QED
      BY <1>1, <1>2, <3>1, Unseen
  <2> QED
    BY <2>4, <2>5
<1> QED
  BY <1>4, <1>5

(* run returns when nobody is in service. *)
LEMMA ExitStops ==
    ASSUME RefineInv, Exit PROVE Service!Next
<1>1. /\ pc = "check" /\ input_closed
      /\ pending_prompts = <<>> /\ active_requests = <<>>
      /\ candidates = <<>> /\ tokenized = <<>> /\ prepared = <<>> /\ next_active = <<>>
  BY DEF Exit, IsDone, RefineInv, TypeInv, Stages
<1>2. StatusNow = "up" /\ StatusNow' = "down"
  BY <1>1 DEF Exit, StatusNow
<1>3. StartedNow = next_request_id
  BY <1>1 DEF StartedNow, RefineInv, TypeInv, TypeOK
<1>4. InServiceNow = {}
  <2>1. \A p \in Places \ {"answered"} : IdsAt[p] = {}
    BY <1>1, NoIds, IdsAtPlaces DEF Places
  <2>2. \A id : id \notin InServiceNow
    BY <2>1, MappedInService DEF RefineInv
  <2> QED
    BY <2>2
<1>5. UNCHANGED <<next_request_id, StartedNow, AnsweredNow, input_closed>>
  BY DEF Exit, StartedNow, AnsweredNow, AnswersTo, queue_vars, input_vars
<1>6. Service!Stop
  BY <1>1, <1>2, <1>3, <1>4, <1>5, Zenon
     DEF Service!Stop, Service!InService, InServiceNow, StartedNow, AnsweredNow, StatusNow
<1> QED
  BY <1>6 DEF Service!Next

(* An exception of the model is a breakdown. *)
LEMMA ThrowBreaks ==
    ASSUME ModelThrows PROVE Service!Next
<1>1. StatusNow = "up" /\ StatusNow' = "broken"
  BY DEF ModelThrows, ReadyToPrefill, ReadyToDecode, StatusNow
<1>2. UNCHANGED <<next_request_id, StartedNow, AnsweredNow, input_closed>>
  BY DEF ModelThrows, StartedNow, AnsweredNow, AnswersTo, queue_vars, input_vars
<1>3. Service!BreakDown
  BY <1>1, <1>2, Zenon DEF Service!BreakDown, StartedNow, AnsweredNow, StatusNow
<1> QED
  BY <1>3 DEF Service!Next

LEMMA InitRefines == Init => Service!Init
<1> SUFFICES ASSUME Init PROVE Service!Init
  OBVIOUS
<1>1. PICK k \in 0 .. InitialPrompts : \E lens \in [1 .. k -> SeqLens] :
          /\ pending_prompts =
                [i \in 1 .. k |-> [request_id |-> i - 1, seq_len |-> lens[i]]]
          /\ next_request_id = k
  BY DEF Init
<1>2. pending_prompts \in Seq(PromptType) /\ DOMAIN pending_prompts = 1 .. k /\ k \in Nat
  BY <1>1, ServerAssumption DEF PromptType
<1>3. StartedNow = 0 /\ next_request_id \in 0 .. InitialPrompts
  BY <1>1, <1>2, LenProperties DEF StartedNow
<1>4. AnsweredNow = {}
  BY DEF Init, AnsweredNow, AnswersTo
<1>5. StatusNow = "up" /\ input_closed = FALSE
  BY DEF Init, StatusNow
<1> QED
  BY <1>3, <1>4, <1>5, Zenon DEF Service!Init, StartedNow, AnsweredNow, StatusNow

LEMMA NextRefines ==
    RefineInv /\ RefineInv' /\ [Next]_vars => [Service!Next]_Service!vars
<1> SUFFICES ASSUME RefineInv, RefineInv', [Next]_vars
             PROVE  [Service!Next]_Service!vars
  OBVIOUS
<1>1. CASE AdmitPrefillRound
  BY <1>1, PopStarts, QuietSteps, EmptyStep, SampleSteps DEF AdmitPrefillRound
<1>2. CASE DecodeRound
  BY <1>2, QuietSteps, SampleSteps DEF DecodeRound
<1>3. CASE InputThread
  BY <1>3, InputSteps
<1>4. CASE Exit \/ ModelThrows
  BY <1>4, ExitStops, ThrowBreaks
<1>5. CASE Continue \/ Stopped \/ UNCHANGED vars
  BY <1>5, QuietSteps
<1> QED
  BY <1>1, <1>2, <1>3, <1>4, <1>5 DEF Next, ServerThread

(* The server and its input thread are the service RequestService promises:
   requests are served first come first, at most MaxActive at a time, each is
   answered once, and the service stops only when all are answered. *)
THEOREM ServerImplementsService == Spec => ImplementsService
  BY InitRefines, NextRefines, RefineInvariance, PTL DEF Spec, ImplementsService, Service!Spec

-----------------------------------------------------------------------------
(***************************************************************************)
(* The server calls the model in the order SlotProtocol prescribes, for    *)
(* every value of the constants of ContinuousBatchServer.                  *)
(***************************************************************************)

(* The variables of SlotProtocol, as the refinement mapping gives them.      *)
TurnNow == CASE pc \in {"admit", "prepare", "check"} -> "admit"
             [] pc \in {"exited", "terminated"} -> "stopped"
             [] OTHER -> pc
FreeNow == IF pc = "prefilled" THEN free_slots ELSE free_slots \o UnpoppedSlots
PreparedNow == IF pc = "prefilled" THEN SlotIds(prepared) ELSE <<>>
ActiveNow == SlotIds(active_requests)
SurvivorsNow == SlotIds(next_active)
UsedNow == {s \in Slots : kv_cache[s] # <<>>}

(* A batch never outgrows options.prefill_batch_size. *)
BatchInv ==
    pc = "prepare" =>
        Len(candidates) + Len(tokenized) + Len(prepared) <= PrefillBatch

FollowInv == TypeInv /\ SlotInv /\ HistoryInv /\ BatchInv

LEMMA NextBatchInv == TypeInv /\ BatchInv /\ [Next]_vars => BatchInv'
<1> SUFFICES ASSUME TypeInv, BatchInv, [Next]_vars PROVE BatchInv'
  OBVIOUS
<1>1. /\ Len(candidates) \in Nat /\ Len(tokenized) \in Nat /\ Len(prepared) \in Nat
      /\ pending_prompts \in Seq(PromptType)
      /\ Len(pending_prompts) \in Nat /\ Len(free_slots) \in Nat
  BY LenProperties DEF TypeInv, TypeOK
<1>2. ASSUME UNCHANGED <<pc, candidates, tokenized, prepared>> \/ pc' # "prepare"
      PROVE  BatchInv'
  BY <1>2 DEF BatchInv
<1>3. CASE PopAdmissionCandidates
  <2>1. tokenized = <<>> /\ prepared = <<>> /\ tokenized' = <<>> /\ prepared' = <<>>
    BY <1>3 DEF PopAdmissionCandidates, TypeInv, Stages, request_vars
  <2>2. AdmissionCount \in 0 .. Len(pending_prompts) /\ AdmissionCount <= PrefillBatch
    BY <1>1, ServerAssumption DEF AdmissionCount, Smaller
  <2>3. Len(candidates') = AdmissionCount
    BY <1>1, <1>3, <2>2, FirstN DEF PopAdmissionCandidates
  <2>4. Len(<<>>) = 0
    OBVIOUS
  <2> QED
    BY <2>1, <2>2, <2>3, <2>4, ServerAssumption DEF BatchInv
<1>4. CASE AnswerEmptyPrompt \/ TokenizePrompt
  <2>1. Len(candidates') = Len(candidates) - 1 /\ prepared' = prepared /\ pc = "prepare"
    BY <1>4, DropFirst DEF AnswerEmptyPrompt, TokenizePrompt, TypeInv, TypeOK, request_vars
  <2>2. Len(tokenized') \in {Len(tokenized), Len(tokenized) + 1}
    <3>1. CASE AnswerEmptyPrompt
      BY <3>1 DEF AnswerEmptyPrompt
    <3>2. CASE TokenizePrompt
      <4>1. Head(candidates) \in PromptType
        BY <3>2, DropFirst DEF TokenizePrompt, TypeInv, TypeOK
      <4> QED
        BY <3>2, <4>1, AddLast DEF TokenizePrompt, TypeInv, TypeOK
    <3> QED
      BY <1>4, <3>1, <3>2
  <2> QED
    BY <1>1, <2>1, <2>2, ServerAssumption DEF BatchInv
<1>5. CASE AssignSlot
  <2>1. PICK adm : prepared' = Append(prepared, adm)
    BY <1>5 DEF AssignSlot
  <2>2. prepared \in Seq(PreparedType \cup {adm})
    BY SeqMonotonic DEF TypeInv, TypeOK
  <2>3. Len(prepared') = Len(prepared) + 1
    BY <2>1, <2>2, AddLast
  <2>4. Len(tokenized') = Len(tokenized) - 1 /\ candidates' = candidates /\ pc = "prepare"
    BY <1>5, DropFirst DEF AssignSlot, TypeInv, TypeOK
  <2> QED
    BY <1>1, <2>3, <2>4, ServerAssumption DEF BatchInv
<1>6. CASE InputThread
  BY <1>2, <1>6 DEF InputThread, SubmitPrompt, PrintAccepted, MarkInputClosed,
     admission_vars, request_vars
<1>7. CASE AdmitPrefillRound
  <2>1. ASSUME \/ SkipAdmission \/ NothingToPrefill \/ PrefillForward \/ EndAdmission
        PROVE  pc' # "prepare"
    BY <2>1 DEF SkipAdmission, NothingToPrefill, PrefillForward, EndAdmission
  <2>2. ASSUME NEW token \in Tokens, AdmitRequest(token) PROVE pc' # "prepare"
    BY <2>2 DEF AdmitRequest
  <2> QED
    BY <1>2, <1>3, <1>4, <1>5, <1>7, <2>1, <2>2 DEF AdmitPrefillRound
<1>8. CASE DecodeRound
  <2>1. ASSUME SkipDecode \/ DecodeForward \/ EndDecode PROVE pc' # "prepare"
    BY <2>1 DEF SkipDecode, DecodeForward, EndDecode
  <2>2. ASSUME NEW token \in Tokens, DecodeRequest(token) PROVE pc' # "prepare"
    BY <2>2 DEF DecodeRequest
  <2> QED
    BY <1>2, <1>8, <2>1, <2>2 DEF DecodeRound
<1>9. CASE Continue \/ Exit \/ ModelThrows \/ Stopped \/ UNCHANGED vars
  BY <1>2, <1>9 DEF Continue, Exit, ModelThrows, Stopped, vars, admission_vars, request_vars
<1> QED
  BY <1>6, <1>7, <1>8, <1>9 DEF Next, ServerThread

LEMMA FollowInvariance == Spec => []FollowInv
<1>1. Init => BatchInv
  BY DEF Init, BatchInv
<1> QED
  BY <1>1, NextBatchInv, HistoryInvariance, PTL DEF Spec, FollowInv

-----------------------------------------------------------------------------
(* The slots of a batch.                                                     *)

LEMMA SlotList ==
    ASSUME NEW S, NEW batch \in Seq(S), \A r \in S : r.slot_id \in Slots
    PROVE  /\ SlotIds(batch) \in Seq(Slots)
           /\ Len(SlotIds(batch)) = Len(batch)
           /\ Len(batch) \in Nat
           /\ DOMAIN batch = 1 .. Len(batch)
           /\ \A i \in 1 .. Len(batch) : SlotIds(batch)[i] = batch[i].slot_id
<1>1. Len(batch) \in Nat /\ DOMAIN batch = 1 .. Len(batch)
  BY LenProperties
<1>2. \A i \in 1 .. Len(batch) : batch[i].slot_id \in Slots
  BY <1>1, ElementOfSeq
<1>3. SlotIds(batch) = [i \in 1 .. Len(batch) |-> batch[i].slot_id]
  BY <1>1 DEF SlotIds
<1>4. SlotIds(batch) \in Seq(Slots) /\ DOMAIN SlotIds(batch) = 1 .. Len(batch)
  BY <1>1, <1>2, <1>3
<1>5. Len(SlotIds(batch)) = Len(batch)
  BY <1>1, <1>4, LenProperties
<1> QED
  BY <1>1, <1>3, <1>4, <1>5

LEMMA NoSlotIds == SlotIds(<<>>) = <<>>
  BY DEF SlotIds

LEMMA SlotListTail ==
    ASSUME NEW S, NEW batch \in Seq(S), batch # <<>>, \A r \in S : r.slot_id \in Slots
    PROVE  /\ SlotIds(batch) # <<>>
           /\ Head(SlotIds(batch)) = Head(batch).slot_id
           /\ SlotIds(Tail(batch)) = Tail(SlotIds(batch))
<1> DEFINE ids == SlotIds(batch)
           left == SlotIds(Tail(batch))
<1>1. /\ Tail(batch) \in Seq(S) /\ Len(batch) \in Nat \ {0} /\ Head(batch) = batch[1]
      /\ Len(Tail(batch)) = Len(batch) - 1
      /\ \A i \in 1 .. Len(batch) - 1 : Tail(batch)[i] = batch[i + 1]
  BY DropFirst
<1>2. /\ ids \in Seq(Slots) /\ Len(ids) = Len(batch)
      /\ \A i \in 1 .. Len(batch) : ids[i] = batch[i].slot_id
  BY SlotList
<1>3. /\ left \in Seq(Slots) /\ Len(left) = Len(batch) - 1
      /\ \A i \in 1 .. Len(batch) - 1 : left[i] = Tail(batch)[i].slot_id
  BY <1>1, SlotList
<1> HIDE DEF ids, left
<1>4. ids # <<>>
  BY <1>1, <1>2
<1>5. /\ Head(ids) = ids[1] /\ Tail(ids) \in Seq(Slots) /\ Len(Tail(ids)) = Len(batch) - 1
      /\ \A i \in 1 .. Len(batch) - 1 : Tail(ids)[i] = ids[i + 1]
  BY <1>2, <1>4, DropFirst
<1>6. 1 \in 1 .. Len(batch) /\ \A i \in 1 .. Len(batch) - 1 : i + 1 \in 1 .. Len(batch)
  BY <1>1
<1>7. \A i \in 1 .. Len(batch) - 1 : left[i] = Tail(ids)[i]
  BY <1>1, <1>2, <1>3, <1>5, <1>6
<1>8. left = Tail(ids)
  BY <1>3, <1>5, <1>7, SeqEqual
<1> QED
  BY <1>1, <1>2, <1>4, <1>5, <1>6, <1>8 DEF ids, left

LEMMA SlotListAppend ==
    ASSUME NEW S, NEW batch \in Seq(S), NEW req \in S, \A r \in S : r.slot_id \in Slots
    PROVE  SlotIds(Append(batch, req)) = Append(SlotIds(batch), req.slot_id)
<1> DEFINE more == SlotIds(Append(batch, req))
           ids == SlotIds(batch)
<1>1. /\ Append(batch, req) \in Seq(S) /\ Len(batch) \in Nat
      /\ Len(Append(batch, req)) = Len(batch) + 1
      /\ \A i \in 1 .. Len(batch) : Append(batch, req)[i] = batch[i]
      /\ Append(batch, req)[Len(batch) + 1] = req
  BY AddLast
<1>2. /\ more \in Seq(Slots) /\ Len(more) = Len(batch) + 1
      /\ \A i \in 1 .. Len(batch) + 1 : more[i] = Append(batch, req)[i].slot_id
  BY <1>1, SlotList
<1>3. /\ ids \in Seq(Slots) /\ Len(ids) = Len(batch)
      /\ \A i \in 1 .. Len(batch) : ids[i] = batch[i].slot_id
  BY SlotList
<1> HIDE DEF ids, more
<1>4. /\ Append(ids, req.slot_id) \in Seq(Slots)
      /\ Len(Append(ids, req.slot_id)) = Len(batch) + 1
      /\ \A i \in 1 .. Len(batch) : Append(ids, req.slot_id)[i] = ids[i]
      /\ Append(ids, req.slot_id)[Len(batch) + 1] = req.slot_id
  BY <1>3, AddLast
<1>5. ASSUME NEW i \in 1 .. Len(batch) + 1 PROVE more[i] = Append(ids, req.slot_id)[i]
  <2>1. CASE i = Len(batch) + 1
    BY <1>1, <1>2, <1>4, <2>1
  <2>2. CASE i \in 1 .. Len(batch)
    BY <1>1, <1>2, <1>3, <1>4, <2>2
  <2>3. Len(batch) \in Nat
    BY <1>1
  <2>4. i = Len(batch) + 1 \/ i \in 1 .. Len(batch)
    BY <2>3
  <2> QED
    BY <2>1, <2>2, <2>4
<1>6. more = Append(ids, req.slot_id)
  BY <1>2, <1>4, <1>5, SeqEqual
<1> QED
  BY <1>6 DEF ids, more

(* The slots of prepared, the last one given out first. *)
LEMMA Unpopped ==
    ASSUME NEW S, prepared \in Seq(S), \A r \in S : r.slot_id \in Slots
    PROVE  /\ UnpoppedSlots \in Seq(Slots) /\ Len(UnpoppedSlots) = Len(prepared)
           /\ Len(prepared) \in Nat
           /\ \A i \in 1 .. Len(prepared) :
                 UnpoppedSlots[i] = prepared[Len(prepared) + 1 - i].slot_id
<1>1. Len(prepared) \in Nat /\ DOMAIN prepared = 1 .. Len(prepared)
  BY LenProperties
<1>2. \A i \in 1 .. Len(prepared) : prepared[Len(prepared) + 1 - i].slot_id \in Slots
  <2> SUFFICES ASSUME NEW i \in 1 .. Len(prepared)
               PROVE  prepared[Len(prepared) + 1 - i].slot_id \in Slots
    OBVIOUS
  <2>1. Len(prepared) + 1 - i \in 1 .. Len(prepared)
    BY <1>1
  <2> QED
    BY <2>1, ElementOfSeq
<1>3. UnpoppedSlots = [i \in 1 .. Len(prepared) |-> prepared[Len(prepared) + 1 - i].slot_id]
  BY <1>1 DEF UnpoppedSlots
<1>4. UnpoppedSlots \in Seq(Slots) /\ DOMAIN UnpoppedSlots = 1 .. Len(prepared)
  BY <1>1, <1>2, <1>3
<1>5. Len(UnpoppedSlots) = Len(prepared)
  BY <1>1, <1>4, LenProperties
<1> QED
  BY <1>1, <1>3, <1>4, <1>5

LEMMA NothingUnpopped ==
    ASSUME TypeInv, prepared = <<>>
    PROVE  UnpoppedSlots = <<>> /\ FreeNow = free_slots /\ PreparedNow = <<>>
<1>1. UnpoppedSlots = <<>>
  BY DEF UnpoppedSlots
<1>2. free_slots \o <<>> = free_slots
  BY ConcatEmptySeq DEF TypeInv, TypeOK
<1> QED
  BY <1>1, <1>2, NoSlotIds DEF FreeNow, PreparedNow

LEMMA RecordSlots ==
    /\ \A r \in PreparedType : r.slot_id \in Slots
    /\ \A r \in ActiveType : r.slot_id \in Slots
  BY DEF PreparedType, ActiveType

-----------------------------------------------------------------------------
(* The slots in use.                                                         *)

LEMMA SomeRows ==
    ASSUME NEW id \in Nat, NEW pad \in Nat, NEW n \in Nat \ {0}
    PROVE  Rows(id, pad, n) # <<>>
<1>1. Rows(id, pad, n) \in Seq(RowType) /\ Len(Rows(id, pad, n)) = pad + n
  BY RowsType
<1>2. pad + n # 0
  OBVIOUS
<1> QED
  BY <1>1, <1>2, EmptySeq

(* Active requests use their slots, free slots are not used. *)
LEMMA UsedSlots ==
    ASSUME TypeInv, SlotInv, HistoryInv
    PROVE  /\ HeldBy(active_requests) \subseteq UsedNow
           /\ Taken(free_slots) \cap UsedNow = {}
           /\ pc = "prefilled" => HeldBy(prepared) \subseteq UsedNow
<1>1. ASSUME NEW s \in HeldBy(active_requests) PROVE s \in UsedNow
  <2>1. PICK req \in Members(active_requests) : req.slot_id = s
    BY <1>1 DEF HeldBy, Members
  <2>2. req.request_id \in Nat /\ req.pos_len \in Nat /\ s \in Slots
    BY <2>1, Holders DEF ActiveType
  <2>3. PendingRow \in Nat /\ pad_lens_by_sample[s] \in Nat
    BY <2>2 DEF PendingRow, TypeInv, TypeOK
  <2>4. Holds(req, req.pos_len + PendingRow)
    BY <2>1 DEF HistoryInv, ActiveHistory
  <2>5. req.pos_len + PendingRow \in Nat \ {0}
    BY <2>2, <2>3, <2>4 DEF Holds
  <2> QED
    BY <2>1, <2>2, <2>3, <2>4, <2>5, SomeRows DEF Holds, UsedNow
<1>2. ASSUME NEW s \in Taken(free_slots) PROVE s \notin UsedNow
  BY <1>2 DEF HistoryInv, FreeClean, Clean, UsedNow
<1>3. ASSUME pc = "prefilled", NEW s \in HeldBy(prepared) PROVE s \in UsedNow
  <2>1. PICK req \in Members(prepared) : req.slot_id = s
    BY <1>3 DEF HeldBy, Members
  <2>2. /\ req.request_id \in Nat /\ req.seq_len \in Nat /\ req.pad_len \in Nat
        /\ s \in Slots
    BY <2>1, Holders, ServerAssumption DEF PreparedType
  <2>3. Filled(req)
    BY <1>3, <2>1 DEF HistoryInv, PreparedHistory
  <2> QED
    BY <2>1, <2>2, <2>3, SomeRows DEF Filled, UsedNow
<1> QED
  BY <1>1, <1>2, <1>3

-----------------------------------------------------------------------------
(* Every step is one of the protocol, or changes nothing it shows.           *)

LEMMA Invisible ==
    ASSUME UNCHANGED <<TurnNow, FreeNow, PreparedNow, ActiveNow, SurvivorsNow, UsedNow>>
    PROVE  UNCHANGED Protocol!protocol_vars
  BY Zenon DEF Protocol!protocol_vars, TurnNow, FreeNow, PreparedNow, ActiveNow, SurvivorsNow,
     UsedNow

(* Actions of the protocol that move no slot, in the terms of the mapping. *)
LEMMA MappedTurns ==
    ASSUME UNCHANGED <<FreeNow, PreparedNow, ActiveNow, SurvivorsNow, UsedNow>>
    PROVE  /\ TurnNow = "admit" /\ TurnNow' = "decode" => Protocol!NoPrefill
           /\ TurnNow = "prefilled" /\ PreparedNow = <<>> /\ TurnNow' = "decode"
                => Protocol!EndPrefill
           /\ TurnNow = "decode" /\ ActiveNow # <<>> /\ TurnNow' = "decoded"
                => Protocol!Decode
           /\ TurnNow = "decode" /\ ActiveNow = <<>> /\ TurnNow' = "admit"
                => Protocol!NoDecode
           /\ TurnNow # "stopped" /\ TurnNow' = "stopped" => Protocol!Stop
  BY Zenon DEF Protocol!NoPrefill, Protocol!EndPrefill, Protocol!Decode, Protocol!NoDecode,
     Protocol!Stop, TurnNow, FreeNow, PreparedNow, ActiveNow, SurvivorsNow, UsedNow

(* Steps that touch neither slots nor requests. *)
LEMMA SlotsStay ==
    ASSUME TypeInv, TypeInv', UNCHANGED <<request_vars, free_slots, kv_cache>>,
           prepared = <<>> \/ (pc = "prefilled" <=> pc' = "prefilled")
    PROVE  UNCHANGED <<FreeNow, PreparedNow, ActiveNow, SurvivorsNow, UsedNow>>
<1>1. UNCHANGED <<ActiveNow, SurvivorsNow, UsedNow, UnpoppedSlots>>
  BY DEF ActiveNow, SurvivorsNow, UsedNow, SlotIds, Slots, UnpoppedSlots, request_vars
<1>2. CASE prepared = <<>>
  <2>1. prepared' = <<>>
    BY <1>2 DEF request_vars
  <2>2. FreeNow = free_slots /\ PreparedNow = <<>>
    BY <1>2, NothingUnpopped
  <2>3. (TypeInv /\ prepared = <<>> => FreeNow = free_slots /\ PreparedNow = <<>>)'
    BY NothingUnpopped, PTL
  <2> QED
    BY <1>1, <2>1, <2>2, <2>3
<1>3. CASE pc = "prefilled" <=> pc' = "prefilled"
  BY <1>1, <1>3 DEF FreeNow, PreparedNow, SlotIds, request_vars
<1> QED
  BY <1>2, <1>3

LEMMA UnseenSteps ==
    ASSUME FollowInv, FollowInv',
           \/ InputThread \/ PopAdmissionCandidates \/ AnswerEmptyPrompt \/ TokenizePrompt
           \/ Continue \/ Stopped \/ UNCHANGED vars
    PROVE  UNCHANGED Protocol!protocol_vars
<1>1. UNCHANGED <<request_vars, free_slots, kv_cache>>
  BY DEF InputThread, SubmitPrompt, PrintAccepted, MarkInputClosed, PopAdmissionCandidates,
     AnswerEmptyPrompt, TokenizePrompt, Continue, Stopped, vars, slot_vars, model_vars
<1>2. pc' = pc \/ {pc, pc'} \subseteq {"admit", "prepare", "check"}
  BY DEF InputThread, SubmitPrompt, PrintAccepted, MarkInputClosed, PopAdmissionCandidates,
     AnswerEmptyPrompt, TokenizePrompt, Continue, Stopped, vars
<1>3. TurnNow' = TurnNow /\ (pc = "prefilled" <=> pc' = "prefilled")
  BY <1>2 DEF TurnNow
<1> QED
  BY <1>1, <1>3, SlotsStay, Invisible DEF FollowInv

LEMMA TurnSteps ==
    ASSUME FollowInv, FollowInv',
           \/ SkipAdmission \/ NothingToPrefill \/ EndAdmission \/ SkipDecode \/ ModelThrows
    PROVE  Protocol!ProtocolNext
<1>1. UNCHANGED <<request_vars, free_slots, kv_cache>>
  BY DEF SkipAdmission, NothingToPrefill, EndAdmission, SkipDecode, ModelThrows, slot_vars,
     model_vars
<1>2. prepared = <<>> \/ (pc = "prefilled" <=> pc' = "prefilled")
  BY DEF SkipAdmission, NothingToPrefill, EndAdmission, SkipDecode, ModelThrows,
     ReadyToPrefill, ReadyToDecode
<1>3. UNCHANGED <<FreeNow, PreparedNow, ActiveNow, SurvivorsNow, UsedNow>>
  BY <1>1, <1>2, SlotsStay DEF FollowInv
<1>4. CASE SkipAdmission \/ NothingToPrefill
  <2>1. TurnNow = "admit" /\ TurnNow' = "decode"
    BY <1>4 DEF SkipAdmission, NothingToPrefill, TurnNow
  <2> QED
    BY <1>3, <2>1, MappedTurns DEF Protocol!ProtocolNext
<1>5. CASE EndAdmission
  <2>1. TurnNow = "prefilled" /\ TurnNow' = "decode" /\ PreparedNow = <<>>
    BY <1>5, NothingUnpopped DEF EndAdmission, TurnNow, FollowInv
  <2> QED
    BY <1>3, <2>1, MappedTurns DEF Protocol!ProtocolNext
<1>6. CASE SkipDecode
  <2>1. TurnNow = "decode" /\ TurnNow' = "admit" /\ ActiveNow = <<>>
    BY <1>6, NoSlotIds DEF SkipDecode, TurnNow, ActiveNow
  <2> QED
    BY <1>3, <2>1, MappedTurns DEF Protocol!ProtocolNext
<1>7. CASE ModelThrows
  <2>1. TurnNow # "stopped" /\ TurnNow' = "stopped"
    BY <1>7 DEF ModelThrows, ReadyToPrefill, ReadyToDecode, TurnNow
  <2> QED
    BY <1>3, <2>1, MappedTurns DEF Protocol!ProtocolNext
<1> QED
  BY <1>4, <1>5, <1>6, <1>7

(* The slot given out is still on the protocol's stack: the request holds it
   there until the forward pass. *)
LEMMA AssignUnseen ==
    ASSUME FollowInv, FollowInv', AssignSlot PROVE UNCHANGED Protocol!protocol_vars
<1> DEFINE slot == Last(free_slots)
           n == Len(prepared)
           m == Len(free_slots)
           less == Front(free_slots)
           then == UnpoppedSlots'
<1>1. /\ pc = "prepare" /\ pc' = pc /\ active_requests' = active_requests
      /\ next_active' = next_active /\ kv_cache' = kv_cache /\ free_slots' = less
  BY DEF AssignSlot, model_vars
<1>2. PICK adm : prepared' = Append(prepared, adm) /\ adm.slot_id = slot
  BY DEF AssignSlot
<1>3. tokenized \in Seq(FittingPrompt) /\ tokenized # <<>> /\ candidates = <<>>
  BY DEF FollowInv, TypeInv, ListsSound, AssignSlot
<1>4. free_slots \in Seq(Slots) /\ free_slots # <<>>
  <2>1. Len(tokenized) \in Nat \ {0}
    BY <1>3, DropFirst
  <2> QED
    BY <1>1, <1>3, <2>1, LenProperties, EmptySeq DEF FollowInv, TypeInv, TypeOK, EnoughFreeSlots
<1>5. /\ less \in Seq(Slots) /\ m \in Nat \ {0} /\ Len(less) = m - 1
      /\ \A i \in 1 .. m - 1 : less[i] = free_slots[i]
      /\ slot = free_slots[m]
  BY <1>4, DropLast DEF Last
<1>6. /\ UnpoppedSlots \in Seq(Slots) /\ Len(UnpoppedSlots) = n /\ n \in Nat
      /\ \A i \in 1 .. n : UnpoppedSlots[i] = prepared[n + 1 - i].slot_id
  BY Unpopped, RecordSlots DEF FollowInv, TypeInv, TypeOK
<1>7. prepared' \in Seq(PreparedType)
  BY DEF FollowInv, TypeInv, TypeOK
<1>8. /\ Len(prepared') = n + 1
      /\ \A i \in 1 .. n : prepared'[i] = prepared[i]
      /\ prepared'[n + 1] = adm
  <2>1. prepared \in Seq(PreparedType \cup {adm})
    BY SeqMonotonic DEF FollowInv, TypeInv, TypeOK
  <2> QED
    BY <1>2, <2>1, AddLast
<1>9. /\ then \in Seq(Slots) /\ Len(then) = n + 1
      /\ \A i \in 1 .. n + 1 : then[i] = prepared'[n + 2 - i].slot_id
  <2>1. DOMAIN prepared' = 1 .. n + 1
    BY <1>7, <1>8, LenProperties
  <2>2. \A i \in 1 .. n + 1 : n + 2 - i \in 1 .. n + 1 /\ (n + 1) + 1 - i = n + 2 - i
    BY <1>6
  <2>3. \A i \in 1 .. n + 1 : prepared'[i].slot_id \in Slots
    BY <1>7, <1>8, ElementOfSeq, RecordSlots
  <2>4. then = [i \in 1 .. n + 1 |-> prepared'[n + 2 - i].slot_id]
    BY <1>8, <2>1, <2>2 DEF UnpoppedSlots
  <2>5. n + 1 \in Nat
    BY <1>6
  <2>6. then \in Seq(Slots) /\ DOMAIN then = 1 .. n + 1
    BY <2>2, <2>3, <2>4, <2>5
  <2> QED
    BY <2>4, <2>5, <2>6, LenProperties
<1> HIDE DEF slot, n, m, less, then
<1>10. /\ less \o then \in Seq(Slots) /\ Len(less \o then) = m + n
       /\ \A i \in 1 .. m + n :
             (less \o then)[i] = IF i <= m - 1 THEN less[i] ELSE then[i - (m - 1)]
  <2>1. /\ less \o then \in Seq(Slots) /\ Len(less \o then) = (m - 1) + (n + 1)
        /\ \A i \in 1 .. (m - 1) + (n + 1) :
              (less \o then)[i] = IF i <= m - 1 THEN less[i] ELSE then[i - (m - 1)]
    BY <1>5, <1>9, ConcatProperties
  <2>2. (m - 1) + (n + 1) = m + n
    BY <1>5, <1>6
  <2> QED
    BY <2>1, <2>2
<1>11. /\ free_slots \o UnpoppedSlots \in Seq(Slots)
       /\ Len(free_slots \o UnpoppedSlots) = m + n
       /\ \A i \in 1 .. m + n : (free_slots \o UnpoppedSlots)[i] =
             IF i <= m THEN free_slots[i] ELSE UnpoppedSlots[i - m]
  BY <1>4, <1>6, ConcatProperties DEF m
<1>12. ASSUME NEW i \in 1 .. m + n
       PROVE  (less \o then)[i] = (free_slots \o UnpoppedSlots)[i]
  <2>1. CASE i \in 1 .. m - 1
    BY <1>5, <1>10, <1>11, <2>1
  <2>2. CASE i = m
    <3>1. /\ i - (m - 1) = 1 /\ 1 \in 1 .. n + 1 /\ n + 2 - 1 = n + 1
          /\ ~(i <= m - 1) /\ i <= m
      BY <1>5, <1>6, <2>2
    <3>2. (less \o then)[i] = adm.slot_id
      BY <1>8, <1>9, <1>10, <3>1
    <3> QED
      BY <1>2, <1>5, <1>11, <2>2, <3>1, <3>2
  <2>3. CASE i \in m + 1 .. m + n
    <3>1. /\ i - (m - 1) \in 1 .. n + 1 /\ i - m \in 1 .. n
          /\ n + 2 - (i - (m - 1)) = n + 1 - (i - m) /\ n + 1 - (i - m) \in 1 .. n
          /\ ~(i <= m - 1) /\ ~(i <= m)
      BY <1>5, <1>6, <2>3
    <3>2. (less \o then)[i] = prepared'[n + 1 - (i - m)].slot_id
      BY <1>9, <1>10, <3>1
    <3>3. (free_slots \o UnpoppedSlots)[i] = prepared[n + 1 - (i - m)].slot_id
      BY <1>6, <1>11, <3>1
    <3> QED
      BY <1>8, <3>1, <3>2, <3>3
  <2>4. m \in Nat \ {0} /\ n \in Nat
    BY <1>5, <1>6
  <2>5. i \in 1 .. m - 1 \/ i = m \/ i \in m + 1 .. m + n
    BY <2>4
  <2> QED
    BY <2>1, <2>2, <2>3, <2>5
<1>13. less \o then = free_slots \o UnpoppedSlots
  BY <1>10, <1>11, <1>12, SeqEqual
<1>14. FreeNow' = FreeNow
  BY <1>1, <1>13 DEF FreeNow, then
<1>15. UNCHANGED <<TurnNow, PreparedNow, ActiveNow, SurvivorsNow, UsedNow>>
  BY <1>1 DEF TurnNow, PreparedNow, ActiveNow, SurvivorsNow, UsedNow, SlotIds, Slots
<1> QED
  BY <1>14, <1>15, Invisible

(* The forward pass pops the slots of prepared, in their order. *)
LEMMA PrefillStep ==
    ASSUME FollowInv, FollowInv', PrefillForward PROVE Protocol!ProtocolNext
<1> DEFINE m == Len(free_slots)
           ids == SlotIds(prepared)
<1>0. PICK k : k = Len(prepared)
  OBVIOUS
<1>1. /\ pc = "prepare" /\ pc' = "prefilled" /\ prepared' = prepared /\ prepared # <<>>
      /\ candidates = <<>> /\ tokenized = <<>>
      /\ active_requests' = active_requests /\ next_active' = next_active
      /\ free_slots' = free_slots
  BY DEF PrefillForward, ReadyToPrefill, request_vars, slot_vars
<1>2. /\ prepared \in Seq(PreparedType) /\ HeldOnce(prepared)
      /\ free_slots \in Seq(Slots) /\ m \in Nat
      /\ DOMAIN free_slots = 1 .. m
  BY LenProperties DEF FollowInv, TypeInv, TypeOK, SlotInv
<1>3. /\ ids \in Seq(Slots) /\ Len(ids) = k /\ k \in Nat /\ DOMAIN prepared = 1 .. k
      /\ \A i \in 1 .. k : ids[i] = prepared[i].slot_id
  BY <1>0, <1>2, SlotList, RecordSlots
<1>4. /\ UnpoppedSlots \in Seq(Slots) /\ Len(UnpoppedSlots) = k
      /\ \A i \in 1 .. k : UnpoppedSlots[i] = prepared[k + 1 - i].slot_id
  BY <1>0, <1>2, Unpopped, RecordSlots
<1>5. DOMAIN ids = 1 .. k /\ ids = [i \in 1 .. k |-> ids[i]]
  BY <1>3, LenProperties
<1>6. k \in 1 .. MaxActive
  <2>1. k # 0
    BY <1>0, <1>1, <1>2, DropFirst
  <2>2. TakenOnce(ids) /\ Taken(ids) \subseteq Slots
    BY <1>2, <1>3, <1>5, ElementOfSeq DEF TakenOnce, Taken, HeldOnce
  <2>3. Cardinality(Taken(ids)) = k
    BY <1>3, <2>2, StackSize
  <2>4. IsFiniteSet(Slots) /\ Cardinality(Slots) = MaxActive
    BY ServerAssumption, FS_Interval DEF Slots
  <2>5. Cardinality(Taken(ids)) <= Cardinality(Slots)
    BY <2>2, <2>4, FS_Subset
  <2> QED
    BY <1>3, <2>1, <2>3, <2>4, <2>5, ServerAssumption
<1>7. k <= PrefillBatch
  <2>1. Len(<<>>) + Len(<<>>) + k = k
    BY <1>3
  <2> QED
    BY <1>0, <1>1, <2>1 DEF FollowInv, BatchInv
<1> HIDE DEF m, ids
<1>8. FreeNow = free_slots \o UnpoppedSlots /\ FreeNow' = free_slots
  BY <1>1 DEF FreeNow
<1>9. /\ FreeNow \in Seq(Slots) /\ Len(FreeNow) = m + k
      /\ \A i \in 1 .. m + k :
            FreeNow[i] = IF i <= m THEN free_slots[i] ELSE UnpoppedSlots[i - m]
  BY <1>2, <1>4, <1>8, ConcatProperties DEF m
<1>10. ASSUME NEW i \in 1 .. k PROVE FreeNow[Len(FreeNow) + 1 - i] = ids[i]
  <2>1. m \in Nat /\ k \in Nat
    BY <1>2, <1>3
  <2>2. /\ m + k + 1 - i \in 1 .. m + k /\ ~(m + k + 1 - i <= m)
        /\ (m + k + 1 - i) - m = k + 1 - i /\ k + 1 - i \in 1 .. k
        /\ k + 1 - (k + 1 - i) = i
    BY <2>1
  <2>3. FreeNow[m + k + 1 - i] = UnpoppedSlots[k + 1 - i]
    BY <1>9, <2>2
  <2>4. UnpoppedSlots[k + 1 - i] = prepared[i].slot_id
    BY <1>4, <2>2
  <2> QED
    BY <1>3, <1>9, <2>3, <2>4
<1>11. [i \in 1 .. k |-> FreeNow[Len(FreeNow) + 1 - i]] = ids
  BY <1>5, <1>10
<1>12. SubSeq(FreeNow, 1, Len(FreeNow) - k) = free_slots
  <2>1. m \in Nat /\ k \in Nat /\ (m + k) - k = m /\ m \in 0 .. m + k
    BY <1>2, <1>3
  <2>2. /\ SubSeq(FreeNow, 1, m) \in Seq(Slots) /\ Len(SubSeq(FreeNow, 1, m)) = m
        /\ \A i \in 1 .. m : SubSeq(FreeNow, 1, m)[i] = FreeNow[i]
    BY <1>9, <2>1, FirstN
  <2>3. \A i \in 1 .. m : i \in 1 .. m + k /\ i <= m
    BY <2>1
  <2>4. \A i \in 1 .. m : SubSeq(FreeNow, 1, m)[i] = free_slots[i]
    BY <1>9, <2>2, <2>3
  <2>5. SubSeq(FreeNow, 1, m) = free_slots
    BY <1>2, <2>2, <2>4, SeqEqual DEF m
  <2> QED
    BY <1>9, <2>1, <2>5
<1>13. UsedNow' = UsedNow \cup Taken(ids)
  <2>1. Taken(ids) = HeldBy(prepared)
    BY <1>3, <1>5 DEF Taken, HeldBy
  <2>2. ASSUME NEW s \in Slots, s \notin HeldBy(prepared) PROVE kv_cache'[s] = kv_cache[s]
    <3>1. InSlot(prepared, s) = {}
      BY <2>2 DEF InSlot, HeldBy
    <3> QED
      BY <3>1 DEF PrefillForward
  <2>3. /\ TypeInv /\ SlotInv /\ HistoryInv
        /\ TypeInv' /\ SlotInv' /\ HistoryInv'
    BY DEF FollowInv
  <2>4. (TypeInv /\ SlotInv /\ HistoryInv /\ pc = "prefilled"
            => HeldBy(prepared) \subseteq UsedNow)'
    BY UsedSlots, PTL
  <2>5. HeldBy(prepared)' = HeldBy(prepared) /\ HeldBy(prepared) \subseteq Slots
    BY <1>1, <2>3 DEF HeldBy, SlotInv, Split
  <2>6. HeldBy(prepared) \subseteq UsedNow'
    BY <1>1, <2>3, <2>4, <2>5
  <2> QED
    BY <2>1, <2>2, <2>5, <2>6 DEF UsedNow, Slots
<1>14. UNCHANGED <<ActiveNow, SurvivorsNow>> /\ PreparedNow' = ids
  BY <1>1 DEF ActiveNow, SurvivorsNow, PreparedNow, SlotIds, ids
<1>15. TurnNow = "admit" /\ TurnNow' = "prefilled"
  BY <1>1 DEF TurnNow
<1>16. k <= Len(FreeNow)
  BY <1>2, <1>3, <1>9
<1>17. Protocol!Popped(k) = ids
  BY <1>11 DEF Protocol!Popped, FreeNow
<1>18. Protocol!SlotsOf(ids) = Taken(ids)
  BY DEF Protocol!SlotsOf, Taken
<1>19. Protocol!Prefill(k)
  BY <1>7, <1>8, <1>12, <1>13, <1>14, <1>15, <1>16, <1>17, <1>18, Zenon
     DEF Protocol!Prefill, TurnNow, FreeNow, PreparedNow, ActiveNow, SurvivorsNow, UsedNow
<1> QED
  BY <1>6, <1>19 DEF Protocol!ProtocolNext

(* finish_request clears the slot it frees. *)
LEMMA Released ==
    ASSUME TypeInv, NEW req, req.slot_id \in Slots, FinishRequest(req)
    PROVE  /\ UsedNow' = UsedNow \ {req.slot_id}
           /\ free_slots' = Append(free_slots, req.slot_id)
<1>1. kv_cache' = [kv_cache EXCEPT ![req.slot_id] = <<>>] /\ DOMAIN kv_cache = Slots
  BY DEF FinishRequest, TypeInv, TypeOK
<1> QED
  BY <1>1 DEF FinishRequest, UsedNow, Slots

LEMMA AdmitStep ==
    ASSUME FollowInv, FollowInv', NEW token \in Tokens, AdmitRequest(token)
    PROVE  Protocol!ProtocolNext
<1> DEFINE adm == Head(prepared)
           req == Admitted(adm, token)
           slot == adm.slot_id
<1>1. /\ pc = "prefilled" /\ pc' = pc /\ prepared # <<>> /\ prepared' = Tail(prepared)
      /\ next_active' = next_active
      /\ prepared \in Seq(PreparedType) /\ active_requests \in Seq(ActiveType)
  BY DEF AdmitRequest, FollowInv, TypeInv, TypeOK
<1>2. /\ PreparedNow = SlotIds(prepared) /\ PreparedNow' = SlotIds(prepared')
      /\ FreeNow = free_slots /\ FreeNow' = free_slots'
      /\ TurnNow = "prefilled" /\ TurnNow' = TurnNow
      /\ SurvivorsNow' = SurvivorsNow
  BY <1>1 DEF PreparedNow, FreeNow, TurnNow, SurvivorsNow, SlotIds
<1>3. /\ PreparedNow # <<>> /\ Head(PreparedNow) = slot
      /\ PreparedNow' = Tail(PreparedNow)
  BY <1>1, <1>2, SlotListTail, RecordSlots
<1>4. adm \in PreparedType /\ slot \in Slots /\ req.slot_id = slot
  BY <1>1, DropFirst, RecordSlots DEF Admitted
<1>5. req \in ActiveType
  BY <1>1, DropFirst, AdmittedSound DEF FollowInv, TypeInv, ListsSound, SoundSampled
<1> HIDE DEF adm, req, slot
<1>6. CASE Finished(req)
  <2>1. FinishRequest(req) /\ active_requests' = active_requests
    BY <1>6 DEF AdmitRequest, req, adm
  <2>2. UsedNow' = UsedNow \ {slot} /\ FreeNow' = Append(FreeNow, slot)
    BY <1>2, <1>4, <2>1, Released DEF FollowInv
  <2>3. ActiveNow' = ActiveNow
    BY <2>1 DEF ActiveNow, SlotIds
  <2>4. Protocol!SettlePrefill(TRUE)
    BY <1>2, <1>3, <2>2, <2>3, Zenon
       DEF Protocol!SettlePrefill, Protocol!Release, TurnNow, FreeNow, PreparedNow,
           ActiveNow, SurvivorsNow, UsedNow
  <2> QED
    BY <2>4 DEF Protocol!ProtocolNext
<1>7. CASE ~Finished(req)
  <2>1. /\ active_requests' = Append(active_requests, req)
        /\ free_slots' = free_slots /\ kv_cache' = kv_cache
    BY <1>7 DEF AdmitRequest, slot_vars, model_vars, req, adm
  <2>2. ActiveNow' = Append(ActiveNow, slot)
    BY <1>1, <1>4, <1>5, <2>1, SlotListAppend, RecordSlots DEF ActiveNow
  <2>3. FreeNow' = FreeNow /\ UsedNow' = UsedNow
    BY <1>2, <2>1 DEF UsedNow, Slots
  <2>4. Protocol!SettlePrefill(FALSE)
    BY <1>2, <1>3, <2>2, <2>3, Zenon
       DEF Protocol!SettlePrefill, Protocol!Keep, TurnNow, FreeNow, PreparedNow,
           ActiveNow, SurvivorsNow, UsedNow
  <2> QED
    BY <2>4 DEF Protocol!ProtocolNext
<1> QED
  BY <1>6, <1>7

LEMMA DecodeRequestStep ==
    ASSUME FollowInv, FollowInv', NEW token \in Tokens, DecodeRequest(token)
    PROVE  Protocol!ProtocolNext
<1> DEFINE old == Head(active_requests)
           req == Advanced(old, token)
           slot == old.slot_id
<1>1. /\ pc = "decoded" /\ pc' = pc /\ active_requests # <<>>
      /\ active_requests' = Tail(active_requests) /\ prepared' = prepared
      /\ active_requests \in Seq(ActiveType) /\ next_active \in Seq(ActiveType)
  BY DEF DecodeRequest, FollowInv, TypeInv, TypeOK
<1>2. prepared = <<>> /\ TypeInv /\ TypeInv'
  BY <1>1 DEF FollowInv, TypeInv, Stages
<1>3. FreeNow = free_slots /\ PreparedNow = <<>>
  BY <1>2, NothingUnpopped
<1>4. (TypeInv /\ prepared = <<>> => FreeNow = free_slots /\ PreparedNow = <<>>)'
  BY NothingUnpopped, PTL
<1>5. /\ FreeNow' = free_slots' /\ PreparedNow' = PreparedNow
      /\ TurnNow = "decoded" /\ TurnNow' = TurnNow
  BY <1>1, <1>2, <1>3, <1>4 DEF TurnNow
<1>6. /\ ActiveNow # <<>> /\ Head(ActiveNow) = slot /\ ActiveNow' = Tail(ActiveNow)
  BY <1>1, SlotListTail, RecordSlots DEF ActiveNow
<1>7. old \in ActiveType /\ slot \in Slots /\ req.slot_id = slot
  BY <1>1, DropFirst, RecordSlots, AdvancedFields
<1>8. req \in ActiveType
  BY <1>1, DropFirst, AdvancedSound DEF FollowInv, TypeInv, ListsSound, SoundSampled
<1> HIDE DEF old, req, slot
<1>9. CASE Finished(req)
  <2>1. FinishRequest(req) /\ next_active' = next_active
    BY <1>9 DEF DecodeRequest, req, old
  <2>2. UsedNow' = UsedNow \ {slot} /\ FreeNow' = Append(FreeNow, slot)
    BY <1>2, <1>3, <1>5, <1>7, <2>1, Released
  <2>3. SurvivorsNow' = SurvivorsNow
    BY <2>1 DEF SurvivorsNow, SlotIds
  <2>4. Protocol!SettleDecode(TRUE)
    BY <1>5, <1>6, <2>2, <2>3, Zenon
       DEF Protocol!SettleDecode, Protocol!Release, TurnNow, FreeNow, PreparedNow,
           ActiveNow, SurvivorsNow, UsedNow
  <2> QED
    BY <2>4 DEF Protocol!ProtocolNext
<1>10. CASE ~Finished(req)
  <2>1. /\ next_active' = Append(next_active, req)
        /\ free_slots' = free_slots /\ kv_cache' = kv_cache
    BY <1>10 DEF DecodeRequest, slot_vars, model_vars, req, old
  <2>2. SurvivorsNow' = Append(SurvivorsNow, slot)
    BY <1>1, <1>7, <1>8, <2>1, SlotListAppend, RecordSlots DEF SurvivorsNow
  <2>3. FreeNow' = FreeNow /\ UsedNow' = UsedNow
    BY <1>3, <1>5, <2>1 DEF UsedNow, Slots
  <2>4. Protocol!SettleDecode(FALSE)
    BY <1>5, <1>6, <2>2, <2>3, Zenon
       DEF Protocol!SettleDecode, Protocol!Keep, TurnNow, FreeNow, PreparedNow,
           ActiveNow, SurvivorsNow, UsedNow
  <2> QED
    BY <2>4 DEF Protocol!ProtocolNext
<1> QED
  BY <1>9, <1>10

(* Decoding adds rows to slots in use and to no other. *)
LEMMA DecodeForwardStep ==
    ASSUME FollowInv, FollowInv', DecodeForward PROVE Protocol!ProtocolNext
<1>1. /\ pc = "decode" /\ pc' = "decoded" /\ active_requests # <<>>
      /\ UNCHANGED <<request_vars, free_slots>>
      /\ active_requests \in Seq(ActiveType)
  BY DEF DecodeForward, ReadyToDecode, slot_vars, FollowInv, TypeInv, TypeOK
<1>2. /\ TypeInv /\ SlotInv /\ HistoryInv
      /\ TypeInv' /\ SlotInv' /\ HistoryInv'
  BY DEF FollowInv
<1>3. UsedNow' = UsedNow
  <2>1. HeldBy(active_requests) \subseteq UsedNow
    BY <1>2, UsedSlots
  <2>2. (TypeInv /\ SlotInv /\ HistoryInv => HeldBy(active_requests) \subseteq UsedNow)'
    BY UsedSlots, PTL
  <2>3. HeldBy(active_requests)' = HeldBy(active_requests)
    BY <1>1 DEF HeldBy, request_vars
  <2>4. HeldBy(active_requests) \subseteq UsedNow'
    BY <1>2, <2>2, <2>3
  <2>5. ASSUME NEW s \in Slots, s \notin HeldBy(active_requests)
        PROVE  kv_cache'[s] = kv_cache[s]
    <3>1. InSlot(active_requests, s) = {}
      BY <2>5 DEF InSlot, HeldBy
    <3> QED
      BY <3>1 DEF DecodeForward
  <2> QED
    BY <2>1, <2>4, <2>5 DEF UsedNow, Slots
<1>4. UNCHANGED <<ActiveNow, SurvivorsNow, FreeNow, PreparedNow>>
  BY <1>1 DEF ActiveNow, SurvivorsNow, FreeNow, PreparedNow, UnpoppedSlots, SlotIds,
     request_vars
<1>5. TurnNow = "decode" /\ TurnNow' = "decoded"
  BY <1>1 DEF TurnNow
<1>6. ActiveNow # <<>>
  BY <1>1, SlotListTail, RecordSlots DEF ActiveNow
<1> QED
  BY <1>3, <1>4, <1>5, <1>6, MappedTurns DEF Protocol!ProtocolNext

LEMMA EndDecodeStep ==
    ASSUME FollowInv, FollowInv', EndDecode PROVE Protocol!ProtocolNext
<1>1. /\ pc = "decoded" /\ pc' = "check" /\ active_requests = <<>>
      /\ active_requests' = next_active /\ next_active' = <<>>
      /\ UNCHANGED <<prepared, free_slots, kv_cache>>
  BY DEF EndDecode, slot_vars, model_vars
<1>2. UNCHANGED <<FreeNow, PreparedNow, UsedNow>>
  BY <1>1 DEF FreeNow, PreparedNow, UsedNow, UnpoppedSlots, Slots
<1>3. /\ ActiveNow = <<>> /\ ActiveNow' = SurvivorsNow /\ SurvivorsNow' = <<>>
      /\ TurnNow = "decoded" /\ TurnNow' = "admit"
  BY <1>1, NoSlotIds DEF ActiveNow, SurvivorsNow, TurnNow, SlotIds
<1>4. Protocol!EndDecode
  BY <1>2, <1>3, Zenon DEF Protocol!EndDecode, TurnNow, FreeNow, PreparedNow, ActiveNow,
     SurvivorsNow, UsedNow
<1> QED
  BY <1>4 DEF Protocol!ProtocolNext

(* When run returns no slot is in use, so reset_continuous clears nothing
   the protocol knows of. *)
LEMMA ExitStep ==
    ASSUME FollowInv, FollowInv', Exit PROVE Protocol!ProtocolNext
<1>1. /\ pc = "check" /\ pc' = "exited" /\ active_requests = <<>>
      /\ UNCHANGED <<request_vars, free_slots>>
      /\ \A s \in Slots : kv_cache'[s] = <<>>
  BY DEF Exit, IsDone, slot_vars
<1>2. prepared = <<>> /\ next_active = <<>>
  BY <1>1 DEF FollowInv, TypeInv, Stages
<1>3. UsedNow = {}
  <2>1. Slots = Taken(free_slots)
    BY <1>1, <1>2, NothingHeld DEF FollowInv, SlotInv, Split
  <2> QED
    BY <2>1, UsedSlots DEF FollowInv, UsedNow
<1>4. UsedNow' = {}
  BY <1>1 DEF UsedNow, Slots
<1>5. UNCHANGED <<ActiveNow, SurvivorsNow, FreeNow, PreparedNow>>
  BY <1>1 DEF ActiveNow, SurvivorsNow, FreeNow, PreparedNow, UnpoppedSlots, SlotIds,
     request_vars
<1>6. TurnNow # "stopped" /\ TurnNow' = "stopped"
  BY <1>1 DEF TurnNow
<1> QED
  BY <1>3, <1>4, <1>5, <1>6, MappedTurns DEF Protocol!ProtocolNext

LEMMA InitFollows == Init => Protocol!ProtocolInit
<1> SUFFICES ASSUME Init PROVE Protocol!ProtocolInit
  OBVIOUS
<1>1. FreeNow = [i \in 1 .. MaxActive |-> MaxActive - i] /\ PreparedNow = <<>>
  BY InitTypeInv, NothingUnpopped DEF Init
<1>2. TurnNow = "admit" /\ ActiveNow = <<>> /\ SurvivorsNow = <<>> /\ UsedNow = {}
  BY NoSlotIds DEF Init, TurnNow, ActiveNow, SurvivorsNow, UsedNow
<1> QED
  BY <1>1, <1>2, Zenon DEF Protocol!ProtocolInit, TurnNow, FreeNow, PreparedNow, ActiveNow,
     SurvivorsNow, UsedNow

LEMMA NextFollows ==
    FollowInv /\ FollowInv' /\ [Next]_vars
        => [Protocol!ProtocolNext]_Protocol!protocol_vars
<1> SUFFICES ASSUME FollowInv, FollowInv', [Next]_vars
             PROVE  [Protocol!ProtocolNext]_Protocol!protocol_vars
  OBVIOUS
<1>1. CASE AdmitPrefillRound
  BY <1>1, UnseenSteps, TurnSteps, AssignUnseen, PrefillStep, AdmitStep
     DEF AdmitPrefillRound
<1>2. CASE DecodeRound
  BY <1>2, TurnSteps, DecodeForwardStep, DecodeRequestStep, EndDecodeStep DEF DecodeRound
<1>3. CASE InputThread \/ Continue \/ Stopped \/ UNCHANGED vars
  BY <1>3, UnseenSteps
<1>4. CASE Exit \/ ModelThrows
  BY <1>4, ExitStep, TurnSteps
<1> QED
  BY <1>1, <1>2, <1>3, <1>4 DEF Next, ServerThread

(* The server keeps to the order of calls the attention layers rely on: it
   prefills cleared slots only, decodes exactly the slots of its active
   requests, and clears a slot in the step that frees it. *)
THEOREM ServerFollowsProtocol == Spec => FollowsSlotProtocol
  BY InitFollows, NextFollows, FollowInvariance, PTL
     DEF Spec, FollowsSlotProtocol, Protocol!ProtocolSpec

=============================================================================
