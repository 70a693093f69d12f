---------------------------- MODULE SlotProtocol ----------------------------
(***************************************************************************)
(* The calls the server makes to the model, seen from the model: which     *)
(* slots it prefills, decodes and clears, and in which order.              *)
(*                                                                         *)
(* ContinuousBatchServer implements this protocol; SelfAttnCache takes it  *)
(* as the environment of the attention layers.  A round of the server is   *)
(* an admission (turn "admit", a forward over prepared, "prefilled") and a *)
(* decoding (turn "decode", a forward over active, "decoded").             *)
(***************************************************************************)
EXTENDS Integers, Sequences

CONSTANTS
    MaxActive,      \* options.max_active_requests: the number of slots
    PrefillBatch    \* options.prefill_batch_size

ASSUME ProtocolAssumption ==
    MaxActive \in Nat \ {0} /\ PrefillBatch \in Nat \ {0}

VARIABLES
    turn,           \* what the server does next
    free_slots,     \* a stack, its top last
    prepared,       \* prefilled in this round, not settled yet
    active,         \* the slots of the active requests
    next_active,    \* the survivors of the decode round in progress
    used            \* the slots that were prefilled and not cleared since

protocol_vars == <<turn, free_slots, prepared, active, next_active, used>>

Slots == 0 .. MaxActive - 1
Turns == {"admit", "prefilled", "decode", "decoded", "stopped"}

(* The k slots on top of the stack, in the order they are popped. *)
Popped(k) == [i \in 1 .. k |-> free_slots[Len(free_slots) + 1 - i]]

SlotsOf(batch) == {batch[i] : i \in DOMAIN batch}

ProtocolInit ==
    /\ turn = "admit"
    /\ free_slots = [i \in 1 .. MaxActive |-> MaxActive - i]
    /\ prepared = <<>> /\ active = <<>> /\ next_active = <<>>
    /\ used = {}

(* A prefill of k free slots: sample_prefill_continuous. *)
Prefill(k) ==
    /\ turn = "admit"
    /\ k <= PrefillBatch /\ k <= Len(free_slots)
    /\ prepared' = Popped(k)
    /\ free_slots' = SubSeq(free_slots, 1, Len(free_slots) - k)
    /\ used' = used \cup SlotsOf(Popped(k))
    /\ turn' = "prefilled"
    /\ UNCHANGED <<active, next_active>>

NoPrefill ==
    /\ turn = "admit"
    /\ turn' = "decode"
    /\ UNCHANGED <<free_slots, prepared, active, next_active, used>>

(* A request that goes on keeps its slot; clear_continuous_sample and the
   free stack get the slot of one that is finished. *)
Keep(list, slot) ==
    /\ list' = Append(list, slot)
    /\ UNCHANGED <<free_slots, used>>

(* Mutant of Release: slots counted from one. *)
Release_OneBased(slot) ==
    /\ free_slots' = Append(free_slots, slot + 1)
    /\ used' = used \ {slot}

Release(slot) ==
    /\ free_slots' = Append(free_slots, slot)
    /\ used' = used \ {slot}

SettlePrefill(finished) ==
    /\ turn = "prefilled" /\ prepared # <<>>
    /\ IF finished THEN Release(Head(prepared)) /\ UNCHANGED active
                   ELSE Keep(active, Head(prepared))
    /\ prepared' = Tail(prepared)
    /\ UNCHANGED <<turn, next_active>>

EndPrefill ==
    /\ turn = "prefilled" /\ prepared = <<>>
    /\ turn' = "decode"
    /\ UNCHANGED <<free_slots, prepared, active, next_active, used>>

(* A decode step of all active slots: sample_decode_continuous. *)
Decode ==
    /\ turn = "decode" /\ active # <<>>
    /\ turn' = "decoded"
    /\ UNCHANGED <<free_slots, prepared, active, next_active, used>>

NoDecode ==
    /\ turn = "decode" /\ active = <<>>
    /\ turn' = "admit"
    /\ UNCHANGED <<free_slots, prepared, active, next_active, used>>

SettleDecode(finished) ==
    /\ turn = "decoded" /\ active # <<>>
    /\ IF finished THEN Release(Head(active)) /\ UNCHANGED next_active
                   ELSE Keep(next_active, Head(active))
    /\ active' = Tail(active)
    /\ UNCHANGED <<turn, prepared>>

EndDecode ==
    /\ turn = "decoded" /\ active = <<>>
    /\ active' = next_active
    /\ next_active' = <<>>
    /\ turn' = "admit"
    /\ UNCHANGED <<free_slots, prepared, used>>

(* run returns, or the model throws and the process is gone. *)
Stop ==
    /\ turn # "stopped"
    /\ turn' = "stopped"
    /\ UNCHANGED <<free_slots, prepared, active, next_active, used>>

ProtocolNext ==
    \/ \E k \in 1 .. MaxActive : Prefill(k)
    \/ NoPrefill
    \/ \E finished \in BOOLEAN : SettlePrefill(finished)
    \/ EndPrefill
    \/ Decode
    \/ NoDecode
    \/ \E finished \in BOOLEAN : SettleDecode(finished)
    \/ EndDecode
    \/ Stop

ProtocolSpec == ProtocolInit /\ [][ProtocolNext]_protocol_vars

=============================================================================
