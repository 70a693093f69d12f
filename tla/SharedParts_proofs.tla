------------------------- MODULE SharedParts_proofs -------------------------
(***************************************************************************)
(* Proofs about the two modules that the caches and the device code have   *)
(* in common.                                                              *)
(*                                                                         *)
(* What every caller that keeps to SlotProtocol guarantees the model, for  *)
(* every number of slots: a slot is on one list only and there once, and   *)
(* the slots in use are exactly those on the lists of requests.            *)
(*                                                                         *)
(* The loop of next_capacity_bytes and next_capacity_len (DeviceBuffers)   *)
(* ends and gives a capacity that is enough, never smaller than the one    *)
(* before, and never beyond the largest value: for every capacity and      *)
(* request.  The loop is a function defined by recursion that does not     *)
(* descend: it goes up until it stops.  That such a function exists is     *)
(* shown by giving one: the value for c is read off the orbit of c, the    *)
(* numbers its doubling passes.  What it returns is shown by descent on    *)
(* the distance to what is required.                                       *)
(***************************************************************************)
EXTENDS SlotProtocol, DeviceBuffers, SequenceTheorems, WellFoundedInduction, TLAPS


(* A slot is on the list once. *)
Once(list) == \A i, j \in DOMAIN list : list[i] = list[j] => i = j

ListsTyped ==
    /\ turn \in Turns
    /\ free_slots \in Seq(Slots) /\ prepared \in Seq(Slots)
    /\ active \in Seq(Slots) /\ next_active \in Seq(Slots)

ListsApart ==
    /\ Once(free_slots) /\ Once(prepared) /\ Once(active) /\ Once(next_active)
    /\ SlotsOf(free_slots) \cap SlotsOf(prepared) = {}
    /\ SlotsOf(free_slots) \cap SlotsOf(active) = {}
    /\ SlotsOf(free_slots) \cap SlotsOf(next_active) = {}
    /\ SlotsOf(prepared) \cap SlotsOf(active) = {}
    /\ SlotsOf(prepared) \cap SlotsOf(next_active) = {}
    /\ SlotsOf(active) \cap SlotsOf(next_active) = {}

UsedListed == used = SlotsOf(prepared) \cup SlotsOf(active) \cup SlotsOf(next_active)

(* The lists of a phase that is over, or has not begun, are empty. *)
PhaseLists ==
    /\ turn \in {"admit", "decode"} => prepared = <<>> /\ next_active = <<>>
    /\ turn = "prefilled" => next_active = <<>>
    /\ turn = "decoded" => prepared = <<>>

ProtocolInv == ListsTyped /\ ListsApart /\ UsedListed /\ PhaseLists

-----------------------------------------------------------------------------
LEMMA NoSlots == SlotsOf(<<>>) = {} /\ Once(<<>>) /\ <<>> \in Seq(Slots)
  BY DEF SlotsOf, Once

LEMMA SlotsTyped ==
    ASSUME NEW s \in Seq(Slots)
    PROVE  /\ SlotsOf(s) \subseteq Slots
           /\ Len(s) \in Nat /\ DOMAIN s = 1 .. Len(s)
           /\ \A i \in 1 .. Len(s) : s[i] \in Slots /\ s[i] \in SlotsOf(s)
  BY DEF SlotsOf

(* Taking the first slot off a list. *)
LEMMA DropSlot ==
    ASSUME NEW s \in Seq(Slots), s # <<>>, Once(s)
    PROVE  /\ Tail(s) \in Seq(Slots) /\ Once(Tail(s))
           /\ Head(s) \in Slots /\ Head(s) \in SlotsOf(s)
           /\ SlotsOf(Tail(s)) = SlotsOf(s) \ {Head(s)}
<1>1. /\ Len(s) \in Nat \ {0}
      /\ DOMAIN s = 1 .. Len(s)
      /\ DOMAIN Tail(s) = 1 .. Len(s) - 1
      /\ Head(s) = s[1]
      /\ \A i \in 1 .. Len(s) - 1 : Tail(s)[i] = s[i + 1]
      /\ Tail(s) \in Seq(Slots)
  BY EmptySeq, HeadTailProperties, LenProperties
<1>2. Once(Tail(s))
  BY <1>1 DEF Once
<1>3. Head(s) \in SlotsOf(s) /\ Head(s) \in Slots
  BY <1>1 DEF SlotsOf
<1>4. ASSUME NEW x \in SlotsOf(Tail(s))
      PROVE  x \in SlotsOf(s) /\ x # Head(s)
  <2>1. PICK i \in 1 .. Len(s) - 1 : x = s[i + 1]
    BY <1>1 DEF SlotsOf
  <2>2. i + 1 \in DOMAIN s /\ 1 \in DOMAIN s /\ i + 1 # 1
    BY <1>1
  <2> QED
    BY <1>1, <2>1, <2>2 DEF SlotsOf, Once
<1>5. ASSUME NEW x \in SlotsOf(s), x # Head(s)
      PROVE  x \in SlotsOf(Tail(s))
  <2>1. PICK i \in 1 .. Len(s) : x = s[i]
    BY <1>1 DEF SlotsOf
  <2>2. i - 1 \in 1 .. Len(s) - 1 /\ (i - 1) + 1 = i
    BY <1>1, <1>5, <2>1
  <2> QED
    BY <1>1, <2>1, <2>2 DEF SlotsOf
<1> QED
  BY <1>1, <1>2, <1>3, <1>4, <1>5

(* Adding a slot to a list it is not on. *)
LEMMA AddSlot ==
    ASSUME NEW s \in Seq(Slots), NEW e \in Slots, Once(s), e \notin SlotsOf(s)
    PROVE  /\ Append(s, e) \in Seq(Slots) /\ Once(Append(s, e))
           /\ SlotsOf(Append(s, e)) = SlotsOf(s) \cup {e}
<1> DEFINE more == Append(s, e)
<1>1. /\ Len(s) \in Nat
      /\ DOMAIN s = 1 .. Len(s)
      /\ DOMAIN more = 1 .. Len(s) + 1
      /\ \A i \in 1 .. Len(s) : more[i] = s[i]
      /\ more[Len(s) + 1] = e
      /\ more \in Seq(Slots)
  BY AppendProperties, LenProperties
<1> HIDE DEF more
<1>2. \A i \in 1 .. Len(s) : more[i] \in SlotsOf(s)
  BY <1>1 DEF SlotsOf
<1>3. Once(more)
  BY <1>1, <1>2 DEF Once
<1>4. SlotsOf(s) \subseteq SlotsOf(more)
  <2> SUFFICES ASSUME NEW i \in 1 .. Len(s) PROVE s[i] \in SlotsOf(more)
    BY <1>1 DEF SlotsOf
  <2>1. i \in DOMAIN more /\ more[i] = s[i]
    BY <1>1
  <2> QED
    BY <2>1 DEF SlotsOf
<1>5. e \in SlotsOf(more)
  <2>1. Len(s) + 1 \in DOMAIN more
    BY <1>1
  <2> QED
    BY <1>1, <2>1 DEF SlotsOf
<1>6. ASSUME NEW i \in DOMAIN more PROVE more[i] \in SlotsOf(s) \cup {e}
  BY <1>1, <1>2
<1>7. SlotsOf(more) \subseteq SlotsOf(s) \cup {e}
  BY <1>6 DEF SlotsOf
<1> QED
  BY <1>1, <1>3, <1>4, <1>5, <1>7 DEF more

(* Taking the top k slots off the stack. *)
LEMMA PopSlots ==
    ASSUME free_slots \in Seq(Slots), Once(free_slots), NEW k \in Nat, k <= Len(free_slots)
    PROVE  LET rest == SubSeq(free_slots, 1, Len(free_slots) - k)
           IN /\ rest \in Seq(Slots) /\ Once(rest)
              /\ Popped(k) \in Seq(Slots) /\ Once(Popped(k)) /\ Len(Popped(k)) = k
              /\ SlotsOf(rest) \subseteq SlotsOf(free_slots)
              /\ SlotsOf(Popped(k)) \subseteq SlotsOf(free_slots)
              /\ SlotsOf(rest) \cap SlotsOf(Popped(k)) = {}
<1> DEFINE n == Len(free_slots)
           rest == SubSeq(free_slots, 1, n - k)
<1>1. /\ n \in Nat /\ DOMAIN free_slots = 1 .. n
      /\ \A i \in 1 .. n : free_slots[i] \in Slots
  BY LenProperties
<1>2. /\ rest \in Seq(Slots) /\ DOMAIN rest = 1 .. n - k
      /\ \A i \in 1 .. n - k : rest[i] = free_slots[i]
  BY <1>1
<1>3. /\ DOMAIN Popped(k) = 1 .. k
      /\ \A i \in 1 .. k : Popped(k)[i] = free_slots[n + 1 - i] /\ n + 1 - i \in 1 .. n
                           /\ n + 1 - i > n - k
  BY <1>1 DEF Popped
<1>4. Popped(k) \in Seq(Slots) /\ Len(Popped(k)) = k
  <2>1. \A i \in 1 .. k : free_slots[n + 1 - i] \in Slots
    BY <1>1, <1>3
  <2> QED
    BY <1>1, <2>1 DEF Popped
<1> HIDE DEF rest, n
<1>5. Once(rest)
  BY <1>1, <1>2 DEF Once
<1>6. Once(Popped(k))
  <2> SUFFICES ASSUME NEW i \in 1 .. k, NEW j \in 1 .. k, Popped(k)[i] = Popped(k)[j]
               PROVE  i = j
    BY <1>3 DEF Once
  <2>1. n + 1 - i = n + 1 - j
    BY <1>1, <1>3 DEF Once
  <2> QED
    BY <1>1, <2>1
<1>7. SlotsOf(rest) \subseteq SlotsOf(free_slots)
  <2>1. \A i \in 1 .. n - k : i \in DOMAIN free_slots
    BY <1>1
  <2> QED
    BY <1>2, <2>1 DEF SlotsOf
<1>8. SlotsOf(Popped(k)) \subseteq SlotsOf(free_slots)
  BY <1>1, <1>3 DEF SlotsOf
<1>9. ASSUME NEW i \in 1 .. n - k, NEW j \in 1 .. k
      PROVE  rest[i] # Popped(k)[j]
  <2>1. i \in 1 .. n /\ i # n + 1 - j
    BY <1>1, <1>3
  <2> QED
    BY <1>1, <1>2, <1>3, <2>1 DEF Once
<1>10. SlotsOf(rest) \cap SlotsOf(Popped(k)) = {}
  BY <1>2, <1>3, <1>9 DEF SlotsOf
<1> QED
  BY <1>2, <1>4, <1>5, <1>6, <1>7, <1>8, <1>10 DEF rest, n

-----------------------------------------------------------------------------
LEMMA InitProtocolInv == ProtocolInit => ProtocolInv
<1> SUFFICES ASSUME ProtocolInit PROVE ProtocolInv
  OBVIOUS
<1>1. /\ MaxActive \in Nat \ {0} /\ turn = "admit"
      /\ free_slots = [i \in 1 .. MaxActive |-> MaxActive - i]
      /\ prepared = <<>> /\ active = <<>> /\ next_active = <<>> /\ used = {}
  BY ProtocolAssumption DEF ProtocolInit
<1>2. \A i \in 1 .. MaxActive : MaxActive - i \in Slots
  BY <1>1 DEF Slots
<1>3. free_slots \in Seq(Slots)
  BY <1>1, <1>2
<1>4. Once(free_slots)
  BY <1>1 DEF Once
<1> QED
  BY <1>1, <1>3, <1>4, NoSlots
     DEF ProtocolInv, ListsTyped, ListsApart, UsedListed, PhaseLists, Turns

(* A slot that was settled goes on to the survivors, or back to the stack. *)
LEMMA PrefillProtocolInv ==
    ASSUME ProtocolInv, NEW k \in 1 .. MaxActive, Prefill(k) PROVE ProtocolInv'
<1>1. /\ turn = "admit" /\ turn' = "prefilled" /\ k \in Nat /\ k <= Len(free_slots)
      /\ prepared' = Popped(k) /\ used' = used \cup SlotsOf(Popped(k))
      /\ free_slots' = SubSeq(free_slots, 1, Len(free_slots) - k)
      /\ active' = active /\ next_active' = next_active
  BY ProtocolAssumption DEF Prefill
<1>2. /\ free_slots \in Seq(Slots) /\ Once(free_slots)
      /\ prepared = <<>> /\ next_active = <<>>
  BY <1>1 DEF ProtocolInv, ListsTyped, ListsApart, PhaseLists
<1>3. /\ free_slots' \in Seq(Slots) /\ Once(free_slots')
      /\ prepared' \in Seq(Slots) /\ Once(prepared')
      /\ SlotsOf(free_slots') \subseteq SlotsOf(free_slots)
      /\ SlotsOf(prepared') \subseteq SlotsOf(free_slots)
      /\ SlotsOf(free_slots') \cap SlotsOf(prepared') = {}
  BY <1>1, <1>2, PopSlots
<1>4. ListsTyped' /\ PhaseLists'
  BY <1>1, <1>2, <1>3 DEF ProtocolInv, ListsTyped, PhaseLists, Turns, Slots
<1>5. ListsApart'
  BY <1>1, <1>2, <1>3 DEF ProtocolInv, ListsApart
<1>6. UsedListed'
  BY <1>1, <1>2, NoSlots DEF ProtocolInv, UsedListed, SlotsOf
<1> QED
  BY <1>4, <1>5, <1>6 DEF ProtocolInv

LEMMA SettlePrefillProtocolInv ==
    ASSUME ProtocolInv, NEW finished \in BOOLEAN, SettlePrefill(finished)
    PROVE  ProtocolInv'
<1> DEFINE s == Head(prepared)
<1>1. /\ turn = "prefilled" /\ turn' = turn /\ prepared # <<>> /\ next_active = <<>>
      /\ prepared' = Tail(prepared) /\ next_active' = next_active
  BY DEF SettlePrefill, ProtocolInv, PhaseLists
<1>2. /\ Tail(prepared) \in Seq(Slots) /\ Once(Tail(prepared))
      /\ s \in Slots /\ s \in SlotsOf(prepared)
      /\ SlotsOf(Tail(prepared)) = SlotsOf(prepared) \ {s}
  BY <1>1, DropSlot DEF ProtocolInv, ListsTyped, ListsApart
<1> HIDE DEF s
<1>3. CASE finished
  <2>1. free_slots' = Append(free_slots, s) /\ used' = used \ {s} /\ active' = active
    BY <1>3 DEF SettlePrefill, Release, s
  <2>2. /\ free_slots' \in Seq(Slots) /\ Once(free_slots')
        /\ SlotsOf(free_slots') = SlotsOf(free_slots) \cup {s}
    BY <1>2, <2>1, AddSlot DEF ProtocolInv, ListsTyped, ListsApart
  <2> QED
    BY <1>1, <1>2, <2>1, <2>2 DEF ProtocolInv, ListsTyped, ListsApart, UsedListed,
       PhaseLists, Slots
<1>4. CASE ~finished
  <2>1. active' = Append(active, s) /\ used' = used /\ free_slots' = free_slots
    BY <1>4 DEF SettlePrefill, Keep, s
  <2>2. /\ active' \in Seq(Slots) /\ Once(active')
        /\ SlotsOf(active') = SlotsOf(active) \cup {s}
    BY <1>2, <2>1, AddSlot DEF ProtocolInv, ListsTyped, ListsApart
  <2> QED
    BY <1>1, <1>2, <2>1, <2>2 DEF ProtocolInv, ListsTyped, ListsApart, UsedListed,
       PhaseLists, Slots
<1> QED
  BY <1>3, <1>4

LEMMA SettleDecodeProtocolInv ==
    ASSUME ProtocolInv, NEW finished \in BOOLEAN, SettleDecode(finished)
    PROVE  ProtocolInv'
<1> DEFINE s == Head(active)
<1>1. /\ turn = "decoded" /\ turn' = turn /\ active # <<>> /\ prepared = <<>>
      /\ active' = Tail(active) /\ prepared' = prepared
  BY DEF SettleDecode, ProtocolInv, PhaseLists
<1>2. /\ Tail(active) \in Seq(Slots) /\ Once(Tail(active))
      /\ s \in Slots /\ s \in SlotsOf(active)
      /\ SlotsOf(Tail(active)) = SlotsOf(active) \ {s}
  BY <1>1, DropSlot DEF ProtocolInv, ListsTyped, ListsApart
<1> HIDE DEF s
<1>3. CASE finished
  <2>1. free_slots' = Append(free_slots, s) /\ used' = used \ {s} /\ next_active' = next_active
    BY <1>3 DEF SettleDecode, Release, s
  <2>2. /\ free_slots' \in Seq(Slots) /\ Once(free_slots')
        /\ SlotsOf(free_slots') = SlotsOf(free_slots) \cup {s}
    BY <1>2, <2>1, AddSlot DEF ProtocolInv, ListsTyped, ListsApart
  <2> QED
    BY <1>1, <1>2, <2>1, <2>2 DEF ProtocolInv, ListsTyped, ListsApart, UsedListed,
       PhaseLists, Slots
<1>4. CASE ~finished
  <2>1. next_active' = Append(next_active, s) /\ used' = used /\ free_slots' = free_slots
    BY <1>4 DEF SettleDecode, Keep, s
  <2>2. /\ next_active' \in Seq(Slots) /\ Once(next_active')
        /\ SlotsOf(next_active') = SlotsOf(next_active) \cup {s}
    BY <1>2, <2>1, AddSlot DEF ProtocolInv, ListsTyped, ListsApart
  <2> QED
    BY <1>1, <1>2, <2>1, <2>2 DEF ProtocolInv, ListsTyped, ListsApart, UsedListed,
       PhaseLists, Slots
<1> QED
  BY <1>3, <1>4

LEMMA TurnProtocolInv ==
    ASSUME ProtocolInv,
           \/ NoPrefill \/ EndPrefill \/ Decode \/ NoDecode \/ Stop
           \/ UNCHANGED protocol_vars
    PROVE  ProtocolInv'
<1>1. UNCHANGED <<free_slots, prepared, active, next_active, used>>
  BY DEF NoPrefill, EndPrefill, Decode, NoDecode, Stop, protocol_vars
<1>2. ListsApart' /\ UsedListed'
  BY <1>1 DEF ProtocolInv, ListsApart, UsedListed, Once, SlotsOf
<1>3. ListsTyped' /\ PhaseLists'
  BY <1>1 DEF ProtocolInv, ListsTyped, PhaseLists, Turns, Slots, NoPrefill, EndPrefill,
     Decode, NoDecode, Stop, protocol_vars
<1> QED
  BY <1>2, <1>3 DEF ProtocolInv

LEMMA EndDecodeProtocolInv ==
    ASSUME ProtocolInv, EndDecode PROVE ProtocolInv'
<1>1. /\ turn = "decoded" /\ turn' = "admit" /\ active = <<>> /\ prepared = <<>>
      /\ active' = next_active /\ next_active' = <<>>
      /\ UNCHANGED <<free_slots, prepared, used>>
  BY DEF EndDecode, ProtocolInv, PhaseLists
<1>2. ListsTyped' /\ PhaseLists'
  BY <1>1, NoSlots DEF ProtocolInv, ListsTyped, PhaseLists, Turns, Slots
<1>3. ListsApart' /\ UsedListed'
  BY <1>1, NoSlots DEF ProtocolInv, ListsApart, UsedListed, Once, SlotsOf
<1> QED
  BY <1>2, <1>3 DEF ProtocolInv

LEMMA NextProtocolInv ==
    ProtocolInv /\ [ProtocolNext]_protocol_vars => ProtocolInv'
  BY PrefillProtocolInv, SettlePrefillProtocolInv, SettleDecodeProtocolInv,
     TurnProtocolInv, EndDecodeProtocolInv DEF ProtocolNext

(* Under every caller that keeps to the protocol, the lists of slots stay apart
   and the slots in use are those of the requests. *)
THEOREM ProtocolKeepsSlotsApart == ProtocolSpec => []ProtocolInv
  BY InitProtocolInv, NextProtocolInv, PTL DEF ProtocolSpec

-----------------------------------------------------------------------------
(* Every set of naturals with an element has a least one. *)
LEMMA LeastElement ==
    ASSUME NEW T, T \subseteq Nat, T # {}
    PROVE  \E x \in T : \A y \in T : x <= y
<1>1. PICK R : R = OpToRel(<, Nat)
  OBVIOUS
<1>2. IsWellFoundedOn(R, Nat)
  BY <1>1, NatLessThanWellFounded
<1>3. PICK x \in T : \A y \in T : <<y, x>> \notin R
  BY <1>2, WFMin
<1>4. ASSUME NEW y \in T
      PROVE  ~(y < x)
  BY <1>1, <1>3, <<y, x>> \in Nat \X Nat DEF OpToRel
<1> HIDE <1>1, <1>2, <1>3
<1>5. \A y \in T : x \in Nat /\ y \in Nat /\ ~(y < x)
  BY <1>4
<1> QED
  BY <1>5

-----------------------------------------------------------------------------
(* The loop, as a function of the capacity it starts from. *)
IsLoop(doubled, required) ==
    doubled = [c \in Nat |->
        IF c >= required THEN c
        ELSE IF c > MaxInt \div 2 THEN required
        ELSE doubled[2 * c]]

(* Where it stops, and the numbers it passes when it starts from c. *)
Stops(c, required) == c >= required \/ c > MaxInt \div 2
Closed(S, required) == \A c \in S : ~Stops(c, required) => 2 * c \in S
Orbit(c, required) ==
    {n \in Nat : \A S \in SUBSET Nat : c \in S /\ Closed(S, required) => n \in S}

LEMMA OrbitOfStop ==
    ASSUME NEW required \in Nat, NEW c \in Nat, Stops(c, required)
    PROVE  Orbit(c, required) = {c}
<1>1. {c} \in SUBSET Nat /\ c \in {c} /\ Closed({c}, required)
  BY DEF Closed
<1> QED
  BY <1>1 DEF Orbit

LEMMA OrbitOfStep ==
    ASSUME NEW required \in Nat, NEW c \in Nat, ~Stops(c, required)
    PROVE  Orbit(c, required) = {c} \cup Orbit(2 * c, required)
<1>1. ASSUME NEW n \in Orbit(c, required)
      PROVE  n \in {c} \cup Orbit(2 * c, required)
  <2>1. ASSUME NEW S \in SUBSET Nat, 2 * c \in S, Closed(S, required), n # c
        PROVE  n \in S
    <3>1. S \cup {c} \in SUBSET Nat /\ c \in S \cup {c} /\ Closed(S \cup {c}, required)
      BY <2>1 DEF Closed
    <3> QED
      BY <1>1, <2>1, <3>1 DEF Orbit
  <2> QED
    BY <1>1, <2>1 DEF Orbit
<1>2. ASSUME NEW n \in Orbit(2 * c, required)
      PROVE  n \in Orbit(c, required)
  BY <1>2 DEF Orbit, Closed
<1>3. c \in Orbit(c, required)
  BY DEF Orbit
<1> QED
  BY <1>1, <1>2, <1>3

LEMMA LoopExists ==
    ASSUME NEW required \in Nat
    PROVE  \E doubled : IsLoop(doubled, required)
<1> DEFINE Last(c) == CHOOSE n \in Orbit(c, required) : Stops(n, required)
           Value(c) == IF Last(c) >= required THEN Last(c) ELSE required
           f == [c \in Nat |-> Value(c)]
<1>1. ASSUME NEW c \in Nat, Stops(c, required)
      PROVE  Last(c) = c
  <2>1. Orbit(c, required) = {c}
    BY <1>1, OrbitOfStop
  <2> QED
    BY <1>1, <2>1
<1>2. ASSUME NEW c \in Nat, ~Stops(c, required)
      PROVE  Last(c) = Last(2 * c)
  <2>1. \A n : (n \in Orbit(c, required) /\ Stops(n, required))
                 <=> (n \in Orbit(2 * c, required) /\ Stops(n, required))
    BY <1>2, OrbitOfStep
  <2> QED
    BY <2>1
<1>3. ASSUME NEW c \in Nat
      PROVE  Value(c) = IF c >= required THEN c
                        ELSE IF c > MaxInt \div 2 THEN required
                        ELSE f[2 * c]
  <2>1. CASE Stops(c, required)
    <3> HIDE DEF Last
    <3> QED
      BY <1>1, <2>1 DEF Stops
  <2>2. CASE ~Stops(c, required)
    <3>1. f[2 * c] = Value(2 * c)
      OBVIOUS
    <3>2. Value(2 * c) = Value(c)
      BY <1>2, <2>2
    <3> HIDE DEF Last, Value, f
    <3> QED
      BY <3>1, <3>2, <2>2 DEF Stops
  <2> QED
    BY <2>1, <2>2
<1>4. IsLoop(f, required)
  <2> HIDE DEF Last, Value
  <2> QED
    BY <1>3 DEF IsLoop
<1> QED
  BY <1>4

(* What the loop returns from any capacity but 0, from which it does not move. *)
LEMMA LoopResult ==
    ASSUME NEW required \in Nat, NEW doubled, IsLoop(doubled, required),
           NEW c \in Nat \ {0}
    PROVE  /\ doubled[c] \in Nat
           /\ doubled[c] >= required /\ doubled[c] >= c
           /\ c <= MaxInt /\ required <= MaxInt => doubled[c] <= MaxInt
<1> DEFINE Good(n) == /\ doubled[n] \in Nat
                      /\ doubled[n] >= required /\ doubled[n] >= n
                      /\ n <= MaxInt /\ required <= MaxInt => doubled[n] <= MaxInt
           Bad == {d \in Nat : \E n \in Nat \ {0} : n + d = required /\ ~Good(n)}
<1> USE SizeAssumption
<1>1. \A n \in Nat : doubled[n] = IF n >= required THEN n
                                  ELSE IF n > MaxInt \div 2 THEN required
                                  ELSE doubled[2 * n]
  BY DEF IsLoop
<1>2. \A n \in Nat : n >= required => Good(n)
  BY <1>1
<1>3. ASSUME Bad # {}
      PROVE  FALSE
  <2>1. PICK d \in Bad : \A e \in Bad : d <= e
    BY <1>3, LeastElement
  <2>2. PICK n \in Nat \ {0} : n + d = required /\ ~Good(n)
    BY <2>1
  <2>3. n < required
    BY <1>2, <2>2
  <2>4. n <= MaxInt \div 2
    BY <1>1, <2>2, <2>3
  <2>5. doubled[n] = doubled[2 * n] /\ 2 * n <= MaxInt /\ 2 * n \in Nat \ {0}
    BY <1>1, <2>3, <2>4
  <2>6. ~Good(2 * n)
    BY <2>2, <2>5
  <2>7. 2 * n < required
    BY <1>2, <2>5, <2>6
  <2>8. required - 2 * n \in Bad
    BY <2>5, <2>6, <2>7
  <2>9. d \in Nat
    BY <2>1
  <2> HIDE DEF Bad, Good
  <2>10. d <= required - 2 * n
    BY <2>1, <2>8
  <2>11. n + d = required
    BY <2>2
  <2> QED
    BY <2>9, <2>10, <2>11
<1>4. CASE c >= required
  BY <1>2, <1>4
<1>5. CASE c < required
  <2>1. required - c \notin Bad
    BY <1>3
  <2> QED
    BY <2>1, <1>5
<1> QED
  BY <1>4, <1>5

-----------------------------------------------------------------------------
(* next_capacity: enough, never less than before, and within the largest value
   if what is asked for is. *)
LEMMA CapacitySuffices ==
    ASSUME NEW current \in Nat, NEW required \in Nat, NEW least \in Nat \ {0}
    PROVE  LET new == NextCapacity(current, required, least)
           IN /\ new \in Nat /\ new >= required
              /\ required > 0 => new >= current
              /\ (current <= MaxInt /\ required <= MaxInt /\ least <= MaxInt) => new <= MaxInt
<1> DEFINE loop == CHOOSE doubled : IsLoop(doubled, required)
           first == IF required > least THEN required ELSE least
           start == IF current = 0 THEN first ELSE current
<1>1. NextCapacity(current, required, least) = IF required = 0 THEN 0 ELSE loop[start]
  BY DEF NextCapacity, IsLoop
<1>2. IsLoop(loop, required)
  BY LoopExists
<1>3. start \in Nat \ {0} /\ start >= current
  OBVIOUS
<1> HIDE DEF loop
<1>4. /\ loop[start] \in Nat /\ loop[start] >= required /\ loop[start] >= start
      /\ start <= MaxInt /\ required <= MaxInt => loop[start] <= MaxInt
  BY <1>2, <1>3, LoopResult
<1> QED
  BY <1>1, <1>3, <1>4, SizeAssumption

(* ensure_device_buffer: a buffer is as large as was asked for, and if it was
   replaced it is larger than before. *)
LEMMA EnsuredSuffices ==
    ASSUME NEW current \in Nat, NEW required \in Nat, NEW least \in Nat \ {0}
    PROVE  LET new == Ensured(current, required, least)
           IN /\ new \in Nat /\ new >= required /\ new >= current
              /\ (new = current) <=> (current >= required)
              /\ (current <= MaxInt /\ required <= MaxInt /\ least <= MaxInt) => new <= MaxInt
<1>1. CASE current >= required
  BY <1>1 DEF Ensured
<1>2. CASE current < required
  <2>1. Ensured(current, required, least) = NextCapacity(current, required, least)
    BY <1>2 DEF Ensured
  <2> DEFINE new == NextCapacity(current, required, least)
  <2>2. /\ new \in Nat /\ new >= required
        /\ required > 0 => new >= current
        /\ (current <= MaxInt /\ required <= MaxInt /\ least <= MaxInt) => new <= MaxInt
    BY CapacitySuffices
  <2> HIDE DEF new
  <2>3. required > 0 /\ new >= current /\ new # current
    BY <1>2, <2>2
  <2> QED
    BY <1>2, <2>1, <2>2, <2>3 DEF new
<1> QED
  BY <1>1, <1>2

=============================================================================
