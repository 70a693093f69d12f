-------------------------- MODULE Generation_proofs --------------------------
(***************************************************************************)
(* One-shot generation gives every prompt what it would get alone: for     *)
(* every batch, every future, every EOS and pad token and every number of  *)
(* steps.                                                                  *)
(*                                                                         *)
(* The argument is an induction over the rounds, the forward passes done.  *)
(* After round R a sample of the batch holds in its cache its pads, its    *)
(* prompt and its first R - 1 tokens, each at the position it would have   *)
(* alone, and its row holds its R-th token: so the pass that follows sees  *)
(* what the sample would see alone and must yield its next token.  Rows    *)
(* are told apart because no sample has two.                               *)
(***************************************************************************)
EXTENDS Generation, SequenceTheorems, WellFoundedInduction, TLAPS

-----------------------------------------------------------------------------
(* The inductive invariant. *)

InBatch(s) == \E i \in Rows : sample_ids[i] = s
Injective(ids) ==
    \A i, j \in 1 .. Len(ids) : ids[i] = ids[j] => i = j

(* A row of the K/V cache. *)
KvRow == [token : Tokens \cup {PadId}, pos : Int]

(* The j-th token a sample sees alone. *)
TokenAlone(prompt, future, j) ==
    IF j <= Len(prompt) THEN prompt[j] ELSE future[j - Len(prompt)]

(* A cache holds its pads and, behind them, what a sample sees alone before
   its n-th token. *)
HoldsPrefix(cache, pads, prompt, future, n) ==
    /\ cache \in Seq(KvRow)
    /\ Len(cache) = pads + Len(prompt) + n - 1
    /\ prompt # <<>> =>
         \A j \in 1 .. Len(prompt) + n - 1 :
            cache[pads + j] = [token |-> TokenAlone(prompt, future, j), pos |-> j - 1]

(* The forward passes done; Rounds of Generation, and while EOS is filtered. *)
R == step - MaxLen + 1

StopsWithin(future, k) == \E i \in 1 .. k : future[i] = EosId

Padding ==
    pc # "get_inputs" =>
      /\ seq_lens = [s \in Samples |-> Len(inputs[s])]
      /\ pad_lens = [s \in Samples |-> MaxLen - Len(inputs[s])]

NothingYet ==
    pc \in {"get_inputs", "forward", "prefill"} =>
      /\ outputs = [s \in Samples |-> <<>>]
      /\ kv_cache = [s \in Samples |-> <<>>]

ReadyToPrefill ==
    pc = "prefill" =>
      /\ MaxLen > 0
      /\ batch = [s \in Samples |-> Padded(s)]
      /\ sample_ids = [i \in Samples |-> i]
      /\ pos_lens_by_sample = [s \in Samples |-> Len(inputs[s])]

(* Rounds are counted, rows are of different samples, each row at the position
   of its round. *)
RowsInStep ==
    pc \in {"filter", "decode", "done"} =>
      /\ MaxLen > 0
      /\ R \in 1 .. Larger(1, MaxSteps - MaxLen + 1)
      /\ Injective(sample_ids)
      /\ Len(next_generated_tokens) = Len(sample_ids)
      /\ pos_lens_by_sample \in [Samples -> Nat]
      /\ \A s \in Samples : InBatch(s) => pos_lens_by_sample[s] = Len(inputs[s]) + R - 1

(* A row holds the latest token of its sample. *)
LatestTokens ==
    pc \in {"filter", "decode", "done"} =>
      \A i \in Rows : inputs[sample_ids[i]] # <<>> =>
          next_generated_tokens[i] = alone[sample_ids[i]][R]

(* A sample leaves the batch at its EOS, and only then. *)
LeavesAtEos ==
    pc \in {"filter", "decode", "done"} =>
      \A s \in Samples : inputs[s] # <<>> =>
          (InBatch(s) <=> ~StopsWithin(alone[s], IF pc = "filter" THEN R - 1 ELSE R))

CachesHold ==
    pc \in {"filter", "decode"} =>
      \A s \in Samples :
         /\ InBatch(s) =>
              HoldsPrefix(kv_cache[s], MaxLen - Len(inputs[s]), inputs[s], alone[s], R)
         /\ ~InBatch(s) => kv_cache[s] = <<>>

OutputsAlone ==
    pc \in {"filter", "decode", "done"} =>
      \A s \in Samples : inputs[s] # <<>> =>
          outputs[s] = WithoutPads(alone[s], SampledFor(s, R))

AtTheEnd == pc = "done" => ~KeepsDecoding

GenerationInv ==
    /\ TypeOK
    /\ Padding
    /\ NothingYet
    /\ ReadyToPrefill
    /\ RowsInStep
    /\ LatestTokens
    /\ LeavesAtEos
    /\ CachesHold
    /\ OutputsAlone
    /\ AtTheEnd

(* Every set of naturals with an element has a least one. *)
LEMMA LeastElement ==
    ASSUME NEW T, T \subseteq Nat, T # {}
    PROVE  \E x \in T : \A y \in T : x <= y
<1>1. PICK less : less = OpToRel(<, Nat)
  OBVIOUS
<1>2. IsWellFoundedOn(less, Nat)
  BY <1>1, NatLessThanWellFounded
<1>3. PICK x \in T : \A y \in T : <<y, x>> \notin less
  BY <1>2, WFMin
<1>4. ASSUME NEW y \in T
      PROVE  ~(y < x)
  BY <1>1, <1>3, <<y, x>> \in Nat \X Nat DEF OpToRel
<1> HIDE <1>1, <1>2, <1>3
<1>5. \A y \in T : x \in Nat /\ y \in Nat /\ ~(y < x)
  BY <1>4
<1> QED
  BY <1>5

-----------------------------------------------------------------------------
(* The loop of filter_eos_samples.  It is a function defined by recursion: it
   exists because it exists up to 0 and can be continued by one. *)
IsKept(kept, tokens, dropped, n) ==
    kept = [m \in 0 .. n |->
        IF m = 0 THEN <<>>
        ELSE IF tokens[m] = dropped THEN kept[m - 1]
        ELSE Append(kept[m - 1], m)]

LEMMA KeptContinued ==
    ASSUME NEW tokens, NEW dropped, NEW n \in Nat, NEW g, IsKept(g, tokens, dropped, n)
    PROVE  \E h : IsKept(h, tokens, dropped, n + 1)
<1> DEFINE Longer == IF tokens[n + 1] = dropped THEN g[n] ELSE Append(g[n], n + 1)
           h == [m \in 0 .. n + 1 |-> IF m <= n THEN g[m] ELSE Longer]
<1>1. ASSUME NEW m \in 0 .. n + 1
      PROVE  h[m] = IF m = 0 THEN <<>>
                    ELSE IF tokens[m] = dropped THEN h[m - 1]
                    ELSE Append(h[m - 1], m)
  <2>1. CASE m = 0
    BY <2>1 DEF IsKept
  <2>2. CASE m \in 1 .. n
    <3>1. h[m] = g[m] /\ h[m - 1] = g[m - 1] /\ m \in 0 .. n /\ m # 0
      BY <2>2
    <3>2. g[m] = IF tokens[m] = dropped THEN g[m - 1] ELSE Append(g[m - 1], m)
      BY <3>1 DEF IsKept
    <3> HIDE DEF h
    <3> QED
      BY <3>1, <3>2
  <2>3. CASE m = n + 1
    <3>1. h[m] = Longer /\ h[m - 1] = g[n] /\ m # 0
      BY <2>3
    <3> HIDE DEF h
    <3> QED
      BY <2>3, <3>1
  <2> QED
    BY <2>1, <2>2, <2>3
<1>2. IsKept(h, tokens, dropped, n + 1)
  <2> DEFINE Value(m) == IF m = 0 THEN <<>>
                         ELSE IF tokens[m] = dropped THEN h[m - 1]
                         ELSE Append(h[m - 1], m)
  <2>1. h = [m \in 0 .. n + 1 |-> h[m]]
    OBVIOUS
  <2>2. \A m \in 0 .. n + 1 : h[m] = Value(m)
    BY <1>1
  <2> HIDE DEF h
  <2>3. h = [m \in 0 .. n + 1 |-> Value(m)]
    BY <2>1, <2>2
  <2> QED
    BY <2>3 DEF IsKept
<1> QED
  BY <1>2

LEMMA KeptExists ==
    ASSUME NEW tokens, NEW dropped, NEW n \in Nat
    PROVE  \E kept : IsKept(kept, tokens, dropped, n)
<1> DEFINE T == {m \in Nat : ~\E kept : IsKept(kept, tokens, dropped, m)}
<1>1. SUFFICES ASSUME T # {}
               PROVE  FALSE
  OBVIOUS
<1>2. PICK m \in T : \A k \in T : m <= k
  BY <1>1, LeastElement
<1>3. CASE m = 0
  <2>1. IsKept([k \in 0 .. 0 |-> <<>>], tokens, dropped, 0)
    BY DEF IsKept
  <2> QED
    BY <1>2, <1>3, <2>1
<1>4. CASE m > 0
  <2>1. m - 1 \in Nat /\ m - 1 \notin T
    BY <1>2, <1>4
  <2>2. PICK g : IsKept(g, tokens, dropped, m - 1)
    BY <2>1
  <2>3. \E h : IsKept(h, tokens, dropped, m - 1 + 1)
    BY <2>1, <2>2, KeptContinued
  <2> QED
    BY <1>2, <2>3
<1> QED
  BY <1>2, <1>3, <1>4

LEMMA KeptStep ==
    ASSUME NEW tokens, Len(tokens) \in Nat, NEW dropped
    PROVE  /\ KeptPositions(tokens, dropped)[0] = <<>>
           /\ \A m \in 1 .. Len(tokens) :
                KeptPositions(tokens, dropped)[m] =
                   IF tokens[m] = dropped THEN KeptPositions(tokens, dropped)[m - 1]
                   ELSE Append(KeptPositions(tokens, dropped)[m - 1], m)
<1> DEFINE kept == KeptPositions(tokens, dropped)
<1>1. IsKept(kept, tokens, dropped, Len(tokens))
  <2>1. kept = CHOOSE f : IsKept(f, tokens, dropped, Len(tokens))
    BY DEF KeptPositions, IsKept
  <2>2. \E f : IsKept(f, tokens, dropped, Len(tokens))
    BY KeptExists
  <2> QED
    BY <2>1, <2>2
<1> HIDE DEF kept
<1>2. kept[0] = <<>>
  BY <1>1 DEF IsKept
<1>3. ASSUME NEW m \in 1 .. Len(tokens)
      PROVE  kept[m] = IF tokens[m] = dropped THEN kept[m - 1]
                       ELSE Append(kept[m - 1], m)
  <2>1. m \in 0 .. Len(tokens) /\ m # 0
    OBVIOUS
  <2> QED
    BY <1>1, <2>1 DEF IsKept
<1> QED
  BY <1>2, <1>3 DEF kept

(* What the loop has found after n tokens: the positions, in order, that do
   not hold what is dropped. *)
KeptUpTo(rows, tokens, dropped, n) ==
    /\ rows \in Seq(1 .. n)
    /\ \A k, m \in 1 .. Len(rows) : k < m => rows[k] < rows[m]
    /\ \A k \in 1 .. Len(rows) : tokens[rows[k]] # dropped
    /\ \A i \in 1 .. n : tokens[i] # dropped => \E k \in 1 .. Len(rows) : rows[k] = i

LEMMA KeptSkips ==
    ASSUME NEW tokens, NEW dropped, NEW n \in Nat, NEW rows,
           KeptUpTo(rows, tokens, dropped, n), tokens[n + 1] = dropped
    PROVE  KeptUpTo(rows, tokens, dropped, n + 1)
<1>1. rows \in Seq(1 .. n + 1)
  BY 1 .. n \subseteq 1 .. n + 1 DEF KeptUpTo
<1>2. ASSUME NEW i \in 1 .. n + 1, tokens[i] # dropped
      PROVE  i \in 1 .. n
  BY <1>2
<1> QED
  BY <1>1, <1>2 DEF KeptUpTo

LEMMA KeptTakes ==
    ASSUME NEW tokens, NEW dropped, NEW n \in Nat, NEW rows,
           KeptUpTo(rows, tokens, dropped, n), tokens[n + 1] # dropped
    PROVE  KeptUpTo(Append(rows, n + 1), tokens, dropped, n + 1)
<1> DEFINE more == Append(rows, n + 1)
<1>1. rows \in Seq(1 .. n) /\ rows \in Seq(1 .. n + 1) /\ Len(rows) \in Nat
  BY 1 .. n \subseteq 1 .. n + 1 DEF KeptUpTo
<1>2. /\ more \in Seq(1 .. n + 1)
      /\ Len(more) = Len(rows) + 1
      /\ more[Len(rows) + 1] = n + 1
      /\ \A k \in 1 .. Len(rows) : more[k] = rows[k]
  BY <1>1
<1> HIDE DEF more
<1>3. \A k \in 1 .. Len(rows) : rows[k] \in 1 .. n
  BY <1>1
<1>4. ASSUME NEW k \in 1 .. Len(more), NEW m \in 1 .. Len(more), k < m
      PROVE  more[k] < more[m]
  <2>1. k \in 1 .. Len(rows)
    BY <1>1, <1>2, <1>4
  <2>2. CASE m \in 1 .. Len(rows)
    BY <1>2, <1>4, <2>1, <2>2 DEF KeptUpTo
  <2>3. CASE m = Len(rows) + 1
    <3>1. more[k] \in 1 .. n
      BY <1>2, <1>3, <2>1
    <3>2. more[m] = n + 1
      BY <1>2, <2>3
    <3> QED
      BY <3>1, <3>2
  <2> QED
    BY <1>1, <1>2, <2>2, <2>3
<1>5. ASSUME NEW k \in 1 .. Len(more)
      PROVE  tokens[more[k]] # dropped
  <2>1. CASE k \in 1 .. Len(rows)
    BY <1>2, <2>1 DEF KeptUpTo
  <2>2. CASE k = Len(rows) + 1
    BY <1>2, <2>2
  <2> QED
    BY <1>1, <1>2, <2>1, <2>2
<1>6. ASSUME NEW i \in 1 .. n + 1, tokens[i] # dropped
      PROVE  \E k \in 1 .. Len(more) : more[k] = i
  <2>1. CASE i \in 1 .. n
    <3>1. PICK k \in 1 .. Len(rows) : rows[k] = i
      BY <1>6, <2>1 DEF KeptUpTo
    <3>2. k \in 1 .. Len(more) /\ more[k] = i
      BY <1>1, <1>2, <3>1
    <3> QED
      BY <3>2
  <2>2. CASE i = n + 1
    BY <1>1, <1>2, <2>2
  <2> QED
    BY <2>1, <2>2
<1>7. KeptUpTo(more, tokens, dropped, n + 1)
  BY <1>2, <1>4, <1>5, <1>6 DEF KeptUpTo
<1> QED
  BY <1>7 DEF more

LEMMA KeptFacts ==
    ASSUME NEW tokens, Len(tokens) \in Nat, NEW dropped, NEW n \in 0 .. Len(tokens)
    PROVE  KeptUpTo(KeptPositions(tokens, dropped)[n], tokens, dropped, n)
<1> DEFINE kept == KeptPositions(tokens, dropped)
           T == {m \in 0 .. Len(tokens) : ~KeptUpTo(kept[m], tokens, dropped, m)}
<1>1. /\ kept[0] = <<>>
      /\ \A m \in 1 .. Len(tokens) :
            kept[m] = IF tokens[m] = dropped THEN kept[m - 1] ELSE Append(kept[m - 1], m)
  BY KeptStep
<1> HIDE DEF kept
<1>2. SUFFICES ASSUME T # {}
               PROVE  FALSE
  BY DEF kept
<1>3. PICK m \in T : \A k \in T : m <= k
  <2>1. T \subseteq Nat
    OBVIOUS
  <2> HIDE DEF T
  <2> QED
    BY <1>2, <2>1, LeastElement
<1>4. CASE m = 0
  <2>1. KeptUpTo(<<>>, tokens, dropped, 0)
    BY DEF KeptUpTo
  <2> QED
    BY <1>1, <1>3, <1>4, <2>1
<1>5. CASE m # 0
  <2>1. m - 1 \in 0 .. Len(tokens) /\ m - 1 \in Nat /\ m \in 1 .. Len(tokens) /\ m - 1 + 1 = m
    BY <1>3, <1>5
  <2>2. m - 1 \notin T
    BY <1>3, <2>1
  <2>3. KeptUpTo(kept[m - 1], tokens, dropped, m - 1)
    BY <2>1, <2>2
  <2>4. kept[m] = IF tokens[m] = dropped THEN kept[m - 1] ELSE Append(kept[m - 1], m)
    BY <1>1, <2>1
  <2>5. CASE tokens[m] = dropped
    <3>1. KeptUpTo(kept[m - 1], tokens, dropped, m - 1 + 1)
      BY <2>1, <2>3, <2>5, KeptSkips
    <3> QED
      BY <1>3, <2>1, <2>4, <2>5, <3>1
  <2>6. CASE tokens[m] # dropped
    <3>1. KeptUpTo(Append(kept[m - 1], m - 1 + 1), tokens, dropped, m - 1 + 1)
      BY <2>1, <2>3, <2>6, KeptTakes
    <3> QED
      BY <1>3, <2>1, <2>4, <2>6, <3>1
  <2> QED
    BY <2>5, <2>6
<1> QED
  BY <1>4, <1>5

-----------------------------------------------------------------------------
(* The outputs of a sample, one token longer. *)
LEMMA NoTokensYet ==
    ASSUME NEW future, Len(future) \in Nat
    PROVE  WithoutPads(future, 0) = <<>>
<1>1. KeptPositions(future, PadId)[0] = <<>>
  BY KeptStep
<1> QED
  BY <1>1 DEF WithoutPads

LEMMA OneTokenMore ==
    ASSUME NEW future, Len(future) \in Nat, NEW n \in Nat, n + 1 <= Len(future)
    PROVE  WithoutPads(future, n + 1) =
               IF future[n + 1] # PadId THEN Append(WithoutPads(future, n), future[n + 1])
               ELSE WithoutPads(future, n)
<1> DEFINE kept == KeptPositions(future, PadId)
<1>1. kept[n + 1] = IF future[n + 1] = PadId THEN kept[n] ELSE Append(kept[n], n + 1)
  BY KeptStep, n + 1 \in 1 .. Len(future), n + 1 - 1 = n
<1>2. kept[n] \in Seq(1 .. n)
  BY KeptFacts, n \in 0 .. Len(future) DEF KeptUpTo
<1>3. CASE future[n + 1] = PadId
  BY <1>1, <1>3 DEF WithoutPads
<1>4. CASE future[n + 1] # PadId
  <2> HIDE DEF kept
  <2>1. /\ kept[n + 1] = Append(kept[n], n + 1)
        /\ Len(kept[n]) \in Nat
    BY <1>1, <1>2, <1>4
  <2>2. /\ Len(kept[n + 1]) = Len(kept[n]) + 1
        /\ kept[n + 1][Len(kept[n]) + 1] = n + 1
        /\ \A k \in 1 .. Len(kept[n]) : kept[n + 1][k] = kept[n][k]
    BY <1>2, <2>1
  <2> DEFINE before == [k \in 1 .. Len(kept[n]) |-> future[kept[n][k]]]
             after == [k \in 1 .. Len(kept[n + 1]) |-> future[kept[n + 1][k]]]
  <2>3. before = WithoutPads(future, n) /\ after = WithoutPads(future, n + 1)
    BY DEF WithoutPads, kept
  <2>4. after = Append(before, future[n + 1])
    <3>1. Len(before) = Len(kept[n]) /\ DOMAIN before = 1 .. Len(kept[n])
      BY <2>1
    <3>2. Append(before, future[n + 1]) =
            [k \in 1 .. Len(before) + 1 |->
                IF k \in 1 .. Len(before) THEN before[k] ELSE future[n + 1]]
      BY <2>1, <3>1
    <3> QED
      BY <2>1, <2>2, <3>1, <3>2
  <2> QED
    BY <1>4, <2>3, <2>4
<1> QED
  BY <1>3, <1>4

-----------------------------------------------------------------------------
(* The longest prompt of the batch. *)
LEMMA LargestOf ==
    ASSUME NEW S, S \subseteq Nat, S # {}, NEW bound \in Nat, \A x \in S : x <= bound
    PROVE  \E x \in S : \A y \in S : y <= x
<1> DEFINE T == {n \in Nat : \A y \in S : y <= n}
<1>1. T \subseteq Nat /\ T # {}
  BY bound \in T
<1>2. PICK n \in T : \A m \in T : n <= m
  <2> HIDE DEF T
  <2> QED
    BY <1>1, LeastElement
<1>3. n \in Nat /\ \A y \in S : y <= n
  BY <1>2
<1>4. CASE n \in S
  BY <1>3, <1>4
<1>5. CASE n \notin S
  <2>1. \A y \in S : y \in Nat /\ y <= n /\ y # n
    BY <1>3, <1>5
  <2>2. n # 0
    <3>1. PICK y : y \in S
      OBVIOUS
    <3>2. y \in Nat /\ y <= n /\ y # n
      BY <2>1, <3>1
    <3> QED
      BY <3>2
  <2>3. n - 1 \in T
    BY <1>3, <2>1, <2>2
  <2> QED
    BY <1>2, <1>3, <2>3
<1> QED
  BY <1>4, <1>5

(* Every finite list of naturals has an upper bound. *)
LEMMA LensBounded ==
    ASSUME NEW prompts, Len(prompts) \in Nat, \A s \in 1 .. Len(prompts) : Len(prompts[s]) \in Nat
    PROVE  \E bound \in Nat : \A s \in 1 .. Len(prompts) : Len(prompts[s]) <= bound
<1> DEFINE Bounds(n) == \E bound \in Nat : \A s \in 1 .. n : Len(prompts[s]) <= bound
           T == {n \in 0 .. Len(prompts) : ~Bounds(n)}
<1>1. SUFFICES ASSUME T # {}
               PROVE  FALSE
  BY Len(prompts) \in 0 .. Len(prompts)
<1>2. PICK n \in T : \A m \in T : n <= m
  <2>1. T \subseteq Nat
    OBVIOUS
  <2> HIDE DEF T
  <2> QED
    BY <1>1, <2>1, LeastElement
<1>3. n \in Nat /\ n <= Len(prompts) /\ ~Bounds(n)
  OBVIOUS
<1>4. n # 0
  BY <1>3, 0 \in Nat
<1>5. n - 1 \notin T /\ n - 1 \in 0 .. Len(prompts)
  <2>1. n - 1 \in Nat /\ n - 1 \in 0 .. Len(prompts) /\ ~(n <= n - 1)
    BY <1>3, <1>4
  <2> HIDE DEF T
  <2> QED
    BY <1>2, <2>1
<1>6. PICK bound \in Nat : \A s \in 1 .. n - 1 : Len(prompts[s]) <= bound
  BY <1>5
<1>7. n \in 1 .. Len(prompts) /\ Len(prompts[n]) \in Nat
  BY <1>3, <1>4
<1> HIDE DEF Bounds, T
<1> DEFINE higher == bound + Len(prompts[n])
<1>8. higher \in Nat /\ bound <= higher /\ Len(prompts[n]) <= higher
  BY <1>6, <1>7
<1>9. \A s \in 1 .. n : Len(prompts[s]) <= higher
  <2> HIDE DEF higher
  <2>1. ASSUME NEW s \in 1 .. n
        PROVE  Len(prompts[s]) <= higher
    <3>1. CASE s = n
      <4>1. Len(prompts[s]) = Len(prompts[n])
        BY <3>1
      <4>2. Len(prompts[n]) <= higher
        BY <1>8
      <4> QED
        BY <4>1, <4>2
    <3>2. CASE s # n
      <4>1. s \in 1 .. n - 1 /\ s \in 1 .. Len(prompts)
        BY <1>3, <3>2
      <4>2. Len(prompts[s]) <= bound /\ Len(prompts[s]) \in Nat
        BY <1>6, <4>1
      <4> QED
        BY <1>6, <1>8, <4>2
    <3> QED
      BY <3>1, <3>2
  <2> QED
    BY <2>1
<1> HIDE DEF higher
<1>10. Bounds(n)
  BY <1>8, <1>9 DEF Bounds
<1> QED
  BY <1>3, <1>10

LEMMA BatchesAreLists ==
    ASSUME inputs \in Batches
    PROVE  /\ inputs \in Seq(Seq(Tokens))
           /\ Len(inputs) \in Nat /\ 1 \in Samples
           /\ \A s \in Samples : inputs[s] \in Seq(Tokens) /\ Len(inputs[s]) \in Nat
<1>1. inputs # <<>> /\ inputs \in Seq(Seq(Tokens))
  BY GenerationAssumption
<1>2. Len(inputs) \in Nat /\ Len(inputs) # 0
  BY <1>1
<1>3. \A s \in 1 .. Len(inputs) : inputs[s] \in Seq(Tokens)
  BY <1>1
<1>4. \A s \in 1 .. Len(inputs) : Len(inputs[s]) \in Nat
  BY <1>3
<1> QED
  BY <1>1, <1>2, <1>3, <1>4 DEF Samples

LEMMA MaxLenFacts ==
    ASSUME inputs \in Batches
    PROVE  /\ MaxLen \in Nat
           /\ \A s \in Samples : Len(inputs[s]) <= MaxLen
           /\ \E s \in Samples : Len(inputs[s]) = MaxLen
<1> DEFINE S == {Len(inputs[s]) : s \in Samples}
<1>1. S \subseteq Nat /\ S # {}
  BY BatchesAreLists
<1>2. PICK bound \in Nat : \A s \in Samples : Len(inputs[s]) <= bound
  BY BatchesAreLists, LensBounded DEF Samples
<1>3. \A x \in S : x <= bound
  BY <1>2
<1>4. PICK n \in S : \A y \in S : y <= n
  <2> HIDE DEF S
  <2> QED
    BY <1>1, <1>3, LargestOf
<1>5. \E k \in S : \A s \in Samples : Len(inputs[s]) <= k
  BY <1>4
<1>6. MaxLen \in S /\ \A s \in Samples : Len(inputs[s]) <= MaxLen
  BY <1>5 DEF MaxLen
<1> QED
  BY <1>1, <1>6

LEMMA FuturesAreLists ==
    ASSUME NEW future \in Futures
    PROVE  /\ future \in Seq(Tokens)
           /\ Len(future) \in Nat
           /\ Len(future) > MaxSteps
           /\ \A i \in 1 .. Len(future) : future[i] \in Tokens
<1>1. future \in Seq(Tokens) /\ Len(future) > MaxSteps
  BY GenerationAssumption
<1>2. Len(future) \in Nat
  BY <1>1
<1> QED
  BY <1>1, <1>2

-----------------------------------------------------------------------------
(* How many tokens have been sampled for a sample. *)
LEMMA SampledForNoStop ==
    ASSUME NEW s, NEW k, ~StopsWithin(alone[s], k)
    PROVE  SampledFor(s, k) = k
BY DEF SampledFor, StopsWithin

LEMMA SampledForStop ==
    ASSUME NEW s, NEW k \in Nat, StopsWithin(alone[s], k)
    PROVE  /\ SampledFor(s, k) \in 1 .. k
           /\ alone[s][SampledFor(s, k)] = EosId
           /\ \A j \in 1 .. k : alone[s][j] = EosId => SampledFor(s, k) <= j
<1> DEFINE stops == {i \in 1 .. k : alone[s][i] = EosId}
<1>1. stops # {} /\ stops \subseteq Nat
  BY DEF StopsWithin
<1>2. PICK n \in stops : \A j \in stops : n <= j
  <2> HIDE DEF stops
  <2> QED
    BY <1>1, LeastElement
<1>3. SampledFor(s, k) = CHOOSE i \in stops : \A j \in stops : i <= j
  BY <1>1 DEF SampledFor
<1>4. /\ SampledFor(s, k) \in stops
      /\ \A j \in stops : SampledFor(s, k) <= j
  <2> HIDE DEF stops
  <2> QED
    BY <1>2, <1>3
<1> QED
  BY <1>4

LEMMA SampledForStays ==
    ASSUME NEW s, NEW k \in Nat, StopsWithin(alone[s], k)
    PROVE  SampledFor(s, k + 1) = SampledFor(s, k)
<1>1. StopsWithin(alone[s], k + 1)
  BY DEF StopsWithin
<1>2. /\ SampledFor(s, k) \in 1 .. k
      /\ alone[s][SampledFor(s, k)] = EosId
      /\ \A j \in 1 .. k : alone[s][j] = EosId => SampledFor(s, k) <= j
  BY SampledForStop
<1>3. /\ SampledFor(s, k + 1) \in 1 .. k + 1
      /\ alone[s][SampledFor(s, k + 1)] = EosId
      /\ \A j \in 1 .. k + 1 : alone[s][j] = EosId => SampledFor(s, k + 1) <= j
  BY <1>1, SampledForStop, k + 1 \in Nat
<1> QED
  BY <1>2, <1>3

LEMMA SampledForNext ==
    ASSUME NEW s, NEW k \in Nat, ~StopsWithin(alone[s], k)
    PROVE  SampledFor(s, k + 1) = k + 1
<1>1. CASE StopsWithin(alone[s], k + 1)
  <2>1. SampledFor(s, k + 1) \in 1 .. k + 1 /\ alone[s][SampledFor(s, k + 1)] = EosId
    BY <1>1, SampledForStop, k + 1 \in Nat
  <2> QED
    BY <2>1 DEF StopsWithin
<1>2. CASE ~StopsWithin(alone[s], k + 1)
  BY <1>2, SampledForNoStop
<1> QED
  BY <1>1, <1>2

-----------------------------------------------------------------------------
(* The rows of a cache. *)
Ids == Tokens \cup {PadId}

LEMMA Joined ==
    ASSUME NEW S, NEW s \in Seq(S), NEW t \in Seq(S)
    PROVE  /\ s \o t \in Seq(S)
           /\ Len(s) \in Nat /\ Len(t) \in Nat
           /\ Len(s \o t) = Len(s) + Len(t)
           /\ \A i \in 1 .. Len(s) : (s \o t)[i] = s[i]
           /\ \A i \in 1 .. Len(t) : (s \o t)[Len(s) + i] = t[i]
<1> DEFINE u == s \o t
<1>1. /\ u \in Seq(S)
      /\ Len(u) = Len(s) + Len(t)
      /\ \A i \in 1 .. Len(s) + Len(t) :
            u[i] = IF i <= Len(s) THEN s[i] ELSE t[i - Len(s)]
  BY ConcatProperties
<1>2. Len(s) \in Nat /\ Len(t) \in Nat
  BY LenProperties
<1> HIDE DEF u
<1>3. ASSUME NEW i \in 1 .. Len(s)
      PROVE  u[i] = s[i]
  BY <1>1, <1>2
<1>4. ASSUME NEW i \in 1 .. Len(t)
      PROVE  u[Len(s) + i] = t[i]
  <2>1. Len(s) + i \in 1 .. Len(s) + Len(t) /\ ~(Len(s) + i <= Len(s)) /\ Len(s) + i - Len(s) = i
    BY <1>2
  <2> QED
    BY <1>1, <2>1
<1> QED
  BY <1>1, <1>2, <1>3, <1>4 DEF u

LEMMA NewRowsFacts ==
    ASSUME NEW tokens \in Seq(Ids), NEW offset \in Int
    PROVE  /\ NewRows(tokens, offset) \in Seq(KvRow)
           /\ Len(NewRows(tokens, offset)) = Len(tokens)
           /\ \A j \in 1 .. Len(tokens) :
                NewRows(tokens, offset)[j] = [token |-> tokens[j], pos |-> offset + j - 1]
<1>1. Len(tokens) \in Nat /\ \A j \in 1 .. Len(tokens) : tokens[j] \in Ids
  OBVIOUS
<1> DEFINE rows == NewRows(tokens, offset)
<1>2. rows = [j \in 1 .. Len(tokens) |-> [token |-> tokens[j], pos |-> offset + j - 1]]
  BY DEF NewRows
<1> HIDE DEF rows
<1>3. \A j \in 1 .. Len(tokens) : rows[j] = [token |-> tokens[j], pos |-> offset + j - 1]
  BY <1>2
<1>4. ASSUME NEW j \in 1 .. Len(tokens)
      PROVE  rows[j] \in KvRow
  <2>1. tokens[j] \in Ids /\ offset + j - 1 \in Int
    BY <1>1
  <2>2. [token |-> tokens[j], pos |-> offset + j - 1] \in KvRow
    BY <2>1 DEF KvRow, Ids
  <2> QED
    BY <1>3, <2>2
<1>5. rows \in [1 .. Len(tokens) -> KvRow]
  BY <1>2, <1>4
<1>6. rows \in Seq(KvRow) /\ Len(rows) = Len(tokens)
  BY <1>1, <1>5
<1> QED
  BY <1>3, <1>6 DEF rows

(* What prefill appends: the pads at negative positions, then the prompt. *)
LEMMA PrefillHolds ==
    ASSUME NEW pads \in Nat, NEW prompt \in Seq(Tokens), NEW future,
           NEW cache,
           cache = <<>> \o NewRows([i \in 1 .. pads |-> PadId] \o prompt, -pads)
    PROVE  HoldsPrefix(cache, pads, prompt, future, 1)
<1> DEFINE front == [i \in 1 .. pads |-> PadId]
           all == front \o prompt
           rows == NewRows(all, -pads)
<1>1. front \in Seq(Ids) /\ Len(front) = pads /\ prompt \in Seq(Ids)
  BY DEF Ids
<1> HIDE DEF front
<1>2. /\ all \in Seq(Ids)
      /\ Len(prompt) \in Nat
      /\ Len(all) = pads + Len(prompt)
      /\ \A i \in 1 .. Len(prompt) : all[pads + i] = prompt[i]
  <2>1. front \in Seq(Ids) /\ prompt \in Seq(Ids)
    BY <1>1
  <2>2. /\ all \in Seq(Ids)
        /\ Len(prompt) \in Nat
        /\ Len(all) = Len(front) + Len(prompt)
        /\ \A i \in 1 .. Len(prompt) : all[Len(front) + i] = prompt[i]
    BY <2>1, Joined
  <2> HIDE DEF all
  <2> QED
    BY <1>1, <2>2
<1> HIDE DEF all
<1>3. /\ rows \in Seq(KvRow)
      /\ Len(rows) = Len(all)
      /\ \A j \in 1 .. Len(all) : rows[j] = [token |-> all[j], pos |-> -pads + j - 1]
  BY <1>2, NewRowsFacts, -pads \in Int
<1> HIDE DEF rows
<1>4. cache = rows
  BY <1>3, ConcatEmptySeq DEF rows, all, front
<1>5. ASSUME NEW j \in 1 .. Len(prompt) + 1 - 1
      PROVE  cache[pads + j] = [token |-> TokenAlone(prompt, future, j), pos |-> j - 1]
  <2>1. j \in 1 .. Len(prompt) /\ pads + j \in 1 .. Len(all) /\ -pads + (pads + j) - 1 = j - 1
    BY <1>2
  <2>2. rows[pads + j] = [token |-> all[pads + j], pos |-> -pads + (pads + j) - 1]
    BY <1>3, <2>1
  <2>3. all[pads + j] = prompt[j] /\ TokenAlone(prompt, future, j) = prompt[j]
    BY <1>2, <2>1 DEF TokenAlone
  <2> QED
    BY <1>4, <2>1, <2>2, <2>3
<1>6. cache \in Seq(KvRow) /\ Len(cache) = pads + Len(prompt) + 1 - 1
  BY <1>2, <1>3, <1>4
<1> QED
  BY <1>5, <1>6 DEF HoldsPrefix

(* What a decode step appends: the latest token, at the next position. *)
LEMMA DecodeHolds ==
    ASSUME NEW pads \in Nat, NEW prompt \in Seq(Tokens), NEW future,
           NEW n \in Nat \ {0}, NEW cache, HoldsPrefix(cache, pads, prompt, future, n),
           NEW token \in Tokens, prompt # <<>> => token = future[n],
           NEW longer, longer = cache \o NewRows(<<token>>, Len(prompt) + n - 1)
    PROVE  HoldsPrefix(longer, pads, prompt, future, n + 1)
<1> DEFINE len == Len(prompt) + n - 1
<1>1. Len(prompt) \in Nat /\ len \in Nat
  OBVIOUS
<1> HIDE DEF len
<1> DEFINE one == <<token>>
<1>2. one \in Seq(Ids) /\ Len(one) = 1 /\ one[1] = token
  BY DEF Ids
<1> HIDE DEF one
<1> DEFINE rows == NewRows(one, len)
<1>3. /\ rows \in Seq(KvRow)
      /\ Len(rows) = 1
      /\ rows[1] = [token |-> token, pos |-> len + 1 - 1]
  <2>1. /\ rows \in Seq(KvRow)
        /\ Len(rows) = Len(one)
        /\ \A j \in 1 .. Len(one) : rows[j] = [token |-> one[j], pos |-> len + j - 1]
    BY <1>1, <1>2, NewRowsFacts
  <2> HIDE DEF rows
  <2> QED
    BY <1>2, <2>1
<1>4. /\ cache \in Seq(KvRow)
      /\ Len(cache) = pads + len
      /\ prompt # <<>> =>
           \A j \in 1 .. len :
              cache[pads + j] = [token |-> TokenAlone(prompt, future, j), pos |-> j - 1]
  BY DEF HoldsPrefix, len
<1> HIDE DEF rows
<1>5. longer = cache \o rows
  BY DEF rows, len, one
<1>6. /\ longer \in Seq(KvRow)
      /\ Len(longer) = pads + len + 1
      /\ \A i \in 1 .. pads + len : longer[i] = cache[i]
      /\ longer[pads + len + 1] = rows[1]
  <2>0. cache \in Seq(KvRow) /\ rows \in Seq(KvRow)
    BY <1>3, <1>4
  <2>1. /\ cache \o rows \in Seq(KvRow)
        /\ Len(cache \o rows) = Len(cache) + Len(rows)
        /\ \A i \in 1 .. Len(cache) : (cache \o rows)[i] = cache[i]
        /\ \A i \in 1 .. Len(rows) : (cache \o rows)[Len(cache) + i] = rows[i]
    BY <2>0, Joined
  <2> DEFINE u == cache \o rows
  <2>2. /\ u \in Seq(KvRow)
        /\ Len(u) = Len(cache) + Len(rows)
        /\ \A i \in 1 .. Len(cache) : u[i] = cache[i]
        /\ \A i \in 1 .. Len(rows) : u[Len(cache) + i] = rows[i]
    BY <2>1
  <2> HIDE DEF u
  <2>3. u[pads + len + 1] = rows[1]
    <3>1. 1 \in 1 .. Len(rows) /\ Len(cache) + 1 = pads + len + 1
      BY <1>3, <1>4
    <3> QED
      BY <2>2, <3>1
  <2>4. Len(u) = pads + len + 1 /\ \A i \in 1 .. pads + len : u[i] = cache[i]
    BY <1>3, <1>4, <2>2
  <2>5. longer = u
    BY <1>5 DEF u
  <2> QED
    BY <2>2, <2>3, <2>4, <2>5
<1>7. ASSUME prompt # <<>>, NEW j \in 1 .. len + 1
      PROVE  longer[pads + j] = [token |-> TokenAlone(prompt, future, j), pos |-> j - 1]
  <2>1. CASE j \in 1 .. len
    <3>1. pads + j \in 1 .. pads + len
      BY <1>1, <2>1
    <3> QED
      BY <1>4, <1>6, <1>7, <2>1, <3>1
  <2>2. CASE j = len + 1
    <3>1. TokenAlone(prompt, future, j) = token
      <4>1. ~(j <= Len(prompt)) /\ j - Len(prompt) = n
        BY <1>1, <2>2 DEF len
      <4> QED
        BY <1>7, <4>1 DEF TokenAlone
    <3>2. pads + j = pads + len + 1 /\ len + 1 - 1 = j - 1
      BY <1>1, <2>2
    <3> QED
      BY <1>3, <1>6, <3>1, <3>2
  <2>3. j \in 1 .. len \/ j = len + 1
    BY <1>1, <1>7
  <2> QED
    BY <2>1, <2>2, <2>3
<1>8. Len(prompt) + (n + 1) - 1 = len + 1 /\ pads + Len(prompt) + (n + 1) - 1 = pads + len + 1
  BY <1>1 DEF len
<1> QED
  BY <1>6, <1>7, <1>8 DEF HoldsPrefix

(* Behind its pads, a sample attends to what it would see alone. *)
LEMMA AttendedAlone ==
    ASSUME NEW pads \in Nat, NEW prompt \in Seq(Tokens), NEW future \in Seq(Tokens),
           NEW n \in Nat \ {0}, n - 1 <= Len(future),
           NEW cache, HoldsPrefix(cache, pads, prompt, future, n)
    PROVE  /\ Len(SubSeq(cache, pads + 1, Len(cache))) = Len(prompt) + n - 1
           /\ prompt # <<>> =>
                SubSeq(cache, pads + 1, Len(cache))
                    = NewRows(prompt \o SubSeq(future, 1, n - 1), 0)
<1> DEFINE len == Len(prompt) + n - 1
           seen == SubSeq(cache, pads + 1, Len(cache))
           next == SubSeq(future, 1, n - 1)
           rows == NewRows(prompt \o next, 0)
<1>1. Len(prompt) \in Nat /\ len \in Nat /\ Len(future) \in Nat /\ n - 1 \in Nat
  OBVIOUS
<1>2. /\ cache \in Seq(KvRow)
      /\ Len(cache) = pads + len
      /\ prompt # <<>> =>
           \A j \in 1 .. len :
              cache[pads + j] = [token |-> TokenAlone(prompt, future, j), pos |-> j - 1]
  BY DEF HoldsPrefix
<1>3. /\ seen \in Seq(KvRow)
      /\ Len(seen) = len
      /\ \A j \in 1 .. len : seen[j] = cache[pads + j]
  <2> HIDE DEF len
  <2>1. pads + 1 \in Int /\ Len(cache) \in Int /\ Len(cache) \in Nat
    BY <1>1, <1>2
  <2>2. \A i \in pads + 1 .. Len(cache) : cache[i] \in KvRow
    <3>1. \A i \in pads + 1 .. Len(cache) : i \in 1 .. Len(cache)
      BY <2>1
    <3> QED
      BY <1>2, <3>1, ElementOfSeq
  <2>3. /\ seen \in Seq(KvRow)
        /\ Len(seen) = IF pads + 1 <= Len(cache) THEN Len(cache) - (pads + 1) + 1 ELSE 0
        /\ \A j \in 1 .. Len(cache) - (pads + 1) + 1 : seen[j] = cache[pads + 1 + j - 1]
    <3> DEFINE first == pads + 1
               last == Len(cache)
    <3>1. first \in Int /\ last \in Int /\ \A i \in first .. last : cache[i] \in KvRow
      BY <2>1, <2>2
    <3> HIDE DEF first, last
    <3>2. LET sub == SubSeq(cache, first, last) IN
            /\ sub \in Seq(KvRow)
            /\ Len(sub) = IF first <= last THEN last - first + 1 ELSE 0
            /\ \A j \in 1 .. last - first + 1 : sub[j] = cache[first + j - 1]
      BY <3>1, SubSeqProperties
    <3> QED
      BY <3>2 DEF first, last
  <2> HIDE DEF seen
  <2>4. Len(seen) = len
    <3>1. CASE len = 0
      BY <1>1, <1>2, <2>1, <2>3, <3>1
    <3>2. CASE len > 0
      BY <1>1, <1>2, <2>1, <2>3, <3>2
    <3> QED
      BY <1>1, <3>1, <3>2
  <2>5. \A j \in 1 .. len : pads + 1 + j - 1 = pads + j /\ j \in 1 .. Len(cache) - (pads + 1) + 1
    BY <1>1, <1>2
  <2> QED
    BY <2>3, <2>4, <2>5
<1>4. /\ next \in Seq(Tokens)
      /\ Len(next) = n - 1
      /\ \A i \in 1 .. n - 1 : next[i] = future[i]
  <2>1. \A i \in 1 .. n - 1 : i \in 1 .. Len(future)
    BY <1>1
  <2>2. \A i \in 1 .. n - 1 : future[i] \in Tokens
    BY <2>1, ElementOfSeq
  <2>3. /\ next \in Seq(Tokens)
        /\ Len(next) = IF 1 <= n - 1 THEN n - 1 - 1 + 1 ELSE 0
        /\ \A i \in 1 .. n - 1 - 1 + 1 : next[i] = future[1 + i - 1]
    BY <1>1, <2>2, SubSeqProperties
  <2> HIDE DEF next
  <2>4. \A i \in 1 .. n - 1 : 1 + i - 1 = i /\ i \in 1 .. n - 1 - 1 + 1
    BY <1>1
  <2>5. Len(next) = n - 1
    BY <1>1, <2>3
  <2> QED
    BY <2>3, <2>4, <2>5
<1> HIDE DEF seen, next
<1>5. /\ prompt \o next \in Seq(Ids)
      /\ Len(prompt \o next) = len
      /\ \A j \in 1 .. len : (prompt \o next)[j] = TokenAlone(prompt, future, j)
  <2> DEFINE both == prompt \o next
  <2>0. prompt \in Seq(Tokens) /\ next \in Seq(Tokens)
    BY <1>4
  <2>1. /\ both \in Seq(Tokens)
        /\ Len(both) = Len(prompt) + Len(next)
        /\ \A i \in 1 .. Len(prompt) : both[i] = prompt[i]
        /\ \A i \in 1 .. Len(next) : both[Len(prompt) + i] = next[i]
    BY <2>0, Joined
  <2>2. both \in Seq(Ids)
    BY <2>1, SeqMonotonic, Tokens \subseteq Ids DEF Ids
  <2> HIDE DEF both
  <2>3. Len(both) = len
    BY <1>1, <1>4, <2>1
  <2>4. ASSUME NEW j \in 1 .. len
        PROVE  both[j] = TokenAlone(prompt, future, j)
    <3>1. CASE j <= Len(prompt)
      <4>1. j \in 1 .. Len(prompt)
        BY <3>1
      <4> QED
        BY <2>1, <3>1, <4>1 DEF TokenAlone
    <3>2. CASE ~(j <= Len(prompt))
      <4>1. j - Len(prompt) \in 1 .. n - 1 /\ Len(prompt) + (j - Len(prompt)) = j
        BY <1>1, <3>2
      <4>2. both[j] = next[j - Len(prompt)]
        BY <1>4, <2>1, <4>1
      <4> QED
        BY <1>4, <3>2, <4>1, <4>2 DEF TokenAlone
    <3> QED
      BY <3>1, <3>2
  <2> QED
    BY <2>2, <2>3, <2>4 DEF both
<1>6. /\ rows \in Seq(KvRow)
      /\ Len(rows) = len
      /\ \A j \in 1 .. len : rows[j] = [token |-> TokenAlone(prompt, future, j), pos |-> j - 1]
  <2> DEFINE both == prompt \o next
  <2> HIDE DEF both, len
  <2>1. both \in Seq(Ids) /\ Len(both) = len /\ 0 \in Int
    BY <1>5 DEF both
  <2>2. /\ NewRows(both, 0) \in Seq(KvRow)
        /\ Len(NewRows(both, 0)) = Len(both)
        /\ \A j \in 1 .. Len(both) : NewRows(both, 0)[j] = [token |-> both[j], pos |-> 0 + j - 1]
    BY <2>1, NewRowsFacts
  <2>3. \A j \in 1 .. len : 0 + j - 1 = j - 1
    BY <1>1
  <2>4. \A j \in 1 .. len : both[j] = TokenAlone(prompt, future, j)
    BY <1>5 DEF both
  <2>5. rows = NewRows(both, 0)
    BY DEF both
  <2> HIDE DEF rows
  <2> QED
    BY <2>1, <2>2, <2>3, <2>4, <2>5
<1> HIDE DEF rows
<1>7. ASSUME prompt # <<>>
      PROVE  seen = rows
  <2>1. \A j \in 1 .. Len(seen) : seen[j] = rows[j]
    <3> HIDE DEF len
    <3> QED
      BY <1>2, <1>3, <1>6, <1>7
  <2>2. Len(seen) = Len(rows) /\ seen \in Seq(KvRow) /\ rows \in Seq(KvRow)
    BY <1>3, <1>6
  <2> QED
    BY <2>1, <2>2, SeqEqual
<1> QED
  BY <1>3, <1>7 DEF seen, rows, next, len

-----------------------------------------------------------------------------
(* A forward pass. *)
LEMMA RowOfSample ==
    ASSUME Injective(sample_ids), NEW i \in Rows
    PROVE  (CHOOSE j \in Rows : sample_ids[j] = sample_ids[i]) = i
BY DEF Injective, Rows

LEMMA IdsOfRows ==
    ASSUME sample_ids \in Seq(Samples)
    PROVE  Len(sample_ids) \in Nat /\ \A i \in Rows : sample_ids[i] \in Samples
BY DEF Rows

Extended(rows, tokens, offset) == rows \o NewRows(tokens, offset)

LEMMA CacheAfterFacts ==
    ASSUME sample_ids \in Seq(Samples), Injective(sample_ids),
           NEW tokens, NEW offsets
    PROVE  /\ \A i \in Rows :
                CacheAfter(tokens, offsets)[sample_ids[i]]
                  = Extended(kv_cache[sample_ids[i]], tokens[i], offsets[i])
           /\ \A s \in Samples :
                ~InBatch(s) => CacheAfter(tokens, offsets)[s] = kv_cache[s]
<1>1. ASSUME NEW i \in Rows
      PROVE  CacheAfter(tokens, offsets)[sample_ids[i]]
                = Extended(kv_cache[sample_ids[i]], tokens[i], offsets[i])
  <2> DEFINE s == sample_ids[i]
             j == CHOOSE j \in Rows : sample_ids[j] = s
  <2>1. s \in Samples
    BY IdsOfRows
  <2>2. j = i
    BY RowOfSample
  <2>3. \E k \in Rows : sample_ids[k] = s
    OBVIOUS
  <2> HIDE DEF s
  <2>4. CacheAfter(tokens, offsets)[s] = Extended(kv_cache[s], tokens[j], offsets[j])
    BY <2>1, <2>3 DEF CacheAfter, EachSample, Extended
  <2> HIDE DEF j
  <2> QED
    BY <2>2, <2>4 DEF s
<1>2. ASSUME NEW s \in Samples, ~InBatch(s)
      PROVE  CacheAfter(tokens, offsets)[s] = kv_cache[s]
  BY <1>2 DEF CacheAfter, EachSample, InBatch
<1> QED
  BY <1>1, <1>2

(* What a pass records, when every row has reached the end of its prompt. *)
LEMMA PassRecords ==
    ASSUME sample_ids \in Seq(Samples), Injective(sample_ids),
           outputs \in [Samples -> Seq(Tokens)],
           NEW cache, NEW at, ForwardAndRecord(cache, at),
           \A s \in Samples : ShouldSampleStep(s, at)
    PROVE  /\ kv_cache' = cache
           /\ next_generated_tokens' \in Seq(Tokens)
           /\ Len(next_generated_tokens') = Len(sample_ids)
           /\ \A i \in Rows : /\ next_generated_tokens'[i] \in Tokens
                              /\ next_generated_tokens'[i] \in Sampled(sample_ids[i], cache)
           /\ outputs' \in [Samples -> Seq(Tokens)]
           /\ \A i \in Rows :
                outputs'[sample_ids[i]] =
                  IF next_generated_tokens'[i] # PadId
                  THEN Append(outputs[sample_ids[i]], next_generated_tokens'[i])
                  ELSE outputs[sample_ids[i]]
           /\ \A s \in Samples : ~InBatch(s) => outputs'[s] = outputs[s]
<1> DEFINE After(s, next) ==
               IF \E i \in Rows : /\ sample_ids[i] = s /\ Recorded(next[i])
                                  /\ ShouldSampleStep(s, at)
               THEN Append(outputs[s], next[CHOOSE i \in Rows : sample_ids[i] = s])
               ELSE outputs[s]
<1>1. PICK next \in [Rows -> Tokens \ Unnamed] :
        /\ \A i \in Rows : next[i] \in Sampled(sample_ids[i], cache)
        /\ next_generated_tokens' = next
        /\ outputs' = [s \in Samples |-> After(s, next)]
  BY DEF ForwardAndRecord, EachSample
<1>2. kv_cache' = cache
  BY DEF ForwardAndRecord
<1>3. Len(sample_ids) \in Nat /\ \A i \in Rows : sample_ids[i] \in Samples
  BY IdsOfRows
<1>4. next \in [1 .. Len(sample_ids) -> Tokens]
  BY <1>1 DEF Rows
<1>5. next \in Seq(Tokens) /\ Len(next) = Len(sample_ids)
  BY <1>3, <1>4
<1>6. ASSUME NEW i \in Rows
      PROVE  After(sample_ids[i], next) =
                  IF next[i] # PadId THEN Append(outputs[sample_ids[i]], next[i])
                  ELSE outputs[sample_ids[i]]
  <2> DEFINE s == sample_ids[i]
             j == CHOOSE j \in Rows : sample_ids[j] = s
  <2>1. j = i
    BY RowOfSample
  <2>2. s \in Samples /\ ShouldSampleStep(s, at)
    BY <1>3
  <2>3. \A k \in Rows : sample_ids[k] = s => k = i
    BY DEF Injective, Rows
  <2> HIDE DEF j
  <2>4. CASE next[i] # PadId
    <3>1. \E k \in Rows : /\ sample_ids[k] = s /\ Recorded(next[k])
                          /\ ShouldSampleStep(s, at)
      BY <2>2, <2>4 DEF Recorded
    <3>2. After(s, next) = Append(outputs[s], next[j])
      BY <3>1 DEF j
    <3> HIDE DEF s, After
    <3> QED
      BY <2>1, <2>4, <3>2 DEF s
  <2>5. CASE next[i] = PadId
    <3>1. ~\E k \in Rows : /\ sample_ids[k] = s /\ Recorded(next[k])
                           /\ ShouldSampleStep(s, at)
      BY <2>3, <2>5 DEF Recorded
    <3>2. After(s, next) = outputs[s]
      BY <3>1
    <3> HIDE DEF After
    <3> QED
      BY <2>5, <3>2
  <2> QED
    BY <2>4, <2>5
<1>7. ASSUME NEW s \in Samples, ~InBatch(s)
      PROVE  After(s, next) = outputs[s]
  BY <1>7 DEF InBatch
<1> HIDE DEF After
<1>8. ASSUME NEW s \in Samples
      PROVE  outputs'[s] \in Seq(Tokens)
  <2>1. outputs'[s] = After(s, next) /\ outputs[s] \in Seq(Tokens)
    BY <1>1
  <2>2. CASE InBatch(s)
    <3>1. PICK i \in Rows : sample_ids[i] = s
      BY <2>2 DEF InBatch
    <3>2. next[i] \in Tokens
      BY <1>1
    <3>3. CASE next[i] # PadId
      <4>1. After(s, next) = Append(outputs[s], next[i])
        BY <1>6, <3>1, <3>3
      <4> QED
        BY <2>1, <3>2, <4>1
    <3>4. CASE next[i] = PadId
      BY <1>6, <2>1, <3>1, <3>4
    <3> QED
      BY <3>3, <3>4
  <2>3. CASE ~InBatch(s)
    BY <1>7, <2>1, <2>3
  <2> QED
    BY <2>2, <2>3
<1>9. outputs' \in [Samples -> Seq(Tokens)]
  <2>1. outputs' = [s \in Samples |-> outputs'[s]]
    BY <1>1
  <2> QED
    BY <1>8, <2>1
<1>10. ASSUME NEW i \in Rows
       PROVE  /\ next_generated_tokens'[i] \in Tokens
              /\ next_generated_tokens'[i] \in Sampled(sample_ids[i], cache)
              /\ outputs'[sample_ids[i]] =
                  IF next_generated_tokens'[i] # PadId
                  THEN Append(outputs[sample_ids[i]], next_generated_tokens'[i])
                  ELSE outputs[sample_ids[i]]
  <2>1. outputs'[sample_ids[i]] = After(sample_ids[i], next)
    BY <1>1, <1>3
  <2>2. next[i] \in Tokens
    BY <1>1
  <2> QED
    BY <1>1, <1>6, <2>1, <2>2
<1>11. \A s \in Samples : ~InBatch(s) => outputs'[s] = outputs[s]
  BY <1>1, <1>7
<1> QED
  BY <1>1, <1>2, <1>5, <1>9, <1>10, <1>11

(* The model yields the token the sample would get alone. *)
LEMMA SampledAlone ==
    ASSUME inputs \in Batches, alone \in [Samples -> Futures],
           NEW s \in Samples, inputs[s] # <<>>, NEW cache, NEW n \in Nat \ {0},
           n <= Len(alone[s]),
           pad_lens[s] = MaxLen - Len(inputs[s]),
           HoldsPrefix(cache[s], MaxLen - Len(inputs[s]), inputs[s], alone[s], n)
    PROVE  Sampled(s, cache) = {alone[s][n]}
<1>1. /\ inputs[s] \in Seq(Tokens) /\ Len(inputs[s]) \in Nat
      /\ MaxLen - Len(inputs[s]) \in Nat
  BY BatchesAreLists, MaxLenFacts
<1>2. alone[s] \in Seq(Tokens) /\ Len(alone[s]) \in Nat
  <2>1. alone[s] \in Futures
    OBVIOUS
  <2> QED
    BY <2>1, FuturesAreLists
<1>3. n - 1 <= Len(alone[s])
  BY <1>2
<1> DEFINE pads == MaxLen - Len(inputs[s])
           kv == cache[s]
           prompt == inputs[s]
           future == alone[s]
           seen == SubSeq(kv, pads + 1, Len(kv))
<1> HIDE DEF pads, kv, prompt, future
<1>4. /\ pads \in Nat /\ prompt \in Seq(Tokens) /\ future \in Seq(Tokens)
      /\ n - 1 <= Len(future) /\ HoldsPrefix(kv, pads, prompt, future, n)
      /\ prompt # <<>>
  BY <1>1, <1>2, <1>3 DEF pads, kv, prompt, future
<1>5. /\ Len(seen) = Len(prompt) + n - 1
      /\ seen = NewRows(prompt \o SubSeq(future, 1, n - 1), 0)
  BY <1>4, AttendedAlone
<1>6. Attended(s, cache) = seen
  BY DEF Attended, pads, kv
<1>7. SoloRows(s, n) = NewRows(prompt \o SubSeq(future, 1, n - 1), 0)
  BY DEF SoloRows, prompt, future
<1> HIDE DEF seen
<1> DEFINE m == Len(Attended(s, cache)) - Len(inputs[s]) + 1
<1>8. m = n
  BY <1>1, <1>5, <1>6 DEF prompt
<1>9. n \in 1 .. Len(alone[s]) /\ Attended(s, cache) = SoloRows(s, n)
  BY <1>2, <1>5, <1>6, <1>7
<1> QED
  BY <1>8, <1>9 DEF Sampled

-----------------------------------------------------------------------------
(* The steps. *)
LEMMA ListOfLength ==
    ASSUME NEW S, NEW n \in Nat, NEW list \in [1 .. n -> S]
    PROVE  list \in Seq(S) /\ Len(list) = n
OBVIOUS

LEMMA SameBatch ==
    ASSUME inputs' = inputs
    PROVE  MaxLen' = MaxLen /\ Samples' = Samples
BY DEF MaxLen, Samples

(* Prefill and a decode step alike: the n-th pass keeps the invariant when it
   is fed what the samples would see alone before their n-th token. *)
LEMMA PassKeeps ==
    ASSUME TypeOK, Padding, pc # "get_inputs", MaxLen > 0,
           NEW n \in Nat \ {0}, n <= MaxSteps, n <= Larger(1, MaxSteps - MaxLen + 1),
           Injective(sample_ids),
           NEW cache, NEW at \in Int, at >= MaxLen - 1, ForwardAndRecord(cache, at),
           \A s \in Samples : InBatch(s) =>
               HoldsPrefix(cache[s], MaxLen - Len(inputs[s]), inputs[s], alone[s], n),
           \A s \in Samples : ~InBatch(s) => cache[s] = <<>>,
           \A s \in Samples : inputs[s] # <<>> =>
               (InBatch(s) <=> ~StopsWithin(alone[s], n - 1)),
           \A s \in Samples : inputs[s] # <<>> =>
               outputs[s] = WithoutPads(alone[s], SampledFor(s, n - 1)),
           pos_lens_by_sample' \in [Samples -> Nat],
           \A s \in Samples : InBatch(s) => pos_lens_by_sample'[s] = Len(inputs[s]) + n - 1,
           step' = MaxLen + n - 1, pc' = "filter",
           UNCHANGED <<data_vars, sample_ids, alone>>
    PROVE  GenerationInv'
<1>1. /\ inputs' = inputs /\ seq_lens' = seq_lens /\ pad_lens' = pad_lens
      /\ sample_ids' = sample_ids /\ alone' = alone
  BY DEF data_vars
<1>2. MaxLen' = MaxLen /\ Samples' = Samples
  BY <1>1, SameBatch
<1>3. /\ inputs \in Batches /\ alone \in [Samples -> Futures]
      /\ sample_ids \in Seq(Samples) /\ outputs \in [Samples -> Seq(Tokens)]
  BY DEF TypeOK
<1>4. /\ MaxLen \in Nat
      /\ \A s \in Samples : Len(inputs[s]) \in Nat /\ Len(inputs[s]) <= MaxLen
  BY <1>3, BatchesAreLists, MaxLenFacts
<1>5. \A s \in Samples : ShouldSampleStep(s, at)
  BY <1>4 DEF ShouldSampleStep
<1>6. /\ kv_cache' = cache
      /\ next_generated_tokens' \in Seq(Tokens)
      /\ Len(next_generated_tokens') = Len(sample_ids)
      /\ \A i \in Rows : /\ next_generated_tokens'[i] \in Tokens
                         /\ next_generated_tokens'[i] \in Sampled(sample_ids[i], cache)
      /\ outputs' \in [Samples -> Seq(Tokens)]
      /\ \A i \in Rows :
           outputs'[sample_ids[i]] =
             IF next_generated_tokens'[i] # PadId
             THEN Append(outputs[sample_ids[i]], next_generated_tokens'[i])
             ELSE outputs[sample_ids[i]]
      /\ \A s \in Samples : ~InBatch(s) => outputs'[s] = outputs[s]
  BY <1>3, <1>5, PassRecords
<1>7. R' = n
  BY <1>2, <1>4 DEF R
<1>8. Rows' = Rows /\ \A s \in Samples : InBatch(s)' <=> InBatch(s)
  BY <1>1 DEF Rows, InBatch
<1>9. \A s \in Samples : alone[s] \in Futures /\ Len(alone[s]) \in Nat /\ n <= Len(alone[s])
  <2>1. ASSUME NEW s \in Samples
        PROVE  alone[s] \in Futures /\ Len(alone[s]) \in Nat /\ n <= Len(alone[s])
    <3>1. alone[s] \in Futures
      BY <1>3
    <3>2. Len(alone[s]) \in Nat /\ Len(alone[s]) > MaxSteps
      BY <3>1, FuturesAreLists
    <3>3. MaxSteps \in Nat
      BY GenerationAssumption
    <3> QED
      BY <3>1, <3>2, <3>3
  <2> QED
    BY <2>1
<1>10. ASSUME NEW i \in Rows, inputs[sample_ids[i]] # <<>>
       PROVE  next_generated_tokens'[i] = alone[sample_ids[i]][n]
  <2>1. sample_ids[i] \in Samples /\ InBatch(sample_ids[i])
    BY <1>3, IdsOfRows DEF InBatch
  <2>2. pad_lens[sample_ids[i]] = MaxLen - Len(inputs[sample_ids[i]])
    BY <2>1 DEF Padding
  <2>3. Sampled(sample_ids[i], cache) = {alone[sample_ids[i]][n]}
    BY <1>3, <1>9, <1>10, <2>1, <2>2, SampledAlone
  <2> QED
    BY <1>6, <2>3
<1>11. TypeOK'
  <2>1. /\ inputs' \in Batches
        /\ seq_lens' \in [Samples' -> Nat] /\ pad_lens' \in [Samples' -> Nat]
        /\ alone' \in [Samples' -> Futures]
        /\ sample_ids' \in Seq(Samples')
    BY <1>1, <1>2 DEF TypeOK
  <2>2. outputs' \in [Samples' -> Seq(Tokens)] /\ next_generated_tokens' \in Seq(Tokens)
    BY <1>2, <1>6
  <2>3. step' \in Nat
    BY <1>4
  <2>4. pos_lens_by_sample' \in Seq(Nat)
    <3>1. pos_lens_by_sample' \in [1 .. Len(inputs) -> Nat] /\ Len(inputs) \in Nat
      BY <1>3, BatchesAreLists DEF Samples
    <3> QED
      BY <3>1, ListOfLength
  <2> QED
    BY <2>1, <2>2, <2>3, <2>4 DEF TypeOK
<1>12. Padding' /\ NothingYet' /\ ReadyToPrefill' /\ AtTheEnd'
  <2>1. Padding'
    BY <1>1, <1>2 DEF Padding
  <2> QED
    BY <2>1 DEF NothingYet, ReadyToPrefill, AtTheEnd
<1>13. RowsInStep'
  <2>1. R' \in 1 .. Larger(1, MaxSteps - MaxLen + 1)'
    <3>1. Larger(1, MaxSteps - MaxLen + 1)' = Larger(1, MaxSteps - MaxLen + 1)
      BY <1>2 DEF Larger
    <3>2. Larger(1, MaxSteps - MaxLen + 1) \in Int
      BY <1>4, GenerationAssumption DEF Larger
    <3> QED
      BY <1>7, <3>1, <3>2
  <2>2. Injective(sample_ids') /\ Len(next_generated_tokens') = Len(sample_ids')
    BY <1>1, <1>6
  <2>3. \A s \in Samples : InBatch(s)' => pos_lens_by_sample'[s] = Len(inputs'[s]) + R' - 1
    BY <1>1, <1>7, <1>8
  <2> QED
    BY <1>2, <2>1, <2>2, <2>3 DEF RowsInStep
<1>14. LatestTokens'
  BY <1>1, <1>7, <1>8, <1>10 DEF LatestTokens
<1>15. LeavesAtEos'
  <2>1. \A s \in Samples : inputs[s] # <<>> =>
            (InBatch(s)' <=> ~StopsWithin(alone'[s], R' - 1))
    BY <1>1, <1>7, <1>8
  <2> QED
    BY <1>1, <1>2, <2>1 DEF LeavesAtEos
<1>16. CachesHold'
  <2>1. \A s \in Samples :
          /\ InBatch(s)' =>
               HoldsPrefix(kv_cache'[s], MaxLen' - Len(inputs'[s]), inputs'[s], alone'[s], R')
          /\ ~InBatch(s)' => kv_cache'[s] = <<>>
    BY <1>1, <1>2, <1>6, <1>7, <1>8
  <2> QED
    BY <1>2, <2>1 DEF CachesHold
<1>17. ASSUME NEW s \in Samples, inputs[s] # <<>>
       PROVE  outputs'[s] = WithoutPads(alone[s], SampledFor(s, n))
  <2>1. n - 1 \in Nat /\ n - 1 + 1 = n
    OBVIOUS
  <2>2. CASE InBatch(s)
    <3>1. ~StopsWithin(alone[s], n - 1)
      BY <1>17, <2>2
    <3>2. SampledFor(s, n - 1) = n - 1 /\ SampledFor(s, n) = n
      <4>1. SampledFor(s, n - 1) = n - 1
        BY <2>1, <3>1, SampledForNoStop
      <4>2. SampledFor(s, n - 1 + 1) = n - 1 + 1
        BY <2>1, <3>1, SampledForNext
      <4> QED
        BY <2>1, <4>1, <4>2
    <3>3. WithoutPads(alone[s], n - 1 + 1) =
            IF alone[s][n - 1 + 1] # PadId
            THEN Append(WithoutPads(alone[s], n - 1), alone[s][n - 1 + 1])
            ELSE WithoutPads(alone[s], n - 1)
      <4>1. Len(alone[s]) \in Nat /\ n - 1 + 1 <= Len(alone[s])
        BY <1>9, <2>1
      <4> QED
        BY <2>1, <4>1, OneTokenMore
    <3>4. outputs[s] = WithoutPads(alone[s], n - 1)
      BY <1>17, <3>2
    <3>5. PICK i \in Rows : sample_ids[i] = s
      BY <2>2 DEF InBatch
    <3>6. next_generated_tokens'[i] = alone[s][n]
      BY <1>10, <1>17, <3>5
    <3>7. outputs'[s] = IF alone[s][n] # PadId THEN Append(outputs[s], alone[s][n])
                        ELSE outputs[s]
      BY <1>6, <3>5, <3>6
    <3> QED
      BY <2>1, <3>2, <3>3, <3>4, <3>7
  <2>3. CASE ~InBatch(s)
    <3>1. StopsWithin(alone[s], n - 1)
      BY <1>17, <2>3
    <3>2. SampledFor(s, n - 1 + 1) = SampledFor(s, n - 1)
      BY <2>1, <3>1, SampledForStays
    <3>3. outputs'[s] = outputs[s]
      BY <1>6, <2>3
    <3> QED
      BY <1>17, <2>1, <3>2, <3>3
  <2> QED
    BY <2>2, <2>3
<1>18. OutputsAlone'
  <2>1. \A s \in Samples : SampledFor(s, R)' = SampledFor(s, n)
    BY <1>1, <1>7 DEF SampledFor
  <2>2. \A s \in Samples : inputs[s] # <<>> =>
            outputs'[s] = WithoutPads(alone'[s], SampledFor(s, R)')
    BY <1>1, <1>17, <2>1
  <2> QED
    BY <1>1, <1>2, <2>2 DEF OutputsAlone
<1> QED
  BY <1>11, <1>12, <1>13, <1>14, <1>15, <1>16, <1>18 DEF GenerationInv

LEMMA LenPadded ==
    ASSUME inputs \in Batches, NEW s \in Samples,
           pad_lens = [t \in Samples |-> MaxLen - Len(inputs[t])]
    PROVE  Len(Padded(s)) = MaxLen
<1>1. /\ inputs[s] \in Seq(Tokens) /\ Len(inputs[s]) \in Nat
      /\ MaxLen \in Nat /\ Len(inputs[s]) <= MaxLen
  BY BatchesAreLists, MaxLenFacts
<1> DEFINE pads == MaxLen - Len(inputs[s])
           front == [i \in 1 .. pads |-> PadId]
<1>2. pads \in Nat /\ pad_lens[s] = pads
  BY <1>1
<1>3. front \in Seq(Ids) /\ Len(front) = pads
  BY <1>2 DEF Ids
<1>4. inputs[s] \in Seq(Ids)
  BY <1>1, SeqMonotonic, Tokens \subseteq Ids DEF Ids
<1> HIDE DEF front
<1>5. Len(front \o inputs[s]) = Len(front) + Len(inputs[s])
  <2>1. front \in Seq(Ids) /\ inputs[s] \in Seq(Ids)
    BY <1>3, <1>4
  <2> QED
    BY <2>1, Joined
<1>6. Padded(s) = front \o inputs[s]
  BY <1>2 DEF Padded, front
<1> QED
  BY <1>1, <1>3, <1>5, <1>6

LEMMA GenerationStarts ==
    ASSUME Init
    PROVE  GenerationInv
<1>1. /\ pc = "get_inputs" /\ inputs \in Batches /\ alone \in [Samples -> Futures]
      /\ seq_lens = [s \in Samples |-> 0] /\ pad_lens = [s \in Samples |-> 0]
      /\ outputs = [s \in Samples |-> <<>>] /\ kv_cache = [s \in Samples |-> <<>>]
      /\ sample_ids = <<>> /\ next_generated_tokens = <<>>
      /\ pos_lens_by_sample = <<>> /\ step = 0
  BY DEF Init, EachSample
<1>2. TypeOK
  <2>1. /\ seq_lens \in [Samples -> Nat] /\ pad_lens \in [Samples -> Nat]
        /\ outputs \in [Samples -> Seq(Tokens)]
    BY <1>1
  <2>2. /\ sample_ids \in Seq(Samples) /\ next_generated_tokens \in Seq(Tokens)
        /\ pos_lens_by_sample \in Seq(Nat) /\ step \in Nat
    BY <1>1
  <2> QED
    BY <1>1, <2>1, <2>2 DEF TypeOK
<1> QED
  BY <1>1, <1>2 DEF GenerationInv, Padding, NothingYet, ReadyToPrefill, RowsInStep,
                    LatestTokens, LeavesAtEos, CachesHold, OutputsAlone, AtTheEnd

LEMMA GetInputsKeeps ==
    ASSUME GenerationInv, GetInputs
    PROVE  GenerationInv'
<1>1. /\ pc = "get_inputs" /\ pc' = "forward"
      /\ seq_lens' = [s \in Samples |-> Len(inputs[s])]
      /\ pad_lens' = [s \in Samples |-> MaxLen - Len(inputs[s])]
      /\ inputs' = inputs /\ outputs' = outputs /\ sample_ids' = sample_ids
      /\ next_generated_tokens' = next_generated_tokens
      /\ pos_lens_by_sample' = pos_lens_by_sample /\ step' = step
      /\ kv_cache' = kv_cache /\ alone' = alone
  BY DEF GetInputs, EachSample, row_vars
<1>2. MaxLen' = MaxLen /\ Samples' = Samples
  BY <1>1, SameBatch
<1>3. inputs \in Batches /\ TypeOK
  BY DEF GenerationInv, TypeOK
<1>4. /\ MaxLen \in Nat
      /\ \A s \in Samples : Len(inputs[s]) \in Nat /\ Len(inputs[s]) <= MaxLen
  BY <1>3, BatchesAreLists, MaxLenFacts
<1>5. TypeOK'
  <2>1. \A s \in Samples : MaxLen - Len(inputs[s]) \in Nat
    BY <1>4
  <2>2. seq_lens' \in [Samples -> Nat] /\ pad_lens' \in [Samples -> Nat]
    BY <1>1, <1>4, <2>1
  <2> QED
    BY <1>1, <1>2, <1>3, <2>2 DEF TypeOK
<1>6. Padding'
  BY <1>1, <1>2 DEF Padding
<1>7. NothingYet'
  BY <1>1, <1>2 DEF NothingYet, GenerationInv
<1> QED
  BY <1>1, <1>5, <1>6, <1>7
     DEF GenerationInv, ReadyToPrefill, RowsInStep, LatestTokens, LeavesAtEos,
         CachesHold, OutputsAlone, AtTheEnd

LEMMA StartForwardKeeps ==
    ASSUME GenerationInv, StartForward
    PROVE  GenerationInv'
<1>1. /\ pc = "forward" /\ pc' = "prefill"
      /\ \A s \in Samples : Len(Padded(s)) > 0
      /\ batch' = [s \in Samples |-> Padded(s)]
      /\ sample_ids' = [i \in Samples |-> i]
      /\ pos_lens_by_sample' = seq_lens
      /\ kv_cache' = [s \in Samples |-> <<>>]
      /\ inputs' = inputs /\ seq_lens' = seq_lens /\ pad_lens' = pad_lens
      /\ outputs' = outputs /\ next_generated_tokens' = next_generated_tokens
      /\ step' = step /\ alone' = alone
  BY DEF StartForward, EachSample
<1>2. MaxLen' = MaxLen /\ Samples' = Samples
  BY <1>1, SameBatch
<1>3. inputs \in Batches /\ TypeOK
  BY DEF GenerationInv, TypeOK
<1>4. /\ MaxLen \in Nat
      /\ Len(inputs) \in Nat /\ 1 \in Samples
      /\ \A s \in Samples : /\ inputs[s] \in Seq(Tokens)
                            /\ Len(inputs[s]) \in Nat /\ Len(inputs[s]) <= MaxLen
  BY <1>3, BatchesAreLists, MaxLenFacts
<1>5. /\ seq_lens = [s \in Samples |-> Len(inputs[s])]
      /\ pad_lens = [s \in Samples |-> MaxLen - Len(inputs[s])]
  BY <1>1 DEF GenerationInv, Padding
<1>6. MaxLen > 0
  <2>1. Len(Padded(1)) = MaxLen
    BY <1>3, <1>4, <1>5, LenPadded
  <2> QED
    BY <1>1, <1>4, <2>1
<1>7. TypeOK'
  <2>1. sample_ids' \in Seq(Samples)
    BY <1>1, <1>4, ListOfLength DEF Samples
  <2>2. pos_lens_by_sample' \in Seq(Nat)
    <3>1. seq_lens \in [1 .. Len(inputs) -> Nat]
      BY <1>3 DEF TypeOK, Samples
    <3> QED
      BY <1>1, <1>4, <3>1, ListOfLength
  <2> QED
    BY <1>1, <1>2, <1>3, <2>1, <2>2 DEF TypeOK
<1>8. Padding'
  BY <1>1, <1>2, <1>5 DEF Padding
<1>9. NothingYet'
  BY <1>1, <1>2 DEF NothingYet, GenerationInv
<1>10. ReadyToPrefill'
  <2>1. \A s \in Samples : Padded(s)' = Padded(s)
    BY <1>1 DEF Padded
  <2> QED
    BY <1>1, <1>2, <1>5, <1>6, <2>1 DEF ReadyToPrefill
<1> QED
  BY <1>1, <1>7, <1>8, <1>9, <1>10
     DEF GenerationInv, RowsInStep, LatestTokens, LeavesAtEos,
         CachesHold, OutputsAlone, AtTheEnd

LEMMA PrefillKeeps ==
    ASSUME GenerationInv, Prefill
    PROVE  GenerationInv'
<1>1. /\ pc = "prefill" /\ pc' = "filter"
      /\ ForwardAndRecord(PrefillCache, Len(batch[1]) - 1)
      /\ step' = Len(batch[1])
      /\ UNCHANGED <<data_vars, sample_ids, pos_lens_by_sample, alone>>
  BY DEF Prefill
<1>2. TypeOK /\ Padding /\ NothingYet /\ ReadyToPrefill /\ inputs \in Batches
  BY DEF GenerationInv, TypeOK
<1>3. /\ MaxLen \in Nat
      /\ Len(inputs) \in Nat /\ 1 \in Samples
      /\ \A s \in Samples : /\ inputs[s] \in Seq(Tokens)
                            /\ Len(inputs[s]) \in Nat /\ Len(inputs[s]) <= MaxLen
  BY <1>2, BatchesAreLists, MaxLenFacts
<1>4. /\ MaxLen > 0
      /\ batch = [s \in Samples |-> Padded(s)]
      /\ sample_ids = [i \in Samples |-> i]
      /\ pos_lens_by_sample = [s \in Samples |-> Len(inputs[s])]
      /\ pad_lens = [s \in Samples |-> MaxLen - Len(inputs[s])]
      /\ outputs = [s \in Samples |-> <<>>]
      /\ kv_cache = [s \in Samples |-> <<>>]
  BY <1>1, <1>2 DEF ReadyToPrefill, Padding, NothingYet
<1>5. Len(batch[1]) = MaxLen
  BY <1>2, <1>3, <1>4, LenPadded
<1>6. Rows = Samples /\ \A s \in Samples : sample_ids[s] = s
  <2>1. sample_ids \in [1 .. Len(inputs) -> Samples]
    BY <1>4 DEF Samples
  <2>2. Len(sample_ids) = Len(inputs)
    BY <1>3, <2>1, ListOfLength
  <2> QED
    BY <1>4, <2>2 DEF Rows, Samples
<1>7. Injective(sample_ids) /\ \A s \in Samples : InBatch(s)
  BY <1>6 DEF Injective, InBatch, Rows
<1>8. ASSUME NEW s \in Samples
      PROVE  HoldsPrefix(PrefillCache[s], MaxLen - Len(inputs[s]), inputs[s], alone[s], 1)
  <2>1. s \in Rows /\ sample_ids[s] = s /\ sample_ids \in Seq(Samples)
    BY <1>2, <1>6 DEF TypeOK
  <2>2. CacheAfter(batch, PrefillOffsets)[s]
            = kv_cache[s] \o NewRows(batch[s], PrefillOffsets[s])
    <3>1. sample_ids \in Seq(Samples) /\ Injective(sample_ids)
      BY <1>7, <2>1
    <3>2. \A k \in Rows : CacheAfter(batch, PrefillOffsets)[sample_ids[k]]
              = Extended(kv_cache[sample_ids[k]], batch[k], PrefillOffsets[k])
      BY <3>1, CacheAfterFacts
    <3> QED
      BY <2>1, <3>2 DEF Extended
  <2>3. kv_cache[s] = <<>> /\ batch[s] = Padded(s)
    BY <1>4
  <2>4. PrefillOffsets[s] = -pad_lens[s] /\ pad_lens[s] = MaxLen - Len(inputs[s])
    BY <1>4, <2>1 DEF PrefillOffsets
  <2> DEFINE pads == MaxLen - Len(inputs[s])
  <2>5. pads \in Nat
    BY <1>3
  <2>6. PrefillCache[s] = <<>> \o NewRows([i \in 1 .. pads |-> PadId] \o inputs[s], -pads)
    BY <2>2, <2>3, <2>4 DEF PrefillCache, Padded
  <2> HIDE DEF pads
  <2>7. HoldsPrefix(PrefillCache[s], pads, inputs[s], alone[s], 1)
    BY <1>3, <2>5, <2>6, PrefillHolds
  <2> QED
    BY <2>7 DEF pads
<1>9. \A s \in Samples : ~StopsWithin(alone[s], 1 - 1)
  BY DEF StopsWithin
<1>10. ASSUME NEW s \in Samples
       PROVE  outputs[s] = WithoutPads(alone[s], SampledFor(s, 1 - 1))
  <2>1. SampledFor(s, 1 - 1) = 0
    BY <1>9, SampledForNoStop
  <2>2. Len(alone[s]) \in Nat
    BY <1>2, FuturesAreLists DEF TypeOK
  <2>3. WithoutPads(alone[s], 0) = <<>>
    BY <2>2, NoTokensYet
  <2> QED
    BY <1>4, <2>1, <2>3
<1>11. pos_lens_by_sample' \in [Samples -> Nat]
       /\ \A s \in Samples : pos_lens_by_sample'[s] = Len(inputs[s]) + 1 - 1
  BY <1>1, <1>3, <1>4
<1>12. 1 <= MaxSteps /\ 1 <= Larger(1, MaxSteps - MaxLen + 1) /\ MaxLen - 1 \in Int
  BY <1>3, GenerationAssumption DEF Larger
<1>13. step' = MaxLen + 1 - 1 /\ UNCHANGED <<data_vars, sample_ids, alone>>
  BY <1>1, <1>3, <1>5
<1>14. ForwardAndRecord(PrefillCache, MaxLen - 1) /\ MaxLen - 1 >= MaxLen - 1
  BY <1>1, <1>3, <1>5
<1>15. pc # "get_inputs" /\ 1 \in Nat \ {0}
  BY <1>1
<1> HIDE DEF PrefillCache
<1> QED
  BY <1>1, <1>2, <1>4, <1>7, <1>8, <1>9, <1>10, <1>11, <1>12, <1>13, <1>14, <1>15, PassKeeps

LEMMA DecodeKeeps ==
    ASSUME GenerationInv, DecodeStep
    PROVE  GenerationInv'
<1>1. /\ pc = "decode" /\ pc' = "filter"
      /\ step < MaxSteps
      /\ ForwardAndRecord(DecodeCache, step)
      /\ pos_lens_by_sample' = IncrementPosLens
      /\ step' = step + 1
      /\ UNCHANGED <<data_vars, sample_ids, alone>>
  BY DEF DecodeStep, KeepsDecoding
<1>2. /\ TypeOK /\ Padding /\ RowsInStep /\ LatestTokens /\ LeavesAtEos /\ CachesHold
      /\ OutputsAlone /\ inputs \in Batches /\ sample_ids \in Seq(Samples) /\ step \in Nat
  BY DEF GenerationInv, TypeOK
<1>3. /\ MaxLen \in Nat
      /\ \A s \in Samples : /\ inputs[s] \in Seq(Tokens)
                            /\ Len(inputs[s]) \in Nat /\ Len(inputs[s]) <= MaxLen
  BY <1>2, BatchesAreLists, MaxLenFacts
<1>4. /\ MaxLen > 0
      /\ R \in Int /\ R >= 1
      /\ Injective(sample_ids)
      /\ Len(next_generated_tokens) = Len(sample_ids)
      /\ pos_lens_by_sample \in [Samples -> Nat]
      /\ \A s \in Samples : InBatch(s) => pos_lens_by_sample[s] = Len(inputs[s]) + R - 1
  BY <1>1, <1>2 DEF RowsInStep
<1>5. /\ R + 1 \in Nat \ {0} /\ R \in Nat \ {0} /\ R + 1 - 1 = R
      /\ R + 1 <= MaxSteps - MaxLen + 1 /\ R + 1 <= MaxSteps
      /\ step = MaxLen + R - 1
      /\ step >= MaxLen - 1 /\ step \in Int
      /\ MaxSteps \in Nat
  BY <1>1, <1>2, <1>3, <1>4, GenerationAssumption DEF R
<1>6. R + 1 <= Larger(1, MaxSteps - MaxLen + 1)
  BY <1>3, <1>5 DEF Larger
<1>7. ASSUME NEW i \in Rows
      PROVE  /\ next_generated_tokens[i] \in Tokens
             /\ inputs[sample_ids[i]] # <<>> =>
                  next_generated_tokens[i] = alone[sample_ids[i]][R]
  <2>1. next_generated_tokens \in Seq(Tokens) /\ i \in 1 .. Len(next_generated_tokens)
    BY <1>2, <1>4 DEF TypeOK, Rows
  <2>2. next_generated_tokens[i] \in Tokens
    BY <2>1, ElementOfSeq
  <2> QED
    BY <1>1, <1>2, <2>2 DEF LatestTokens
<1>8. ASSUME NEW s \in Samples, InBatch(s)
      PROVE  HoldsPrefix(DecodeCache[s], MaxLen - Len(inputs[s]), inputs[s], alone[s], R + 1)
  <2>1. PICK i \in Rows : sample_ids[i] = s
    BY <1>8 DEF InBatch
  <2> DEFINE token == next_generated_tokens[i]
             all == [k \in Rows |-> <<next_generated_tokens[k]>>]
             pads == MaxLen - Len(inputs[s])
  <2>2. DecodeCache[s] = kv_cache[s] \o NewRows(all[i], DecodeOffsets[i])
    <3> HIDE DEF all
    <3>0. sample_ids \in Seq(Samples) /\ Injective(sample_ids)
      BY <1>2, <1>4
    <3>1. \A k \in Rows : CacheAfter(all, DecodeOffsets)[sample_ids[k]]
              = Extended(kv_cache[sample_ids[k]], all[k], DecodeOffsets[k])
      BY <3>0, CacheAfterFacts
    <3>2. DecodeCache = CacheAfter(all, DecodeOffsets)
      BY DEF DecodeCache, all
    <3> QED
      BY <2>1, <3>1, <3>2 DEF Extended
  <2>3. all[i] = <<token>>
    OBVIOUS
  <2>4. DecodeOffsets[i] = Len(inputs[s]) + R - 1
    BY <1>4, <1>8, <2>1 DEF DecodeOffsets
  <2>5. DecodeCache[s] = kv_cache[s] \o NewRows(<<token>>, Len(inputs[s]) + R - 1)
    <3> HIDE DEF all, token
    <3> QED
      BY <2>2, <2>3, <2>4
  <2>6. pads \in Nat /\ inputs[s] \in Seq(Tokens)
    BY <1>3
  <2>7. HoldsPrefix(kv_cache[s], pads, inputs[s], alone[s], R)
    BY <1>1, <1>2, <1>8 DEF CachesHold
  <2>8. token \in Tokens /\ (inputs[s] # <<>> => token = alone[s][R])
    BY <1>7, <2>1
  <2> HIDE DEF token, pads
  <2>9. HoldsPrefix(DecodeCache[s], pads, inputs[s], alone[s], R + 1)
    BY <1>5, <2>5, <2>6, <2>7, <2>8, DecodeHolds
  <2> QED
    BY <2>9 DEF pads
<1>9. ASSUME NEW s \in Samples, ~InBatch(s)
      PROVE  DecodeCache[s] = <<>>
  <2>1. DecodeCache[s] = kv_cache[s]
    BY <1>2, <1>4, <1>9, CacheAfterFacts DEF DecodeCache
  <2> QED
    BY <1>1, <1>2, <1>9, <2>1 DEF CachesHold
<1>10. \A s \in Samples : inputs[s] # <<>> =>
            (InBatch(s) <=> ~StopsWithin(alone[s], R + 1 - 1))
  BY <1>1, <1>2, <1>5 DEF LeavesAtEos
<1>11. \A s \in Samples : inputs[s] # <<>> =>
            outputs[s] = WithoutPads(alone[s], SampledFor(s, R + 1 - 1))
  BY <1>1, <1>2, <1>5 DEF OutputsAlone
<1>12. /\ pos_lens_by_sample' \in [Samples -> Nat]
       /\ \A s \in Samples : InBatch(s) => pos_lens_by_sample'[s] = Len(inputs[s]) + (R + 1) - 1
  <2>1. pos_lens_by_sample' =
          [s \in Samples |-> pos_lens_by_sample[s] + (IF InBatch(s) THEN 1 ELSE 0)]
    BY <1>1 DEF IncrementPosLens, InBatch
  <2>2. ASSUME NEW s \in Samples
        PROVE  /\ pos_lens_by_sample'[s] \in Nat
               /\ InBatch(s) => pos_lens_by_sample'[s] = Len(inputs[s]) + (R + 1) - 1
    <3>1. pos_lens_by_sample[s] \in Nat
      BY <1>4
    <3>2. CASE InBatch(s)
      <4>1. pos_lens_by_sample'[s] = pos_lens_by_sample[s] + 1
        BY <2>1, <3>2
      <4>2. pos_lens_by_sample[s] = Len(inputs[s]) + R - 1
        BY <1>4, <3>2
      <4>3. Len(inputs[s]) \in Nat
        BY <1>3
      <4> QED
        BY <1>5, <3>1, <4>1, <4>2, <4>3
    <3>3. CASE ~InBatch(s)
      <4>1. pos_lens_by_sample'[s] = pos_lens_by_sample[s] + 0
        BY <2>1, <3>3
      <4> QED
        BY <3>1, <3>3, <4>1
    <3> QED
      BY <3>2, <3>3
  <2>3. pos_lens_by_sample' \in [Samples -> Nat]
    <3>1. pos_lens_by_sample' = [s \in Samples |-> pos_lens_by_sample'[s]]
      BY <2>1
    <3> QED
      BY <2>2, <3>1
  <2> QED
    BY <2>2, <2>3
<1>13. step' = MaxLen + (R + 1) - 1
  BY <1>1, <1>3, <1>5
<1>14. pc # "get_inputs"
  BY <1>1
<1> DEFINE n == R + 1
<1> HIDE DEF n, DecodeCache
<1>15. /\ n \in Nat \ {0} /\ n <= MaxSteps /\ n <= Larger(1, MaxSteps - MaxLen + 1)
       /\ \A s \in Samples : InBatch(s) =>
             HoldsPrefix(DecodeCache[s], MaxLen - Len(inputs[s]), inputs[s], alone[s], n)
       /\ \A s \in Samples : ~InBatch(s) => DecodeCache[s] = <<>>
       /\ \A s \in Samples : inputs[s] # <<>> =>
             (InBatch(s) <=> ~StopsWithin(alone[s], n - 1))
       /\ \A s \in Samples : inputs[s] # <<>> =>
             outputs[s] = WithoutPads(alone[s], SampledFor(s, n - 1))
       /\ \A s \in Samples : InBatch(s) => pos_lens_by_sample'[s] = Len(inputs[s]) + n - 1
       /\ step' = MaxLen + n - 1
  BY <1>5, <1>6, <1>8, <1>9, <1>10, <1>11, <1>12, <1>13 DEF n
<1> QED
  BY <1>1, <1>2, <1>4, <1>5, <1>12, <1>14, <1>15, PassKeeps

(* What filter_eos_samples leaves of the batch. *)
LEMMA FilterFacts ==
    ASSUME TypeOK, Injective(sample_ids), Len(next_generated_tokens) = Len(sample_ids),
           FilterEos
    PROVE  /\ sample_ids' \in Seq(Samples)
           /\ next_generated_tokens' \in Seq(Tokens)
           /\ Len(next_generated_tokens') = Len(sample_ids')
           /\ Injective(sample_ids')
           /\ \A k \in Rows' : \E i \in Rows :
                /\ Stays(i)
                /\ sample_ids'[k] = sample_ids[i]
                /\ next_generated_tokens'[k] = next_generated_tokens[i]
           /\ \A i \in Rows : Stays(i) => \E k \in Rows' : sample_ids'[k] = sample_ids[i]
<1> DEFINE rows == KeptRows
           n == Len(rows)
<1>1. /\ sample_ids' = [k \in 1 .. n |-> sample_ids[rows[k]]]
      /\ next_generated_tokens' = [k \in 1 .. n |-> next_generated_tokens[rows[k]]]
  BY DEF FilterEos
<1>2. /\ sample_ids \in Seq(Samples) /\ next_generated_tokens \in Seq(Tokens)
      /\ Len(sample_ids) \in Nat
      /\ Rows = 1 .. Len(sample_ids)
      /\ \A i \in Rows : sample_ids[i] \in Samples /\ next_generated_tokens[i] \in Tokens
  <2>1. sample_ids \in Seq(Samples) /\ next_generated_tokens \in Seq(Tokens)
    BY DEF TypeOK
  <2>2. Len(sample_ids) \in Nat
    BY <2>1
  <2>3. \A i \in 1 .. Len(sample_ids) : sample_ids[i] \in Samples
    BY <2>1, ElementOfSeq
  <2>4. \A i \in 1 .. Len(sample_ids) : next_generated_tokens[i] \in Tokens
    BY <2>1, ElementOfSeq
  <2> QED
    BY <2>1, <2>2, <2>3, <2>4 DEF Rows
<1>3. KeptUpTo(rows, next_generated_tokens, EosId, Len(sample_ids))
  <2>1. Len(next_generated_tokens) \in Nat
        /\ Len(next_generated_tokens) \in 0 .. Len(next_generated_tokens)
    BY <1>2
  <2>2. rows = KeptPositions(next_generated_tokens, EosId)[Len(next_generated_tokens)]
    BY DEF KeptRows
  <2> HIDE DEF rows
  <2> QED
    BY <2>1, <2>2, KeptFacts
<1> HIDE DEF rows
<1>4. /\ n \in Nat
      /\ \A k \in 1 .. n : rows[k] \in Rows /\ Stays(rows[k])
      /\ \A k, m \in 1 .. n : k < m => rows[k] < rows[m]
      /\ \A i \in Rows : Stays(i) => \E k \in 1 .. n : rows[k] = i
  <2>1. rows \in Seq(1 .. Len(sample_ids))
    BY <1>3 DEF KeptUpTo
  <2>2. n \in Nat /\ \A k \in 1 .. n : rows[k] \in 1 .. Len(sample_ids)
    BY <2>1
  <2> QED
    BY <1>2, <1>3, <2>2 DEF KeptUpTo, Stays
<1> HIDE DEF n
<1>5. /\ sample_ids' \in [1 .. n -> Samples] /\ next_generated_tokens' \in [1 .. n -> Tokens]
      /\ \A k \in 1 .. n : /\ sample_ids'[k] = sample_ids[rows[k]]
                           /\ next_generated_tokens'[k] = next_generated_tokens[rows[k]]
  BY <1>1, <1>2, <1>4
<1>6. /\ sample_ids' \in Seq(Samples) /\ Len(sample_ids') = n
      /\ next_generated_tokens' \in Seq(Tokens) /\ Len(next_generated_tokens') = n
  BY <1>4, <1>5, ListOfLength
<1>7. Rows' = 1 .. n
  BY <1>6 DEF Rows
<1>8. Injective(sample_ids')
  <2>1. ASSUME NEW k \in 1 .. n, NEW m \in 1 .. n, sample_ids'[k] = sample_ids'[m]
        PROVE  k = m
    <3>1. rows[k] = rows[m]
      BY <1>2, <1>4, <1>5, <2>1 DEF Injective
    <3>2. rows[k] \in Nat /\ ~(rows[k] < rows[m]) /\ ~(rows[m] < rows[k])
      BY <1>2, <1>4, <3>1
    <3>3. ~(k < m) /\ ~(m < k)
      BY <1>4, <3>2
    <3> QED
      BY <1>4, <3>3
  <2> QED
    BY <1>6, <2>1 DEF Injective
<1>9. ASSUME NEW i \in Rows, Stays(i)
      PROVE  \E k \in Rows' : sample_ids'[k] = sample_ids[i]
  <2>1. PICK k \in 1 .. n : rows[k] = i
    BY <1>4, <1>9
  <2>2. sample_ids'[k] = sample_ids[i]
    BY <1>5, <2>1
  <2> QED
    BY <1>7, <2>1, <2>2
<1> QED
  BY <1>4, <1>5, <1>6, <1>7, <1>8, <1>9

LEMMA FilterKeeps ==
    ASSUME GenerationInv, FilterEos
    PROVE  GenerationInv'
<1>1. /\ pc = "filter" /\ pc' = "decode"
      /\ kv_cache' = [s \in Samples |->
            IF \E i \in Rows : sample_ids[i] = s /\ ~Stays(i) THEN <<>> ELSE kv_cache[s]]
      /\ inputs' = inputs /\ seq_lens' = seq_lens /\ pad_lens' = pad_lens
      /\ outputs' = outputs /\ pos_lens_by_sample' = pos_lens_by_sample
      /\ step' = step /\ alone' = alone
  BY DEF FilterEos, data_vars
<1>2. /\ TypeOK /\ Padding /\ RowsInStep /\ LatestTokens /\ LeavesAtEos /\ CachesHold
      /\ OutputsAlone /\ inputs \in Batches /\ step \in Nat
      /\ sample_ids \in Seq(Samples)
  BY DEF GenerationInv, TypeOK
<1>3. MaxLen' = MaxLen /\ Samples' = Samples /\ MaxLen \in Nat
  BY <1>1, <1>2, SameBatch, MaxLenFacts
<1>4. /\ MaxLen > 0
      /\ R \in 1 .. Larger(1, MaxSteps - MaxLen + 1)
      /\ Injective(sample_ids)
      /\ Len(next_generated_tokens) = Len(sample_ids)
      /\ pos_lens_by_sample \in [Samples -> Nat]
      /\ \A s \in Samples : InBatch(s) => pos_lens_by_sample[s] = Len(inputs[s]) + R - 1
  BY <1>1, <1>2 DEF RowsInStep
<1>5. /\ sample_ids' \in Seq(Samples)
      /\ next_generated_tokens' \in Seq(Tokens)
      /\ Len(next_generated_tokens') = Len(sample_ids')
      /\ Injective(sample_ids')
      /\ \A k \in Rows' : \E i \in Rows :
           /\ Stays(i)
           /\ sample_ids'[k] = sample_ids[i]
           /\ next_generated_tokens'[k] = next_generated_tokens[i]
      /\ \A i \in Rows : Stays(i) => \E k \in Rows' : sample_ids'[k] = sample_ids[i]
  BY <1>2, <1>4, FilterFacts
<1>6. R' = R /\ R \in Nat \ {0}
  <2>1. R' = R /\ R \in Int /\ R >= 1
    BY <1>1, <1>2, <1>3, <1>4 DEF R
  <2> QED
    BY <2>1
<1>7. ASSUME NEW s \in Samples
      PROVE  InBatch(s)' <=> \E i \in Rows : sample_ids[i] = s /\ Stays(i)
  <2>1. ASSUME InBatch(s)'
        PROVE  \E i \in Rows : sample_ids[i] = s /\ Stays(i)
    <3>1. PICK k \in Rows' : sample_ids'[k] = s
      BY <2>1 DEF InBatch
    <3> QED
      BY <1>5, <3>1
  <2>2. ASSUME NEW i \in Rows, sample_ids[i] = s, Stays(i)
        PROVE  InBatch(s)'
    <3>1. \E k \in Rows' : sample_ids'[k] = s
      BY <1>5, <2>2
    <3> QED
      BY <3>1 DEF InBatch
  <2> QED
    BY <2>1, <2>2
<1>8. \A s \in Samples : InBatch(s)' => InBatch(s)
  BY <1>7 DEF InBatch
<1>9. TypeOK'
  BY <1>1, <1>2, <1>3, <1>5 DEF TypeOK
<1>10. Padding' /\ NothingYet' /\ ReadyToPrefill' /\ AtTheEnd'
  <2>1. Padding'
    BY <1>1, <1>2, <1>3 DEF Padding
  <2> QED
    BY <1>1, <2>1 DEF NothingYet, ReadyToPrefill, AtTheEnd
<1>11. RowsInStep'
  <2>1. R' \in 1 .. Larger(1, MaxSteps - MaxLen + 1)'
    BY <1>3, <1>4, <1>6 DEF Larger
  <2>2. \A s \in Samples : InBatch(s)' => pos_lens_by_sample'[s] = Len(inputs'[s]) + R' - 1
    BY <1>1, <1>4, <1>6, <1>8
  <2> QED
    BY <1>1, <1>3, <1>4, <1>5, <2>1, <2>2 DEF RowsInStep
<1>12. LatestTokens'
  <2>1. ASSUME NEW k \in Rows', inputs'[sample_ids'[k]] # <<>>
        PROVE  next_generated_tokens'[k] = alone'[sample_ids'[k]][R']
    <3>1. PICK i \in Rows : /\ sample_ids'[k] = sample_ids[i]
                            /\ next_generated_tokens'[k] = next_generated_tokens[i]
      BY <1>5
    <3>2. next_generated_tokens[i] = alone[sample_ids[i]][R]
      BY <1>1, <1>2, <2>1, <3>1 DEF LatestTokens
    <3> QED
      BY <1>1, <1>6, <3>1, <3>2
  <2> QED
    BY <2>1 DEF LatestTokens
<1>13. ASSUME NEW s \in Samples, inputs[s] # <<>>
       PROVE  InBatch(s)' <=> ~StopsWithin(alone[s], R)
  <2>1. InBatch(s) <=> ~StopsWithin(alone[s], R - 1)
    BY <1>1, <1>2, <1>13 DEF LeavesAtEos
  <2>2. StopsWithin(alone[s], R) <=> StopsWithin(alone[s], R - 1) \/ alone[s][R] = EosId
    <3>1. 1 .. R = 1 .. (R - 1) \cup {R}
      BY <1>6
    <3> QED
      BY <3>1 DEF StopsWithin
  <2>3. \A i \in Rows : sample_ids[i] = s => (Stays(i) <=> alone[s][R] # EosId)
    BY <1>1, <1>2, <1>13 DEF LatestTokens, Stays
  <2>4. InBatch(s)' <=> InBatch(s) /\ alone[s][R] # EosId
    BY <1>7, <2>3 DEF InBatch
  <2> QED
    BY <2>1, <2>2, <2>4
<1>14. LeavesAtEos'
  <2>1. \A s \in Samples : inputs'[s] # <<>> => (InBatch(s)' <=> ~StopsWithin(alone'[s], R'))
    BY <1>1, <1>6, <1>13
  <2> QED
    BY <1>1, <1>3, <2>1 DEF LeavesAtEos
<1>15. CachesHold'
  <2>1. ASSUME NEW s \in Samples
        PROVE  /\ InBatch(s)' =>
                    HoldsPrefix(kv_cache'[s], MaxLen' - Len(inputs'[s]), inputs'[s], alone'[s], R')
               /\ ~InBatch(s)' => kv_cache'[s] = <<>>
    <3>1. CASE InBatch(s)'
      <4>1. ~\E i \in Rows : sample_ids[i] = s /\ ~Stays(i)
        BY <1>4, <1>7, <3>1 DEF Injective, Rows
      <4>2. kv_cache'[s] = kv_cache[s]
        BY <1>1, <4>1
      <4>3. HoldsPrefix(kv_cache[s], MaxLen - Len(inputs[s]), inputs[s], alone[s], R)
        BY <1>1, <1>2, <1>8, <3>1 DEF CachesHold
      <4> QED
        BY <1>1, <1>3, <1>6, <3>1, <4>2, <4>3
    <3>2. CASE ~InBatch(s)'
      <4>1. CASE InBatch(s)
        <5>1. \E i \in Rows : sample_ids[i] = s /\ ~Stays(i)
          BY <1>7, <3>2, <4>1 DEF InBatch
        <5> QED
          BY <1>1, <3>2, <5>1
      <4>2. CASE ~InBatch(s)
        <5>1. ~\E i \in Rows : sample_ids[i] = s /\ ~Stays(i)
          BY <4>2 DEF InBatch
        <5>2. kv_cache[s] = <<>>
          BY <1>1, <1>2, <4>2 DEF CachesHold
        <5> QED
          BY <1>1, <3>2, <5>1, <5>2
      <4> QED
        BY <4>1, <4>2
    <3> QED
      BY <3>1, <3>2
  <2> QED
    BY <1>3, <2>1 DEF CachesHold
<1>16. OutputsAlone'
  <2>1. \A s \in Samples : SampledFor(s, R)' = SampledFor(s, R)
    BY <1>1, <1>6 DEF SampledFor
  <2>2. \A s \in Samples : inputs[s] # <<>> =>
            outputs[s] = WithoutPads(alone[s], SampledFor(s, R))
    BY <1>1, <1>2 DEF OutputsAlone
  <2> QED
    BY <1>1, <1>3, <2>1, <2>2 DEF OutputsAlone
<1> QED
  BY <1>9, <1>10, <1>11, <1>12, <1>14, <1>15, <1>16 DEF GenerationInv

LEMMA FinishKeeps ==
    ASSUME GenerationInv, Finish
    PROVE  GenerationInv'
<1>1. /\ pc = "decode" /\ pc' = "done" /\ ~KeepsDecoding
      /\ inputs' = inputs /\ seq_lens' = seq_lens /\ pad_lens' = pad_lens
      /\ sample_ids' = sample_ids /\ next_generated_tokens' = next_generated_tokens
      /\ outputs' = outputs /\ pos_lens_by_sample' = pos_lens_by_sample
      /\ step' = step /\ alone' = alone
  BY DEF Finish, data_vars, row_vars
<1>2. /\ TypeOK /\ Padding /\ RowsInStep /\ LatestTokens /\ LeavesAtEos /\ OutputsAlone
      /\ inputs \in Batches
  BY DEF GenerationInv, TypeOK
<1>3. MaxLen' = MaxLen /\ Samples' = Samples
  BY <1>1, SameBatch
<1>4. R' = R /\ Rows' = Rows /\ \A s : InBatch(s)' <=> InBatch(s)
  BY <1>1, <1>3 DEF R, Rows, InBatch
<1>5. TypeOK'
  BY <1>1, <1>2, <1>3 DEF TypeOK
<1>6. Padding' /\ NothingYet' /\ ReadyToPrefill' /\ CachesHold'
  <2>1. Padding'
    BY <1>1, <1>2, <1>3 DEF Padding
  <2> QED
    BY <1>1, <2>1 DEF NothingYet, ReadyToPrefill, CachesHold
<1>7. RowsInStep'
  BY <1>1, <1>2, <1>3, <1>4 DEF RowsInStep, Larger, Injective
<1>8. LatestTokens'
  BY <1>1, <1>2, <1>4 DEF LatestTokens
<1>9. LeavesAtEos'
  <2>1. \A s \in Samples : inputs[s] # <<>> => (InBatch(s) <=> ~StopsWithin(alone[s], R))
    BY <1>1, <1>2 DEF LeavesAtEos
  <2>2. \A s \in Samples : inputs'[s] # <<>> => (InBatch(s)' <=> ~StopsWithin(alone'[s], R'))
    BY <1>1, <1>4, <2>1
  <2> QED
    BY <1>1, <1>3, <2>2 DEF LeavesAtEos
<1>10. OutputsAlone'
  <2>1. \A s \in Samples : SampledFor(s, R)' = SampledFor(s, R)
    BY <1>1, <1>4 DEF SampledFor
  <2> QED
    BY <1>1, <1>2, <1>3, <2>1 DEF OutputsAlone
<1>11. AtTheEnd'
  BY <1>1 DEF AtTheEnd, KeepsDecoding
<1> QED
  BY <1>5, <1>6, <1>7, <1>8, <1>9, <1>10, <1>11 DEF GenerationInv

(* An exception, a rejected batch: nothing is left to do. *)
LEMMA TerminatedKeeps ==
    ASSUME GenerationInv, pc' = "terminated", pc # "get_inputs",
           UNCHANGED <<data_vars, outputs, row_vars, pos_lens_by_sample, step, kv_cache, alone>>
    PROVE  GenerationInv'
<1>1. /\ inputs' = inputs /\ seq_lens' = seq_lens /\ pad_lens' = pad_lens
      /\ sample_ids' = sample_ids /\ next_generated_tokens' = next_generated_tokens
      /\ outputs' = outputs /\ pos_lens_by_sample' = pos_lens_by_sample
      /\ step' = step /\ alone' = alone
  BY DEF data_vars, row_vars
<1>2. MaxLen' = MaxLen /\ Samples' = Samples
  BY <1>1, SameBatch
<1>3. TypeOK'
  BY <1>1, <1>2 DEF GenerationInv, TypeOK
<1>4. Padding'
  BY <1>1, <1>2 DEF GenerationInv, Padding
<1> QED
  BY <1>3, <1>4
     DEF GenerationInv, NothingYet, ReadyToPrefill, RowsInStep, LatestTokens, LeavesAtEos,
         CachesHold, OutputsAlone, AtTheEnd

LEMMA NothingKeeps ==
    ASSUME GenerationInv, UNCHANGED vars
    PROVE  GenerationInv'
<1>1. /\ pc' = pc /\ batch' = batch /\ kv_cache' = kv_cache
      /\ inputs' = inputs /\ seq_lens' = seq_lens /\ pad_lens' = pad_lens
      /\ sample_ids' = sample_ids /\ next_generated_tokens' = next_generated_tokens
      /\ outputs' = outputs /\ pos_lens_by_sample' = pos_lens_by_sample
      /\ step' = step /\ alone' = alone
  BY DEF vars, data_vars, row_vars
<1>2. MaxLen' = MaxLen /\ Samples' = Samples
  BY <1>1, SameBatch
<1>3. R' = R /\ Rows' = Rows /\ \A s : InBatch(s)' <=> InBatch(s)
  BY <1>1, <1>2 DEF R, Rows, InBatch
<1>4. \A s : SampledFor(s, R)' = SampledFor(s, R) /\ Padded(s)' = Padded(s)
  BY <1>1, <1>3 DEF SampledFor, Padded
<1>5. TypeOK' /\ Padding' /\ NothingYet'
  BY <1>1, <1>2 DEF GenerationInv, TypeOK, Padding, NothingYet
<1>6. ReadyToPrefill'
  BY <1>1, <1>2, <1>4 DEF GenerationInv, ReadyToPrefill
<1>7. RowsInStep' /\ LatestTokens'
  BY <1>1, <1>2, <1>3 DEF GenerationInv, RowsInStep, LatestTokens, Larger, Injective
<1>8. LeavesAtEos'
  <2>1. LeavesAtEos
    BY DEF GenerationInv
  <2>2. CASE pc = "filter"
    BY <1>1, <1>2, <1>3, <2>1, <2>2 DEF LeavesAtEos
  <2>3. CASE pc # "filter"
    BY <1>1, <1>2, <1>3, <2>1, <2>3 DEF LeavesAtEos
  <2> QED
    BY <2>2, <2>3
<1>9. CachesHold' /\ OutputsAlone'
  BY <1>1, <1>2, <1>3, <1>4 DEF GenerationInv, CachesHold, OutputsAlone
<1>10. AtTheEnd'
  BY <1>1 DEF GenerationInv, AtTheEnd, KeepsDecoding
<1> QED
  BY <1>5, <1>6, <1>7, <1>8, <1>9, <1>10 DEF GenerationInv

LEMMA StepKeeps ==
    ASSUME GenerationInv, [Next]_vars
    PROVE  GenerationInv'
<1>1. CASE GetInputs
  BY <1>1, GetInputsKeeps
<1>2. CASE RejectEmptySample
  <2>1. /\ pc' = "terminated" /\ pc # "get_inputs"
        /\ UNCHANGED <<data_vars, outputs, row_vars, pos_lens_by_sample, step, kv_cache, alone>>
    BY <1>2 DEF RejectEmptySample
  <2> QED
    BY <2>1, TerminatedKeeps
<1>3. CASE StartForward
  BY <1>3, StartForwardKeeps
<1>4. CASE Prefill
  BY <1>4, PrefillKeeps
<1>5. CASE DecodeStep
  BY <1>5, DecodeKeeps
<1>6. CASE FilterEos
  BY <1>6, FilterKeeps
<1>7. CASE Finish
  BY <1>7, FinishKeeps
<1>8. CASE ModelThrows
  <2>1. /\ pc' = "terminated" /\ pc # "get_inputs"
        /\ UNCHANGED <<data_vars, outputs, row_vars, pos_lens_by_sample, step, kv_cache, alone>>
    BY <1>8 DEF ModelThrows
  <2> QED
    BY <2>1, TerminatedKeeps
<1>9. CASE UnnamedTokenCrashes
  <2>1. /\ pc' = "terminated" /\ pc # "get_inputs"
        /\ UNCHANGED <<data_vars, outputs, row_vars, pos_lens_by_sample, step, kv_cache, alone>>
    BY <1>9 DEF UnnamedTokenCrashes
  <2> QED
    BY <2>1, TerminatedKeeps
<1>10. CASE Stopped
  BY <1>10, NothingKeeps DEF Stopped
<1>11. CASE UNCHANGED vars
  BY <1>11, NothingKeeps
<1> QED
  BY <1>1, <1>2, <1>3, <1>4, <1>5, <1>6, <1>7, <1>8, <1>9, <1>10, <1>11 DEF Next

LEMMA InvHolds == Spec => []GenerationInv
<1>1. Init => GenerationInv
  BY GenerationStarts
<1>2. GenerationInv /\ [Next]_vars => GenerationInv'
  BY StepKeeps
<1> QED
  BY <1>1, <1>2, PTL DEF Spec

-----------------------------------------------------------------------------
(* The state is well-formed: the rows of the batch are rows of samples, and
   what is sampled and recorded is of the vocabulary. *)
THEOREM GenerationTypeCorrect == Spec => []TypeOK
<1>1. GenerationInv => TypeOK
  BY DEF GenerationInv
<1> QED
  BY <1>1, InvHolds, PTL

(* Every prompt that has tokens gets the tokens it would get alone, in order,
   through its EOS and without the pads: however many prompts of whatever
   lengths GptModel::forward generates for, and in whatever order they leave
   the batch. *)
THEOREM GeneratesAlone == Spec => []GeneratesAsIfAlone
<1>1. GenerationInv => GeneratesAsIfAlone
  BY DEF GenerationInv, OutputsAlone, GeneratesAsIfAlone, Rounds, R
<1> QED
  BY <1>1, InvHolds, PTL

(* Between two passes a sample of the batch holds its pads, its prompt and all
   its tokens but the last, at the positions of GptModel's
   pos_lens_by_sample; the cache of a sample that has left was cleared. *)
THEOREM CachesFollow == Spec => []CachesFollowSamples
<1>1. ASSUME GenerationInv, pc = "decode", NEW s \in Samples, InBatch(s)
      PROVE  /\ Len(kv_cache[s]) = pad_lens[s] + pos_lens_by_sample[s]
             /\ inputs[s] # <<>> => Attended(s, kv_cache) = SoloRows(s, Rounds)
  <2>1. /\ inputs \in Batches /\ alone[s] \in Futures
        /\ pad_lens[s] = MaxLen - Len(inputs[s])
        /\ pos_lens_by_sample[s] = Len(inputs[s]) + R - 1
        /\ HoldsPrefix(kv_cache[s], MaxLen - Len(inputs[s]), inputs[s], alone[s], R)
        /\ R \in 1 .. Larger(1, MaxSteps - MaxLen + 1)
        /\ MaxLen > 0
    BY <1>1 DEF GenerationInv, TypeOK, Padding, RowsInStep, CachesHold
  <2>2. /\ inputs[s] \in Seq(Tokens) /\ Len(inputs[s]) \in Nat
        /\ MaxLen - Len(inputs[s]) \in Nat /\ MaxLen \in Nat
    BY <2>1, BatchesAreLists, MaxLenFacts
  <2>3. alone[s] \in Seq(Tokens) /\ Len(alone[s]) \in Nat /\ Len(alone[s]) > MaxSteps
    BY <2>1, FuturesAreLists
  <2>4. R \in Nat \ {0} /\ R <= MaxSteps
    BY <2>1, <2>2, GenerationAssumption DEF Larger
  <2>5. R - 1 <= Len(alone[s])
    BY <2>3, <2>4, GenerationAssumption
  <2>6. Rounds = R
    BY <1>1 DEF Rounds, R
  <2> DEFINE pads == MaxLen - Len(inputs[s])
             kv == kv_cache[s]
             prompt == inputs[s]
             future == alone[s]
  <2> HIDE DEF pads, kv, prompt, future
  <2>7. /\ pads \in Nat /\ prompt \in Seq(Tokens) /\ future \in Seq(Tokens)
        /\ R \in Nat \ {0} /\ R - 1 <= Len(future) /\ HoldsPrefix(kv, pads, prompt, future, R)
    BY <2>1, <2>2, <2>3, <2>4, <2>5 DEF pads, kv, prompt, future
  <2>8. prompt # <<>> =>
           SubSeq(kv, pads + 1, Len(kv)) = NewRows(prompt \o SubSeq(future, 1, R - 1), 0)
    BY <2>7, AttendedAlone
  <2>9. Attended(s, kv_cache) = SubSeq(kv, pads + 1, Len(kv))
    BY <2>1 DEF Attended, pads, kv
  <2>10. SoloRows(s, Rounds) = NewRows(prompt \o SubSeq(future, 1, R - 1), 0)
    BY <2>6 DEF SoloRows, prompt, future
  <2>11. Len(kv_cache[s]) = MaxLen - Len(inputs[s]) + Len(inputs[s]) + R - 1
    BY <2>1 DEF HoldsPrefix
  <2>12. Len(kv_cache[s]) = pad_lens[s] + pos_lens_by_sample[s]
    <3>1. pad_lens[s] = MaxLen - Len(inputs[s])
          /\ pos_lens_by_sample[s] = Len(inputs[s]) + R - 1
      BY <2>1
    <3>2. Len(inputs[s]) \in Int /\ MaxLen \in Int /\ R \in Int
      BY <2>2, <2>4
    <3> DEFINE len == Len(inputs[s])
               max == MaxLen
               rounds == R
    <3>3. /\ len \in Int /\ max \in Int /\ rounds \in Int
          /\ Len(kv_cache[s]) = max - len + len + rounds - 1
          /\ pad_lens[s] = max - len /\ pos_lens_by_sample[s] = len + rounds - 1
      BY <2>11, <3>1, <3>2
    <3> HIDE DEF len, max, rounds
    <3> QED
      BY <3>3
  <2> QED
    BY <2>8, <2>9, <2>10, <2>12 DEF prompt
<1>2. ASSUME GenerationInv, pc = "decode", NEW s \in Samples, ~InBatch(s)
      PROVE  kv_cache[s] = <<>>
  BY <1>2 DEF GenerationInv, CachesHold
<1>3. GenerationInv => CachesFollowSamples
  BY <1>1, <1>2 DEF CachesFollowSamples, InBatch
<1> QED
  BY <1>3, InvHolds, PTL

(* GptModel::decode runs until every sample that has tokens has met its EOS or
   the longest prompt of the batch has reached max_steps, and no further. *)
THEOREM StopsAtTheLimit == Spec => []StopsAtLimit
<1>1. ASSUME GenerationInv
      PROVE  Rounds <= Larger(1, MaxSteps - MaxLen + 1)
  <2>1. inputs \in Batches
    BY <1>1 DEF GenerationInv, TypeOK
  <2>2. MaxLen \in Nat
    BY <2>1, MaxLenFacts
  <2>3. Larger(1, MaxSteps - MaxLen + 1) \in Int /\ 1 <= Larger(1, MaxSteps - MaxLen + 1)
    BY <2>2, GenerationAssumption DEF Larger
  <2>4. CASE pc \in {"decode", "done"}
    <3>1. Rounds = R /\ R \in 1 .. Larger(1, MaxSteps - MaxLen + 1)
      BY <1>1, <2>4 DEF GenerationInv, RowsInStep, Rounds, R
    <3> QED
      BY <2>3, <3>1
  <2>5. CASE pc \notin {"decode", "done"}
    BY <2>3, <2>5 DEF Rounds
  <2> QED
    BY <2>4, <2>5
<1>2. ASSUME GenerationInv, pc = "done", NEW s \in Samples, inputs[s] # <<>>
      PROVE  \/ Rounds = Larger(1, MaxSteps - MaxLen + 1)
             \/ \E i \in 1 .. Rounds : alone[s][i] = EosId
  <2>1. inputs \in Batches /\ step \in Nat
    BY <1>2 DEF GenerationInv, TypeOK
  <2>2. MaxLen \in Nat
    BY <2>1, MaxLenFacts
  <2>3. Rounds = R /\ R = step - MaxLen + 1 /\ R \in 1 .. Larger(1, MaxSteps - MaxLen + 1)
    BY <1>2 DEF GenerationInv, RowsInStep, Rounds, R
  <2>4. InBatch(s) <=> ~StopsWithin(alone[s], R)
    BY <1>2 DEF GenerationInv, LeavesAtEos
  <2>5. ~(step < MaxSteps) \/ sample_ids = <<>>
    BY <1>2 DEF GenerationInv, AtTheEnd, KeepsDecoding
  <2>6. CASE StopsWithin(alone[s], R)
    BY <2>3, <2>6 DEF StopsWithin
  <2>7. CASE InBatch(s)
    <3>1. sample_ids # <<>>
      BY <2>7 DEF InBatch, Rows
    <3>2. step >= MaxSteps /\ MaxSteps \in Nat
      BY <2>1, <2>5, <3>1, GenerationAssumption
    <3>3. R >= MaxSteps - MaxLen + 1 /\ R >= 1 /\ R \in Int
      BY <2>1, <2>2, <2>3, <3>2
    <3>4. R <= Larger(1, MaxSteps - MaxLen + 1)
      BY <2>3
    <3>5. R = Larger(1, MaxSteps - MaxLen + 1)
      BY <2>2, <3>2, <3>3, <3>4 DEF Larger
    <3> QED
      BY <2>3, <3>5
  <2> QED
    BY <2>4, <2>6, <2>7
<1>3. GenerationInv => StopsAtLimit
  BY <1>1, <1>2 DEF StopsAtLimit
<1> QED
  BY <1>3, InvHolds, PTL

=============================================================================
