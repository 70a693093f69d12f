------------------------ MODULE ModelLoading_proofs ------------------------
(***************************************************************************)
(* For every set of configurations and checkpoints: what the validation    *)
(* lets through is loaded whole and runs, what it refuses could not run,   *)
(* and nothing is read from outside the file.                              *)
(*                                                                         *)
(* The argument: the parts are distinct and their weights are the required *)
(* keys, so a part that has still to load finds its weight where the file  *)
(* put it, with the shape the validation saw.                              *)
(***************************************************************************)
EXTENDS ModelLoading, SequenceTheorems, TLAPS

-----------------------------------------------------------------------------
(* The inductive invariant. *)

ConfigTyped ==
    /\ config.num_layers \in Int /\ config.hidden_size \in Int
    /\ config.num_heads \in Int /\ config.num_heads_kv \in Int
    /\ config.vocab_size \in Int

Tensor(key) == file.tensors[key]

FileTyped ==
    /\ file.base \in Int /\ file.size \in Int
    /\ \A key \in DOMAIN file.tensors :
          /\ Tensor(key).shape \in Seq(Int)
          /\ Tensor(key).begin \in Int /\ Tensor(key).end \in Int

(* What is in params_ is what the file has under that key. *)
ParamsInv ==
    \A key \in DOMAIN params :
        /\ key \in DOMAIN file.tensors /\ Loads(Tensor(key))
        /\ params[key] = Loaded(Tensor(key))

ValidateInv == pc = "validate" => DOMAIN params = DOMAIN file.tensors

(* What the validation established, in terms of the file. *)
WeightShape(p) == Tensor(<<p[1], p[2], "weight">>).shape

LayerChecked(l) ==
    LET hidden == config.hidden_size
    IN /\ IsMatrix(WeightShape(<<l, "q_proj">>), hidden, hidden)
       /\ IsMatrix(WeightShape(<<l, "k_proj">>), KvHiddenSize, hidden)
       /\ IsMatrix(WeightShape(<<l, "v_proj">>), KvHiddenSize, hidden)
       /\ IsMatrix(WeightShape(<<l, "o_proj">>), hidden, hidden)
       /\ IsVector(WeightShape(<<l, "input_layernorm">>), hidden)
       /\ IsVector(WeightShape(<<l, "post_attention_layernorm">>), hidden)
       /\ MlpFits(WeightShape(<<l, "down_proj">>), WeightShape(<<l, "gate_proj">>),
                  WeightShape(<<l, "up_proj">>))

Checked ==
    /\ ConfigFits
    /\ RequiredKeys \subseteq DOMAIN file.tensors
    /\ IsMatrix(WeightShape(<<Model, "embed_tokens">>), config.vocab_size, config.hidden_size)
    /\ IsVector(WeightShape(<<Model, "norm">>), config.hidden_size)
    /\ \A l \in Layers : LayerChecked(l)

(* The keys a part may take out of params_, and those of the first n parts. *)
KeysOf(p) ==
    {<<p[1], p[2], "weight">>}
        \cup (IF p[2] \in LinearParts THEN {<<p[1], p[2], "bias">>} ELSE {})
TakenBefore(n) == UNION {KeysOf(Parts[i]) : i \in 1 .. n}

LoadedUpTo(n) ==
    /\ DOMAIN params = DOMAIN file.tensors \ TakenBefore(n)
    /\ DOMAIN model = {Parts[i] : i \in 1 .. n}
    /\ \A i \in 1 .. n : model[Parts[i]].weight = WeightShape(Parts[i])

(* The parts that have loaded, and those that have still to. *)
Done == Len(Parts) - Len(todo)

LoadInv ==
    /\ pc = "load" =>
          /\ Checked
          /\ Len(todo) \in 0 .. Len(Parts)
          /\ todo = [i \in 1 .. Len(todo) |-> Parts[Done + i]]
          /\ LoadedUpTo(Done)
    /\ pc = "loaded" => Checked /\ LoadedUpTo(Len(Parts))

FailedInv ==
    /\ failed_at \in {"nowhere", "read", "validate", "forward"}
    /\ failed_at = "nowhere" \/ pc = "failed"
    /\ failed_at = "validate" => ~(ConfigFits /\ ParamsFit)
    /\ AcceptedModelsRun

(* No part is loaded before the validation. *)
EmptyInv == pc \in {"read", "validate"} => model = <<>>

IInv ==
    /\ ConfigTyped /\ FileTyped /\ ParamsInv
    /\ EmptyInv /\ ValidateInv /\ LoadInv /\ FailedInv

-----------------------------------------------------------------------------
(* The parts of a model, as a set. *)

Names == LinearParts \cup NormParts
PartNames ==
    {<<Model, "embed_tokens">>, <<Model, "norm">>}
        \cup {<<l, name>> : l \in Layers, name \in Names}

LEMMA NamesAre ==
    /\ PartsOfLayer \in Seq(Names) /\ Len(PartsOfLayer) = 9
    /\ \A name \in Names : \E k \in 0 .. 8 : PartsOfLayer[k + 1] = name
    /\ \A j, k \in 0 .. 8 : PartsOfLayer[j + 1] = PartsOfLayer[k + 1] => j = k
    /\ "embed_tokens" \notin Names /\ "norm" \notin Names
<1>1. /\ PartsOfLayer \in Seq(Names) /\ Len(PartsOfLayer) = 9
      /\ PartsOfLayer[1] = "q_proj" /\ PartsOfLayer[2] = "k_proj"
      /\ PartsOfLayer[3] = "v_proj" /\ PartsOfLayer[4] = "o_proj"
      /\ PartsOfLayer[5] = "input_layernorm" /\ PartsOfLayer[6] = "down_proj"
      /\ PartsOfLayer[7] = "gate_proj" /\ PartsOfLayer[8] = "up_proj"
      /\ PartsOfLayer[9] = "post_attention_layernorm"
  BY DEF PartsOfLayer, Names, LinearParts, NormParts
<1>2. Names = {"q_proj", "k_proj", "v_proj", "o_proj", "input_layernorm", "down_proj",
               "gate_proj", "up_proj", "post_attention_layernorm"}
  BY DEF Names, LinearParts, NormParts
<1>3. 0 .. 8 = {0, 1, 2, 3, 4, 5, 6, 7, 8}
  OBVIOUS
<1>4. \A name \in Names : \E k \in 0 .. 8 : PartsOfLayer[k + 1] = name
  BY <1>1, <1>2, <1>3
<1>5. \A j, k \in 0 .. 8 : PartsOfLayer[j + 1] = PartsOfLayer[k + 1] => j = k
  BY <1>1, <1>3
<1>6. "embed_tokens" \notin Names /\ "norm" \notin Names
  BY <1>2
<1> QED
  BY <1>1, <1>4, <1>5, <1>6

(* Counting by nine: the i-th part of the layers, and back. *)
LEMMA ByNine ==
    ASSUME NEW n \in Nat, NEW i \in 0 .. 9 * n - 1
    PROVE  i \div 9 \in 0 .. n - 1 /\ i % 9 \in 0 .. 8 /\ i = 9 * (i \div 9) + (i % 9)
  OBVIOUS

LEMMA BackByNine ==
    ASSUME NEW n \in Nat, NEW l \in 0 .. n - 1, NEW k \in 0 .. 8
    PROVE  /\ 9 * l + k \in 0 .. 9 * n - 1
           /\ (9 * l + k) \div 9 = l /\ (9 * l + k) % 9 = k
  OBVIOUS

LEMMA LayerPartsAre ==
    ASSUME config.num_layers \in Nat, NEW i \in 0 .. 9 * config.num_layers - 1
    PROVE  /\ i \div 9 \in Layers /\ PartsOfLayer[(i % 9) + 1] \in Names
           /\ LayerPart(i) = <<i \div 9, PartsOfLayer[(i % 9) + 1]>>
<1>1. i \div 9 \in Layers /\ i % 9 \in 0 .. 8
  BY ByNine DEF Layers
<1>2. (i % 9) + 1 \in 1 .. 9
  BY <1>1
<1>3. PartsOfLayer[(i % 9) + 1] \in Names
  BY <1>2, NamesAre, ElementOfSeq
<1> QED
  BY <1>1, <1>3 DEF LayerPart

(* One sequence after another. *)
LEMMA Joined ==
    ASSUME NEW S, NEW s \in Seq(S), NEW t \in Seq(S)
    PROVE  /\ s \o t \in Seq(S)
           /\ Len(s) \in Nat /\ Len(t) \in Nat
           /\ Len(s \o t) = Len(s) + Len(t)
           /\ \A i \in 1 .. Len(s) : (s \o t)[i] = s[i]
           /\ \A i \in 1 .. Len(t) : (s \o t)[Len(s) + i] = t[i]
<1> DEFINE u == s \o t
<1>1. /\ u \in Seq(S)
      /\ Len(u) = Len(s) + Len(t)
      /\ \A i \in 1 .. Len(s) + Len(t) :
            u[i] = IF i <= Len(s) THEN s[i] ELSE t[i - Len(s)]
  BY ConcatProperties
<1>2. Len(s) \in Nat /\ Len(t) \in Nat
  BY LenProperties
<1> HIDE DEF u
<1>3. ASSUME NEW i \in 1 .. Len(s)
      PROVE  u[i] = s[i]
  BY <1>1, <1>2
<1>4. ASSUME NEW i \in 1 .. Len(t)
      PROVE  u[Len(s) + i] = t[i]
  <2>1. Len(s) + i \in 1 .. Len(s) + Len(t) /\ ~(Len(s) + i <= Len(s)) /\ Len(s) + i - Len(s) = i
    BY <1>2
  <2> QED
    BY <1>1, <2>1
<1> QED
  BY <1>1, <1>2, <1>3, <1>4 DEF u

LEMMA JoinedThrice ==
    ASSUME NEW S, NEW a \in Seq(S), NEW b \in Seq(S), NEW c \in Seq(S)
    PROVE  /\ (a \o b) \o c \in Seq(S)
           /\ Len((a \o b) \o c) = Len(a) + Len(b) + Len(c)
           /\ \A i \in 1 .. Len(a) : ((a \o b) \o c)[i] = a[i]
           /\ \A i \in 1 .. Len(b) : ((a \o b) \o c)[Len(a) + i] = b[i]
           /\ \A i \in 1 .. Len(c) : ((a \o b) \o c)[Len(a) + Len(b) + i] = c[i]
<1> DEFINE ab == a \o b
           abc == ab \o c
<1>1. /\ ab \in Seq(S) /\ Len(a) \in Nat /\ Len(b) \in Nat
      /\ Len(ab) = Len(a) + Len(b)
      /\ \A i \in 1 .. Len(a) : ab[i] = a[i]
      /\ \A i \in 1 .. Len(b) : ab[Len(a) + i] = b[i]
  BY Joined
<1> HIDE DEF ab
<1>2. ab \in Seq(S)
  BY <1>1
<1>3. /\ abc \in Seq(S) /\ Len(c) \in Nat
      /\ Len(abc) = Len(ab) + Len(c)
      /\ \A i \in 1 .. Len(ab) : abc[i] = ab[i]
      /\ \A i \in 1 .. Len(c) : abc[Len(ab) + i] = c[i]
  BY <1>2, Joined
<1> HIDE DEF abc
<1>4. \A i \in 1 .. Len(a) : abc[i] = a[i]
  BY <1>1, <1>3
<1>5. \A i \in 1 .. Len(b) : abc[Len(a) + i] = b[i]
  BY <1>1, <1>3
<1>6. abc = (a \o b) \o c
  BY DEF abc, ab
<1>7. /\ abc \in Seq(S) /\ Len(abc) = Len(a) + Len(b) + Len(c)
      /\ \A i \in 1 .. Len(c) : abc[Len(a) + Len(b) + i] = c[i]
  BY <1>1, <1>3
<1> QED
  BY <1>4, <1>5, <1>6, <1>7

LEMMA PartsAre ==
    ASSUME config.num_layers \in Nat
    PROVE  /\ Len(Parts) = 9 * config.num_layers + 2
           /\ Parts \in Seq(PartNames)
           /\ Parts[1] = <<Model, "embed_tokens">>
           /\ \A i \in 0 .. 9 * config.num_layers - 1 : Parts[i + 2] = LayerPart(i)
           /\ Parts[9 * config.num_layers + 2] = <<Model, "norm">>
<1> DEFINE m == 9 * config.num_layers
           first == <<Model, "embed_tokens">>
           last == <<Model, "norm">>
           a == <<first>>
           b == [i \in 1 .. m |-> LayerPart(i - 1)]
           c == <<last>>
           S == PartNames
<1>1. m \in Nat
  OBVIOUS
<1>2. \A i \in 0 .. m - 1 : LayerPart(i) \in S
  BY LayerPartsAre DEF PartNames
<1>3. first \in S /\ last \in S
  BY DEF PartNames
<1>4. Parts = (a \o b) \o c
  BY DEF Parts
<1> HIDE DEF first, last, m, S
<1>6. /\ a \in Seq(S) /\ Len(a) = 1 /\ a[1] = first
      /\ c \in Seq(S) /\ Len(c) = 1 /\ c[1] = last
  BY <1>3
<1>5. b \in Seq(S) /\ Len(b) = m /\ \A i \in 1 .. m : b[i] = LayerPart(i - 1)
  BY <1>1, <1>2
<1> HIDE DEF a, b, c
<1>7. a \in Seq(S) /\ b \in Seq(S) /\ c \in Seq(S)
  BY <1>5, <1>6
<1>8. /\ Parts \in Seq(S) /\ Len(Parts) = Len(a) + Len(b) + Len(c)
      /\ \A i \in 1 .. Len(a) : Parts[i] = a[i]
      /\ \A i \in 1 .. Len(b) : Parts[Len(a) + i] = b[i]
      /\ \A i \in 1 .. Len(c) : Parts[Len(a) + Len(b) + i] = c[i]
  BY <1>4, <1>7, JoinedThrice
<1>9. /\ Parts \in Seq(S) /\ Len(Parts) = m + 2
      /\ Parts[1] = first /\ Parts[m + 2] = last
      /\ \A i \in 1 .. m : Parts[1 + i] = b[i]
  BY <1>1, <1>5, <1>6, <1>8
<1>10. \A i \in 0 .. m - 1 : Parts[i + 2] = LayerPart(i)
  <2> TAKE i \in 0 .. m - 1
  <2>1. i + 1 \in 1 .. m /\ 1 + (i + 1) = i + 2 /\ (i + 1) - 1 = i
    BY <1>1
  <2> QED
    BY <2>1, <1>5, <1>9
<1> QED
  BY <1>9, <1>10 DEF m, S, first, last

(* Every part of the model is loaded once. *)
LEMMA PartsOnce ==
    ASSUME config.num_layers \in Nat, NEW i \in 1 .. Len(Parts), NEW j \in 1 .. Len(Parts),
           Parts[i] = Parts[j]
    PROVE  i = j
<1> DEFINE m == 9 * config.num_layers
           l(n) == n \div 9
           k(n) == n % 9
<1>1. m \in Nat /\ Len(Parts) = m + 2
  BY PartsAre
<1>2. ASSUME NEW n \in 0 .. m - 1
      PROVE  /\ l(n) \in Layers /\ k(n) \in 0 .. 8 /\ n = 9 * l(n) + k(n)
             /\ PartsOfLayer[k(n) + 1] \in Names
             /\ Parts[n + 2] = <<l(n), PartsOfLayer[k(n) + 1]>>
  BY <1>2, LayerPartsAre, ByNine, PartsAre
<1>3. Parts[1] = <<Model, "embed_tokens">> /\ Parts[m + 2] = <<Model, "norm">>
  BY PartsAre
<1>4. /\ "embed_tokens" \notin Names /\ "norm" \notin Names
      /\ \A x, y \in 0 .. 8 : PartsOfLayer[x + 1] = PartsOfLayer[y + 1] => x = y
  BY NamesAre
<1> HIDE DEF l, k, m
<1>5. ASSUME NEW x \in 0 .. m - 1, NEW y \in 0 .. m - 1, Parts[x + 2] = Parts[y + 2]
      PROVE  x = y
  <2>1. l(x) = l(y) /\ PartsOfLayer[k(x) + 1] = PartsOfLayer[k(y) + 1]
    BY <1>2, <1>5
  <2>2. k(x) = k(y)
    BY <2>1, <1>2, <1>4
  <2> QED
    BY <2>1, <2>2, <1>2
<1>6. \A n \in 0 .. m - 1 : Parts[n + 2] # Parts[1] /\ Parts[n + 2] # Parts[m + 2]
  <2> TAKE n \in 0 .. m - 1
  <2>1. /\ Parts[n + 2] = <<l(n), PartsOfLayer[k(n) + 1]>>
        /\ PartsOfLayer[k(n) + 1] \in Names
    BY <1>2
  <2>2. PartsOfLayer[k(n) + 1] # "embed_tokens" /\ PartsOfLayer[k(n) + 1] # "norm"
    BY <1>4, <2>1
  <2> QED
    BY <1>3, <2>1, <2>2
<1>7. Parts[1] # Parts[m + 2]
  BY <1>3
<1>8. \A n \in 1 .. Len(Parts) : n = 1 \/ n = m + 2 \/ (n - 2 \in 0 .. m - 1 /\ n = (n - 2) + 2)
  BY <1>1
<1>9. CASE i - 2 \in 0 .. m - 1 /\ i = (i - 2) + 2
  <2>1. CASE j - 2 \in 0 .. m - 1 /\ j = (j - 2) + 2
    <3>1. i - 2 = j - 2
      BY <1>5, <1>9, <2>1
    <3> QED
      BY <3>1, <1>1
  <2> QED
    BY <2>1, <1>6, <1>8, <1>9
<1>10. CASE i = 1
  BY <1>6, <1>7, <1>8, <1>10
<1>11. CASE i = m + 2
  BY <1>6, <1>7, <1>8, <1>11
<1> QED
  BY <1>8, <1>9, <1>10, <1>11

LEMMA PartsAll ==
    ASSUME config.num_layers \in Nat, NEW p \in PartNames
    PROVE  \E i \in 1 .. Len(Parts) : Parts[i] = p
<1> DEFINE m == 9 * config.num_layers
<1>1. m \in Nat /\ Len(Parts) = m + 2
  BY PartsAre
<1>2. CASE p = <<Model, "embed_tokens">>
  <2>1. 1 \in 1 .. Len(Parts)
    BY <1>1
  <2> QED
    BY <1>2, <2>1, PartsAre
<1>3. CASE p = <<Model, "norm">>
  <2>1. m + 2 \in 1 .. Len(Parts)
    BY <1>1
  <2> QED
    BY <1>3, <2>1, PartsAre
<1>4. ASSUME NEW l \in Layers, NEW name \in Names, p = <<l, name>>
      PROVE  \E i \in 1 .. Len(Parts) : Parts[i] = p
  <2>1. PICK k \in 0 .. 8 : PartsOfLayer[k + 1] = name
    BY NamesAre
  <2>2. l \in 0 .. config.num_layers - 1
    BY DEF Layers
  <2> DEFINE n == 9 * l + k
  <2>3. n \in 0 .. m - 1 /\ n \div 9 = l /\ n % 9 = k
    BY <2>2, BackByNine
  <2>4. LayerPart(n) = p
    BY <2>1, <2>3, <1>4 DEF LayerPart
  <2>5. Parts[n + 2] = LayerPart(n)
    BY <2>3, PartsAre
  <2>6. n + 2 \in 1 .. Len(Parts)
    <3> HIDE DEF n, m
    <3> QED
      BY <2>3, <1>1
  <2> QED
    BY <2>4, <2>5, <2>6
<1> QED
  BY <1>2, <1>3, <1>4 DEF PartNames

LEMMA PartsTyped ==
    ASSUME config.num_layers \in Nat
    PROVE  /\ Len(Parts) \in Nat /\ DOMAIN Parts = 1 .. Len(Parts)
           /\ \A i \in 1 .. Len(Parts) : Parts[i] \in PartNames
<1>1. Parts \in Seq(PartNames)
  BY PartsAre
<1> HIDE DEF PartNames
<1> QED
  BY <1>1, LenProperties, ElementOfSeq

-----------------------------------------------------------------------------
(* The keys of the parts. *)

LEMMA WeightsRequired ==
    ASSUME NEW p \in PartNames
    PROVE  /\ p = <<p[1], p[2]>>
           /\ <<p[1], p[2], "weight">> \in RequiredKeys
           /\ <<p[1], p[2], "weight">> \in KeysOf(p)
<1>1. CASE p = <<Model, "embed_tokens">>
  BY <1>1 DEF RequiredKeys, EmbedWeight, KeysOf
<1>2. CASE p = <<Model, "norm">>
  BY <1>2 DEF RequiredKeys, ModelNorm, KeysOf
<1>3. ASSUME NEW l \in Layers, NEW name \in Names, p = <<l, name>>
      PROVE  /\ p = <<p[1], p[2]>>
             /\ <<p[1], p[2], "weight">> \in RequiredKeys
             /\ <<p[1], p[2], "weight">> \in KeysOf(p)
  BY <1>3 DEF RequiredKeys, LayerKeys, Names, KeysOf
<1> QED
  BY <1>1, <1>2, <1>3 DEF PartNames

LEMMA KeysApart ==
    ASSUME NEW p \in PartNames, NEW q \in PartNames, NEW key \in KeysOf(p),
           key \in KeysOf(q)
    PROVE  p = q
<1>1. key[1] = p[1] /\ key[2] = p[2]
  BY DEF KeysOf
<1>2. key[1] = q[1] /\ key[2] = q[2]
  BY DEF KeysOf
<1> QED
  BY <1>1, <1>2, WeightsRequired

(* What the parts take together is what the model may have. *)
LEMMA KnownKeysTaken ==
    ASSUME config.num_layers \in Nat
    PROVE  TakenBefore(Len(Parts)) = KnownKeys
<1>1. ASSUME NEW key \in TakenBefore(Len(Parts))
      PROVE  key \in KnownKeys
  <2>1. PICK i \in 1 .. Len(Parts) : key \in KeysOf(Parts[i])
    BY DEF TakenBefore
  <2> DEFINE p == Parts[i]
  <2>2. p \in PartNames
    BY PartsTyped
  <2>3. key \in KeysOf(p)
    BY <2>1
  <2> HIDE DEF p
  <2>4. CASE p = <<Model, "embed_tokens">>
    BY <2>3, <2>4 DEF KeysOf, KnownKeys, EmbedWeight, LinearParts
  <2>5. CASE p = <<Model, "norm">>
    BY <2>3, <2>5 DEF KeysOf, KnownKeys, ModelNorm, LinearParts
  <2>6. ASSUME NEW l \in Layers, NEW name \in Names, p = <<l, name>>
        PROVE  key \in KnownKeys
    <3>1. key = <<l, name, "weight">> \/ (name \in LinearParts /\ key = <<l, name, "bias">>)
      BY <2>3, <2>6 DEF KeysOf
    <3>2. <<l, name, "weight">> \in LayerKeys
      BY DEF LayerKeys, Names
    <3> QED
      BY <3>1, <3>2 DEF KnownKeys
  <2> QED
    BY <2>2, <2>4, <2>5, <2>6 DEF PartNames
<1>2. ASSUME NEW p \in PartNames, NEW key \in KeysOf(p)
      PROVE  key \in TakenBefore(Len(Parts))
  <2>1. PICK i \in 1 .. Len(Parts) : Parts[i] = p
    BY PartsAll
  <2> QED
    BY <2>1 DEF TakenBefore
<1>3. ASSUME NEW key \in KnownKeys
      PROVE  \E p \in PartNames : key \in KeysOf(p)
  <2>1. CASE key = EmbedWeight
    <3>1. <<Model, "embed_tokens">> \in PartNames
      BY DEF PartNames
    <3>2. key \in KeysOf(<<Model, "embed_tokens">>)
      BY <2>1 DEF EmbedWeight, KeysOf
    <3> QED
      BY <3>1, <3>2
  <2>2. CASE key = ModelNorm
    <3>1. <<Model, "norm">> \in PartNames
      BY DEF PartNames
    <3>2. key \in KeysOf(<<Model, "norm">>)
      BY <2>2 DEF ModelNorm, KeysOf
    <3> QED
      BY <3>1, <3>2
  <2>3. ASSUME NEW l \in Layers, NEW name \in LinearParts \cup NormParts,
               key = <<l, name, "weight">>
        PROVE  \E p \in PartNames : key \in KeysOf(p)
    <3>1. <<l, name>> \in PartNames
      BY DEF PartNames, Names
    <3>2. key \in KeysOf(<<l, name>>)
      BY <2>3 DEF KeysOf
    <3> QED
      BY <3>1, <3>2
  <2>4. ASSUME NEW l \in Layers, NEW name \in LinearParts, key = <<l, name, "bias">>
        PROVE  \E p \in PartNames : key \in KeysOf(p)
    <3>1. <<l, name>> \in PartNames
      BY DEF PartNames, Names
    <3>2. key \in KeysOf(<<l, name>>)
      BY <2>4 DEF KeysOf
    <3> QED
      BY <3>1, <3>2
  <2> QED
    BY <2>1, <2>2, <2>3, <2>4 DEF KnownKeys, LayerKeys
<1> QED
  BY <1>1, <1>2, <1>3

-----------------------------------------------------------------------------
(* The step of a part. *)

LEMMA TakenBeforeNext ==
    ASSUME NEW n \in Nat
    PROVE  TakenBefore(n + 1) = TakenBefore(n) \cup KeysOf(Parts[n + 1])
<1>1. 1 .. n + 1 = (1 .. n) \cup {n + 1}
  OBVIOUS
<1> QED
  BY <1>1 DEF TakenBefore

LEMMA TypedConfig ==
    ASSUME ConfigTyped, ConfigFits
    PROVE  config.num_layers \in Nat \ {0}
  BY DEF ConfigTyped, ConfigFits

LEMMA NextPart ==
    ASSUME ConfigTyped, LoadInv, pc = "load", todo # <<>>
    PROVE  /\ Done \in 0 .. Len(Parts) - 1
           /\ part = Parts[Done + 1] /\ part \in PartNames
           /\ Len(Tail(todo)) = Len(todo) - 1
           /\ Tail(todo) = [i \in 1 .. Len(todo) - 1 |-> Parts[Done + 1 + i]]
<1>1. /\ Len(todo) \in 0 .. Len(Parts)
      /\ todo = [i \in 1 .. Len(todo) |-> Parts[Done + i]]
      /\ Checked
  BY DEF LoadInv
<1>2. /\ config.num_layers \in Nat
      /\ Len(Parts) \in Nat
      /\ \A i \in 1 .. Len(Parts) : Parts[i] \in PartNames
  BY <1>1, TypedConfig, PartsTyped DEF Checked
<1> DEFINE k == Len(todo)
           n == Done
<1>3. k \in 0 .. Len(Parts) /\ n = Len(Parts) - k
  BY <1>1 DEF Done
<1>4. todo = [i \in 1 .. k |-> Parts[n + i]]
  BY <1>1
<1> HIDE DEF k, n
<1>5. \A i \in 1 .. k : n + i \in 1 .. Len(Parts)
  BY <1>2, <1>3
<1>6. todo \in Seq(PartNames)
  <2> HIDE DEF PartNames
  <2> QED
    BY <1>2, <1>3, <1>4, <1>5
<1> HIDE DEF PartNames
<1>7. Len(todo) = k
  BY DEF k
<1>8. /\ Head(todo) = todo[1] /\ Tail(todo) \in Seq(PartNames) /\ Len(Tail(todo)) = k - 1
      /\ \A i \in 1 .. k - 1 : Tail(todo)[i] = todo[i + 1]
      /\ k >= 1
  BY <1>3, <1>6, <1>7, HeadTailProperties, EmptySeq
<1>9. Head(todo) = Parts[n + 1]
  BY <1>3, <1>4, <1>8
<1>10. n + 1 \in 1 .. Len(Parts) /\ n \in 0 .. Len(Parts) - 1
  BY <1>2, <1>3, <1>8
<1>11. Tail(todo) = [i \in 1 .. k - 1 |-> Parts[n + 1 + i]]
  <2>1. \A i \in 1 .. k - 1 : Tail(todo)[i] = Parts[n + 1 + i]
    BY <1>3, <1>4, <1>8
  <2>2. Tail(todo) = [i \in 1 .. k - 1 |-> Tail(todo)[i]]
    <3> DEFINE u == Tail(todo)
    <3>1. u \in Seq(PartNames) /\ Len(u) = k - 1
      BY <1>8
    <3> HIDE DEF u
    <3>2. u \in [1 .. k - 1 -> PartNames]
      BY <3>1, LenProperties
    <3>3. u = [i \in 1 .. k - 1 |-> u[i]]
      BY <3>2
    <3> QED
      BY <3>3 DEF u
  <2> QED
    BY <2>1, <2>2
<1> QED
  BY <1>2, <1>7, <1>8, <1>9, <1>10, <1>11 DEF part, n, k

LEMMA ShapeOfParam ==
    ASSUME ParamsInv, NEW key \in DOMAIN params
    PROVE  params[key].shape = Tensor(key).shape
  BY DEF ParamsInv, Loaded

(* A weight the validation saw has the rank its part reads. *)
LEMMA RanksChecked ==
    ASSUME Checked, NEW p \in PartNames
    PROVE  p[2] \in NormParts \cup {"norm"} \/ Len(WeightShape(p)) > 1
<1>1. CASE p = <<Model, "embed_tokens">>
  BY <1>1 DEF Checked, IsMatrix
<1>2. CASE p = <<Model, "norm">>
  BY <1>2
<1>3. ASSUME NEW l \in Layers, NEW name \in Names, p = <<l, name>>, name \notin NormParts
      PROVE  Len(WeightShape(p)) = 2
  <2>1. LayerChecked(l)
    BY DEF Checked
  <2>2. name \in {"q_proj", "k_proj", "v_proj", "o_proj"} \/ name \in {"down_proj", "gate_proj", "up_proj"}
    BY <1>3 DEF Names, LinearParts
  <2>3. CASE name \in {"q_proj", "k_proj", "v_proj", "o_proj"}
    BY <2>1, <2>3, <1>3 DEF LayerChecked, IsMatrix
  <2>4. CASE name \in {"down_proj", "gate_proj", "up_proj"}
    BY <2>1, <2>4, <1>3 DEF LayerChecked, MlpFits
  <2> QED
    BY <2>2, <2>3, <2>4
<1> QED
  BY <1>1, <1>2, <1>3 DEF PartNames

(* The keys of the next part are still where the file put them. *)
LEMMA NotTakenYet ==
    ASSUME ConfigTyped, LoadInv, pc = "load", todo # <<>>, NEW key \in KeysOf(part)
    PROVE  key \notin TakenBefore(Done)
<1>1. /\ Done \in 0 .. Len(Parts) - 1 /\ part = Parts[Done + 1] /\ part \in PartNames
      /\ config.num_layers \in Nat
  BY NextPart, TypedConfig DEF LoadInv, Checked
<1>2. Len(Parts) \in Nat /\ \A i \in 1 .. Len(Parts) : Parts[i] \in PartNames
  BY <1>1, PartsTyped
<1> DEFINE n == Done
<1> HIDE DEF n, PartNames
<1>3. ASSUME NEW i \in 1 .. n, key \in KeysOf(Parts[i])
      PROVE  FALSE
  <2>1. i \in 1 .. Len(Parts) /\ n + 1 \in 1 .. Len(Parts) /\ i # n + 1
    BY <1>1, <1>2 DEF n
  <2>2. Parts[i] \in PartNames /\ Parts[n + 1] \in PartNames /\ key \in KeysOf(Parts[n + 1])
    BY <2>1, <1>1, <1>2 DEF n
  <2>3. Parts[i] = Parts[n + 1]
    BY <2>2, <1>3, KeysApart
  <2> QED
    BY <2>1, <2>3, <1>1, PartsOnce
<1> QED
  BY <1>3 DEF TakenBefore, n

LEMMA CanTakeNext ==
    ASSUME ConfigTyped, ParamsInv, LoadInv, pc = "load", todo # <<>>
    PROVE  CanTake /\ params[WeightKey].shape = WeightShape(part)
<1>1. part \in PartNames
  BY NextPart
<1>2. WeightKey \in RequiredKeys /\ WeightKey \in KeysOf(part)
  BY <1>1, WeightsRequired DEF WeightKey
<1>3. WeightKey \in DOMAIN file.tensors
  BY <1>2 DEF LoadInv, Checked
<1>4. WeightKey \in DOMAIN params
  BY <1>2, <1>3, NotTakenYet DEF LoadInv, LoadedUpTo
<1>5. params[WeightKey].shape = WeightShape(part)
  BY <1>4, ShapeOfParam DEF WeightShape, WeightKey
<1>6. part[2] \in NormParts \cup {"norm"} \/ Len(WeightShape(part)) > 1
  BY <1>1, RanksChecked DEF LoadInv
<1> QED
  BY <1>4, <1>5, <1>6 DEF CanTake

(* It takes its keys, as far as they are there. *)
LEMMA TakenAre ==
    ASSUME ConfigTyped, ParamsInv, LoadInv, pc = "load", todo # <<>>
    PROVE  DOMAIN params \ Taken = DOMAIN params \ KeysOf(part)
  BY DEF Taken, KeysOf, WeightKey, BiasKey, IsLinear

LEMMA CheckedStays ==
    ASSUME config' = config, file' = file, Checked
    PROVE  Checked'
<1>1. /\ ConfigFits' = ConfigFits /\ Layers' = Layers /\ RequiredKeys' = RequiredKeys
      /\ KvHiddenSize' = KvHiddenSize
  BY DEF ConfigFits, Layers, RequiredKeys, LayerKeys, Layers, KvHiddenSize, HeadDim
<1>2. ASSUME NEW l \in Layers
      PROVE  LayerChecked(l)'
  <2>1. LayerChecked(l)
    BY DEF Checked
  <2> QED
    BY <1>1, <2>1 DEF LayerChecked, WeightShape, Tensor, IsMatrix, IsVector, MlpFits
<1> QED
  BY <1>1, <1>2 DEF Checked, WeightShape, Tensor, IsMatrix, IsVector

LEMMA OnePartMore ==
    ASSUME ConfigTyped, ParamsInv, LoadInv, pc = "load", todo # <<>>, LoadPart
    PROVE  /\ LoadInv' /\ ParamsInv' /\ pc' = pc /\ failed_at' = failed_at
<1>1. /\ model' = [p \in DOMAIN model \cup {part} |->
                      IF p # part THEN model[p]
                      ELSE [weight |-> params[WeightKey].shape,
                            bias |-> IF IsLinear THEN Bias ELSE [given |-> FALSE, size |-> 0]]]
      /\ params' = [key \in DOMAIN params \ Taken |-> params[key]]
      /\ todo' = Tail(todo)
      /\ pc' = pc /\ config' = config /\ file' = file /\ failed_at' = failed_at
  BY CanTakeNext DEF LoadPart
<1>2. /\ Done \in 0 .. Len(Parts) - 1
      /\ part = Parts[Done + 1] /\ part \in PartNames
      /\ Len(Tail(todo)) = Len(todo) - 1
      /\ Tail(todo) = [i \in 1 .. Len(todo) - 1 |-> Parts[Done + 1 + i]]
  BY NextPart
<1>3. /\ Len(todo) \in 0 .. Len(Parts) /\ Checked /\ LoadedUpTo(Done)
  BY DEF LoadInv
<1>4. Parts' = Parts
  BY <1>1 DEF Parts
<1>5. Checked'
  BY <1>1, <1>3, CheckedStays
<1>6. Len(Parts) \in Nat /\ config.num_layers \in Nat
  BY <1>3, TypedConfig, PartsTyped DEF Checked
<1> DEFINE n == Done
<1>7. Done' = n + 1 /\ n \in Nat /\ n + 1 \in 0 .. Len(Parts)
  BY <1>1, <1>2, <1>3, <1>4, <1>6 DEF Done
<1>8. Len(todo') = Len(todo) - 1 /\ Len(todo) - 1 \in 0 .. Len(Parts)
  BY <1>1, <1>2, <1>3, <1>6 DEF Done
<1>9. todo' = [i \in 1 .. Len(todo') |-> Parts'[Done' + i]]
  BY <1>1, <1>2, <1>4, <1>7, <1>8
<1>10. DOMAIN params' = DOMAIN file.tensors \ TakenBefore(n + 1)
  <2>1. DOMAIN params' = DOMAIN params \ KeysOf(part)
    BY <1>1, TakenAre
  <2>2. DOMAIN params = DOMAIN file.tensors \ TakenBefore(n)
    BY <1>3 DEF LoadedUpTo
  <2>3. TakenBefore(n + 1) = TakenBefore(n) \cup KeysOf(part)
    BY <1>2, <1>7, TakenBeforeNext
  <2> QED
    BY <2>1, <2>2, <2>3
<1>11. DOMAIN model' = {Parts[i] : i \in 1 .. n + 1}
  <2>1. DOMAIN model' = {part} \cup DOMAIN model
    BY <1>1
  <2>2. DOMAIN model = {Parts[i] : i \in 1 .. n}
    BY <1>3 DEF LoadedUpTo
  <2>3. 1 .. n + 1 = (1 .. n) \cup {n + 1}
    BY <1>7
  <2> QED
    BY <2>1, <2>2, <2>3, <1>2
<1>12. \A i \in 1 .. n + 1 : model'[Parts[i]].weight = WeightShape(Parts[i])
  <2> TAKE i \in 1 .. n + 1
  <2>1. CASE i = n + 1
    <3>1. model'[part].weight = params[WeightKey].shape
      BY <1>1
    <3> QED
      BY <3>1, <2>1, <1>2, CanTakeNext
  <2>2. CASE i # n + 1
    <3>1. i \in 1 .. n /\ i \in 1 .. Len(Parts) /\ n + 1 \in 1 .. Len(Parts)
      BY <2>2, <1>7, <1>6
    <3>2. Parts[i] # part /\ Parts[i] \in DOMAIN model
      BY <3>1, <2>2, <1>2, <1>3, <1>6, PartsOnce DEF LoadedUpTo
    <3>3. model'[Parts[i]] = model[Parts[i]]
      BY <3>2, <1>1
    <3> QED
      BY <3>1, <3>3, <1>3 DEF LoadedUpTo
  <2> QED
    BY <2>1, <2>2
<1>13. LoadedUpTo(Done)'
  <2>1. \A m \in Nat : TakenBefore(m)' = TakenBefore(m)
    BY <1>4 DEF TakenBefore
  <2>2. PICK m \in Nat : m = n + 1
    BY <1>7
  <2> HIDE DEF n
  <2>3. /\ DOMAIN params' = DOMAIN file'.tensors \ TakenBefore(m)'
        /\ DOMAIN model' = {Parts'[i] : i \in 1 .. m}
        /\ \A i \in 1 .. m : model'[Parts'[i]].weight = WeightShape(Parts[i])'
    BY <1>1, <1>4, <1>10, <1>11, <1>12, <2>1, <2>2 DEF WeightShape, Tensor
  <2>4. Done' = m
    BY <1>7, <2>2
  <2> QED
    BY <2>3, <2>4 DEF LoadedUpTo
<1>14. LoadInv'
  BY <1>1, <1>4, <1>5, <1>8, <1>9, <1>13 DEF LoadInv
<1>15. ParamsInv'
  <2>1. \A key \in DOMAIN params' : key \in DOMAIN params /\ params'[key] = params[key]
    BY <1>1
  <2> QED
    BY <2>1, <1>1 DEF ParamsInv, Loads, Loaded, Tensor, WithinFile
<1> QED
  BY <1>1, <1>14, <1>15

-----------------------------------------------------------------------------
(* Sizes of heads. *)

LEMMA Division ==
    ASSUME NEW a \in Int, NEW b \in Nat \ {0}
    PROVE  /\ a \div b \in Int /\ a % b \in 0 .. b - 1
           /\ a = b * (a \div b) + (a % b)
  OBVIOUS

LEMMA DivisionUnique ==
    ASSUME NEW a \in Int, NEW b \in Nat \ {0}, NEW q \in Int, a = b * q
    PROVE  a \div b = q /\ a % b = 0
<1> DEFINE c == a \div b
           r == a % b
<1>1. c \in Int /\ r \in 0 .. b - 1 /\ a = b * c + r
  BY Division
<1> HIDE DEF c, r
<1>2. b * q - b * c = r
  <2>1. b * q \in Int /\ b * c \in Int
    BY <1>1
  <2> QED
    BY <1>1, <2>1
<1>3. b * (q - c) = r
  BY <1>1, <1>2
<1>4. CASE q - c >= 1
  <2>1. b * (q - c) >= b
    BY <1>4, <1>1
  <2> QED
    BY <2>1, <1>1, <1>3
<1>5. CASE q - c <= -1
  <2>1. b * (q - c) <= -b
    BY <1>5, <1>1
  <2> QED
    BY <2>1, <1>1, <1>3
<1>6. CASE q - c = 0
  <2>1. q = c
    BY <1>1, <1>6
  <2> QED
    BY <2>1, <1>1, <1>3, <1>6 DEF c, r
<1>7. q - c >= 1 \/ q - c <= -1 \/ q - c = 0
  BY <1>1
<1> QED
  BY <1>4, <1>5, <1>6, <1>7

LEMMA Cancel ==
    ASSUME NEW n \in Nat \ {0}, NEW x \in Int, NEW y \in Int, n * x = n * y
    PROVE  x = y
<1>1. n * x = n * x
  OBVIOUS
<1>2. (n * x) \div n = x
  BY <1>1, DivisionUnique
<1>3. (n * y) \div n = y
  BY DivisionUnique
<1> QED
  BY <1>2, <1>3

LEMMA PositiveConfig ==
    ASSUME ConfigTyped, ConfigFits
    PROVE  /\ config.num_layers \in Nat \ {0} /\ config.hidden_size \in Nat \ {0}
           /\ config.num_heads \in Nat \ {0} /\ config.num_heads_kv \in Nat \ {0}
           /\ HeadDim \in Int /\ config.num_heads * HeadDim = config.hidden_size
           /\ KvHiddenSize = config.num_heads_kv * HeadDim /\ KvHiddenSize \in Int
<1>1. /\ config.num_layers \in Nat \ {0} /\ config.hidden_size \in Nat \ {0}
      /\ config.num_heads \in Nat \ {0} /\ config.num_heads_kv \in Nat \ {0}
      /\ config.hidden_size % config.num_heads = 0
  BY DEF ConfigTyped, ConfigFits
<1> DEFINE h == config.hidden_size
           n == config.num_heads
<1>2. h \in Int /\ n \in Nat \ {0} /\ h % n = 0
  BY <1>1
<1> HIDE DEF h, n
<1>3. h \div n \in Int /\ h = n * (h \div n) + (h % n)
  BY <1>2, Division
<1>4. n * (h \div n) = h
  <2> DEFINE d == h \div n
             e == n * d
  <2>1. d \in Int /\ h = n * d + 0
    BY <1>2, <1>3
  <2> HIDE DEF d
  <2>2. e \in Int
    BY <2>1, <1>2
  <2>3. h = e + 0
    BY <2>1
  <2> HIDE DEF e
  <2>4. h = e
    BY <2>2, <2>3
  <2> QED
    BY <2>4 DEF e, d
<1>5. HeadDim \in Int /\ config.num_heads * HeadDim = config.hidden_size
  BY <1>3, <1>4 DEF HeadDim, h, n
<1> QED
  BY <1>1, <1>5 DEF KvHiddenSize

(* The query heads are as many as the groups that share a key/value head. *)
LEMMA GroupsFit ==
    ASSUME NEW n \in Int, NEW kv \in Nat \ {0}, n % kv = 0
    PROVE  kv * (n \div kv) = n
<1> DEFINE d == n \div kv
           e == kv * d
<1>1. d \in Int /\ n = kv * d + 0
  BY Division
<1> HIDE DEF d
<1>2. e \in Int
  BY <1>1
<1>3. n = e + 0
  BY <1>1
<1> HIDE DEF e
<1>4. n = e
  BY <1>2, <1>3
<1> QED
  BY <1>4 DEF e, d

-----------------------------------------------------------------------------
(* What the validation let through runs. *)

LEMMA CheckedHeadsRun ==
    ASSUME ConfigTyped, ConfigFits, HeadsFit
    PROVE  HeadsRun(config.hidden_size, KvHiddenSize, KvHiddenSize, config.hidden_size)
<1> DEFINE h == config.hidden_size
           n == config.num_heads
           kv == config.num_heads_kv
           d == HeadDim
           k == KvHiddenSize
<1>1. /\ h \in Nat \ {0} /\ n \in Nat \ {0} /\ kv \in Nat \ {0}
      /\ d \in Int /\ n * d = h /\ k = kv * d /\ k \in Int
  BY PositiveConfig
<1>2. n % kv = 0 /\ d % 2 = 0 /\ config.rope_theta > 0
  BY DEF HeadsFit
<1>3. d = h \div n
  BY DEF HeadDim
<1>4. h % n = 0
  BY DEF ConfigFits
<1> HIDE DEF d, k, h, n, kv
<1>5. k \div kv = d /\ k % kv = 0
  BY <1>1, DivisionUnique
<1>6. kv * (n \div kv) = n
  BY <1>1, <1>2, GroupsFit
<1>7. (h \div n) % 2 = 0 /\ (k \div kv) % 2 = 0 /\ k \div kv = h \div n
  BY <1>2, <1>3, <1>5
<1>8. n * (k \div kv) = h
  BY <1>1, <1>5
<1> QED
  BY <1>2, <1>4, <1>5, <1>6, <1>7, <1>8 DEF HeadsRun, h, n, kv, k

LEMMA CheckedRuns ==
    ASSUME ConfigTyped, Checked, HeadsFit,
           NEW W, \A p \in PartNames : W[p] = WeightShape(p)
    PROVE  ModelRuns(W)
<1> DEFINE h == config.hidden_size
<1>1. ConfigFits
  BY DEF Checked
<1>2. W[<<Model, "embed_tokens">>] = <<config.vocab_size, h>>
  <2>1. <<Model, "embed_tokens">> \in PartNames
    BY DEF PartNames
  <2> QED
    BY <2>1 DEF Checked, IsMatrix
<1>3. W[<<Model, "embed_tokens">>][2] = h
  BY <1>2
<1>4. W[<<Model, "norm">>][1] = h
  <2>1. <<Model, "norm">> \in PartNames
    BY DEF PartNames
  <2>2. W[<<Model, "norm">>] = <<h>> \/ W[<<Model, "norm">>] = <<h, 1>>
    BY <2>1 DEF Checked, IsVector
  <2> QED
    BY <2>2
<1>5. ASSUME NEW l \in Layers
      PROVE  LayerRuns(W, l, h)
  <2>1. \A name \in Names : W[<<l, name>>] = WeightShape(<<l, name>>)
    BY DEF PartNames
  <2>2. LayerChecked(l)
    BY DEF Checked
  <2>3. /\ W[<<l, "q_proj">>] = <<h, h>> /\ W[<<l, "o_proj">>] = <<h, h>>
        /\ W[<<l, "k_proj">>] = <<KvHiddenSize, h>> /\ W[<<l, "v_proj">>] = <<KvHiddenSize, h>>
    BY <2>1, <2>2 DEF LayerChecked, IsMatrix, Names, LinearParts
  <2>4. \A name \in NormParts : W[<<l, name>>] = <<h>> \/ W[<<l, name>>] = <<h, 1>>
    BY <2>1, <2>2 DEF LayerChecked, IsVector, Names, NormParts
  <2>5. W[<<l, "input_layernorm">>][1] = h /\ W[<<l, "post_attention_layernorm">>][1] = h
    BY <2>4 DEF NormParts
  <2>6. MlpFits(W[<<l, "down_proj">>], W[<<l, "gate_proj">>], W[<<l, "up_proj">>])
    BY <2>1, <2>2 DEF LayerChecked, Names, LinearParts
  <2>7. HeadsRun(h, KvHiddenSize, KvHiddenSize, h)
    BY <1>1, CheckedHeadsRun
  <2>8. /\ W[<<l, "q_proj">>][1] = h /\ W[<<l, "k_proj">>][1] = KvHiddenSize
        /\ W[<<l, "v_proj">>][1] = KvHiddenSize /\ W[<<l, "o_proj">>][1] = h
        /\ \A name \in {"q_proj", "k_proj", "v_proj", "o_proj"} : W[<<l, name>>][2] = h
    BY <2>3
  <2>9. /\ W[<<l, "up_proj">>][2] = h /\ W[<<l, "gate_proj">>][2] = h
        /\ W[<<l, "up_proj">>][1] = W[<<l, "gate_proj">>][1]
        /\ W[<<l, "down_proj">>][2] = W[<<l, "up_proj">>][1] /\ W[<<l, "down_proj">>][1] = h
    BY <2>6 DEF MlpFits
  <2> HIDE DEF h
  <2> QED
    BY <2>5, <2>7, <2>8, <2>9 DEF LayerRuns
<1> QED
  BY <1>3, <1>4, <1>5 DEF ModelRuns

-----------------------------------------------------------------------------
(* What runs is let through. *)

LEMMA ShortSequences ==
    ASSUME NEW s \in Seq(Int)
    PROVE  /\ Len(s) = 1 => s = <<s[1]>>
           /\ Len(s) = 2 => s = <<s[1], s[2]>> /\ s[1] \in Int /\ s[2] \in Int
  OBVIOUS

(* The key/value heads of a layer that runs have the size of the others. *)
LEMMA RunningHeads ==
    ASSUME ConfigTyped, ConfigFits, NEW k \in Int, NEW v \in Int,
           HeadsRun(config.hidden_size, k, v, config.hidden_size)
    PROVE  k = KvHiddenSize /\ v = KvHiddenSize
<1> DEFINE h == config.hidden_size
           n == config.num_heads
           kv == config.num_heads_kv
           d == HeadDim
<1>1. /\ h \in Nat \ {0} /\ n \in Nat \ {0} /\ kv \in Nat \ {0}
      /\ d \in Int /\ n * d = h /\ KvHiddenSize = kv * d
  BY PositiveConfig
<1>2. d = h \div n
  BY DEF HeadDim
<1>3. /\ k % kv = 0 /\ v % kv = 0 /\ k \div kv = d /\ n * (v \div kv) = h
  BY <1>2 DEF HeadsRun
<1> HIDE DEF d, h, n, kv
<1>4. k = kv * d
  BY <1>1, <1>3, GroupsFit
<1>5. v \div kv = d
  <2> DEFINE x == v \div kv
  <2>1. x \in Int /\ n * x = n * d
    BY <1>1, <1>3, Division
  <2> HIDE DEF x
  <2>2. x = d
    BY <2>1, <1>1, Cancel
  <2> QED
    BY <2>2 DEF x
<1>6. v = kv * d
  BY <1>1, <1>3, <1>5, GroupsFit
<1> QED
  BY <1>1, <1>4, <1>6

LEMMA RunningFits ==
    ASSUME ConfigTyped, FileTyped, ParamsInv, ConfigFits,
           RequiredKeys \subseteq DOMAIN params, RanksFit,
           params[EmbedWeight].shape = <<config.vocab_size, config.hidden_size>>,
           \A l \in Layers : params[<<l, "q_proj", "weight">>].shape[1] = config.hidden_size,
           ModelRuns([p \in ToSet(Parts) |-> params[<<p[1], p[2], "weight">>].shape])
    PROVE  ParamsFit
<1> DEFINE h == config.hidden_size
           S(p) == params[<<p[1], p[2], "weight">>].shape
           W == [p \in ToSet(Parts) |-> S(p)]
<1>1. config.num_layers \in Nat
  BY PositiveConfig
<1>2. \A p \in PartNames : W[p] = S(p)
  <2> TAKE p \in PartNames
  <2>1. \E i \in DOMAIN Parts : Parts[i] = p
    BY <1>1, PartsAll, PartsTyped
  <2>2. p \in ToSet(Parts)
    BY <2>1 DEF ToSet
  <2> QED
    BY <2>2
<1>3. \A p \in PartNames : S(p) \in Seq(Int)
  <2> TAKE p \in PartNames
  <2>1. <<p[1], p[2], "weight">> \in DOMAIN params
    BY WeightsRequired
  <2> QED
    BY <2>1, ShapeOfParam DEF ParamsInv, FileTyped
<1>4. \A p \in PartNames :
          IF p[2] \in NormParts \cup {"norm"} THEN Len(S(p)) = 1 \/ (Len(S(p)) = 2 /\ S(p)[2] = 1)
          ELSE Len(S(p)) = 2
  <2> TAKE p \in PartNames
  <2>1. <<p[1], p[2], "weight">> \in RequiredKeys
    BY WeightsRequired
  <2> QED
    BY <2>1 DEF RanksFit
<1> HIDE DEF W
<1>5. ModelRuns(W)
  BY DEF W
<1>6. /\ <<Model, "embed_tokens">> \in PartNames /\ <<Model, "norm">> \in PartNames
      /\ \A l \in Layers, name \in Names : <<l, name>> \in PartNames
  BY DEF PartNames
<1>7. W[<<Model, "embed_tokens">>][2] = h
  BY <1>2, <1>6 DEF EmbedWeight
<1>8. /\ W[<<Model, "norm">>][1] = h /\ \A l \in Layers : LayerRuns(W, l, h)
  BY <1>5, <1>7 DEF ModelRuns
<1>9. IsVector(params[ModelNorm].shape, h)
  <2> DEFINE p == <<Model, "norm">>
             s == S(p)
  <2>1. s \in Seq(Int) /\ (Len(s) = 1 \/ (Len(s) = 2 /\ s[2] = 1))
    BY <1>3, <1>4, <1>6
  <2>2. s[1] = h /\ s = params[ModelNorm].shape
    BY <1>2, <1>6, <1>8 DEF ModelNorm
  <2> HIDE DEF s
  <2> QED
    BY <2>1, <2>2, ShortSequences DEF IsVector
<1>10. ASSUME NEW l \in Layers
       PROVE  LayerFits(l)
  <2> DEFINE s(name) == params[<<l, name, "weight">>].shape
  <2>1. \A name \in Names : W[<<l, name>>] = s(name) /\ s(name) \in Seq(Int)
    BY <1>2, <1>3, <1>6
  <2>2. \A name \in LinearParts : Len(s(name)) = 2
    <3> TAKE name \in LinearParts
    <3>1. <<l, name>> \in PartNames /\ name \notin NormParts \cup {"norm"}
      BY <1>6 DEF Names, LinearParts, NormParts
    <3> QED
      BY <3>1, <1>4
  <2>3. \A name \in NormParts : Len(s(name)) = 1 \/ (Len(s(name)) = 2 /\ s(name)[2] = 1)
    <3> TAKE name \in NormParts
    <3>1. <<l, name>> \in PartNames
      BY <1>6 DEF Names
    <3> QED
      BY <3>1, <1>4
  <2>4. LayerRuns(W, l, h)
    BY <1>8
  <2> HIDE DEF s
  <2>5. \A name \in LinearParts :
            s(name) = <<s(name)[1], s(name)[2]>> /\ s(name)[1] \in Int /\ s(name)[2] \in Int
    BY <2>1, <2>2, ShortSequences DEF Names
  <2>6. /\ s("input_layernorm")[1] = h /\ s("post_attention_layernorm")[1] = h
        /\ s("q_proj")[2] = h /\ s("k_proj")[2] = h /\ s("v_proj")[2] = h /\ s("o_proj")[2] = h
        /\ HeadsRun(s("q_proj")[1], s("k_proj")[1], s("v_proj")[1], h)
        /\ s("o_proj")[1] = h /\ s("up_proj")[2] = h /\ s("gate_proj")[2] = h
        /\ s("up_proj")[1] = s("gate_proj")[1] /\ s("down_proj")[2] = s("up_proj")[1]
        /\ s("down_proj")[1] = h
    BY <2>1, <2>4 DEF LayerRuns, Names, LinearParts, NormParts
  <2>7. s("q_proj")[1] = h
    BY DEF s
  <2>8. s("k_proj")[1] = KvHiddenSize /\ s("v_proj")[1] = KvHiddenSize
    BY <2>5, <2>6, <2>7, RunningHeads DEF LinearParts
  <2>9. /\ IsMatrix(s("q_proj"), h, h) /\ IsMatrix(s("k_proj"), KvHiddenSize, h)
        /\ IsMatrix(s("v_proj"), KvHiddenSize, h) /\ IsMatrix(s("o_proj"), h, h)
    BY <2>5, <2>6, <2>7, <2>8 DEF IsMatrix, LinearParts
  <2>10. \A name \in NormParts : IsVector(s(name), h)
    <3> TAKE name \in NormParts
    <3> DEFINE t == s(name)
    <3>1. t \in Seq(Int) /\ t[1] = h /\ (Len(t) = 1 \/ (Len(t) = 2 /\ t[2] = 1))
      BY <2>1, <2>3, <2>6 DEF Names, NormParts
    <3> HIDE DEF t
    <3>2. IsVector(t, h)
      BY <3>1, ShortSequences DEF IsVector
    <3> QED
      BY <3>2 DEF t
  <2>11. MlpFits(s("down_proj"), s("gate_proj"), s("up_proj"))
    BY <2>2, <2>6 DEF MlpFits, LinearParts
  <2> QED
    BY <2>9, <2>10, <2>11 DEF LayerFits, s
<1> QED
  BY <1>9, <1>10 DEF ParamsFit, IsMatrix

-----------------------------------------------------------------------------
(* The invariant. *)

LEMMA InitInv == Init => IInv
<1> SUFFICES ASSUME Init PROVE IInv
  OBVIOUS
<1>1. PICK case \in Cases : config = case.config /\ file = case.file
  BY DEF Init
<1>2. ConfigTyped /\ FileTyped
  BY <1>1, CasesAssumption DEF ConfigTyped, FileTyped, Tensor
<1>3. DOMAIN params = {}
  BY DEF Init
<1>4. ParamsInv
  BY <1>3 DEF ParamsInv
<1>5. EmptyInv /\ ValidateInv /\ LoadInv /\ FailedInv
  BY DEF Init, EmptyInv, ValidateInv, LoadInv, FailedInv, AcceptedModelsRun
<1> QED
  BY <1>2, <1>4, <1>5 DEF IInv

(* No step changes the configuration or the file. *)
LEMMA InputsStay ==
    ASSUME [Next]_vars
    PROVE  config' = config /\ file' = file
  BY DEF Next, vars, LoadFromCkpt, LoadFails, Validate, LoadPart, EndLoad, FirstForward, Ended, Fail

LEMMA TypesStay ==
    ASSUME config' = config, file' = file, ConfigTyped, FileTyped
    PROVE  ConfigTyped' /\ FileTyped'
  BY DEF ConfigTyped, FileTyped, Tensor

LEMMA ParamsStay ==
    ASSUME file' = file, params' = params, ParamsInv
    PROVE  ParamsInv'
  BY DEF ParamsInv, Tensor, Loads, Loaded, WithinFile

LEMMA VerdictStays ==
    ASSUME config' = config, params' = params
    PROVE  /\ (ConfigFits /\ ParamsFit)' = (ConfigFits /\ ParamsFit) /\ HeadsFit' = HeadsFit
<1>1. /\ ConfigFits' = ConfigFits /\ Layers' = Layers /\ RequiredKeys' = RequiredKeys
      /\ KvHiddenSize' = KvHiddenSize /\ HeadsFit' = HeadsFit
  BY DEF ConfigFits, Layers, RequiredKeys, LayerKeys, Layers, KvHiddenSize, HeadDim, HeadsFit
<1>2. \A l : LayerFits(l)' = LayerFits(l)
  BY <1>1 DEF LayerFits, MlpFits
<1>3. ParamsFit' = ParamsFit
  BY <1>1, <1>2 DEF ParamsFit
<1> QED
  BY <1>1, <1>3

(* A step that ends in failure keeps the invariant if it fails for a reason. *)
LEMMA FailKeeps ==
    ASSUME IInv, NEW step, Fail(step), failed_at = "nowhere",
           step \in {"read", "validate", "forward"},
           step = "validate" => ~(ConfigFits /\ ParamsFit),
           step = "forward" => ~HeadsFit
    PROVE  IInv'
<1>1. /\ pc' = "failed" /\ failed_at' = step
      /\ config' = config /\ file' = file /\ params' = params
  BY DEF Fail
<1>2. ConfigTyped' /\ FileTyped'
  BY <1>1, TypesStay DEF IInv
<1>3. ParamsInv'
  BY <1>1, ParamsStay DEF IInv
<1>4. EmptyInv' /\ ValidateInv' /\ LoadInv'
  BY <1>1 DEF EmptyInv, ValidateInv, LoadInv
<1>5. FailedInv'
  BY <1>1, VerdictStays DEF FailedInv, AcceptedModelsRun
<1> QED
  BY <1>2, <1>3, <1>4, <1>5 DEF IInv

LEMMA LoadFromCkptKeeps ==
    ASSUME IInv, LoadFromCkpt
    PROVE  IInv'
<1>1. /\ pc' = "validate" /\ failed_at' = failed_at /\ failed_at = "nowhere"
      /\ config' = config /\ file' = file
      /\ params' = [key \in DOMAIN file.tensors |-> Loaded(file.tensors[key])]
      /\ \A key \in DOMAIN file.tensors : Loads(file.tensors[key])
  BY DEF LoadFromCkpt, IInv, FailedInv
<1>2. ConfigTyped' /\ FileTyped'
  BY <1>1, TypesStay DEF IInv
<1>3. ParamsInv'
  BY <1>1 DEF ParamsInv, Tensor, Loads, Loaded, WithinFile
<1>4. EmptyInv' /\ ValidateInv' /\ LoadInv' /\ FailedInv'
  BY <1>1, model' = model DEF LoadFromCkpt, IInv, EmptyInv, ValidateInv, LoadInv, FailedInv, AcceptedModelsRun
<1> QED
  BY <1>2, <1>3, <1>4 DEF IInv

(* What the validation sees in params_ is what is in the file. *)
LEMMA ValidatedIsChecked ==
    ASSUME ParamsInv, DOMAIN params = DOMAIN file.tensors, ConfigFits, ParamsFit
    PROVE  Checked
<1>1. \A key \in DOMAIN file.tensors : params[key].shape = Tensor(key).shape
  BY ShapeOfParam
<1>2. RequiredKeys \subseteq DOMAIN file.tensors
  BY DEF ParamsFit
<1>3. /\ IsMatrix(WeightShape(<<Model, "embed_tokens">>), config.vocab_size, config.hidden_size)
      /\ IsVector(WeightShape(<<Model, "norm">>), config.hidden_size)
  <2>1. EmbedWeight \in RequiredKeys /\ ModelNorm \in RequiredKeys
    BY DEF RequiredKeys
  <2>2. /\ params[EmbedWeight].shape = WeightShape(<<Model, "embed_tokens">>)
        /\ params[ModelNorm].shape = WeightShape(<<Model, "norm">>)
    BY <1>1, <1>2, <2>1 DEF WeightShape, EmbedWeight, ModelNorm
  <2> QED
    BY <2>2 DEF ParamsFit
<1>4. ASSUME NEW l \in Layers
      PROVE  LayerChecked(l)
  <2>1. \A name \in Names : params[<<l, name, "weight">>].shape = WeightShape(<<l, name>>)
    <3> TAKE name \in Names
    <3>1. <<l, name, "weight">> \in RequiredKeys
      BY DEF RequiredKeys, LayerKeys, Names
    <3> QED
      BY <3>1, <1>1, <1>2 DEF WeightShape
  <2>2. LayerFits(l)
    BY DEF ParamsFit
  <2> QED
    BY <2>1, <2>2 DEF LayerFits, LayerChecked, Names, LinearParts, NormParts
<1> QED
  BY <1>2, <1>3, <1>4 DEF Checked

LEMMA ValidateKeeps ==
    ASSUME IInv, Validate
    PROVE  IInv'
<1>1. failed_at = "nowhere" /\ pc = "validate"
  BY DEF Validate, IInv, FailedInv
<1>2. CASE ~(ConfigFits /\ ParamsFit)
  BY <1>1, <1>2, FailKeeps DEF Validate
<1>3. CASE ConfigFits /\ ParamsFit
  <2>1. /\ pc' = "load" /\ todo' = Parts /\ config' = config /\ file' = file
        /\ params' = params /\ model' = model /\ failed_at' = failed_at
    BY <1>3 DEF Validate
  <2>2. Checked /\ Checked'
    BY <1>1, <1>3, <2>1, ValidatedIsChecked, CheckedStays DEF IInv, ValidateInv
  <2>3. config.num_layers \in Nat
    BY <1>3, PositiveConfig DEF IInv
  <2>4. Parts' = Parts
    BY <2>1 DEF Parts
  <2>5. Len(Parts) \in Nat /\ Parts \in Seq(PartNames)
    BY <2>3, PartsTyped, PartsAre
  <2>6. Done' = 0
    BY <2>1, <2>4, <2>5 DEF Done
  <2>7. todo' = [i \in 1 .. Len(todo') |-> Parts'[Done' + i]]
    <3> DEFINE s == Parts
    <3>1. s \in Seq(PartNames)
      BY <2>5
    <3> HIDE DEF s, PartNames
    <3>2. s = [i \in 1 .. Len(s) |-> s[0 + i]]
      BY <3>1, LenProperties
    <3> QED
      BY <2>1, <2>4, <2>6, <3>2 DEF s
  <2>8. LoadedUpTo(0)'
    <3>1. DOMAIN params' = DOMAIN file'.tensors
      BY <1>1, <2>1 DEF IInv, ValidateInv
    <3>2. DOMAIN model' = {}
      BY <1>1, <2>1 DEF IInv, EmptyInv
    <3> QED
      BY <3>1, <3>2 DEF LoadedUpTo, TakenBefore
  <2>9. LoadedUpTo(Done)'
    BY <2>6, <2>8 DEF LoadedUpTo
  <2>10. Len(todo') \in 0 .. Len(Parts')
    BY <2>1, <2>4, <2>5
  <2>11. LoadInv'
    BY <2>1, <2>2, <2>7, <2>9, <2>10 DEF LoadInv
  <2>12. ConfigTyped' /\ FileTyped' /\ ParamsInv'
    BY <2>1, TypesStay, ParamsStay DEF IInv
  <2>13. ValidateInv' /\ FailedInv'
    BY <1>1, <2>1 DEF ValidateInv, FailedInv, AcceptedModelsRun
  <2> QED
    BY <2>1, <2>11, <2>12, <2>13 DEF IInv, EmptyInv
<1> QED
  BY <1>2, <1>3

LEMMA LoadPartKeeps ==
    ASSUME IInv, LoadPart
    PROVE  IInv'
<1>1. pc = "load" /\ todo # <<>> /\ ConfigTyped /\ ParamsInv /\ LoadInv
  BY DEF LoadPart, IInv
<1>2. LoadInv' /\ ParamsInv' /\ pc' = pc /\ failed_at' = failed_at
  BY <1>1, OnePartMore
<1>3. config' = config /\ file' = file
  BY InputsStay DEF Next
<1>4. ConfigTyped' /\ FileTyped'
  BY <1>3, TypesStay DEF IInv
<1>5. failed_at = "nowhere"
  BY <1>1 DEF IInv, FailedInv
<1>6. ValidateInv' /\ FailedInv'
  BY <1>1, <1>2, <1>5 DEF ValidateInv, FailedInv, AcceptedModelsRun
<1> QED
  BY <1>1, <1>2, <1>4, <1>6 DEF IInv, EmptyInv

LEMMA EndLoadKeeps ==
    ASSUME IInv, EndLoad
    PROVE  IInv'
<1>1. /\ pc = "load" /\ todo = <<>> /\ pc' = "loaded" /\ config' = config /\ file' = file
      /\ params' = params /\ model' = model /\ failed_at' = failed_at
  BY DEF EndLoad
<1>2. Checked /\ LoadedUpTo(Done)
  BY <1>1 DEF IInv, LoadInv
<1>3. Checked'
  BY <1>1, <1>2, CheckedStays
<1>4. Done = Len(Parts) /\ Parts' = Parts
  <2>1. Len(Parts) \in Nat
    BY <1>2, PositiveConfig, PartsTyped DEF IInv, Checked
  <2>2. Len(todo) = 0
    BY <1>1
  <2>3. Done = Len(Parts)
    BY <2>1, <2>2 DEF Done
  <2>4. Parts' = Parts
    BY <1>1 DEF Parts
  <2> QED
    BY <2>3, <2>4
<1>5. LoadedUpTo(Len(Parts))'
  BY <1>1, <1>2, <1>4 DEF LoadedUpTo, TakenBefore, WeightShape, Tensor
<1>6. LoadInv'
  BY <1>1, <1>3, <1>5 DEF LoadInv
<1>7. ConfigTyped' /\ FileTyped' /\ ParamsInv'
  BY <1>1, TypesStay, ParamsStay DEF IInv
<1>8. failed_at = "nowhere"
  BY <1>1 DEF IInv, FailedInv
<1>9. ValidateInv' /\ FailedInv'
  BY <1>1, <1>8 DEF ValidateInv, FailedInv, AcceptedModelsRun
<1> QED
  BY <1>1, <1>6, <1>7, <1>9 DEF IInv, EmptyInv

LEMMA FirstForwardKeeps ==
    ASSUME IInv, FirstForward
    PROVE  IInv'
<1> DEFINE W == [p \in DOMAIN model |-> model[p].weight]
<1>1. pc = "loaded" /\ failed_at = "nowhere" /\ Checked /\ LoadedUpTo(Len(Parts))
  BY DEF FirstForward, IInv, FailedInv, LoadInv
<1>2. \A p \in PartNames : W[p] = WeightShape(p)
  <2> TAKE p \in PartNames
  <2>1. PICK i \in 1 .. Len(Parts) : Parts[i] = p
    BY <1>1, PositiveConfig, PartsAll DEF IInv, Checked
  <2>2. p \in DOMAIN model /\ model[p].weight = WeightShape(p)
    BY <1>1, <2>1 DEF LoadedUpTo
  <2> QED
    BY <2>2
<1> HIDE DEF W
<1>3. HeadsFit => ModelRuns(W)
  BY <1>1, <1>2, CheckedRuns DEF IInv
<1>4. CASE ~ModelRuns(W)
  <2>1. Fail("forward")
    BY <1>4 DEF FirstForward, W
  <2> QED
    BY <1>1, <1>3, <1>4, <2>1, FailKeeps
<1>5. CASE ModelRuns(W)
  <2>1. /\ pc' = "running" /\ config' = config /\ file' = file /\ params' = params
        /\ failed_at' = failed_at
    BY <1>5 DEF FirstForward, W
  <2>2. ConfigTyped' /\ FileTyped' /\ ParamsInv'
    BY <2>1, TypesStay, ParamsStay DEF IInv
  <2>3. ValidateInv' /\ LoadInv' /\ FailedInv'
    BY <1>1, <2>1 DEF ValidateInv, LoadInv, FailedInv, AcceptedModelsRun
  <2> QED
    BY <2>1, <2>2, <2>3 DEF IInv, EmptyInv
<1> QED
  BY <1>4, <1>5

LEMMA StutterKeeps ==
    ASSUME IInv, UNCHANGED vars
    PROVE  IInv'
<1>1. /\ pc' = pc /\ config' = config /\ file' = file /\ params' = params
      /\ todo' = todo /\ model' = model /\ failed_at' = failed_at
  BY DEF vars
<1>2. ConfigTyped' /\ FileTyped' /\ ParamsInv'
  BY <1>1, TypesStay, ParamsStay DEF IInv
<1>3. ValidateInv' /\ FailedInv'
  BY <1>1, VerdictStays DEF IInv, ValidateInv, FailedInv, AcceptedModelsRun
<1>4. LoadInv'
  <2>1. Checked => Checked'
    BY <1>1, CheckedStays
  <2>2. Parts' = Parts /\ Done' = Done
    BY <1>1 DEF Parts, Done
  <2>3. \A n : LoadedUpTo(n) => LoadedUpTo(n)'
    BY <1>1, <2>2 DEF LoadedUpTo, TakenBefore, WeightShape, Tensor
  <2>4. (LoadedUpTo(Done) => LoadedUpTo(Done)') /\ (LoadedUpTo(Len(Parts)) => LoadedUpTo(Len(Parts))')
    BY <1>1, <2>2 DEF LoadedUpTo, TakenBefore, WeightShape, Tensor
  <2> QED
    BY <1>1, <2>1, <2>2, <2>4 DEF IInv, LoadInv
<1> QED
  BY <1>1, <1>2, <1>3, <1>4 DEF IInv, EmptyInv

LEMMA NextInv == IInv /\ [Next]_vars => IInv'
<1> SUFFICES ASSUME IInv, [Next]_vars PROVE IInv'
  OBVIOUS
<1>1. CASE LoadFromCkpt
  BY <1>1, LoadFromCkptKeeps
<1>2. CASE LoadFails
  <2>1. failed_at = "nowhere" /\ Fail("read")
    BY <1>2 DEF LoadFails, IInv, FailedInv
  <2> QED
    BY <2>1, FailKeeps
<1>3. CASE Validate
  BY <1>3, ValidateKeeps
<1>4. CASE LoadPart
  BY <1>4, LoadPartKeeps
<1>5. CASE EndLoad
  BY <1>5, EndLoadKeeps
<1>6. CASE FirstForward
  BY <1>6, FirstForwardKeeps
<1>7. CASE Ended \/ UNCHANGED vars
  BY <1>7, StutterKeeps DEF Ended
<1> QED
  BY <1>1, <1>2, <1>3, <1>4, <1>5, <1>6, <1>7 DEF Next

LEMMA Invariance == Spec => []IInv
  BY InitInv, NextInv, PTL DEF Spec

-----------------------------------------------------------------------------
(* load_tensor: whatever offsets and sizes a header gives, the bytes a tensor
   is read from lie in the file behind the header. *)
THEOREM ReadsOnlyTheFile == Spec => []ReadsWithinFile
<1>1. ASSUME IInv PROVE ReadsWithinFile
  <2> SUFFICES ASSUME NEW key \in DOMAIN params
               PROVE  params[key].bytes \subseteq file.base .. file.size - 1
    BY DEF ReadsWithinFile
  <2> DEFINE b == file.base
             z == file.size
             from == Tensor(key).begin
             to == Tensor(key).end
  <2>1. /\ b \in Int /\ z \in Int /\ from \in Int /\ to \in Int
        /\ params[key].bytes = (b + from) .. (b + to - 1)
    BY <1>1 DEF IInv, ParamsInv, FileTyped, Loaded, Tensor
  <2>2. from >= 0 /\ to <= z - b
    BY <1>1 DEF IInv, ParamsInv, Loads, WithinFile, Tensor
  <2> HIDE DEF b, z, from, to
  <2>3. (b + from) .. (b + to - 1) \subseteq b .. z - 1
    BY <2>1, <2>2
  <2> QED
    BY <2>1, <2>3 DEF b, z
<1> QED
  BY <1>1, Invariance, PTL

(* GptModel::load_param: once the validation has passed, every load_param
   finds its weight, with the dimensions it reads; no exception leaves a model
   half filled. *)
THEOREM LoadsWhole == Spec => []NeverHalfLoaded
<1>1. IInv => NeverHalfLoaded
  BY DEF IInv, FailedInv, NeverHalfLoaded
<1> QED
  BY <1>1, Invariance, PTL

(* validate_model_params_before_load against the operations: a checkpoint that
   passes meets every shape check of the first forward pass, for every
   configuration whose heads fit. *)
THEOREM AcceptedRuns == Spec => []AcceptedModelsRun
<1>1. IInv => AcceptedModelsRun
  BY DEF IInv, FailedInv
<1> QED
  BY <1>1, Invariance, PTL

(* And the other way round: one whose weights have the right ranks, the
   embedding and the queries the configuration asks for, and which would run,
   is not refused. *)
THEOREM RefusedForAReason == Spec => []RejectsOnlyMisfits
<1>1. ASSUME IInv PROVE RejectsOnlyMisfits
  <2> SUFFICES ASSUME failed_at = "validate", ConfigFits, HeadsFit,
                      RequiredKeys \subseteq DOMAIN params,
                      RanksFit,
                      params[EmbedWeight].shape = <<config.vocab_size, config.hidden_size>>,
                      \A l \in Layers :
                          params[<<l, "q_proj", "weight">>].shape[1] = config.hidden_size,
                      ModelRuns([p \in ToSet(Parts) |-> params[<<p[1], p[2], "weight">>].shape])
               PROVE  FALSE
    BY DEF RejectsOnlyMisfits
  <2>1. ParamsFit
    BY <1>1, RunningFits DEF IInv
  <2> QED
    BY <1>1, <2>1 DEF IInv, FailedInv
<1> QED
  BY <1>1, Invariance, PTL

(* validate_no_remaining_model_params: what is left in params_ when the model
   is loaded is no part of it, so that warning of it is enough. *)
THEOREM LeftoversForeign == Spec => []LeftoversAreForeign
<1>1. ASSUME IInv, pc = "loaded"
      PROVE  DOMAIN params = DOMAIN file.tensors \ KnownKeys
  <2>1. LoadedUpTo(Len(Parts)) /\ config.num_layers \in Nat
    BY <1>1, PositiveConfig DEF IInv, LoadInv, Checked
  <2> QED
    BY <2>1, KnownKeysTaken DEF LoadedUpTo
<1>2. IInv => LeftoversAreForeign
  BY <1>1 DEF LeftoversAreForeign
<1> QED
  BY <1>2, Invariance, PTL

=============================================================================
