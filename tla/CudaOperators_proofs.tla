------------------------ MODULE CudaOperators_proofs ------------------------
(***************************************************************************)
(* Proofs about CudaOperators for every number of layers, every size and   *)
(* every number of failures: the buffers and upload caches that all layers *)
(* share hold what the running operator needs, and enough of it.           *)
(*                                                                         *)
(* The device calls of an operator have ranks that grow along its program. *)
(* What is not among the remaining calls has been made, and what it left   *)
(* behind is stated under that condition.                                  *)
(* (The slots of SlotProtocol come with SharedParts_proofs; CudaOperators   *)
(* has none of them.)                                                      *)
(***************************************************************************)
EXTENDS CudaOperators, SharedParts_proofs

Elements(s) == {s[i] : i \in DOMAIN s}

(* The device calls of an operator as sets, and their order. *)
MatmulProgram(l, r) ==
    {Ensure("matmul_input"), Ensure("matmul_output"), CopyIn("matmul_input"),
     UploadWeight(r), LaunchLinear(r, "matmul_input", "matmul_output"),
     CopyOut("matmul_output")}
    \cup (IF UsesBias(l, r)
          THEN {Upload("matmul_bias"), LaunchBias("matmul_output", "matmul_bias")} ELSE {})

MlpProgram(l) ==
    {Ensure("input"), Ensure("norm_out"), Ensure("up"), Ensure("gate"), Ensure("output"),
     CopyIn("input"), Upload("norm_weight"), LaunchNorm,
     UploadWeight("up"), UploadWeight("gate"), UploadWeight("down"),
     LaunchLinear("up", "norm_out", "up"), LaunchLinear("gate", "norm_out", "gate"),
     LaunchSilu, LaunchLinear("down", "up", "output"), CopyOut("output")}
    \cup (IF UsesBias(l, "up") THEN {Upload("up_bias"), LaunchBias("up", "up_bias")} ELSE {})
    \cup (IF UsesBias(l, "gate")
          THEN {Upload("gate_bias"), LaunchBias("gate", "gate_bias")} ELSE {})
    \cup (IF UsesBias(l, "down")
          THEN {Upload("down_bias"), LaunchBias("output", "down_bias")} ELSE {})

Program(o) == IF o.op = "mlp" THEN MlpProgram(o.layer) ELSE MatmulProgram(o.layer, o.role)

Rank(st) ==
    CASE st[1] = "ensure" -> (CASE st[2] \in {"input", "matmul_input"}     -> 1
                                [] st[2] \in {"norm_out", "matmul_output"} -> 2
                                [] st[2] = "up" -> 3 [] st[2] = "gate" -> 4 [] OTHER -> 5)
      [] st[1] = "copy_in" -> 6
      [] st[1] = "upload" -> (CASE st[2] = "norm_weight" -> 7 [] st[2] = "up_bias" -> 14
                                [] st[2] = "gate_bias" -> 15 [] OTHER -> 16)
      [] st[1] = "norm" -> 8
      [] st[1] = "weight" -> (CASE st[2] = "gate" -> 10 [] st[2] = "down" -> 11 [] OTHER -> 9)
      [] st[1] = "linear" -> (CASE st[4] = "gate" -> 13 [] st[4] = "output" -> 20 [] OTHER -> 12)
      [] st[1] = "bias" -> (CASE st[2] = "up" -> 17 [] st[2] = "gate" -> 18 [] OTHER -> 21)
      [] st[1] = "silu_mul" -> 19
      [] OTHER -> 22

Ranked(s) == \A i, j \in DOMAIN s : i < j => Rank(s[i]) < Rank(s[j])

Rest == Elements(steps)
Done == Program(Current) \ Rest

Operators == {Product(l, r) : l \in Layers, r \in Roles} \cup {Mlp(l) : l \in Layers}

IsBuffer(d) == d.bytes \in Nat /\ d = [bytes |-> d.bytes, content |-> d.content]
IsDevice(dev) == DOMAIN dev = Buffers /\ \A b \in Buffers : IsBuffer(dev[b])
TypeInv ==
    rows \in Nat \ {0} /\ todo \in Seq(Operators) /\ IsDevice(device) /\ DOMAIN recorded = Caches

(* The calls of the running operator that are left are the last ones of its program. *)
OrderInv ==
    steps # <<>> =>
        /\ todo # <<>>
        /\ steps \in Seq(Program(Current)) /\ Ranked(steps)
        /\ \A st \in Done, left \in Rest : Rank(st) < Rank(left)

(* An upload cache of the MLP has room for what it has recorded, which is all it
   is used for; the one of the products may hold nobody's memory instead. *)
CacheSize(c) == IF c \in {"norm_weight", "down_bias"} THEN Hidden ELSE Inter
CacheInv ==
    /\ \A c \in MlpCaches :
          recorded[c].host = NoTensor
          \/ /\ device[c].bytes >= CacheSize(c) /\ recorded[c].bytes = CacheSize(c)
             /\ Content(c) = recorded[c].host
    /\ Content("matmul_bias") \in {recorded["matmul_bias"].host, Undefined}

SizeInv ==
    steps # <<>> =>
        \A b \in Buffers : Ensure(b) \in Done \/ Upload(b) \in Done
                              => device[b].bytes >= Size(Current, b)

(* What the calls made so far have left in the buffers: `done` are the calls, and
   val[b] is the content of buffer b. *)
Values == [b \in Buffers |-> Content(b)]

Normed(l) == Norm(Input, NormWeight(l))
Gated(l) == SiluMul(ProductOf(l, "up", Normed(l)), ProductOf(l, "gate", Normed(l)))
BiasedBy(call, done, l, r, x) ==
    IF call \in done THEN Plus(Linear(Weight(l, r), x), Bias(l, r)) ELSE Linear(Weight(l, r), x)

MlpContents(l, done, val) ==
    /\ CopyIn("input") \in done => val["input"] = Input
    /\ \A c \in MlpCaches : Upload(c) \in done => val[c] = TensorOf(Mlp(l), c)
    /\ LaunchNorm \in done => val["norm_out"] = Normed(l)
    /\ LaunchLinear("up", "norm_out", "up") \in done /\ LaunchSilu \notin done
          => val["up"] = BiasedBy(LaunchBias("up", "up_bias"), done, l, "up", Normed(l))
    /\ LaunchLinear("gate", "norm_out", "gate") \in done
          => val["gate"] = BiasedBy(LaunchBias("gate", "gate_bias"), done, l, "gate", Normed(l))
    /\ LaunchSilu \in done => val["up"] = Gated(l)
    /\ LaunchLinear("down", "up", "output") \in done
          => val["output"] = BiasedBy(LaunchBias("output", "down_bias"), done, l, "down", Gated(l))

ProductContents(l, r, done, val) ==
    LET product == Linear(Weight(l, r), Input)
        linear == LaunchLinear(r, "matmul_input", "matmul_output")
        bias == LaunchBias("matmul_output", "matmul_bias")
    IN /\ CopyIn("matmul_input") \in done => val["matmul_input"] = Input
       /\ Upload("matmul_bias") \in done => val["matmul_bias"] \in {Bias(l, r), Undefined}
       /\ linear \in done /\ bias \notin done => val["matmul_output"] = product
       /\ linear \in done /\ bias \in done
             => val["matmul_output"] \in {Plus(product, Bias(l, r)), Plus(product, Undefined)}

ContentInv ==
    steps # <<>> =>
        /\ Current.op = "mlp" => MlpContents(Current.layer, Done, Values)
        /\ Current.op = "product" => ProductContents(Current.layer, Current.role, Done, Values)

OperatorsInv ==
    /\ TypeInv /\ OrderInv /\ CacheInv /\ SizeInv /\ ContentInv
    /\ MlpComputesItsLayer /\ ProductsKeepToTheirTensors

-----------------------------------------------------------------------------
(* The ranks of the device calls. *)
LEMMA RankIsNumber == \A st : Rank(st) \in Nat
  BY DEF Rank

LEMMA EnsureRanks ==
    /\ Rank(Ensure("input")) = 1 /\ Rank(Ensure("norm_out")) = 2 /\ Rank(Ensure("up")) = 3
    /\ Rank(Ensure("gate")) = 4 /\ Rank(Ensure("output")) = 5
    /\ Rank(Ensure("matmul_input")) = 1 /\ Rank(Ensure("matmul_output")) = 2
  BY DEF Rank, Ensure

LEMMA CopyRanks ==
    \A b : Rank(CopyIn(b)) = 6 /\ Rank(CopyOut(b)) = 22
  BY DEF Rank, CopyIn, CopyOut

LEMMA UploadRanks ==
    /\ Rank(Upload("norm_weight")) = 7 /\ Rank(Upload("up_bias")) = 14
    /\ Rank(Upload("gate_bias")) = 15 /\ Rank(Upload("down_bias")) = 16
    /\ Rank(Upload("matmul_bias")) = 16
    /\ Rank(UploadWeight("up")) = 9 /\ Rank(UploadWeight("gate")) = 10
    /\ Rank(UploadWeight("down")) = 11 /\ \A r : Rank(UploadWeight(r)) \in 9 .. 11
  BY DEF Rank, Upload, UploadWeight

LEMMA LaunchRanks ==
    /\ Rank(LaunchNorm) = 8 /\ Rank(LaunchSilu) = 19
    /\ \A r, from : /\ Rank(LaunchLinear(r, from, "up")) = 12
                    /\ Rank(LaunchLinear(r, from, "gate")) = 13
                    /\ Rank(LaunchLinear(r, from, "output")) = 20
                    /\ Rank(LaunchLinear(r, from, "matmul_output")) = 12
    /\ \A c : /\ Rank(LaunchBias("up", c)) = 17 /\ Rank(LaunchBias("gate", c)) = 18
              /\ Rank(LaunchBias("output", c)) = 21 /\ Rank(LaunchBias("matmul_output", c)) = 21
  BY DEF Rank, LaunchNorm, LaunchSilu, LaunchLinear, LaunchBias

(* A part of a program: the calls E, with ranks from a to b. *)
Part(s, E, a, b) ==
    /\ s \in Seq(E) /\ Elements(s) = E /\ Ranked(s)
    /\ \A st \in E : Rank(st) \in a .. b

LEMMA JoinParts ==
    ASSUME NEW s, NEW t, NEW E, NEW F, NEW a \in Int, NEW b \in Int, NEW c \in Int, NEW d \in Int,
           Part(s, E, a, b), Part(t, F, c, d), b < c, a <= c, b <= d
    PROVE  Part(s \o t, E \cup F, a, d)
<1> DEFINE u == s \o t
<1>1. /\ s \in Seq(E \cup F) /\ t \in Seq(E \cup F)
      /\ Len(s) \in Nat /\ Len(t) \in Nat
      /\ DOMAIN s = 1 .. Len(s) /\ DOMAIN t = 1 .. Len(t)
  BY DEF Part
<1>2. /\ u \in Seq(E \cup F) /\ Len(u) = Len(s) + Len(t)
      /\ \A i \in 1 .. Len(s) + Len(t) : u[i] = IF i <= Len(s) THEN s[i] ELSE t[i - Len(s)]
  <2>1. s \in Seq(E \cup F) /\ t \in Seq(E \cup F)
    BY <1>1
  <2> QED
    BY <2>1, ConcatProperties
<1> HIDE DEF u
<1>3. /\ DOMAIN u = 1 .. Len(s) + Len(t)
      /\ \A i \in 1 .. Len(s) : u[i] = s[i]
      /\ \A i \in 1 .. Len(t) : u[Len(s) + i] = t[i]
  <2>1. DOMAIN u = 1 .. Len(s) + Len(t)
    BY <1>2, LenProperties
  <2>2. ASSUME NEW i \in 1 .. Len(s) PROVE u[i] = s[i]
    BY <1>1, <1>2
  <2>3. ASSUME NEW i \in 1 .. Len(t) PROVE u[Len(s) + i] = t[i]
    <3>1. PICK k \in 1 .. Len(s) + Len(t) : k = Len(s) + i /\ ~(k <= Len(s)) /\ k - Len(s) = i
      BY <1>1
    <3>2. u[k] = t[k - Len(s)]
      BY <1>2, <3>1
    <3> QED
      BY <3>1, <3>2
  <2> QED
    BY <2>1, <2>2, <2>3
<1>4. \A i \in 1 .. Len(s) + Len(t) :
         i \in 1 .. Len(s) \/ \E k \in 1 .. Len(t) : i = Len(s) + k
  <2> TAKE i \in 1 .. Len(s) + Len(t)
  <2>1. CASE i <= Len(s)
    BY <1>1, <2>1
  <2>2. CASE ~(i <= Len(s))
    <3>1. i - Len(s) \in 1 .. Len(t) /\ i = Len(s) + (i - Len(s))
      BY <1>1, <2>2
    <3> QED
      BY <3>1
  <2> QED
    BY <2>1, <2>2
<1>5. Elements(u) = E \cup F
  <2>1. E = {s[i] : i \in 1 .. Len(s)} /\ F = {t[i] : i \in 1 .. Len(t)}
    BY <1>1 DEF Part, Elements
  <2>2. \A i \in 1 .. Len(s) : i \in 1 .. Len(s) + Len(t)
    BY <1>1
  <2>3. \A i \in 1 .. Len(t) : Len(s) + i \in 1 .. Len(s) + Len(t)
    BY <1>1
  <2>4. ASSUME NEW x \in Elements(u) PROVE x \in E \cup F
    <3>1. PICK i \in 1 .. Len(s) + Len(t) : x = u[i]
      BY <1>3, <2>4 DEF Elements
    <3>2. CASE i \in 1 .. Len(s)
      BY <1>3, <2>1, <3>1, <3>2
    <3>3. CASE \E k \in 1 .. Len(t) : i = Len(s) + k
      BY <1>3, <2>1, <3>1, <3>3
    <3> QED
      BY <1>4, <3>2, <3>3
  <2>5. ASSUME NEW x \in E \cup F PROVE x \in Elements(u)
    BY <1>3, <2>1, <2>2, <2>3, <2>5 DEF Elements
  <2> QED
    BY <2>4, <2>5
<1>6. /\ \A i \in 1 .. Len(s) : Rank(s[i]) \in a .. b
      /\ \A i \in 1 .. Len(t) : Rank(t[i]) \in c .. d
  BY <1>1 DEF Part, Elements
<1>7. Ranked(u)
  <2> SUFFICES ASSUME NEW i \in 1 .. Len(s) + Len(t), NEW j \in 1 .. Len(s) + Len(t), i < j
               PROVE  Rank(u[i]) < Rank(u[j])
    BY <1>3 DEF Ranked
  <2>1. CASE i \in 1 .. Len(s) /\ j \in 1 .. Len(s)
    BY <1>1, <1>3, <2>1 DEF Part, Ranked
  <2>2. CASE i \in 1 .. Len(s) /\ \E k \in 1 .. Len(t) : j = Len(s) + k
    <3>1. Rank(u[i]) \in a .. b /\ Rank(u[j]) \in c .. d
      BY <1>3, <1>6, <2>2
    <3> QED
      BY <3>1
  <2>3. CASE (\E k \in 1 .. Len(t) : i = Len(s) + k) /\ j \in 1 .. Len(s)
    BY <1>1, <2>3
  <2>4. CASE (\E k \in 1 .. Len(t) : i = Len(s) + k) /\ (\E k \in 1 .. Len(t) : j = Len(s) + k)
    <3>1. PICK k \in 1 .. Len(t), m \in 1 .. Len(t) : i = Len(s) + k /\ j = Len(s) + m
      BY <2>4
    <3>2. k < m
      BY <1>1, <3>1
    <3>3. Rank(t[k]) < Rank(t[m])
      BY <1>1, <3>2 DEF Part, Ranked
    <3> QED
      BY <1>3, <3>1, <3>3
  <2> QED
    BY <1>4, <2>1, <2>2, <2>3, <2>4
<1>8. \A st \in E \cup F : Rank(st) \in a .. d
  BY DEF Part
<1> QED
  BY <1>2, <1>5, <1>7, <1>8 DEF Part, u

LEMMA OnePart ==
    ASSUME NEW st, NEW a \in Int, Rank(st) = a
    PROVE  Part(<<st>>, {st}, a, a)
  BY DEF Part, Elements, Ranked

IfBias(l, r, st) == IF UsesBias(l, r) THEN {st} ELSE {}
LEMMA BiasPart ==
    ASSUME NEW l, NEW r, NEW st, NEW a \in Int, Rank(st) = a
    PROVE  Part(If(UsesBias(l, r), st), IfBias(l, r, st), a, a)
<1>1. CASE UsesBias(l, r)
  BY <1>1, OnePart DEF If, IfBias
<1>2. CASE ~UsesBias(l, r)
  BY <1>2 DEF If, IfBias, Part, Elements, Ranked
<1> QED
  BY <1>1, <1>2

(* The parts of a program every call is made in. *)
LEMMA FixedParts ==
    /\ \A r : Part(<< Ensure("matmul_input"), Ensure("matmul_output"), CopyIn("matmul_input"),
                      UploadWeight(r), LaunchLinear(r, "matmul_input", "matmul_output") >>,
                   {Ensure("matmul_input"), Ensure("matmul_output"), CopyIn("matmul_input"),
                    UploadWeight(r), LaunchLinear(r, "matmul_input", "matmul_output")}, 1, 12)
    /\ Part(<< Ensure("input"), Ensure("norm_out"), Ensure("up"), Ensure("gate"),
               Ensure("output"), CopyIn("input"), Upload("norm_weight"), LaunchNorm,
               UploadWeight("up"), UploadWeight("gate"), UploadWeight("down"),
               LaunchLinear("up", "norm_out", "up"),
               LaunchLinear("gate", "norm_out", "gate") >>,
            {Ensure("input"), Ensure("norm_out"), Ensure("up"), Ensure("gate"),
             Ensure("output"), CopyIn("input"), Upload("norm_weight"), LaunchNorm,
             UploadWeight("up"), UploadWeight("gate"), UploadWeight("down"),
             LaunchLinear("up", "norm_out", "up"),
             LaunchLinear("gate", "norm_out", "gate")}, 1, 13)
    /\ Part(<< LaunchSilu, LaunchLinear("down", "up", "output") >>,
            {LaunchSilu, LaunchLinear("down", "up", "output")}, 19, 20)
<1>1. ASSUME NEW r
      PROVE  Part(<< Ensure("matmul_input"), Ensure("matmul_output"), CopyIn("matmul_input"),
                     UploadWeight(r), LaunchLinear(r, "matmul_input", "matmul_output") >>,
                  {Ensure("matmul_input"), Ensure("matmul_output"), CopyIn("matmul_input"),
                   UploadWeight(r), LaunchLinear(r, "matmul_input", "matmul_output")}, 1, 12)
  <2> DEFINE s == << Ensure("matmul_input"), Ensure("matmul_output"), CopyIn("matmul_input"),
                     UploadWeight(r), LaunchLinear(r, "matmul_input", "matmul_output") >>
  <2>1. /\ Rank(s[1]) = 1 /\ Rank(s[2]) = 2 /\ Rank(s[3]) = 6 /\ Rank(s[4]) \in 9 .. 11
        /\ Rank(s[5]) = 12 /\ DOMAIN s = 1 .. 5
    BY EnsureRanks, CopyRanks, UploadRanks, LaunchRanks
  <2>2. Ranked(s)
    <3> HIDE DEF s
    <3> QED
      BY <2>1 DEF Ranked
  <2>3. Elements(s) = {s[1], s[2], s[3], s[4], s[5]}
    <3> HIDE DEF s
    <3> QED
      BY <2>1 DEF Elements
  <2> QED
    BY <2>1, <2>2, <2>3 DEF Part
<1>2. Part(<< Ensure("input"), Ensure("norm_out"), Ensure("up"), Ensure("gate"),
              Ensure("output"), CopyIn("input"), Upload("norm_weight"), LaunchNorm,
              UploadWeight("up"), UploadWeight("gate"), UploadWeight("down"),
              LaunchLinear("up", "norm_out", "up"),
              LaunchLinear("gate", "norm_out", "gate") >>,
           {Ensure("input"), Ensure("norm_out"), Ensure("up"), Ensure("gate"),
            Ensure("output"), CopyIn("input"), Upload("norm_weight"), LaunchNorm,
            UploadWeight("up"), UploadWeight("gate"), UploadWeight("down"),
            LaunchLinear("up", "norm_out", "up"),
            LaunchLinear("gate", "norm_out", "gate")}, 1, 13)
  <2> DEFINE s == << Ensure("input"), Ensure("norm_out"), Ensure("up"), Ensure("gate"),
                     Ensure("output"), CopyIn("input"), Upload("norm_weight"), LaunchNorm,
                     UploadWeight("up"), UploadWeight("gate"), UploadWeight("down"),
                     LaunchLinear("up", "norm_out", "up"),
                     LaunchLinear("gate", "norm_out", "gate") >>
  <2>1. /\ Rank(s[1]) = 1 /\ Rank(s[2]) = 2 /\ Rank(s[3]) = 3 /\ Rank(s[4]) = 4
        /\ Rank(s[5]) = 5 /\ Rank(s[6]) = 6 /\ Rank(s[7]) = 7 /\ Rank(s[8]) = 8
        /\ Rank(s[9]) = 9 /\ Rank(s[10]) = 10 /\ Rank(s[11]) = 11 /\ Rank(s[12]) = 12
        /\ Rank(s[13]) = 13 /\ DOMAIN s = 1 .. 13
    BY EnsureRanks, CopyRanks, UploadRanks, LaunchRanks
  <2>2. \A i \in 1 .. 13 : Rank(s[i]) = i
    <3> HIDE DEF s
    <3> QED
      BY <2>1
  <2>3. Ranked(s)
    <3> HIDE DEF s
    <3> QED
      BY <2>1, <2>2 DEF Ranked
  <2>4. Elements(s) = {s[1], s[2], s[3], s[4], s[5], s[6], s[7], s[8], s[9], s[10], s[11],
                       s[12], s[13]}
    <3> HIDE DEF s
    <3> QED
      BY <2>1 DEF Elements
  <2>5. \A st \in Elements(s) : Rank(st) \in 1 .. 13
    <3> HIDE DEF s
    <3> QED
      BY <2>1, <2>2 DEF Elements
  <2> QED
    BY <2>3, <2>4, <2>5 DEF Part
<1>3. Part(<< LaunchSilu, LaunchLinear("down", "up", "output") >>,
           {LaunchSilu, LaunchLinear("down", "up", "output")}, 19, 20)
  BY LaunchRanks DEF Part, Elements, Ranked
<1> QED
  BY <1>1, <1>2, <1>3

(* The programs are what the model lists, in the order of the ranks. *)
LEMMA MatmulProgramOf ==
    ASSUME NEW l, NEW r
    PROVE  Part(MatmulSteps(l, r), MatmulProgram(l, r), 1, 22)
<1> DEFINE first == << Ensure("matmul_input"), Ensure("matmul_output"), CopyIn("matmul_input"),
                       UploadWeight(r), LaunchLinear(r, "matmul_input", "matmul_output") >>
           upload == If(UsesBias(l, r), Upload("matmul_bias"))
           bias == If(UsesBias(l, r), LaunchBias("matmul_output", "matmul_bias"))
           last == << CopyOut("matmul_output") >>
           E1 == {Ensure("matmul_input"), Ensure("matmul_output"), CopyIn("matmul_input"),
                  UploadWeight(r), LaunchLinear(r, "matmul_input", "matmul_output")}
           E2 == IfBias(l, r, Upload("matmul_bias"))
           E3 == IfBias(l, r, LaunchBias("matmul_output", "matmul_bias"))
           E4 == {CopyOut("matmul_output")}
<1>1. Part(first, E1, 1, 12)
  BY FixedParts
<1>2. Part(upload, E2, 16, 16) /\ Part(bias, E3, 21, 21)
  <2>1. Rank(Upload("matmul_bias")) = 16 /\ Rank(LaunchBias("matmul_output", "matmul_bias")) = 21
    BY UploadRanks, LaunchRanks
  <2> QED
    BY <2>1, BiasPart
<1>3. Part(last, E4, 22, 22)
  BY OnePart, CopyRanks
<1>4. /\ MatmulSteps(l, r) = ((first \o upload) \o bias) \o last
      /\ MatmulProgram(l, r) = ((E1 \cup E2) \cup E3) \cup E4
  BY DEF MatmulSteps, MatmulProgram, IfBias
<1> HIDE DEF first, upload, bias, last, E1, E2, E3, E4
<1>5. Part(first \o upload, E1 \cup E2, 1, 16)
  BY <1>1, <1>2, JoinParts
<1>6. Part((first \o upload) \o bias, (E1 \cup E2) \cup E3, 1, 21)
  BY <1>2, <1>5, JoinParts
<1>7. Part(((first \o upload) \o bias) \o last, ((E1 \cup E2) \cup E3) \cup E4, 1, 22)
  BY <1>3, <1>6, JoinParts
<1> QED
  BY <1>4, <1>7

LEMMA MlpProgramOf ==
    ASSUME NEW l
    PROVE  Part(MlpSteps(l), MlpProgram(l), 1, 22)
<1> DEFINE first == << Ensure("input"), Ensure("norm_out"), Ensure("up"), Ensure("gate"),
                       Ensure("output"), CopyIn("input"), Upload("norm_weight"), LaunchNorm,
                       UploadWeight("up"), UploadWeight("gate"), UploadWeight("down"),
                       LaunchLinear("up", "norm_out", "up"),
                       LaunchLinear("gate", "norm_out", "gate") >>
           F == {Ensure("input"), Ensure("norm_out"), Ensure("up"), Ensure("gate"),
                 Ensure("output"), CopyIn("input"), Upload("norm_weight"), LaunchNorm,
                 UploadWeight("up"), UploadWeight("gate"), UploadWeight("down"),
                 LaunchLinear("up", "norm_out", "up"),
                 LaunchLinear("gate", "norm_out", "gate")}
           s1 == If(UsesBias(l, "up"), Upload("up_bias"))
           s2 == If(UsesBias(l, "gate"), Upload("gate_bias"))
           s3 == If(UsesBias(l, "down"), Upload("down_bias"))
           s4 == If(UsesBias(l, "up"), LaunchBias("up", "up_bias"))
           s5 == If(UsesBias(l, "gate"), LaunchBias("gate", "gate_bias"))
           s6 == << LaunchSilu, LaunchLinear("down", "up", "output") >>
           s7 == If(UsesBias(l, "down"), LaunchBias("output", "down_bias"))
           s8 == << CopyOut("output") >>
           E1 == IfBias(l, "up", Upload("up_bias"))
           E2 == IfBias(l, "gate", Upload("gate_bias"))
           E3 == IfBias(l, "down", Upload("down_bias"))
           E4 == IfBias(l, "up", LaunchBias("up", "up_bias"))
           E5 == IfBias(l, "gate", LaunchBias("gate", "gate_bias"))
           E6 == {LaunchSilu, LaunchLinear("down", "up", "output")}
           E7 == IfBias(l, "down", LaunchBias("output", "down_bias"))
           E8 == {CopyOut("output")}
           t1 == first \o s1
           t2 == t1 \o s2
           t3 == t2 \o s3
           t4 == t3 \o s4
           t5 == t4 \o s5
           t6 == t5 \o s6
           t7 == t6 \o s7
           t8 == t7 \o s8
           F1 == F \cup E1
           F2 == F1 \cup E2
           F3 == F2 \cup E3
           F4 == F3 \cup E4
           F5 == F4 \cup E5
           F6 == F5 \cup E6
           F7 == F6 \cup E7
           F8 == F7 \cup E8
<1>1. Part(first, F, 1, 13) /\ Part(s6, E6, 19, 20)
  BY FixedParts
<1>2. /\ Part(s1, E1, 14, 14) /\ Part(s2, E2, 15, 15) /\ Part(s3, E3, 16, 16)
      /\ Part(s4, E4, 17, 17) /\ Part(s5, E5, 18, 18) /\ Part(s7, E7, 21, 21)
  <2>1. /\ Rank(Upload("up_bias")) = 14 /\ Rank(Upload("gate_bias")) = 15
        /\ Rank(Upload("down_bias")) = 16
        /\ Rank(LaunchBias("up", "up_bias")) = 17 /\ Rank(LaunchBias("gate", "gate_bias")) = 18
        /\ Rank(LaunchBias("output", "down_bias")) = 21
    BY UploadRanks, LaunchRanks
  <2> QED
    BY <2>1, BiasPart
<1>3. Part(s8, E8, 22, 22)
  BY OnePart, CopyRanks
<1>4. MlpSteps(l) = t8
  BY DEF MlpSteps
<1>5. MlpProgram(l) = F8
  BY DEF MlpProgram, IfBias
<1> HIDE DEF first, s1, s2, s3, s4, s5, s6, s7, s8, F, E1, E2, E3, E4, E5, E6, E7, E8
<1>11. Part(t1, F1, 1, 14)
  BY <1>1, <1>2, JoinParts
<1> HIDE DEF t1, F1
<1>12. Part(t2, F2, 1, 15)
  BY <1>11, <1>2, JoinParts
<1> HIDE DEF t2, F2
<1>13. Part(t3, F3, 1, 16)
  BY <1>12, <1>2, JoinParts
<1> HIDE DEF t3, F3
<1>14. Part(t4, F4, 1, 17)
  BY <1>13, <1>2, JoinParts
<1> HIDE DEF t4, F4
<1>15. Part(t5, F5, 1, 18)
  BY <1>14, <1>2, JoinParts
<1> HIDE DEF t5, F5
<1>16. Part(t6, F6, 1, 20)
  BY <1>15, <1>1, JoinParts
<1> HIDE DEF t6, F6
<1>17. Part(t7, F7, 1, 21)
  BY <1>16, <1>2, JoinParts
<1> HIDE DEF t7, F7
<1>18. Part(t8, F8, 1, 22)
  BY <1>17, <1>3, JoinParts
<1> QED
  BY <1>4, <1>5, <1>18

-----------------------------------------------------------------------------
(* A pass is a sequence of operators: PassFrom descends from the last layer. *)
LayerOperators(l) ==
    (IF available /\ attn_enabled[l] THEN <<>> ELSE AttentionProducts(l)) \o << Mlp(l) >>
PassValue(f, l) ==
    IF l > NumLayers THEN << Product(NumLayers, "head") >> ELSE LayerOperators(l) \o f[l + 1]
IsPass(f) == f = [l \in 1 .. NumLayers + 1 |-> PassValue(f, l)]

LEMMA OperatorsOfLayer ==
    \A l \in Layers : /\ LayerOperators(l) \in Seq(Operators)
                      /\ MlpProducts(l) \in Seq(Operators)
<1> SUFFICES ASSUME NEW l \in Layers
             PROVE  LayerOperators(l) \in Seq(Operators) /\ MlpProducts(l) \in Seq(Operators)
  OBVIOUS
<1>1. \A r \in Roles : Product(l, r) \in Operators
  BY DEF Operators
<1>2. Mlp(l) \in Operators
  BY DEF Operators
<1>3. AttentionProducts(l) \in Seq(Operators) /\ MlpProducts(l) \in Seq(Operators)
  BY <1>1 DEF AttentionProducts, MlpProducts, Roles
<1>4. << Mlp(l) >> \in Seq(Operators) /\ <<>> \in Seq(Operators)
  BY <1>2
<1> QED
  BY <1>3, <1>4, ConcatProperties DEF LayerOperators

LEMMA PassExists == \E f : IsPass(f)
<1> USE OperatorsAssumption
<1> DEFINE From(d) == NumLayers + 1 - d
           Part_(f, d) == \A l \in From(d) .. NumLayers + 1 : f[l] = PassValue(f, l)
           Bad == {d \in Nat : d <= NumLayers /\ ~\E f : Part_(f, d)}
<1>1. ASSUME Bad # {} PROVE FALSE
  <2>1. PICK d \in Bad : \A e \in Bad : d <= e
    BY <1>1, LeastElement
  <2>2. d \in Nat /\ d <= NumLayers /\ ~\E f : Part_(f, d)
    BY <2>1
  <2>3. CASE d = 0
    <3> DEFINE g == [l \in {NumLayers + 1} |-> << Product(NumLayers, "head") >>]
    <3>1. Part_(g, 0)
      BY SMTT(30) DEF PassValue
    <3> QED
      BY <2>2, <2>3, <3>1
  <2>4. CASE d # 0
    <3>1. d - 1 \in Nat /\ d - 1 <= NumLayers /\ d - 1 \notin Bad
      <4> HIDE DEF Bad
      <4> QED
        BY <2>1, <2>2, <2>4
    <3>2. PICK f : Part_(f, d - 1)
      BY <3>1
    <3> DEFINE m == NumLayers + 1 - d
               g == [l \in m .. NumLayers + 1 |->
                        IF l = m THEN LayerOperators(m) \o f[m + 1] ELSE f[l]]
    <3>3. ASSUME NEW l \in m .. NumLayers + 1
          PROVE  g[l] = PassValue(g, l)
      <4>1. CASE l = m
        <5>1. m + 1 \in m .. NumLayers + 1 /\ m + 1 # m /\ ~(m > NumLayers)
          BY <2>2, <2>4
        <5>2. g[m + 1] = f[m + 1] /\ g[l] = LayerOperators(m) \o f[m + 1]
          BY <4>1, <5>1
        <5> HIDE DEF g, m
        <5> QED
          BY <4>1, <5>1, <5>2 DEF PassValue
      <4>2. CASE l # m
        <5>1. l \in From(d - 1) .. NumLayers + 1
          BY <2>2, <2>4, <4>2
        <5>2. f[l] = PassValue(f, l)
          BY <3>2, <5>1
        <5>3. g[l] = f[l]
          BY <4>2
        <5>4. l > NumLayers \/ (l + 1 \in m .. NumLayers + 1 /\ l + 1 # m)
          BY <2>2, <4>2
        <5>5. l > NumLayers \/ g[l + 1] = f[l + 1]
          BY <5>4
        <5> HIDE DEF g, m
        <5> QED
          BY <5>2, <5>3, <5>5 DEF PassValue
      <4> QED
        BY <4>1, <4>2
    <3>4. Part_(g, d)
      <4> HIDE DEF g
      <4> QED
        BY <3>3
    <3> QED
      BY <2>2, <3>4
  <2> QED
    BY <2>3, <2>4
<1>2. NumLayers \notin Bad
  BY <1>1
<1>3. PICK f : Part_(f, NumLayers)
  BY <1>2
<1> DEFINE g == [l \in 1 .. NumLayers + 1 |-> f[l]]
<1>4. ASSUME NEW l \in 1 .. NumLayers + 1
      PROVE  g[l] = PassValue(g, l)
  <2>1. f[l] = PassValue(f, l)
    BY <1>3
  <2>2. g[l] = f[l]
    OBVIOUS
  <2>3. l > NumLayers \/ g[l + 1] = f[l + 1]
    OBVIOUS
  <2> HIDE DEF g
  <2> QED
    BY <2>1, <2>2, <2>3 DEF PassValue
<1>5. g = [l \in 1 .. NumLayers + 1 |-> g[l]]
  OBVIOUS
<1>6. [l \in 1 .. NumLayers + 1 |-> g[l]] = [l \in 1 .. NumLayers + 1 |-> PassValue(g, l)]
  <2> HIDE DEF g
  <2> QED
    BY <1>4
<1>7. IsPass(g)
  <2> HIDE DEF g
  <2> QED
    BY <1>5, <1>6 DEF IsPass
<1> QED
  BY <1>7

LEMMA PassOfOperators == PassFrom[1] \in Seq(Operators)
<1> USE OperatorsAssumption
<1>1. PassFrom = CHOOSE f : IsPass(f)
  BY DEF PassFrom, IsPass, PassValue, LayerOperators
<1>2. IsPass(PassFrom)
  BY <1>1, PassExists
<1>3. \A l \in 1 .. NumLayers + 1 : PassFrom[l] = PassValue(PassFrom, l)
  BY <1>2 DEF IsPass
<1> DEFINE Bad == {d \in Nat : d <= NumLayers /\ PassFrom[NumLayers + 1 - d] \notin Seq(Operators)}
<1>4. ASSUME Bad # {} PROVE FALSE
  <2>1. PICK d \in Bad : \A e \in Bad : d <= e
    BY <1>4, LeastElement
  <2>2. d \in Nat /\ d <= NumLayers /\ PassFrom[NumLayers + 1 - d] \notin Seq(Operators)
    BY <2>1
  <2>3. CASE d = 0
    <3>1. PassFrom[NumLayers + 1] = << Product(NumLayers, "head") >>
      BY <1>3, SMTT(30) DEF PassValue
    <3>2. Product(NumLayers, "head") \in Operators
      BY DEF Operators, Layers, Roles
    <3>3. << Product(NumLayers, "head") >> \in Seq(Operators)
      BY <3>2
    <3>4. NumLayers + 1 - d = NumLayers + 1
      BY <2>3
    <3> QED
      BY <2>2, <3>1, <3>3, <3>4
  <2>4. CASE d # 0
    <3>1. d - 1 \in Nat /\ d - 1 <= NumLayers /\ d - 1 \notin Bad
      <4> HIDE DEF Bad
      <4> QED
        BY <2>1, <2>2, <2>4
    <3>2. PICK m \in Layers : m = NumLayers + 1 - d
      BY <2>2, <2>4 DEF Layers
    <3>3. m \in 1 .. NumLayers + 1 /\ ~(m > NumLayers) /\ NumLayers + 1 - (d - 1) = m + 1
      BY <2>2, <2>4, <3>2 DEF Layers
    <3>4. PassFrom[m + 1] \in Seq(Operators)
      BY <3>1, <3>3
    <3>5. PassFrom[m] = LayerOperators(m) \o PassFrom[m + 1]
      BY <1>3, <3>3 DEF PassValue
    <3>6. LayerOperators(m) \in Seq(Operators)
      BY OperatorsOfLayer
    <3>7. LayerOperators(m) \o PassFrom[m + 1] \in Seq(Operators)
      BY <3>4, <3>6, ConcatProperties
    <3>8. PassFrom[m] \notin Seq(Operators)
      BY <2>2, <3>2
    <3> QED
      BY <3>5, <3>7, <3>8
  <2> QED
    BY <2>3, <2>4
<1>5. NumLayers \notin Bad
  BY <1>4
<1> QED
  BY <1>5

-----------------------------------------------------------------------------
(* A device call is made: it moves from the remaining ones to those made. *)
LEMMA HeadAndTail ==
    ASSUME NEW S, NEW s \in Seq(S), s # <<>>
    PROVE  /\ Tail(s) \in Seq(S)
           /\ \A i \in DOMAIN s : i \in 1 .. Len(s)
           /\ 1 \in DOMAIN s /\ Head(s) = s[1] /\ Len(Tail(s)) = Len(s) - 1
           /\ DOMAIN Tail(s) = 1 .. Len(s) - 1 /\ DOMAIN s = 1 .. Len(s)
           /\ \A i \in 1 .. Len(s) - 1 : Tail(s)[i] = s[i + 1]
  BY HeadTailProperties, LenProperties, EmptySeq

LEMMA StepFirst ==
    ASSUME OrderInv, steps # <<>>
    PROVE  /\ Step \in Rest /\ Step \in Program(Current) /\ Step \notin Done
           /\ Rest \subseteq Program(Current)
           /\ \A st \in Program(Current) :
                 /\ Rank(st) < Rank(Step) => st \in Done
                 /\ Rank(st) > Rank(Step) => st \in Rest
           /\ \A st \in Done : Rank(st) < Rank(Step)
           /\ \A st \in Rest : st = Step \/ Rank(st) > Rank(Step)
<1>1. steps \in Seq(Program(Current)) /\ Ranked(steps)
      /\ \A st \in Done, left \in Rest : Rank(st) < Rank(left)
  BY DEF OrderInv
<1>2. /\ 1 \in DOMAIN steps /\ Step = steps[1] /\ DOMAIN steps = 1 .. Len(steps)
      /\ \A i \in DOMAIN steps : steps[i] \in Program(Current)
  BY <1>1, HeadAndTail, ElementOfSeq DEF Step
<1>3. Step \in Rest /\ Rest \subseteq Program(Current)
  BY <1>2 DEF Rest, Elements
<1>4. Step \notin Done
  BY <1>3 DEF Done
<1>5. ASSUME NEW st \in Rest
      PROVE  st = Step \/ (Rank(Step) < Rank(st))
  <2>1. PICK i \in DOMAIN steps : st = steps[i]
    BY DEF Rest, Elements
  <2>2. i = 1 \/ 1 < i
    BY <1>2, <2>1
  <2> QED
    BY <1>1, <1>2, <2>1, <2>2 DEF Ranked
<1>6. \A st \in Done : Rank(st) < Rank(Step)
  BY <1>1, <1>3
<1>7. \A st \in Program(Current) : st \in Done \/ st \in Rest
  BY DEF Done
<1> QED
  BY <1>3, <1>4, <1>5, <1>6, <1>7, RankIsNumber

LEMMA AdvanceOrder ==
    ASSUME OrderInv, steps # <<>>, steps' = Tail(steps), Current' = Current, todo' # <<>>
    PROVE  /\ OrderInv'
           /\ Rest' = Rest \ {Step} /\ Done' = Done \cup {Step}
<1>1. steps \in Seq(Program(Current)) /\ Ranked(steps)
      /\ \A st \in Done, left \in Rest : Rank(st) < Rank(left)
  BY DEF OrderInv
<1>2. /\ 1 \in DOMAIN steps /\ Step = steps[1] /\ DOMAIN steps = 1 .. Len(steps)
      /\ Len(steps) \in Nat
      /\ steps' \in Seq(Program(Current)) /\ DOMAIN steps' = 1 .. Len(steps) - 1
      /\ \A i \in 1 .. Len(steps) - 1 : steps'[i] = steps[i + 1]
  BY <1>1, HeadAndTail DEF Step
<1>3. Rest' = {steps[i + 1] : i \in 1 .. Len(steps) - 1}
  BY <1>2 DEF Rest, Elements
<1>4. \A st \in Rest : st = Step \/ st \in Rest'
  <2> TAKE st \in Rest
  <2>1. PICK i \in 1 .. Len(steps) : st = steps[i]
    BY <1>2 DEF Rest, Elements
  <2>2. i = 1 \/ (i - 1 \in 1 .. Len(steps) - 1 /\ i = (i - 1) + 1)
    BY <1>2
  <2> QED
    BY <1>2, <1>3, <2>1, <2>2
<1>5. \A st \in Rest' : st \in Rest /\ st # Step
  <2> TAKE st \in Rest'
  <2>1. PICK i \in 1 .. Len(steps) - 1 : st = steps[i + 1]
    BY <1>3
  <2>2. i + 1 \in 1 .. Len(steps) /\ 1 < i + 1
    BY <1>2
  <2>3. Rank(steps[1]) < Rank(steps[i + 1])
    BY <1>1, <1>2, <2>2 DEF Ranked
  <2>4. st # Step
    BY <1>2, <2>1, <2>3, RankIsNumber
  <2> QED
    BY <1>2, <2>1, <2>2, <2>4 DEF Rest, Elements
<1>6. Rest' = Rest \ {Step}
  BY <1>4, <1>5
<1>7. Program(Current)' = Program(Current)
  BY DEF Program, MlpProgram, MatmulProgram
<1>8. Done' = Done \cup {Step}
  BY <1>6, <1>7, StepFirst DEF Done
<1>9. Ranked(steps')
  <2> SUFFICES ASSUME NEW i \in 1 .. Len(steps) - 1, NEW j \in 1 .. Len(steps) - 1, i < j
               PROVE  Rank(steps'[i]) < Rank(steps'[j])
    BY <1>2 DEF Ranked
  <2>1. i + 1 \in 1 .. Len(steps) /\ j + 1 \in 1 .. Len(steps) /\ i + 1 < j + 1
    BY <1>2
  <2> QED
    BY <1>1, <1>2, <2>1 DEF Ranked
<1>10. \A st \in Done', left \in Rest' : Rank(st) < Rank(left)
  BY <1>1, <1>6, <1>8, StepFirst
<1> QED
  BY <1>2, <1>6, <1>7, <1>8, <1>9, <1>10 DEF OrderInv

-----------------------------------------------------------------------------
(* What a device call is, by its kind. *)
LEMMA Kinds ==
    /\ \A b : Ensure(b)[1] = "ensure" /\ Ensure(b)[2] = b
    /\ \A b : CopyIn(b)[1] = "copy_in" /\ CopyIn(b)[2] = b
    /\ \A c : Upload(c)[1] = "upload" /\ Upload(c)[2] = c
    /\ \A r : UploadWeight(r)[1] = "weight" /\ UploadWeight(r)[2] = r
    /\ LaunchNorm[1] = "norm" /\ LaunchSilu[1] = "silu_mul"
    /\ \A r, x, y : /\ LaunchLinear(r, x, y)[1] = "linear" /\ LaunchLinear(r, x, y)[2] = r
                    /\ LaunchLinear(r, x, y)[3] = x /\ LaunchLinear(r, x, y)[4] = y
    /\ \A b, c : /\ LaunchBias(b, c)[1] = "bias" /\ LaunchBias(b, c)[2] = b
                 /\ LaunchBias(b, c)[3] = c
    /\ \A b : CopyOut(b)[1] = "copy_out" /\ CopyOut(b)[2] = b
  BY DEF Ensure, CopyIn, Upload, UploadWeight, LaunchNorm, LaunchSilu, LaunchLinear, LaunchBias,
         CopyOut

MlpCall(l, st) ==
    \/ \E b \in MlpScratch : st = Ensure(b)
    \/ st = CopyIn("input")
    \/ st = Upload("norm_weight")
    \/ UsesBias(l, "up") /\ st = Upload("up_bias")
    \/ UsesBias(l, "gate") /\ st = Upload("gate_bias")
    \/ UsesBias(l, "down") /\ st = Upload("down_bias")
    \/ \E r \in {"up", "gate", "down"} : st = UploadWeight(r)
    \/ st = LaunchNorm
    \/ st = LaunchLinear("up", "norm_out", "up")
    \/ st = LaunchLinear("gate", "norm_out", "gate")
    \/ st = LaunchLinear("down", "up", "output")
    \/ UsesBias(l, "up") /\ st = LaunchBias("up", "up_bias")
    \/ UsesBias(l, "gate") /\ st = LaunchBias("gate", "gate_bias")
    \/ UsesBias(l, "down") /\ st = LaunchBias("output", "down_bias")
    \/ st = LaunchSilu
    \/ st = CopyOut("output")

MatmulCall(l, r, st) ==
    \/ \E b \in MatmulScratch : st = Ensure(b)
    \/ st = CopyIn("matmul_input")
    \/ UsesBias(l, r) /\ st = Upload("matmul_bias")
    \/ st = UploadWeight(r)
    \/ st = LaunchLinear(r, "matmul_input", "matmul_output")
    \/ UsesBias(l, r) /\ st = LaunchBias("matmul_output", "matmul_bias")
    \/ st = CopyOut("matmul_output")

LEMMA MlpCalls ==
    \A l, st : st \in MlpProgram(l) <=> MlpCall(l, st)
  BY DEF MlpProgram, MlpCall, MlpScratch

LEMMA MatmulCalls ==
    \A l, r, st : st \in MatmulProgram(l, r) <=> MatmulCall(l, r, st)
  BY DEF MatmulProgram, MatmulCall, MatmulScratch

(* The running operator is one of the two kinds. *)
LEMMA CurrentKinds ==
    ASSUME TypeInv, OrderInv, steps # <<>>
    PROVE  /\ Current \in Operators /\ Current.layer \in Layers
           /\ todo # <<>> /\ Tail(todo) \in Seq(Operators)
           /\ \/ /\ Current.op = "mlp" /\ Current.role = "mlp" /\ Current = Mlp(Current.layer)
                 /\ Program(Current) = MlpProgram(Current.layer)
              \/ /\ Current.op = "product" /\ Current.role \in Roles
                 /\ Current = Product(Current.layer, Current.role)
                 /\ Program(Current) = MatmulProgram(Current.layer, Current.role)
<1>1. todo \in Seq(Operators) /\ todo # <<>>
  BY DEF TypeInv, OrderInv
<1>2. Current \in Operators /\ Tail(todo) \in Seq(Operators)
  BY <1>1, HeadTailProperties DEF Current
<1> QED
  BY <1>1, <1>2 DEF Operators, Mlp, Product, Program

-----------------------------------------------------------------------------
(* What a device call does to the contents of the buffers. *)
Sets(val, new, b, x) == \A a \in Buffers : new[a] = IF a = b THEN x ELSE val[a]

MlpEffect(l, st, val, new) ==
    \/ \E b \in MlpScratch : st = Ensure(b)
    \/ st = CopyIn("input") /\ Sets(val, new, "input", Input)
    \/ \E c \in MlpCaches : st = Upload(c) /\ Sets(val, new, c, TensorOf(Mlp(l), c))
    \/ \E r \in {"up", "gate", "down"} : st = UploadWeight(r) /\ new = val
    \/ /\ st = LaunchNorm
       /\ Sets(val, new, "norm_out", Norm(val["input"], val["norm_weight"]))
    \/ /\ st = LaunchLinear("up", "norm_out", "up")
       /\ Sets(val, new, "up", Linear(Weight(l, "up"), val["norm_out"]))
    \/ /\ st = LaunchLinear("gate", "norm_out", "gate")
       /\ Sets(val, new, "gate", Linear(Weight(l, "gate"), val["norm_out"]))
    \/ /\ st = LaunchLinear("down", "up", "output")
       /\ Sets(val, new, "output", Linear(Weight(l, "down"), val["up"]))
    \/ /\ st = LaunchBias("up", "up_bias")
       /\ Sets(val, new, "up", Plus(val["up"], val["up_bias"]))
    \/ /\ st = LaunchBias("gate", "gate_bias")
       /\ Sets(val, new, "gate", Plus(val["gate"], val["gate_bias"]))
    \/ /\ st = LaunchBias("output", "down_bias")
       /\ Sets(val, new, "output", Plus(val["output"], val["down_bias"]))
    \/ st = LaunchSilu /\ Sets(val, new, "up", SiluMul(val["up"], val["gate"]))

MatmulEffect(l, r, st, val, new) ==
    \/ \E b \in MatmulScratch : st = Ensure(b)
    \/ st = CopyIn("matmul_input") /\ Sets(val, new, "matmul_input", Input)
    \/ /\ st = Upload("matmul_bias")
       /\ \E x \in {Bias(l, r), Undefined} : Sets(val, new, "matmul_bias", x)
    \/ st = UploadWeight(r) /\ new = val
    \/ /\ st = LaunchLinear(r, "matmul_input", "matmul_output")
       /\ Sets(val, new, "matmul_output", Linear(Weight(l, r), val["matmul_input"]))
    \/ /\ st = LaunchBias("matmul_output", "matmul_bias")
       /\ Sets(val, new, "matmul_output", Plus(val["matmul_output"], val["matmul_bias"]))

(* `st` is the first call of the program that is not done. *)
IsNext(st, program, done) ==
    /\ st \in program /\ done \subseteq program
    /\ \A x \in done : Rank(x) < Rank(st)
    /\ \A x \in program : Rank(x) < Rank(st) => x \in done

LEMMA TensorsOf ==
    \A l : /\ TensorOf(Mlp(l), "norm_weight") = NormWeight(l)
           /\ TensorOf(Mlp(l), "up_bias") = Bias(l, "up")
           /\ TensorOf(Mlp(l), "gate_bias") = Bias(l, "gate")
           /\ TensorOf(Mlp(l), "down_bias") = Bias(l, "down")
  BY DEF TensorOf, Mlp

LEMMA MatmulCallMade ==
    ASSUME NEW l, NEW r, NEW done, NEW val, NEW new, NEW st,
           IsNext(st, MatmulProgram(l, r), done),
           ProductContents(l, r, done, val), MatmulEffect(l, r, st, val, new)
    PROVE  ProductContents(l, r, done \cup {st}, new)
<1> DEFINE product == Linear(Weight(l, r), Input)
           linear == LaunchLinear(r, "matmul_input", "matmul_output")
           bias == LaunchBias("matmul_output", "matmul_bias")
<1>1. /\ Rank(CopyIn("matmul_input")) = 6 /\ Rank(Upload("matmul_bias")) = 16
      /\ Rank(linear) = 12 /\ Rank(bias) = 21 /\ Rank(UploadWeight(r)) \in 9 .. 11
      /\ \A b \in MatmulScratch : Rank(Ensure(b)) \in 1 .. 2
  BY EnsureRanks, CopyRanks, UploadRanks, LaunchRanks DEF MatmulScratch
<1>2. /\ \A x \in done : Rank(x) < Rank(st)
      /\ \A x \in MatmulProgram(l, r) : Rank(x) < Rank(st) => x \in done
      /\ MatmulCall(l, r, st) /\ \A x : Rank(x) \in Nat
  BY MatmulCalls, RankIsNumber DEF IsNext
<1>3. /\ CopyIn("matmul_input") \in MatmulProgram(l, r) /\ linear \in MatmulProgram(l, r)
      /\ UsesBias(l, r) => Upload("matmul_bias") \in MatmulProgram(l, r)
  BY DEF MatmulProgram
<1>4. {"matmul_input", "matmul_output", "matmul_bias"} \subseteq Buffers
  BY DEF Buffers, MatmulScratch, Caches
<1>5. /\ CopyIn("matmul_input") \in done => val["matmul_input"] = Input
      /\ Upload("matmul_bias") \in done => val["matmul_bias"] \in {Bias(l, r), Undefined}
      /\ linear \in done /\ bias \notin done => val["matmul_output"] = product
      /\ linear \in done /\ bias \in done
             => val["matmul_output"] \in {Plus(product, Bias(l, r)), Plus(product, Undefined)}
  BY DEF ProductContents
<1>6. SUFFICES
      /\ CopyIn("matmul_input") \in done \cup {st} => new["matmul_input"] = Input
      /\ Upload("matmul_bias") \in done \cup {st}
             => new["matmul_bias"] \in {Bias(l, r), Undefined}
      /\ linear \in done \cup {st} /\ bias \notin done \cup {st} => new["matmul_output"] = product
      /\ linear \in done \cup {st} /\ bias \in done \cup {st}
             => new["matmul_output"] \in {Plus(product, Bias(l, r)), Plus(product, Undefined)}
  BY DEF ProductContents
<1> HIDE DEF linear, bias, product
<1>11. CASE \E b \in MatmulScratch : st = Ensure(b)
  BY <1>1, <1>2, <1>11
<1>12. CASE st = CopyIn("matmul_input") /\ Sets(val, new, "matmul_input", Input)
  BY <1>1, <1>2, <1>4, <1>12 DEF Sets
<1>13. CASE /\ st = Upload("matmul_bias")
            /\ \E x \in {Bias(l, r), Undefined} : Sets(val, new, "matmul_bias", x)
  BY <1>1, <1>2, <1>4, <1>5, <1>13 DEF Sets
<1>14. CASE st = UploadWeight(r) /\ new = val
  BY <1>1, <1>2, <1>5, <1>14
<1>15. CASE /\ st = linear
            /\ Sets(val, new, "matmul_output", Linear(Weight(l, r), val["matmul_input"]))
  BY <1>1, <1>2, <1>3, <1>4, <1>5, <1>15 DEF Sets, product
<1>16. CASE /\ st = bias
            /\ Sets(val, new, "matmul_output", Plus(val["matmul_output"], val["matmul_bias"]))
  <2>1. UsesBias(l, r)
    <3>1. bias \notin {Ensure(b) : b \in MatmulScratch} \cup {CopyIn("matmul_input"),
             UploadWeight(r), linear, CopyOut("matmul_output")}
      BY Kinds DEF bias, linear
    <3> QED
      BY <1>2, <1>16, <3>1 DEF MatmulCall, linear
  <2>2. CopyIn("matmul_input") \in done /\ linear \in done /\ Upload("matmul_bias") \in done
        /\ bias \notin done
    BY <1>1, <1>2, <1>3, <1>16, <2>1
  <2>3. val["matmul_output"] = product /\ val["matmul_bias"] \in {Bias(l, r), Undefined}
    BY <1>5, <2>2
  <2>4. new["matmul_output"] \in {Plus(product, Bias(l, r)), Plus(product, Undefined)}
    BY <1>4, <1>16, <2>3 DEF Sets
  <2> QED
    BY <1>1, <1>2, <1>4, <1>5, <1>16, <2>4 DEF Sets
<1> QED
  BY <1>11, <1>12, <1>13, <1>14, <1>15, <1>16 DEF MatmulEffect, linear, bias

LEMMA MlpCallMade ==
    ASSUME NEW l, NEW done, NEW val, NEW new, NEW st,
           IsNext(st, MlpProgram(l), done),
           MlpContents(l, done, val), MlpEffect(l, st, val, new)
    PROVE  MlpContents(l, done \cup {st}, new)
<1> DEFINE upL == LaunchLinear("up", "norm_out", "up")
           gateL == LaunchLinear("gate", "norm_out", "gate")
           downL == LaunchLinear("down", "up", "output")
           upB == LaunchBias("up", "up_bias")
           gateB == LaunchBias("gate", "gate_bias")
           downB == LaunchBias("output", "down_bias")
           copy == CopyIn("input")
           ForMlp(d, v) ==
             /\ copy \in d => v["input"] = Input
             /\ Upload("norm_weight") \in d => v["norm_weight"] = NormWeight(l)
             /\ Upload("up_bias") \in d => v["up_bias"] = Bias(l, "up")
             /\ Upload("gate_bias") \in d => v["gate_bias"] = Bias(l, "gate")
             /\ Upload("down_bias") \in d => v["down_bias"] = Bias(l, "down")
             /\ LaunchNorm \in d => v["norm_out"] = Normed(l)
             /\ upL \in d /\ LaunchSilu \notin d => v["up"] = BiasedBy(upB, d, l, "up", Normed(l))
             /\ gateL \in d => v["gate"] = BiasedBy(gateB, d, l, "gate", Normed(l))
             /\ LaunchSilu \in d => v["up"] = Gated(l)
             /\ downL \in d => v["output"] = BiasedBy(downB, d, l, "down", Gated(l))
           after == done \cup {st}
<1>1. /\ Rank(copy) = 6 /\ Rank(Upload("norm_weight")) = 7 /\ Rank(LaunchNorm) = 8
      /\ Rank(upL) = 12 /\ Rank(gateL) = 13 /\ Rank(Upload("up_bias")) = 14
      /\ Rank(Upload("gate_bias")) = 15 /\ Rank(Upload("down_bias")) = 16
      /\ Rank(upB) = 17 /\ Rank(gateB) = 18 /\ Rank(LaunchSilu) = 19 /\ Rank(downL) = 20
      /\ Rank(downB) = 21
      /\ \A r \in {"up", "gate", "down"} : Rank(UploadWeight(r)) \in 9 .. 11
      /\ \A b \in MlpScratch : Rank(Ensure(b)) \in 1 .. 5
  BY EnsureRanks, CopyRanks, UploadRanks, LaunchRanks DEF MlpScratch
<1>2. /\ \A x \in done : Rank(x) < Rank(st)
      /\ \A x \in MlpProgram(l) : Rank(x) < Rank(st) => x \in done
      /\ MlpCall(l, st) /\ \A x : Rank(x) \in Nat
      /\ st \notin done
  BY MlpCalls, RankIsNumber DEF IsNext
<1>3. /\ copy \in MlpProgram(l) /\ Upload("norm_weight") \in MlpProgram(l)
      /\ LaunchNorm \in MlpProgram(l)
      /\ upL \in MlpProgram(l) /\ gateL \in MlpProgram(l) /\ downL \in MlpProgram(l)
      /\ LaunchSilu \in MlpProgram(l)
      /\ UsesBias(l, "up") => Upload("up_bias") \in MlpProgram(l) /\ upB \in MlpProgram(l)
      /\ UsesBias(l, "gate") => Upload("gate_bias") \in MlpProgram(l) /\ gateB \in MlpProgram(l)
      /\ UsesBias(l, "down") => Upload("down_bias") \in MlpProgram(l) /\ downB \in MlpProgram(l)
  BY DEF MlpProgram
<1>4. /\ {"input", "norm_out", "up", "gate", "output", "norm_weight", "up_bias", "gate_bias",
          "down_bias"} \subseteq Buffers
      /\ MlpCaches = {"norm_weight", "up_bias", "gate_bias", "down_bias"}
  BY DEF Buffers, MlpScratch, Caches, MlpCaches
<1>5. ForMlp(done, val)
  BY TensorsOf, <1>4 DEF MlpContents
<1>6. SUFFICES ForMlp(after, new)
  BY TensorsOf DEF MlpContents, MlpCaches
<1>7. \A x : x \in after <=> x \in done \/ x = st
  OBVIOUS
<1>8. /\ upB \in MlpProgram(l) => UsesBias(l, "up")
      /\ gateB \in MlpProgram(l) => UsesBias(l, "gate")
      /\ downB \in MlpProgram(l) => UsesBias(l, "down")
  <2>1. \A b, c : MlpCall(l, LaunchBias(b, c)) =>
                    \/ UsesBias(l, "up") /\ b = "up"
                    \/ UsesBias(l, "gate") /\ b = "gate"
                    \/ UsesBias(l, "down") /\ b = "output"
    BY Kinds DEF MlpCall
  <2> QED
    BY <2>1, MlpCalls
<1>9. /\ st \in MlpProgram(l) /\ done \subseteq MlpProgram(l)
      /\ \A x : x \in MlpProgram(l) /\ Rank(x) < Rank(st) => x \in done
  BY DEF IsNext
<1> HIDE DEF upL, gateL, downL, upB, gateB, downB, copy, after
<1>11. CASE \E b \in MlpScratch : st = Ensure(b)
  BY <1>1, <1>2, <1>7, <1>11
<1>12. CASE st = copy /\ Sets(val, new, "input", Input)
  BY <1>1, <1>2, <1>4, <1>7, <1>12 DEF Sets
<1>13. CASE \E c \in MlpCaches : st = Upload(c) /\ Sets(val, new, c, TensorOf(Mlp(l), c))
  <2>1. CASE st = Upload("norm_weight") /\ Sets(val, new, "norm_weight", NormWeight(l))
    BY <1>1, <1>2, <1>4, <1>5, <1>7, <2>1 DEF Sets
  <2>2. CASE st = Upload("up_bias") /\ Sets(val, new, "up_bias", Bias(l, "up"))
    BY <1>1, <1>2, <1>4, <1>5, <1>7, <2>2 DEF Sets, BiasedBy
  <2>3. CASE st = Upload("gate_bias") /\ Sets(val, new, "gate_bias", Bias(l, "gate"))
    BY <1>1, <1>2, <1>4, <1>5, <1>7, <2>3 DEF Sets, BiasedBy
  <2>4. CASE st = Upload("down_bias") /\ Sets(val, new, "down_bias", Bias(l, "down"))
    BY <1>1, <1>2, <1>4, <1>5, <1>7, <2>4 DEF Sets, BiasedBy
  <2> QED
    BY <1>4, <1>13, <2>1, <2>2, <2>3, <2>4, TensorsOf
<1>14. CASE \E r \in {"up", "gate", "down"} : st = UploadWeight(r) /\ new = val
  BY <1>1, <1>2, <1>5, <1>7, <1>14
<1>15. CASE /\ st = LaunchNorm
            /\ Sets(val, new, "norm_out", Norm(val["input"], val["norm_weight"]))
  <2>1. copy \in done /\ Upload("norm_weight") \in done
    BY <1>1, <1>3, <1>9, <1>15
  <2>2. new["norm_out"] = Normed(l)
    BY <1>4, <1>5, <1>15, <2>1 DEF Sets, Normed
  <2> QED
    BY <1>1, <1>2, <1>4, <1>5, <1>7, <1>15, <2>2 DEF Sets
<1>16. CASE st = upL /\ Sets(val, new, "up", Linear(Weight(l, "up"), val["norm_out"]))
  <2>1. LaunchNorm \in done
    BY <1>1, <1>3, <1>9, <1>16
  <2>2. new["up"] = Linear(Weight(l, "up"), Normed(l))
    BY <1>4, <1>5, <1>16, <2>1 DEF Sets
  <2> QED
    BY <1>1, <1>2, <1>4, <1>5, <1>7, <1>16, <2>2 DEF Sets, BiasedBy
<1>17. CASE st = gateL /\ Sets(val, new, "gate", Linear(Weight(l, "gate"), val["norm_out"]))
  <2>1. LaunchNorm \in done
    BY <1>1, <1>3, <1>9, <1>17
  <2>2. new["gate"] = Linear(Weight(l, "gate"), Normed(l))
    BY <1>4, <1>5, <1>17, <2>1 DEF Sets
  <2> QED
    BY <1>1, <1>2, <1>4, <1>5, <1>7, <1>17, <2>2 DEF Sets, BiasedBy
<1>18. CASE st = upB /\ Sets(val, new, "up", Plus(val["up"], val["up_bias"]))
  <2>1. upL \in done /\ Upload("up_bias") \in done /\ upB \notin done /\ LaunchSilu \notin done
    BY <1>1, <1>2, <1>3, <1>8, <1>9, <1>18
  <2>2. new["up"] = Plus(Linear(Weight(l, "up"), Normed(l)), Bias(l, "up"))
    BY <1>4, <1>5, <1>18, <2>1 DEF Sets, BiasedBy
  <2> QED
    BY <1>1, <1>2, <1>4, <1>5, <1>7, <1>18, <2>1, <2>2 DEF Sets, BiasedBy
<1>19. CASE st = gateB /\ Sets(val, new, "gate", Plus(val["gate"], val["gate_bias"]))
  <2>1. gateL \in done /\ Upload("gate_bias") \in done /\ gateB \notin done
    BY <1>1, <1>2, <1>3, <1>8, <1>9, <1>19
  <2>2. new["gate"] = Plus(Linear(Weight(l, "gate"), Normed(l)), Bias(l, "gate"))
    BY <1>4, <1>5, <1>19, <2>1 DEF Sets, BiasedBy
  <2> QED
    BY <1>1, <1>2, <1>4, <1>5, <1>7, <1>19, <2>1, <2>2 DEF Sets, BiasedBy
<1>20. CASE st = LaunchSilu /\ Sets(val, new, "up", SiluMul(val["up"], val["gate"]))
  <2>1. /\ upL \in done /\ gateL \in done /\ LaunchSilu \notin done
        /\ UsesBias(l, "up") => upB \in done
        /\ UsesBias(l, "gate") => gateB \in done
    BY <1>1, <1>2, <1>3, <1>9, <1>20
  <2>2. /\ upB \in done => UsesBias(l, "up")
        /\ gateB \in done => UsesBias(l, "gate")
    BY <1>8, <1>9
  <2>3. /\ val["up"] = ProductOf(l, "up", Normed(l))
        /\ val["gate"] = ProductOf(l, "gate", Normed(l))
    BY <1>5, <2>1, <2>2 DEF BiasedBy, ProductOf, Biased
  <2>4. new["up"] = Gated(l)
    BY <1>4, <1>20, <2>3 DEF Sets, Gated
  <2> QED
    BY <1>1, <1>2, <1>4, <1>5, <1>7, <1>20, <2>1, <2>4 DEF Sets, BiasedBy
<1>21. CASE st = downL /\ Sets(val, new, "output", Linear(Weight(l, "down"), val["up"]))
  <2>1. LaunchSilu \in done
    BY <1>1, <1>3, <1>9, <1>21
  <2>2. new["output"] = Linear(Weight(l, "down"), Gated(l))
    BY <1>4, <1>5, <1>21, <2>1 DEF Sets
  <2> QED
    BY <1>1, <1>2, <1>4, <1>5, <1>7, <1>21, <2>1, <2>2 DEF Sets, BiasedBy
<1>22. CASE st = downB /\ Sets(val, new, "output", Plus(val["output"], val["down_bias"]))
  <2>1. downL \in done /\ Upload("down_bias") \in done /\ downB \notin done
        /\ LaunchSilu \in done
    BY <1>1, <1>2, <1>3, <1>8, <1>9, <1>22
  <2>2. new["output"] = Plus(Linear(Weight(l, "down"), Gated(l)), Bias(l, "down"))
    BY <1>4, <1>5, <1>22, <2>1 DEF Sets, BiasedBy
  <2> QED
    BY <1>1, <1>2, <1>4, <1>5, <1>7, <1>22, <2>1, <2>2 DEF Sets, BiasedBy
<1> QED
  BY <1>11, <1>12, <1>13, <1>14, <1>15, <1>16, <1>17, <1>18, <1>19, <1>20, <1>21, <1>22
     DEF MlpEffect, upL, gateL, downL, upB, gateB, downB, copy

-----------------------------------------------------------------------------
(* Changes of one buffer. *)
LEMMA PutBuffer ==
    ASSUME IsDevice(device), NEW b \in Buffers, NEW d, IsBuffer(d),
           device' = [device EXCEPT ![b] = d]
    PROVE  /\ IsDevice(device') /\ device'[b] = d
           /\ \A a \in Buffers : a # b => device'[a] = device[a]
  BY DEF IsDevice

LEMMA PutContent ==
    ASSUME IsDevice(device), NEW b \in Buffers, NEW x,
           device' = [device EXCEPT ![b].content = x]
    PROVE  /\ IsDevice(device') /\ device'[b].bytes = device[b].bytes /\ device'[b].content = x
           /\ \A a \in Buffers : a # b => device'[a] = device[a]
<1>1. DOMAIN device' = Buffers /\ \A a \in Buffers : a # b => device'[a] = device[a]
  BY DEF IsDevice
<1>2. device'[b] = [device[b] EXCEPT !.content = x]
  BY DEF IsDevice
<1>3. IsBuffer(device[b])
  BY DEF IsDevice
<1>4. device'[b] = [bytes |-> device[b].bytes, content |-> x]
  BY <1>2, <1>3 DEF IsBuffer
<1>5. device'[b].bytes = device[b].bytes /\ device'[b].content = x
  BY <1>4
<1>6. IsBuffer(device'[b])
  BY <1>3, <1>4, <1>5 DEF IsBuffer
<1> QED
  BY <1>1, <1>5, <1>6 DEF IsDevice

(* The buffers the running operator asks for, and their sizes. *)
LEMMA AskedBuffers ==
    ASSUME TypeInv, OrderInv, steps # <<>>
    PROVE  /\ \A b : Ensure(b) \in Program(Current)
                        => b \in Buffers \ Caches /\ Size(Current, b) \in Nat
           /\ \A c : Upload(c) \in Program(Current) =>
                /\ c \in Caches /\ Size(Current, c) \in Nat
                /\ TensorOf(Current, c) # NoTensor
                /\ Current.op = "mlp" => c \in MlpCaches /\ Size(Current, c) = CacheSize(c)
                /\ Current.op = "product" =>
                      /\ c = "matmul_bias"
                      /\ TensorOf(Current, c) = Bias(Current.layer, Current.role)
<1> USE OperatorsAssumption
<1>1. rows \in Nat \ {0} /\ Hidden \in Nat /\ Inter \in Nat /\ Kv \in Nat /\ Vocab \in Nat
  BY DEF TypeInv
<1>2. rows * Hidden \in Nat /\ rows * Inter \in Nat /\ rows * Kv \in Nat /\ rows * Vocab \in Nat
  BY <1>1
<1> DEFINE o == Current
<1>3. CASE o.op = "mlp" /\ o = Mlp(o.layer) /\ Program(o) = MlpProgram(o.layer)
  <2>1. ASSUME NEW b, Ensure(b) \in Program(o)
        PROVE  b \in Buffers \ Caches /\ Size(o, b) \in Nat
    <3>1. b \in MlpScratch
      BY <1>3, <2>1, MlpCalls, Kinds DEF MlpCall
    <3> HIDE DEF o
    <3> QED
      BY <1>2, <3>1 DEF MlpScratch, Buffers, MlpCaches, Caches, Size
  <2>2. ASSUME NEW c, Upload(c) \in Program(o)
        PROVE  c \in MlpCaches
    BY <1>3, <2>2, MlpCalls, Kinds DEF MlpCall, MlpCaches
  <2>3. ASSUME NEW c \in MlpCaches
        PROVE  c \in Caches /\ Size(o, c) \in Nat /\ Size(o, c) = CacheSize(c)
    <3> HIDE DEF o
    <3> QED
      BY <1>1 DEF MlpCaches, Caches, Size, CacheSize
  <2>4. ASSUME NEW c \in MlpCaches
        PROVE  TensorOf(o, c) # NoTensor
    <3>1. TensorOf(o, c) \in {NormWeight(o.layer), Bias(o.layer, "up"), Bias(o.layer, "gate"),
                              Bias(o.layer, "down")}
      BY DEF TensorOf, MlpCaches
    <3> QED
      BY <3>1 DEF NormWeight, Bias, NoTensor
  <2> QED
    BY <1>3, <2>1, <2>2, <2>3, <2>4
<1>4. CASE /\ o.op = "product" /\ o.role \in Roles /\ o = Product(o.layer, o.role)
           /\ Program(o) = MatmulProgram(o.layer, o.role)
  <2>1. ASSUME NEW b, Ensure(b) \in Program(o)
        PROVE  b \in Buffers \ Caches /\ Size(o, b) \in Nat
    <3>1. b \in MatmulScratch
      BY <1>4, <2>1, MatmulCalls, Kinds DEF MatmulCall
    <3>2. InDim(o.role) \in {Hidden, Inter} /\ OutDim(o.role) \in {Hidden, Kv, Inter, Vocab}
      BY <1>4 DEF InDim, OutDim, Roles
    <3>3. Size(o, b) \in {rows * InDim(o.role), rows * OutDim(o.role)}
      BY <3>1 DEF MatmulScratch, Size
    <3> HIDE DEF o
    <3> QED
      BY <1>2, <3>1, <3>2, <3>3 DEF MatmulScratch, Buffers, MlpCaches, Caches
  <2>2. ASSUME NEW c, Upload(c) \in Program(o)
        PROVE  c = "matmul_bias"
    BY <1>4, <2>2, MatmulCalls, Kinds DEF MatmulCall
  <2>3. Size(o, "matmul_bias") \in Nat
    <3>1. OutDim(o.role) \in {Hidden, Kv, Inter, Vocab}
      BY <1>4 DEF OutDim, Roles
    <3> QED
      BY <1>1, <3>1 DEF Size
  <2>4. TensorOf(o, "matmul_bias") = Bias(o.layer, o.role)
    BY DEF TensorOf
  <2>5. "matmul_bias" \in Caches /\ Bias(o.layer, o.role) # NoTensor
    BY DEF Caches, Bias, NoTensor
  <2> QED
    BY <1>4, <2>1, <2>2, <2>3, <2>4, <2>5
<1> QED
  BY <1>3, <1>4, CurrentKinds

LEMMA GrownIsBuffer ==
    ASSUME NEW b \in Buffers, IsDevice(device), Size(Current, b) \in Nat
    PROVE  /\ IsBuffer(Grown(b)) /\ Grown(b).bytes >= Size(Current, b)
           /\ Grown(b).content = Undefined
<1> DEFINE new == NextCapacity(device[b].bytes, Size(Current, b), MinBytes)
<1>1. device[b].bytes \in Nat /\ MinBytes \in Nat \ {0}
  BY OperatorsAssumption DEF IsDevice, IsBuffer
<1>2. new \in Nat /\ new >= Size(Current, b)
  BY <1>1, CapacitySuffices
<1>3. Grown(b) = [bytes |-> new, content |-> Undefined]
  BY DEF Grown
<1> HIDE DEF new
<1> QED
  BY <1>2, <1>3 DEF IsBuffer

-----------------------------------------------------------------------------
(* A device call that succeeds and is not the last one. *)
LEMMA NextCall ==
    ASSUME OrderInv, steps # <<>>
    PROVE  IsNext(Step, Program(Current), Done) /\ Step \in Program(Current)
  BY StepFirst DEF IsNext, Done

LEMMA CallMade ==
    ASSUME OperatorsInv, steps # <<>>, Advance, UNCHANGED <<rows, todo, result>>,
           IsDevice(device'), DOMAIN recorded' = Caches, CacheInv',
           \A b \in Buffers : \/ device'[b].bytes = device[b].bytes
                              \/ device'[b].bytes >= Size(Current, b),
           \A b \in Buffers : Step \in {Ensure(b), Upload(b)}
                                 => device'[b].bytes >= Size(Current, b),
           Current.op = "mlp" => MlpEffect(Current.layer, Step, Values, Values'),
           Current.op = "product"
              => MatmulEffect(Current.layer, Current.role, Step, Values, Values')
    PROVE  OperatorsInv'
<1>1. TypeInv /\ OrderInv /\ SizeInv /\ ContentInv
  BY DEF OperatorsInv
<1>2. TypeInv'
  BY <1>1 DEF TypeInv
<1>3. Current' = Current /\ todo' # <<>>
  BY <1>1 DEF Current, OrderInv
<1>4. OrderInv' /\ Rest' = Rest \ {Step} /\ Done' = Done \cup {Step}
  BY <1>1, <1>3, AdvanceOrder DEF Advance
<1>5. SizeInv'
  <2> SUFFICES ASSUME NEW b \in Buffers, Ensure(b) \in Done' \/ Upload(b) \in Done'
               PROVE  device'[b].bytes >= Size(Current, b)'
    BY DEF SizeInv
  <2>1. Size(Current, b)' = Size(Current, b)
    BY <1>3 DEF Size
  <2>2. CASE Step \in {Ensure(b), Upload(b)}
    BY <2>1, <2>2
  <2>3. CASE Step \notin {Ensure(b), Upload(b)}
    <3>1. Ensure(b) \in Done \/ Upload(b) \in Done
      BY <1>4, <2>3
    <3>2. device[b].bytes >= Size(Current, b)
      BY <1>1, <3>1 DEF SizeInv
    <3> QED
      BY <2>1, <3>2
  <2> QED
    BY <2>2, <2>3
<1>6. ContentInv'
  <2>1. IsNext(Step, Program(Current), Done)
    BY <1>1, NextCall
  <2>2. ASSUME Current.op = "mlp"
        PROVE  MlpContents(Current.layer, Done', Values')
    <3>1. Program(Current) = MlpProgram(Current.layer)
      BY <2>2 DEF Program
    <3>2. MlpContents(Current.layer, Done, Values)
      BY <1>1, <2>2 DEF ContentInv
    <3> QED
      BY <1>4, <2>1, <2>2, <3>1, <3>2, MlpCallMade
  <2>3. ASSUME Current.op = "product"
        PROVE  ProductContents(Current.layer, Current.role, Done', Values')
    <3>1. Program(Current) = MatmulProgram(Current.layer, Current.role)
      BY <2>3 DEF Program
    <3>2. ProductContents(Current.layer, Current.role, Done, Values)
      BY <1>1, <2>3 DEF ContentInv
    <3> QED
      BY <1>4, <2>1, <2>3, <3>1, <3>2, MatmulCallMade
  <2>4. /\ Current'.op = "mlp" => MlpContents(Current'.layer, Done', Values')
        /\ Current'.op = "product" =>
              ProductContents(Current'.layer, Current'.role, Done', Values')
    BY <1>3, <2>2, <2>3
  <2>5. /\ MlpContents(Current.layer, Done, Values)'
              <=> MlpContents(Current'.layer, Done', Values')
        /\ ProductContents(Current.layer, Current.role, Done, Values)'
              <=> ProductContents(Current'.layer, Current'.role, Done', Values')
    BY DEF MlpContents, ProductContents, TensorOf
  <2> QED
    BY <2>4, <2>5 DEF ContentInv
<1>7. MlpComputesItsLayer' /\ ProductsKeepToTheirTensors'
  BY DEF OperatorsInv, MlpComputesItsLayer, ProductsKeepToTheirTensors
<1> QED
  BY <1>2, <1>4, <1>5, <1>6, <1>7 DEF OperatorsInv

(* Calls that leave the upload caches alone keep what is known of them. *)
LEMMA CachesAlone ==
    ASSUME CacheInv, UNCHANGED recorded, \A c \in Caches : device'[c] = device[c]
    PROVE  CacheInv'
<1>1. MlpCaches \subseteq Caches /\ "matmul_bias" \in Caches
  BY DEF Caches
<1> QED
  BY <1>1 DEF CacheInv, Content

(* The contents after a change of one buffer. *)
LEMMA ValuesOf ==
    ASSUME NEW b \in Buffers, \A a \in Buffers : a # b => device'[a] = device[a]
    PROVE  Sets(Values, Values', b, device'[b].content)
<1>1. /\ \A a \in Buffers : Values[a] = device[a].content
      /\ \A a \in Buffers : Values'[a] = device'[a].content
  BY DEF Values, Content
<1> QED
  BY <1>1 DEF Sets

LEMMA EnsureKeeps ==
    ASSUME OperatorsInv, EnsureBuffer
    PROVE  OperatorsInv'
<1> DEFINE b == Step[2]
<1>1. TypeInv /\ OrderInv /\ CacheInv /\ steps # <<>> /\ Step[1] = "ensure"
  BY DEF OperatorsInv, EnsureBuffer, Running
<1>2. /\ Step \in Program(Current)
      /\ \/ Current.op = "mlp" /\ Program(Current) = MlpProgram(Current.layer)
         \/ /\ Current.op = "product"
            /\ Program(Current) = MatmulProgram(Current.layer, Current.role)
  BY <1>1, NextCall, CurrentKinds
<1>3. /\ Step = Ensure(b)
      /\ Current.op = "mlp" => b \in MlpScratch
      /\ Current.op = "product" => b \in MatmulScratch
  <2>1. CASE Current.op = "mlp" /\ Program(Current) = MlpProgram(Current.layer)
    BY <1>1, <1>2, <2>1, MlpCalls, Kinds DEF MlpCall
  <2>2. CASE /\ Current.op = "product"
             /\ Program(Current) = MatmulProgram(Current.layer, Current.role)
    BY <1>1, <1>2, <2>2, MatmulCalls, Kinds DEF MatmulCall
  <2> QED
    BY <1>2, <2>1, <2>2
<1>4. b \in Buffers \ Caches /\ Size(Current, b) \in Nat
  BY <1>1, <1>2, <1>3, AskedBuffers
<1>5. device' = IF TooSmall(b) THEN [device EXCEPT ![b] = Grown(b)] ELSE device
  BY DEF EnsureBuffer
<1>6. IsDevice(device)
  BY <1>1 DEF TypeInv
<1> HIDE DEF b
<1>7. /\ IsDevice(device') /\ \A a \in Buffers : a # b => device'[a] = device[a]
      /\ device'[b].bytes >= Size(Current, b)
  <2>1. CASE TooSmall(b)
    <3>1. IsBuffer(Grown(b)) /\ Grown(b).bytes >= Size(Current, b)
      BY <1>4, <1>6, GrownIsBuffer
    <3>2. device' = [device EXCEPT ![b] = Grown(b)]
      BY <1>5, <2>1
    <3> QED
      BY <1>4, <1>6, <3>1, <3>2, PutBuffer
  <2>2. CASE ~TooSmall(b)
    <3>1. device[b].bytes \in Nat
      BY <1>4, <1>6 DEF IsDevice, IsBuffer
    <3> QED
      BY <1>4, <1>5, <1>6, <2>2, <3>1 DEF TooSmall
  <2> QED
    BY <2>1, <2>2
<1>8. CacheInv'
  <2>1. \A c \in Caches : c \in Buffers /\ c # b
    BY <1>4 DEF Buffers
  <2> QED
    BY <1>1, <1>7, <2>1, CachesAlone DEF EnsureBuffer
<1>9. \A a \in Buffers : Step \in {Ensure(a), Upload(a)} => a = b
  BY <1>3, Kinds
<1>10. /\ Current.op = "mlp" => MlpEffect(Current.layer, Step, Values, Values')
       /\ Current.op = "product"
             => MatmulEffect(Current.layer, Current.role, Step, Values, Values')
  BY <1>3 DEF MlpEffect, MatmulEffect
<1>11. DOMAIN recorded' = Caches /\ Advance /\ UNCHANGED <<rows, todo, result>>
  BY <1>1 DEF EnsureBuffer, TypeInv
<1>12. /\ \A a \in Buffers : \/ device'[a].bytes = device[a].bytes
                             \/ device'[a].bytes >= Size(Current, a)
       /\ \A a \in Buffers : Step \in {Ensure(a), Upload(a)}
                               => device'[a].bytes >= Size(Current, a)
  BY <1>7, <1>9
<1> QED
  BY <1>1, <1>7, <1>8, <1>10, <1>11, <1>12, CallMade

(* The kinds of calls the two operators make, each with its buffers. *)
LEMMA RunningCall ==
    ASSUME TypeInv, OrderInv, steps # <<>>
    PROVE  \/ Current.op = "mlp" /\ Current.role = "mlp" /\ MlpCall(Current.layer, Step)
           \/ /\ Current.op = "product" /\ Current.role \in Roles
              /\ MatmulCall(Current.layer, Current.role, Step)
  BY NextCall, CurrentKinds, MlpCalls, MatmulCalls

(* A call that only writes the content x into scratch buffer b. *)
LEMMA ContentWritten ==
    ASSUME OperatorsInv, steps # <<>>, Advance, UNCHANGED <<rows, todo, result, recorded>>,
           NEW b \in Buffers \ Caches, NEW x, device' = [device EXCEPT ![b].content = x],
           \A a : Step # Ensure(a) /\ Step # Upload(a),
           \/ /\ Current.op = "mlp"
              /\ Sets(Values, Values', b, x) => MlpEffect(Current.layer, Step, Values, Values')
           \/ /\ Current.op = "product"
              /\ Sets(Values, Values', b, x)
                    => MatmulEffect(Current.layer, Current.role, Step, Values, Values')
    PROVE  OperatorsInv'
<1>1. TypeInv /\ OrderInv /\ CacheInv
  BY DEF OperatorsInv
<1>2. IsDevice(device)
  BY <1>1 DEF TypeInv
<1>3. /\ IsDevice(device') /\ device'[b].bytes = device[b].bytes /\ device'[b].content = x
      /\ \A a \in Buffers : a # b => device'[a] = device[a]
  BY <1>2, PutContent
<1>4. Sets(Values, Values', b, x)
  BY <1>3, ValuesOf
<1>5. CacheInv'
  <2>1. \A c \in Caches : c \in Buffers /\ c # b
    BY DEF Buffers
  <2> QED
    BY <1>1, <1>3, <2>1, CachesAlone
<1>6. \A a \in Buffers : device'[a].bytes = device[a].bytes
  BY <1>3
<1>7. DOMAIN recorded' = Caches
  BY <1>1 DEF TypeInv
<1>8. /\ Current.op = "mlp" => MlpEffect(Current.layer, Step, Values, Values')
      /\ Current.op = "product"
            => MatmulEffect(Current.layer, Current.role, Step, Values, Values')
  BY <1>4
<1>9. \A a \in Buffers : Step \notin {Ensure(a), Upload(a)}
  OBVIOUS
<1> QED
  BY <1>3, <1>5, <1>6, <1>7, <1>8, <1>9, CallMade

LEMMA ScratchIsNoCache ==
    \A b \in MlpScratch \cup MatmulScratch : b \in Buffers \ Caches
  BY DEF Buffers, MlpScratch, MatmulScratch, Caches, MlpCaches

LEMMA CopyInKeeps ==
    ASSUME OperatorsInv, CopyInput
    PROVE  OperatorsInv'
<1>1. TypeInv /\ OrderInv /\ steps # <<>> /\ Step[1] = "copy_in"
  BY DEF OperatorsInv, CopyInput, Running
<1>2. /\ Advance /\ UNCHANGED <<rows, todo, result, recorded>>
      /\ device' = [device EXCEPT ![Step[2]].content = Input]
  BY DEF CopyInput
<1>3. \A a : Step # Ensure(a) /\ Step # Upload(a)
  BY <1>1, Kinds
<1>4. CASE Current.op = "mlp" /\ MlpCall(Current.layer, Step)
  <2>1. Step = CopyIn("input")
    BY <1>1, <1>4, Kinds DEF MlpCall
  <2>2. Step[2] = "input" /\ "input" \in Buffers \ Caches
    BY <2>1, Kinds, ScratchIsNoCache DEF MlpScratch
  <2>3. Sets(Values, Values', "input", Input)
           => MlpEffect(Current.layer, Step, Values, Values')
    BY <2>1 DEF MlpEffect
  <2> QED
    BY <1>1, <1>2, <1>3, <1>4, <2>2, <2>3, ContentWritten
<1>5. CASE Current.op = "product" /\ MatmulCall(Current.layer, Current.role, Step)
  <2>1. Step = CopyIn("matmul_input")
    BY <1>1, <1>5, Kinds DEF MatmulCall
  <2>2. Step[2] = "matmul_input" /\ "matmul_input" \in Buffers \ Caches
    BY <2>1, Kinds, ScratchIsNoCache DEF MatmulScratch
  <2>3. Sets(Values, Values', "matmul_input", Input)
           => MatmulEffect(Current.layer, Current.role, Step, Values, Values')
    BY <2>1 DEF MatmulEffect
  <2> QED
    BY <1>1, <1>2, <1>3, <1>5, <2>2, <2>3, ContentWritten
<1> QED
  BY <1>1, <1>4, <1>5, RunningCall

LEMMA WeightKeeps ==
    ASSUME OperatorsInv, GetOrUploadWeight
    PROVE  OperatorsInv'
<1>1. TypeInv /\ OrderInv /\ CacheInv /\ steps # <<>> /\ Step[1] = "weight"
  BY DEF OperatorsInv, GetOrUploadWeight, Running
<1>2. Advance /\ UNCHANGED <<rows, todo, result, recorded, device>>
  BY DEF GetOrUploadWeight
<1>3. \A a : Step # Ensure(a) /\ Step # Upload(a)
  BY <1>1, Kinds
<1>4. Values' = Values
  BY <1>2 DEF Values, Content
<1>5. /\ Current.op = "mlp" => MlpEffect(Current.layer, Step, Values, Values')
      /\ Current.op = "product"
            => MatmulEffect(Current.layer, Current.role, Step, Values, Values')
  <2>1. CASE Current.op = "mlp" /\ MlpCall(Current.layer, Step)
    <3>1. \E r \in {"up", "gate", "down"} : Step = UploadWeight(r)
      BY <1>1, <2>1, Kinds DEF MlpCall
    <3> QED
      BY <1>4, <2>1, <3>1 DEF MlpEffect
  <2>2. CASE Current.op = "product" /\ MatmulCall(Current.layer, Current.role, Step)
    <3>1. Step = UploadWeight(Current.role)
      BY <1>1, <2>2, Kinds DEF MatmulCall
    <3> QED
      BY <1>4, <2>2, <3>1 DEF MatmulEffect
  <2> QED
    BY <1>1, <2>1, <2>2, RunningCall
<1>6. IsDevice(device') /\ DOMAIN recorded' = Caches
  BY <1>1, <1>2 DEF TypeInv
<1>7. CacheInv'
  BY <1>1, <1>2, CachesAlone
<1>8. \A a \in Buffers : device'[a].bytes = device[a].bytes /\ Step \notin {Ensure(a), Upload(a)}
  BY <1>2, <1>3
<1> QED
  BY <1>1, <1>2, <1>5, <1>6, <1>7, <1>8, CallMade

(* The upload that is running, and what its cache holds. *)
LEMMA RunningUpload ==
    ASSUME TypeInv, OrderInv, CacheInv, steps # <<>>, Step[1] = "upload"
    PROVE  /\ Step = Upload(Step[2]) /\ Step[2] \in Caches /\ Step[2] \in Buffers
           /\ Size(Current, Step[2]) \in Nat /\ TensorOf(Current, Step[2]) # NoTensor
           /\ \/ /\ Current.op = "mlp" /\ Current = Mlp(Current.layer)
                 /\ Step[2] \in MlpCaches /\ Size(Current, Step[2]) = CacheSize(Step[2])
                 /\ TooSmall(Step[2]) => recorded[Step[2]].host = NoTensor
              \/ /\ Current.op = "product" /\ Step[2] = "matmul_bias"
                 /\ TensorOf(Current, Step[2]) = Bias(Current.layer, Current.role)
<1> DEFINE c == Step[2]
<1>1. Step = Upload(c)
  <2>1. CASE Current.op = "mlp" /\ MlpCall(Current.layer, Step)
    BY <2>1, Kinds DEF MlpCall
  <2>2. CASE Current.op = "product" /\ MatmulCall(Current.layer, Current.role, Step)
    BY <2>2, Kinds DEF MatmulCall
  <2> QED
    BY <2>1, <2>2, RunningCall
<1>2. Upload(c) \in Program(Current)
  BY <1>1, NextCall
<1>3. c \in Caches /\ c \in Buffers
  BY <1>2, AskedBuffers DEF Buffers
<1>4. CASE Current.op = "mlp" /\ Current = Mlp(Current.layer)
  <2>1. c \in MlpCaches /\ Size(Current, c) = CacheSize(c) /\ Size(Current, c) \in Nat
    BY <1>2, <1>4, AskedBuffers
  <2>2. TooSmall(c) => recorded[c].host = NoTensor
    <3>1. IsDevice(device)
      BY DEF TypeInv
    <3>2. device[c].bytes \in Nat
      BY <1>3, <3>1 DEF IsDevice, IsBuffer
    <3>3. recorded[c].host = NoTensor \/ device[c].bytes >= CacheSize(c)
      BY <2>1 DEF CacheInv
    <3> HIDE DEF c
    <3> QED
      BY <2>1, <3>2, <3>3 DEF TooSmall
  <2> QED
    BY <1>1, <1>2, <1>3, <1>4, <2>1, <2>2, AskedBuffers
<1>5. CASE Current.op = "product"
  BY <1>1, <1>2, <1>3, <1>5, AskedBuffers
<1> QED
  BY <1>4, <1>5, CurrentKinds

LEMMA UploadKeeps ==
    ASSUME OperatorsInv, UploadTensor
    PROVE  OperatorsInv'
<1> DEFINE c == Step[2]
           t == TensorOf(Current, c)
           old == IF TooSmall(c) THEN Grown(c) ELSE device[c]
           put == [old EXCEPT !.content = t]
<1>1. TypeInv /\ OrderInv /\ CacheInv /\ steps # <<>> /\ Step[1] = "upload"
  BY DEF OperatorsInv, UploadTensor, Running
<1>2. Advance /\ UNCHANGED <<rows, todo, result>>
  BY DEF UploadTensor
<1>3. /\ Step = Upload(c) /\ c \in Caches /\ c \in Buffers
      /\ Size(Current, c) \in Nat /\ t # NoTensor
      /\ \/ /\ Current.op = "mlp" /\ Current = Mlp(Current.layer)
            /\ c \in MlpCaches /\ Size(Current, c) = CacheSize(c)
         \/ Current.op = "product" /\ c = "matmul_bias" /\ t = Bias(Current.layer, Current.role)
  BY <1>1, RunningUpload
<1>4. IsDevice(device) /\ IsBuffer(device[c]) /\ DOMAIN recorded = Caches
  BY <1>1, <1>3 DEF TypeInv, IsDevice
<1>5. IsBuffer(old) /\ old.bytes >= Size(Current, c)
  <2>1. CASE TooSmall(c)
    BY <1>3, <1>4, <2>1, GrownIsBuffer
  <2>2. CASE ~TooSmall(c)
    <3>1. device[c].bytes \in Nat
      BY <1>4 DEF IsBuffer
    <3> HIDE DEF c
    <3> QED
      BY <1>3, <1>4, <2>2, <3>1 DEF TooSmall
  <2> QED
    BY <2>1, <2>2
<1>6. \/ /\ NeedsUpload(c)
         /\ device' = [device EXCEPT ![c] = put]
         /\ recorded' = [recorded EXCEPT ![c] = [host |-> t, bytes |-> Size(Current, c)]]
      \/ ~NeedsUpload(c) /\ device' = device /\ recorded' = recorded
  BY DEF UploadTensor
<1> HIDE DEF c, t, old
<1>7. put = [bytes |-> old.bytes, content |-> t]
  BY <1>5 DEF IsBuffer
<1>8. IsBuffer(put) /\ put.bytes = old.bytes /\ put.content = t
  <2>1. put.bytes = old.bytes /\ put.content = t
    BY <1>7
  <2> HIDE DEF put
  <2> QED
    BY <1>5, <1>7, <2>1 DEF IsBuffer
<1> HIDE DEF put
<1>9. /\ IsDevice(device') /\ DOMAIN recorded' = Caches
      /\ \A a \in Buffers : a # c => device'[a] = device[a]
      /\ device'[c].bytes >= Size(Current, c)
      /\ \A a \in Caches : a # c => recorded'[a] = recorded[a]
  <2>1. CASE NeedsUpload(c)
    <3>1. device' = [device EXCEPT ![c] = put]
      BY <1>6, <2>1
    <3>2. /\ IsDevice(device') /\ device'[c] = put
          /\ \A a \in Buffers : a # c => device'[a] = device[a]
      BY <1>3, <1>4, <1>8, <3>1, PutBuffer
    <3> QED
      BY <1>3, <1>4, <1>5, <1>6, <1>8, <2>1, <3>2
  <2>2. CASE ~NeedsUpload(c)
    BY <1>3, <1>4, <1>5, <1>6, <2>2 DEF NeedsUpload, old
  <2> QED
    BY <2>1, <2>2
<1>10. /\ device'[c].content \in {t, Undefined}
       /\ c \in MlpCaches => device'[c].content = t
       /\ recorded'[c].host = t /\ recorded'[c].bytes = Size(Current, c)
  <2>1. CASE NeedsUpload(c)
    <3>1. device'[c] = put /\ recorded'[c] = [host |-> t, bytes |-> Size(Current, c)]
      BY <1>3, <1>4, <1>6, <2>1 DEF IsDevice
    <3> QED
      BY <1>8, <3>1
  <2>2. CASE ~NeedsUpload(c)
    <3>1. recorded[c].host = t /\ recorded[c].bytes = Size(Current, c)
      BY <2>2 DEF NeedsUpload, t
    <3>2. c \in MlpCaches => device[c].content = t
      BY <1>1, <1>3, <3>1 DEF CacheInv, Content
    <3>3. c = "matmul_bias" => device[c].content \in {t, Undefined}
      BY <1>1, <3>1 DEF CacheInv, Content
    <3> QED
      BY <1>3, <1>6, <2>2, <3>1, <3>2, <3>3 DEF Caches
  <2> QED
    BY <1>6, <2>1, <2>2
<1>11. CacheInv'
  <2>1. \A b \in MlpCaches : b \in Caches /\ b \in Buffers /\ b # "matmul_bias"
    BY DEF MlpCaches, Caches, Buffers
  <2>2. "matmul_bias" \in Caches /\ "matmul_bias" \in Buffers
    BY DEF Caches, Buffers
  <2>3. ASSUME NEW b \in MlpCaches
        PROVE  \/ recorded'[b].host = NoTensor
               \/ /\ device'[b].bytes >= CacheSize(b) /\ recorded'[b].bytes = CacheSize(b)
                  /\ device'[b].content = recorded'[b].host
    <3>1. CASE b = c
      <4>1. Size(Current, c) = CacheSize(c)
        BY <1>3, <2>1, <3>1
      <4> QED
        BY <1>9, <1>10, <3>1, <4>1
    <3>2. CASE b # c
      <4>1. recorded'[b] = recorded[b] /\ device'[b] = device[b]
        BY <1>9, <2>1, <3>2
      <4> QED
        BY <1>1, <4>1 DEF CacheInv, Content
    <3> QED
      BY <3>1, <3>2
  <2>4. device'["matmul_bias"].content \in {recorded'["matmul_bias"].host, Undefined}
    <3>1. CASE c = "matmul_bias"
      BY <1>10, <3>1
    <3>2. CASE c # "matmul_bias"
      <4>1. recorded'["matmul_bias"] = recorded["matmul_bias"]
            /\ device'["matmul_bias"] = device["matmul_bias"]
        BY <1>9, <2>2, <3>2
      <4> QED
        BY <1>1, <4>1 DEF CacheInv, Content
    <3> QED
      BY <3>1, <3>2
  <2> QED
    BY <2>3, <2>4 DEF CacheInv, Content
<1>12. Sets(Values, Values', c, device'[c].content)
  BY <1>3, <1>9, ValuesOf
<1>13. /\ Current.op = "mlp" => MlpEffect(Current.layer, Step, Values, Values')
       /\ Current.op = "product"
             => MatmulEffect(Current.layer, Current.role, Step, Values, Values')
  <2>1. CASE Current.op = "mlp" /\ Current = Mlp(Current.layer) /\ c \in MlpCaches
    <3>1. device'[c].content = TensorOf(Mlp(Current.layer), c)
      BY <1>10, <2>1 DEF t
    <3> QED
      BY <1>3, <1>12, <2>1, <3>1 DEF MlpEffect
  <2>2. CASE Current.op = "product" /\ c = "matmul_bias"
             /\ t = Bias(Current.layer, Current.role)
    BY <1>3, <1>10, <1>12, <2>2 DEF MatmulEffect
  <2> QED
    BY <1>3, <2>1, <2>2
<1>14. \A a \in Buffers : Step \in {Ensure(a), Upload(a)} => a = c
  BY <1>3, Kinds
<1>15. /\ \A a \in Buffers : \/ device'[a].bytes = device[a].bytes
                              \/ device'[a].bytes >= Size(Current, a)
       /\ \A a \in Buffers : Step \in {Ensure(a), Upload(a)}
                               => device'[a].bytes >= Size(Current, a)
  BY <1>9, <1>14
<1> QED
  BY <1>1, <1>2, <1>9, <1>11, <1>13, <1>15, CallMade

(* Every kernel has the effect MlpEffect or MatmulEffect tells. *)
LEMMA ValueIs == \A b \in Buffers : Values[b] = Content(b)
  BY DEF Values

LEMMA KernelWrites ==
    /\ Written(LaunchNorm) = "norm_out"
    /\ Computed(LaunchNorm) = Norm(Content("input"), Content("norm_weight"))
    /\ Written(LaunchSilu) = "up" /\ Computed(LaunchSilu) = SiluMul(Content("up"), Content("gate"))
    /\ \A r, x, y : /\ Written(LaunchLinear(r, x, y)) = y
                    /\ Computed(LaunchLinear(r, x, y))
                          = Linear(Weight(Current.layer, r), Content(x))
    /\ \A b, c : /\ Written(LaunchBias(b, c)) = b
                 /\ Computed(LaunchBias(b, c)) = Plus(Content(b), Content(c))
<1>1. Written(LaunchNorm) = "norm_out"
      /\ Computed(LaunchNorm) = Norm(Content("input"), Content("norm_weight"))
  BY Kinds DEF Written, Computed
<1>2. Written(LaunchSilu) = "up"
      /\ Computed(LaunchSilu) = SiluMul(Content("up"), Content("gate"))
  BY Kinds DEF Written, Computed
<1>3. ASSUME NEW r, NEW x, NEW y
      PROVE  /\ Written(LaunchLinear(r, x, y)) = y
             /\ Computed(LaunchLinear(r, x, y)) = Linear(Weight(Current.layer, r), Content(x))
  BY Kinds DEF Written, Computed
<1>4. ASSUME NEW b, NEW c
      PROVE  /\ Written(LaunchBias(b, c)) = b
             /\ Computed(LaunchBias(b, c)) = Plus(Content(b), Content(c))
  BY Kinds DEF Written, Computed
<1> QED
  BY <1>1, <1>2, <1>3, <1>4

LEMMA LaunchKeeps ==
    ASSUME OperatorsInv, LaunchKernel
    PROVE  OperatorsInv'
<1> DEFINE l == Current.layer
           r == Current.role
           b == Written(Step)
           x == Computed(Step)
<1>1. /\ TypeInv /\ OrderInv /\ steps # <<>>
      /\ Step[1] \in {"norm", "linear", "bias", "silu_mul"}
  BY DEF OperatorsInv, LaunchKernel, Running
<1>2. /\ Advance /\ UNCHANGED <<rows, todo, result, recorded>>
      /\ device' = [device EXCEPT ![b].content = x]
  BY DEF LaunchKernel
<1>3. \A a : Step # Ensure(a) /\ Step # Upload(a)
  BY <1>1, Kinds
<1>4. MlpScratch \subseteq Buffers \ Caches /\ MatmulScratch \subseteq Buffers \ Caches
      /\ \A a \in Buffers : Values[a] = Content(a)
  BY ScratchIsNoCache, ValueIs
<1>5. /\ {"input", "norm_out", "up", "gate", "output"} = MlpScratch
      /\ {"matmul_input", "matmul_output"} = MatmulScratch
      /\ {"norm_weight", "up_bias", "gate_bias", "down_bias", "matmul_bias"} \subseteq Buffers
  BY DEF MlpScratch, MatmulScratch, MlpCaches, Caches, Buffers
<1>6. CASE Current.op = "mlp" /\ MlpCall(l, Step)
  <2>1. /\ b \in MlpScratch
        /\ Sets(Values, Values', b, x) => MlpEffect(l, Step, Values, Values')
    <3>1. CASE Step = LaunchNorm
      <4>1. b = "norm_out" /\ x = Norm(Values["input"], Values["norm_weight"])
        BY <1>4, <1>5, <3>1, KernelWrites
      <4> QED
        BY <1>5, <3>1, <4>1 DEF MlpEffect
    <3>2. CASE Step = LaunchLinear("up", "norm_out", "up")
      <4>1. b = "up" /\ x = Linear(Weight(l, "up"), Values["norm_out"])
        BY <1>4, <1>5, <3>2, KernelWrites
      <4> QED
        BY <1>5, <3>2, <4>1 DEF MlpEffect
    <3>3. CASE Step = LaunchLinear("gate", "norm_out", "gate")
      <4>1. b = "gate" /\ x = Linear(Weight(l, "gate"), Values["norm_out"])
        BY <1>4, <1>5, <3>3, KernelWrites
      <4> QED
        BY <1>5, <3>3, <4>1 DEF MlpEffect
    <3>4. CASE Step = LaunchLinear("down", "up", "output")
      <4>1. b = "output" /\ x = Linear(Weight(l, "down"), Values["up"])
        BY <1>4, <1>5, <3>4, KernelWrites
      <4> QED
        BY <1>5, <3>4, <4>1 DEF MlpEffect
    <3>5. CASE Step = LaunchBias("up", "up_bias")
      <4>1. b = "up" /\ x = Plus(Values["up"], Values["up_bias"])
        BY <1>4, <1>5, <3>5, KernelWrites
      <4> QED
        BY <1>5, <3>5, <4>1 DEF MlpEffect
    <3>6. CASE Step = LaunchBias("gate", "gate_bias")
      <4>1. b = "gate" /\ x = Plus(Values["gate"], Values["gate_bias"])
        BY <1>4, <1>5, <3>6, KernelWrites
      <4> QED
        BY <1>5, <3>6, <4>1 DEF MlpEffect
    <3>7. CASE Step = LaunchBias("output", "down_bias")
      <4>1. b = "output" /\ x = Plus(Values["output"], Values["down_bias"])
        BY <1>4, <1>5, <3>7, KernelWrites
      <4> QED
        BY <1>5, <3>7, <4>1 DEF MlpEffect
    <3>8. CASE Step = LaunchSilu
      <4>1. b = "up" /\ x = SiluMul(Values["up"], Values["gate"])
        BY <1>4, <1>5, <3>8, KernelWrites
      <4> QED
        BY <1>5, <3>8, <4>1 DEF MlpEffect
    <3> HIDE DEF l, b, x
    <3> QED
      BY <1>1, <1>6, <3>1, <3>2, <3>3, <3>4, <3>5, <3>6, <3>7, <3>8, Kinds DEF MlpCall
  <2> QED
    BY <1>1, <1>2, <1>3, <1>4, <1>6, <2>1, ContentWritten
<1>7. CASE Current.op = "product" /\ MatmulCall(l, r, Step)
  <2>1. /\ b \in MatmulScratch
        /\ Sets(Values, Values', b, x) => MatmulEffect(l, r, Step, Values, Values')
    <3>1. CASE Step = LaunchLinear(r, "matmul_input", "matmul_output")
      <4>1. b = "matmul_output" /\ x = Linear(Weight(l, r), Values["matmul_input"])
        BY <1>4, <1>5, <3>1, KernelWrites
      <4> QED
        BY <1>5, <3>1, <4>1 DEF MatmulEffect
    <3>2. CASE Step = LaunchBias("matmul_output", "matmul_bias")
      <4>1. b = "matmul_output" /\ x = Plus(Values["matmul_output"], Values["matmul_bias"])
        BY <1>4, <1>5, <3>2, KernelWrites
      <4> QED
        BY <1>5, <3>2, <4>1 DEF MatmulEffect
    <3> HIDE DEF l, r, b, x
    <3> QED
      BY <1>1, <1>7, <3>1, <3>2, Kinds DEF MatmulCall
  <2> QED
    BY <1>1, <1>2, <1>3, <1>4, <1>7, <2>1, ContentWritten
<1> QED
  BY <1>1, <1>6, <1>7, RunningCall

(* The copy of the result is the last call of a program. *)
LEMMA CopyOutIsLast ==
    ASSUME TypeInv, OrderInv, steps # <<>>, Step[1] = "copy_out", Advance
    PROVE  /\ steps' = <<>>
           /\ \A st \in Program(Current) : st = Step \/ st \in Done
           /\ \/ Current.op = "mlp" /\ Current.role = "mlp" /\ Step = CopyOut("output")
              \/ /\ Current.op = "product" /\ Current.role \in Roles
                 /\ Step = CopyOut("matmul_output")
<1>1. Rank(Step) = 22
      /\ \/ Current.op = "mlp" /\ Current.role = "mlp" /\ Step = CopyOut("output")
         \/ /\ Current.op = "product" /\ Current.role \in Roles
            /\ Step = CopyOut("matmul_output")
  <2>1. CASE Current.op = "mlp" /\ Current.role = "mlp" /\ MlpCall(Current.layer, Step)
    <3>1. Step = CopyOut("output")
      BY <2>1, Kinds DEF MlpCall
    <3> QED
      BY <2>1, <3>1, CopyRanks
  <2>2. CASE /\ Current.op = "product" /\ Current.role \in Roles
             /\ MatmulCall(Current.layer, Current.role, Step)
    <3>1. Step = CopyOut("matmul_output")
      BY <2>2, Kinds DEF MatmulCall
    <3> QED
      BY <2>2, <3>1, CopyRanks
  <2> QED
    BY <2>1, <2>2, RunningCall
<1>2. \A st \in Program(Current) : Rank(st) \in 1 .. 22
  BY MlpProgramOf, MatmulProgramOf DEF Program, Part
<1>3. \A st \in Rest : st = Step
  BY <1>1, <1>2, StepFirst
<1>4. /\ steps \in Seq(Program(Current)) /\ Ranked(steps)
      /\ Step = steps[1] /\ DOMAIN steps = 1 .. Len(steps) /\ Len(steps) \in Nat
      /\ steps' \in Seq(Program(Current)) /\ Len(steps') = Len(steps) - 1
  BY HeadAndTail DEF OrderInv, Step, Advance
<1>5. Len(steps) <= 1
  <2> SUFFICES ASSUME Len(steps) > 1 PROVE FALSE
    BY <1>4
  <2>1. 1 \in DOMAIN steps /\ 2 \in DOMAIN steps
    BY <1>4
  <2>2. Rank(steps[1]) < Rank(steps[2])
    BY <1>4, <2>1 DEF Ranked
  <2>3. steps[2] = Step
    BY <1>3, <2>1 DEF Rest, Elements
  <2> QED
    BY <1>4, <2>2, <2>3, RankIsNumber
<1>6. steps' = <<>>
  <2>1. Len(steps) = 1
    <3>1. steps # <<>>
      OBVIOUS
    <3> QED
      BY <1>4, <1>5, <3>1, EmptySeq
  <2> QED
    BY <1>4, <2>1, EmptySeq
<1>7. \A st \in Program(Current) : st = Step \/ st \in Done
  BY <1>3 DEF Done
<1> QED
  BY <1>1, <1>6, <1>7

(* While no operator is running, only the caches and the last result matter. *)
LEMMA NothingRuns ==
    ASSUME steps' = <<>>
    PROVE  OrderInv' /\ SizeInv' /\ ContentInv'
  BY DEF OrderInv, SizeInv, ContentInv

LEMMA CopyOutKeeps ==
    ASSUME OperatorsInv, CopyOutput
    PROVE  OperatorsInv'
<1> DEFINE l == Current.layer
           r == Current.role
<1>1. /\ TypeInv /\ OrderInv /\ CacheInv /\ ContentInv /\ steps # <<>> /\ Step[1] = "copy_out"
      /\ Advance
  BY DEF OperatorsInv, CopyOutput, Running
<1>2. /\ result' = [op |-> <<Current.op, l, r>>, value |-> Content(Step[2])]
      /\ todo' = Tail(todo) /\ UNCHANGED <<rows, device, recorded>>
  BY DEF CopyOutput
<1>3. /\ steps' = <<>> /\ \A st \in Program(Current) : st = Step \/ st \in Done
      /\ \/ Current.op = "mlp" /\ Step = CopyOut("output")
         \/ Current.op = "product" /\ Step = CopyOut("matmul_output")
  BY <1>1, CopyOutIsLast
<1>4. TypeInv'
  <2>1. Tail(todo) \in Seq(Operators)
    BY <1>1, CurrentKinds
  <2> QED
    BY <1>1, <1>2, <2>1 DEF TypeInv
<1>5. CacheInv'
  BY <1>1, <1>2, CachesAlone
<1>6. OrderInv' /\ SizeInv' /\ ContentInv'
  BY <1>3, NothingRuns
<1>7. /\ result'.op = <<Current.op, l, r>> /\ result'.value = Content(Step[2])
  BY <1>2
<1>8. Done \subseteq Program(Current)
  BY DEF Done
<1>9. MlpComputesItsLayer'
  <2>1. CASE Current.op = "mlp" /\ Step = CopyOut("output")
    <3>1. Program(Current) = MlpProgram(l) /\ MlpContents(l, Done, Values)
      BY <1>1, <2>1 DEF Program, ContentInv
    <3>2. /\ LaunchLinear("down", "up", "output") \in Done
          /\ LaunchBias("output", "down_bias") \in Done <=> UsesBias(l, "down")
      <4>1. /\ LaunchLinear("down", "up", "output") \in MlpProgram(l)
            /\ UsesBias(l, "down") => LaunchBias("output", "down_bias") \in MlpProgram(l)
        BY DEF MlpProgram
      <4>2. LaunchBias("output", "down_bias") \in MlpProgram(l) => UsesBias(l, "down")
        <5>1. MlpCall(l, LaunchBias("output", "down_bias")) => UsesBias(l, "down")
          BY Kinds DEF MlpCall
        <5> QED
          BY <5>1, MlpCalls
      <4>3. /\ LaunchLinear("down", "up", "output") # Step
            /\ LaunchBias("output", "down_bias") # Step
        BY <1>1, Kinds
      <4> QED
        BY <1>3, <1>8, <3>1, <4>1, <4>2, <4>3
    <3>3. Content("output") = ProductOf(l, "down", Gated(l))
      <4>1. Values["output"] = BiasedBy(LaunchBias("output", "down_bias"), Done, l, "down",
                                        Gated(l))
        BY <3>1, <3>2 DEF MlpContents
      <4>2. Values["output"] = Content("output")
        BY ValueIs DEF Buffers, MlpScratch
      <4> QED
        BY <3>2, <4>1, <4>2 DEF BiasedBy, ProductOf, Biased
    <3>4. MlpOf(l) = ProductOf(l, "down", Gated(l))
      BY DEF MlpOf, Gated, Normed
    <3>5. result'.value = MlpOf(l)
      BY <1>7, <2>1, <3>3, <3>4, Kinds
    <3>6. \A k : result'.op = <<"mlp", k, "mlp">> => k = l
      BY <1>7
    <3> QED
      BY <3>5, <3>6 DEF MlpComputesItsLayer, MlpOf, ProductOf, Biased, UsesBias
  <2>2. CASE Current.op = "product"
    <3>1. \A k : result'.op # <<"mlp", k, "mlp">>
      BY <1>7, <2>2
    <3> QED
      BY <3>1 DEF MlpComputesItsLayer
  <2> QED
    BY <1>3, <2>1, <2>2
<1>10. ProductsKeepToTheirTensors'
  <2>1. CASE Current.op = "product" /\ Step = CopyOut("matmul_output")
    <3> DEFINE product == Linear(Weight(l, r), Input)
               linear == LaunchLinear(r, "matmul_input", "matmul_output")
               bias == LaunchBias("matmul_output", "matmul_bias")
    <3>1. Program(Current) = MatmulProgram(l, r) /\ ProductContents(l, r, Done, Values)
      BY <1>1, <2>1 DEF Program, ContentInv
    <3>2. linear \in Done /\ (bias \in Done <=> UsesBias(l, r))
      <4>1. linear \in MatmulProgram(l, r) /\ (UsesBias(l, r) => bias \in MatmulProgram(l, r))
        BY DEF MatmulProgram
      <4>2. bias \in MatmulProgram(l, r) => UsesBias(l, r)
        <5>1. MatmulCall(l, r, bias) => UsesBias(l, r)
          BY Kinds DEF MatmulCall
        <5> QED
          BY <5>1, MatmulCalls
      <4>3. linear # Step /\ bias # Step
        BY <1>1, Kinds
      <4> HIDE DEF linear, bias
      <4> QED
        BY <1>3, <1>8, <3>1, <4>1, <4>2, <4>3
    <3>3. Values["matmul_output"] = Content("matmul_output")
      BY ValueIs DEF Buffers, MatmulScratch
    <3>4. Content("matmul_output") \in {ProductOf(l, r, Input)} \cup
             (IF UsesBias(l, r) THEN {Plus(product, Undefined)} ELSE {})
      <4>1. CASE UsesBias(l, r)
        BY <3>1, <3>2, <3>3, <4>1 DEF ProductContents, ProductOf, Biased
      <4>2. CASE ~UsesBias(l, r)
        BY <3>1, <3>2, <3>3, <4>2 DEF ProductContents, ProductOf, Biased
      <4> QED
        BY <4>1, <4>2
    <3>5. result'.value = Content("matmul_output")
      BY <1>7, <2>1, Kinds
    <3>6. \A k, q : result'.op = <<"product", k, q>> => k = l /\ q = r
      BY <1>7
    <3>7. ASSUME NEW k \in Layers, NEW q \in Roles, result'.op = <<"product", k, q>>
          PROVE  result'.value \in {ProductOf(k, q, Input)} \cup
             (IF UsesBias(k, q) THEN {Plus(Linear(Weight(k, q), Input), Undefined)} ELSE {})
      <4>1. k = l /\ q = r
        BY <3>6, <3>7
      <4> HIDE DEF l, r
      <4> QED
        BY <3>4, <3>5, <4>1
    <3> QED
      BY <3>7 DEF ProductsKeepToTheirTensors
  <2>2. CASE Current.op = "mlp"
    <3>1. \A k, q : result'.op # <<"product", k, q>>
      BY <1>7, <2>2
    <3> QED
      BY <3>1 DEF ProductsKeepToTheirTensors
  <2> QED
    BY <1>3, <2>1, <2>2
<1> QED
  BY <1>4, <1>5, <1>6, <1>9, <1>10 DEF OperatorsInv

-----------------------------------------------------------------------------
(* Device calls that fail. *)
LEMMA ResultKept ==
    ASSUME OperatorsInv, result' = result
    PROVE  MlpComputesItsLayer' /\ ProductsKeepToTheirTensors'
  BY DEF OperatorsInv, MlpComputesItsLayer, ProductsKeepToTheirTensors

LEMMA RestOnCpu ==
    ASSUME TypeInv, todo # <<>>
    PROVE  OnCpuInstead(Current) \in Seq(Operators)
<1>1. Current \in Operators /\ Tail(todo) \in Seq(Operators)
  BY HeadTailProperties DEF TypeInv, Current
<1>2. Current.layer \in Layers
  BY <1>1 DEF Operators, Product, Mlp
<1>3. MlpProducts(Current.layer) \in Seq(Operators)
  BY <1>2, OperatorsOfLayer
<1>4. MlpProducts(Current.layer) \o Tail(todo) \in Seq(Operators)
  BY <1>1, <1>3, ConcatProperties
<1> QED
  BY <1>1, <1>4 DEF OnCpuInstead

LEMMA ThrowKeeps ==
    ASSUME OperatorsInv, steps # <<>>, Throws, IsDevice(device'), CacheInv'
    PROVE  OperatorsInv'
<1>1. /\ steps' = <<>> /\ todo' = OnCpuInstead(Current)
      /\ UNCHANGED <<rows, recorded, result>>
  BY DEF Throws
<1>2. TypeInv /\ todo # <<>>
  BY DEF OperatorsInv, OrderInv
<1>3. TypeInv'
  BY <1>1, <1>2, RestOnCpu DEF TypeInv
<1> QED
  BY <1>1, <1>3, NothingRuns, ResultKept DEF OperatorsInv

(* A buffer that was too small is replaced, or lost. *)
LEMMA ReplacedKeeps ==
    ASSUME TypeInv, OrderInv, CacheInv, steps # <<>>, Step[1] \in {"ensure", "upload"},
           TooSmall(Step[2]), UNCHANGED recorded,
           NEW d, d \in {NoBuffer, Grown(Step[2])}, device' = [device EXCEPT ![Step[2]] = d]
    PROVE  IsDevice(device') /\ CacheInv'
<1> DEFINE b == Step[2]
<1>1. /\ b \in Buffers /\ Size(Current, b) \in Nat
      /\ b \in Caches => /\ Step[1] = "upload"
                         /\ b \in MlpCaches => recorded[b].host = NoTensor
  <2>1. CASE Step[1] = "ensure"
    <3>1. Step = Ensure(b)
      <4>1. CASE MlpCall(Current.layer, Step)
        BY <2>1, <4>1, Kinds DEF MlpCall
      <4>2. CASE MatmulCall(Current.layer, Current.role, Step)
        BY <2>1, <4>2, Kinds DEF MatmulCall
      <4> QED
        BY <4>1, <4>2, RunningCall
    <3>2. Ensure(b) \in Program(Current)
      BY <3>1, NextCall
    <3> QED
      BY <3>2, AskedBuffers
  <2>2. CASE Step[1] = "upload"
    <3>1. "matmul_bias" \notin MlpCaches
      BY DEF MlpCaches
    <3> QED
      BY <2>2, <3>1, RunningUpload
  <2> QED
    BY <2>1, <2>2
<1>2. IsDevice(device)
  BY DEF TypeInv
<1>3. IsBuffer(d) /\ d.content = Undefined
  <2>1. IsBuffer(NoBuffer) /\ NoBuffer.content = Undefined
    BY DEF NoBuffer, IsBuffer
  <2>2. IsBuffer(Grown(b)) /\ Grown(b).content = Undefined
    BY <1>1, <1>2, GrownIsBuffer
  <2> QED
    BY <2>1, <2>2
<1>4. device' = [device EXCEPT ![b] = d]
  OBVIOUS
<1>5. IsDevice(device') /\ device'[b] = d /\ \A a \in Buffers : a # b => device'[a] = device[a]
  BY <1>1, <1>2, <1>3, <1>4, PutBuffer
<1> HIDE DEF b
<1>6. CacheInv'
  <2>1. /\ \A a \in MlpCaches : a \in Caches /\ a \in Buffers
        /\ "matmul_bias" \in Buffers
    BY DEF MlpCaches, Caches, Buffers
  <2>2. ASSUME NEW a \in MlpCaches
        PROVE  \/ recorded'[a].host = NoTensor
               \/ /\ device'[a].bytes >= CacheSize(a) /\ recorded'[a].bytes = CacheSize(a)
                  /\ device'[a].content = recorded'[a].host
    <3>1. CASE a = b
      BY <1>1, <2>1, <3>1
    <3>2. CASE a # b
      <4>1. device'[a] = device[a]
        BY <1>5, <2>1, <3>2
      <4> QED
        BY <4>1 DEF CacheInv, Content
    <3> QED
      BY <3>1, <3>2
  <2>3. device'["matmul_bias"].content \in {recorded'["matmul_bias"].host, Undefined}
    <3>1. CASE b = "matmul_bias"
      BY <1>3, <1>5, <3>1
    <3>2. CASE b # "matmul_bias"
      <4>1. device'["matmul_bias"] = device["matmul_bias"]
        BY <1>5, <2>1, <3>2
      <4> QED
        BY <4>1 DEF CacheInv, Content
    <3> QED
      BY <3>1, <3>2
  <2> QED
    BY <2>2, <2>3 DEF CacheInv, Content
<1> QED
  BY <1>5, <1>6

LEMMA FailureKeeps ==
    ASSUME OperatorsInv, CallFails
    PROVE  OperatorsInv'
<1>1. /\ TypeInv /\ OrderInv /\ CacheInv /\ steps # <<>> /\ Throws
      /\ UNCHANGED recorded /\ IsDevice(device)
  BY DEF OperatorsInv, TypeInv, CallFails, AllocationFails, CopyFails, LaunchFails,
         ProductNotSupported, Throws, Running
<1>2. CASE UNCHANGED device
  BY <1>1, <1>2, CachesAlone, ThrowKeeps
<1>3. CASE /\ Step[1] \in {"ensure", "upload"} /\ TooSmall(Step[2])
           /\ \E d \in {NoBuffer, Grown(Step[2])} : device' = [device EXCEPT ![Step[2]] = d]
  BY <1>1, <1>3, ReplacedKeeps, ThrowKeeps
<1>4. UNCHANGED device \/ /\ Step[1] \in {"ensure", "upload"} /\ TooSmall(Step[2])
                          /\ \E d \in {NoBuffer, Grown(Step[2])} :
                                device' = [device EXCEPT ![Step[2]] = d]
  <2>1. CASE AllocationFails
    BY <2>1 DEF AllocationFails
  <2>2. CASE CopyFails
    BY <2>2 DEF CopyFails, Running
  <2>3. CASE LaunchFails \/ ProductNotSupported
    BY <2>3 DEF LaunchFails, ProductNotSupported
  <2> QED
    BY <2>1, <2>2, <2>3 DEF CallFails
<1> QED
  BY <1>2, <1>3, <1>4

-----------------------------------------------------------------------------
(* The steps between the operators. *)
LEMMA InitHolds ==
    ASSUME Init
    PROVE  OperatorsInv
<1>1. TypeInv
  <2>1. \A b \in Buffers : IsBuffer(NoBuffer)
    BY DEF IsBuffer, NoBuffer
  <2>2. IsDevice(device)
    BY <2>1 DEF Init, IsDevice
  <2>3. <<>> \in Seq(Operators)
    OBVIOUS
  <2> QED
    BY <2>2, <2>3 DEF Init, TypeInv
<1>2. CacheInv
  <2>1. \A c \in Caches : recorded[c].host = NoTensor
    BY DEF Init
  <2>2. MlpCaches \subseteq Caches /\ "matmul_bias" \in Buffers
    BY DEF Caches, Buffers
  <2>3. Content("matmul_bias") = Undefined
    BY <2>2 DEF Init, Content, NoBuffer
  <2> QED
    BY <2>1, <2>2, <2>3 DEF CacheInv
<1>3. OrderInv /\ SizeInv /\ ContentInv
  BY DEF Init, OrderInv, SizeInv, ContentInv
<1>4. MlpComputesItsLayer /\ ProductsKeepToTheirTensors
  <2>1. result.op = <<"none">>
    BY DEF Init, NoTensor
  <2>2. \A l : result.op # <<"mlp", l, "mlp">>
    BY <2>1
  <2>3. \A l, r : result.op # <<"product", l, r>>
    BY <2>1
  <2> QED
    BY <2>2, <2>3 DEF MlpComputesItsLayer, ProductsKeepToTheirTensors
<1> QED
  BY <1>1, <1>2, <1>3, <1>4 DEF OperatorsInv

LEMMA BeginPassKeeps ==
    ASSUME OperatorsInv, BeginPass
    PROVE  OperatorsInv'
<1>1. TypeInv /\ OrderInv /\ CacheInv
  BY DEF OperatorsInv
<1>2. /\ todo = <<>> /\ rows' \in 1 .. MaxRows /\ todo' = PassFrom[1]
      /\ UNCHANGED <<steps, device, recorded, result>>
  BY DEF BeginPass
<1>3. steps = <<>>
  BY <1>1, <1>2 DEF OrderInv
<1>4. TypeInv'
  BY <1>1, <1>2, PassOfOperators, OperatorsAssumption DEF TypeInv
<1>5. CacheInv'
  BY <1>1, <1>2, CachesAlone
<1>6. steps' = <<>> /\ result' = result
  BY <1>2, <1>3
<1> QED
  BY <1>4, <1>5, <1>6, NothingRuns, ResultKept DEF OperatorsInv

LEMMA IdleKeeps ==
    ASSUME OperatorsInv, RunOnCpu \/ \E l \in Layers : AttentionFallsBack(l)
    PROVE  OperatorsInv'
<1>1. TypeInv /\ OrderInv /\ CacheInv
  BY DEF OperatorsInv
<1>2. /\ steps = <<>> /\ UNCHANGED <<rows, steps, device, recorded, result>>
      /\ \/ todo' = todo
         \/ todo # <<>> /\ todo' = OnCpuInstead(Current)
  BY <1>1 DEF RunOnCpu, AttentionFallsBack, OrderInv
<1>3. TypeInv'
  BY <1>1, <1>2, RestOnCpu DEF TypeInv
<1>4. CacheInv'
  BY <1>1, <1>2, CachesAlone
<1>5. steps' = <<>> /\ result' = result
  BY <1>2
<1> QED
  BY <1>3, <1>4, <1>5, NothingRuns, ResultKept DEF OperatorsInv

LEMMA BeginOnDeviceKeeps ==
    ASSUME OperatorsInv, BeginOnDevice
    PROVE  OperatorsInv'
<1>1. TypeInv /\ CacheInv /\ IsDevice(device)
  BY DEF OperatorsInv, TypeInv
<1>2. /\ todo # <<>> /\ UNCHANGED <<rows, todo, recorded>>
      /\ steps' = IF Current.op = "mlp" THEN MlpSteps(Current.layer)
                  ELSE MatmulSteps(Current.layer, Current.role)
      /\ device' = [b \in Buffers |->
                      IF b \in Caches THEN device[b] ELSE [device[b] EXCEPT !.content = Undefined]]
      /\ result' = [op |-> NoTensor, value |-> Undefined]
  BY DEF BeginOnDevice
<1>3. Current' = Current
  BY <1>2 DEF Current
<1>4. IsDevice(device')
  <2>1. \A b \in Buffers : IsBuffer(device[b])
    BY <1>1 DEF IsDevice
  <2>2. ASSUME NEW b \in Buffers PROVE IsBuffer(device'[b])
    <3>1. CASE b \in Caches
      BY <1>2, <2>1, <3>1
    <3>2. CASE b \notin Caches
      <4>1. device'[b] = [device[b] EXCEPT !.content = Undefined]
        BY <1>2, <3>2
      <4>2. device'[b] = [bytes |-> device[b].bytes, content |-> Undefined]
        BY <2>1, <4>1 DEF IsBuffer
      <4>3. device'[b].bytes = device[b].bytes /\ device'[b].content = Undefined
        BY <4>2
      <4>4. device[b].bytes \in Nat
        BY <2>1 DEF IsBuffer
      <4> QED
        BY <4>2, <4>3, <4>4 DEF IsBuffer
    <3> QED
      BY <3>1, <3>2
  <2> QED
    BY <1>2, <2>2 DEF IsDevice
<1>5. CacheInv'
  <2>1. \A c \in Caches : device'[c] = device[c]
    BY <1>2 DEF Buffers
  <2> QED
    BY <1>1, <1>2, <2>1, CachesAlone
<1>6. /\ steps' \in Seq(Program(Current)) /\ Rest' = Program(Current) /\ Ranked(steps')
  <2>1. Part(steps', Program(Current), 1, 22)
    BY <1>2, MlpProgramOf, MatmulProgramOf DEF Program
  <2> QED
    BY <2>1 DEF Part, Rest
<1>7. Program(Current)' = Program(Current)
  BY <1>3 DEF Program, MlpProgram, MatmulProgram
<1>8. Done' = {}
  BY <1>6, <1>7 DEF Done
<1>9. TypeInv'
  BY <1>1, <1>2, <1>4 DEF TypeInv
<1>10. OrderInv'
  BY <1>2, <1>6, <1>7, <1>8 DEF OrderInv
<1>11. SizeInv'
  BY <1>8 DEF SizeInv
<1>12. ContentInv'
  BY <1>8 DEF ContentInv, MlpContents, ProductContents
<1>13. MlpComputesItsLayer' /\ ProductsKeepToTheirTensors'
  <2>1. result'.op = <<"none">>
    BY <1>2 DEF NoTensor
  <2>2. \A l : result'.op # <<"mlp", l, "mlp">>
    BY <2>1
  <2>3. \A l, r : result'.op # <<"product", l, r>>
    BY <2>1
  <2> QED
    BY <2>2, <2>3 DEF MlpComputesItsLayer, ProductsKeepToTheirTensors
<1> QED
  BY <1>5, <1>9, <1>10, <1>11, <1>12, <1>13 DEF OperatorsInv

-----------------------------------------------------------------------------
(* What a kernel or a copy touches has been asked for by an earlier call. *)
LEMMA AskedBefore ==
    ASSUME TypeInv, OrderInv, SizeInv, steps # <<>>,
           NEW b \in Buffers, NEW st \in {Ensure(b), Upload(b)},
           st \in Program(Current), Rank(st) < Rank(Step)
    PROVE  device[b].bytes >= Size(Current, b)
<1>1. st \in Done
  BY StepFirst
<1> QED
  BY <1>1 DEF SizeInv

LEMMA BoundsHold ==
    ASSUME OperatorsInv
    PROVE  LaunchesInBounds
<1> SUFFICES ASSUME steps # <<>>,
                    NEW b \in Touches(Step) \cup
                              (IF Step[1] \in {"copy_in", "copy_out"} THEN {Step[2]} ELSE {})
             PROVE  device[b].bytes >= Size(Current, b)
  BY DEF LaunchesInBounds
<1>1. TypeInv /\ OrderInv /\ SizeInv
  BY DEF OperatorsInv
<1>2. /\ Current.op = "mlp" => Program(Current) = MlpProgram(Current.layer)
      /\ Current.op = "product" => Program(Current) = MatmulProgram(Current.layer, Current.role)
  BY DEF Program
<1> DEFINE Asked(a) == /\ a \in Buffers
                       /\ \E st \in {Ensure(a), Upload(a)} :
                             st \in Program(Current) /\ Rank(st) < Rank(Step)
<1>3. /\ {"input", "norm_out", "up", "gate", "output", "norm_weight", "up_bias", "gate_bias",
          "down_bias", "matmul_input", "matmul_output", "matmul_bias"} \subseteq Buffers
  BY DEF Buffers, MlpScratch, MatmulScratch, Caches, MlpCaches
<1>4. CASE Current.op = "mlp" /\ MlpCall(Current.layer, Step)
  <2>1. /\ \A a \in {"input", "norm_out", "up", "gate", "output"} :
              Ensure(a) \in Program(Current) /\ Rank(Ensure(a)) < 6
        /\ Upload("norm_weight") \in Program(Current) /\ Rank(Upload("norm_weight")) = 7
    BY <1>2, <1>4, EnsureRanks, UploadRanks DEF MlpProgram
  <2>2. CASE Step[1] \in {"ensure", "upload", "weight"}
    BY <2>2 DEF Touches
  <2>3. CASE Step = CopyIn("input")
    <3>1. b = "input" /\ Rank(Step) = 6
      BY <2>3, Kinds, CopyRanks DEF Touches
    <3> QED
      BY <1>1, <1>3, <2>1, <3>1, AskedBefore
  <2>4. CASE Step = LaunchNorm
    <3>1. b \in {"input", "norm_weight", "norm_out"} /\ Rank(Step) = 8
      BY <2>4, Kinds, LaunchRanks DEF Touches
    <3>2. \E st \in {Ensure(b), Upload(b)} : st \in Program(Current) /\ Rank(st) < Rank(Step)
      BY <2>1, <3>1, RankIsNumber
    <3> QED
      BY <1>1, <1>3, <3>1, <3>2, AskedBefore
  <2>5. CASE \/ Step = LaunchLinear("up", "norm_out", "up")
             \/ Step = LaunchLinear("gate", "norm_out", "gate")
             \/ Step = LaunchLinear("down", "up", "output")
    <3>1. b \in {"norm_out", "up", "gate", "output"} /\ Rank(Step) >= 12
      BY <2>5, Kinds, LaunchRanks DEF Touches
    <3>2. \E st \in {Ensure(b), Upload(b)} : st \in Program(Current) /\ Rank(st) < Rank(Step)
      BY <2>1, <3>1, RankIsNumber
    <3> QED
      BY <1>1, <1>3, <3>1, <3>2, AskedBefore
  <2>6. CASE Step = LaunchSilu
    <3>1. b \in {"up", "gate"} /\ Rank(Step) = 19
      BY <2>6, Kinds, LaunchRanks DEF Touches
    <3>2. \E st \in {Ensure(b), Upload(b)} : st \in Program(Current) /\ Rank(st) < Rank(Step)
      BY <2>1, <3>1, RankIsNumber
    <3> QED
      BY <1>1, <1>3, <3>1, <3>2, AskedBefore
  <2>7. CASE \/ UsesBias(Current.layer, "up") /\ Step = LaunchBias("up", "up_bias")
             \/ UsesBias(Current.layer, "gate") /\ Step = LaunchBias("gate", "gate_bias")
             \/ UsesBias(Current.layer, "down") /\ Step = LaunchBias("output", "down_bias")
    <3>1. /\ Rank(Step) >= 17
          /\ \/ b \in {"up", "gate", "output"}
             \/ UsesBias(Current.layer, "up") /\ b = "up_bias"
             \/ UsesBias(Current.layer, "gate") /\ b = "gate_bias"
             \/ UsesBias(Current.layer, "down") /\ b = "down_bias"
      BY <2>7, Kinds, LaunchRanks DEF Touches
    <3>2. b \in Buffers
      BY <1>3, <3>1
    <3>3. \/ b \in {"up", "gate", "output"}
          \/ Upload(b) \in Program(Current) /\ Rank(Upload(b)) <= 16
      BY <1>2, <1>4, <3>1, UploadRanks DEF MlpProgram
    <3>4. \E st \in {Ensure(b), Upload(b)} : st \in Program(Current) /\ Rank(st) < Rank(Step)
      BY <2>1, <3>1, <3>3, RankIsNumber
    <3> QED
      BY <1>1, <3>2, <3>4, AskedBefore
  <2>8. CASE Step = CopyOut("output")
    <3>1. b = "output" /\ Rank(Step) = 22
      BY <2>8, Kinds, CopyRanks DEF Touches
    <3>2. \E st \in {Ensure(b), Upload(b)} : st \in Program(Current) /\ Rank(st) < Rank(Step)
      BY <2>1, <3>1, RankIsNumber
    <3> QED
      BY <1>1, <1>3, <3>1, <3>2, AskedBefore
  <2> QED
    BY <1>4, <2>2, <2>3, <2>4, <2>5, <2>6, <2>7, <2>8, Kinds DEF MlpCall
<1>5. CASE Current.op = "product" /\ MatmulCall(Current.layer, Current.role, Step)
  <2>1. /\ \A a \in {"matmul_input", "matmul_output"} :
              Ensure(a) \in Program(Current) /\ Rank(Ensure(a)) < 6
        /\ UsesBias(Current.layer, Current.role) =>
              Upload("matmul_bias") \in Program(Current) /\ Rank(Upload("matmul_bias")) = 16
    BY <1>2, <1>5, EnsureRanks, UploadRanks DEF MatmulProgram
  <2>2. CASE Step[1] \in {"ensure", "upload", "weight"}
    BY <2>2 DEF Touches
  <2>3. CASE \/ Step = CopyIn("matmul_input") \/ Step = CopyOut("matmul_output")
             \/ Step = LaunchLinear(Current.role, "matmul_input", "matmul_output")
    <3>1. b \in {"matmul_input", "matmul_output"} /\ Rank(Step) >= 6
      BY <2>3, Kinds, CopyRanks, LaunchRanks DEF Touches
    <3>2. \E st \in {Ensure(b), Upload(b)} : st \in Program(Current) /\ Rank(st) < Rank(Step)
      BY <2>1, <3>1, RankIsNumber
    <3> QED
      BY <1>1, <1>3, <3>1, <3>2, AskedBefore
  <2>4. CASE /\ UsesBias(Current.layer, Current.role)
             /\ Step = LaunchBias("matmul_output", "matmul_bias")
    <3>1. b \in {"matmul_bias", "matmul_output"} /\ Rank(Step) = 21
      BY <2>4, Kinds, LaunchRanks DEF Touches
    <3>2. \E st \in {Ensure(b), Upload(b)} : st \in Program(Current) /\ Rank(st) < Rank(Step)
      BY <2>1, <2>4, <3>1, RankIsNumber
    <3> QED
      BY <1>1, <1>3, <3>1, <3>2, AskedBefore
  <2> QED
    BY <1>5, <2>2, <2>3, <2>4, Kinds DEF MatmulCall
<1> QED
  BY <1>1, <1>4, <1>5, RunningCall

-----------------------------------------------------------------------------
LEMMA StutterKeeps ==
    ASSUME OperatorsInv, UNCHANGED vars
    PROVE  OperatorsInv'
<1>1. /\ TypeInv /\ OrderInv /\ CacheInv /\ SizeInv /\ ContentInv
      /\ UNCHANGED <<rows, todo, steps, device, recorded, result>>
  BY DEF OperatorsInv, vars
<1>2. TypeInv' /\ CacheInv'
  BY <1>1 DEF TypeInv, CacheInv, Content
<1>3. /\ Current' = Current /\ Rest' = Rest /\ Values' = Values
      /\ Program(Current)' = Program(Current)
  BY <1>1 DEF Current, Rest, Values, Content, Program, MlpProgram, MatmulProgram
<1>4. Done' = Done
  BY <1>3 DEF Done
<1>5. OrderInv'
  BY <1>1, <1>3, <1>4 DEF OrderInv
<1>6. SizeInv'
  <2>1. \A b : Size(Current, b)' = Size(Current, b)
    BY <1>1, <1>3 DEF Size
  <2> QED
    BY <1>1, <1>4, <2>1 DEF SizeInv
<1>7. ContentInv'
  <2>1. /\ MlpContents(Current.layer, Done, Values)'
              <=> MlpContents(Current'.layer, Done', Values')
        /\ ProductContents(Current.layer, Current.role, Done, Values)'
              <=> ProductContents(Current'.layer, Current'.role, Done', Values')
    BY DEF MlpContents, ProductContents, TensorOf
  <2> QED
    BY <1>1, <1>3, <1>4, <2>1 DEF ContentInv
<1> QED
  BY <1>1, <1>2, <1>5, <1>6, <1>7, ResultKept DEF OperatorsInv

LEMMA OperatorsInvariant == Spec => []OperatorsInv
<1>1. Init => OperatorsInv
  BY InitHolds
<1>2. OperatorsInv /\ [Next]_vars => OperatorsInv'
  <2> SUFFICES ASSUME OperatorsInv, [Next]_vars PROVE OperatorsInv'
    OBVIOUS
  <2>1. CASE BeginPass
    BY <2>1, BeginPassKeeps
  <2>2. CASE RunOnCpu \/ \E l \in Layers : AttentionFallsBack(l)
    BY <2>2, IdleKeeps
  <2>3. CASE BeginOnDevice
    BY <2>3, BeginOnDeviceKeeps
  <2>4. CASE EnsureBuffer
    BY <2>4, EnsureKeeps
  <2>5. CASE CopyInput
    BY <2>5, CopyInKeeps
  <2>6. CASE UploadTensor
    BY <2>6, UploadKeeps
  <2>7. CASE GetOrUploadWeight
    BY <2>7, WeightKeeps
  <2>8. CASE LaunchKernel
    BY <2>8, LaunchKeeps
  <2>9. CASE CopyOutput
    BY <2>9, CopyOutKeeps
  <2>10. CASE CallFails
    BY <2>10, FailureKeeps
  <2>11. CASE UNCHANGED vars
    BY <2>11, StutterKeeps
  <2> QED
    BY <2>1, <2>2, <2>3, <2>4, <2>5, <2>6, <2>7, <2>8, <2>9, <2>10, <2>11 DEF Next
<1> QED
  BY <1>1, <1>2, PTL DEF Spec

(* The MLP computes its own layer's function, whatever has failed before and whichever layers
   have used its buffers and upload caches (src/src/cuda/ops/mlp.cu). *)
THEOREM MlpKeepsToItsLayer == Spec => []MlpComputesItsLayer
  BY OperatorsInvariant, PTL DEF OperatorsInv

(* matmul_3d uses no tensor of another product: at worst it adds memory nobody has written in
   place of its bias (maybe_add_bias in src/src/cuda/ops/matmul.cu). *)
THEOREM ProductsKeepTensors == Spec => []ProductsKeepToTheirTensors
  BY OperatorsInvariant, PTL DEF OperatorsInv

(* No kernel and no copy is given a buffer that is too small or gone. *)
THEOREM CallsInBounds == Spec => []LaunchesInBounds
  BY OperatorsInvariant, BoundsHold, PTL

=============================================================================
