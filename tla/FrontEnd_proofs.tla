--------------------------- MODULE FrontEnd_proofs ---------------------------
(***************************************************************************)
(* What the sampler draws, for every vocabulary, every weights and every   *)
(* parameter the command line lets through: the candidates are a smallest  *)
(* set of heaviest tokens, each is drawn by its weight, and a token        *)
(* without any is not drawn.  Then what a command line says, word after    *)
(* word, and how the prompts of file, command line and user reach the      *)
(* model, line after line.  Last the tokenizer: which id the pad token has *)
(* and that a text is cut at its special tokens, for all files and texts.  *)
(***************************************************************************)
EXTENDS FrontEnd, Tokenizer,
        SequenceTheorems, FiniteSetTheorems, WellFoundedInduction, TLAPS

(* Every set of naturals with an element has a least one. *)
LEMMA LeastElement ==
    ASSUME NEW T, T \subseteq Nat, T # {}
    PROVE  \E x \in T : \A y \in T : x <= y
<1>1. PICK less : less = OpToRel(<, Nat)
  OBVIOUS
<1>2. IsWellFoundedOn(less, Nat)
  BY <1>1, NatLessThanWellFounded
<1>3. PICK x \in T : \A y \in T : <<y, x>> \notin less
  BY <1>2, WFMin
<1>4. ASSUME NEW y \in T
      PROVE  ~(y < x)
  BY <1>1, <1>3, <<y, x>> \in Nat \X Nat DEF OpToRel
<1> HIDE <1>1, <1>2, <1>3
<1>5. \A y \in T : x \in Nat /\ y \in Nat /\ ~(y < x)
  BY <1>4
<1> QED
  BY <1>5

-----------------------------------------------------------------------------
(* Sums.  They are functions defined by recursion: one exists because it
   exists up to 0 and can be continued by one. *)
IsSum(sum, g, n) ==
    sum = [i \in 0 .. n |-> IF i = 0 THEN 0 ELSE sum[i - 1] + g[i]]

LEMMA SumContinued ==
    ASSUME NEW g, NEW n \in Nat, NEW f, IsSum(f, g, n)
    PROVE  \E h : IsSum(h, g, n + 1)
<1> DEFINE Longer == f[n] + g[n + 1]
           h == [i \in 0 .. n + 1 |-> IF i <= n THEN f[i] ELSE Longer]
           Value(i) == IF i = 0 THEN 0 ELSE h[i - 1] + g[i]
<1>1. ASSUME NEW i \in 0 .. n + 1
      PROVE  h[i] = Value(i)
  <2>1. CASE i = 0
    BY <2>1 DEF IsSum
  <2>2. CASE i \in 1 .. n
    <3>1. h[i] = f[i] /\ h[i - 1] = f[i - 1] /\ i \in 0 .. n /\ i # 0
      BY <2>2
    <3>2. f[i] = f[i - 1] + g[i]
      BY <3>1 DEF IsSum
    <3> HIDE DEF h
    <3> QED
      BY <3>1, <3>2
  <2>3. CASE i = n + 1
    <3>1. h[i] = Longer /\ h[i - 1] = f[n] /\ i # 0
      BY <2>3
    <3> HIDE DEF h
    <3> QED
      BY <2>3, <3>1
  <2> QED
    BY <2>1, <2>2, <2>3
<1>2. h = [i \in 0 .. n + 1 |-> h[i]]
  OBVIOUS
<1> HIDE DEF h
<1>3. h = [i \in 0 .. n + 1 |-> Value(i)]
  BY <1>1, <1>2
<1> QED
  BY <1>3 DEF IsSum

LEMMA SumExists ==
    ASSUME NEW g, NEW n \in Nat
    PROVE  \E sum : IsSum(sum, g, n)
<1> DEFINE T == {m \in Nat : ~\E sum : IsSum(sum, g, m)}
<1>1. SUFFICES ASSUME T # {}
               PROVE  FALSE
  OBVIOUS
<1>2. PICK m \in T : \A k \in T : m <= k
  BY <1>1, LeastElement
<1>3. CASE m = 0
  <2>1. IsSum([i \in 0 .. 0 |-> 0], g, 0)
    BY DEF IsSum
  <2> QED
    BY <1>2, <1>3, <2>1
<1>4. CASE m > 0
  <2>1. m - 1 \in Nat /\ m - 1 \notin T
    BY <1>2, <1>4
  <2>2. PICK f : IsSum(f, g, m - 1)
    BY <2>1
  <2>3. \E h : IsSum(h, g, m - 1 + 1)
    BY <2>1, <2>2, SumContinued
  <2> QED
    BY <1>2, <2>3
<1> QED
  BY <1>2, <1>3, <1>4

(* What a sum is, step by step. *)
Adds(sum, g, n) == sum[0] = 0 /\ \A i \in 1 .. n : sum[i] = sum[i - 1] + g[i]

LEMMA SumAdds ==
    ASSUME NEW n \in Nat, NEW sum, NEW g, IsSum(sum, g, n)
    PROVE  Adds(sum, g, n)
<1>1. sum[0] = 0
  BY DEF IsSum
<1>2. ASSUME NEW i \in 1 .. n
      PROVE  sum[i] = sum[i - 1] + g[i]
  <2>1. i \in 0 .. n /\ i # 0
    OBVIOUS
  <2> QED
    BY <2>1 DEF IsSum
<1> QED
  BY <1>1, <1>2 DEF Adds

(* Sums of naturals are naturals and grow. *)
LEMMA SumsNat ==
    ASSUME NEW n \in Nat, NEW sum, NEW g, Adds(sum, g, n), \A i \in 1 .. n : g[i] \in Nat,
           NEW i \in 0 .. n
    PROVE  sum[i] \in Nat
<1> DEFINE T == {j \in 0 .. n : sum[j] \notin Nat}
<1>1. SUFFICES ASSUME T # {}
               PROVE  FALSE
  OBVIOUS
<1>2. PICK m \in T : \A k \in T : m <= k
  BY <1>1, LeastElement, T \subseteq Nat
<1>3. m # 0
  BY <1>2 DEF Adds
<1>4. m \in 1 .. n /\ m - 1 \in 0 .. n /\ m - 1 \notin T
  BY <1>2, <1>3
<1>5. sum[m] = sum[m - 1] + g[m] /\ sum[m - 1] \in Nat /\ g[m] \in Nat
  BY <1>4 DEF Adds
<1> QED
  BY <1>2, <1>5

LEMMA SumsGrow ==
    ASSUME NEW n \in Nat, NEW sum, NEW g, Adds(sum, g, n), \A k \in 1 .. n : g[k] \in Nat,
           NEW i \in 0 .. n, NEW j \in 0 .. n, i <= j
    PROVE  sum[i] <= sum[j]
<1> DEFINE T == {k \in i .. n : ~(sum[i] <= sum[k])}
<1>1. SUFFICES ASSUME T # {}
               PROVE  FALSE
  OBVIOUS
<1>2. PICK m \in T : \A k \in T : m <= k
  BY <1>1, LeastElement, T \subseteq Nat
<1>3. sum[i] \in Nat /\ sum[m] \in Nat
  BY <1>2, SumsNat
<1>4. m # i
  BY <1>2, <1>3
<1>5. m \in 1 .. n /\ m - 1 \in i .. n /\ m - 1 \in 0 .. n /\ m - 1 \notin T
  BY <1>2, <1>4
<1>6. sum[m] = sum[m - 1] + g[m] /\ sum[m - 1] \in Nat /\ g[m] \in Nat
  BY <1>5, SumsNat DEF Adds
<1>7. sum[i] <= sum[m - 1]
  BY <1>5
<1> QED
  BY <1>2, <1>3, <1>6, <1>7

(* Sums of the same numbers are the same. *)
LEMMA SumsSame ==
    ASSUME NEW n \in Nat, NEW f, NEW g, NEW a, NEW b, Adds(f, a, n), Adds(g, b, n),
           \A i \in 1 .. n : a[i] = b[i],
           NEW i \in 0 .. n
    PROVE  f[i] = g[i]
<1> DEFINE T == {j \in 0 .. n : f[j] # g[j]}
<1>1. SUFFICES ASSUME T # {}
               PROVE  FALSE
  OBVIOUS
<1>2. PICK m \in T : \A k \in T : m <= k
  BY <1>1, LeastElement, T \subseteq Nat
<1>3. m # 0
  BY <1>2 DEF Adds
<1>4. m \in 1 .. n /\ m - 1 \in 0 .. n /\ m - 1 \notin T
  BY <1>2, <1>3
<1>5. f[m] = f[m - 1] + a[m] /\ g[m] = g[m - 1] + b[m] /\ f[m - 1] = g[m - 1] /\ a[m] = b[m]
  BY <1>4 DEF Adds
<1> QED
  BY <1>2, <1>5

-----------------------------------------------------------------------------
(* The weights of the first candidates, and the weight of a set of tokens. *)
Along(w, s) == [i \in 1 .. Len(s) |-> w[s[i]]]

LEMMA CumulativeAdds ==
    ASSUME NEW w, NEW s, Len(s) \in Nat
    PROVE  Adds(Cumulative(w, s), Along(w, s), Len(s))
<1> DEFINE n == Len(s)
           Is(f) == f = [i \in 0 .. n |-> IF i = 0 THEN 0 ELSE f[i - 1] + w[s[i]]]
           C == Cumulative(w, s)
<1>1. C = CHOOSE f : Is(f)
  BY DEF Cumulative
<1>2. PICK f : IsSum(f, Along(w, s), n)
  BY SumExists
<1>3. f = [i \in 0 .. n |-> IF i = 0 THEN 0 ELSE f[i - 1] + Along(w, s)[i]]
  BY <1>2 DEF IsSum
<1>4. \A i \in 0 .. n : i # 0 => Along(w, s)[i] = w[s[i]]
  BY DEF Along
<1>5. Is(f)
  <2> DEFINE L(i) == IF i = 0 THEN 0 ELSE f[i - 1] + Along(w, s)[i]
             R(i) == IF i = 0 THEN 0 ELSE f[i - 1] + w[s[i]]
  <2>1. \A i \in 0 .. n : L(i) = R(i)
    BY <1>4
  <2>2. f = [i \in 0 .. n |-> L(i)]
    BY <1>3
  <2> HIDE DEF L, R
  <2>3. f = [i \in 0 .. n |-> R(i)]
    BY <2>1, <2>2
  <2> QED
    BY <2>3 DEF R
<1> HIDE DEF Is
<1>6. Is(C)
  BY <1>1, <1>5
<1> HIDE DEF C
<1>7. C[0] = 0
  BY <1>6 DEF Is
<1>8. ASSUME NEW i \in 1 .. n
      PROVE  C[i] = C[i - 1] + Along(w, s)[i]
  <2>1. i \in 0 .. n /\ i # 0
    OBVIOUS
  <2>2. C[i] = C[i - 1] + w[s[i]]
    BY <1>6, <2>1 DEF Is
  <2> QED
    BY <2>1, <2>2, <1>4
<1> QED
  BY <1>7, <1>8 DEF Adds, C

Weigh == [Tokens -> Nat]

LEMMA CumulativeNat ==
    ASSUME NEW w \in Weigh, NEW s \in Seq(Tokens)
    PROVE  /\ Len(s) \in Nat
           /\ Cumulative(w, s)[0] = 0
           /\ \A i \in 1 .. Len(s) :
                 s[i] \in Tokens /\ Cumulative(w, s)[i] = Cumulative(w, s)[i - 1] + w[s[i]]
           /\ \A i \in 0 .. Len(s) : Cumulative(w, s)[i] \in Nat
           /\ \A i, j \in 0 .. Len(s) : i <= j => Cumulative(w, s)[i] <= Cumulative(w, s)[j]
<1> DEFINE C == Cumulative(w, s)
           g == Along(w, s)
<1>1. Len(s) \in Nat
  BY LenProperties
<1>2. Adds(C, g, Len(s))
  BY <1>1, CumulativeAdds
<1>3. \A i \in 1 .. Len(s) : s[i] \in Tokens /\ g[i] = w[s[i]] /\ g[i] \in Nat
  BY ElementOfSeq DEF Along, Weigh
<1> HIDE DEF C, g
<1>4. \A i \in 0 .. Len(s) : C[i] \in Nat
  BY <1>1, <1>2, <1>3, SumsNat
<1>5. \A i, j \in 0 .. Len(s) : i <= j => C[i] <= C[j]
  BY <1>1, <1>2, <1>3, SumsGrow
<1>6. C[0] = 0 /\ \A i \in 1 .. Len(s) : C[i] = C[i - 1] + w[s[i]]
  BY <1>2, <1>3 DEF Adds
<1> QED
  BY <1>1, <1>3, <1>4, <1>5, <1>6 DEF C

(* WeightOf with the weights as an argument, and with its partial sums. *)
InSet(w, S) == [n \in 1 .. VocabSize |-> IF n - 1 \in S THEN w[n - 1] ELSE 0]
PartWeights(w, S) ==
    LET sum[n \in 0 .. VocabSize] ==
          IF n = 0 THEN 0 ELSE sum[n - 1] + (IF n - 1 \in S THEN w[n - 1] ELSE 0)
    IN sum
WeightIn(w, S) == PartWeights(w, S)[VocabSize]

LEMMA WeightsAdd ==
    ASSUME NEW w, NEW S
    PROVE  Adds(PartWeights(w, S), InSet(w, S), VocabSize)
<1> DEFINE n == VocabSize
           Is(f) == f = [i \in 0 .. n |->
                            IF i = 0 THEN 0 ELSE f[i - 1] + (IF i - 1 \in S THEN w[i - 1] ELSE 0)]
           C == PartWeights(w, S)
<1>1. C = CHOOSE f : Is(f)
  BY DEF PartWeights
<1> n \in Nat
  BY SamplerAssumption
<1>2. PICK f : IsSum(f, InSet(w, S), n)
  BY SumExists
<1>3. f = [i \in 0 .. n |-> IF i = 0 THEN 0 ELSE f[i - 1] + InSet(w, S)[i]]
  BY <1>2 DEF IsSum
<1>4. \A i \in 0 .. n : i # 0 => InSet(w, S)[i] = IF i - 1 \in S THEN w[i - 1] ELSE 0
  BY DEF InSet
<1>5. Is(f)
  <2> DEFINE L(i) == IF i = 0 THEN 0 ELSE f[i - 1] + InSet(w, S)[i]
             R(i) == IF i = 0 THEN 0 ELSE f[i - 1] + (IF i - 1 \in S THEN w[i - 1] ELSE 0)
  <2>1. \A i \in 0 .. n : L(i) = R(i)
    BY <1>4
  <2>2. f = [i \in 0 .. n |-> L(i)]
    BY <1>3
  <2> HIDE DEF L, R
  <2>3. f = [i \in 0 .. n |-> R(i)]
    BY <2>1, <2>2
  <2> QED
    BY <2>3 DEF R
<1> HIDE DEF Is
<1>6. Is(C)
  BY <1>1, <1>5
<1> HIDE DEF C
<1>7. C[0] = 0
  BY <1>6 DEF Is
<1>8. ASSUME NEW i \in 1 .. n
      PROVE  C[i] = C[i - 1] + InSet(w, S)[i]
  <2>1. i \in 0 .. n /\ i # 0
    OBVIOUS
  <2>2. C[i] = C[i - 1] + (IF i - 1 \in S THEN w[i - 1] ELSE 0)
    BY <1>6, <2>1 DEF Is
  <2> QED
    BY <2>1, <2>2, <1>4
<1> QED
  BY <1>7, <1>8 DEF Adds, C

LEMMA WeightsNat ==
    ASSUME NEW w \in Weigh, NEW S
    PROVE  /\ \A n \in 0 .. VocabSize : PartWeights(w, S)[n] \in Nat
           /\ \A n \in 1 .. VocabSize : InSet(w, S)[n] = IF n - 1 \in S THEN w[n - 1] ELSE 0
           /\ WeightIn(w, S) \in Nat
<1>1. VocabSize \in Nat
  BY SamplerAssumption
<1>2. \A n \in 1 .. VocabSize : InSet(w, S)[n] = IF n - 1 \in S THEN w[n - 1] ELSE 0
  BY DEF InSet
<1>3. \A n \in 1 .. VocabSize : InSet(w, S)[n] \in Nat
  <2> TAKE n \in 1 .. VocabSize
  <2>1. n - 1 \in Tokens
    BY <1>1 DEF Tokens
  <2>2. w[n - 1] \in Nat
    BY <2>1 DEF Weigh
  <2> QED
    BY <1>2, <2>2
<1>4. \A n \in 0 .. VocabSize : PartWeights(w, S)[n] \in Nat
  BY <1>1, <1>3, WeightsAdd, SumsNat
<1> QED
  BY <1>1, <1>2, <1>4 DEF WeightIn

LEMMA WeightAdded ==
    ASSUME NEW w \in Weigh, NEW S, NEW t \in Tokens, t \notin S
    PROVE  WeightIn(w, S \cup {t}) = WeightIn(w, S) + w[t]
<1> DEFINE f == PartWeights(w, S)
           h == PartWeights(w, S \cup {t})
           a == InSet(w, S)
           b == InSet(w, S \cup {t})
           V == VocabSize
           x == w[t]
           More(n) == IF t < n THEN x ELSE 0
           T == {n \in 0 .. V : h[n] # f[n] + More(n)}
<1>1. /\ V \in Nat /\ t \in 0 .. V - 1 /\ x \in Nat
      /\ Adds(f, a, V) /\ Adds(h, b, V)
      /\ \A n \in 0 .. V : f[n] \in Nat
  BY SamplerAssumption, WeightsAdd, WeightsNat DEF Tokens, Weigh
<1>2. \A n \in 1 .. V : a[n] = IF n - 1 \in S THEN w[n - 1] ELSE 0
  BY DEF InSet
<1>3. \A n \in 1 .. V : b[n] = IF n - 1 \in S \cup {t} THEN w[n - 1] ELSE 0
  BY DEF InSet
<1>4. \A n \in 1 .. V : n - 1 # t => b[n] = a[n]
  BY <1>2, <1>3
<1>5. \A n \in 1 .. V : n - 1 = t => b[n] = x /\ a[n] = 0
  BY <1>2, <1>3
<1>6. \A n \in 1 .. V : a[n] \in Nat
  <2> TAKE n \in 1 .. V
  <2>1. n - 1 \in Tokens
    BY <1>1 DEF Tokens
  <2>2. w[n - 1] \in Nat
    BY <2>1 DEF Weigh
  <2> QED
    BY <1>2, <2>2
<1> HIDE DEF f, h, a, b, V, x
<1>7. T = {}
  <2> SUFFICES ASSUME T # {}
               PROVE  FALSE
    OBVIOUS
  <2>1. PICK m \in T : \A k \in T : m <= k
    BY LeastElement, T \subseteq Nat
  <2>2. m # 0
    BY <2>1, <1>1 DEF Adds
  <2>3. m \in 1 .. V /\ m - 1 \in 0 .. V /\ m - 1 \notin T
    <3>1. m \in Nat /\ m \in 1 .. V /\ m - 1 \in 0 .. V /\ ~(m <= m - 1)
      BY <2>1, <2>2, <1>1
    <3> HIDE DEF T
    <3> QED
      BY <2>1, <3>1
  <2>4. /\ f[m] = f[m - 1] + a[m] /\ h[m] = h[m - 1] + b[m]
        /\ h[m - 1] = f[m - 1] + More(m - 1) /\ f[m - 1] \in Nat /\ a[m] \in Nat
    BY <2>3, <1>1, <1>6 DEF Adds
  <2>5. CASE m - 1 = t
    <3>1. More(m - 1) = 0 /\ More(m) = x /\ b[m] = x /\ a[m] = 0
      BY <2>5, <2>3, <1>1, <1>5
    <3> QED
      BY <3>1, <2>4, <2>1, <1>1
  <2>6. CASE m - 1 # t
    <3>1. More(m - 1) = More(m) /\ b[m] = a[m] /\ More(m) \in Nat
      BY <2>6, <2>3, <1>1, <1>4
    <3> HIDE DEF More
    <3>2. h[m] = f[m] + More(m)
      BY <3>1, <2>4
    <3> QED
      BY <3>2, <2>1
  <2> QED
    BY <2>5, <2>6
<1>8. V \in 0 .. V /\ More(V) = x
  BY <1>1
<1>9. h[V] = f[V] + x
  BY <1>7, <1>8
<1> QED
  BY <1>9 DEF WeightIn, h, f, V, x

LEMMA WeightOfNone ==
    ASSUME NEW w \in Weigh
    PROVE  WeightIn(w, {}) = 0
<1> DEFINE f == PartWeights(w, {})
           a == InSet(w, {})
           V == VocabSize
           T == {n \in 0 .. V : f[n] # 0}
<1>1. V \in Nat /\ Adds(f, a, V)
  BY SamplerAssumption, WeightsAdd
<1>2. \A n \in 1 .. V : a[n] = 0
  BY DEF InSet
<1> HIDE DEF f, a, V
<1>3. T = {}
  <2> SUFFICES ASSUME T # {}
               PROVE  FALSE
    OBVIOUS
  <2>1. PICK m \in T : \A k \in T : m <= k
    BY LeastElement, T \subseteq Nat
  <2>2. m # 0
    BY <2>1, <1>1 DEF Adds
  <2>3. m \in 1 .. V /\ m - 1 \in 0 .. V /\ m - 1 \notin T
    <3>1. m \in Nat /\ m \in 1 .. V /\ m - 1 \in 0 .. V /\ ~(m <= m - 1)
      BY <2>1, <2>2, <1>1
    <3> HIDE DEF T
    <3> QED
      BY <2>1, <3>1
  <2> QED
    BY <2>1, <2>3, <1>1, <1>2 DEF Adds
<1> QED
  BY <1>1, <1>3 DEF WeightIn, f, V

(* A token counts once: the weights of distinct candidates, added up in their
   order, are the weight of the set they form. *)
Distinct(c) == \A i, j \in 1 .. Len(c) : c[i] = c[j] => i = j
First(c, n) == {c[i] : i \in 1 .. n}

LEMMA WeightOfFirst ==
    ASSUME NEW w \in Weigh, NEW c \in Seq(Tokens), Distinct(c), NEW n \in 0 .. Len(c)
    PROVE  WeightIn(w, First(c, n)) = Cumulative(w, c)[n]
<1> DEFINE C == Cumulative(w, c)
           W(i) == WeightIn(w, First(c, i))
           L == Len(c)
           T == {i \in 0 .. L : W(i) # C[i]}
<1>1. /\ L \in Nat /\ C[0] = 0
      /\ \A i \in 1 .. L : c[i] \in Tokens /\ C[i] = C[i - 1] + w[c[i]]
  BY CumulativeNat
<1>2. W(0) = 0
  <2>1. First(c, 0) = {}
    BY DEF First
  <2> QED
    BY <2>1, WeightOfNone
<1>3. ASSUME NEW i \in 1 .. L
      PROVE  W(i) = W(i - 1) + w[c[i]]
  <2>1. 1 .. i = (1 .. i - 1) \cup {i} /\ i \notin 1 .. i - 1
    OBVIOUS
  <2>2. First(c, i) = First(c, i - 1) \cup {c[i]}
    BY <2>1 DEF First
  <2>3. c[i] \notin First(c, i - 1)
    <3>1. ASSUME NEW j \in 1 .. i - 1, c[j] = c[i]
          PROVE  FALSE
      BY <3>1, <1>1 DEF Distinct
    <3> QED
      BY <3>1 DEF First
  <2>4. c[i] \in Tokens
    BY <1>1
  <2> QED
    BY <2>2, <2>3, <2>4, WeightAdded
<1> HIDE DEF C, W, L
<1>4. T = {}
  <2> SUFFICES ASSUME T # {}
               PROVE  FALSE
    OBVIOUS
  <2>1. PICK m \in T : \A k \in T : m <= k
    BY LeastElement, T \subseteq Nat
  <2>2. m # 0
    BY <2>1, <1>1, <1>2
  <2>3. m \in 1 .. L /\ m - 1 \in 0 .. L /\ m - 1 \notin T
    BY <2>1, <2>2, <1>1
  <2>4. W(m - 1) = C[m - 1]
    BY <2>3
  <2>5. C[m] = C[m - 1] + w[c[m]]
    BY <2>3, <1>1
  <2>6. W(m) = W(m - 1) + w[c[m]]
    BY <2>3, <1>3
  <2> QED
    BY <2>1, <2>4, <2>5, <2>6
<1>5. n \in 0 .. L
  BY DEF L
<1> QED
  BY <1>4, <1>5 DEF W, C

-----------------------------------------------------------------------------
(* The candidates.  They are a cut: the first of the tokens, sorted by weight. *)
Sorted(w, c) == \A i, j \in 1 .. Len(c) : i <= j => w[c[i]] >= w[c[j]]
AboveRest(w, S) == \A t \in S, u \in Tokens \ S : w[t] >= w[u]
Cut(w, c) ==
    /\ c \in Seq(Tokens) /\ Distinct(c) /\ Sorted(w, c)
    /\ AboveRest(w, First(c, Len(c)))

LEMMA CutTyped ==
    ASSUME NEW w \in Weigh, NEW c, Cut(w, c)
    PROVE  /\ c \in Seq(Tokens) /\ Distinct(c) /\ Sorted(w, c)
           /\ Len(c) \in Nat /\ DOMAIN c = 1 .. Len(c)
           /\ \A i \in 1 .. Len(c) : c[i] \in Tokens /\ w[c[i]] \in Nat
  BY LenProperties, ElementOfSeq DEF Cut, Weigh

(* The first n of distinct candidates are n tokens. *)
LEMMA FirstCounted ==
    ASSUME NEW c \in Seq(Tokens), Distinct(c), NEW n \in 0 .. Len(c)
    PROVE  Cardinality(First(c, n)) = n /\ First(c, n) \subseteq Tokens
<1> DEFINE f == [i \in 1 .. n |-> c[i]]
<1>1. /\ Len(c) \in Nat /\ n \in Nat
      /\ \A i \in 1 .. n : i \in 1 .. Len(c) /\ c[i] \in Tokens
  BY LenProperties, ElementOfSeq
<1>2. f \in Injection(1 .. n, First(c, n))
  <2>1. f \in [1 .. n -> First(c, n)]
    BY DEF First
  <2>2. ASSUME NEW i \in 1 .. n, NEW j \in 1 .. n, f[i] = f[j]
        PROVE  i = j
    BY <1>1, <2>2 DEF Distinct
  <2> QED
    BY <2>1, <2>2 DEF Injection, IsInjective
<1>3. f \in Surjection(1 .. n, First(c, n))
  <2>1. f \in [1 .. n -> First(c, n)]
    BY DEF First
  <2>2. \A t \in First(c, n) : \E i \in 1 .. n : f[i] = t
    BY DEF First
  <2> QED
    BY <2>1, <2>2 DEF Surjection
<1>4. ExistsBijection(1 .. n, First(c, n))
  BY <1>2, <1>3 DEF ExistsBijection, Bijection
<1>5. First(c, n) \subseteq Tokens
  BY <1>1 DEF First
<1> QED
  BY <1>1, <1>4, <1>5, FS_CountingElements

(* Every token has its place in the order: VocabSize distinct tokens are all. *)
LEMMA OrderIsCut ==
    ASSUME NEW w \in Weigh, NEW s \in Descending(w)
    PROVE  Cut(w, s) /\ Len(s) = VocabSize
<1> DEFINE V == VocabSize
<1>1. V \in Nat /\ s \in [1 .. V -> Tokens]
  BY SamplerAssumption DEF Descending
<1>2. s \in Seq(Tokens) /\ Len(s) = V
  BY <1>1, SeqDef
<1>3. Distinct(s)
  BY <1>2 DEF Distinct, Descending
<1>4. Sorted(w, s)
  <2> SUFFICES ASSUME NEW i \in 1 .. V, NEW j \in 1 .. V, i <= j
               PROVE  w[s[i]] >= w[s[j]]
    BY <1>2 DEF Sorted
  <2>1. CASE i < j
    BY <2>1 DEF Descending
  <2>2. CASE i = j
    <3>1. w[s[i]] \in Nat
      BY <1>1 DEF Weigh
    <3> QED
      BY <2>2, <3>1
  <2> QED
    BY <1>1, <2>1, <2>2
<1>5. First(s, V) = Tokens
  <2>1. Cardinality(First(s, V)) = V /\ First(s, V) \subseteq Tokens
    BY <1>1, <1>2, <1>3, FirstCounted
  <2>2. IsFiniteSet(Tokens) /\ Cardinality(Tokens) = V
    BY SamplerAssumption, FS_Interval DEF Tokens
  <2> QED
    BY <2>1, <2>2, FS_Subset
<1>6. AboveRest(w, First(s, V))
  BY <1>5 DEF AboveRest
<1> QED
  BY <1>2, <1>3, <1>4, <1>6 DEF Cut

(* The first n candidates of a cut are a cut; their weights add up as before. *)
LEMMA CutShortened ==
    ASSUME NEW w \in Weigh, NEW c, Cut(w, c), NEW n \in 0 .. Len(c)
    PROVE  LET d == SubSeq(c, 1, n) IN
           /\ Cut(w, d) /\ Len(d) = n
           /\ \A i \in 1 .. n : d[i] = c[i]
           /\ \A i \in 0 .. n : Cumulative(w, d)[i] = Cumulative(w, c)[i]
           /\ First(d, n) = First(c, n)
<1> DEFINE d == SubSeq(c, 1, n)
           L == Len(c)
<1>1. /\ c \in Seq(Tokens) /\ Distinct(c) /\ Sorted(w, c) /\ L \in Nat
      /\ \A i \in 1 .. L : c[i] \in Tokens /\ w[c[i]] \in Nat
  BY CutTyped
<1>2. /\ d \in Seq(Tokens) /\ Len(d) = n
      /\ \A i \in 1 .. n : d[i] = c[i]
  <2>1. \A i \in 1 .. n : c[i] \in Tokens
    BY <1>1
  <2>2. n \in Int /\ n \in Nat /\ 1 \in Int
    BY <1>1
  <2>3. /\ d \in Seq(Tokens)
        /\ Len(d) = IF 1 <= n THEN n - 1 + 1 ELSE 0
        /\ \A i \in 1 .. n - 1 + 1 : d[i] = c[1 + i - 1]
    BY <2>1, <2>2, SubSeqProperties
  <2> HIDE DEF d
  <2> QED
    BY <2>2, <2>3
<1> HIDE DEF d
<1>3. n \in Nat /\ 1 .. n \subseteq 1 .. L
  BY <1>1
<1>4. Distinct(d)
  BY <1>1, <1>2, <1>3 DEF Distinct
<1>5. Sorted(w, d)
  BY <1>1, <1>2, <1>3 DEF Sorted
<1>6. First(d, n) = First(c, n)
  BY <1>2 DEF First
<1>7. AboveRest(w, First(c, n))
  <2> SUFFICES ASSUME NEW i \in 1 .. n, NEW u \in Tokens, u \notin First(c, n)
               PROVE  w[c[i]] >= w[u]
    BY DEF AboveRest, First
  <2>1. CASE u \in First(c, L)
    <3>1. PICK j \in 1 .. L : u = c[j]
      BY <2>1 DEF First
    <3>2. j \notin 1 .. n
      BY <3>1 DEF First
    <3>3. i \in 1 .. L /\ i <= j
      BY <1>1, <1>3, <3>2
    <3> QED
      BY <1>1, <3>1, <3>3 DEF Sorted
  <2>2. CASE u \notin First(c, L)
    <3>1. c[i] \in First(c, L)
      BY <1>3 DEF First
    <3> QED
      BY <2>2, <3>1 DEF Cut, AboveRest
  <2> QED
    BY <2>1, <2>2
<1>8. \A i \in 0 .. n : Cumulative(w, d)[i] = Cumulative(w, c)[i]
  <2>1. Adds(Cumulative(w, d), Along(w, d), n)
    BY <1>2, <1>3, CumulativeAdds
  <2>2. Adds(Cumulative(w, c), Along(w, c), n)
    <3>1. Adds(Cumulative(w, c), Along(w, c), L)
      BY <1>1, CumulativeAdds
    <3> QED
      BY <1>3, <3>1 DEF Adds
  <2>3. \A i \in 1 .. n : Along(w, d)[i] = Along(w, c)[i]
    BY <1>2, <1>3 DEF Along
  <2> QED
    BY <1>3, <2>1, <2>2, <2>3, SumsSame
<1> QED
  BY <1>2, <1>4, <1>5, <1>6, <1>7, <1>8 DEF Cut, d

-----------------------------------------------------------------------------
(* Top-k and top-p shorten the order to a prefix. *)
AllowedBy(k) == IF k \in 1 .. VocabSize THEN k ELSE VocabSize

LEMMA TopKIsPrefix ==
    ASSUME NEW w \in Weigh, NEW s \in Descending(w), NEW k \in Int
    PROVE  /\ AllowedBy(k) \in 1 .. VocabSize
           /\ TopK(s, k) = SubSeq(s, 1, AllowedBy(k))
<1>1. VocabSize \in Nat \ {0} /\ Len(s) = VocabSize /\ s \in Seq(Tokens)
  BY SamplerAssumption, OrderIsCut DEF Cut
<1>2. SubSeq(s, 1, Len(s)) = s
  BY <1>1, SubSeqFull
<1>3. CASE k > 0 /\ k < VocabSize
  BY <1>1, <1>3 DEF TopK, AllowedBy
<1>4. CASE ~(k > 0 /\ k < VocabSize)
  <2>1. AllowedBy(k) = VocabSize
    BY <1>1, <1>4 DEF AllowedBy
  <2>2. TopK(s, k) = s
    BY <1>1, <1>4 DEF TopK
  <2> QED
    BY <1>1, <1>2, <2>1, <2>2
<1> QED
  BY <1>3, <1>4

LEMMA ShareOfTotal ==
    ASSUME NEW p \in Int, NEW x \in Nat, p > 0, p < Unit, x > 0
    PROVE  Unit * x >= p * x /\ p * x > 0 /\ p * x \in Int
<1>1. Unit = 100
  BY DEF Unit
<1>2. (Unit - p) * x > 0 /\ (Unit - p) * x = Unit * x - p * x
  BY <1>1
<1>3. p * x > 0 /\ p * x \in Int /\ Unit * x \in Int
  BY <1>1
<1> QED
  BY <1>2, <1>3

(* How many of the candidates top-p keeps: the least number that has the share. *)
Reaches(w, c, p, m) == Unit * Cumulative(w, c)[m] >= p * Total(w, c)
LeastReaching(w, c, p, m) ==
    /\ m \in 1 .. Len(c) /\ Reaches(w, c, p, m)
    /\ \A i \in 1 .. Len(c) : Reaches(w, c, p, i) => m <= i

LEMMA TopPIsPrefix ==
    ASSUME NEW w \in Weigh, NEW c, Cut(w, c), Total(w, c) > 0,
           NEW p \in Int, p > 0, Below(p, Unit)
    PROVE  \E m \in 1 .. Len(c) :
              LeastReaching(w, c, p, m) /\ TopP(w, c, p) = SubSeq(c, 1, m)
<1> DEFINE L == Len(c)
           C == Cumulative(w, c)
           total == Total(w, c)
           reached == {i \in DOMAIN c : Unit * C[i] >= p * total}
           least == CHOOSE i \in reached : \A j \in reached : i <= j
<1>1. /\ c \in Seq(Tokens) /\ L \in Nat /\ DOMAIN c = 1 .. L
      /\ C[0] = 0 /\ \A i \in 0 .. L : C[i] \in Nat
  BY CutTyped, CumulativeNat
<1>2. total = C[L] /\ total \in Nat /\ total > 0
  BY <1>1 DEF Total
<1>3. L # 0
  BY <1>1, <1>2
<1>4. p < Unit /\ NaN \notin {0, p, Unit}
  BY DEF Below, NaN, Unit
<1>5. Unit * total >= p * total
  BY <1>2, <1>4, ShareOfTotal
<1>6. L \in reached
  BY <1>1, <1>2, <1>3, <1>5
<1>7. reached \subseteq Nat
  BY <1>1
<1>8. TopP(w, c, p) = SubSeq(c, 1, least)
  BY <1>4 DEF TopP, Below
<1>9. \A i \in DOMAIN c : i \in reached <=> Reaches(w, c, p, i)
  BY DEF Reaches
<1>10. reached \subseteq DOMAIN c
  OBVIOUS
<1> HIDE DEF reached
<1>11. \E i \in reached : \A j \in reached : i <= j
  BY <1>6, <1>7, LeastElement
<1>12. least \in reached /\ \A j \in reached : least <= j
  BY <1>11
<1> HIDE DEF least
<1>13. LeastReaching(w, c, p, least)
  BY <1>1, <1>9, <1>10, <1>12 DEF LeastReaching
<1> QED
  BY <1>8, <1>13 DEF LeastReaching

LEMMA TopPKeepsAll ==
    ASSUME NEW w, NEW c, NEW p, ~ Below(p, Unit)
    PROVE  TopP(w, c, p) = c
  BY DEF TopP

(* The candidates, as prefixes of the order: the first m of the Allowed first. *)
PrefixOf(w, s, k, p, m) ==
    LET c == SubSeq(s, 1, AllowedBy(k)) IN
    IF Below(p, Unit) THEN LeastReaching(w, c, p, m) ELSE m = AllowedBy(k)

LEMMA CandidatesArePrefix ==
    ASSUME NEW w \in Weigh, NEW s \in Descending(w), NEW k \in Int,
           NEW p \in Int, p > 0, Candidates(w, s, k, p) # <<>>
    PROVE  /\ Total(w, SubSeq(s, 1, AllowedBy(k))) > 0
           /\ \E m \in 1 .. AllowedBy(k) :
                 /\ PrefixOf(w, s, k, p, m)
                 /\ Candidates(w, s, k, p) = SubSeq(SubSeq(s, 1, AllowedBy(k)), 1, m)
<1> DEFINE A == AllowedBy(k)
           c == SubSeq(s, 1, A)
<1>1. A \in 1 .. VocabSize /\ TopK(s, k) = c
  BY TopKIsPrefix
<1>2. Cut(w, s) /\ Len(s) = VocabSize /\ VocabSize \in Nat
  BY OrderIsCut, SamplerAssumption
<1>3. A \in 0 .. Len(s)
  BY <1>1, <1>2
<1> HIDE DEF A
<1>4. Cut(w, c) /\ Len(c) = A /\ c \in Seq(Tokens)
  BY <1>2, <1>3, CutShortened DEF Cut
<1> HIDE DEF c
<1>5. Candidates(w, s, k, p) = TopP(w, c, p) /\ Total(w, c) # 0
  BY <1>1 DEF Candidates
<1>6. Total(w, c) \in Nat
  BY <1>4, CumulativeNat DEF Total
<1>7. CASE Below(p, Unit)
  <2>1. PICK m \in 1 .. Len(c) : LeastReaching(w, c, p, m) /\ TopP(w, c, p) = SubSeq(c, 1, m)
    BY <1>4, <1>5, <1>6, <1>7, TopPIsPrefix
  <2> QED
    BY <1>4, <1>5, <1>6, <1>7, <2>1 DEF PrefixOf, c, A
<1>8. CASE ~ Below(p, Unit)
  <2>1. TopP(w, c, p) = c
    BY <1>8, TopPKeepsAll
  <2>2. c = SubSeq(c, 1, A)
    BY <1>4, SubSeqFull
  <2>3. A \in 1 .. A
    BY <1>1
  <2> QED
    BY <1>5, <1>6, <1>8, <2>1, <2>2, <2>3 DEF PrefixOf, c, A
<1> QED
  BY <1>7, <1>8

-----------------------------------------------------------------------------
(* The first m of a cut that reach the share p do so no longer without their
   lightest. *)
LEMMA PrefixIsSmallest ==
    ASSUME NEW w \in Weigh, NEW c, Cut(w, c), Total(w, c) > 0,
           NEW p \in Int, p > 0, NEW m \in 1 .. Len(c), LeastReaching(w, c, p, m)
    PROVE  /\ Unit * WeightIn(w, First(c, m)) >= p * WeightIn(w, First(c, Len(c)))
           /\ \A t \in First(c, m) : (\A u \in First(c, m) : w[t] <= w[u]) =>
                 Unit * WeightIn(w, First(c, m) \ {t}) < p * WeightIn(w, First(c, Len(c)))
<1> DEFINE L == Len(c)
           C == Cumulative(w, c)
           N == First(c, m)
           total == Total(w, c)
<1>1. /\ c \in Seq(Tokens) /\ Distinct(c) /\ Sorted(w, c) /\ L \in Nat
      /\ \A i \in 1 .. L : c[i] \in Tokens /\ w[c[i]] \in Nat
      /\ C[0] = 0 /\ \A i \in 0 .. L : C[i] \in Nat
      /\ \A i \in 1 .. L : C[i] = C[i - 1] + w[c[i]]
  BY CutTyped, CumulativeNat
<1>2. m \in 0 .. L /\ L \in 0 .. L /\ m \in Nat /\ m - 1 \in 0 .. L
  BY <1>1
<1>3. WeightIn(w, N) = C[m] /\ WeightIn(w, First(c, L)) = C[L] /\ total = C[L]
  BY <1>1, <1>2, WeightOfFirst DEF Total
<1>4. Unit * C[m] >= p * total
  BY DEF LeastReaching, Reaches
<1>5. ASSUME NEW t \in N, \A u \in N : w[t] <= w[u]
      PROVE  WeightIn(w, N \ {t}) = C[m - 1]
  <2>1. PICK i \in 1 .. m : t = c[i]
    BY DEF First
  <2>2. c[m] \in N /\ i \in 1 .. L /\ m \in 1 .. L /\ i <= m
    BY <1>2, <2>1 DEF First
  <2>3. w[c[m]] <= w[t]
    BY <1>1, <2>1, <2>2 DEF Sorted
  <2>4. w[t] <= w[c[m]]
    BY <1>5, <2>2
  <2>5. w[t] = w[c[m]] /\ t \in Tokens
    <3>1. t \in Tokens /\ w[t] \in Nat /\ w[c[m]] \in Nat
      BY <1>1, <2>1, <2>2
    <3> HIDE DEF N, C, L
    <3> QED
      BY <2>3, <2>4, <3>1
  <2>6. (N \ {t}) \cup {t} = N /\ t \notin N \ {t}
    OBVIOUS
  <2> DEFINE rest == WeightIn(w, N \ {t})
  <2>7. WeightIn(w, N) = rest + w[t]
    BY <2>5, <2>6, WeightAdded
  <2>8. rest \in Nat
    BY WeightsNat
  <2>9. WeightIn(w, N) = C[m]
    BY <1>3
  <2> HIDE DEF N, C
  <2>10. C[m] = C[m - 1] + w[c[m]] /\ C[m - 1] \in Nat /\ w[c[m]] \in Nat
    BY <1>1, <1>2, <2>2
  <2> HIDE DEF rest
  <2>11. rest = C[m - 1]
    BY <2>5, <2>7, <2>8, <2>9, <2>10
  <2> QED
    BY <2>11 DEF rest
<1>6. Unit * C[m - 1] < p * total
  <2>1. total \in Nat /\ total > 0 /\ p * total \in Int /\ p * total > 0
    <3>1. total \in Nat /\ total > 0
      BY <1>1, <1>2, <1>3
    <3> HIDE DEF total
    <3> QED
      BY <3>1
  <2>2. CASE m = 1
    <3>1. Unit * C[m - 1] = 0
      BY <1>1, <2>2 DEF Unit
    <3> QED
      BY <2>1, <3>1
  <2>3. CASE m # 1
    <3>1. m - 1 \in 1 .. L /\ ~(m <= m - 1)
      BY <1>2, <2>3
    <3>2. ~(Unit * C[m - 1] >= p * total)
      BY <3>1 DEF LeastReaching, Reaches
    <3>3. Unit * C[m - 1] \in Int
      BY <1>1, <1>2 DEF Unit
    <3> HIDE DEF C, total
    <3> QED
      BY <2>1, <3>2, <3>3
  <2> QED
    BY <2>2, <2>3
<1> QED
  BY <1>3, <1>4, <1>5, <1>6

(* r falls to the first candidate whose weights, added up, it does not exceed. *)
LEMMA PickFirst ==
    ASSUME NEW w \in Weigh, NEW c, Cut(w, c), c # <<>>,
           NEW r \in 0 .. Total(w, c)
    PROVE  \E i \in 1 .. Len(c) :
              /\ Pick(w, c, r) = c[i] /\ r <= Cumulative(w, c)[i]
              /\ \A j \in 1 .. Len(c) : r <= Cumulative(w, c)[j] => i <= j
<1> DEFINE L == Len(c)
           C == Cumulative(w, c)
           covers == {i \in DOMAIN c : r <= C[i]}
           least == CHOOSE i \in covers : \A j \in covers : i <= j
<1>1. /\ c \in Seq(Tokens) /\ L \in Nat /\ DOMAIN c = 1 .. L
      /\ \A i \in 0 .. L : C[i] \in Nat
  BY CutTyped, CumulativeNat
<1>2. L # 0
  BY <1>1, EmptySeq
<1>3. L \in covers
  BY <1>1, <1>2 DEF Total
<1>4. covers \subseteq Nat /\ covers \subseteq 1 .. L
  BY <1>1
<1>5. \A i \in 1 .. L : r <= C[i] => i \in covers
  BY <1>1
<1>6. \A i \in covers : r <= C[i]
  OBVIOUS
<1>7. Pick(w, c, r) = IF covers = {} THEN Last(c) ELSE c[least]
  BY DEF Pick
<1> HIDE DEF covers, C
<1>8. \E i \in covers : \A j \in covers : i <= j
  BY <1>3, <1>4, LeastElement
<1>9. least \in covers /\ \A j \in covers : least <= j
  BY <1>8
<1> HIDE DEF least
<1>10. Pick(w, c, r) = c[least]
  BY <1>3, <1>7
<1> QED
  BY <1>4, <1>5, <1>6, <1>9, <1>10 DEF C

(* The numbers that fall to the i-th candidate. *)
LEMMA PickedBetween ==
    ASSUME NEW w \in Weigh, NEW c, Cut(w, c), NEW i \in 1 .. Len(c),
           NEW r \in 1 .. Total(w, c)
    PROVE  Pick(w, c, r) = c[i] <=> r \in Cumulative(w, c)[i - 1] + 1 .. Cumulative(w, c)[i]
<1> DEFINE L == Len(c)
           C == Cumulative(w, c)
<1>1. /\ Distinct(c) /\ L \in Nat /\ c \in Seq(Tokens) /\ C[0] = 0
      /\ \A j \in 0 .. L : C[j] \in Nat
      /\ \A j, k \in 0 .. L : j <= k => C[j] <= C[k]
  BY CutTyped, CumulativeNat
<1>2. Total(w, c) \in Nat /\ r \in 0 .. Total(w, c) /\ r \in Int /\ r >= 1
  BY <1>1 DEF Total
<1>3. c # <<>>
  BY <1>1, EmptySeq
<1>4. PICK k \in 1 .. L : /\ Pick(w, c, r) = c[k] /\ r <= C[k]
                          /\ \A j \in 1 .. L : r <= C[j] => k <= j
  BY <1>2, <1>3, PickFirst
<1> HIDE DEF C
<1>5. /\ i \in Int /\ i - 1 \in 0 .. L /\ i \in 0 .. L /\ k \in Int
      /\ C[i] \in Nat /\ C[i - 1] \in Nat
  BY <1>1
<1>6. ASSUME k = i
      PROVE  r \in C[i - 1] + 1 .. C[i]
  <2>1. CASE i = 1
    BY <1>1, <1>2, <1>4, <1>5, <1>6, <2>1
  <2>2. CASE i # 1
    <3>1. i - 1 \in 1 .. L /\ ~(k <= i - 1)
      BY <1>5, <1>6, <2>2
    <3>2. ~(r <= C[i - 1])
      BY <1>4, <3>1
    <3> QED
      BY <1>2, <1>4, <1>5, <1>6, <3>2
  <2> QED
    BY <2>1, <2>2
<1>7. ASSUME r \in C[i - 1] + 1 .. C[i]
      PROVE  k = i
  <2>1. k <= i
    BY <1>4, <1>5, <1>7
  <2>2. SUFFICES ASSUME k <= i - 1
                 PROVE  FALSE
    BY <1>5, <2>1
  <2>3. C[k] <= C[i - 1] /\ C[k] \in Nat
    BY <1>1, <1>5, <2>2
  <2> QED
    BY <1>2, <1>4, <1>5, <1>7, <2>3
<1> QED
  BY <1>1, <1>4, <1>6, <1>7 DEF Distinct, C

(* As many numbers as it weighs fall to a candidate. *)
Drawn(w, c) == [r \in 1 .. Total(w, c) |-> Pick(w, c, r)]
FallingTo(w, c, t) == {r \in 1 .. Total(w, c) : Drawn(w, c)[r] = t}

LEMMA DrawnByWeight ==
    ASSUME NEW w \in Weigh, NEW c, Cut(w, c), NEW i \in 1 .. Len(c)
    PROVE  Cardinality(FallingTo(w, c, c[i])) = w[c[i]]
<1> DEFINE L == Len(c)
           C == Cumulative(w, c)
           total == Total(w, c)
           drawn == Drawn(w, c)
           low == C[i - 1]
           high == C[i]
<1>1. /\ L \in Nat /\ low \in Nat /\ high \in Nat /\ total \in Nat
      /\ low <= high /\ high <= total /\ high = low + w[c[i]] /\ w[c[i]] \in Nat
  BY CutTyped, CumulativeNat DEF Total
<1>2. \A r \in 1 .. total : drawn[r] = c[i] <=> r \in low + 1 .. high
  BY PickedBetween DEF Drawn
<1> HIDE DEF low, high, total, drawn
<1>3. {r \in 1 .. total : drawn[r] = c[i]} = low + 1 .. high
  <2>1. \A r : r \in low + 1 .. high => r \in 1 .. total
    BY <1>1
  <2> QED
    BY <1>2, <2>1
<1>4. Cardinality(low + 1 .. high) = IF low + 1 > high THEN 0 ELSE high - (low + 1) + 1
  <2>1. low + 1 \in Int /\ high \in Int
    BY <1>1
  <2> QED
    BY <2>1, FS_Interval
<1>5. Cardinality(low + 1 .. high) = w[c[i]]
  BY <1>1, <1>4
<1> QED
  BY <1>3, <1>5 DEF total, drawn, FallingTo

(* Where anything weighs, the heaviest does. *)
LEMMA HeaviestWeighs ==
    ASSUME NEW w \in Weigh, NEW c, Cut(w, c), Total(w, c) > 0
    PROVE  c # <<>> /\ 1 \in 1 .. Len(c) /\ w[c[1]] > 0
<1> DEFINE L == Len(c)
           C == Cumulative(w, c)
           T == {i \in 0 .. L : C[i] > 0}
<1>1. /\ c \in Seq(Tokens) /\ L \in Nat /\ Sorted(w, c) /\ C[0] = 0
      /\ \A i \in 1 .. L : w[c[i]] \in Nat /\ C[i] = C[i - 1] + w[c[i]]
      /\ \A i \in 0 .. L : C[i] \in Nat
  BY CutTyped, CumulativeNat
<1>2. L \in T
  BY <1>1 DEF Total
<1> HIDE DEF C
<1>3. PICK m \in T : \A k \in T : m <= k
  BY <1>1, <1>2, LeastElement, T \subseteq Nat
<1>4. m \in Nat /\ m # 0 /\ m \in 1 .. L /\ m - 1 \in 0 .. L /\ ~(m <= m - 1)
  BY <1>1, <1>3
<1>5. ~(C[m - 1] > 0)
  BY <1>3, <1>4
<1>6. C[m - 1] = 0 /\ C[m] > 0
  BY <1>1, <1>3, <1>4, <1>5
<1>7. w[c[m]] > 0
  BY <1>1, <1>4, <1>6
<1>8. 1 \in 1 .. L /\ w[c[1]] \in Nat /\ w[c[m]] \in Nat /\ w[c[1]] >= w[c[m]]
  BY <1>1, <1>4 DEF Sorted
<1> QED
  BY <1>1, <1>7, <1>8, EmptySeq

(* No number falls to a token that weighs nothing. *)
LEMMA PickedWeighs ==
    ASSUME NEW w \in Weigh, NEW c, Cut(w, c), Total(w, c) > 0,
           NEW r \in 0 .. Total(w, c)
    PROVE  Pick(w, c, r) \in Tokens /\ w[Pick(w, c, r)] > 0
<1> DEFINE L == Len(c)
           C == Cumulative(w, c)
<1>1. c # <<>> /\ 1 \in 1 .. L /\ w[c[1]] > 0
  BY HeaviestWeighs
<1>2. /\ L \in Nat /\ C[0] = 0 /\ C[L] = Total(w, c)
      /\ \A i \in 1 .. L : c[i] \in Tokens /\ w[c[i]] \in Nat /\ C[i] = C[i - 1] + w[c[i]]
      /\ \A i \in 0 .. L : C[i] \in Nat
  BY CutTyped, CumulativeNat DEF Total
<1>3. PICK k \in 1 .. L : /\ Pick(w, c, r) = c[k] /\ r <= C[k]
                          /\ \A j \in 1 .. L : r <= C[j] => k <= j
  BY <1>1, PickFirst
<1> HIDE DEF C, L
<1>4. CASE k = 1
  BY <1>1, <1>2, <1>3, <1>4
<1>5. CASE k # 1
  <2>1. k \in Int /\ k - 1 \in 1 .. L /\ k - 1 \in 0 .. L /\ ~(k <= k - 1)
    BY <1>2, <1>5
  <2>2. ~(r <= C[k - 1])
    BY <1>3, <2>1
  <2>3. r \in Int /\ C[k - 1] \in Nat /\ w[c[k]] \in Nat /\ C[k] = C[k - 1] + w[c[k]]
    BY <1>2, <2>1
  <2>4. w[c[k]] > 0
    BY <1>3, <2>2, <2>3
  <2> QED
    BY <1>2, <1>3, <2>4
<1> QED
  BY <1>4, <1>5

(* The greedy choice: the first of the heaviest exists. *)
LEMMA GreedyIsHeaviest ==
    ASSUME NEW w \in Weigh
    PROVE  Greedy(w) \in Tokens /\ \A u \in Tokens : w[u] <= w[Greedy(w)]
<1> DEFINE Is(t) == \A u \in Tokens : w[u] < w[t] \/ (w[u] = w[t] /\ t <= u)
           Beats(n) == \E t \in Tokens : w[t] = n
           Above(n) == \A u \in Tokens : w[u] <= n
           Bounds == {n \in Nat : Above(n)}
<1>1. VocabSize \in Nat \ {0} /\ Tokens \subseteq Nat /\ 0 \in Tokens
  BY SamplerAssumption DEF Tokens
<1>2. \A u \in Tokens : w[u] \in Nat
  BY DEF Weigh
<1>3. Bounds # {}
  <2> DEFINE W == WeightIn(w, Tokens)
  <2>1. \A u \in Tokens : w[u] <= W
    <3> TAKE u \in Tokens
    <3>1. (Tokens \ {u}) \cup {u} = Tokens /\ u \notin Tokens \ {u}
      OBVIOUS
    <3>2. W = WeightIn(w, Tokens \ {u}) + w[u]
      BY <3>1, WeightAdded
    <3>3. WeightIn(w, Tokens \ {u}) \in Nat /\ w[u] \in Nat
      BY <1>2, WeightsNat
    <3> HIDE DEF W
    <3> QED
      BY <3>2, <3>3
  <2>2. W \in Nat
    BY WeightsNat
  <2> QED
    BY <2>1, <2>2
<1>4. PICK n \in Bounds : \A k \in Bounds : n <= k
  BY <1>3, LeastElement, Bounds \subseteq Nat
<1>5. \E t \in Tokens : w[t] = n
  <2>1. SUFFICES ASSUME \A t \in Tokens : w[t] # n
                 PROVE  FALSE
    OBVIOUS
  <2>2. n \in Nat /\ \A t \in Tokens : w[t] <= n - 1
    BY <1>2, <1>4, <2>1
  <2>3. n - 1 \in Nat
    BY <1>1, <1>2, <2>2
  <2>4. n - 1 \in Bounds
    BY <2>2, <2>3
  <2> QED
    BY <1>4, <2>2, <2>4
<1> DEFINE Top == {t \in Tokens : w[t] = n}
<1>6. PICK t \in Top : \A u \in Top : t <= u
  BY <1>1, <1>5, LeastElement, Top \subseteq Nat
<1>7. Is(t) /\ t \in Tokens
  BY <1>1, <1>2, <1>4, <1>6
<1>8. Greedy(w) = CHOOSE x \in Tokens : Is(x)
  BY DEF Greedy
<1> HIDE DEF Is
<1>9. Greedy(w) \in Tokens /\ Is(Greedy(w))
  BY <1>7, <1>8
<1> QED
  BY <1>2, <1>9 DEF Is

-----------------------------------------------------------------------------
(* The inductive invariant.  The options are sound whatever the command line
   says, so the parameters of the sampler are: that is what the proofs about
   the draw need of the front end. *)
Words == AllWords \cup {""}
SoundOptions(o) ==
    /\ o \in [numbers : [IntegerOptions \cup FloatOptions -> Int], flags : SUBSET Flags,
              prompt_file : Words, prompt : Words]
    /\ o.numbers["--temperature"] \in Temperatures /\ o.numbers["--temperature"] > 0
    /\ o.numbers["--top-p"] > 0

ParsingInv == argv \in Seq(AllWords) /\ SoundOptions(options)

SoundParams(p) ==
    /\ p.temperature \in Temperatures /\ p.temperature \in Int /\ p.temperature > 0
    /\ p.top_p \in Int /\ p.top_p > 0 /\ p.top_k \in Int

WeightsTyped == phase \in {"drawing", "sampled"} => weights \in [Tokens -> Weights]

(* The candidates come from some order of the weights, and there are some. *)
DrawingInv ==
    phase = "drawing" =>
        \E order \in Descending(Adjustment) :
            /\ candidates = Candidates(Adjustment, order, params.top_k, params.top_p)
            /\ candidates # <<>>

IInv == /\ ParsingInv /\ SoundParams(params)
        /\ WeightsTyped /\ DrawingInv /\ ImpossibleNeverSampled

-----------------------------------------------------------------------------
LEMMA DefaultsSound == SoundOptions(Defaults)
<1> DEFINE Options == IntegerOptions \cup FloatOptions
<1>1. Defaults.numbers \in [Options -> Int]
  BY DEF Defaults, IntegerOptions, FloatOptions
<1>2. Defaults = [numbers |-> Defaults.numbers, flags |-> {}, prompt_file |-> "",
                  prompt |-> ""]
  BY DEF Defaults
<1>3. Defaults.numbers["--temperature"] = 80 /\ Defaults.numbers["--top-p"] = 95
  BY DEF Defaults, IntegerOptions, FloatOptions
<1>4. Defaults.numbers["--temperature"] \in Temperatures
  BY DEF Temperatures
<1>5. Defaults \in [numbers : [Options -> Int], flags : SUBSET Flags,
                    prompt_file : Words, prompt : Words]
  <2> HIDE DEF Options
  <2>1. "" \in Words /\ {} \in SUBSET Flags
    BY DEF Words
  <2>2. \A n \in [Options -> Int] :
          [numbers |-> n, flags |-> {}, prompt_file |-> "", prompt |-> ""]
            \in [numbers : [Options -> Int], flags : SUBSET Flags,
                prompt_file : Words, prompt : Words]
    BY <2>1
  <2> QED
    BY <1>1, <1>2, <2>2
<1> QED
  BY <1>3, <1>4, <1>5 DEF SoundOptions

LEMMA ParamsSound ==
    ASSUME NEW o, SoundOptions(o)
    PROVE  SoundParams(ParamsOf(o))
<1>1. o.numbers \in [IntegerOptions \cup FloatOptions -> Int]
  BY DEF SoundOptions
<1>2. /\ "--temperature" \in IntegerOptions \cup FloatOptions
      /\ "--top-p" \in IntegerOptions \cup FloatOptions
      /\ "--top-k" \in IntegerOptions \cup FloatOptions
  BY DEF IntegerOptions, FloatOptions
<1> QED
  BY <1>1, <1>2 DEF SoundOptions, SoundParams, ParamsOf

LEMMA WordsTyped == \A words \in Argvs : words \in Seq(AllWords)
<1>1. ASSUME NEW words \in Argvs
      PROVE  words \in Seq(ToSet(words)) /\ ToSet(words) \subseteq AllWords
  <2>1. words \in Seq(STRING)
    BY FrontEndAssumption
  <2>2. Len(words) \in Nat /\ DOMAIN words = 1 .. Len(words)
    BY <2>1, LenProperties
  <2>3. \A i \in 1 .. Len(words) : words[i] \in ToSet(words)
    BY <2>2 DEF ToSet
  <2>4. words \in [1 .. Len(words) -> ToSet(words)]
    BY <2>1, <2>2, <2>3, LenProperties
  <2>5. words \in Seq(ToSet(words))
    BY <2>2, <2>4, SeqDef
  <2> QED
    BY <2>5 DEF AllWords
<1> QED
  BY <1>1, SeqMonotonic

(* What is taken off the arguments leaves arguments. *)
LEMMA RestTyped ==
    ASSUME NEW a \in Seq(AllWords), a # <<>>
    PROVE  /\ a[1] \in AllWords /\ Tail(a) \in Seq(AllWords)
           /\ Len(a) >= 2 => a[2] \in AllWords /\ SubSeq(a, 3, Len(a)) \in Seq(AllWords)
<1>1. Len(a) \in Nat \ {0}
  BY EmptySeq, LenProperties
<1>2. a[1] \in AllWords /\ Tail(a) \in Seq(AllWords)
  BY <1>1, HeadTailProperties, ElementOfSeq
<1>3. ASSUME Len(a) >= 2
      PROVE  a[2] \in AllWords /\ SubSeq(a, 3, Len(a)) \in Seq(AllWords)
  <2>1. 2 \in 1 .. Len(a) /\ \A i \in 3 .. Len(a) : i \in 1 .. Len(a)
    BY <1>1, <1>3
  <2>2. \A i \in 3 .. Len(a) : a[i] \in AllWords
    BY <2>1, ElementOfSeq
  <2> QED
    BY <1>1, <2>1, <2>2, ElementOfSeq, SubSeqProperties
<1> QED
  BY <1>2, <1>3

(* An iteration of parse_args leaves arguments and sound options. *)
LEMMA NumberKeepsOptions ==
    ASSUME NEW o, SoundOptions(o), NEW option \in IntegerOptions \cup FloatOptions,
           NEW word \in AllWords, ~ Refused(option, Parsed(option, word))
    PROVE  SoundOptions([o EXCEPT !.numbers[option] = Parsed(option, word)])
<1> DEFINE v == Parsed(option, word)
           Options == IntegerOptions \cup FloatOptions
           p == [o EXCEPT !.numbers[option] = v]
<1>1. v \in Int
  BY FrontEndAssumption DEF Parsed
<1>2. ~ Refused(option, v)
  OBVIOUS
<1>3. "--temperature" \in Options /\ "--top-p" \in Options
  BY DEF IntegerOptions, FloatOptions
<1>4. option = "--temperature" => v \in Temperatures /\ v > 0
  <2> SUFFICES ASSUME option = "--temperature"
               PROVE  v \in Temperatures /\ v > 0
    OBVIOUS
  <2>1. v = Stof(word)
    BY DEF Parsed, FloatOptions
  <2>2. v \in Temperatures
    BY <2>1 DEF Temperatures
  <2>3. Refused(option, v) <=> v # NotANumber /\ v <= 0
    BY DEF Refused
  <2>4. v > 0
    BY <1>1, <1>2, <2>3, FrontEndAssumption DEF NaN
  <2> QED
    BY <2>2, <2>4
<1>5. option = "--top-p" => v > 0
  <2> SUFFICES ASSUME option = "--top-p"
               PROVE  v > 0
    OBVIOUS
  <2>1. Refused(option, v) <=> v # NotANumber /\ (v <= 0 \/ v > 100)
    BY DEF Refused
  <2> QED
    BY <1>1, <1>2, <2>1, FrontEndAssumption DEF NaN
<1> HIDE DEF v, Options
<1>6. o \in [numbers : [Options -> Int], flags : SUBSET Flags,
             prompt_file : Words, prompt : Words]
  BY DEF SoundOptions, Options
<1>7. option \in Options
  BY DEF Options
<1>8. p.numbers = [o.numbers EXCEPT ![option] = v]
  BY <1>6
<1>9. p \in [numbers : [Options -> Int], flags : SUBSET Flags,
             prompt_file : Words, prompt : Words]
  BY <1>1, <1>6, <1>7
<1>10. /\ p.numbers["--temperature"] =
             IF option = "--temperature" THEN v ELSE o.numbers["--temperature"]
       /\ p.numbers["--top-p"] = IF option = "--top-p" THEN v ELSE o.numbers["--top-p"]
  BY <1>3, <1>6, <1>8
<1> QED
  BY <1>4, <1>5, <1>9, <1>10 DEF SoundOptions, Options, v

LEMMA IterationSound ==
    ASSUME ParsingInv, argv # <<>>
    PROVE  /\ Iteration.phase \in {"parsing", "help", "usage_error"}
           /\ Iteration.argv \in Seq(AllWords)
           /\ SoundOptions(Iteration.options)
<1> DEFINE Good(it) == /\ it.phase \in {"parsing", "help", "usage_error"}
                       /\ it.argv \in Seq(AllWords)
                       /\ SoundOptions(it.options)
           option == LongName(argv[1])
<1>1. /\ SoundOptions(options) /\ argv \in Seq(AllWords)
      /\ argv[1] \in AllWords /\ Tail(argv) \in Seq(AllWords) /\ Len(argv) \in Nat
  BY RestTyped, LenProperties DEF ParsingInv
<1>2. Len(argv) >= 2 => argv[2] \in AllWords /\ SubSeq(argv, 3, Len(argv)) \in Seq(AllWords)
  BY RestTyped DEF ParsingInv
<1>3. Good(Stop("help")) /\ Good(Stop("usage_error"))
  BY DefaultsSound DEF Stop
<1>4. ASSUME NEW rest \in Seq(AllWords), NEW o, SoundOptions(o)
      PROVE  Good(GoOn(rest, o))
  BY <1>4 DEF GoOn
<1>5. /\ options \in [numbers : [IntegerOptions \cup FloatOptions -> Int], flags : SUBSET Flags,
                      prompt_file : Words, prompt : Words]
      /\ options.numbers["--temperature"] \in Temperatures
      /\ options.numbers["--temperature"] > 0 /\ options.numbers["--top-p"] > 0
  BY <1>1 DEF SoundOptions
<1> HIDE DEF Good
<1>6. Good(TakePromptFile)
  <2>1. CASE Len(argv) < 2 \/ options.prompt_file # ""
    BY <1>3, <2>1 DEF TakePromptFile
  <2>2. CASE ~(Len(argv) < 2 \/ options.prompt_file # "")
    <3>1. argv[2] \in Words /\ SubSeq(argv, 3, Len(argv)) \in Seq(AllWords)
      <4>1. Len(argv) \in Nat /\ ~(Len(argv) < 2)
        BY <1>1, <2>2
      <4>2. Len(argv) >= 2
        BY <4>1
      <4> QED
        BY <1>1, <1>2, <4>2 DEF Words
    <3>2. SoundOptions([options EXCEPT !.prompt_file = argv[2]])
      BY <1>5, <3>1 DEF SoundOptions
    <3> QED
      BY <1>4, <2>2, <3>1, <3>2 DEF TakePromptFile
  <2> QED
    BY <2>1, <2>2
<1>7. Good(TakePrompt)
  <2>1. CASE argv[1] \in Dashed \/ options.prompt # ""
    BY <1>3, <2>1 DEF TakePrompt
  <2>2. CASE ~(argv[1] \in Dashed \/ options.prompt # "")
    <3>1. SoundOptions([options EXCEPT !.prompt = argv[1]])
      BY <1>1, <1>5 DEF SoundOptions, Words
    <3> QED
      BY <1>1, <1>4, <2>2, <3>1 DEF TakePrompt
  <2> QED
    BY <2>1, <2>2
<1>8. ASSUME option \in IntegerOptions \cup FloatOptions
      PROVE  Good(TakeNumber(option))
  <2> DEFINE v == Parsed(option, argv[2])
  <2>1. CASE Len(argv) < 2 \/ v = Invalid \/ Refused(option, v)
    BY <1>3, <2>1 DEF TakeNumber
  <2>2. CASE ~(Len(argv) < 2 \/ v = Invalid \/ Refused(option, v))
    <3>1. argv[2] \in AllWords /\ SubSeq(argv, 3, Len(argv)) \in Seq(AllWords)
      BY <1>1, <1>2, <2>2
    <3>2. SoundOptions([options EXCEPT !.numbers[option] = v])
      BY <1>1, <1>8, <2>2, <3>1, NumberKeepsOptions
    <3> QED
      BY <1>4, <2>2, <3>1, <3>2 DEF TakeNumber
  <2> QED
    BY <2>1, <2>2
<1>9. ASSUME option \in Flags
      PROVE  Good(GoOn(Tail(argv), [options EXCEPT !.flags = @ \cup {option}]))
  <2>1. SoundOptions([options EXCEPT !.flags = @ \cup {option}])
    BY <1>5, <1>9 DEF SoundOptions
  <2> QED
    BY <1>1, <1>4, <2>1
<1> HIDE DEF option
<1>10. Good(Iteration)
  <2>1. CASE option = "--help"
    <3>1. option \notin IntegerOptions \cup FloatOptions \cup Flags
      BY <2>1 DEF IntegerOptions, FloatOptions, Flags
    <3>2. Iteration = Stop("help")
      BY <2>1, <3>1 DEF Iteration, option
    <3> QED
      BY <1>3, <3>2
  <2>2. CASE option = "--prompt-file"
    <3>1. option \notin IntegerOptions \cup FloatOptions \cup Flags
      BY <2>2 DEF IntegerOptions, FloatOptions, Flags
    <3>2. Iteration = TakePromptFile
      BY <2>2, <3>1 DEF Iteration, option
    <3> QED
      BY <1>6, <3>2
  <2>3. CASE option \in IntegerOptions \cup FloatOptions
    <3>1. option # "--help" /\ option # "--prompt-file" /\ option \notin Flags
      BY <2>3 DEF IntegerOptions, FloatOptions, Flags
    <3>2. Iteration = TakeNumber(option)
      BY <2>3, <3>1 DEF Iteration, option
    <3> QED
      BY <1>8, <2>3, <3>2
  <2>4. CASE option \in Flags
    <3>1. /\ option # "--help" /\ option # "--prompt-file"
          /\ option \notin IntegerOptions \cup FloatOptions
      BY <2>4 DEF IntegerOptions, FloatOptions, Flags
    <3>2. Iteration = GoOn(Tail(argv), [options EXCEPT !.flags = @ \cup {option}])
      BY <2>4, <3>1 DEF Iteration, option
    <3> QED
      BY <1>9, <2>4, <3>2
  <2>5. CASE /\ option # "--help" /\ option # "--prompt-file" /\ option \notin Flags
             /\ option \notin IntegerOptions \cup FloatOptions
    <3>1. Iteration = TakePrompt
      BY <2>5 DEF Iteration, option
    <3> QED
      BY <1>7, <3>1
  <2> QED
    BY <2>1, <2>2, <2>3, <2>4, <2>5
<1> QED
  BY <1>10 DEF Good

(* Whatever may be drawn is a cut that weighs something. *)
LEMMA CandidatesAreCut ==
    ASSUME NEW w \in Weigh, NEW s \in Descending(w), NEW k \in Int,
           NEW p \in Int, p > 0, Candidates(w, s, k, p) # <<>>
    PROVE  Cut(w, Candidates(w, s, k, p)) /\ Total(w, Candidates(w, s, k, p)) > 0
<1> DEFINE A == AllowedBy(k)
           K == SubSeq(s, 1, A)
           c == Candidates(w, s, k, p)
<1>1. PICK m \in 1 .. A : PrefixOf(w, s, k, p, m) /\ c = SubSeq(K, 1, m)
  BY CandidatesArePrefix
<1>2. Total(w, K) > 0 /\ A \in 1 .. VocabSize
  BY CandidatesArePrefix, TopKIsPrefix
<1>3. Cut(w, s) /\ Len(s) = VocabSize /\ VocabSize \in Nat
  BY OrderIsCut, SamplerAssumption
<1> HIDE DEF A, c
<1>4. A \in 0 .. Len(s) /\ m \in 0 .. A /\ A \in Nat /\ m \in 1 .. A
  BY <1>2, <1>3
<1>5. Cut(w, K) /\ Len(K) = A
  BY <1>3, <1>4, CutShortened
<1> HIDE DEF K
<1>6. Cut(w, c) /\ Len(c) = m /\ Cumulative(w, c)[m] = Cumulative(w, K)[m]
  <2>1. m \in 0 .. Len(K)
    BY <1>4, <1>5
  <2>2. m \in 0 .. m
    BY <1>4
  <2> QED
    BY <1>1, <1>5, <2>1, <2>2, CutShortened
<1>7. Total(w, c) = Cumulative(w, K)[m]
  BY <1>6 DEF Total
<1>8. Cumulative(w, K)[m] > 0
  <2>1. K \in Seq(Tokens)
    BY <1>5 DEF Cut
  <2>2. Total(w, K) \in Nat /\ Cumulative(w, K)[m] \in Nat
    BY <1>4, <1>5, <2>1, CumulativeNat DEF Total
  <2>3. CASE Below(p, Unit)
    <3>1. Unit * Cumulative(w, K)[m] >= p * Total(w, K)
      BY <1>1, <2>3 DEF PrefixOf, LeastReaching, Reaches, K, A
    <3>2. p * Total(w, K) > 0 /\ p * Total(w, K) \in Int
      BY <1>2, <2>2
    <3>3. Cumulative(w, K)[m] # 0
      <4> DEFINE x == Cumulative(w, K)[m]
                 y == p * Total(w, K)
      <4>1. Unit * x >= y /\ y > 0 /\ y \in Int /\ x \in Nat
        BY <2>2, <3>1, <3>2
      <4> HIDE DEF x, y
      <4>2. x # 0
        BY <4>1 DEF Unit
      <4> QED
        BY <4>2 DEF x
    <3> QED
      BY <2>2, <3>3
  <2>4. CASE ~ Below(p, Unit)
    <3>1. m = A
      BY <1>1, <2>4 DEF PrefixOf, A
    <3> QED
      BY <1>2, <1>5, <3>1 DEF Total
  <2> QED
    BY <2>3, <2>4
<1> QED
  BY <1>6, <1>7, <1>8 DEF c

(* What the sampler weighs the tokens by. *)
LEMMA AdjustedWeighs ==
    ASSUME NEW w \in [Tokens -> Weights], NEW T \in Temperatures, T \in Int, T > 0
    PROVE  /\ Adjusted(w, T) \in Weigh
           /\ \A t \in Tokens : w[t] = 0 /\ T # Infinite => Adjusted(w, T)[t] = 0
<1>1. Below(0, T) \/ T \in {Unit, NaN}
  BY DEF Below, NaN
<1>2. ASSUME NEW t \in Tokens
      PROVE  /\ Adjusted(w, T)[t] \in Nat
             /\ w[t] = 0 /\ T # Infinite => Adjusted(w, T)[t] = 0
  <2>1. w[t] \in Weights /\ w[t] \in Nat
    BY FrontEndAssumption
  <2>2. CASE T \in {Unit, NaN}
    BY <2>1, <2>2 DEF Adjusted
  <2>3. CASE T \notin {Unit, NaN}
    <3>1. Adjusted(w, T)[t] = Power(w[t], T)
      BY <2>3 DEF Adjusted
    <3>2. Power(w[t], T) \in Nat /\ (w[t] = 0 /\ T # Infinite => Power(w[t], T) = 0)
      BY <1>1, <2>1, <2>3, PowerAssumption
    <3> QED
      BY <3>1, <3>2
  <2> QED
    BY <2>2, <2>3
<1>3. Adjusted(w, T) \in Weigh
  <2>1. Adjusted(w, T) = [t \in Tokens |-> Adjusted(w, T)[t]]
    BY DEF Adjusted
  <2> QED
    BY <1>2, <2>1 DEF Weigh
<1> QED
  BY <1>2, <1>3

LEMMA FrontInitSound == Init => IInv
<1> SUFFICES ASSUME Init
             PROVE  IInv
  OBVIOUS
<1> USE DEF Init, FrontInit
<1>1. ParsingInv
  BY DefaultsSound, WordsTyped DEF ParsingInv
<1>2. SoundParams(params)
  BY DefaultsSound, ParamsSound
<1>3. WeightsTyped /\ DrawingInv /\ ImpossibleNeverSampled
  BY DEF WeightsTyped, DrawingInv, ImpossibleNeverSampled
<1> QED
  BY <1>1, <1>2, <1>3 DEF IInv

(* What is drawn weighs something; so does the greedy choice. *)
LEMMA DrawnWeighs ==
    ASSUME IInv, NEW r \in 0 .. Total(Adjustment, candidates), Draw(r)
    PROVE  ImpossibleNeverSampled'
<1>1. /\ phase = "drawing" /\ token' = Pick(Adjustment, candidates, r)
      /\ params' = params /\ weights' = weights
  BY DEF Draw
<1>2. SoundParams(params) /\ weights \in [Tokens -> Weights] /\ DrawingInv
  BY <1>1 DEF IInv, WeightsTyped
<1> DEFINE w == Adjustment
<1>3. /\ w \in Weigh
      /\ \A t \in Tokens : weights[t] = 0 /\ params.temperature # Infinite => w[t] = 0
  BY <1>2, AdjustedWeighs DEF Adjustment, SoundParams
<1>4. PICK s \in Descending(w) :
         candidates = Candidates(w, s, params.top_k, params.top_p) /\ candidates # <<>>
  BY <1>1, <1>2 DEF DrawingInv
<1> HIDE DEF w
<1>5. Cut(w, candidates) /\ Total(w, candidates) > 0
  BY <1>2, <1>3, <1>4, CandidatesAreCut DEF SoundParams
<1>6. token' \in Tokens /\ w[token'] > 0
  BY <1>1, <1>3, <1>5, PickedWeighs DEF w
<1>7. ASSUME params.temperature # Infinite
      PROVE  weights[token'] > 0
  <2>1. weights[token'] # 0
    BY <1>3, <1>6, <1>7
  <2>2. weights[token'] \in Nat
    BY <1>2, <1>6, FrontEndAssumption
  <2> QED
    BY <2>1, <2>2
<1> QED
  BY <1>1, <1>7 DEF ImpossibleNeverSampled

LEMMA CutKeeps ==
    ASSUME IInv, NEW w \in [Tokens -> Weights],
           NEW order \in Descending(Adjusted(w, params.temperature)), CutCandidates(w, order)
    PROVE  (WeightsTyped /\ DrawingInv /\ ImpossibleNeverSampled)'
<1> DEFINE kept == Candidates(Adjusted(w, params.temperature), order, params.top_k, params.top_p)
<1>1. weights' = w /\ params' = params
  BY DEF CutCandidates
<1>2. WeightsTyped'
  BY <1>1 DEF WeightsTyped
<1>3. CASE AlwaysGreedy(params) \/ kept = <<>>
  <2>1. phase' = "sampled" /\ token' = Greedy(w)
    BY <1>3 DEF CutCandidates
  <2>2. w \in Weigh
    BY FrontEndAssumption DEF Weigh
  <2>3. token' \in Tokens /\ \A u \in Tokens : w[u] <= w[token']
    BY <2>1, <2>2, GreedyIsHeaviest
  <2>4. \A u \in Tokens : w[u] \in Nat
    BY <2>2 DEF Weigh
  <2>5. (\E t \in Tokens : w[t] > 0) => w[token'] > 0
    BY <2>3, <2>4
  <2>6. ImpossibleNeverSampled'
    BY <1>1, <2>5 DEF ImpossibleNeverSampled
  <2> QED
    BY <1>2, <2>1, <2>6 DEF DrawingInv
<1>4. CASE ~(AlwaysGreedy(params) \/ kept = <<>>)
  <2>1. phase' = "drawing" /\ candidates' = kept /\ kept # <<>>
    BY <1>4 DEF CutCandidates
  <2>2. Adjustment' = Adjusted(w, params.temperature)
    BY <1>1 DEF Adjustment
  <2>3. DrawingInv'
    BY <1>1, <2>1, <2>2 DEF DrawingInv
  <2> QED
    BY <1>2, <2>1, <2>3 DEF ImpossibleNeverSampled
<1> QED
  BY <1>3, <1>4

LEMMA FrontStepKeeps == IInv /\ [Next]_vars => IInv'
<1> SUFFICES ASSUME IInv, [Next]_vars
             PROVE  IInv'
  OBVIOUS
<1> USE DEF IInv
<1>1. ASSUME phase' \notin {"drawing", "sampled"}
      PROVE  (WeightsTyped /\ DrawingInv /\ ImpossibleNeverSampled)'
  BY <1>1 DEF WeightsTyped, DrawingInv, ImpossibleNeverSampled
<1>2. CASE FrontStep
  <2>1. params' = params
    BY <1>2 DEF FrontStep, samplerVars
  <2>2. CASE ParseArgument
    <3>1. /\ phase' \in {"parsing", "help", "usage_error"} /\ argv' \in Seq(AllWords)
          /\ SoundOptions(options')
      BY <2>2, IterationSound DEF ParseArgument
    <3> QED
      BY <1>1, <2>1, <3>1 DEF ParsingInv
  <2>3. CASE CollectPrompts
    BY <1>1, <2>1, <2>3 DEF CollectPrompts, ParsingInv
  <2>4. CASE ApplyTemplate
    <3>1. phase' \in {"serving", "generating"} /\ argv' = argv /\ options' = options
      BY <2>4 DEF ApplyTemplate
    <3> QED
      BY <1>1, <2>1, <3>1 DEF ParsingInv
  <2>5. ASSUME NEW line \in InputLines, ReadLine(line)
        PROVE  IInv'
    <3>1. phase' \in {"serving", "draining"} /\ argv' = argv /\ options' = options
      BY <2>5 DEF ReadLine
    <3> QED
      BY <1>1, <2>1, <3>1 DEF ParsingInv
  <2>6. CASE EndOfInput
    BY <1>1, <2>1, <2>6 DEF EndOfInput, ParsingInv
  <2> QED
    BY <1>2, <2>2, <2>3, <2>4, <2>5, <2>6 DEF FrontStep, FrontNext
<1>3. CASE SetParams
  <2>1. phase' = "sampling" /\ params' = ParamsOf(options) /\ options' = Defaults /\ argv' = argv
    BY <1>3 DEF SetParams
  <2> QED
    BY <1>1, <2>1, ParamsSound, DefaultsSound DEF ParsingInv
<1>4. CASE SampleFromProbs
  <2>1. PICK w \in [Tokens -> Weights] : \E order \in Descending(Adjusted(w, params.temperature)) :
          CutCandidates(w, order)
    BY <1>4 DEF SampleFromProbs
  <2>2. PICK order \in Descending(Adjusted(w, params.temperature)) : CutCandidates(w, order)
    BY <2>1
  <2>3. params' = params /\ options' = options /\ argv' = argv
    BY <2>2 DEF CutCandidates
  <2>4. (WeightsTyped /\ DrawingInv /\ ImpossibleNeverSampled)'
    BY <2>2, CutKeeps
  <2> QED
    BY <2>3, <2>4 DEF ParsingInv
<1>5. ASSUME NEW r \in 0 .. Total(Adjustment, candidates), Draw(r)
      PROVE  IInv'
  <2>1. /\ phase = "drawing" /\ phase' = "sampled" /\ params' = params /\ options' = options
        /\ argv' = argv /\ weights' = weights
    BY <1>5 DEF Draw
  <2>2. WeightsTyped' /\ DrawingInv'
    BY <2>1 DEF WeightsTyped, DrawingInv
  <2> QED
    BY <1>5, <2>1, <2>2, DrawnWeighs DEF ParsingInv
<1>6. CASE UNCHANGED vars
  <2>1. UNCHANGED <<phase, argv, options, params, weights, candidates, token>>
    BY <1>6 DEF vars, frontVars, samplerVars
  <2> QED
    BY <2>1 DEF ParsingInv, WeightsTyped, DrawingInv, ImpossibleNeverSampled, Adjustment
<1> QED
  BY <1>2, <1>3, <1>4, <1>5, <1>6 DEF Next

LEMMA FrontInvariant == Spec => []IInv
<1> QED
  BY FrontInitSound, FrontStepKeeps, PTL DEF Spec

-----------------------------------------------------------------------------
(* A token of probability 0 is never sampled while another has more. *)
THEOREM NoImpossibleToken == Spec => []ImpossibleNeverSampled
<1>1. IInv => ImpossibleNeverSampled
  BY DEF IInv
<1> QED
  BY <1>1, FrontInvariant, PTL

(* Of the numbers from 1 to the total each candidate is given as many as it
   weighs, and 0 falls to a candidate that weighs something. *)
THEOREM DrawIsFair == Spec => []DrawIsProportional
<1>1. IInv => DrawIsProportional
  <2> SUFFICES ASSUME IInv, phase = "drawing"
               PROVE  /\ \A t \in Range(candidates) :
                           Cardinality({r \in 1 .. Total(Adjustment, candidates) :
                             [q \in 1 .. Total(Adjustment, candidates) |->
                                Pick(Adjustment, candidates, q)][r] = t}) = Adjustment[t]
                      /\ Adjustment[Pick(Adjustment, candidates, 0)] > 0
    BY DEF DrawIsProportional
  <2> DEFINE w == Adjustment
             total == Total(w, candidates)
             drawn == [q \in 1 .. total |-> Pick(w, candidates, q)]
  <2>1. w \in Weigh
    BY AdjustedWeighs DEF IInv, WeightsTyped, SoundParams, Adjustment
  <2>2. PICK s \in Descending(w) :
          candidates = Candidates(w, s, params.top_k, params.top_p) /\ candidates # <<>>
    BY DEF IInv, DrawingInv
  <2>3. Cut(w, candidates) /\ total > 0 /\ candidates # <<>>
    BY <2>1, <2>2, CandidatesAreCut DEF IInv, SoundParams
  <2>4. candidates \in Seq(Tokens) /\ DOMAIN candidates = 1 .. Len(candidates)
    BY <2>1, <2>3, CutTyped
  <2>5. ASSUME NEW t \in Range(candidates)
        PROVE  Cardinality({r \in 1 .. total : drawn[r] = t}) = w[t]
    <3>1. PICK i \in 1 .. Len(candidates) : t = candidates[i]
      BY <2>4 DEF Range
    <3>2. {r \in 1 .. total : drawn[r] = t} = FallingTo(w, candidates, t)
      BY DEF FallingTo, Drawn
    <3>3. Cardinality(FallingTo(w, candidates, candidates[i])) = w[candidates[i]]
      BY <2>1, <2>3, <3>1, DrawnByWeight
    <3> HIDE DEF w, total, drawn
    <3> QED
      BY <3>1, <3>2, <3>3
  <2>6. 0 \in 0 .. total
    <3>1. total \in Nat
      BY <2>1, <2>4, CumulativeNat DEF Total
    <3> HIDE DEF total
    <3> QED
      BY <3>1
  <2>7. w[Pick(w, candidates, 0)] > 0
    BY <2>1, <2>3, <2>6, PickedWeighs
  <2> QED
    BY <2>5, <2>7
<1> QED
  BY <1>1, FrontInvariant, PTL

(* What may be drawn is the smallest set of heaviest tokens that top-k and
   top-p admit. *)
THEOREM SmallestNucleus == Spec => []NucleusIsSmallest
<1>1. IInv => NucleusIsSmallest
  <2> SUFFICES ASSUME IInv, phase = "drawing"
               PROVE  NucleusIsSmallest
    BY DEF NucleusIsSmallest
  <2> DEFINE w == Adjustment
             k == params.top_k
             p == params.top_p
             N == Range(candidates)
  <2>1. w \in Weigh /\ k \in Int /\ p \in Int /\ p > 0
    BY AdjustedWeighs DEF IInv, WeightsTyped, SoundParams, Adjustment
  <2>2. PICK s \in Descending(w) : candidates = Candidates(w, s, k, p) /\ candidates # <<>>
    BY DEF IInv, DrawingInv
  <2>3. /\ Allowed = AllowedBy(k)
        /\ \A S : WeightOf(S) = WeightIn(w, S)
        /\ \A S : Heaviest(S) <=> AboveRest(w, S)
    BY DEF Allowed, AllowedBy, WeightOf, WeightIn, PartWeights, Heaviest, AboveRest
  <2> HIDE DEF w, k, p
  <2> DEFINE A == AllowedBy(k)
             c == SubSeq(s, 1, A)
             K == First(c, A)
  <2>4. PICK m \in 1 .. A : PrefixOf(w, s, k, p, m) /\ candidates = SubSeq(c, 1, m)
    BY <2>1, <2>2, CandidatesArePrefix
  <2>5. /\ Total(w, c) > 0 /\ A \in 1 .. VocabSize /\ VocabSize \in Nat
        /\ Cut(w, s) /\ Len(s) = VocabSize
    BY <2>1, <2>2, CandidatesArePrefix, TopKIsPrefix, OrderIsCut, SamplerAssumption
  <2> HIDE DEF A
  <2>6. A \in 0 .. Len(s) /\ A \in Nat /\ A \in 0 .. A /\ m \in 0 .. A /\ m \in 0 .. m
    BY <2>5
  <2>7. Cut(w, c) /\ Len(c) = A
    BY <2>1, <2>5, <2>6, CutShortened
  <2> HIDE DEF c
  <2>8. /\ Cut(w, candidates) /\ Len(candidates) = m
        /\ First(candidates, m) = First(c, m)
    BY <2>1, <2>4, <2>6, <2>7, CutShortened
  <2>9. N = First(c, m)
    <3>1. DOMAIN candidates = 1 .. m
      BY <2>1, <2>8, CutTyped
    <3>2. N = First(candidates, m)
      BY <3>1 DEF Range, First
    <3> QED
      BY <2>8, <3>2
  <2>10. Heaviest(N) /\ Cardinality(N) = Len(candidates)
    <3>1. AboveRest(w, N)
      BY <2>8, <2>9 DEF Cut
    <3>2. Cardinality(First(c, m)) = m
      BY <2>6, <2>7, FirstCounted DEF Cut
    <3> QED
      BY <2>3, <2>8, <2>9, <3>1, <3>2
  <2>11. K \in TopKSets
    <3>1. Cardinality(K) = A /\ K \subseteq Tokens
      BY <2>6, <2>7, FirstCounted DEF Cut
    <3>2. AboveRest(w, K)
      BY <2>7 DEF Cut
    <3> QED
      BY <2>3, <3>1, <3>2 DEF TopKSets, A
  <2>12. N \subseteq K
    <3>1. \A i \in 1 .. m : i \in 1 .. A
      BY <2>6
    <3> QED
      BY <2>9, <3>1 DEF First
  <2>13. ASSUME Below(p, Unit)
         PROVE  /\ Unit * WeightIn(w, N) >= p * WeightIn(w, K)
                /\ \A t \in N : (\A u \in N : w[t] <= w[u]) =>
                      Unit * WeightIn(w, N \ {t}) < p * WeightIn(w, K)
    <3>1. LeastReaching(w, c, p, m) /\ m \in 1 .. Len(c)
      BY <2>4, <2>7, <2>13 DEF PrefixOf, c, A
    <3> HIDE DEF N
    <3> QED
      BY <2>1, <2>5, <2>7, <2>9, <3>1, PrefixIsSmallest
  <2>14. ASSUME ~ Below(p, Unit)
         PROVE  N = K
    BY <2>4, <2>9, <2>14 DEF PrefixOf, A
  <2> HIDE DEF K, N
  <2>15. /\ N \subseteq K
         /\ IF Below(p, Unit)
            THEN /\ Unit * WeightOf(N) >= p * WeightOf(K)
                 /\ \A t \in N : (\A u \in N : w[t] <= w[u]) =>
                      Unit * WeightOf(N \ {t}) < p * WeightOf(K)
            ELSE N = K
    BY <2>3, <2>12, <2>13, <2>14
  <2> QED
    BY <2>10, <2>11, <2>15 DEF NucleusIsSmallest, N, w, p
<1> QED
  BY <1>1, FrontInvariant, PTL

-----------------------------------------------------------------------------
(* The command line as written.  Which words are values is a function defined
   by recursion, as the sums are. *)
IsMarks(marks, words, n) ==
    marks = [j \in 0 .. n |-> j > 1 /\ ~ marks[j - 1] /\ TakesValue(words[j - 1])]

LEMMA MarksContinued ==
    ASSUME NEW words, NEW n \in Nat, NEW f, IsMarks(f, words, n)
    PROVE  \E h : IsMarks(h, words, n + 1)
<1> DEFINE Next1 == n + 1 > 1 /\ ~ f[n] /\ TakesValue(words[n])
           h == [i \in 0 .. n + 1 |-> IF i <= n THEN f[i] ELSE Next1]
           Value(i) == i > 1 /\ ~ h[i - 1] /\ TakesValue(words[i - 1])
<1>1. ASSUME NEW i \in 0 .. n + 1
      PROVE  h[i] = Value(i)
  <2>1. CASE i = n + 1
    <3>1. h[i] = Next1 /\ i - 1 = n /\ h[n] = f[n]
      BY <2>1
    <3>2. Next1 = Value(i)
      BY <2>1, <3>1
    <3> QED
      BY <3>1, <3>2
  <2>2. CASE i \in 0 .. n
    <3>1. h[i] = f[i]
      BY <2>2
    <3>2. f[i] = (i > 1 /\ ~ f[i - 1] /\ TakesValue(words[i - 1]))
      BY <2>2 DEF IsMarks
    <3>3. CASE i > 1
      <4>1. h[i - 1] = f[i - 1]
        BY <2>2, <3>3
      <4> HIDE DEF h
      <4> QED
        BY <3>1, <3>2, <4>1
    <3>4. CASE ~(i > 1)
      <4> HIDE DEF h
      <4> QED
        BY <3>1, <3>2, <3>4
    <3> QED
      BY <3>3, <3>4
  <2> QED
    BY <2>1, <2>2
<1>2. h = [i \in 0 .. n + 1 |-> h[i]]
  OBVIOUS
<1> HIDE DEF h
<1>3. h = [i \in 0 .. n + 1 |-> Value(i)]
  BY <1>1, <1>2
<1> QED
  BY <1>3 DEF IsMarks

LEMMA MarksExist ==
    ASSUME NEW words, NEW n \in Nat
    PROVE  \E marks : IsMarks(marks, words, n)
<1> DEFINE T == {m \in Nat : ~\E marks : IsMarks(marks, words, m)}
<1>1. SUFFICES ASSUME T # {}
               PROVE  FALSE
  OBVIOUS
<1>2. PICK m \in T : \A k \in T : m <= k
  BY <1>1, LeastElement
<1>3. CASE m = 0
  <2> DEFINE f == [j \in 0 .. 0 |-> FALSE]
             Value(j) == j > 1 /\ ~ f[j - 1] /\ TakesValue(words[j - 1])
  <2>1. \A j \in 0 .. 0 : Value(j) = FALSE
    OBVIOUS
  <2> HIDE DEF Value
  <2>2. f = [j \in 0 .. 0 |-> Value(j)]
    BY <2>1
  <2>3. IsMarks(f, words, 0)
    BY <2>2 DEF IsMarks, Value
  <2> QED
    BY <1>2, <1>3, <2>3
<1>4. CASE m > 0
  <2>1. m - 1 \in Nat /\ m - 1 \notin T
    BY <1>2, <1>4
  <2>2. PICK f : IsMarks(f, words, m - 1)
    BY <2>1
  <2>3. \E h : IsMarks(h, words, m - 1 + 1)
    BY <2>1, <2>2, MarksContinued
  <2> QED
    BY <1>2, <2>3
<1> QED
  BY <1>2, <1>3, <1>4

(* A word is a value if the one before is not and takes one. *)
LEMMA ValueStep ==
    ASSUME NEW words, Len(words) \in Nat, NEW i \in 1 .. Len(words)
    PROVE  IsValue(words, i) <=> i > 1 /\ ~ IsValue(words, i - 1) /\ TakesValue(words[i - 1])
<1> DEFINE n == Len(words)
           Is(f) == f = [j \in 0 .. n |-> j > 1 /\ ~ f[j - 1] /\ TakesValue(words[j - 1])]
           C == CHOOSE f : Is(f)
<1>1. \A j : IsValue(words, j) = C[j]
  BY DEF IsValue
<1>2. \E f : Is(f)
  <2>1. PICK f : IsMarks(f, words, n)
    BY MarksExist
  <2>2. Is(f)
    BY <2>1 DEF IsMarks
  <2> QED
    BY <2>2
<1> HIDE DEF Is
<1>3. Is(C)
  BY <1>2
<1> HIDE DEF C
<1>4. i \in 0 .. n
  OBVIOUS
<1>5. C[i] = (i > 1 /\ ~ C[i - 1] /\ TakesValue(words[i - 1]))
  BY <1>3, <1>4 DEF Is
<1> QED
  BY <1>1, <1>5

-----------------------------------------------------------------------------
(* What the first k words say.  They end at a boundary: the last of them takes
   no value that is still to come. *)
Boundary(words, k) ==
    /\ k \in 0 .. Len(words)
    /\ k > 0 => IsValue(words, k) \/ ~ TakesValue(words[k])
NamedIn(words, k, option) ==
    {i \in 1 .. k : ~ IsValue(words, i) /\ LongName(words[i]) = option}
PlainIn(words, k) ==
    {i \in 1 .. k : /\ ~ IsValue(words, i) /\ ~ TakesValue(words[i])
                    /\ words[i] \notin Flags /\ words[i] # ""}
NumberIn(words, k, option) ==
    LET named == NamedIn(words, k, option) IN
    IF named = {} THEN Defaults.numbers[option]
    ELSE Parsed(option, words[LastOf(named) + 1])
FilesIn(words, k) == WordsOf(words, {i + 1 : i \in NamedIn(words, k, "--prompt-file")})

SaidBy(words, k, o) ==
    /\ \A option \in IntegerOptions \cup FloatOptions :
         o.numbers[option] = NumberIn(words, k, option)
    /\ \A flag \in Flags : flag \in o.flags <=> NamedIn(words, k, flag) # {}
    /\ WordsOf(words, PlainIn(words, k)) = {o.prompt} \ {""}
    /\ FilesIn(words, k) \ {""} = {o.prompt_file} \ {""}
    /\ Cardinality(PlainIn(words, k)) <= 1

(* Where the parsing stands: what is left are the words behind a boundary. *)
Parsing(words, rest, o) ==
    \E k \in 0 .. Len(words) :
       /\ Boundary(words, k) /\ SaidBy(words, k, o)
       /\ Len(rest) = Len(words) - k
       /\ \A i \in 1 .. Len(rest) : rest[i] = words[k + i]

-----------------------------------------------------------------------------
LEMMA NothingSaid ==
    ASSUME NEW words \in Seq(AllWords)
    PROVE  Parsing(words, words, Defaults)
<1>1. Len(words) \in Nat
  BY LenProperties
<1>2. \A option : NamedIn(words, 0, option) = {}
  BY DEF NamedIn
<1>3. PlainIn(words, 0) = {}
  BY DEF PlainIn
<1>4. WordsOf(words, {}) = {} /\ FilesIn(words, 0) = {}
  BY <1>2 DEF WordsOf, FilesIn
<1>5. Defaults.flags = {} /\ Defaults.prompt = "" /\ Defaults.prompt_file = ""
  BY DEF Defaults
<1>6. \A option : NumberIn(words, 0, option) = Defaults.numbers[option]
  BY <1>2 DEF NumberIn
<1>7. Cardinality(PlainIn(words, 0)) <= 1
  <2>1. Cardinality({}) = 0
    BY FS_EmptySet
  <2>2. Cardinality(PlainIn(words, 0)) = 0
    BY <1>3, <2>1
  <2> QED
    BY <2>2
<1>8. SaidBy(words, 0, Defaults)
  BY <1>2, <1>3, <1>4, <1>5, <1>6, <1>7 DEF SaidBy
<1>9. Boundary(words, 0)
  BY <1>1 DEF Boundary
<1>10. \A i \in 1 .. Len(words) : words[i] = words[0 + i]
  BY <1>1
<1> QED
  BY <1>1, <1>8, <1>9, <1>10 DEF Parsing

(* The word behind a boundary is no value, and the one behind it is one if it
   takes one. *)
LEMMA BehindBoundary ==
    ASSUME NEW words, Len(words) \in Nat, NEW k, Boundary(words, k), k < Len(words)
    PROVE  /\ ~ IsValue(words, k + 1)
           /\ ~ TakesValue(words[k + 1]) => Boundary(words, k + 1)
           /\ TakesValue(words[k + 1]) /\ k + 2 <= Len(words) =>
                Boundary(words, k + 2) /\ IsValue(words, k + 2)
<1>1. k \in Nat /\ k + 1 \in 1 .. Len(words) /\ k + 1 - 1 = k /\ k + 2 - 1 = k + 1
  BY DEF Boundary
<1>2. ~ IsValue(words, k + 1)
  <2>1. IsValue(words, k + 1) <=>
          k + 1 > 1 /\ ~ IsValue(words, k + 1 - 1) /\ TakesValue(words[k + 1 - 1])
    BY <1>1, ValueStep
  <2> QED
    BY <1>1, <2>1 DEF Boundary
<1>3. ~ TakesValue(words[k + 1]) => Boundary(words, k + 1)
  BY <1>1 DEF Boundary
<1>4. ASSUME TakesValue(words[k + 1]), k + 2 <= Len(words)
      PROVE  Boundary(words, k + 2) /\ IsValue(words, k + 2)
  <2>1. k + 2 \in 1 .. Len(words) /\ k + 2 > 1
    BY <1>1, <1>4
  <2> DEFINE i == k + 2
  <2>2. i \in 1 .. Len(words) /\ i - 1 = k + 1
    BY <1>1, <2>1
  <2> HIDE DEF i
  <2>3. IsValue(words, i) <=> i > 1 /\ ~ IsValue(words, i - 1) /\ TakesValue(words[i - 1])
    BY <2>2, ValueStep
  <2>4. IsValue(words, k + 2)
    BY <1>2, <1>4, <2>1, <2>2, <2>3 DEF i
  <2> QED
    BY <2>1, <2>4 DEF Boundary
<1> QED
  BY <1>2, <1>3, <1>4

(* What one word more, and two of which the second is a value, add. *)
LEMMA OneWordMore ==
    ASSUME NEW words, NEW k \in Nat, ~ IsValue(words, k + 1)
    PROVE  /\ \A option : NamedIn(words, k + 1, option) =
                 NamedIn(words, k, option)
                   \cup (IF LongName(words[k + 1]) = option THEN {k + 1} ELSE {})
           /\ PlainIn(words, k + 1) =
                 PlainIn(words, k)
                   \cup (IF /\ ~ TakesValue(words[k + 1]) /\ words[k + 1] \notin Flags
                            /\ words[k + 1] # ""
                         THEN {k + 1} ELSE {})
<1>1. 1 .. k + 1 = (1 .. k) \cup {k + 1}
  OBVIOUS
<1>2. \A option : NamedIn(words, k + 1, option) =
                 NamedIn(words, k, option)
                   \cup (IF LongName(words[k + 1]) = option THEN {k + 1} ELSE {})
  BY <1>1 DEF NamedIn
<1>3. PlainIn(words, k + 1) =
                 PlainIn(words, k)
                   \cup (IF /\ ~ TakesValue(words[k + 1]) /\ words[k + 1] \notin Flags
                            /\ words[k + 1] # ""
                         THEN {k + 1} ELSE {})
  BY <1>1 DEF PlainIn
<1> QED
  BY <1>2, <1>3

LEMMA ValueMore ==
    ASSUME NEW words, NEW k \in Nat, IsValue(words, k + 2)
    PROVE  /\ \A option : NamedIn(words, k + 2, option) = NamedIn(words, k + 1, option)
           /\ PlainIn(words, k + 2) = PlainIn(words, k + 1)
<1>1. 1 .. k + 2 = (1 .. k + 1) \cup {k + 2}
  OBVIOUS
<1> QED
  BY <1>1 DEF NamedIn, PlainIn

LEMMA LastNamed ==
    ASSUME NEW words, NEW k \in Nat, NEW option
    PROVE  LastOf(NamedIn(words, k, option) \cup {k + 1}) = k + 1
<1> DEFINE S == NamedIn(words, k, option) \cup {k + 1}
           Is(i) == i \in S /\ \A j \in S : j <= i
<1>1. \A j \in NamedIn(words, k, option) : j \in Int /\ j <= k
  BY DEF NamedIn
<1>2. Is(k + 1)
  BY <1>1
<1>3. \A i : Is(i) => i = k + 1
  BY <1>1
<1>4. LastOf(S) = CHOOSE i \in S : \A j \in S : j <= i
  BY DEF LastOf
<1>5. Is(LastOf(S))
  BY <1>2, <1>4
<1> QED
  BY <1>3, <1>5

LEMMA WordMore ==
    ASSUME NEW words, Len(words) \in Nat, NEW k \in Nat, Boundary(words, k),
           k + 1 <= Len(words), ~ TakesValue(words[k + 1])
    PROVE  /\ Boundary(words, k + 1)
           /\ \A option : LongName(words[k + 1]) # option =>
                 NamedIn(words, k + 1, option) = NamedIn(words, k, option)
           /\ \A option : LongName(words[k + 1]) = option =>
                 NamedIn(words, k + 1, option) = NamedIn(words, k, option) \cup {k + 1}
           /\ PlainIn(words, k + 1) =
                 PlainIn(words, k)
                   \cup (IF words[k + 1] \notin Flags /\ words[k + 1] # "" THEN {k + 1} ELSE {})
<1>1. k < Len(words)
  OBVIOUS
<1>2. ~ IsValue(words, k + 1) /\ Boundary(words, k + 1)
  BY <1>1, BehindBoundary
<1>3. \A option : NamedIn(words, k + 1, option) =
          NamedIn(words, k, option)
            \cup (IF LongName(words[k + 1]) = option THEN {k + 1} ELSE {})
  BY <1>2, OneWordMore
<1>4. PlainIn(words, k + 1) =
          PlainIn(words, k)
            \cup (IF /\ ~ TakesValue(words[k + 1]) /\ words[k + 1] \notin Flags
                     /\ words[k + 1] # ""
                  THEN {k + 1} ELSE {})
  BY <1>2, OneWordMore
<1> QED
  BY <1>2, <1>3, <1>4

LEMMA OptionMore ==
    ASSUME NEW words, Len(words) \in Nat, NEW k \in Nat, Boundary(words, k),
           k + 2 <= Len(words), TakesValue(words[k + 1])
    PROVE  /\ Boundary(words, k + 2)
           /\ \A option : LongName(words[k + 1]) # option =>
                 NamedIn(words, k + 2, option) = NamedIn(words, k, option)
           /\ \A option : LongName(words[k + 1]) = option =>
                 NamedIn(words, k + 2, option) = NamedIn(words, k, option) \cup {k + 1}
           /\ PlainIn(words, k + 2) = PlainIn(words, k)
<1>1. k < Len(words)
  OBVIOUS
<1>2. ~ IsValue(words, k + 1) /\ Boundary(words, k + 2) /\ IsValue(words, k + 2)
  BY <1>1, BehindBoundary
<1>3. \A option : NamedIn(words, k + 2, option) = NamedIn(words, k + 1, option)
  BY <1>2, ValueMore
<1>4. PlainIn(words, k + 2) = PlainIn(words, k + 1)
  BY <1>2, ValueMore
<1>5. \A option : NamedIn(words, k + 1, option) =
          NamedIn(words, k, option)
            \cup (IF LongName(words[k + 1]) = option THEN {k + 1} ELSE {})
  BY <1>2, OneWordMore
<1>6. PlainIn(words, k + 1) = PlainIn(words, k)
  <2>1. PlainIn(words, k + 1) =
          PlainIn(words, k)
            \cup (IF /\ ~ TakesValue(words[k + 1]) /\ words[k + 1] \notin Flags
                     /\ words[k + 1] # ""
                  THEN {k + 1} ELSE {})
    BY <1>2, OneWordMore
  <2> QED
    BY <2>1
<1> QED
  BY <1>2, <1>3, <1>4, <1>5, <1>6

(* What is not named again keeps its number. *)
LEMMA SameNumber ==
    ASSUME NEW words, NEW k, NEW m, NEW option,
           NamedIn(words, m, option) = NamedIn(words, k, option)
    PROVE  NumberIn(words, m, option) = NumberIn(words, k, option)
  BY DEF NumberIn

LEMMA TwoMore == \A k \in Nat : k + 1 + 1 = k + 2
  OBVIOUS

(* The names an option, a flag and a prompt file go by are different. *)
LEMMA NamesApart ==
    /\ "--prompt-file" \notin IntegerOptions \cup FloatOptions \cup Flags
    /\ "--help" \notin IntegerOptions \cup FloatOptions \cup Flags
    /\ (IntegerOptions \cup FloatOptions) \cap Flags = {}
    /\ \A word : LongName(word) \in Flags => word = LongName(word)
    /\ \A word \in Flags : LongName(word) = word
  BY DEF IntegerOptions, FloatOptions, Flags, LongName

LEMMA NumberSaid ==
    ASSUME NEW words, Len(words) \in Nat, NEW k \in Nat, Boundary(words, k),
           k + 2 <= Len(words), NEW o, SoundOptions(o), SaidBy(words, k, o),
           NEW option \in IntegerOptions \cup FloatOptions, LongName(words[k + 1]) = option
    PROVE  /\ Boundary(words, k + 2)
           /\ SaidBy(words, k + 2,
                     [o EXCEPT !.numbers[option] = Parsed(option, words[k + 2])])
<1> DEFINE Options == IntegerOptions \cup FloatOptions
           v == Parsed(option, words[k + 2])
           p == [o EXCEPT !.numbers[option] = v]
<1>1. TakesValue(words[k + 1]) /\ option # "--prompt-file" /\ option \notin Flags
  BY NamesApart DEF TakesValue
<1>2. Boundary(words, k + 2)
  BY <1>1, OptionMore
<1>3. PlainIn(words, k + 2) = PlainIn(words, k)
  BY <1>1, OptionMore
<1>4. \A other : other # option => NamedIn(words, k + 2, other) = NamedIn(words, k, other)
  BY <1>1, OptionMore
<1>5. NamedIn(words, k + 2, option) = NamedIn(words, k, option) \cup {k + 1}
  BY <1>1, OptionMore
<1> HIDE DEF v, Options
<1>6. o \in [numbers : [Options -> Int], flags : SUBSET Flags, prompt_file : Words, prompt : Words]
  BY DEF SoundOptions, Options
<1>7. /\ p.flags = o.flags /\ p.prompt = o.prompt /\ p.prompt_file = o.prompt_file
      /\ \A other \in Options : p.numbers[other] = IF other = option THEN v ELSE o.numbers[other]
  BY <1>6
<1> HIDE DEF p
<1>8. \A other \in Options : p.numbers[other] = NumberIn(words, k + 2, other)
  <2> TAKE other \in Options
  <2>1. CASE other = option
    <3>1. LastOf(NamedIn(words, k + 2, option)) = k + 1
      BY <1>5, LastNamed
    <3>2. NumberIn(words, k + 2, option) = Parsed(option, words[k + 1 + 1])
      BY <1>5, <3>1 DEF NumberIn
    <3>3. k + 1 + 1 = k + 2
      BY TwoMore
    <3>4. NumberIn(words, k + 2, option) = v
      BY <3>2, <3>3 DEF v
    <3> QED
      BY <1>7, <2>1, <3>4
  <2>2. CASE other # option
    <3>1. o.numbers[other] = NumberIn(words, k, other)
      BY DEF SaidBy, Options
    <3>2. NumberIn(words, k + 2, other) = NumberIn(words, k, other)
      BY <1>4, <2>2, SameNumber
    <3> QED
      BY <1>7, <2>2, <3>1, <3>2
  <2> QED
    BY <2>1, <2>2
<1>9. \A flag \in Flags : NamedIn(words, k + 2, flag) = NamedIn(words, k, flag)
  BY <1>1, <1>4
<1>10. FilesIn(words, k + 2) = FilesIn(words, k)
  BY <1>1, <1>4 DEF FilesIn
<1>11. SaidBy(words, k + 2, p)
  BY <1>3, <1>7, <1>8, <1>9, <1>10 DEF SaidBy, Options
<1> QED
  BY <1>2, <1>11 DEF p, v

LEMMA FileSaid ==
    ASSUME NEW words, Len(words) \in Nat, NEW k \in Nat, Boundary(words, k),
           k + 2 <= Len(words), NEW o, SoundOptions(o), SaidBy(words, k, o),
           LongName(words[k + 1]) = "--prompt-file", o.prompt_file = ""
    PROVE  /\ Boundary(words, k + 2)
           /\ SaidBy(words, k + 2, [o EXCEPT !.prompt_file = words[k + 2]])
<1> DEFINE Options == IntegerOptions \cup FloatOptions
           file == words[k + 2]
           p == [o EXCEPT !.prompt_file = file]
           name == "--prompt-file"
<1>1. TakesValue(words[k + 1]) /\ name \notin Options /\ name \notin Flags
  BY NamesApart DEF TakesValue
<1>2. Boundary(words, k + 2)
  BY <1>1, OptionMore
<1>3. PlainIn(words, k + 2) = PlainIn(words, k)
  BY <1>1, OptionMore
<1>4. \A other : other # name => NamedIn(words, k + 2, other) = NamedIn(words, k, other)
  BY <1>1, OptionMore
<1>5. NamedIn(words, k + 2, name) = NamedIn(words, k, name) \cup {k + 1}
  BY <1>1, OptionMore
<1> HIDE DEF Options, file
<1>6. /\ p.flags = o.flags /\ p.prompt = o.prompt /\ p.prompt_file = file
      /\ p.numbers = o.numbers
  BY DEF SoundOptions
<1> HIDE DEF p, name
<1>7. \A other \in Options : p.numbers[other] = NumberIn(words, k + 2, other)
  <2> TAKE other \in Options
  <2>1. o.numbers[other] = NumberIn(words, k, other)
    BY DEF SaidBy, Options
  <2>2. NumberIn(words, k + 2, other) = NumberIn(words, k, other)
    BY <1>1, <1>4, SameNumber
  <2> QED
    BY <1>6, <2>1, <2>2
<1>8. \A flag \in Flags : NamedIn(words, k + 2, flag) = NamedIn(words, k, flag)
  BY <1>1, <1>4
<1>9. FilesIn(words, k + 2) = FilesIn(words, k) \cup {file}
  <2>1. FilesIn(words, k + 2) =
          {words[j] : j \in {i + 1 : i \in NamedIn(words, k, name) \cup {k + 1}}}
    BY <1>5 DEF FilesIn, WordsOf, name
  <2>2. FilesIn(words, k) = {words[j] : j \in {i + 1 : i \in NamedIn(words, k, name)}}
    BY DEF FilesIn, WordsOf, name
  <2>3. {i + 1 : i \in NamedIn(words, k, name) \cup {k + 1}}
          = {i + 1 : i \in NamedIn(words, k, name)} \cup {k + 2}
    <3>1. k + 1 + 1 = k + 2
      BY TwoMore
    <3> QED
      BY <3>1
  <2> QED
    BY <2>1, <2>2, <2>3 DEF file
<1>10. FilesIn(words, k) \ {""} = {}
  BY DEF SaidBy
<1>11. FilesIn(words, k + 2) \ {""} = {file} \ {""}
  BY <1>9, <1>10
<1>12. SaidBy(words, k + 2, p)
  BY <1>3, <1>6, <1>7, <1>8, <1>11 DEF SaidBy, Options
<1> QED
  BY <1>2, <1>12 DEF p, file

LEMMA FlagSaid ==
    ASSUME NEW words, Len(words) \in Nat, NEW k \in Nat, Boundary(words, k),
           k + 1 <= Len(words), NEW o, SoundOptions(o), SaidBy(words, k, o),
           NEW option \in Flags, LongName(words[k + 1]) = option
    PROVE  /\ Boundary(words, k + 1)
           /\ SaidBy(words, k + 1, [o EXCEPT !.flags = @ \cup {option}])
<1> DEFINE Options == IntegerOptions \cup FloatOptions
           p == [o EXCEPT !.flags = @ \cup {option}]
<1>1. /\ ~ TakesValue(words[k + 1]) /\ words[k + 1] \in Flags
      /\ option \notin Options /\ option # "--prompt-file"
  BY NamesApart DEF TakesValue
<1>2. Boundary(words, k + 1)
  BY <1>1, WordMore
<1>3. PlainIn(words, k + 1) = PlainIn(words, k)
  <2>1. PlainIn(words, k + 1) = PlainIn(words, k) \cup {}
    BY <1>1, WordMore
  <2> QED
    BY <2>1
<1>4. \A other : other # option => NamedIn(words, k + 1, other) = NamedIn(words, k, other)
  BY <1>1, WordMore
<1>5. NamedIn(words, k + 1, option) # {}
  <2>1. \A this : LongName(words[k + 1]) = this =>
                NamedIn(words, k + 1, this) = NamedIn(words, k, this) \cup {k + 1}
    BY <1>1, WordMore
  <2> QED
    BY <2>1
<1> HIDE DEF Options
<1>6. /\ p.flags = o.flags \cup {option} /\ p.prompt = o.prompt
      /\ p.prompt_file = o.prompt_file /\ p.numbers = o.numbers
  BY DEF SoundOptions
<1> HIDE DEF p
<1>7. \A other \in Options : p.numbers[other] = NumberIn(words, k + 1, other)
  <2> TAKE other \in Options
  <2>1. o.numbers[other] = NumberIn(words, k, other)
    BY DEF SaidBy, Options
  <2>2. NumberIn(words, k + 1, other) = NumberIn(words, k, other)
    BY <1>1, <1>4, SameNumber
  <2> QED
    BY <1>6, <2>1, <2>2
<1>8. \A flag \in Flags : flag \in p.flags <=> NamedIn(words, k + 1, flag) # {}
  <2> TAKE flag \in Flags
  <2>1. flag \in o.flags <=> NamedIn(words, k, flag) # {}
    BY DEF SaidBy
  <2> QED
    BY <1>4, <1>5, <1>6, <2>1
<1>9. FilesIn(words, k + 1) = FilesIn(words, k)
  BY <1>1, <1>4 DEF FilesIn
<1>10. SaidBy(words, k + 1, p)
  BY <1>3, <1>6, <1>7, <1>8, <1>9 DEF SaidBy, Options
<1> QED
  BY <1>2, <1>10 DEF p

LEMMA OneAtMost ==
    ASSUME NEW S, S = {} \/ \E x : S = {x}
    PROVE  Cardinality(S) <= 1
<1>1. Cardinality(S) = 0 \/ Cardinality(S) = 1
  BY FS_EmptySet, FS_Singleton
<1> QED
  BY <1>1

LEMMA PromptSaid ==
    ASSUME NEW words, Len(words) \in Nat, NEW k \in Nat, Boundary(words, k),
           k + 1 <= Len(words), NEW o, SoundOptions(o), SaidBy(words, k, o),
           ~ TakesValue(words[k + 1]), LongName(words[k + 1]) \notin Flags, o.prompt = ""
    PROVE  /\ Boundary(words, k + 1)
           /\ SaidBy(words, k + 1, [o EXCEPT !.prompt = words[k + 1]])
<1> DEFINE Options == IntegerOptions \cup FloatOptions
           prompt == words[k + 1]
           p == [o EXCEPT !.prompt = prompt]
<1>1. /\ prompt \notin Flags /\ LongName(prompt) \notin Options
      /\ LongName(prompt) # "--prompt-file"
  BY NamesApart DEF TakesValue
<1>2. Boundary(words, k + 1)
  BY WordMore
<1>3. PlainIn(words, k + 1) = PlainIn(words, k) \cup (IF prompt # "" THEN {k + 1} ELSE {})
  BY <1>1, WordMore
<1>4. \A other \in Options \cup Flags \cup {"--prompt-file"} :
         NamedIn(words, k + 1, other) = NamedIn(words, k, other)
  <2> TAKE other \in Options \cup Flags \cup {"--prompt-file"}
  <2>1. LongName(words[k + 1]) # other
    BY <1>1
  <2> QED
    BY <2>1, WordMore
<1>5. PlainIn(words, k) = {}
  <2>1. WordsOf(words, PlainIn(words, k)) = {}
    BY DEF SaidBy
  <2> QED
    BY <2>1 DEF WordsOf
<1> HIDE DEF Options, prompt
<1>6. /\ p.flags = o.flags /\ p.prompt = prompt
      /\ p.prompt_file = o.prompt_file /\ p.numbers = o.numbers
  BY DEF SoundOptions
<1> HIDE DEF p
<1>7. \A other \in Options : p.numbers[other] = NumberIn(words, k + 1, other)
  <2> TAKE other \in Options
  <2>1. o.numbers[other] = NumberIn(words, k, other)
    BY DEF SaidBy, Options
  <2>2. NumberIn(words, k + 1, other) = NumberIn(words, k, other)
    BY <1>4, SameNumber
  <2> QED
    BY <1>6, <2>1, <2>2
<1>8. \A flag \in Flags : flag \in p.flags <=> NamedIn(words, k + 1, flag) # {}
  BY <1>4, <1>6 DEF SaidBy
<1>9. FilesIn(words, k + 1) = FilesIn(words, k)
  BY <1>4 DEF FilesIn
<1>10. /\ WordsOf(words, PlainIn(words, k + 1)) = {prompt} \ {""}
       /\ Cardinality(PlainIn(words, k + 1)) <= 1
  <2>1. CASE prompt = ""
    <3>1. PlainIn(words, k + 1) = {}
      BY <1>3, <1>5, <2>1
    <3>2. WordsOf(words, {}) = {}
      BY DEF WordsOf
    <3>3. {prompt} \ {""} = {}
      BY <2>1
    <3>4. Cardinality(PlainIn(words, k + 1)) <= 1
      BY <3>1, OneAtMost
    <3> QED
      BY <3>1, <3>2, <3>3, <3>4
  <2>2. CASE prompt # ""
    <3>1. PlainIn(words, k + 1) = {k + 1}
      BY <1>3, <1>5, <2>2
    <3>2. WordsOf(words, {k + 1}) = {prompt}
      BY DEF WordsOf, prompt
    <3>3. {prompt} \ {""} = {prompt}
      BY <2>2
    <3>4. Cardinality(PlainIn(words, k + 1)) <= 1
      BY <3>1, OneAtMost
    <3> QED
      BY <3>1, <3>2, <3>3, <3>4
  <2> QED
    BY <2>1, <2>2
<1>11. SaidBy(words, k + 1, p)
  BY <1>6, <1>7, <1>8, <1>9, <1>10 DEF SaidBy, Options
<1> QED
  BY <1>2, <1>11 DEF p, prompt

-----------------------------------------------------------------------------
(* One iteration of parse_args goes from boundary to boundary. *)
LEMMA RestAfter ==
    ASSUME NEW a \in Seq(AllWords), a # <<>>
    PROVE  /\ Len(Tail(a)) = Len(a) - 1
           /\ \A i \in 1 .. Len(a) - 1 : Tail(a)[i] = a[i + 1]
           /\ Len(a) >= 2 =>
                /\ Len(SubSeq(a, 3, Len(a))) = Len(a) - 2
                /\ \A i \in 1 .. Len(a) - 2 : SubSeq(a, 3, Len(a))[i] = a[i + 2]
<1>1. Len(a) \in Nat \ {0}
  BY EmptySeq, LenProperties
<1>2. Len(Tail(a)) = Len(a) - 1 /\ \A i \in 1 .. Len(a) - 1 : Tail(a)[i] = a[i + 1]
  BY <1>1, HeadTailProperties
<1>3. ASSUME Len(a) >= 2
      PROVE  /\ Len(SubSeq(a, 3, Len(a))) = Len(a) - 2
             /\ \A i \in 1 .. Len(a) - 2 : SubSeq(a, 3, Len(a))[i] = a[i + 2]
  <2> DEFINE n == Len(a)
             rest == SubSeq(a, 3, n)
  <2>1. n \in Nat /\ n >= 2 /\ \A i \in 3 .. n : i \in 1 .. n
    BY <1>1, <1>3
  <2>2. \A i \in 3 .. n : a[i] \in AllWords
    BY <2>1, ElementOfSeq
  <2>3. /\ Len(rest) = IF 3 <= n THEN n - 3 + 1 ELSE 0
        /\ \A i \in 1 .. n - 3 + 1 : rest[i] = a[3 + i - 1]
    BY <2>1, <2>2, SubSeqProperties
  <2> HIDE DEF n, rest
  <2>4. Len(rest) = n - 2
    BY <2>1, <2>3
  <2>5. \A i \in 1 .. n - 2 : i \in 1 .. n - 3 + 1 /\ 3 + i - 1 = i + 2
    BY <2>1
  <2> QED
    BY <2>3, <2>4, <2>5 DEF n, rest
<1> QED
  BY <1>2, <1>3

(* The parsing after a prefix of k words: what the words to come are. *)
At(words, k, rest) ==
    /\ Len(rest) = Len(words) - k
    /\ \A i \in 1 .. Len(rest) : rest[i] = words[k + i]

LEMMA AfterOne ==
    ASSUME NEW words \in Seq(AllWords), NEW k \in 0 .. Len(words), NEW rest \in Seq(AllWords),
           At(words, k, rest), rest # <<>>
    PROVE  /\ k + 1 <= Len(words) /\ rest[1] = words[k + 1]
           /\ At(words, k + 1, Tail(rest))
           /\ Len(rest) >= 2 =>
                /\ k + 2 <= Len(words) /\ rest[2] = words[k + 2]
                /\ At(words, k + 2, SubSeq(rest, 3, Len(rest)))
<1> DEFINE n == Len(rest)
<1>1. /\ n \in Nat \ {0} /\ Len(words) \in Nat /\ k \in Nat /\ n = Len(words) - k
      /\ \A i \in 1 .. n : rest[i] = words[k + i]
  BY EmptySeq, LenProperties DEF At
<1>2. k + 1 <= Len(words) /\ rest[1] = words[k + 1]
  BY <1>1
<1>3. At(words, k + 1, Tail(rest))
  <2>1. Len(Tail(rest)) = n - 1 /\ \A i \in 1 .. n - 1 : Tail(rest)[i] = rest[i + 1]
    BY RestAfter
  <2> HIDE DEF n
  <2>2. ASSUME NEW i \in 1 .. n - 1
        PROVE  Tail(rest)[i] = words[k + 1 + i]
    <3>1. i + 1 \in 1 .. n /\ k + (i + 1) = k + 1 + i
      BY <1>1
    <3>2. rest[i + 1] = words[k + (i + 1)]
      BY <1>1, <3>1
    <3> QED
      BY <2>1, <3>1, <3>2
  <2>3. n - 1 = Len(words) - (k + 1)
    BY <1>1
  <2> QED
    BY <2>1, <2>2, <2>3 DEF At
<1>4. ASSUME n >= 2
      PROVE  /\ k + 2 <= Len(words) /\ rest[2] = words[k + 2]
             /\ At(words, k + 2, SubSeq(rest, 3, n))
  <2> DEFINE tail == SubSeq(rest, 3, n)
  <2>1. Len(tail) = n - 2 /\ \A i \in 1 .. n - 2 : tail[i] = rest[i + 2]
    BY <1>4, RestAfter
  <2> HIDE DEF n, tail
  <2>2. ASSUME NEW i \in 1 .. n - 2
        PROVE  tail[i] = words[k + 2 + i]
    <3>1. i + 2 \in 1 .. n /\ k + (i + 2) = k + 2 + i
      BY <1>1
    <3>2. rest[i + 2] = words[k + (i + 2)]
      BY <1>1, <3>1
    <3> QED
      BY <2>1, <3>1, <3>2
  <2>3. n - 2 = Len(words) - (k + 2) /\ k + 2 <= Len(words) /\ 2 \in 1 .. n
    BY <1>1, <1>4
  <2>4. At(words, k + 2, tail)
    BY <2>1, <2>2, <2>3 DEF At
  <2>5. rest[2] = words[k + 2]
    BY <1>1, <2>3
  <2> QED
    BY <2>3, <2>4, <2>5 DEF tail
<1> QED
  BY <1>2, <1>3, <1>4

LEMMA IterationParses ==
    ASSUME ParsingInv, argv # <<>>, asked \in Seq(AllWords), Parsing(asked, argv, options),
           Iteration.phase = "parsing"
    PROVE  Parsing(asked, Iteration.argv, Iteration.options)
<1> DEFINE Good(it) == it.phase = "parsing" => Parsing(asked, it.argv, it.options)
           option == LongName(argv[1])
<1>1. PICK k \in 0 .. Len(asked) :
         Boundary(asked, k) /\ SaidBy(asked, k, options) /\ At(asked, k, argv)
  BY DEF Parsing, At
<1>2. /\ argv \in Seq(AllWords) /\ SoundOptions(options)
      /\ Len(asked) \in Nat /\ k \in Nat /\ Len(argv) \in Nat
  BY <1>1, LenProperties DEF ParsingInv
<1>3. k + 1 <= Len(asked) /\ argv[1] = asked[k + 1] /\ At(asked, k + 1, Tail(argv))
  BY <1>1, <1>2, AfterOne
<1>4. ASSUME ~(Len(argv) < 2)
      PROVE  /\ k + 2 <= Len(asked) /\ argv[2] = asked[k + 2]
             /\ At(asked, k + 2, SubSeq(argv, 3, Len(argv)))
  <2>1. Len(argv) >= 2
    BY <1>2, <1>4
  <2> QED
    BY <1>1, <1>2, <2>1, AfterOne
<1>5. Good(Stop("help")) /\ Good(Stop("usage_error"))
  BY DEF Stop
<1>6. ASSUME NEW m \in Nat, m <= Len(asked), NEW rest, At(asked, m, rest),
             NEW o, Boundary(asked, m), SaidBy(asked, m, o)
      PROVE  Good(GoOn(rest, o))
  <2>1. m \in 0 .. Len(asked)
    BY <1>2, <1>6
  <2>2. Parsing(asked, rest, o)
    BY <1>6, <2>1 DEF Parsing, At
  <2> QED
    BY <2>2 DEF GoOn
<1>7. k + 1 \in Nat /\ k + 2 \in Nat
  BY <1>2
<1> HIDE DEF Good
<1>8. ASSUME option = "--prompt-file"
      PROVE  Good(TakePromptFile)
  <2>1. CASE Len(argv) < 2 \/ options.prompt_file # ""
    BY <1>5, <2>1 DEF TakePromptFile
  <2>2. CASE ~(Len(argv) < 2) /\ options.prompt_file = ""
    <3>1. /\ Boundary(asked, k + 2)
          /\ SaidBy(asked, k + 2, [options EXCEPT !.prompt_file = argv[2]])
      BY <1>1, <1>2, <1>3, <1>4, <1>8, <2>2, FileSaid
    <3> QED
      BY <1>4, <1>6, <1>7, <2>2, <3>1 DEF TakePromptFile
  <2> QED
    BY <2>1, <2>2
<1>9. ASSUME option \in IntegerOptions \cup FloatOptions
      PROVE  Good(TakeNumber(option))
  <2> DEFINE v == Parsed(option, argv[2])
  <2>1. CASE Len(argv) < 2 \/ v = Invalid \/ Refused(option, v)
    BY <1>5, <2>1 DEF TakeNumber
  <2>2. CASE ~(Len(argv) < 2) /\ ~(v = Invalid \/ Refused(option, v))
    <3>1. /\ Boundary(asked, k + 2)
          /\ SaidBy(asked, k + 2, [options EXCEPT !.numbers[option] = v])
      BY <1>1, <1>2, <1>3, <1>4, <1>9, <2>2, NumberSaid
    <3> QED
      BY <1>4, <1>6, <1>7, <2>2, <3>1 DEF TakeNumber
  <2> QED
    BY <2>1, <2>2
<1>10. ASSUME option \in Flags
       PROVE  Good(GoOn(Tail(argv), [options EXCEPT !.flags = @ \cup {option}]))
  <2>1. /\ Boundary(asked, k + 1)
        /\ SaidBy(asked, k + 1, [options EXCEPT !.flags = @ \cup {option}])
    BY <1>1, <1>2, <1>3, <1>10, FlagSaid
  <2> QED
    BY <1>3, <1>6, <1>7, <2>1
<1>11. ASSUME ~ TakesValue(argv[1]), option \notin Flags
       PROVE  Good(TakePrompt)
  <2>1. CASE argv[1] \in Dashed \/ options.prompt # ""
    BY <1>5, <2>1 DEF TakePrompt
  <2>2. CASE ~(argv[1] \in Dashed) /\ options.prompt = ""
    <3>1. /\ Boundary(asked, k + 1)
          /\ SaidBy(asked, k + 1, [options EXCEPT !.prompt = argv[1]])
      BY <1>1, <1>2, <1>3, <1>11, <2>2, PromptSaid
    <3> QED
      BY <1>3, <1>6, <1>7, <2>2, <3>1 DEF TakePrompt
  <2> QED
    BY <2>1, <2>2
<1>12. TakesValue(argv[1]) <=>
          option \in IntegerOptions \cup FloatOptions \cup {"--prompt-file"}
  BY DEF TakesValue
<1> HIDE DEF option
<1>13. Good(Iteration)
  <2>1. CASE option = "--help"
    <3>1. option \notin IntegerOptions \cup FloatOptions \cup Flags
      BY <2>1, NamesApart
    <3>2. Iteration = Stop("help")
      BY <2>1, <3>1 DEF Iteration, option
    <3> QED
      BY <1>5, <3>2
  <2>2. CASE option = "--prompt-file"
    <3>1. option \notin IntegerOptions \cup FloatOptions \cup Flags
      BY <2>2, NamesApart
    <3>2. Iteration = TakePromptFile
      BY <2>2, <3>1 DEF Iteration, option
    <3> QED
      BY <1>8, <2>2, <3>2
  <2>3. CASE option \in IntegerOptions \cup FloatOptions
    <3>1. option # "--help" /\ option # "--prompt-file" /\ option \notin Flags
      BY <2>3, NamesApart
    <3>2. Iteration = TakeNumber(option)
      BY <2>3, <3>1 DEF Iteration, option
    <3> QED
      BY <1>9, <2>3, <3>2
  <2>4. CASE option \in Flags
    <3>1. /\ option # "--help" /\ option # "--prompt-file"
          /\ option \notin IntegerOptions \cup FloatOptions
      BY <2>4, NamesApart
    <3>2. Iteration = GoOn(Tail(argv), [options EXCEPT !.flags = @ \cup {option}])
      BY <2>4, <3>1 DEF Iteration, option
    <3> QED
      BY <1>10, <2>4, <3>2
  <2>5. CASE /\ option # "--help" /\ option # "--prompt-file" /\ option \notin Flags
             /\ option \notin IntegerOptions \cup FloatOptions
    <3>1. Iteration = TakePrompt
      BY <2>5 DEF Iteration, option
    <3> QED
      BY <1>11, <1>12, <2>5, <3>1
  <2> QED
    BY <2>1, <2>2, <2>3, <2>4, <2>5
<1> QED
  BY <1>13 DEF Good

(* When nothing is left, the command line has been read as a whole. *)
Written(words, o) ==
    /\ \A option \in IntegerOptions \cup FloatOptions :
         o.numbers[option] =
           LET named == Named(words, option) IN
             IF named = {} THEN Defaults.numbers[option]
             ELSE Parsed(option, words[LastOf(named) + 1])
    /\ \A flag \in Flags : flag \in o.flags <=> Named(words, flag) # {}
    /\ WordsOf(words, Plain(words)) = {o.prompt} \ {""}
    /\ WordsOf(words, {i + 1 : i \in Named(words, "--prompt-file")}) \ {""}
         = {o.prompt_file} \ {""}
    /\ Cardinality(Plain(words)) <= 1

LEMMA AllParsed ==
    ASSUME NEW words \in Seq(AllWords), NEW o, Parsing(words, <<>>, o)
    PROVE  Written(words, o)
<1> DEFINE n == Len(words)
<1>1. PICK k \in 0 .. n : SaidBy(words, k, o) /\ Len(<<>>) = n - k
  BY DEF Parsing
<1>2. n \in Nat /\ DOMAIN words = 1 .. n
  BY LenProperties
<1>3. Len(<<>>) = 0
  OBVIOUS
<1>4. k = n
  BY <1>1, <1>2, <1>3
<1>5. \A option : NamedIn(words, n, option) = Named(words, option)
  BY <1>2 DEF NamedIn, Named
<1>6. PlainIn(words, n) = Plain(words)
  BY <1>2 DEF PlainIn, Plain
<1>7. SaidBy(words, n, o)
  BY <1>1, <1>4
<1> HIDE DEF n
<1>8. \A option \in IntegerOptions \cup FloatOptions :
         o.numbers[option] =
           LET named == Named(words, option) IN
             IF named = {} THEN Defaults.numbers[option]
             ELSE Parsed(option, words[LastOf(named) + 1])
  BY <1>5, <1>7 DEF SaidBy, NumberIn
<1>9. /\ \A flag \in Flags : flag \in o.flags <=> Named(words, flag) # {}
      /\ WordsOf(words, Plain(words)) = {o.prompt} \ {""}
      /\ Cardinality(Plain(words)) <= 1
  BY <1>5, <1>6, <1>7 DEF SaidBy
<1>10. WordsOf(words, {i + 1 : i \in Named(words, "--prompt-file")}) \ {""}
         = {o.prompt_file} \ {""}
  BY <1>5, <1>7 DEF SaidBy, FilesIn
<1> QED
  BY <1>8, <1>9, <1>10 DEF Written

WrittenInv ==
    /\ asked \in Seq(AllWords)
    /\ phase = "parsing" => Parsing(asked, argv, options)
    /\ phase = "loading" => Written(asked, options)

LEMMA WrittenInit == Init => WrittenInv
<1> SUFFICES ASSUME Init
             PROVE  WrittenInv
  OBVIOUS
<1>1. asked \in Seq(AllWords) /\ argv = asked /\ options = Defaults /\ phase = "parsing"
  BY WordsTyped DEF Init, FrontInit
<1> QED
  BY <1>1, NothingSaid DEF WrittenInv

LEMMA WrittenStep == IInv /\ WrittenInv /\ [Next]_vars => WrittenInv'
<1> SUFFICES ASSUME IInv, WrittenInv, [Next]_vars
             PROVE  WrittenInv'
  OBVIOUS
<1> USE DEF WrittenInv
<1>1. ASSUME phase' \notin {"parsing", "loading"}, asked' = asked
      PROVE  WrittenInv'
  BY <1>1
<1>2. CASE ParseArgument
  <2>1. /\ phase = "parsing" /\ argv # <<>> /\ phase' = Iteration.phase
        /\ argv' = Iteration.argv /\ options' = Iteration.options /\ asked' = asked
    BY <1>2 DEF ParseArgument
  <2>2. Iteration.phase \in {"parsing", "help", "usage_error"}
    BY <2>1, IterationSound DEF IInv
  <2>3. CASE Iteration.phase = "parsing"
    <3>1. Parsing(asked, Iteration.argv, Iteration.options)
      BY <2>1, <2>3, IterationParses DEF IInv
    <3> QED
      BY <2>1, <2>3, <3>1
  <2>4. CASE Iteration.phase # "parsing"
    BY <1>1, <2>1, <2>2, <2>4
  <2> QED
    BY <2>3, <2>4
<1>3. CASE CollectPrompts
  <2>1. /\ phase = "parsing" /\ argv = <<>> /\ options' = options /\ asked' = asked
        /\ phase' \in {"file_error", "no_prompts", "loading"}
    BY <1>3 DEF CollectPrompts
  <2>2. Written(asked, options)
    BY <2>1, AllParsed
  <2> QED
    BY <2>1, <2>2
<1>4. CASE ApplyTemplate
  <2>1. phase' \in {"serving", "generating"} /\ asked' = asked
    BY <1>4 DEF ApplyTemplate
  <2> QED
    BY <1>1, <2>1
<1>5. ASSUME NEW line \in InputLines, ReadLine(line)
      PROVE  WrittenInv'
  <2>1. phase' \in {"serving", "draining"} /\ asked' = asked
    BY <1>5 DEF ReadLine
  <2> QED
    BY <1>1, <2>1
<1>6. CASE EndOfInput
  BY <1>1, <1>6 DEF EndOfInput
<1>7. CASE SetParams
  <2>1. phase' = "sampling" /\ asked' = <<>>
    BY <1>7 DEF SetParams
  <2> QED
    BY <2>1
<1>8. CASE SampleFromProbs
  <2>1. phase' \in {"sampled", "drawing"} /\ asked' = asked
    BY <1>8 DEF SampleFromProbs, CutCandidates
  <2> QED
    BY <1>1, <2>1
<1>9. ASSUME NEW r \in 0 .. Total(Adjustment, candidates), Draw(r)
      PROVE  WrittenInv'
  <2>1. phase' = "sampled" /\ asked' = asked
    BY <1>9 DEF Draw
  <2> QED
    BY <1>1, <2>1
<1>10. CASE UNCHANGED vars
  BY <1>10 DEF vars, frontVars
<1> QED
  BY <1>2, <1>3, <1>4, <1>5, <1>6, <1>7, <1>8, <1>9, <1>10 DEF Next, FrontStep, FrontNext

(* An accepted command line means what it says. *)
THEOREM CommandLineAsWritten == Spec => []OptionsAsWritten
<1>1. WrittenInv => OptionsAsWritten
  BY DEF WrittenInv, Written, OptionsAsWritten
<1> QED
  BY <1>1, WrittenInit, WrittenStep, FrontInvariant, PTL DEF Spec

-----------------------------------------------------------------------------
(* The chat template: the place holder is found once, where it was written,
   whatever is put in. *)
LoopStep(s, query) ==
    LET found == Found(s.text, s.pos)
        at == CHOOSE i \in found : \A j \in found : i <= j
    IN IF found = {} THEN s
       ELSE [text |-> SubSeq(s.text, 1, at - 1) \o query
                      \o SubSeq(s.text, at + 2, Len(s.text)),
             pos |-> Behind(at, query)]
LoopStart == [text |-> ChatTemplate, pos |-> 1]
IsLoop(loop, query) ==
    loop = [n \in 0 .. Len(ChatTemplate) |->
              IF n = 0 THEN LoopStart ELSE LoopStep(loop[n - 1], query)]

LEMMA TemplatedIsLoop ==
    ASSUME NEW query
    PROVE  Templated(query) = (CHOOSE loop : IsLoop(loop, query))[Len(ChatTemplate)].text
  BY DEF Templated, IsLoop, LoopStep, LoopStart

LEMMA OnePiece ==
    ASSUME NEW S, NEW s, NEW i \in Int, s[i] \in S
    PROVE  SubSeq(s, i, i) = << s[i] >>
<1>1. \A j \in i .. i : j = i
  OBVIOUS
<1>2. \A j \in i .. i : s[j] \in S
  BY <1>1
<1>3. /\ SubSeq(s, i, i) \in Seq(S)
      /\ Len(SubSeq(s, i, i)) = IF i <= i THEN i - i + 1 ELSE 0
      /\ \A j \in 1 .. i - i + 1 : SubSeq(s, i, i)[j] = s[i + j - 1]
  <2>1. ASSUME NEW m \in Int, NEW n \in Int, \A j \in m .. n : s[j] \in S
        PROVE  /\ SubSeq(s, m, n) \in Seq(S)
               /\ Len(SubSeq(s, m, n)) = IF m <= n THEN n - m + 1 ELSE 0
               /\ \A j \in 1 .. n - m + 1 : SubSeq(s, m, n)[j] = s[m + j - 1]
    BY <2>1, SubSeqProperties
  <2> QED
    BY <1>2, <2>1, Zenon
<1> DEFINE t == SubSeq(s, i, i)
<1>4. i <= i /\ i - i + 1 = 1 /\ 1 \in 1 .. 1 /\ i + 1 - 1 = i
  OBVIOUS
<1>5. t \in Seq(S) /\ Len(t) = 1 /\ t[1] = s[i]
  BY <1>3, <1>4
<1> HIDE DEF t
<1>6. t = << t[1] >>
  <2>1. << t[1] >> \in Seq(S) /\ Len(<< t[1] >>) = 1 /\ << t[1] >>[1] = t[1]
    BY <1>5
  <2>2. \A j \in 1 .. 1 : j = 1
    OBVIOUS
  <2> QED
    BY <1>5, <2>1, <2>2, SeqEqual
<1> QED
  BY <1>5, <1>6 DEF t

LEMMA Enclosed ==
    ASSUME NEW S, NEW a \in S, NEW b \in S, NEW q \in Seq(S)
    PROVE  LET w == <<a>> \o q \o <<b>> IN
             /\ Len(q) \in Nat
             /\ w \in Seq(S)
             /\ Len(w) = Len(q) + 2
             /\ w[1] = a
             /\ \A i \in 1 .. Len(q) : w[i + 1] = q[i]
             /\ w[Len(q) + 2] = b
<1> DEFINE one == <<a>>
           last == <<b>>
           v == one \o q
           w == v \o last
           n == Len(q)
<1>1. /\ one \in Seq(S) /\ Len(one) = 1 /\ one[1] = a
      /\ last \in Seq(S) /\ Len(last) = 1 /\ last[1] = b
  OBVIOUS
<1>2. n \in Nat
  BY LenProperties
<1> HIDE DEF one, last
<1>3. /\ v \in Seq(S) /\ Len(v) = 1 + n
      /\ \A i \in 1 .. 1 + n : v[i] = IF i <= 1 THEN one[i] ELSE q[i - 1]
  <2>1. /\ v \in Seq(S) /\ Len(v) = Len(one) + n
        /\ \A i \in 1 .. Len(one) + n :
              v[i] = IF i <= Len(one) THEN one[i] ELSE q[i - Len(one)]
    BY <1>1, ConcatProperties
  <2> QED
    BY <1>1, <2>1
<1> HIDE DEF v
<1>4. /\ w \in Seq(S) /\ Len(w) = Len(v) + 1
      /\ \A i \in 1 .. Len(v) + 1 : w[i] = IF i <= Len(v) THEN v[i] ELSE last[i - Len(v)]
  <2>1. /\ w \in Seq(S) /\ Len(w) = Len(v) + Len(last)
        /\ \A i \in 1 .. Len(v) + Len(last) :
              w[i] = IF i <= Len(v) THEN v[i] ELSE last[i - Len(v)]
    BY <1>1, <1>3, ConcatProperties
  <2> QED
    BY <1>1, <2>1
<1> HIDE DEF w, n
<1>5. Len(w) = n + 2 /\ \A i \in 1 .. n + 2 : w[i] = IF i <= n + 1 THEN v[i] ELSE last[i - (n + 1)]
  BY <1>2, <1>3, <1>4
<1>6. w[1] = a
  BY <1>1, <1>2, <1>3, <1>5
<1>7. ASSUME NEW i \in 1 .. n
      PROVE  w[i + 1] = q[i]
  <2>1. /\ i + 1 \in 1 .. n + 2 /\ i + 1 <= n + 1 /\ i + 1 \in 1 .. 1 + n /\ ~(i + 1 <= 1)
        /\ i + 1 - 1 = i
    BY <1>2
  <2>2. w[i + 1] = v[i + 1]
    BY <1>5, <2>1
  <2>3. v[i + 1] = q[i + 1 - 1]
    BY <1>3, <2>1
  <2> QED
    BY <2>1, <2>2, <2>3
<1>8. w[n + 2] = b
  <2> DEFINE i == n + 2
  <2>1. i \in 1 .. n + 2 /\ ~(i <= n + 1) /\ i - (n + 1) = 1
    BY <1>2
  <2> HIDE DEF i
  <2>2. w[i] = last[i - (n + 1)]
    BY <1>5, <2>1
  <2>3. w[i] = b
    BY <1>1, <2>1, <2>2
  <2> QED
    BY <2>3 DEF i
<1> QED
  BY <1>2, <1>4, <1>5, <1>6, <1>7, <1>8 DEF w, v, one, last, n

Pieces == STRING \cup {"<system>", "<assistant>"}
LEMMA WrappedPieces ==
    ASSUME NEW q \in Seq(STRING)
    PROVE  /\ Len(q) \in Nat
           /\ Wrapped(q) \in Seq(Pieces)
           /\ Len(Wrapped(q)) = Len(q) + 2
           /\ Wrapped(q)[Len(q) + 2] = "<assistant>"
<1>1. q \in Seq(Pieces)
  BY SeqMonotonic DEF Pieces
<1>2. "<system>" \in Pieces /\ "<assistant>" \in Pieces
  BY DEF Pieces
<1> HIDE DEF Pieces
<1> QED
  BY <1>1, <1>2, Enclosed DEF Wrapped

LEMMA FirstFound ==
    ASSUME NEW q \in Seq(STRING)
    PROVE  LoopStep(LoopStart, q) = [text |-> Wrapped(q), pos |-> 2 + Len(q)]
<1>1. /\ Len(ChatTemplate) = 4
      /\ ChatTemplate[1] = "<system>" /\ ChatTemplate[2] = "{user_"
      /\ ChatTemplate[3] = "query}" /\ ChatTemplate[4] = "<assistant>"
  BY DEF ChatTemplate
<1>2. Found(ChatTemplate, 1) = {2}
  <2> DEFINE Is(i) == ChatTemplate[i] = "{user_" /\ ChatTemplate[i + 1] = "query}"
  <2>1. Found(ChatTemplate, 1) = {i \in 1 .. 4 - 1 : Is(i)}
    BY <1>1 DEF Found
  <2>2. \A i \in 1 .. 4 - 1 : i = 1 \/ i = 2 \/ i = 3
    OBVIOUS
  <2>3. ~Is(1) /\ Is(2) /\ ~Is(3)
    <3>1. 1 + 1 = 2 /\ 2 + 1 = 3 /\ 3 + 1 = 4
      OBVIOUS
    <3> QED
      BY <1>1, <3>1
  <2> HIDE DEF Is
  <2>4. 2 \in 1 .. 4 - 1
    OBVIOUS
  <2> QED
    BY <2>1, <2>2, <2>3, <2>4
<1>3. (CHOOSE i \in {2} : \A j \in {2} : i <= j) = 2
  OBVIOUS
<1>4. /\ SubSeq(ChatTemplate, 1, 1) = <<"<system>">>
      /\ SubSeq(ChatTemplate, 4, 4) = <<"<assistant>">>
  <2>1. \A s : \A i \in Int : SubSeq(s, i, i) = << s[i] >>
    <3>1. \A s : \A i \in Int : s[i] \in {s[i]}
      OBVIOUS
    <3> QED
      BY <3>1, OnePiece
  <2>2. 1 \in Int /\ 4 \in Int
    OBVIOUS
  <2>3. SubSeq(ChatTemplate, 1, 1) = << ChatTemplate[1] >>
    BY <2>1, <2>2
  <2>4. SubSeq(ChatTemplate, 4, 4) = << ChatTemplate[4] >>
    BY <2>1, <2>2
  <2> QED
    BY <1>1, <2>3, <2>4
<1>5. 2 - 1 = 1 /\ 2 + 2 = 4
  OBVIOUS
<1>6. LoopStart.text = ChatTemplate /\ LoopStart.pos = 1
  BY DEF LoopStart
<1>7. LoopStep(LoopStart, q) =
        [text |-> <<"<system>">> \o q \o <<"<assistant>">>, pos |-> Behind(2, q)]
  BY <1>1, <1>2, <1>3, <1>4, <1>5, <1>6 DEF LoopStep
<1> QED
  BY <1>7 DEF Wrapped, Behind

LEMMA NoMoreFound ==
    ASSUME NEW q \in Seq(STRING)
    PROVE  LET s == [text |-> Wrapped(q), pos |-> 2 + Len(q)] IN LoopStep(s, q) = s
<1> DEFINE s == [text |-> Wrapped(q), pos |-> 2 + Len(q)]
<1>1. Found(s.text, s.pos) = {}
  <2> DEFINE n == Len(q)
  <2>1. n \in Nat /\ Len(Wrapped(q)) = n + 2
    BY WrappedPieces
  <2> HIDE DEF n
  <2>2. 2 + n .. n + 2 - 1 = {}
    BY <2>1
  <2>3. s.text = Wrapped(q) /\ s.pos = 2 + n
    BY DEF n
  <2> QED
    <3>1. \A t, p : p .. Len(t) - 1 = {} => Found(t, p) = {}
      BY DEF Found
    <3> HIDE DEF s
    <3> QED
      BY <2>1, <2>2, <2>3, <3>1
<1> QED
  BY <1>1 DEF LoopStep

LEMMA TemplatedWraps ==
    ASSUME NEW q \in Seq(STRING)
    PROVE  Templated(q) = Wrapped(q)
<1> DEFINE s == [text |-> Wrapped(q), pos |-> 2 + Len(q)]
           Value(f, n) == IF n = 0 THEN LoopStart ELSE LoopStep(f[n - 1], q)
           f == [n \in 0 .. 4 |-> IF n = 0 THEN LoopStart ELSE s]
           C == CHOOSE loop : IsLoop(loop, q)
<1>1. LoopStep(LoopStart, q) = s /\ LoopStep(s, q) = s
  BY FirstFound, NoMoreFound
<1>2. Len(ChatTemplate) = 4
  BY DEF ChatTemplate
<1>3. s.text = Wrapped(q)
  OBVIOUS
<1> HIDE DEF s
<1>4. \A n \in 0 .. 4 : f[n] = Value(f, n)
  BY <1>1
<1>5. f = [n \in 0 .. 4 |-> f[n]]
  OBVIOUS
<1> HIDE DEF f
<1>6. f = [n \in 0 .. 4 |-> Value(f, n)]
  BY <1>4, <1>5
<1>7. IsLoop(f, q)
  BY <1>2, <1>6 DEF IsLoop
<1>8. IsLoop(C, q)
  BY <1>7
<1> HIDE DEF C
<1>9. \A n \in 0 .. 4 : C[n] = IF n = 0 THEN LoopStart ELSE LoopStep(C[n - 1], q)
  BY <1>2, <1>8 DEF IsLoop
<1>10. C[0] = LoopStart
  BY <1>9
<1>11. C[1] = s
  BY <1>1, <1>9, <1>10, 1 \in 0 .. 4, 1 - 1 = 0, 1 # 0
<1>12. C[2] = s
  BY <1>1, <1>9, <1>11, 2 \in 0 .. 4, 2 - 1 = 1, 2 # 0
<1>13. C[3] = s
  BY <1>1, <1>9, <1>12, 3 \in 0 .. 4, 3 - 1 = 2, 3 # 0
<1>14. C[4] = s
  BY <1>1, <1>9, <1>13, 4 \in 0 .. 4, 4 - 1 = 3, 4 # 0
<1> QED
  BY <1>2, <1>3, <1>14, TemplatedIsLoop DEF C

-----------------------------------------------------------------------------
(* What trim leaves of a line. *)
LEMMA GreatestElement ==
    ASSUME NEW n \in Nat, NEW T, T \subseteq 1 .. n, T # {}
    PROVE  \E x \in T : \A y \in T : x >= y
<1> DEFINE U == {u \in 1 .. n : n + 1 - u \in T}
<1>1. U \subseteq Nat
  OBVIOUS
<1>2. PICK t : t \in T
  OBVIOUS
<1>3. t \in 1 .. n
  BY <1>2
<1>4. n + 1 - t \in 1 .. n /\ n + 1 - (n + 1 - t) = t
  BY <1>3
<1>5. n + 1 - t \in U
  BY <1>2, <1>4
<1>6. PICK u \in U : \A v \in U : u <= v
  BY <1>1, <1>5, LeastElement
<1>7. ASSUME NEW y \in T
      PROVE  n + 1 - u >= y
  <2>1. y \in 1 .. n
    OBVIOUS
  <2>2. n + 1 - y \in 1 .. n /\ n + 1 - (n + 1 - y) = y
    BY <2>1
  <2>3. n + 1 - y \in U
    BY <2>2
  <2>4. u <= n + 1 - y /\ u \in 1 .. n
    BY <1>6, <2>3
  <2> QED
    BY <2>1, <2>4
<1> QED
  BY <1>6, <1>7

LEMMA TrimFacts ==
    ASSUME NEW line \in Seq(STRING)
    PROVE  /\ Blank(line) <=> Trim(line) = <<>>
           /\ Trim(line) \in Seq(STRING)
           /\ ~Blank(line) => /\ TrimmedFrom(Trim(line), line)
                              /\ \E a, b \in DOMAIN line : Trim(line) = SubSeq(line, a, b)
<1> DEFINE n == Len(line)
           solid == {i \in DOMAIN line : line[i] # " "}
           First1 == CHOOSE i \in solid : \A j \in solid : i <= j
           Last1 == CHOOSE i \in solid : \A j \in solid : i >= j
<1>1. n \in Nat /\ DOMAIN line = 1 .. n
  BY LenProperties
<1>2. CASE Blank(line)
  BY <1>2 DEF Trim
<1>3. CASE ~Blank(line)
  <2>1. Trim(line) = SubSeq(line, First1, Last1)
    BY <1>3 DEF Trim
  <2>2. solid # {} /\ solid \subseteq 1 .. n /\ solid \subseteq Nat
    <3>1. solid # {}
      BY <1>3 DEF Blank
    <3>2. solid \subseteq DOMAIN line
      OBVIOUS
    <3> HIDE DEF solid
    <3> QED
      BY <1>1, <3>1, <3>2
  <2>3. \A i \in 1 .. n : i \in solid \/ line[i] = " "
    BY <1>1
  <2>4. \A i \in solid : line[i] # " "
    OBVIOUS
  <2> HIDE DEF solid, n
  <2>5. First1 \in solid /\ \A j \in solid : First1 <= j
    BY <2>2, LeastElement
  <2>6. Last1 \in solid /\ \A j \in solid : Last1 >= j
    BY <1>1, <2>2, GreatestElement
  <2> HIDE DEF First1, Last1
  <2>7. PICK a, b : a = First1 /\ b = Last1
    OBVIOUS
  <2>0. a \in solid /\ b \in solid /\ a <= b
    BY <2>5, <2>6, <2>7
  <2>8. a \in 1 .. n /\ b \in 1 .. n /\ a \in Int /\ b \in Int /\ a <= b
    BY <1>1, <2>0, <2>2
  <2>18. line[a] # " " /\ line[b] # " "
    BY <2>0, <2>4
  <2>9. ASSUME NEW i \in 1 .. n
        PROVE  i \in a .. b \/ line[i] = " "
    <3>1. CASE i \in solid
      <4>1. a <= i /\ b >= i /\ i \in Int
        BY <1>1, <2>5, <2>6, <2>7, <3>1
      <4>2. i \in a .. b
        BY <2>8, <4>1
      <4> QED
        BY <4>2
    <3> QED
      BY <2>3, <3>1
  <2> DEFINE kept == SubSeq(line, a, b)
  <2>10. Trim(line) = kept
    BY <2>1, <2>7
  <2>11. /\ kept \in Seq(STRING) /\ Len(kept) = b - a + 1
         /\ \A i \in 1 .. b - a + 1 : kept[i] = line[a + i - 1]
    <3>1. \A i \in a .. b : i \in 1 .. n
      BY <1>1, <2>8
    <3>2. \A i \in a .. b : line[i] \in STRING
      BY <3>1, ElementOfSeq DEF n
    <3>3. /\ kept \in Seq(STRING)
          /\ Len(kept) = IF a <= b THEN b - a + 1 ELSE 0
          /\ \A i \in 1 .. b - a + 1 : kept[i] = line[a + i - 1]
      BY <2>8, <3>2, SubSeqProperties
    <3> HIDE DEF kept
    <3> QED
      BY <2>8, <3>3
  <2> HIDE DEF kept
  <2>12. b - a + 1 \in Nat /\ b - a + 1 >= 1
    BY <1>1, <2>8
  <2>13. kept # <<>>
    BY <2>11, <2>12, EmptySeq
  <2>14. kept[1] = line[a]
    <3>1. 1 \in 1 .. b - a + 1 /\ a + 1 - 1 = a
      BY <2>8, <2>12
    <3> QED
      BY <2>11, <3>1
  <2>15. kept[Len(kept)] = line[b]
    <3>1. Len(kept) \in 1 .. b - a + 1 /\ a + Len(kept) - 1 = b
      BY <2>8, <2>11, <2>12
    <3> QED
      BY <2>11, <3>1
  <2>16. TrimmedFrom(kept, line)
    <3> DEFINE i == a - 1
    <3>1. i \in 0 .. n /\ b \in 0 .. n /\ i + 1 = a
      BY <1>1, <2>8
    <3> HIDE DEF i
    <3>2. kept = SubSeq(line, i + 1, b)
      BY <3>1 DEF kept
    <3>3. Last(kept) = line[b]
      BY <2>15 DEF Last
    <3>4. \A m \in DOMAIN line : m \in i + 1 .. b \/ line[m] = " "
      BY <1>1, <2>9, <3>1
    <3> QED
      BY <2>18, <2>13, <2>14, <3>1, <3>2, <3>3, <3>4 DEF TrimmedFrom, n
  <2>17. a \in DOMAIN line /\ b \in DOMAIN line
    BY <1>1, <2>8
  <2> QED
    BY <1>3, <2>10, <2>11, <2>13, <2>16, <2>17 DEF kept
<1> QED
  BY <1>2, <1>3

-----------------------------------------------------------------------------
(* The rank of a position among others. *)
LEMMA RankFacts ==
    ASSUME NEW P, NEW n \in Nat, P \subseteq 1 .. n
    PROVE  /\ \A k \in 0 .. n : Rank(P, k) \in Nat
           /\ Rank(P, 0) = 0 /\ Rank(P, n) = Cardinality(P)
           /\ \A k \in 1 .. n : Rank(P, k) = IF k \in P THEN Rank(P, k - 1) + 1
                                             ELSE Rank(P, k - 1)
           /\ \A i, k \in 0 .. n : i <= k => Rank(P, i) <= Rank(P, k)
           /\ \A k \in P : Rank(P, k) \in 1 .. Cardinality(P)
<1> DEFINE Up(k) == {m \in P : m <= k}
<1>1. \A k : Rank(P, k) = Cardinality(Up(k)) /\ Up(k) \subseteq P
  BY DEF Rank
<1>2. IsFiniteSet(P) /\ Cardinality(P) \in Nat
  <2>1. IsFiniteSet(1 .. n)
    BY FS_Interval
  <2> QED
    BY <2>1, FS_Subset, FS_CardinalityType
<1>3. \A k : IsFiniteSet(Up(k)) /\ Cardinality(Up(k)) \in Nat
  BY <1>1, <1>2, FS_Subset, FS_CardinalityType
<1>4. Up(0) = {} /\ Up(n) = P
  <2>1. \A m \in P : m \in Int /\ ~(m <= 0) /\ m <= n
    OBVIOUS
  <2> QED
    BY <2>1
<1>5. ASSUME NEW k \in 1 .. n
      PROVE  Up(k) = IF k \in P THEN Up(k - 1) \cup {k} ELSE Up(k - 1)
  <2>1. \A m \in P : m \in Int
    OBVIOUS
  <2>2. \A m \in P : m <= k <=> m <= k - 1 \/ m = k
    BY <2>1
  <2>3. CASE k \in P
    BY <2>2, <2>3
  <2>4. CASE k \notin P
    BY <2>2, <2>4
  <2> QED
    BY <2>3, <2>4
<1>6. \A k \in 1 .. n : k \notin Up(k - 1)
  OBVIOUS
<1>7. \A i, k \in 0 .. n : i <= k => Up(i) \subseteq Up(k)
  <2>1. \A m \in P : m \in Int
    OBVIOUS
  <2>2. \A m \in P, i, k \in 0 .. n : m <= i /\ i <= k => m <= k
    BY <2>1
  <2> QED
    BY <2>2
<1> HIDE DEF Up
<1>8. ASSUME NEW k \in 1 .. n
      PROVE  Rank(P, k) = IF k \in P THEN Rank(P, k - 1) + 1 ELSE Rank(P, k - 1)
  <2>1. Cardinality(Up(k - 1) \cup {k}) = Cardinality(Up(k - 1)) + 1
    BY <1>3, <1>6, FS_AddElement
  <2>2. CASE k \in P
    BY <1>1, <1>5, <2>1, <2>2
  <2>3. CASE k \notin P
    BY <1>1, <1>5, <2>3
  <2> QED
    BY <2>2, <2>3
<1>9. ASSUME NEW i \in 0 .. n, NEW k \in 0 .. n, i <= k
      PROVE  Rank(P, i) <= Rank(P, k)
  BY <1>1, <1>3, <1>7, <1>9, FS_Subset
<1>10. Rank(P, 0) = 0 /\ Rank(P, n) = Cardinality(P)
  BY <1>1, <1>4, FS_EmptySet
<1>11. ASSUME NEW k \in P
       PROVE  Rank(P, k) \in 1 .. Cardinality(P)
  <2>1. k \in 1 .. n /\ k - 1 \in 0 .. n /\ k \in 0 .. n /\ n \in 0 .. n /\ k <= n
    OBVIOUS
  <2>2. Rank(P, k) = Rank(P, k - 1) + 1
    BY <1>8, <2>1
  <2>3. Rank(P, k - 1) \in Nat /\ Rank(P, k) <= Rank(P, n)
    BY <1>1, <1>3, <1>9, <2>1
  <2> QED
    BY <1>2, <1>10, <2>2, <2>3
<1>12. \A k : Rank(P, k) \in Nat
  BY <1>1, <1>3
<1> QED
  BY <1>8, <1>9, <1>10, <1>11, <1>12

-----------------------------------------------------------------------------
(* The prompts of a file, line after line. *)
ReadStep(read, lines, k) ==
    IF Trim(lines[k]) = <<>> THEN read[k - 1] ELSE Append(read[k - 1], Trim(lines[k]))
IsRead(read, lines, n) ==
    read = [k \in 0 .. n |-> IF k = 0 THEN <<>> ELSE ReadStep(read, lines, k)]

LEMMA ReadContinued ==
    ASSUME NEW lines, NEW n \in Nat, NEW f, IsRead(f, lines, n)
    PROVE  \E h : IsRead(h, lines, n + 1)
<1> DEFINE Longer == ReadStep(f, lines, n + 1)
           h == [i \in 0 .. n + 1 |-> IF i <= n THEN f[i] ELSE Longer]
           Value(i) == IF i = 0 THEN <<>> ELSE ReadStep(h, lines, i)
<1>0. \A a, b, i : a[i - 1] = b[i - 1] => ReadStep(a, lines, i) = ReadStep(b, lines, i)
  BY DEF ReadStep
<1>1. ASSUME NEW i \in 0 .. n + 1
      PROVE  h[i] = Value(i)
  <2>1. CASE i = 0
    BY <2>1 DEF IsRead
  <2>2. CASE i \in 1 .. n
    <3>1. h[i] = f[i] /\ h[i - 1] = f[i - 1] /\ i \in 0 .. n /\ i # 0
      BY <2>2
    <3>2. f[i] = ReadStep(f, lines, i)
      BY <3>1 DEF IsRead
    <3> HIDE DEF h
    <3> QED
      BY <1>0, <3>1, <3>2
  <2>3. CASE i = n + 1
    <3>1. h[i] = Longer /\ h[i - 1] = f[i - 1] /\ i # 0
      BY <2>3
    <3> HIDE DEF h
    <3> QED
      BY <1>0, <2>3, <3>1
  <2> QED
    BY <2>1, <2>2, <2>3
<1>2. h = [i \in 0 .. n + 1 |-> h[i]]
  OBVIOUS
<1> HIDE DEF h
<1>3. h = [i \in 0 .. n + 1 |-> Value(i)]
  BY <1>1, <1>2
<1> QED
  BY <1>3 DEF IsRead

LEMMA ReadExists ==
    ASSUME NEW lines, NEW n \in Nat
    PROVE  \E read : IsRead(read, lines, n)
<1> DEFINE T == {m \in Nat : ~\E read : IsRead(read, lines, m)}
<1>1. SUFFICES ASSUME T # {}
               PROVE  FALSE
  OBVIOUS
<1>2. PICK m \in T : \A k \in T : m <= k
  BY <1>1, LeastElement
<1>3. CASE m = 0
  <2>1. IsRead([i \in 0 .. 0 |-> <<>>], lines, 0)
    BY DEF IsRead
  <2> QED
    BY <1>2, <1>3, <2>1
<1>4. CASE m > 0
  <2>1. m - 1 \in Nat /\ m - 1 \notin T
    BY <1>2, <1>4
  <2>2. PICK f : IsRead(f, lines, m - 1)
    BY <2>1
  <2>3. \E h : IsRead(h, lines, m - 1 + 1)
    BY <2>1, <2>2, ReadContinued
  <2> QED
    BY <1>2, <2>3
<1> QED
  BY <1>2, <1>3, <1>4

LEMMA PromptsOfFacts ==
    ASSUME NEW lines \in Seq(Seq(STRING))
    PROVE  /\ PromptsOf(lines) \in Seq(Seq(STRING))
           /\ Len(PromptsOf(lines)) = Cardinality(Solid(lines))
           /\ \A m \in Solid(lines) :
                 PromptsOf(lines)[Rank(Solid(lines), m)] = Trim(lines[m])
<1> DEFINE n == Len(lines)
           P == Solid(lines)
           C == CHOOSE read : IsRead(read, lines, n)
           Good(k) == /\ C[k] \in Seq(Seq(STRING)) /\ Len(C[k]) = Rank(P, k)
                      /\ \A m \in P : m <= k => C[k][Rank(P, m)] = Trim(lines[m])
<1>1. PromptsOf(lines) = C[n]
  BY DEF PromptsOf, IsRead, ReadStep
<1>2. n \in Nat /\ DOMAIN lines = 1 .. n /\ \A k \in 1 .. n : lines[k] \in Seq(STRING)
  BY LenProperties, ElementOfSeq
<1>3. \A k \in 1 .. n : k \in P <=> Trim(lines[k]) # <<>>
  BY <1>2, TrimFacts DEF Solid
<1>4. P \subseteq 1 .. n
  BY <1>2 DEF Solid
<1>5. \A k \in 1 .. n : Trim(lines[k]) \in Seq(STRING)
  BY <1>2, TrimFacts
<1>6. IsRead(C, lines, n)
  BY <1>2, ReadExists
<1> HIDE DEF C, P, n
<1>7. C[0] = <<>>
  BY <1>2, <1>6 DEF IsRead
<1>8. \A k \in 1 .. n : C[k] = ReadStep(C, lines, k)
  <2>1. \A k \in 1 .. n : k \in 0 .. n /\ k # 0
    BY <1>2
  <2> QED
    BY <1>6, <2>1 DEF IsRead
<1>9. /\ Rank(P, 0) = 0 /\ Rank(P, n) = Cardinality(P)
      /\ \A k \in 0 .. n : Rank(P, k) \in Nat
      /\ \A k \in 1 .. n : Rank(P, k) = IF k \in P THEN Rank(P, k - 1) + 1 ELSE Rank(P, k - 1)
      /\ \A i, k \in 0 .. n : i <= k => Rank(P, i) <= Rank(P, k)
      /\ \A k \in P : Rank(P, k) \in 1 .. Cardinality(P)
  BY <1>2, <1>4, RankFacts
<1>10. Good(0)
  <2>1. \A m \in P : ~(m <= 0)
    BY <1>2, <1>4
  <2> QED
    BY <1>7, <1>9, <2>1, EmptySeq
<1>11. ASSUME NEW k \in 1 .. n, Good(k - 1)
       PROVE  Good(k)
  <2> DEFINE before == C[k - 1]
             kept == Trim(lines[k])
  <2>1. /\ before \in Seq(Seq(STRING)) /\ Len(before) = Rank(P, k - 1)
        /\ \A m \in P : m <= k - 1 => before[Rank(P, m)] = Trim(lines[m])
    BY <1>11
  <2>2. C[k] = IF kept = <<>> THEN before ELSE Append(before, kept)
    BY <1>8 DEF ReadStep
  <2>3. kept \in Seq(STRING) /\ (k \in P <=> kept # <<>>)
    BY <1>3, <1>5
  <2>4. k \in Nat /\ k - 1 \in 0 .. n /\ k \in 0 .. n /\ Rank(P, k - 1) \in Nat
    BY <1>2, <1>9
  <2>5. \A m \in P : m \in 1 .. n /\ m \in 0 .. n /\ m \in Int
    BY <1>2, <1>4
  <2>6. \A m \in P : m <= k => m <= k - 1 \/ m = k
    BY <2>4, <2>5
  <2>7. Rank(P, k) = IF k \in P THEN Rank(P, k - 1) + 1 ELSE Rank(P, k - 1)
    BY <1>9
  <2> HIDE DEF before
  <2>8. CASE k \notin P
    <3>1. C[k] = before /\ Rank(P, k) = Rank(P, k - 1)
      BY <2>2, <2>3, <2>7, <2>8
    <3>2. \A m \in P : m <= k => m <= k - 1
      BY <2>6, <2>8
    <3> QED
      BY <2>1, <3>1, <3>2
  <2>9. CASE k \in P
    <3>1. C[k] = Append(before, kept) /\ Rank(P, k) = Rank(P, k - 1) + 1
      BY <2>2, <2>3, <2>7, <2>9
    <3> HIDE DEF kept
    <3>2. /\ C[k] \in Seq(Seq(STRING)) /\ Len(C[k]) = Rank(P, k)
          /\ \A i \in 1 .. Len(before) : C[k][i] = before[i]
          /\ C[k][Rank(P, k)] = kept
      BY <2>1, <2>3, <3>1, AppendProperties
    <3>3. ASSUME NEW m \in P, m <= k
          PROVE  C[k][Rank(P, m)] = Trim(lines[m])
      <4>1. CASE m = k
        BY <3>2, <4>1 DEF kept
      <4>2. CASE m <= k - 1
        <5>1. Rank(P, m) \in 1 .. Cardinality(P) /\ Rank(P, m) <= Rank(P, k - 1)
          BY <1>9, <2>4, <2>5, <4>2
        <5>2. \A x \in Nat : \A y \in Nat : \A z \in 1 .. y : z <= x => z \in 1 .. x
          OBVIOUS
        <5>3. Cardinality(P) \in Nat
          BY <1>2, <1>9
        <5>4. Rank(P, m) \in 1 .. Len(before)
          BY <2>1, <2>4, <5>1, <5>2, <5>3
        <5> QED
          BY <2>1, <3>2, <4>2, <5>4
      <4> QED
        BY <2>6, <3>3, <4>1, <4>2
    <3> QED
      BY <3>2, <3>3
  <2> QED
    BY <2>8, <2>9
<1> HIDE DEF Good
<1>12. ASSUME NEW k \in 0 .. n
       PROVE  Good(k)
  <2> DEFINE T == {j \in 0 .. n : ~Good(j)}
  <2>1. SUFFICES ASSUME T # {}
                 PROVE  FALSE
    OBVIOUS
  <2>2. PICK j \in T : \A i \in T : j <= i
    BY <2>1, LeastElement, T \subseteq Nat
  <2>3. j # 0
    BY <1>10, <2>2
  <2>4. j \in 1 .. n /\ j - 1 \in 0 .. n /\ ~(j <= j - 1)
    BY <1>2, <2>2, <2>3
  <2>5. j - 1 \notin T
    BY <2>2, <2>4
  <2>6. Good(j - 1)
    BY <2>4, <2>5
  <2> QED
    BY <1>11, <2>2, <2>4, <2>6
<1>13. Good(n)
  BY <1>2, <1>12
<1>14. \A m \in P : m <= n
  BY <1>2, <1>4
<1> QED
  BY <1>1, <1>9, <1>13, <1>14 DEF Good, P

-----------------------------------------------------------------------------
(* What has arrived, for any file, any given prompt and any lines typed. *)
Arrived(got, lines, given, lived) ==
    LET from_file == Cardinality(Solid(lines))
        before_live == from_file + Len(given)
    IN /\ Len(got) = before_live + Cardinality(Live(lived))
       /\ \A n \in Solid(lines) :
            \E a, b \in DOMAIN lines[n] :
              /\ TrimmedFrom(SubSeq(lines[n], a, b), lines[n])
              /\ got[Rank(Solid(lines), n)] = Wrapped(SubSeq(lines[n], a, b))
       /\ \A i \in DOMAIN given : got[from_file + i] = Wrapped(given[i])
       /\ \A n \in Live(lived) :
            got[before_live + Rank(Live(lived), n)] = Wrapped(lived[n])

Texts == Seq(STRING)

LEMMA SolidFacts ==
    ASSUME NEW lines \in Seq(Texts)
    PROVE  /\ Len(lines) \in Nat /\ DOMAIN lines = 1 .. Len(lines)
           /\ Solid(lines) \subseteq 1 .. Len(lines)
           /\ Live(lines) \subseteq 1 .. Len(lines)
           /\ Cardinality(Solid(lines)) \in Nat /\ Cardinality(Live(lines)) \in Nat
           /\ \A k \in Solid(lines) :
                 Rank(Solid(lines), k) \in 1 .. Cardinality(Solid(lines))
           /\ \A k \in Live(lines) :
                 Rank(Live(lines), k) \in 1 .. Cardinality(Live(lines))
<1>1. Len(lines) \in Nat /\ DOMAIN lines = 1 .. Len(lines)
  BY LenProperties
<1>2. Solid(lines) \subseteq 1 .. Len(lines) /\ Live(lines) \subseteq 1 .. Len(lines)
  BY <1>1 DEF Solid, Live
<1>3. IsFiniteSet(1 .. Len(lines))
  BY <1>1, FS_Interval
<1>4. Cardinality(Solid(lines)) \in Nat /\ Cardinality(Live(lines)) \in Nat
  BY <1>2, <1>3, FS_Subset, FS_CardinalityType
<1> QED
  BY <1>1, <1>2, <1>4, RankFacts

LEMMA NothingLive == Live(<<>>) = {} /\ Cardinality(Live(<<>>)) = 0
<1>1. DOMAIN <<>> = {}
  OBVIOUS
<1>2. Live(<<>>) = {}
  BY <1>1 DEF Live, Solid
<1> QED
  BY <1>2, FS_EmptySet

LEMMA FunctionIsSeq ==
    ASSUME NEW S, NEW n \in Nat, NEW s \in [1 .. n -> S]
    PROVE  s \in Seq(S) /\ Len(s) = n
  BY SeqDef

LEMMA CollectedArrive ==
    ASSUME NEW lines \in Seq(Texts), NEW given \in Seq(Texts),
           NEW all, all = PromptsOf(lines) \o given,
           NEW got, got = [i \in DOMAIN all |-> Templated(all[i])]
    PROVE  Arrived(got, lines, given, <<>>) /\ got \in Seq(Seq(Pieces))
<1> DEFINE f == Cardinality(Solid(lines))
           g == Len(given)
           read == PromptsOf(lines)
           rank(m) == Rank(Solid(lines), m)
<1>1. /\ read \in Seq(Texts) /\ Len(read) = f
      /\ \A m \in Solid(lines) : read[rank(m)] = Trim(lines[m])
  BY PromptsOfFacts DEF Texts
<1>2. /\ f \in Nat /\ DOMAIN lines = 1 .. Len(lines)
      /\ Solid(lines) \subseteq 1 .. Len(lines)
      /\ \A m \in Solid(lines) : rank(m) \in 1 .. f
  BY SolidFacts
<1>3. g \in Nat /\ DOMAIN given = 1 .. g
  BY LenProperties
<1>4. \A m \in 1 .. Len(lines) : lines[m] \in Seq(STRING)
  BY ElementOfSeq DEF Texts
<1> HIDE DEF f, g, read, rank
<1>5. /\ all \in Seq(Texts) /\ Len(all) = f + g
      /\ \A i \in 1 .. f + g : all[i] = IF i <= f THEN read[i] ELSE given[i - f]
  <2>1. /\ all \in Seq(Texts) /\ Len(all) = Len(read) + Len(given)
        /\ \A i \in 1 .. Len(read) + Len(given) :
              all[i] = IF i <= Len(read) THEN read[i] ELSE given[i - Len(read)]
    BY <1>1, ConcatProperties DEF read
  <2> QED
    BY <1>1, <2>1 DEF g
<1>6. DOMAIN all = 1 .. f + g /\ \A i \in 1 .. f + g : all[i] \in Seq(STRING)
  BY <1>5, LenProperties, ElementOfSeq DEF Texts
<1>7. \A i \in 1 .. f + g : got[i] = Wrapped(all[i]) /\ got[i] \in Seq(Pieces)
  BY <1>6, TemplatedWraps, WrappedPieces
<1>8. got \in [1 .. f + g -> Seq(Pieces)]
  <2>1. got = [i \in 1 .. f + g |-> got[i]]
    BY <1>6
  <2> QED
    BY <1>7, <2>1
<1>9. f + g \in Nat
  BY <1>2, <1>3
<1>10. got \in Seq(Seq(Pieces)) /\ Len(got) = f + g
  BY <1>8, <1>9, FunctionIsSeq
<1>11. ASSUME NEW m \in Solid(lines)
       PROVE  \E a, b \in DOMAIN lines[m] :
                 /\ TrimmedFrom(SubSeq(lines[m], a, b), lines[m])
                 /\ got[rank(m)] = Wrapped(SubSeq(lines[m], a, b))
  <2>1. m \in 1 .. Len(lines) /\ ~Blank(lines[m]) /\ lines[m] \in Seq(STRING)
    BY <1>2, <1>4 DEF Solid
  <2>2. /\ TrimmedFrom(Trim(lines[m]), lines[m])
        /\ \E a, b \in DOMAIN lines[m] : Trim(lines[m]) = SubSeq(lines[m], a, b)
    BY <2>1, TrimFacts
  <2>3. rank(m) \in 1 .. f + g /\ rank(m) <= f
    BY <1>2, <1>3
  <2>4. got[rank(m)] = Wrapped(Trim(lines[m]))
    BY <1>1, <1>5, <1>7, <2>3
  <2> QED
    BY <2>2, <2>4
<1>12. ASSUME NEW i \in 1 .. g
       PROVE  got[f + i] = Wrapped(given[i])
  <2> DEFINE k == f + i
  <2>1. k \in 1 .. f + g /\ ~(k <= f) /\ k - f = i
    BY <1>2, <1>3
  <2> HIDE DEF k
  <2>2. got[k] = Wrapped(given[i])
    BY <1>5, <1>7, <2>1
  <2> QED
    BY <2>2 DEF k
<1>13. f + g + 0 = f + g
  BY <1>9
<1>14. Len(got) = f + g + Cardinality(Live(<<>>)) /\ Live(<<>>) = {}
  BY <1>10, <1>13, NothingLive
<1>15. \A i \in DOMAIN given : got[f + i] = Wrapped(given[i])
  BY <1>3, <1>12
<1> QED
  BY <1>10, <1>11, <1>14, <1>15 DEF Arrived, f, g, rank

(* One line more. *)
LEMMA LineLives ==
    ASSUME NEW lived \in Seq(Texts), NEW line \in Texts
    PROVE  LET more == Append(lived, line)
               here == ~Blank(line) /\ line \notin QuitLines IN
             /\ Live(more) = Live(lived) \cup (IF here THEN {Len(lived) + 1} ELSE {})
             /\ Cardinality(Live(more)) = Cardinality(Live(lived)) + (IF here THEN 1 ELSE 0)
             /\ \A n \in Live(lived) : /\ Rank(Live(more), n) = Rank(Live(lived), n)
                                       /\ more[n] = lived[n]
             /\ here => Rank(Live(more), Len(lived) + 1) = Cardinality(Live(lived)) + 1
<1> DEFINE n == Len(lived)
           more == Append(lived, line)
           here == ~Blank(line) /\ line \notin QuitLines
           P == Live(lived)
           Q == Live(more)
<1>1. /\ n \in Nat /\ DOMAIN lived = 1 .. n /\ P \subseteq 1 .. n
      /\ Cardinality(P) \in Nat
  BY SolidFacts
<1>2. /\ more \in Seq(Texts) /\ Len(more) = n + 1
      /\ \A i \in 1 .. n : more[i] = lived[i]
      /\ more[n + 1] = line
  BY AppendProperties
<1>3. DOMAIN more = 1 .. n + 1
  BY <1>2, LenProperties
<1>4. /\ \A i : i \in P <=> i \in 1 .. n /\ ~Blank(lived[i]) /\ lived[i] \notin QuitLines
      /\ \A i : i \in Q <=> i \in 1 .. n + 1 /\ ~Blank(more[i]) /\ more[i] \notin QuitLines
  BY <1>1, <1>3 DEF Live, Solid
<1> HIDE DEF n, more, P, Q
<1>5. \A i : i \in 1 .. n + 1 <=> i \in 1 .. n \/ i = n + 1
  BY <1>1
<1>6. \A i \in 1 .. n : i \in Q <=> i \in P
  BY <1>2, <1>4, <1>5
<1>7. n + 1 \in Q <=> here
  BY <1>2, <1>4, <1>5
<1>8. \A i \in Q : i \in 1 .. n \/ i = n + 1
  BY <1>4, <1>5
<1> HIDE DEF here
<1>9. Q = P \cup (IF here THEN {n + 1} ELSE {})
  BY <1>1, <1>6, <1>7, <1>8
<1>10. \A i \in P : i \in 1 .. n
  BY <1>1
<1>11. Q \subseteq 1 .. n + 1 /\ n + 1 \in Nat
  BY <1>1, <1>4
<1>12. ASSUME NEW k \in 0 .. n
       PROVE  Rank(Q, k) = Rank(P, k)
  <2>1. ~(n + 1 <= k)
    BY <1>1
  <2>2. {m \in Q : m <= k} = {m \in P : m <= k}
    BY <1>9, <2>1
  <2> QED
    BY <2>2 DEF Rank
<1>13. Rank(P, n) = Cardinality(P) /\ Rank(Q, n + 1) = Cardinality(Q)
  BY <1>1, <1>11, RankFacts
<1>14. Rank(Q, n + 1) = IF n + 1 \in Q THEN Rank(Q, n) + 1 ELSE Rank(Q, n)
  <2> DEFINE u == n + 1
  <2>1. u \in 1 .. u /\ u - 1 = n /\ u \in Nat /\ Q \subseteq 1 .. u
    BY <1>1, <1>11
  <2> HIDE DEF u
  <2>4. \A k \in 1 .. u : Rank(Q, k) = IF k \in Q THEN Rank(Q, k - 1) + 1 ELSE Rank(Q, k - 1)
    BY <2>1, RankFacts
  <2>2. Rank(Q, u) = IF u \in Q THEN Rank(Q, u - 1) + 1 ELSE Rank(Q, u - 1)
    BY <2>1, <2>4
  <2>3. Rank(Q, u) = IF u \in Q THEN Rank(Q, n) + 1 ELSE Rank(Q, n)
    BY <2>1, <2>2
  <2> QED
    BY <2>3 DEF u
<1>15. Rank(Q, n) = Cardinality(P) /\ \A i \in P : Rank(Q, i) = Rank(P, i)
  BY <1>1, <1>10, <1>12, <1>13
<1>16. Cardinality(Q) = Cardinality(P) + (IF here THEN 1 ELSE 0)
  BY <1>1, <1>7, <1>13, <1>14, <1>15
<1>17. here => Rank(Q, n + 1) = Cardinality(P) + 1
  BY <1>7, <1>14, <1>15
<1>18. \A i \in P : Rank(Q, i) = Rank(P, i) /\ more[i] = lived[i]
  BY <1>2, <1>10, <1>15
<1> QED
  BY <1>9, <1>16, <1>17, <1>18 DEF n, more, here, P, Q

LEMMA LineArrives ==
    ASSUME NEW lines \in Seq(Texts), NEW given \in Seq(Texts),
           NEW lived \in Seq(Texts), NEW line \in Texts,
           NEW got \in Seq(Seq(Pieces)), Arrived(got, lines, given, lived),
           NEW after,
           after = IF Blank(line) \/ line \in QuitLines THEN got
                   ELSE Append(got, Templated(line))
    PROVE  Arrived(after, lines, given, Append(lived, line)) /\ after \in Seq(Seq(Pieces))
<1> DEFINE f == Cardinality(Solid(lines))
           g == Len(given)
           more == Append(lived, line)
           P == Live(lived)
           Q == Live(more)
           c == Cardinality(P)
           here == ~Blank(line) /\ line \notin QuitLines
           FromFile(n, row) ==
             \E a, b \in DOMAIN lines[n] :
                /\ TrimmedFrom(SubSeq(lines[n], a, b), lines[n])
                /\ row = Wrapped(SubSeq(lines[n], a, b))
<1>1. /\ f \in Nat /\ \A m \in Solid(lines) : Rank(Solid(lines), m) \in 1 .. f
      /\ c \in Nat /\ \A m \in P : Rank(P, m) \in 1 .. c
  BY SolidFacts
<1>2. g \in Nat /\ DOMAIN given = 1 .. g
  BY LenProperties
<1>3. /\ Q = P \cup (IF here THEN {Len(lived) + 1} ELSE {})
      /\ Cardinality(Q) = c + (IF here THEN 1 ELSE 0)
      /\ \A n \in P : Rank(Q, n) = Rank(P, n) /\ more[n] = lived[n]
      /\ here => Rank(Q, Len(lived) + 1) = c + 1
  BY LineLives
<1>4. more[Len(lived) + 1] = line
  BY AppendProperties
<1>5. /\ Len(got) = f + g + c
      /\ \A n \in Solid(lines) : FromFile(n, got[Rank(Solid(lines), n)])
      /\ \A i \in 1 .. g : got[f + i] = Wrapped(given[i])
      /\ \A n \in P : got[f + g + Rank(P, n)] = Wrapped(lived[n])
  BY <1>2 DEF Arrived
<1>6. /\ Len(after) = f + g + Cardinality(Q)
      /\ \A n \in Solid(lines) : FromFile(n, after[Rank(Solid(lines), n)])
      /\ \A i \in 1 .. g : after[f + i] = Wrapped(given[i])
      /\ \A n \in Q : after[f + g + Rank(Q, n)] = Wrapped(more[n])
      /\ after \in Seq(Seq(Pieces))
  <2>1. CASE ~here
    <3>1. after = got /\ Q = P /\ Cardinality(Q) = c
      BY <1>1, <1>3, <2>1
    <3> HIDE DEF P, Q, f, g, c, more, FromFile
    <3> QED
      BY <1>3, <1>5, <3>1
  <2>2. CASE here
    <3> DEFINE row == Templated(line)
               last == Len(lived) + 1
    <3>1. row = Wrapped(line) /\ row \in Seq(Pieces)
      BY TemplatedWraps, WrappedPieces DEF Texts
    <3>2. after = Append(got, row)
      BY <2>2
    <3>3. /\ Q = P \cup {last} /\ Cardinality(Q) = c + 1 /\ Rank(Q, last) = c + 1
          /\ more[last] = line
      BY <1>3, <1>4, <2>2
    <3> HIDE DEF row, last, P, Q, f, g, c, more, FromFile
    <3>4. /\ after \in Seq(Seq(Pieces)) /\ Len(after) = f + g + c + 1
          /\ \A i \in 1 .. f + g + c : after[i] = got[i]
          /\ after[f + g + c + 1] = row
      <4>1. /\ after \in Seq(Seq(Pieces)) /\ Len(after) = Len(got) + 1
            /\ \A i \in 1 .. Len(got) : after[i] = got[i]
            /\ after[Len(got) + 1] = row
        BY <3>1, <3>2, AppendProperties
      <4> QED
        BY <1>5, <4>1
    <3>5. ASSUME NEW n \in Solid(lines)
          PROVE  FromFile(n, after[Rank(Solid(lines), n)])
      <4>1. Rank(Solid(lines), n) \in 1 .. f + g + c
        BY <1>1, <1>2
      <4> QED
        BY <1>5, <3>4, <4>1
    <3>6. ASSUME NEW i \in 1 .. g
          PROVE  after[f + i] = Wrapped(given[i])
      <4>1. f + i \in 1 .. f + g + c
        BY <1>1, <1>2
      <4> QED
        BY <1>5, <3>4, <4>1
    <3>7. ASSUME NEW n \in Q
          PROVE  after[f + g + Rank(Q, n)] = Wrapped(more[n])
      <4>1. CASE n \in P
        <5>1. Rank(Q, n) = Rank(P, n) /\ more[n] = lived[n] /\ Rank(P, n) \in 1 .. c
          BY <1>1, <1>3, <4>1
        <5>2. f + g + Rank(P, n) \in 1 .. f + g + c
          BY <1>1, <1>2, <5>1
        <5> QED
          BY <1>5, <3>4, <4>1, <5>1, <5>2
      <4>2. CASE n = last
        <5>1. f + g + (c + 1) = f + g + c + 1
          BY <1>1, <1>2
        <5> QED
          BY <3>1, <3>3, <3>4, <4>2, <5>1
      <4> QED
        BY <3>3, <4>1, <4>2
    <3>8. f + g + c + 1 = f + g + (c + 1)
      BY <1>1, <1>2
    <3> QED
      BY <3>3, <3>4, <3>5, <3>6, <3>7, <3>8
  <2> QED
    BY <2>1, <2>2
<1> QED
  BY <1>2, <1>6 DEF Arrived

-----------------------------------------------------------------------------
(* Where the prompts are on their way through main. *)
Waiting == typed = <<>> /\ submitted = <<>>
FileKnown == options.prompt_file # "" => options.prompt_file \in DOMAIN Files
Collected == prompts = PromptsOf(PromptLines) \o Given /\ FileKnown
OnceGiven == Arrived(prompts, PromptLines, Given, typed) /\ FileKnown
InService == /\ Arrived(submitted, PromptLines, Given, typed) /\ FileKnown
             /\ typed \in Seq(Texts) /\ submitted \in Seq(Seq(Pieces))

ArriveInv ==
    /\ phase \in {"parsing", "loading"} => Waiting
    /\ phase = "loading" => Collected
    /\ phase = "generating" => ~Serving /\ OnceGiven
    /\ phase \in {"serving", "draining"} => Serving /\ InService

LEMMA SourcesTyped ==
    ASSUME IInv, FileKnown
    PROVE  PromptLines \in Seq(Texts) /\ Given \in Seq(Texts)
<1>1. PromptLines \in Seq(Texts)
  BY FrontEndAssumption, EmptySeq DEF PromptLines, FileKnown, Texts
<1>2. Given \in Seq(Texts)
  <2>1. CASE options.prompt = ""
    BY <2>1, EmptySeq DEF Given
  <2>2. CASE options.prompt # ""
    <3>1. options.prompt \in AllWords
      BY <2>2 DEF IInv, ParsingInv, SoundOptions, Words
    <3>2. TextOf(options.prompt) \in Texts
      BY <3>1, FrontEndAssumption DEF Texts
    <3>3. Given = << TextOf(options.prompt) >>
      BY <2>2 DEF Given
    <3> QED
      BY <3>2, <3>3
  <2> QED
    BY <2>1, <2>2
<1> QED
  BY <1>1, <1>2

LEMMA NothingRead == PromptsOf(<<>>) = <<>>
<1>1. <<>> \in Seq(Seq(STRING)) /\ Len(<<>>) = 0
  OBVIOUS
<1>2. Solid(<<>>) = {}
  BY DEF Solid
<1>3. PromptsOf(<<>>) \in Seq(Seq(STRING)) /\ Len(PromptsOf(<<>>)) = 0
  BY <1>1, <1>2, PromptsOfFacts, FS_EmptySet
<1> QED
  BY <1>3, EmptySeq

LEMMA ArriveInit == Init => ArriveInv
  BY DEF Init, FrontInit, ArriveInv, Waiting

LEMMA CollectPromptsArrives ==
    ASSUME IInv, ArriveInv, CollectPrompts
    PROVE  ArriveInv'
<1> DEFINE file == options.prompt_file
           given == IF options.prompt = "" THEN <<>> ELSE << TextOf(options.prompt) >>
           all == (IF file = "" THEN <<>> ELSE PromptsOf(Files[file])) \o given
<1>1. /\ phase = "parsing" /\ Waiting
      /\ UNCHANGED <<options, typed, submitted>>
      /\ phase' \in {"file_error", "no_prompts", "loading"}
      /\ phase' = "loading" => prompts' = all /\ ~(file # "" /\ file \notin DOMAIN Files)
  BY DEF CollectPrompts, ArriveInv
<1>2. all = PromptsOf(PromptLines) \o Given
  BY NothingRead DEF PromptLines, Given
<1> HIDE DEF all, given
<1>3. PromptLines' = PromptLines /\ Given' = Given
  BY <1>1 DEF PromptLines, Given
<1>4. phase' = "loading" => Collected'
  BY <1>1, <1>2, <1>3 DEF Collected, FileKnown, file
<1>5. Waiting'
  BY <1>1 DEF Waiting
<1> QED
  BY <1>1, <1>4, <1>5 DEF ArriveInv

LEMMA ApplyTemplateArrives ==
    ASSUME IInv, ArriveInv, ApplyTemplate
    PROVE  ArriveInv'
<1>1. /\ Waiting /\ Collected
      /\ UNCHANGED <<options, typed>>
      /\ prompts' = [i \in DOMAIN prompts |-> Templated(prompts[i])]
      /\ phase' = IF Serving THEN "serving" ELSE "generating"
      /\ submitted' = IF Serving THEN prompts' ELSE <<>>
  BY DEF ApplyTemplate, ArriveInv
<1>2. /\ PromptLines' = PromptLines /\ Given' = Given /\ Serving' = Serving
      /\ FileKnown' = FileKnown
  BY <1>1 DEF PromptLines, Given, Serving, FileKnown
<1>3. PromptLines \in Seq(Texts) /\ Given \in Seq(Texts)
  BY <1>1, SourcesTyped DEF Collected
<1>4. Arrived(prompts', PromptLines, Given, <<>>) /\ prompts' \in Seq(Seq(Pieces))
  BY <1>1, <1>3, CollectedArrive DEF Collected
<1>5. typed' = <<>> /\ typed' \in Seq(Texts)
  BY <1>1, EmptySeq DEF Waiting
<1>6. FileKnown'
  BY <1>1, <1>2 DEF Collected
<1>7. CASE Serving
  BY <1>1, <1>2, <1>4, <1>5, <1>6, <1>7 DEF ArriveInv, InService
<1>8. CASE ~Serving
  BY <1>1, <1>2, <1>4, <1>5, <1>6, <1>8 DEF ArriveInv, OnceGiven
<1> QED
  BY <1>7, <1>8

LEMMA ReadLineArrives ==
    ASSUME IInv, ArriveInv, NEW line \in InputLines, ReadLine(line)
    PROVE  ArriveInv'
<1>1. /\ Serving /\ InService
      /\ UNCHANGED <<options, prompts>>
      /\ typed' = Append(typed, line)
      /\ phase' \in {"serving", "draining"}
      /\ submitted' = IF Blank(line) \/ line \in QuitLines THEN submitted
                      ELSE Append(submitted, Templated(line))
  BY DEF ReadLine, ArriveInv
<1>2. /\ PromptLines' = PromptLines /\ Given' = Given /\ Serving' = Serving
      /\ FileKnown' = FileKnown
  BY <1>1 DEF PromptLines, Given, Serving, FileKnown
<1>3. PromptLines \in Seq(Texts) /\ Given \in Seq(Texts)
  BY <1>1, SourcesTyped DEF InService
<1>4. line \in Texts
  BY FrontEndAssumption DEF Texts
<1>5. /\ Arrived(submitted', PromptLines, Given, typed')
      /\ submitted' \in Seq(Seq(Pieces))
  BY <1>1, <1>3, <1>4, LineArrives DEF InService
<1>6. typed' \in Seq(Texts)
  BY <1>1, <1>4, AppendProperties DEF InService
<1> QED
  BY <1>1, <1>2, <1>5, <1>6 DEF ArriveInv, InService

LEMMA ArriveStep == IInv /\ ArriveInv /\ [Next]_vars => ArriveInv'
<1> SUFFICES ASSUME IInv, ArriveInv, [Next]_vars
             PROVE  ArriveInv'
  OBVIOUS
<1>1. CASE ParseArgument
  <2>1. /\ phase = "parsing" /\ argv # <<>> /\ phase' = Iteration.phase
        /\ UNCHANGED <<typed, submitted>>
    BY <1>1 DEF ParseArgument
  <2>2. Iteration.phase \in {"parsing", "help", "usage_error"}
    BY <2>1, IterationSound DEF IInv
  <2> QED
    BY <2>1, <2>2 DEF ArriveInv, Waiting
<1>2. CASE CollectPrompts
  BY <1>2, CollectPromptsArrives
<1>3. CASE ApplyTemplate
  BY <1>3, ApplyTemplateArrives
<1>4. ASSUME NEW line \in InputLines, ReadLine(line)
      PROVE  ArriveInv'
  BY <1>4, ReadLineArrives
<1>5. CASE EndOfInput
  <2>1. /\ phase = "serving" /\ phase' = "draining"
        /\ UNCHANGED <<options, typed, submitted>>
    BY <1>5 DEF EndOfInput
  <2>2. Serving /\ InService
    BY <2>1 DEF ArriveInv
  <2>3. Serving' /\ InService'
    BY <2>1, <2>2 DEF Serving, InService, PromptLines, Given, FileKnown
  <2> QED
    BY <2>1, <2>3 DEF ArriveInv
<1>6. CASE SetParams
  BY <1>6 DEF SetParams, ArriveInv
<1>7. CASE SampleFromProbs
  <2>1. phase' \in {"sampled", "drawing"}
    BY <1>7 DEF SampleFromProbs, CutCandidates
  <2> QED
    BY <2>1 DEF ArriveInv
<1>8. ASSUME NEW r \in 0 .. Total(Adjustment, candidates), Draw(r)
      PROVE  ArriveInv'
  BY <1>8 DEF Draw, ArriveInv
<1>9. CASE UNCHANGED vars
  BY <1>9 DEF vars, frontVars, ArriveInv, Waiting, Collected, OnceGiven, InService,
              PromptLines, Given, FileKnown, Serving
<1> QED
  BY <1>1, <1>2, <1>3, <1>4, <1>5, <1>6, <1>7, <1>8, <1>9 DEF Next, FrontStep, FrontNext

(* Every prompt reaches the model once, in order and whole. *)
THEOREM PromptsArrive == Spec => []PromptsArriveWhole
<1>1. ArriveInv => PromptsArriveWhole
  <2> SUFFICES ASSUME ArriveInv, phase \in {"generating", "serving", "draining"}
               PROVE  Arrived(IF Serving THEN submitted ELSE prompts, PromptLines, Given, typed)
    BY DEF PromptsArriveWhole, Arrived
  <2> QED
    BY DEF ArriveInv, OnceGiven, InService
<1> QED
  BY <1>1, ArriveInit, ArriveStep, FrontInvariant, PTL DEF Spec

-----------------------------------------------------------------------------
(* What init_from_config makes of the files. *)

MapsAfter(f, maps_before, n) ==
    IF n \in AddedTokens(f) THEN Register(maps_before, f.added[n]) ELSE maps_before
AreMaps(after, f, n) ==
    after = [k \in 0 .. n |-> IF k = 0 THEN Trained(f) ELSE MapsAfter(f, after[k - 1], k)]

LEMMA MapsContinued ==
    ASSUME NEW f, NEW n \in Nat, NEW g, AreMaps(g, f, n)
    PROVE  \E h : AreMaps(h, f, n + 1)
<1> DEFINE Longer == MapsAfter(f, g[n], n + 1)
           h == [i \in 0 .. n + 1 |-> IF i <= n THEN g[i] ELSE Longer]
           Value(i) == IF i = 0 THEN Trained(f) ELSE MapsAfter(f, h[i - 1], i)
<1>1. ASSUME NEW i \in 0 .. n + 1
      PROVE  h[i] = Value(i)
  <2>1. CASE i = 0
    BY <2>1 DEF AreMaps
  <2>2. CASE i \in 1 .. n
    <3>1. h[i] = g[i] /\ h[i - 1] = g[i - 1] /\ i \in 0 .. n /\ i # 0
      BY <2>2
    <3>2. g[i] = MapsAfter(f, g[i - 1], i)
      BY <3>1 DEF AreMaps
    <3> HIDE DEF h
    <3> QED
      BY <3>1, <3>2
  <2>3. CASE i = n + 1
    <3>1. h[i] = Longer /\ h[i - 1] = g[n] /\ i # 0
      BY <2>3
    <3> HIDE DEF h
    <3> QED
      BY <2>3, <3>1
  <2> QED
    BY <2>1, <2>2, <2>3
<1>2. h = [i \in 0 .. n + 1 |-> h[i]]
  OBVIOUS
<1> HIDE DEF h
<1>3. h = [i \in 0 .. n + 1 |-> Value(i)]
  BY <1>1, <1>2
<1> QED
  BY <1>3 DEF AreMaps

LEMMA MapsExist ==
    ASSUME NEW f, NEW n \in Nat
    PROVE  \E after : AreMaps(after, f, n)
<1> DEFINE T == {m \in Nat : ~\E after : AreMaps(after, f, m)}
<1>1. SUFFICES ASSUME T # {}
               PROVE  FALSE
  OBVIOUS
<1>2. PICK m \in T : \A k \in T : m <= k
  BY <1>1, LeastElement
<1>3. CASE m = 0
  <2>1. AreMaps([i \in 0 .. 0 |-> Trained(f)], f, 0)
    BY DEF AreMaps
  <2> QED
    BY <1>2, <1>3, <2>1
<1>4. CASE m > 0
  <2>1. m - 1 \in Nat /\ m - 1 \notin T
    BY <1>2, <1>4
  <2>2. PICK g : AreMaps(g, f, m - 1)
    BY <2>1
  <2>3. \E h : AreMaps(h, f, m - 1 + 1)
    BY <2>1, <2>2, MapsContinued
  <2> QED
    BY <1>2, <2>3
<1> QED
  BY <1>2, <1>3, <1>4

(* The files left maps[Len(added)]. *)
LEMMA RegisteredAfter ==
    ASSUME NEW f, Len(f.added) \in Nat
    PROVE  \E after : AreMaps(after, f, Len(f.added)) /\ Registered(f) = after[Len(f.added)]
<1> DEFINE n == Len(f.added)
           Recursive(after) ==
             after = [k \in 0 .. n |->
                IF k = 0 THEN Trained(f)
                ELSE IF k \in AddedTokens(f) THEN Register(after[k - 1], f.added[k])
                ELSE after[k - 1]]
<1>1. \A after : AreMaps(after, f, n) <=> Recursive(after)
  BY DEF AreMaps, MapsAfter
<1>2. Registered(f) = (CHOOSE after : Recursive(after))[n]
  BY DEF Registered
<1>3. \E after : AreMaps(after, f, n)
  BY MapsExist
<1> HIDE DEF Recursive
<1> QED
  BY <1>1, <1>2, <1>3

(* The three fields of the maps, and what one entry makes of them. *)
IsMaps(m) ==
    m = [token2id |-> m.token2id, id2token |-> m.id2token, special_tokens |-> m.special_tokens]

LEMMA RegisterFacts ==
    ASSUME NEW m, NEW info, IsMaps(m)
    PROVE  LET r == Register(m, info) IN
             /\ IsMaps(r)
             /\ r.special_tokens = IF info.special THEN m.special_tokens \cup {info.content}
                                   ELSE m.special_tokens
             /\ Taken(m, info) => r.token2id = m.token2id /\ r.id2token = m.id2token
             /\ ~Taken(m, info) => /\ r.token2id = With(m.token2id, info.content, info.id)
                                   /\ r.id2token = With(m.id2token, info.id, info.content)
<1> DEFINE t == m.token2id
           d == m.id2token
           s == m.special_tokens
           s1 == IF info.special THEN s \cup {info.content} ELSE s
           known == IF info.special
                    THEN [m EXCEPT !.special_tokens = @ \cup {info.content}] ELSE m
           t1 == With(t, info.content, info.id)
           d1 == With(d, info.id, info.content)
<1>1. m = [token2id |-> t, id2token |-> d, special_tokens |-> s]
  BY DEF IsMaps
<1>2. known = [token2id |-> t, id2token |-> d, special_tokens |-> s1]
  <2> HIDE DEF t, d
  <2>1. CASE info.special
    BY <1>1, <2>1
  <2>2. CASE ~info.special
    BY <1>1, <2>2
  <2> QED
    BY <2>1, <2>2
<1>3. Register(m, info) = IF Taken(m, info) THEN known
                          ELSE [known EXCEPT !.token2id = With(@, info.content, info.id),
                                             !.id2token = With(@, info.id, info.content)]
  BY DEF Register
<1> HIDE DEF t, d, s, s1, known
<1>4. CASE Taken(m, info)
  <2>1. Register(m, info) = [token2id |-> t, id2token |-> d, special_tokens |-> s1]
    BY <1>2, <1>3, <1>4
  <2> QED
    BY <1>4, <2>1 DEF IsMaps, t, d, s, s1
<1>5. CASE ~Taken(m, info)
  <2>1. Register(m, info) = [known EXCEPT !.token2id = With(@, info.content, info.id),
                                          !.id2token = With(@, info.id, info.content)]
    BY <1>3, <1>5
  <2>2. Register(m, info) = [token2id |-> t1, id2token |-> d1, special_tokens |-> s1]
    <3> HIDE DEF t1, d1
    <3>1. With(known.token2id, info.content, info.id) = t1
      BY <1>2 DEF t1
    <3>2. With(known.id2token, info.id, info.content) = d1
      BY <1>2 DEF d1
    <3>3. Register(m, info) = [known EXCEPT !.token2id = t1, !.id2token = d1]
      BY <2>1, <3>1, <3>2
    <3> QED
      BY <1>2, <3>3
  <2> HIDE DEF t1, d1
  <2>3. /\ Register(m, info).token2id = t1 /\ Register(m, info).id2token = d1
        /\ Register(m, info).special_tokens = s1
        /\ IsMaps(Register(m, info))
    BY <2>2 DEF IsMaps
  <2> QED
    BY <1>5, <2>3 DEF t, d, s, s1, t1, d1
<1> QED
  BY <1>4, <1>5

LEMMA EntryFacts ==
    ASSUME NEW m, NEW info, IsMaps(m), ~Taken(m, info),
           NEW r, r = Register(m, info)
    PROVE  /\ DOMAIN r.token2id = DOMAIN m.token2id \cup {info.content}
           /\ r.token2id[info.content] = info.id
           /\ \A x \in DOMAIN m.token2id : r.token2id[x] = m.token2id[x]
           /\ DOMAIN r.id2token = DOMAIN m.id2token \cup {info.id}
           /\ r.id2token[info.id] = info.content
           /\ \A y \in DOMAIN m.id2token : r.id2token[y] = m.id2token[y]
<1> DEFINE t1 == With(m.token2id, info.content, info.id)
           d1 == With(m.id2token, info.id, info.content)
<1>1. r.token2id = t1 /\ r.id2token = d1
  BY RegisterFacts
<1>2. info.content \notin DOMAIN m.token2id /\ info.id \notin DOMAIN m.id2token
  BY DEF Taken
<1>3. /\ DOMAIN t1 = DOMAIN m.token2id \cup {info.content}
      /\ t1[info.content] = info.id
      /\ \A x \in DOMAIN m.token2id : t1[x] = m.token2id[x]
  BY <1>2 DEF With
<1>4. /\ DOMAIN d1 = DOMAIN m.id2token \cup {info.id}
      /\ d1[info.id] = info.content
      /\ \A y \in DOMAIN m.id2token : d1[y] = m.id2token[y]
  BY <1>2 DEF With
<1> HIDE DEF t1, d1
<1> QED
  BY <1>1, <1>3, <1>4

-----------------------------------------------------------------------------
(* The two maps are each other's inverse. *)
Inverses(m) ==
    /\ \A x \in DOMAIN m.token2id :
          m.token2id[x] \in DOMAIN m.id2token /\ m.id2token[m.token2id[x]] = x
    /\ \A y \in DOMAIN m.id2token :
          m.id2token[y] \in DOMAIN m.token2id /\ m.token2id[m.id2token[y]] = y

(* No entry before this one has its text. *)
FirstOfItsText(f, k) ==
    \A j \in AddedTokens(f) : j < k => f.added[j].content # f.added[k].content

(* What the first n entries leave, and what they leave where the files agree. *)
SoundAfter(m, f, n) ==
    /\ IsMaps(m) /\ Inverses(m)
    /\ \A x \in DOMAIN f.vocab : x \in DOMAIN m.token2id /\ m.token2id[x] = f.vocab[x]
    /\ \A x \in DOMAIN m.token2id :
          \/ x \in DOMAIN f.vocab
          \/ \E k \in AddedTokens(f) : k <= n /\ x = f.added[k].content
    /\ \A y \in DOMAIN m.id2token :
          \/ y \in Range(f.vocab)
          \/ \E k \in AddedTokens(f) : k <= n /\ y = f.added[k].id
    /\ m.special_tokens \subseteq {f.added[k].content : k \in AddedTokens(f)}

AsDeclared(m, f, n) ==
    \A k \in AddedTokens(f) : k <= n /\ FirstOfItsText(f, k) =>
        /\ f.added[k].content \in DOMAIN m.token2id
        /\ m.token2id[f.added[k].content] = f.added[k].id

LEMMA TrainedSound ==
    ASSUME NEW f, IsInjective(f.vocab)
    PROVE  SoundAfter(Trained(f), f, 0)
<1> DEFINE m == Trained(f)
           v == f.vocab
<1>1. m = [token2id |-> v, id2token |-> AntiFunction(v), special_tokens |-> {}]
  BY DEF Trained
<1>2. m.token2id = v /\ m.id2token = AntiFunction(v) /\ m.special_tokens = {} /\ IsMaps(m)
  BY <1>1 DEF IsMaps
<1>3. AntiFunction(v) = [y \in Range(v) |-> CHOOSE x \in DOMAIN v : y \in Range(v) => v[x] = y]
  BY DEF AntiFunction, Inverse, Range
<1>4. \A y \in Range(v) : \E x \in DOMAIN v : v[x] = y
  BY DEF Range
<1>5. \A y \in Range(v) : AntiFunction(v)[y] \in DOMAIN v /\ v[AntiFunction(v)[y]] = y
  BY <1>3, <1>4
<1>6. \A x \in DOMAIN v : v[x] \in Range(v) /\ AntiFunction(v)[v[x]] = x
  <2>1. \A x \in DOMAIN v : v[x] \in Range(v)
    BY DEF Range
  <2> QED
    BY <1>5, <2>1 DEF IsInjective
<1>7. DOMAIN AntiFunction(v) = Range(v)
  BY <1>3
<1> HIDE DEF m, v
<1>8. Inverses(m)
  BY <1>2, <1>5, <1>6, <1>7 DEF Inverses
<1> QED
  BY <1>2, <1>7, <1>8 DEF SoundAfter, m, v

LEMMA StepSound ==
    ASSUME NEW f, NEW n \in Nat \ {0}, AddedTokens(f) \subseteq Nat,
           NEW m, SoundAfter(m, f, n - 1)
    PROVE  SoundAfter(MapsAfter(f, m, n), f, n)
<1>0. \A k \in AddedTokens(f) : k <= n - 1 => k <= n
  OBVIOUS
<1>1. CASE n \notin AddedTokens(f)
  BY <1>0, <1>1 DEF SoundAfter, MapsAfter
<1>2. CASE n \in AddedTokens(f)
  <2> DEFINE info == f.added[n]
             r == Register(m, info)
  <2>1. MapsAfter(f, m, n) = r
    BY <1>2 DEF MapsAfter
  <2>0. IsMaps(m)
    BY DEF SoundAfter
  <2> HIDE DEF info
  <2>2. /\ IsMaps(r)
        /\ r.special_tokens = IF info.special THEN m.special_tokens \cup {info.content}
                              ELSE m.special_tokens
        /\ Taken(m, info) => r.token2id = m.token2id /\ r.id2token = m.id2token
    BY <2>0, RegisterFacts
  <2>6. ~Taken(m, info) =>
           /\ DOMAIN r.token2id = DOMAIN m.token2id \cup {info.content}
           /\ r.token2id[info.content] = info.id
           /\ \A x \in DOMAIN m.token2id : r.token2id[x] = m.token2id[x]
           /\ DOMAIN r.id2token = DOMAIN m.id2token \cup {info.id}
           /\ r.id2token[info.id] = info.content
           /\ \A y \in DOMAIN m.id2token : r.id2token[y] = m.id2token[y]
    BY <2>0, EntryFacts
  <2> HIDE DEF r
  <2>3. r.special_tokens \subseteq {f.added[k].content : k \in AddedTokens(f)}
    BY <1>2, <2>2 DEF SoundAfter, info
  <2>4. CASE Taken(m, info)
    <3>1. r.token2id = m.token2id /\ r.id2token = m.id2token
      BY <2>2, <2>4
    <3> QED
      BY <1>0, <2>1, <2>2, <2>3, <3>1 DEF SoundAfter, Inverses
  <2>5. CASE ~Taken(m, info)
    <3>2. /\ DOMAIN r.token2id = DOMAIN m.token2id \cup {info.content}
          /\ r.token2id[info.content] = info.id
          /\ \A x \in DOMAIN m.token2id : r.token2id[x] = m.token2id[x]
      BY <2>6, <2>5
    <3>3. /\ DOMAIN r.id2token = DOMAIN m.id2token \cup {info.id}
          /\ r.id2token[info.id] = info.content
          /\ \A y \in DOMAIN m.id2token : r.id2token[y] = m.id2token[y]
      BY <2>6, <2>5
    <3>9. info.content \notin DOMAIN m.token2id /\ info.id \notin DOMAIN m.id2token
      BY <2>5 DEF Taken
    <3>4. Inverses(r)
      BY <3>2, <3>3, <3>9 DEF SoundAfter, Inverses
    <3>5. n <= n
      OBVIOUS
    <3>6. \A x \in DOMAIN r.token2id :
            \/ x \in DOMAIN f.vocab
            \/ \E k \in AddedTokens(f) : k <= n /\ x = f.added[k].content
      BY <1>0, <1>2, <3>2, <3>5 DEF SoundAfter, info
    <3>7. \A y \in DOMAIN r.id2token :
            \/ y \in Range(f.vocab)
            \/ \E k \in AddedTokens(f) : k <= n /\ y = f.added[k].id
      BY <1>0, <1>2, <3>3, <3>5 DEF SoundAfter, info
    <3>8. \A x \in DOMAIN f.vocab : x \in DOMAIN r.token2id /\ r.token2id[x] = f.vocab[x]
      BY <3>2 DEF SoundAfter
    <3> QED
      BY <2>1, <2>2, <2>3, <3>4, <3>6, <3>7, <3>8 DEF SoundAfter
  <2> QED
    BY <2>4, <2>5
<1> QED
  BY <1>1, <1>2

(* Where the files agree, the first entry of a text gives it its id. *)
LEMMA StepDeclared ==
    ASSUME NEW f, NEW n \in Nat \ {0}, AddedTokens(f) \subseteq Nat, Consistent(f),
           NEW m, SoundAfter(m, f, n - 1), AsDeclared(m, f, n - 1)
    PROVE  AsDeclared(MapsAfter(f, m, n), f, n)
<1> DEFINE r == MapsAfter(f, m, n)
<1>0. \A k \in AddedTokens(f) : k <= n => k <= n - 1 \/ k = n
  OBVIOUS
<1>1. \A x \in DOMAIN m.token2id : x \in DOMAIN r.token2id /\ r.token2id[x] = m.token2id[x]
  <2>1. CASE n \notin AddedTokens(f)
    BY <2>1 DEF MapsAfter
  <2>2. CASE n \in AddedTokens(f)
    <3>1. r = Register(m, f.added[n])
      BY <2>2 DEF MapsAfter
    <3> HIDE DEF r
    <3>2. IsMaps(m)
      BY DEF SoundAfter
    <3> DEFINE info == f.added[n]
    <3> HIDE DEF info
    <3>3. r = Register(m, info)
      BY <3>1 DEF info
    <3>4. CASE Taken(m, info)
      <4>1. r.token2id = m.token2id
        BY <3>2, <3>3, <3>4, RegisterFacts
      <4> QED
        BY <4>1
    <3>5. CASE ~Taken(m, info)
      BY <3>2, <3>3, <3>5, EntryFacts
    <3> QED
      BY <3>4, <3>5
  <2> QED
    BY <2>1, <2>2
<1>2. ASSUME n \in AddedTokens(f), FirstOfItsText(f, n)
      PROVE  /\ f.added[n].content \in DOMAIN r.token2id
             /\ r.token2id[f.added[n].content] = f.added[n].id
  <2> DEFINE info == f.added[n]
  <2>1. CASE info.content \in DOMAIN f.vocab
    <3>1. info.content \in DOMAIN m.token2id /\ m.token2id[info.content] = f.vocab[info.content]
      BY <2>1 DEF SoundAfter
    <3>2. f.vocab[info.content] = info.id
      BY <1>2, <2>1 DEF Consistent
    <3> QED
      BY <1>1, <3>1, <3>2
  <2>2. CASE info.content \notin DOMAIN f.vocab
    <3>0. \A k \in AddedTokens(f) : k <= n - 1 => k < n
      OBVIOUS
    <3>1. info.content \notin DOMAIN m.token2id
      BY <1>2, <2>2, <3>0 DEF SoundAfter, FirstOfItsText
    <3>2. info.id \notin Range(f.vocab)
      BY <1>2, <2>2 DEF Consistent
    <3>3. \A k \in AddedTokens(f) : f.added[k].id = info.id => f.added[k].content = info.content
      BY <1>2 DEF Consistent
    <3>4. info.id \notin DOMAIN m.id2token
      BY <1>2, <3>0, <3>2, <3>3 DEF SoundAfter, FirstOfItsText
    <3>5. r = Register(m, info) /\ ~Taken(m, info)
      BY <1>2, <3>1, <3>4 DEF MapsAfter, Taken
    <3> HIDE DEF r
    <3>6. IsMaps(m)
      BY DEF SoundAfter
    <3> HIDE DEF info
    <3>7. /\ DOMAIN r.token2id = DOMAIN m.token2id \cup {info.content}
          /\ r.token2id[info.content] = info.id
      BY <3>5, <3>6, EntryFacts
    <3> QED
      BY <3>7 DEF info
  <2> QED
    BY <2>1, <2>2
<1> HIDE DEF r
<1>3. ASSUME NEW k \in AddedTokens(f), k <= n, FirstOfItsText(f, k)
      PROVE  /\ f.added[k].content \in DOMAIN r.token2id
             /\ r.token2id[f.added[k].content] = f.added[k].id
  <2>1. CASE k <= n - 1
    BY <1>1, <1>3, <2>1 DEF AsDeclared
  <2>2. CASE k = n
    BY <1>2, <1>3, <2>2
  <2> QED
    BY <1>0, <1>3, <2>1, <2>2
<1> QED
  BY <1>3 DEF AsDeclared, r

(* What registering the added tokens leaves. *)
LEMMA VocabularySound ==
    ASSUME NEW f, f.added \in Seq([id : Int, content : Seq(Letters), special : BOOLEAN]),
           IsInjective(f.vocab)
    PROVE  /\ SoundAfter(Registered(f), f, Len(f.added))
           /\ Consistent(f) => AsDeclared(Registered(f), f, Len(f.added))
<1> DEFINE N == Len(f.added)
<1>1. N \in Nat /\ DOMAIN f.added = 1 .. N
  BY LenProperties
<1>2. AddedTokens(f) \subseteq 1 .. N
  BY <1>1 DEF AddedTokens
<1> HIDE DEF N
<1>3. PICK after : AreMaps(after, f, N) /\ Registered(f) = after[N]
  BY <1>1, RegisteredAfter DEF N
<1>4. after[0] = Trained(f) /\ \A n \in 1 .. N : after[n] = MapsAfter(f, after[n - 1], n)
  BY <1>1, <1>3 DEF AreMaps
<1> DEFINE Good(n) == /\ SoundAfter(after[n], f, n)
                      /\ Consistent(f) => AsDeclared(after[n], f, n)
           T == {n \in 0 .. N : ~Good(n)}
<1>5. Good(0)
  <2>1. \A k \in AddedTokens(f) : ~(k <= 0)
    BY <1>1, <1>2
  <2> QED
    BY <1>4, <2>1, TrainedSound DEF AsDeclared
<1>6. ASSUME NEW n \in 1 .. N, Good(n - 1)
      PROVE  Good(n)
  <2>1. n \in Nat \ {0} /\ AddedTokens(f) \subseteq Nat
    BY <1>1, <1>2
  <2>2. after[n] = MapsAfter(f, after[n - 1], n)
    BY <1>4
  <2> QED
    BY <1>6, <2>1, <2>2, StepSound, StepDeclared
<1>7. Good(N)
  <2> HIDE DEF Good
  <2> SUFFICES ASSUME T # {}
               PROVE  FALSE
    BY <1>1
  <2>1. T \subseteq Nat
    BY <1>1
  <2>2. PICK n \in T : \A k \in T : n <= k
    BY <2>1, LeastElement
  <2>3. n # 0 /\ n \in 0 .. N
    BY <1>5, <2>2
  <2>4. n \in 1 .. N /\ n - 1 \in 0 .. N /\ ~(n <= n - 1)
    BY <1>1, <2>3
  <2>5. Good(n - 1)
    BY <2>2, <2>4
  <2> QED
    BY <1>6, <2>2, <2>4, <2>5
<1> QED
  BY <1>3, <1>7 DEF N

(* The pad id is the id of the pad token. *)
LEMMA PadFound ==
    ASSUME NEW f, f.added \in Seq([id : Int, content : Seq(Letters), special : BOOLEAN]),
           IsInjective(f.vocab), Consistent(f), ~PadThrows(f),
           PadId(f, Registered(f)) # NoId
    PROVE  LET m == Registered(f)
               id == PadId(f, m)
           IN /\ id \in DOMAIN m.id2token /\ m.id2token[id] = f.pad_token
              /\ f.pad_token \in DOMAIN m.token2id /\ m.token2id[f.pad_token] = id
<1> DEFINE m == Registered(f)
           id == PadId(f, m)
           N == Len(f.added)
<1>1. SoundAfter(m, f, N) /\ AsDeclared(m, f, N)
  BY VocabularySound
<1>2. N \in Nat /\ DOMAIN f.added = 1 .. N
  BY LenProperties
<1>3. ASSUME f.pad_token \in DOMAIN m.token2id, m.token2id[f.pad_token] = id
      PROVE  id \in DOMAIN m.id2token /\ m.id2token[id] = f.pad_token
  BY <1>1, <1>3 DEF SoundAfter, Inverses
<1>4. CASE f.pad_token = <<>> \/ DeclaredPads(f) = {}
  <2>1. DeclaredPad(f) = NoId
    BY <1>4 DEF DeclaredPad
  <2>2. f.pad_token \in DOMAIN m.token2id /\ m.token2id[f.pad_token] = id
    BY <2>1 DEF PadId
  <2> QED
    BY <1>3, <2>2
<1>5. CASE f.pad_token # <<>> /\ DeclaredPads(f) # {}
  <2> DEFINE e == PadEntry(f)
  <2>1. DeclaredPads(f) \subseteq 1 .. N
    BY <1>2 DEF DeclaredPads
  <2>2. \E x \in DeclaredPads(f) : \A y \in DeclaredPads(f) : x <= y
    <3>1. DeclaredPads(f) \subseteq Nat
      BY <1>2, <2>1
    <3> QED
      BY <1>5, <3>1, LeastElement
  <2>3. e \in DeclaredPads(f) /\ \A y \in DeclaredPads(f) : e <= y
    BY <2>2 DEF PadEntry
  <2>4. DeclaredPad(f) = f.added[e].id
    BY <1>5 DEF DeclaredPad
  <2> HIDE DEF e
  <2>5. e \in 1 .. N /\ f.added[e].content = f.pad_token
    BY <2>1, <2>3 DEF DeclaredPads
  <2>6. e \in AddedTokens(f)
    BY <1>2, <1>5, <2>4, <2>5 DEF AddedTokens, PadThrows
  <2>7. FirstOfItsText(f, e)
    <3> SUFFICES ASSUME NEW j \in AddedTokens(f), j < e, f.added[j].content = f.added[e].content
                 PROVE  FALSE
      BY DEF FirstOfItsText
    <3>1. j \in DeclaredPads(f)
      BY <2>5 DEF AddedTokens, DeclaredPads
    <3>2. e <= j /\ j \in 1 .. N
      BY <2>1, <2>3, <3>1
    <3> QED
      BY <1>2, <2>5, <3>2
  <2>8. /\ f.pad_token \in DOMAIN m.token2id
        /\ m.token2id[f.pad_token] = DeclaredPad(f)
    <3>1. e <= N
      BY <1>2, <2>5
    <3> QED
      BY <1>1, <2>4, <2>5, <2>6, <2>7, <3>1 DEF AsDeclared
  <2>9. id = DeclaredPad(f)
    BY <2>8 DEF PadId
  <2> QED
    BY <1>3, <2>8, <2>9
<1> QED
  BY <1>4, <1>5

-----------------------------------------------------------------------------
VocabularyInv ==
    /\ \E j \in Jobs : files = j.files
    /\ maps = Registered(files) /\ pad_id = PadId(files, maps)
    /\ pc # "not created" => ~PadThrows(files)

LEMMA VocabularyInvariant == TokenizerSpec => []VocabularyInv
<1>1. TokenizerInit => VocabularyInv
  BY DEF TokenizerInit, VocabularyInv
<1>2. VocabularyInv /\ [TokenizerNext]_tokenizer_vars => VocabularyInv'
  <2> SUFFICES ASSUME VocabularyInv, [TokenizerNext]_tokenizer_vars
               PROVE  VocabularyInv'
    OBVIOUS
  <2>1. UNCHANGED <<files, maps, pad_id>>
    BY DEF TokenizerNext, Scan, EncodeWord, PushSpecial, NextText, Done, tokenizer_vars, vocabulary
  <2>2. pc = "not created" => pc' = "not created"
    BY DEF TokenizerNext, Scan, EncodeWord, PushSpecial, NextText, Done, AtEnd, tokenizer_vars
  <2> QED
    BY <2>1, <2>2 DEF VocabularyInv
<1> QED
  BY <1>1, <1>2, PTL DEF TokenizerSpec

(* The pad id is the pad token's own, wherever it was read. *)
THEOREM PadOwnsItsId == TokenizerSpec => []PadNamesItsToken
<1>1. VocabularyInv => PadNamesItsToken
  <2> SUFFICES ASSUME VocabularyInv, Consistent(files), pad_id # NoId, pc # "not created"
               PROVE  /\ pad_id \in DOMAIN maps.id2token
                      /\ maps.id2token[pad_id] = files.pad_token
                      /\ maps.token2id[files.pad_token] = pad_id
    BY DEF PadNamesItsToken
  <2>1. PICK j \in Jobs : files = j.files
    BY DEF VocabularyInv
  <2>2. /\ files.added \in Seq([id : Int, content : Seq(Letters), special : BOOLEAN])
        /\ IsInjective(files.vocab)
    BY <2>1, TokenizerAssumption, VocabularyAssumption
  <2>3. maps = Registered(files) /\ pad_id = PadId(files, maps) /\ ~PadThrows(files)
    BY DEF VocabularyInv
  <2> QED
    BY <2>2, <2>3, PadFound
<1> QED
  BY <1>1, VocabularyInvariant, PTL

-----------------------------------------------------------------------------
(* Strings put one behind the other. *)
JoinStep(g, s, i) == g[i - 1] \o s[i]
AreJoined(g, s, n) ==
    g = [i \in 0 .. n |-> IF i = 0 THEN <<>> ELSE JoinStep(g, s, i)]

LEMMA JoinedValues ==
    ASSUME NEW g, NEW s, NEW n \in Nat, AreJoined(g, s, n)
    PROVE  g[0] = <<>> /\ \A i \in 1 .. n : g[i] = JoinStep(g, s, i)
<1> DEFINE Value(i) == IF i = 0 THEN <<>> ELSE JoinStep(g, s, i)
<1>1. g = [i \in 0 .. n |-> Value(i)]
  BY DEF AreJoined
<1>2. Value(0) = <<>> /\ \A i \in 1 .. n : Value(i) = JoinStep(g, s, i)
  OBVIOUS
<1> HIDE DEF Value
<1>3. \A i \in 0 .. n : g[i] = Value(i)
  BY <1>1
<1>4. 0 \in 0 .. n /\ \A i \in 1 .. n : i \in 0 .. n
  OBVIOUS
<1> QED
  BY <1>2, <1>3, <1>4

LEMMA JoinedExist ==
    ASSUME NEW s, NEW n \in Nat
    PROVE  \E g : AreJoined(g, s, n)
<1> DEFINE T == {m \in Nat : ~\E g : AreJoined(g, s, m)}
<1>1. SUFFICES ASSUME T # {}
               PROVE  FALSE
  OBVIOUS
<1>2. PICK m \in T : \A k \in T : m <= k
  BY <1>1, LeastElement
<1>3. CASE m = 0
  <2>1. AreJoined([i \in 0 .. 0 |-> <<>>], s, 0)
    BY DEF AreJoined
  <2> QED
    BY <1>2, <1>3, <2>1
<1>4. CASE m > 0
  <2>1. m - 1 \in Nat /\ m - 1 \notin T
    BY <1>2, <1>4
  <2>2. PICK g : AreJoined(g, s, m - 1)
    BY <2>1
  <2> DEFINE Longer == JoinStep(g, s, m)
             h == [i \in 0 .. m |-> IF i <= m - 1 THEN g[i] ELSE Longer]
             Value(i) == IF i = 0 THEN <<>> ELSE JoinStep(h, s, i)
  <2>0. \A f, i : f[i - 1] = g[i - 1] => JoinStep(f, s, i) = JoinStep(g, s, i)
    BY DEF JoinStep
  <2>3. ASSUME NEW i \in 0 .. m
        PROVE  h[i] = Value(i)
    <3>1. CASE i = 0
      BY <1>4, <2>1, <2>2, <3>1 DEF AreJoined
    <3>2. CASE i \in 1 .. m - 1
      <4>1. h[i] = g[i] /\ h[i - 1] = g[i - 1] /\ i \in 0 .. m - 1 /\ i # 0
        BY <2>1, <3>2
      <4>2. g[i] = JoinStep(g, s, i)
        BY <2>2, <4>1 DEF AreJoined
      <4> HIDE DEF h
      <4> QED
        BY <2>0, <4>1, <4>2
    <3>3. CASE i = m
      <4>1. h[i] = Longer /\ h[i - 1] = g[m - 1] /\ i # 0
        BY <1>4, <2>1, <3>3
      <4> HIDE DEF h
      <4> QED
        BY <2>0, <3>3, <4>1
    <3> QED
      BY <1>2, <3>1, <3>2, <3>3
  <2>4. h = [i \in 0 .. m |-> h[i]]
    OBVIOUS
  <2> HIDE DEF h
  <2>5. h = [i \in 0 .. m |-> Value(i)]
    BY <2>3, <2>4
  <2>6. AreJoined(h, s, m)
    BY <2>5 DEF AreJoined
  <2> QED
    BY <1>2, <2>6
<1> QED
  BY <1>2, <1>3, <1>4

(* The value of FlattenSeq, and its prefixes. *)
LEMMA FlattenIsJoined ==
    ASSUME NEW S, NEW s \in Seq(Seq(S)), NEW g, AreJoined(g, s, Len(s))
    PROVE  /\ \A i \in 0 .. Len(s) : g[i] \in Seq(S)
           /\ FlattenSeq(s) = g[Len(s)]
<1> DEFINE n == Len(s)
           Flat(h) == h = [i \in 1 .. n |-> IF i = 1 THEN s[i] ELSE JoinStep(h, s, i)]
<1>1. n \in Nat /\ \A i \in 1 .. n : s[i] \in Seq(S)
  BY LenProperties, ElementOfSeq
<1>2. g[0] = <<>> /\ \A i \in 1 .. n : g[i] = JoinStep(g, s, i)
  BY <1>1, JoinedValues
<1>3. FlattenSeq(s) = IF n = 0 THEN s ELSE (CHOOSE h : Flat(h))[n]
  BY DEF FlattenSeq, JoinStep
<1>a. \A i \in 1 .. n : g[i - 1] \in Seq(S) => JoinStep(g, s, i) \in Seq(S)
  BY <1>1, ConcatProperties DEF JoinStep
<1>b. \A h, i : h[i - 1] = g[i - 1] => JoinStep(h, s, i) = JoinStep(g, s, i)
  BY DEF JoinStep
<1>c. n >= 1 => JoinStep(g, s, 1) = s[1]
  <2> SUFFICES ASSUME n >= 1
               PROVE  JoinStep(g, s, 1) = s[1]
    OBVIOUS
  <2>1. s[1] \in Seq(S)
    BY <1>1
  <2>2. JoinStep(g, s, 1) = <<>> \o s[1]
    <3>1. g[1 - 1] = <<>>
      BY <1>2
    <3> QED
      BY <3>1 DEF JoinStep
  <2> QED
    BY <2>1, <2>2, ConcatEmptySeq
<1> HIDE DEF n
<1>4. \A i \in 0 .. n : g[i] \in Seq(S)
  <2> DEFINE T == {i \in 0 .. n : g[i] \notin Seq(S)}
  <2> SUFFICES ASSUME T # {}
               PROVE  FALSE
    OBVIOUS
  <2>1. T \subseteq Nat
    BY <1>1
  <2>2. PICK i \in T : \A k \in T : i <= k
    BY <2>1, LeastElement
  <2>3. i # 0
    BY <1>2, <2>2, EmptySeq
  <2>4. i \in 1 .. n /\ i - 1 \in 0 .. n /\ ~(i <= i - 1)
    BY <1>1, <2>2, <2>3
  <2>5. g[i - 1] \in Seq(S)
    BY <2>2, <2>4
  <2> QED
    BY <1>2, <1>a, <2>2, <2>4, <2>5
<1>5. ASSUME NEW h, Flat(h)
      PROVE  \A i \in 1 .. n : h[i] = g[i]
  <2> DEFINE T == {i \in 1 .. n : h[i] # g[i]}
  <2> SUFFICES ASSUME T # {}
               PROVE  FALSE
    OBVIOUS
  <2>0. \A i \in 1 .. n : h[i] = IF i = 1 THEN s[i] ELSE JoinStep(h, s, i)
    BY <1>5
  <2> HIDE DEF Flat
  <2>1. T \subseteq Nat
    BY <1>1
  <2>2. PICK i \in T : \A k \in T : i <= k
    BY <2>1, LeastElement
  <2>3. CASE i = 1
    <3>1. 1 \in 1 .. n /\ n >= 1
      BY <1>1, <2>2, <2>3
    <3>2. g[1] = s[1]
      BY <1>2, <1>c, <3>1
    <3> QED
      BY <2>0, <2>2, <2>3, <3>1, <3>2
  <2>4. CASE i # 1
    <3>1. i \in 1 .. n /\ i - 1 \in 1 .. n /\ ~(i <= i - 1)
      BY <1>1, <2>2, <2>4
    <3>2. h[i - 1] = g[i - 1]
      BY <2>2, <3>1
    <3> QED
      BY <1>2, <1>b, <2>0, <2>2, <2>4, <3>1, <3>2
  <2> QED
    BY <2>3, <2>4
<1>6. CASE n = 0
  <2>1. s = <<>>
    BY <1>6, EmptySeq DEF n
  <2> QED
    BY <1>2, <1>3, <1>4, <1>6, <2>1 DEF n
<1>7. CASE n # 0
  <2> DEFINE h == [i \in 1 .. n |-> g[i]]
             Value(i) == IF i = 1 THEN s[i] ELSE JoinStep(h, s, i)
  <2>1. ASSUME NEW i \in 1 .. n
        PROVE  h[i] = Value(i)
    <3>1. CASE i = 1
      <4>1. g[i] = s[i]
        BY <1>1, <1>2, <1>c, <3>1
      <4> QED
        BY <3>1, <4>1
    <3>2. CASE i # 1
      <4>1. i - 1 \in 1 .. n /\ h[i] = g[i] /\ h[i - 1] = g[i - 1]
        BY <1>1, <3>2
      <4> HIDE DEF h
      <4> QED
        BY <1>2, <1>b, <3>2, <4>1
    <3> QED
      BY <3>1, <3>2
  <2>2. h = [i \in 1 .. n |-> h[i]]
    OBVIOUS
  <2> HIDE DEF h
  <2>3. Flat(h)
    BY <2>1, <2>2
  <2> HIDE DEF Flat
  <2>4. Flat(CHOOSE k : Flat(k))
    BY <2>3
  <2>5. n \in 1 .. n
    BY <1>1, <1>7
  <2>6. (CHOOSE k : Flat(k))[n] = g[n]
    BY <1>5, <2>4, <2>5
  <2> QED
    BY <1>3, <1>4, <1>7, <2>6 DEF n
<1> QED
  BY <1>6, <1>7

LEMMA FlattenFacts ==
    ASSUME NEW S
    PROVE  /\ FlattenSeq(<<>>) = <<>>
           /\ \A s \in Seq(Seq(S)) : FlattenSeq(s) \in Seq(S)
           /\ \A s \in Seq(Seq(S)), x \in Seq(S) :
                 FlattenSeq(Append(s, x)) = FlattenSeq(s) \o x
<1>1. FlattenSeq(<<>>) = <<>>
  BY DEF FlattenSeq
<1>2. ASSUME NEW s \in Seq(Seq(S))
      PROVE  FlattenSeq(s) \in Seq(S)
  <2>1. Len(s) \in Nat
    BY LenProperties
  <2>2. PICK g : AreJoined(g, s, Len(s))
    BY <2>1, JoinedExist
  <2>3. Len(s) \in 0 .. Len(s)
    BY <2>1
  <2> QED
    BY <2>2, <2>3, FlattenIsJoined
<1>3. ASSUME NEW s \in Seq(Seq(S)), NEW x \in Seq(S)
      PROVE  FlattenSeq(Append(s, x)) = FlattenSeq(s) \o x
  <2> DEFINE n == Len(s)
             t == Append(s, x)
  <2>1. n \in Nat /\ t \in Seq(Seq(S)) /\ Len(t) = n + 1 /\ t[n + 1] = x
        /\ \A i \in 1 .. n : t[i] = s[i]
    BY LenProperties, AppendProperties
  <2> HIDE DEF n, t
  <2>0. n + 1 \in Nat
    BY <2>1
  <2>2. PICK g : AreJoined(g, s, n)
    BY <2>1, JoinedExist
  <2>3. PICK h : AreJoined(h, t, n + 1)
    BY <2>0, JoinedExist
  <2>4. FlattenSeq(s) = g[n]
    BY <2>2, FlattenIsJoined DEF n
  <2>5. FlattenSeq(t) = h[n + 1]
    BY <2>1, <2>3, FlattenIsJoined
  <2>6. g[0] = <<>> /\ \A i \in 1 .. n : g[i] = JoinStep(g, s, i)
    BY <2>1, <2>2, JoinedValues
  <2>7. h[0] = <<>> /\ \A i \in 1 .. n + 1 : h[i] = JoinStep(h, t, i)
    BY <2>0, <2>3, JoinedValues
  <2>8. h[n] = g[n]
    <3> DEFINE T == {i \in 0 .. n : h[i] # g[i]}
    <3>0. n \in 0 .. n
      BY <2>1
    <3> SUFFICES ASSUME T # {}
                 PROVE  FALSE
      BY <3>0
    <3>1. T \subseteq Nat
      BY <2>1
    <3>2. PICK i \in T : \A k \in T : i <= k
      BY <3>1, LeastElement
    <3>3. i # 0
      BY <2>6, <2>7, <3>2
    <3>4. i \in 1 .. n /\ i \in 1 .. n + 1 /\ i - 1 \in 0 .. n /\ ~(i <= i - 1)
      BY <2>1, <3>2, <3>3
    <3>5. h[i - 1] = g[i - 1]
      BY <3>2, <3>4
    <3> QED
      BY <2>1, <2>6, <2>7, <3>2, <3>4, <3>5 DEF JoinStep
  <2>9. n + 1 \in 1 .. n + 1 /\ n + 1 - 1 = n
    BY <2>1
  <2> QED
    <3> DEFINE e == n + 1
    <3>1. e \in 1 .. n + 1 /\ e - 1 = n
      BY <2>9 DEF n
    <3>2. t[e] = x
      BY <2>1
    <3> HIDE DEF e
    <3>3. h[e] = JoinStep(h, t, e)
      BY <2>7, <3>1
    <3>4. JoinStep(h, t, e) = h[e - 1] \o t[e]
      BY DEF JoinStep
    <3>5. h[e] = g[n] \o x
      BY <2>8, <3>1, <3>2, <3>3, <3>4
    <3>6. h[n + 1] = g[n] \o x
      BY <3>5 DEF e
    <3> QED
      BY <2>4, <2>5, <3>6 DEF t
<1> QED
  BY <1>1, <1>2, <1>3

Associative(S) == \A f, g, h \in Seq(S) : f \o (g \o h) = (f \o g) \o h

LEMMA Associates == \A S : Associative(S)
  BY ConcatAssociative DEF Associative

LEMMA FlattenConcat ==
    ASSUME NEW S, NEW a \in Seq(Seq(S)), NEW b \in Seq(Seq(S))
    PROVE  FlattenSeq(a \o b) = FlattenSeq(a) \o FlattenSeq(b)
<1> DEFINE Splits(c) == FlattenSeq(a \o c) = FlattenSeq(a) \o FlattenSeq(c)
           T == {n \in Nat : \E c \in Seq(Seq(S)) : Len(c) = n /\ ~Splits(c)}
<1>0. Associative(S) /\ Associative(Seq(S))
  BY Associates
<1>1. SUFFICES ASSUME T # {}
               PROVE  FALSE
  <2>1. Len(b) \in Nat
    BY LenProperties
  <2> QED
    BY <2>1
<1>2. PICK n \in T : \A k \in T : n <= k
  BY <1>1, LeastElement
<1>3. PICK c \in Seq(Seq(S)) : Len(c) = n /\ ~Splits(c)
  BY <1>2
<1>4. FlattenSeq(a) \in Seq(S)
  BY FlattenFacts
<1>5. CASE c = <<>>
  <2>1. a \o c = a
    BY <1>5, ConcatEmptySeq
  <2>2. FlattenSeq(c) = <<>>
    BY <1>5, FlattenFacts
  <2>3. FlattenSeq(a) \o <<>> = FlattenSeq(a)
    BY <1>4, ConcatEmptySeq
  <2> QED
    BY <1>3, <2>1, <2>2, <2>3
<1>6. CASE c # <<>>
  <2>1. PICK d \in Seq(Seq(S)), x \in Seq(S) : c = Append(d, x)
    BY <1>6, SequenceEmptyOrAppend
  <2>2. Len(d) \in Nat /\ Len(c) = Len(d) + 1
    BY <2>1, LenProperties, AppendProperties
  <2>3. Splits(d)
    <3>1. Len(d) \notin T
      <4> HIDE DEF T
      <4> QED
        BY <1>2, <1>3, <2>2
    <3> QED
      BY <2>2, <3>1
  <2>4. a \o d \in Seq(Seq(S)) /\ <<x>> \in Seq(Seq(S))
    BY ConcatProperties
  <2>5. a \o c = Append(a \o d, x)
    <3>1. c = d \o <<x>>
      BY <2>1, AppendIsConcat
    <3>2. a \o (d \o <<x>>) = (a \o d) \o <<x>>
      <4> DEFINE u == <<x>>
                 X == Seq(S)
      <4>1. a \in Seq(X) /\ d \in Seq(X) /\ u \in Seq(X)
        BY <2>1, <2>4
      <4>2. Associative(X)
        BY <1>0
      <4> HIDE DEF u, X
      <4>3. a \o (d \o u) = (a \o d) \o u
        BY <4>1, <4>2, Zenon DEF Associative
      <4> QED
        BY <4>3 DEF u
    <3>3. Append(a \o d, x) = (a \o d) \o <<x>>
      BY <2>4, AppendIsConcat
    <3> QED
      BY <3>1, <3>2, <3>3
  <2>6. FlattenSeq(a \o c) = FlattenSeq(a \o d) \o x
    BY <2>4, <2>5, FlattenFacts
  <2>7. FlattenSeq(c) = FlattenSeq(d) \o x /\ FlattenSeq(d) \in Seq(S)
    BY <2>1, FlattenFacts
  <2>8. FlattenSeq(a) \o (FlattenSeq(d) \o x) = (FlattenSeq(a) \o FlattenSeq(d)) \o x
    <3>1. FlattenSeq(a) \in Seq(S) /\ FlattenSeq(d) \in Seq(S) /\ x \in Seq(S)
      BY <1>4, <2>1, <2>7
    <3>2. Associative(S)
      BY <1>0
    <3> QED
      BY <3>1, <3>2, Zenon DEF Associative
  <2> QED
    BY <1>3, <2>3, <2>6, <2>7, <2>8
<1> QED
  BY <1>5, <1>6

-----------------------------------------------------------------------------
(* Special tokens in a string. *)
Free(parts, string) ==
    \A s \in parts, at \in DOMAIN string : ~OccursAt(string, s, at)

AreElements(w, a, b) ==
    /\ Len(w) = Len(a) + Len(b)
    /\ \A i \in 1 .. Len(a) : w[i] = a[i]
    /\ \A i \in 1 .. Len(b) : w[Len(a) + i] = b[i]

LEMMA ConcatElements ==
    ASSUME NEW S
    PROVE  \A a, b \in Seq(S) : a \o b \in Seq(S) /\ AreElements(a \o b, a, b)
<1> TAKE a, b \in Seq(S)
<1> DEFINE A == Len(a)
           B == Len(b)
           w == a \o b
<1>1. A \in Nat /\ B \in Nat
  BY LenProperties
<1>2. /\ w \in Seq(S) /\ Len(w) = A + B
      /\ \A i \in 1 .. A + B : w[i] = IF i <= A THEN a[i] ELSE b[i - A]
  BY ConcatProperties
<1> HIDE DEF A, B, w
<1>3. \A i \in 1 .. A : i \in 1 .. A + B /\ i <= A
  BY <1>1
<1>4. \A i \in 1 .. B : A + i \in 1 .. A + B /\ ~(A + i <= A) /\ A + i - A = i
  BY <1>1
<1>5. \A i \in 1 .. A : w[i] = a[i]
  BY <1>2, <1>3
<1>6. ASSUME NEW i \in 1 .. B
      PROVE  w[A + i] = b[i]
  <2> DEFINE k == A + i
  <2>1. k \in 1 .. A + B /\ ~(k <= A) /\ k - A = i
    BY <1>1
  <2> HIDE DEF k
  <2>2. w[k] = b[k - A]
    BY <1>2, <2>1
  <2> QED
    BY <2>1, <2>2 DEF k
<1> QED
  BY <1>1, <1>2, <1>5, <1>6 DEF A, B, w, AreElements

Fits(x, s, at) ==
    /\ at + Len(s) - 1 <= Len(x)
    /\ \A k \in 1 .. Len(s) : x[at + k - 1] = s[k]

LEMMA OccursWhere ==
    ASSUME NEW S, NEW x \in Seq(S), NEW s \in Seq(S), s # <<>>, NEW at \in Nat \ {0}
    PROVE  OccursAt(x, s, at) <=> Fits(x, s, at)
<1> DEFINE n == Len(s)
           L == Len(x)
           end == at + n - 1
           sub == SubSeq(x, at, end)
<1>1. L \in Nat /\ n \in Nat \ {0}
  BY LenProperties, EmptySeq
<1>2. OccursAt(x, s, at) <=> end <= L /\ sub = s
  BY DEF OccursAt
<1> HIDE DEF n, L
<1>3. CASE end <= L
  <2>1. at \in Int /\ end \in Int /\ at <= end /\ end - at + 1 = n
    BY <1>1
  <2>2. \A i \in at .. end : x[i] \in S
    <3>1. \A i \in at .. end : i \in 1 .. L
      BY <1>1, <1>3
    <3> QED
      BY <3>1, ElementOfSeq DEF L
  <2> HIDE DEF end
  <2>3. sub \in Seq(S) /\ Len(sub) = n /\ \A k \in 1 .. n : sub[k] = x[at + k - 1]
    BY <2>1, <2>2, SubSeqProperties
  <2> HIDE DEF sub
  <2>4. (\A k \in 1 .. n : x[at + k - 1] = s[k]) => sub = s
    BY <2>3, SeqEqual DEF n
  <2>5. sub = s => \A k \in 1 .. n : x[at + k - 1] = s[k]
    BY <2>3
  <2> QED
    BY <1>2, <1>3, <2>4, <2>5 DEF n, end, L, Fits
<1>4. CASE ~(end <= L)
  BY <1>2, <1>4 DEF n, L, Fits
<1> QED
  BY <1>3, <1>4

(* Strings that are looked for. *)
AreMarks(P, S) == \A s \in P : s \in Seq(S) /\ s # <<>>

(* A part of a string without special tokens has none. *)
LEMMA FreeMiddle ==
    ASSUME NEW S, NEW P, AreMarks(P, S),
           NEW a \in Seq(S), NEW m \in Seq(S), NEW b \in Seq(S),
           Free(P, a \o (m \o b))
    PROVE  Free(P, m)
<1> SUFFICES ASSUME NEW s \in P, NEW at \in DOMAIN m, OccursAt(m, s, at)
             PROVE  FALSE
  BY DEF Free
<1> DEFINE v == m \o b
           w == a \o v
           A == Len(a)
           M == Len(m)
           B == Len(b)
           n == Len(s)
<1>0. s \in Seq(S) /\ s # <<>>
  BY DEF AreMarks
<1>1. A \in Nat /\ M \in Nat /\ B \in Nat /\ n \in Nat \ {0} /\ at \in 1 .. M
  BY <1>0, LenProperties, EmptySeq
<1>2. v \in Seq(S) /\ Len(v) = M + B /\ \A i \in 1 .. M : v[i] = m[i]
  <2>1. v \in Seq(S) /\ AreElements(v, m, b)
    BY ConcatElements
  <2> HIDE DEF v
  <2> QED
    BY <2>1 DEF AreElements
<1> HIDE DEF v
<1>3. w \in Seq(S) /\ Len(w) = A + Len(v) /\ \A i \in 1 .. Len(v) : w[A + i] = v[i]
  <2>1. w \in Seq(S) /\ AreElements(w, a, v)
    BY <1>2, ConcatElements
  <2> HIDE DEF w
  <2> QED
    BY <2>1 DEF AreElements
<1>4. at + n - 1 <= M /\ \A k \in 1 .. n : m[at + k - 1] = s[k]
  <2>1. at \in Nat \ {0}
    BY <1>1
  <2>2. Fits(m, s, at)
    BY <1>0, <2>1, OccursWhere
  <2> QED
    BY <2>2 DEF Fits
<1>5. Free(P, w)
  BY DEF v
<1> HIDE DEF w, A, M, B, n
<1>6. \A i \in 1 .. M : w[A + i] = m[i]
  <2>1. \A i \in 1 .. M : i \in 1 .. Len(v)
    BY <1>1, <1>2
  <2> QED
    BY <1>2, <1>3, <2>1
<1>7. \A k \in 1 .. n : w[A + at + k - 1] = s[k]
  <2> TAKE k \in 1 .. n
  <2>1. at + n - 1 <= M
    BY <1>4
  <2>2. at + k - 1 \in 1 .. M /\ A + (at + k - 1) = A + at + k - 1
    BY <1>1, <2>1
  <2>3. m[at + k - 1] = s[k]
    BY <1>4
  <2>4. w[A + (at + k - 1)] = m[at + k - 1]
    BY <1>6, <2>2
  <2> QED
    BY <2>2, <2>3, <2>4
<1>8. A + at \in Nat \ {0} /\ A + at + n - 1 <= Len(w) /\ A + at \in 1 .. Len(w)
  <2>1. Len(w) = A + (M + B)
    BY <1>2, <1>3
  <2> QED
    BY <1>1, <1>4, <2>1
<1>9. OccursAt(w, s, A + at)
  BY <1>0, <1>3, <1>7, <1>8, OccursWhere DEF n, Fits
<1>10. A + at \in DOMAIN w
  BY <1>3, <1>8, LenProperties
<1> QED
  BY <1>5, <1>9, <1>10 DEF Free

(* Nor have two with a character between them that no special token has. *)
LEMMA FreeAcross ==
    ASSUME NEW S, NEW Q, Q \subseteq S, NEW P, AreMarks(P, Q),
           NEW c \in S, c \notin Q,
           NEW x \in Seq(S), NEW y \in Seq(S), Free(P, x), Free(P, y)
    PROVE  Free(P, x \o (<<c>> \o y))
<1> DEFINE v == <<c>> \o y
           w == x \o v
           X == Len(x)
           Y == Len(y)
<1> SUFFICES ASSUME NEW s \in P, NEW at \in DOMAIN w, OccursAt(w, s, at)
             PROVE  FALSE
  BY DEF Free
<1> DEFINE n == Len(s)
<1>0. s \in Seq(S) /\ s # <<>> /\ s \in Seq(Q)
  <2>1. s \in Seq(Q) /\ s # <<>>
    BY DEF AreMarks
  <2> QED
    BY <2>1, SeqMonotonic
<1>1. X \in Nat /\ Y \in Nat /\ n \in Nat \ {0}
  BY <1>0, LenProperties, EmptySeq
<1>2. <<c>> \in Seq(S) /\ Len(<<c>>) = 1 /\ <<c>>[1] = c
  OBVIOUS
<1>3. /\ v \in Seq(S) /\ Len(v) = 1 + Y /\ v[1] = c
      /\ \A i \in 1 .. Y : v[1 + i] = y[i]
  <2> DEFINE u == <<c>>
  <2>1. u \in Seq(S) /\ Len(u) = 1 /\ u[1] = c
    BY <1>2
  <2> HIDE DEF u
  <2>2. v = u \o y
    BY DEF u
  <2>4. v \in Seq(S) /\ AreElements(v, u, y)
    BY <2>1, <2>2, ConcatElements
  <2> HIDE DEF v
  <2>3. /\ v \in Seq(S) /\ Len(v) = Len(u) + Y
        /\ \A i \in 1 .. Len(u) : v[i] = u[i]
        /\ \A i \in 1 .. Y : v[Len(u) + i] = y[i]
    BY <2>1, <2>4 DEF AreElements
  <2> QED
    BY <2>1, <2>3
<1> HIDE DEF v
<1>4. /\ w \in Seq(S) /\ Len(w) = X + Len(v)
      /\ \A i \in 1 .. X : w[i] = x[i]
      /\ \A i \in 1 .. Len(v) : w[X + i] = v[i]
  <2>1. w \in Seq(S) /\ AreElements(w, x, v)
    BY <1>3, ConcatElements
  <2> HIDE DEF w
  <2> QED
    BY <2>1 DEF AreElements
<1>5. at \in 1 .. X + (1 + Y)
  <2>1. at \in 1 .. Len(w)
    BY <1>4, LenProperties
  <2> QED
    BY <1>3, <1>4, <2>1
<1> HIDE DEF w
<1>6. at + n - 1 <= X + (1 + Y) /\ \A k \in 1 .. n : w[at + k - 1] = s[k]
  <2>1. at \in Nat \ {0}
    BY <1>1, <1>5
  <2>2. at + n - 1 <= Len(w) /\ \A k \in 1 .. n : w[at + k - 1] = s[k]
    <3>1. Fits(w, s, at)
      BY <1>0, <1>4, <2>1, OccursWhere
    <3> QED
      BY <3>1 DEF Fits
  <2> QED
    BY <1>3, <1>4, <2>2
<1> HIDE DEF X, Y, n
<1>7. \A i \in 1 .. X : w[i] = x[i]
  BY <1>4
<1>8. w[X + 1] = c
  <2>1. 1 \in 1 .. Len(v)
    BY <1>1, <1>3
  <2> QED
    BY <1>3, <1>4, <2>1
<1>9. \A i \in 1 .. Y : w[X + (1 + i)] = y[i]
  <2>1. \A i \in 1 .. Y : 1 + i \in 1 .. Len(v)
    BY <1>1, <1>3
  <2> QED
    BY <1>3, <1>4, <2>1
<1>10. \A k \in 1 .. n : s[k] # c
  BY <1>0, ElementOfSeq DEF n
<1>11. CASE at + n - 1 <= X
  <2>1. at \in Nat \ {0} /\ at \in DOMAIN x
    <3>1. at \in 1 .. X
      BY <1>1, <1>5, <1>11
    <3> QED
      BY <3>1, LenProperties DEF X
  <2>2. \A k \in 1 .. n : at + k - 1 \in 1 .. X
    BY <1>1, <1>5, <1>11
  <2>3. \A k \in 1 .. n : x[at + k - 1] = s[k]
    BY <1>6, <1>7, <2>2
  <2>4. OccursAt(x, s, at)
    BY <1>0, <1>11, <2>1, <2>3, OccursWhere DEF n, X, Fits
  <2> QED
    BY <2>1, <2>4 DEF Free
<1>12. CASE at > X + 1
  <2> DEFINE before == at - X - 1
  <2>1. before = at - X - 1 /\ at \in Nat
    BY <1>1, <1>5
  <2> HIDE DEF before
  <2>6. X \in Nat /\ Y \in Nat /\ n \in Nat \ {0} /\ at \in Nat
    BY <1>1, <2>1
  <2>7. at > X + 1 /\ at + n - 1 <= X + (1 + Y)
    BY <1>6, <1>12
  <2>2. /\ before \in Nat \ {0} /\ before \in 1 .. Y /\ before + n - 1 <= Y
        /\ \A k \in 1 .. n : /\ before + k - 1 \in 1 .. Y
                             /\ X + (1 + (before + k - 1)) = at + k - 1
    <3>1. before \in Nat \ {0} /\ before + n - 1 <= Y
      BY <2>1, <2>6, <2>7
    <3>2. before \in 1 .. Y
      BY <2>6, <3>1
    <3>3. ASSUME NEW k \in 1 .. n
          PROVE  before + k - 1 \in 1 .. Y /\ X + (1 + (before + k - 1)) = at + k - 1
      <4>1. k \in Nat /\ 1 <= k /\ k <= n /\ before \in Nat /\ 1 <= before
        BY <2>6, <3>1
      <4>2. before + k - 1 \in 1 .. Y
        BY <2>6, <3>1, <4>1
      <4>3. X + (1 + (before + k - 1)) = X + before + k
        BY <2>6, <4>1
      <4>4. X + before + k = at + k - 1
        BY <2>1, <2>6, <4>1
      <4> QED
        BY <4>2, <4>3, <4>4
    <3> QED
      BY <3>1, <3>2, <3>3
  <2>3. \A k \in 1 .. n : y[before + k - 1] = s[k]
    <3> TAKE k \in 1 .. n
    <3>1. w[X + (1 + (before + k - 1))] = y[before + k - 1]
      BY <1>9, <2>2
    <3> QED
      BY <1>6, <2>2, <3>1
  <2>4. before \in Nat \ {0} /\ before \in DOMAIN y
    BY <2>2, LenProperties DEF Y
  <2>5. OccursAt(y, s, before)
    BY <1>0, <2>2, <2>3, <2>4, OccursWhere DEF n, Y, Fits
  <2> QED
    BY <2>4, <2>5 DEF Free
<1>13. CASE at <= X + 1 /\ X < at + n - 1
  <2> DEFINE k == X + 2 - at
  <2>1. k \in 1 .. n /\ at + k - 1 = X + 1
    BY <1>1, <1>5, <1>13
  <2> HIDE DEF k
  <2> QED
    BY <1>6, <1>8, <1>10, <2>1
<1> QED
  BY <1>1, <1>5, <1>11, <1>12, <1>13

(* A sequence in three parts. *)
LEMMA SubSeqIn ==
    ASSUME NEW X, NEW s \in Seq(X), NEW a \in Nat \ {0}, NEW b \in Int, b <= Len(s)
    PROVE  SubSeq(s, a, b) \in Seq(X)
<1>1. Len(s) \in Nat
  BY LenProperties
<1>2. \A i \in a .. b : i \in 1 .. Len(s)
  BY <1>1
<1>3. \A i \in a .. b : s[i] \in X
  BY <1>2, ElementOfSeq
<1> QED
  BY <1>3, SubSeqProperties

AreParts(s, X, p, q, r) ==
    s = p \o (q \o r) /\ p \in Seq(X) /\ q \in Seq(X) /\ r \in Seq(X)

LEMMA CutTwice ==
    ASSUME NEW X, NEW s \in Seq(X), NEW z \in Nat, NEW a, a = z + 1, a <= Len(s) + 1,
           NEW b \in z .. Len(s)
    PROVE  AreParts(s, X, SubSeq(s, 1, z), SubSeq(s, a, b), SubSeq(s, b + 1, Len(s)))
<1>1. Len(s) \in Nat
  BY LenProperties
<1>2. a \in 1 .. Len(s) + 1 /\ b \in a - 1 .. Len(s) /\ Len(s) \in b .. Len(s) /\ z <= Len(s)
  BY <1>1
<1>3. SubSeq(s, a, b) \o SubSeq(s, b + 1, Len(s)) = SubSeq(s, a, Len(s))
  BY <1>2, ConcatAdjacentSubSeq
<1>4. SubSeq(s, 1, z) \o SubSeq(s, z + 1, Len(s)) = SubSeq(s, 1, Len(s))
  <2>1. 1 \in 1 .. Len(s) + 1 /\ z \in 1 - 1 .. Len(s) /\ Len(s) \in z .. Len(s)
    BY <1>1, <1>2
  <2> QED
    BY <2>1, ConcatAdjacentSubSeq
<1>5. SubSeq(s, 1, Len(s)) = s
  BY SubSeqFull
<1>6. 1 \in Nat \ {0} /\ a \in Nat \ {0} /\ b + 1 \in Nat \ {0} /\ b \in Int /\ b <= Len(s)
  BY <1>1, <1>2
<1>7. /\ SubSeq(s, 1, z) \in Seq(X) /\ SubSeq(s, a, b) \in Seq(X)
      /\ SubSeq(s, b + 1, Len(s)) \in Seq(X)
  BY <1>1, <1>2, <1>6, SubSeqIn
<1> QED
  BY <1>3, <1>4, <1>5, <1>7 DEF AreParts

(* A part of the pieces of a string without special tokens has none. *)
LEMMA PartFree ==
    ASSUME NEW S, NEW P, AreMarks(P, S),
           NEW B \in Seq(Seq(S)), Free(P, FlattenSeq(B)),
           NEW a \in 1 .. Len(B), NEW b \in a .. Len(B)
    PROVE  Free(P, FlattenSeq(SubSeq(B, a, b)))
<1>0. Len(B) \in Nat
  BY LenProperties
<1> DEFINE z == a - 1
           p == SubSeq(B, 1, z)
           q == SubSeq(B, a, b)
           r == SubSeq(B, b + 1, Len(B))
<1>1. z \in Nat /\ a = z + 1 /\ a <= Len(B) + 1 /\ b \in z .. Len(B)
  BY <1>0
<1> HIDE DEF z
<1>2. B = p \o (q \o r) /\ p \in Seq(Seq(S)) /\ q \in Seq(Seq(S)) /\ r \in Seq(Seq(S))
  <2>1. AreParts(B, Seq(S), p, q, r)
    BY <1>1, CutTwice
  <2> HIDE DEF p, q, r
  <2> QED
    BY <2>1 DEF AreParts
<1> HIDE DEF p, q, r
<1>3. q \o r \in Seq(Seq(S))
  BY <1>2, ConcatProperties
<1>4. FlattenSeq(B) = FlattenSeq(p) \o (FlattenSeq(q) \o FlattenSeq(r))
  <2>1. FlattenSeq(p \o (q \o r)) = FlattenSeq(p) \o FlattenSeq(q \o r)
    BY <1>2, <1>3, FlattenConcat
  <2>2. FlattenSeq(q \o r) = FlattenSeq(q) \o FlattenSeq(r)
    BY <1>2, FlattenConcat
  <2> QED
    BY <1>2, <2>1, <2>2
<1>5. FlattenSeq(p) \in Seq(S) /\ FlattenSeq(q) \in Seq(S) /\ FlattenSeq(r) \in Seq(S)
  BY <1>2, FlattenFacts
<1>6. Free(P, FlattenSeq(q))
  BY <1>4, <1>5, FreeMiddle
<1> QED
  BY <1>6 DEF q

(* Tokens between which no special token lies hold none. *)
Unmarked(P, T, i, j) == \A k \in i .. j : T[k] \notin P
Clean(P, T) ==
    \A i, j \in 1 .. Len(T) :
        i <= j /\ Unmarked(P, T, i, j) => Free(P, FlattenSeq(SubSeq(T, i, j)))
AtSpecial(P, T) == T = <<>> \/ T[Len(T)] \in P

LEMMA CleanAcross ==
    ASSUME NEW S, NEW Q, Q \subseteq S, NEW P, AreMarks(P, Q),
           NEW c \in S, c \notin Q,
           NEW x \in Seq(S), Free(P, x), NEW B \in Seq(Seq(S)),
           NEW y \in Seq(S), Free(P, y), FlattenSeq(B) = <<c>> \o y,
           NEW b \in 1 .. Len(B)
    PROVE  Free(P, x \o FlattenSeq(SubSeq(B, 1, b)))
<1>0. AreMarks(P, S)
  BY SeqMonotonic DEF AreMarks
<1>1. Len(B) \in Nat
  BY LenProperties
<1> DEFINE e == SubSeq(B, 1, 0)
           p == SubSeq(B, 1, b)
           r == SubSeq(B, b + 1, Len(B))
<1>2. /\ 0 \in Nat /\ 1 = 0 + 1 /\ 1 <= Len(B) + 1 /\ b \in 0 .. Len(B)
  BY <1>1
<1>3. B = e \o (p \o r) /\ e \in Seq(Seq(S)) /\ p \in Seq(Seq(S)) /\ r \in Seq(Seq(S))
  BY <1>2, CutTwice DEF AreParts
<1>4. e = <<>>
  BY SubSeqEmpty
<1> HIDE DEF e, p, r
<1>5. p \o r \in Seq(Seq(S))
  BY <1>3, ConcatProperties
<1>6. B = p \o r
  BY <1>3, <1>4, <1>5, ConcatEmptySeq
<1> DEFINE u == FlattenSeq(p)
           v == FlattenSeq(r)
<1>7. FlattenSeq(B) = u \o v
  BY <1>3, <1>6, FlattenConcat
<1>8. u \in Seq(S) /\ v \in Seq(S)
  BY <1>3, FlattenFacts
<1> HIDE DEF u, v
<1>9. Free(P, x \o (<<c>> \o y))
  BY FreeAcross
<1>10. x \o (u \o v) = (x \o u) \o v
  <2>1. Associative(S)
    BY Associates
  <2> QED
    BY <1>8, <2>1, Zenon DEF Associative
<1>11. x \o u \in Seq(S) /\ (x \o u) \o v \in Seq(S)
  BY <1>8, ConcatProperties
<1>12. Free(P, <<>> \o ((x \o u) \o v))
  <2>1. <<>> \o ((x \o u) \o v) = (x \o u) \o v
    BY <1>11, ConcatEmptySeq
  <2> QED
    BY <1>7, <1>9, <1>10, <2>1
<1>13. Free(P, x \o u)
  <2>1. <<>> \in Seq(S)
    BY EmptySeq
  <2> QED
    BY <1>0, <1>8, <1>11, <1>12, <2>1, FreeMiddle
<1> QED
  BY <1>13 DEF u, p

SubSeqsOf(T, B) ==
    /\ \A i, j \in 1 .. Len(T) : SubSeq(T \o B, i, j) = SubSeq(T, i, j)
    /\ \A i, j \in Len(T) + 1 .. Len(T) + Len(B) :
          SubSeq(T \o B, i, j) = SubSeq(B, i - Len(T), j - Len(T))

LEMMA SubSeqsOfConcat ==
    ASSUME NEW X, NEW T \in Seq(X), NEW B \in Seq(X)
    PROVE  SubSeqsOf(T, B)
<1>1. \A i, j \in 1 .. Len(T) : SubSeq(T \o B, i, j) = SubSeq(T, i, j)
  BY SubSeqOfConcat1
<1>2. \A i, j \in Len(T) + 1 .. Len(T) + Len(B) :
          SubSeq(T \o B, i, j) = SubSeq(B, i - Len(T), j - Len(T))
  BY SubSeqOfConcat2
<1> QED
  BY <1>1, <1>2 DEF SubSeqsOf

LEMMA CleanConcat ==
    ASSUME NEW S, NEW Q, Q \subseteq S, NEW P, AreMarks(P, Q),
           NEW c \in S, c \notin Q,
           NEW T \in Seq(Seq(S)), Clean(P, T),
           NEW B \in Seq(Seq(S)), Free(P, FlattenSeq(B)),
           \/ AtSpecial(P, T)
           \/ \E y \in Seq(S) : Free(P, y) /\ FlattenSeq(B) = <<c>> \o y
    PROVE  Clean(P, T \o B)
<1> DEFINE V == T \o B
           n == Len(T)
           m == Len(B)
<1>0. AreMarks(P, S)
  BY SeqMonotonic DEF AreMarks
<1>1. n \in Nat /\ m \in Nat
  BY LenProperties
<1>2. V \in Seq(Seq(S)) /\ AreElements(V, T, B)
  BY ConcatElements
<1>3. /\ \A i, j \in 1 .. n : SubSeq(V, i, j) = SubSeq(T, i, j)
      /\ \A i, j \in n + 1 .. n + m : SubSeq(V, i, j) = SubSeq(B, i - n, j - n)
  BY SubSeqsOfConcat DEF SubSeqsOf
<1> HIDE DEF V, n, m
<1>4. Len(V) = n + m /\ \A k \in 1 .. n : V[k] = T[k]
  BY <1>2 DEF AreElements, n, m
<1> SUFFICES ASSUME NEW i \in 1 .. n + m, NEW j \in 1 .. n + m, i <= j, Unmarked(P, V, i, j)
             PROVE  Free(P, FlattenSeq(SubSeq(V, i, j)))
  BY <1>4 DEF Clean, V
<1>5. CASE j <= n
  <2>1. i \in 1 .. n /\ j \in 1 .. n
    BY <1>1, <1>5
  <2>2. Unmarked(P, T, i, j)
    <3>1. \A k \in i .. j : k \in 1 .. n
      BY <1>1, <2>1
    <3> QED
      BY <1>4, <3>1 DEF Unmarked
  <2>3. Free(P, FlattenSeq(SubSeq(T, i, j)))
    BY <2>1, <2>2 DEF Clean, n
  <2> QED
    BY <1>3, <2>1, <2>3
<1>6. CASE n < i
  <2> DEFINE a == i - n
             b == j - n
  <2>1. a \in 1 .. m /\ b \in a .. m /\ i \in n + 1 .. n + m /\ j \in n + 1 .. n + m
    BY <1>1, <1>6
  <2>2. SubSeq(V, i, j) = SubSeq(B, a, b)
    BY <1>3, <2>1
  <2> HIDE DEF a, b
  <2>3. Free(P, FlattenSeq(SubSeq(B, a, b)))
    BY <1>0, <2>1, PartFree DEF m
  <2> QED
    BY <2>2, <2>3
<1>7. CASE i <= n /\ n < j
  <2> DEFINE b == j - n
             x == SubSeq(T, i, n)
             z == SubSeq(B, 1, b)
  <2>1. i \in 1 .. n /\ n \in 1 .. n /\ b \in 1 .. m /\ n \in i .. j
    BY <1>1, <1>7
  <2>2. SubSeq(V, i, j) = x \o z
    <3>1. SubSeq(V, i, n) = x
      BY <1>3, <2>1
    <3>2. SubSeq(V, n + 1, j) = z
      <4> DEFINE e == n + 1
      <4>1. e \in n + 1 .. n + m /\ j \in n + 1 .. n + m /\ e - n = 1
        BY <1>1, <1>7
      <4> HIDE DEF e
      <4>2. SubSeq(V, e, j) = SubSeq(B, e - n, j - n)
        BY <1>3, <4>1
      <4>3. SubSeq(V, e, j) = z
        BY <4>1, <4>2
      <4> QED
        BY <4>3 DEF e
    <3>3. SubSeq(V, i, n) \o SubSeq(V, n + 1, j) = SubSeq(V, i, j)
      <4>1. i \in 1 .. Len(V) + 1 /\ n \in i - 1 .. Len(V) /\ j \in n .. Len(V)
        BY <1>1, <1>4, <1>7
      <4> HIDE DEF x, z, b
      <4> QED
        BY <1>2, <4>1, ConcatAdjacentSubSeq
    <3> HIDE DEF x, z, b
    <3> QED
      BY <3>1, <3>2, <3>3
  <2>3. T # <<>> /\ T[n] \notin P
    <3>1. T # <<>>
      BY <1>1, <2>1, EmptySeq DEF n
    <3>2. V[n] \notin P
      BY <2>1 DEF Unmarked
    <3> QED
      BY <1>4, <2>1, <3>1, <3>2
  <2>4. PICK y \in Seq(S) : Free(P, y) /\ FlattenSeq(B) = <<c>> \o y
    BY <2>3 DEF AtSpecial, n
  <2>5. x \in Seq(Seq(S)) /\ z \in Seq(Seq(S))
    <3>1. i \in Nat \ {0} /\ n \in Int /\ n <= Len(T) /\ 1 \in Nat \ {0} /\ b \in Int /\ b <= Len(B)
      BY <1>1, <2>1 DEF n, m
    <3> QED
      BY <3>1, SubSeqIn
  <2>6. Free(P, FlattenSeq(x))
    <3>1. Unmarked(P, T, i, n)
      <4>1. \A k \in i .. n : k \in 1 .. n /\ k \in i .. j
        BY <1>1, <1>7, <2>1
      <4> QED
        BY <1>4, <4>1 DEF Unmarked
    <3>2. i <= n
      BY <1>7
    <3> QED
      BY <2>1, <3>1, <3>2 DEF Clean, n
  <2> HIDE DEF x
  <2>7. FlattenSeq(x) \in Seq(S)
    BY <2>5, FlattenFacts
  <2> HIDE DEF b
  <2>8. Free(P, FlattenSeq(x) \o FlattenSeq(z))
    <3>1. b \in 1 .. Len(B)
      BY <2>1 DEF m
    <3> QED
      BY <2>4, <2>6, <2>7, <3>1, CleanAcross
  <2> HIDE DEF z
  <2>9. FlattenSeq(x \o z) = FlattenSeq(x) \o FlattenSeq(z)
    BY <2>5, FlattenConcat
  <2> QED
    BY <2>2, <2>8, <2>9
<1> QED
  BY <1>1, <1>5, <1>6, <1>7

LEMMA CleanAppend ==
    ASSUME NEW S, NEW P, NEW T \in Seq(Seq(S)), Clean(P, T), NEW s \in P, s \in Seq(S)
    PROVE  Clean(P, Append(T, s)) /\ AtSpecial(P, Append(T, s))
<1> DEFINE V == Append(T, s)
           n == Len(T)
<1>1. n \in Nat
  BY LenProperties
<1>2. /\ V \in Seq(Seq(S)) /\ Len(V) = n + 1 /\ V[n + 1] = s
      /\ \A k \in 1 .. n : V[k] = T[k]
  BY AppendProperties
<1>3. \A i, j \in 1 .. n : SubSeq(V, i, j) = SubSeq(T, i, j)
  <2>1. <<s>> \in Seq(Seq(S)) /\ V = T \o <<s>>
    BY AppendIsConcat
  <2> DEFINE u == <<s>>
  <2> HIDE DEF u
  <2>2. \A i, j \in 1 .. Len(T) : SubSeq(T \o u, i, j) = SubSeq(T, i, j)
    <3>1. u \in Seq(Seq(S))
      BY <2>1 DEF u
    <3> QED
      BY <3>1, SubSeqOfConcat1
  <2> QED
    BY <2>1, <2>2 DEF u
<1> HIDE DEF V, n
<1>4. Clean(P, V)
  <2> SUFFICES ASSUME NEW i \in 1 .. n + 1, NEW j \in 1 .. n + 1, i <= j, Unmarked(P, V, i, j)
               PROVE  Free(P, FlattenSeq(SubSeq(V, i, j)))
    BY <1>2 DEF Clean
  <2>1. j # n + 1
    <3>1. j \in i .. j
      BY <1>1
    <3> QED
      BY <1>2, <3>1 DEF Unmarked
  <2>2. i \in 1 .. n /\ j \in 1 .. n
    BY <1>1, <2>1
  <2>3. Unmarked(P, T, i, j)
    <3>1. \A k \in i .. j : k \in 1 .. n
      BY <1>1, <2>2
    <3> QED
      BY <1>2, <3>1 DEF Unmarked
  <2>4. Free(P, FlattenSeq(SubSeq(T, i, j)))
    BY <2>2, <2>3 DEF Clean, n
  <2> QED
    BY <1>3, <2>2, <2>4
<1>5. AtSpecial(P, V)
  BY <1>2 DEF AtSpecial
<1> QED
  BY <1>4, <1>5 DEF V

-----------------------------------------------------------------------------
(* A merge joins two parts and keeps the word. *)
LEMMA ReplaceBehind ==
    ASSUME NEW X, NEW p \in Seq(X), NEW q \in Seq(X), NEW x \in X, NEW z \in X,
           NEW j, j = Len(p) + 1
    PROVE  [Append(p, x) \o q EXCEPT ![j] = z] = Append(p, z) \o q
<1> DEFINE px == Append(p, x)
           pz == Append(p, z)
           n == Len(p)
<1>1. n \in Nat
  BY LenProperties
<1>2. /\ px \in Seq(X) /\ Len(px) = n + 1 /\ \A i \in 1 .. n : px[i] = p[i]
      /\ pz \in Seq(X) /\ Len(pz) = n + 1 /\ pz[n + 1] = z /\ \A i \in 1 .. n : pz[i] = p[i]
  BY AppendProperties
<1> HIDE DEF px, pz
<1> DEFINE u == px \o q
           v == pz \o q
<1>3. u \in Seq(X) /\ AreElements(u, px, q) /\ v \in Seq(X) /\ AreElements(v, pz, q)
  BY <1>2, ConcatElements
<1> DEFINE w == [u EXCEPT ![j] = z]
           m == Len(q)
<1>4. m \in Nat
  BY LenProperties
<1> HIDE DEF u, v, n, m
<1>5. /\ Len(u) = n + 1 + m /\ Len(v) = n + 1 + m
      /\ \A i \in 1 .. n + 1 : u[i] = px[i] /\ v[i] = pz[i]
      /\ \A i \in 1 .. m : u[n + 1 + i] = v[n + 1 + i]
  BY <1>2, <1>3 DEF AreElements, m
<1>6. j = n + 1 /\ j \in 1 .. Len(u)
  BY <1>1, <1>4, <1>5 DEF n
<1>7. w \in Seq(X) /\ Len(w) = Len(u) /\ \A i \in 1 .. Len(u) : w[i] = IF i = j THEN z ELSE u[i]
  BY <1>3, <1>6, ExceptSeq
<1> HIDE DEF w
<1>8. ASSUME NEW i \in 1 .. Len(u)
      PROVE  w[i] = v[i]
  <2>1. CASE i <= n
    <3>1. i \in 1 .. n /\ i \in 1 .. n + 1 /\ i # j
      BY <1>1, <1>6, <2>1
    <3> QED
      BY <1>2, <1>5, <1>7, <3>1
  <2>2. CASE i = n + 1
    <3>1. i = j /\ i \in 1 .. n + 1
      BY <1>1, <1>6, <2>2
    <3> QED
      BY <1>2, <1>5, <1>7, <2>2, <3>1
  <2>3. CASE n + 1 < i
    <3> DEFINE k == i - (n + 1)
    <3>1. k \in 1 .. m /\ n + 1 + k = i /\ i # j
      BY <1>1, <1>4, <1>5, <1>6, <2>3
    <3> HIDE DEF k
    <3>2. u[n + 1 + k] = v[n + 1 + k]
      BY <1>5, <3>1
    <3>3. u[i] = v[i]
      BY <3>1, <3>2
    <3> QED
      BY <1>7, <3>1, <3>3
  <2> QED
    BY <1>1, <2>1, <2>2, <2>3
<1>9. w = v
  BY <1>3, <1>5, <1>7, <1>8, SeqEqual
<1> QED
  BY <1>9 DEF w, u, v, px, pz

LEMMA JoinedFlat ==
    ASSUME NEW S, NEW parts \in Seq(Seq(S)), NEW j \in 1 .. Len(parts) - 1
    PROVE  /\ Joined(parts, j) \in Seq(Seq(S))
           /\ FlattenSeq(Joined(parts, j)) = FlattenSeq(parts)
<1> DEFINE n == Len(parts)
           x == parts[j]
           y == parts[j + 1]
           i == j - 1
           pre == SubSeq(parts, 1, i)
           post == SubSeq(parts, j + 1 + 1, n)
<1>1. n \in Nat
  BY LenProperties
<1>2. /\ j \in 1 .. n /\ j + 1 \in 1 .. n /\ i \in Nat /\ i <= n /\ i \in Int /\ j = i + 1
      /\ j + 1 + 1 \in Nat \ {0} /\ n \in Int /\ n <= n
      /\ 1 \in 1 .. n /\ j \in 1 .. n /\ j + 1 - 1 = j
  BY <1>1
<1>3. x \in Seq(S) /\ y \in Seq(S)
  BY <1>2, ElementOfSeq
<1>4. pre \in Seq(Seq(S)) /\ post \in Seq(Seq(S)) /\ Len(pre) = i
  <2>1. 1 \in Nat \ {0}
    OBVIOUS
  <2>2. pre \in Seq(Seq(S)) /\ post \in Seq(Seq(S))
    BY <1>2, <2>1, SubSeqIn
  <2>3. \A k \in 1 .. i : parts[k] \in Seq(S)
    BY <1>1, <1>2, ElementOfSeq
  <2>4. 1 \in Int /\ (IF 1 <= i THEN i - 1 + 1 ELSE 0) = i
    BY <1>2
  <2>5. Len(pre) = IF 1 <= i THEN i - 1 + 1 ELSE 0
    BY <1>2, <2>3, <2>4, SubSeqProperties
  <2> QED
    BY <2>2, <2>4, <2>5
<1>5. SubSeq(parts, 1, j) = Append(pre, x)
  <2>1. 1 \in 1 .. Len(parts) /\ j \in 1 .. Len(parts)
    BY <1>1, <1>2
  <2>2. SubSeq(parts, 1, j) = pre \o <<x>>
    BY <2>1, SubSeqRecursiveSecond
  <2> HIDE DEF pre, x
  <2>3. Append(pre, x) = pre \o <<x>>
    BY <1>3, <1>4, AppendIsConcat
  <2> QED
    BY <2>2, <2>3
<1>6. SubSeq(parts, 1, j + 1) = Append(Append(pre, x), y)
  <2> DEFINE k == j + 1
  <2>1. 1 \in 1 .. Len(parts) /\ k \in 1 .. Len(parts) /\ k - 1 = j
    BY <1>1, <1>2
  <2> HIDE DEF k
  <2>2. SubSeq(parts, 1, k) = SubSeq(parts, 1, k - 1) \o <<parts[k]>>
    BY <2>1, SubSeqRecursiveSecond
  <2>3. SubSeq(parts, 1, k) = Append(pre, x) \o <<y>>
    BY <1>5, <2>1, <2>2 DEF k
  <2> HIDE DEF pre, x, y
  <2>4. Append(pre, x) \in Seq(Seq(S))
    BY <1>3, <1>4, AppendProperties
  <2> DEFINE a == Append(pre, x)
  <2> HIDE DEF a
  <2>5. Append(a, y) = a \o <<y>>
    BY <1>3, <2>4, AppendIsConcat DEF a
  <2> QED
    BY <2>3, <2>5 DEF a, k
<1>7. parts = Append(Append(pre, x), y) \o post
  <2> DEFINE k == j + 1
  <2>1. 1 \in 1 .. Len(parts) + 1 /\ k \in 1 - 1 .. Len(parts) /\ Len(parts) \in k .. Len(parts)
    BY <1>1, <1>2
  <2> HIDE DEF k
  <2>2. SubSeq(parts, 1, k) \o SubSeq(parts, k + 1, Len(parts)) = SubSeq(parts, 1, Len(parts))
    BY <2>1, ConcatAdjacentSubSeq
  <2>3. SubSeq(parts, 1, Len(parts)) = parts
    BY SubSeqFull
  <2>4. SubSeq(parts, k + 1, Len(parts)) = post
    BY DEF k
  <2> HIDE DEF post, pre, x, y, n
  <2> QED
    BY <1>6, <2>2, <2>3, <2>4 DEF k
<1> DEFINE z == x \o y
<1>8. z \in Seq(S)
  BY <1>3, ConcatProperties
<1>9. Joined(parts, j) = Append(pre, z) \o post
  <2>1. RemoveAt(parts, j + 1) = Append(pre, x) \o post
    <3>1. RemoveAt(parts, j + 1) = SubSeq(parts, 1, j + 1 - 1) \o post
      BY DEF RemoveAt
    <3> HIDE DEF pre, post, x, y, z, n, i
    <3> QED
      BY <1>2, <1>5, <3>1
  <2> HIDE DEF pre, post
  <2>2. Joined(parts, j) = [Append(pre, x) \o post EXCEPT ![j] = z]
    BY <2>1 DEF Joined, ReplaceAt
  <2>3. j = Len(pre) + 1
    BY <1>2, <1>4
  <2> HIDE DEF x, y, z, n, i
  <2> QED
    <3>1. [Append(pre, x) \o post EXCEPT ![j] = z] = Append(pre, z) \o post
      BY <1>3, <1>4, <1>8, <2>3, ReplaceBehind
    <3> QED
      BY <2>2, <3>1
<1> HIDE DEF pre, post, x, y, z, n, i
<1> DEFINE a == Append(pre, x)
           b == Append(a, y)
           d == Append(pre, z)
<1>10. a \in Seq(Seq(S)) /\ d \in Seq(Seq(S))
  BY <1>3, <1>4, <1>8, AppendProperties
<1>11. FlattenSeq(a) = FlattenSeq(pre) \o x /\ FlattenSeq(d) = FlattenSeq(pre) \o z
  BY <1>3, <1>4, <1>8, FlattenFacts
<1> HIDE DEF a, d
<1>12. b \in Seq(Seq(S)) /\ FlattenSeq(b) = FlattenSeq(a) \o y
  BY <1>3, <1>10, AppendProperties, FlattenFacts
<1> HIDE DEF b
<1>13. FlattenSeq(b \o post) = FlattenSeq(b) \o FlattenSeq(post)
  BY <1>4, <1>12, FlattenConcat
<1>14. FlattenSeq(d \o post) = FlattenSeq(d) \o FlattenSeq(post)
  BY <1>4, <1>10, FlattenConcat
<1>15. FlattenSeq(b) = FlattenSeq(d)
  <2>1. FlattenSeq(pre) \in Seq(S)
    BY <1>4, FlattenFacts
  <2>2. FlattenSeq(pre) \o (x \o y) = (FlattenSeq(pre) \o x) \o y
    <3>1. Associative(S)
      BY Associates
    <3> QED
      BY <1>3, <2>1, <3>1, Zenon DEF Associative
  <2> QED
    BY <1>11, <1>12, <2>2 DEF z
<1>16. d \o post \in Seq(Seq(S))
  BY <1>4, <1>10, ConcatProperties
<1>17. parts = b \o post /\ Joined(parts, j) = d \o post
  BY <1>7, <1>9 DEF a, b, d
<1> QED
  BY <1>13, <1>14, <1>15, <1>16, <1>17

LEMMA MergeOnceFlat ==
    ASSUME NEW S, NEW parts \in Seq(Seq(S))
    PROVE  MergeOnce(parts) \in Seq(Seq(S)) /\ FlattenSeq(MergeOnce(parts)) = FlattenSeq(parts)
<1>1. CASE Ranks(parts) = {}
  BY <1>1 DEF MergeOnce
<1>2. CASE Ranks(parts) # {}
  <2> DEFINE best == CHOOSE r \in Ranks(parts) : \A s \in Ranks(parts) : r <= s
             places == {j \in 1 .. Len(parts) - 1 : best \in MergeRank(parts[j], parts[j + 1])}
             j == Place(places)
  <2>1. MergeOnce(parts) = Joined(parts, j)
    BY <1>2 DEF MergeOnce
  <2>2. Len(parts) \in Nat /\ Len(Merges) \in Nat /\ DOMAIN Merges = 1 .. Len(Merges)
    BY MergesAssumption, LenProperties
  <2>3. Ranks(parts) \subseteq Nat
    <3>1. \A left, right : MergeRank(left, right) \subseteq Nat
      BY <2>2 DEF MergeRank
    <3> QED
      BY <3>1 DEF Ranks
  <2>4. best \in Ranks(parts)
    <3>1. \E r \in Ranks(parts) : \A s \in Ranks(parts) : r <= s
      BY <1>2, <2>3, LeastElement
    <3> QED
      BY <3>1
  <2> HIDE DEF best
  <2>5. places # {} /\ places \subseteq Nat
    <3>1. \E k \in 1 .. Len(parts) - 1 : best \in MergeRank(parts[k], parts[k + 1])
      BY <2>4 DEF Ranks
    <3>2. \A k \in 1 .. Len(parts) - 1 : k \in Nat
      BY <2>2
    <3> QED
      BY <3>1, <3>2
  <2>6. places \subseteq 1 .. Len(parts) - 1
    OBVIOUS
  <2> HIDE DEF places
  <2>7. j \in places
    <3>1. \E k \in places : \A i \in places : k <= i
      BY <2>5, LeastElement
    <3> QED
      BY <3>1 DEF Place
  <2> HIDE DEF j
  <2>8. j \in 1 .. Len(parts) - 1
    BY <2>6, <2>7
  <2> QED
    BY <2>1, <2>8, JoinedFlat
<1> QED
  BY <1>1, <1>2

LEMMA CharactersFlat ==
    ASSUME NEW S, NEW word \in Seq(S)
    PROVE  Characters(word) \in Seq(Seq(S)) /\ FlattenSeq(Characters(word)) = word
<1>1. ASSUME NEW w \in Seq(S)
      PROVE  /\ Characters(w) \in Seq(Seq(S)) /\ Len(Characters(w)) = Len(w)
             /\ \A i \in 1 .. Len(w) : Characters(w)[i] = <<w[i]>>
  <2>1. Len(w) \in Nat /\ DOMAIN w = 1 .. Len(w)
    BY LenProperties
  <2>2. \A i \in 1 .. Len(w) : <<w[i]>> \in Seq(S)
    BY ElementOfSeq
  <2>3. Characters(w) = [i \in 1 .. Len(w) |-> <<w[i]>>]
    BY <2>1 DEF Characters
  <2>4. Characters(w) \in [1 .. Len(w) -> Seq(S)]
    BY <2>2, <2>3
  <2>5. Characters(w) \in Seq(Seq(S))
    BY <2>1, <2>4
  <2>6. Len(Characters(w)) = Len(w)
    BY <2>1, <2>3, <2>5, LenProperties
  <2> QED
    BY <2>3, <2>5, <2>6
<1> DEFINE Flat(w) == FlattenSeq(Characters(w)) = w
           T == {n \in Nat : \E w \in Seq(S) : Len(w) = n /\ ~Flat(w)}
<1>2. SUFFICES ASSUME T # {}
               PROVE  FALSE
  BY <1>1, LenProperties
<1>3. PICK n \in T : \A k \in T : n <= k
  BY <1>2, LeastElement
<1>4. PICK w \in Seq(S) : Len(w) = n /\ ~Flat(w)
  BY <1>3
<1>5. CASE w = <<>>
  <2>1. Characters(w) = <<>>
    BY <1>5 DEF Characters
  <2> QED
    BY <1>4, <1>5, <2>1, FlattenFacts
<1>6. CASE w # <<>>
  <2>1. PICK v \in Seq(S), e \in S : w = Append(v, e)
    BY <1>6, SequenceEmptyOrAppend
  <2>2. /\ Len(v) \in Nat /\ Len(w) = Len(v) + 1 /\ w[Len(v) + 1] = e
        /\ \A i \in 1 .. Len(v) : w[i] = v[i]
    BY <2>1, LenProperties, AppendProperties
  <2>3. Flat(v)
    <3>1. Len(v) \notin T
      <4> HIDE DEF T
      <4> QED
        BY <1>3, <1>4, <2>2
    <3> QED
      BY <2>2, <3>1
  <2> DEFINE cv == Characters(v)
             cw == Characters(w)
             last == <<e>>
             ce == Append(cv, last)
             m == Len(v)
  <2>4. /\ cv \in Seq(Seq(S)) /\ Len(cv) = m /\ \A i \in 1 .. m : cv[i] = <<v[i]>>
        /\ cw \in Seq(Seq(S)) /\ Len(cw) = m + 1 /\ \A i \in 1 .. m + 1 : cw[i] = <<w[i]>>
    BY <1>1, <2>2
  <2>5. last \in Seq(S)
    BY <2>1
  <2> HIDE DEF cv, cw, last
  <2>6. /\ ce \in Seq(Seq(S)) /\ Len(ce) = m + 1 /\ ce[m + 1] = last
        /\ \A i \in 1 .. m : ce[i] = cv[i]
    BY <2>4, <2>5, AppendProperties
  <2> HIDE DEF ce, m
  <2>7. cw = ce
    <3>1. m \in Nat /\ w[m + 1] = e /\ \A i \in 1 .. m : w[i] = v[i]
      BY <2>2 DEF m
    <3>2. \A i \in 1 .. m : cw[i] = ce[i]
      <4>1. \A i \in 1 .. m : i \in 1 .. m + 1
        BY <3>1
      <4> QED
        BY <2>4, <2>6, <3>1, <4>1
    <3>3. cw[m + 1] = ce[m + 1]
      <4>1. m + 1 \in 1 .. m + 1
        BY <3>1
      <4> QED
        BY <2>4, <2>6, <3>1, <4>1 DEF last
    <3>4. \A i \in 1 .. m + 1 : i \in 1 .. m \/ i = m + 1
      BY <3>1
    <3>5. \A i \in 1 .. m + 1 : cw[i] = ce[i]
      BY <3>2, <3>3, <3>4
    <3> QED
      BY <2>4, <2>6, <3>5, SeqEqual
  <2>8. FlattenSeq(ce) = FlattenSeq(cv) \o last
    BY <2>4, <2>5, FlattenFacts DEF ce
  <2>9. FlattenSeq(cw) = v \o <<e>>
    BY <2>3, <2>7, <2>8 DEF cv, last
  <2>10. w = v \o <<e>>
    BY <2>1, AppendIsConcat
  <2> QED
    BY <1>4, <2>9, <2>10 DEF cw
<1> QED
  BY <1>5, <1>6

AreMerged(g, word, n) ==
    g = [k \in 0 .. n |-> IF k = 0 THEN Characters(word) ELSE MergeOnce(g[k - 1])]

LEMMA MergedContinued ==
    ASSUME NEW word, NEW n \in Nat, NEW g, AreMerged(g, word, n)
    PROVE  \E h : AreMerged(h, word, n + 1)
<1> DEFINE Longer == MergeOnce(g[n])
           h == [i \in 0 .. n + 1 |-> IF i <= n THEN g[i] ELSE Longer]
           Value(i) == IF i = 0 THEN Characters(word) ELSE MergeOnce(h[i - 1])
<1>1. ASSUME NEW i \in 0 .. n + 1
      PROVE  h[i] = Value(i)
  <2>1. CASE i = 0
    BY <2>1 DEF AreMerged
  <2>2. CASE i \in 1 .. n
    <3>1. h[i] = g[i] /\ h[i - 1] = g[i - 1] /\ i \in 0 .. n /\ i # 0
      BY <2>2
    <3>2. g[i] = MergeOnce(g[i - 1])
      BY <3>1 DEF AreMerged
    <3> HIDE DEF h
    <3> QED
      BY <3>1, <3>2
  <2>3. CASE i = n + 1
    <3>1. h[i] = Longer /\ h[i - 1] = g[n] /\ i # 0
      BY <2>3
    <3> HIDE DEF h
    <3> QED
      BY <2>3, <3>1
  <2> QED
    BY <2>1, <2>2, <2>3
<1>2. h = [i \in 0 .. n + 1 |-> h[i]]
  OBVIOUS
<1> HIDE DEF h
<1>3. h = [i \in 0 .. n + 1 |-> Value(i)]
  BY <1>1, <1>2
<1> QED
  BY <1>3 DEF AreMerged

LEMMA MergedExist ==
    ASSUME NEW word, NEW n \in Nat
    PROVE  \E g : AreMerged(g, word, n)
<1> DEFINE T == {m \in Nat : ~\E g : AreMerged(g, word, m)}
<1>1. SUFFICES ASSUME T # {}
               PROVE  FALSE
  OBVIOUS
<1>2. PICK m \in T : \A k \in T : m <= k
  BY <1>1, LeastElement
<1>3. CASE m = 0
  <2>1. AreMerged([i \in 0 .. 0 |-> Characters(word)], word, 0)
    BY DEF AreMerged
  <2> QED
    BY <1>2, <1>3, <2>1
<1>4. CASE m > 0
  <2>1. m - 1 \in Nat /\ m - 1 \notin T
    BY <1>2, <1>4
  <2>2. PICK g : AreMerged(g, word, m - 1)
    BY <2>1
  <2>3. \E h : AreMerged(h, word, m - 1 + 1)
    BY <2>1, <2>2, MergedContinued
  <2> QED
    BY <1>2, <2>3
<1> QED
  BY <1>2, <1>3, <1>4

(* apply_bpe keeps the word. *)
LEMMA MergesFlat ==
    ASSUME NEW S, NEW word \in Seq(S)
    PROVE  ApplyMerges(word) \in Seq(Seq(S)) /\ FlattenSeq(ApplyMerges(word)) = word
<1> DEFINE n == Len(word)
           Recursive(g) ==
             g = [k \in 0 .. n |-> IF k = 0 THEN Characters(word) ELSE MergeOnce(g[k - 1])]
<1>1. n \in Nat
  BY LenProperties
<1>2. \A g : AreMerged(g, word, n) <=> Recursive(g)
  BY DEF AreMerged
<1>3. ApplyMerges(word) = (CHOOSE g : Recursive(g))[n]
  BY DEF ApplyMerges
<1>4. \E g : AreMerged(g, word, n)
  BY <1>1, MergedExist
<1>5. PICK g : AreMerged(g, word, n) /\ ApplyMerges(word) = g[n]
  <2> HIDE DEF Recursive, n
  <2> QED
    BY <1>2, <1>3, <1>4
<1> HIDE DEF n
<1>6. g[0] = Characters(word) /\ \A k \in 1 .. n : g[k] = MergeOnce(g[k - 1])
  BY <1>1, <1>5 DEF AreMerged
<1> DEFINE Good(k) == g[k] \in Seq(Seq(S)) /\ FlattenSeq(g[k]) = word
           T == {k \in 0 .. n : ~Good(k)}
<1>7. Good(0)
  BY <1>6, CharactersFlat
<1>8. ASSUME NEW k \in 1 .. n, Good(k - 1)
      PROVE  Good(k)
  <2>1. g[k] = MergeOnce(g[k - 1])
    BY <1>6
  <2> DEFINE before == g[k - 1]
  <2> HIDE DEF before
  <2>2. before \in Seq(Seq(S)) /\ FlattenSeq(before) = word /\ g[k] = MergeOnce(before)
    BY <1>8, <2>1 DEF before
  <2> QED
    BY <2>2, MergeOnceFlat
<1> HIDE DEF Good
<1>9. T = {}
  <2> SUFFICES ASSUME T # {}
               PROVE  FALSE
    OBVIOUS
  <2>1. T \subseteq Nat
    BY <1>1
  <2>2. PICK k \in T : \A i \in T : k <= i
    BY <2>1, LeastElement
  <2>3. k # 0 /\ k \in 0 .. n
    BY <1>7, <2>2
  <2>4. k \in 1 .. n /\ k - 1 \in 0 .. n /\ ~(k <= k - 1)
    BY <1>1, <2>3
  <2>5. Good(k - 1)
    BY <2>2, <2>4
  <2> QED
    BY <1>8, <2>2, <2>4, <2>5
<1>10. n \in 0 .. n
  BY <1>1
<1> QED
  BY <1>5, <1>9, <1>10 DEF Good

-----------------------------------------------------------------------------
(* The words of a segment are parts of it, without white space. *)
LEMMA RankReached ==
    ASSUME NEW n \in Nat, NEW P, P \subseteq 1 .. n, NEW m \in 1 .. Cardinality(P)
    PROVE  \E k \in P : Rank(P, k) = m
<1> DEFINE T == {k \in 0 .. n : m <= Rank(P, k)}
<1>1. /\ \A k \in 0 .. n : Rank(P, k) \in Nat
      /\ Rank(P, 0) = 0 /\ Rank(P, n) = Cardinality(P)
      /\ \A k \in 1 .. n : Rank(P, k) = IF k \in P THEN Rank(P, k - 1) + 1 ELSE Rank(P, k - 1)
  BY RankFacts
<1>2. n \in T /\ T \subseteq Nat
  <2>1. n \in 0 .. n
    OBVIOUS
  <2> QED
    BY <1>1, <2>1
<1>3. PICK k \in T : \A i \in T : k <= i
  BY <1>2, LeastElement
<1>4. Cardinality(P) \in Nat
  <2>1. n \in 0 .. n
    OBVIOUS
  <2> QED
    BY <1>1, <2>1
<1>5. k \in 0 .. n /\ m <= Rank(P, k) /\ m \in Nat \ {0}
  BY <1>3, <1>4
<1>6. k # 0
  BY <1>1, <1>5
<1>7. k \in 1 .. n /\ k - 1 \in 0 .. n /\ ~(k <= k - 1)
  BY <1>5, <1>6
<1>8. Rank(P, k - 1) < m
  <2>1. k - 1 \notin T
    BY <1>3, <1>7
  <2>2. Rank(P, k - 1) \in Nat
    BY <1>1, <1>7
  <2> QED
    BY <1>5, <1>7, <2>1, <2>2
<1>9. Rank(P, k) = IF k \in P THEN Rank(P, k - 1) + 1 ELSE Rank(P, k - 1)
  BY <1>1, <1>7
<1>10. Rank(P, k) \in Nat /\ Rank(P, k - 1) \in Nat
  BY <1>1, <1>5, <1>7
<1> QED
  BY <1>5, <1>8, <1>9, <1>10

IsWordOf(segment, word) ==
    \E i \in 1 .. Len(segment) : \E j \in i .. Len(segment) :
        word = SubSeq(segment, i, j) /\ \A k \in i .. j : InWord(segment, k)

LEMMA WordsAreParts ==
    ASSUME NEW S, NEW segment \in Seq(S)
    PROVE  /\ \E m \in Nat : DOMAIN WordsIn(segment) = 1 .. m
           /\ \A n \in DOMAIN WordsIn(segment) : IsWordOf(segment, WordsIn(segment)[n])
<1> DEFINE L == Len(segment)
           W == WordStarts(segment)
<1>1. L \in Nat /\ DOMAIN segment = 1 .. L
  BY LenProperties
<1>2. W \subseteq 1 .. L /\ \A i \in W : InWord(segment, i)
  BY <1>1 DEF WordStarts
<1>3. \A i : InWord(segment, i) => i \in 1 .. L
  BY <1>1 DEF InWord
<1>4. Cardinality(W) \in Nat
  <2>1. IsFiniteSet(W)
    <3>1. IsFiniteSet(1 .. L)
      BY <1>1, FS_Interval
    <3> QED
      BY <1>2, <3>1, FS_Subset
  <2> QED
    BY <2>1, FS_CardinalityType
<1> HIDE DEF L
<1>5. DOMAIN WordsIn(segment) = 1 .. Cardinality(W)
  BY DEF WordsIn
<1>6. ASSUME NEW n \in 1 .. Cardinality(W)
      PROVE  IsWordOf(segment, WordsIn(segment)[n])
  <2> DEFINE i == WordStart(segment, n)
             j == WordEnd(segment, i)
  <2>1. i \in W
    <3>1. \E k \in W : Rank(W, k) = n
      BY <1>1, <1>2, RankReached
    <3>2. \A k : Rank(W, k) = Cardinality({m \in W : m <= k})
      BY DEF Rank
    <3> HIDE DEF W
    <3>3. i = CHOOSE k \in W : Cardinality({m \in W : m <= k}) = n
      BY DEF WordStart, W
    <3> QED
      BY <3>1, <3>2, <3>3
  <2> HIDE DEF i
  <2>2. i \in 1 .. L /\ InWord(segment, i)
    BY <1>2, <2>1
  <2> DEFINE T == {k \in i .. L : ~InWord(segment, k + 1)}
  <2>3. L \in T /\ T \subseteq Nat
    <3>1. L + 1 \notin 1 .. L /\ L \in i .. L
      BY <1>1, <2>2
    <3>2. ~InWord(segment, L + 1)
      BY <1>3, <3>1
    <3>3. i .. L \subseteq Nat
      BY <1>1, <2>2
    <3> QED
      BY <3>1, <3>2, <3>3
  <2>4. PICK e \in T : \A k \in T : e <= k
    BY <2>3, LeastElement
  <2>5. e \in i .. L /\ ~InWord(segment, e + 1)
    BY <2>4
  <2>6. ASSUME NEW k \in i .. e
        PROVE  InWord(segment, k)
    <3>1. CASE k = i
      BY <2>2, <3>1
    <3>2. CASE k # i
      <4>1. k - 1 \in i .. L /\ ~(e <= k - 1) /\ k - 1 + 1 = k
        BY <1>1, <2>2, <2>5, <3>2
      <4>2. InWord(segment, k - 1 + 1)
        BY <2>4, <4>1
      <4> QED
        BY <4>1, <4>2
    <3> QED
      BY <3>1, <3>2
  <2> HIDE DEF T
  <2>7. /\ j \in i .. L
        /\ \A k \in i .. j : InWord(segment, k)
    <3>1. \E f \in i .. L : ~InWord(segment, f + 1) /\ \A k \in i .. f : InWord(segment, k)
      BY <2>5, <2>6
    <3>2. j = CHOOSE f \in i .. L : ~InWord(segment, f + 1) /\ \A k \in i .. f : InWord(segment, k)
      BY DEF WordEnd, L
    <3> HIDE DEF j
    <3> QED
      BY <3>1, <3>2
  <2>8. WordsIn(segment)[n] = SubSeq(segment, i, j)
    BY DEF WordsIn, i
  <2> HIDE DEF j, W
  <2> QED
    BY <2>2, <2>7, <2>8 DEF IsWordOf, L
<1> QED
  BY <1>4, <1>5, <1>6

(* find_next_special_token finds the first of them. *)
LEMMA FirstMatch ==
    ASSUME NEW S, text \in Seq(S), pos \in Nat \ {0}, AreMarks(SpecialTokens, S), Matches # {}
    PROVE  /\ NextSpecial \in Matches
           /\ \A n \in Matches : NextSpecial.pos <= n.pos
<1> DEFINE L == Len(text)
<1>1. L \in Nat
  BY LenProperties
<1>2. ASSUME NEW m \in Matches
      PROVE  /\ m.pos \in Nat /\ m.token \in SpecialTokens
             /\ Len(m.token) \in Nat /\ Len(m.token) \in 1 .. L
             /\ m = [pos |-> m.pos, token |-> m.token]
             /\ SubSeq(text, m.pos, m.pos + Len(m.token) - 1) = m.token
  <2>1. /\ m.pos \in pos .. L /\ m.token \in SpecialTokens
        /\ m = [pos |-> m.pos, token |-> m.token] /\ OccursAt(text, m.token, m.pos)
    BY DEF Matches
  <2>2. Len(m.token) \in Nat \ {0}
    BY <2>1, EmptySeq DEF AreMarks
  <2>3. m.pos + Len(m.token) - 1 <= L /\ SubSeq(text, m.pos, m.pos + Len(m.token) - 1) = m.token
    BY <2>1 DEF OccursAt
  <2>4. m.pos \in Nat \ {0}
    BY <1>1, <2>1
  <2>5. Len(m.token) \in 1 .. L
    BY <1>1, <2>2, <2>3, <2>4
  <2> QED
    BY <2>1, <2>3, <2>4, <2>5
<1> HIDE DEF L
<1> DEFINE Places == {m.pos : m \in Matches}
<1>3. Places \subseteq Nat /\ Places # {}
  BY <1>2
<1>4. PICK p \in Places : \A q \in Places : p <= q
  BY <1>3, LeastElement
<1> DEFINE Lengths == {Len(m.token) : m \in {n \in Matches : n.pos = p}}
<1>5. Lengths \subseteq 1 .. L /\ Lengths # {}
  <2>1. \A m \in Matches : Len(m.token) \in 1 .. L
    BY <1>2
  <2>2. \E m \in Matches : m.pos = p
    BY <1>4
  <2> QED
    BY <2>1, <2>2
<1>6. PICK l \in Lengths : \A k \in Lengths : l >= k
  BY <1>1, <1>5, GreatestElement
<1>7. PICK m \in Matches : m.pos = p /\ Len(m.token) = l
  BY <1>6
<1>8. ASSUME NEW n \in Matches
      PROVE  (m = n \/ Before(m, n)) /\ m.pos <= n.pos
  <2>1. p <= n.pos /\ p \in Nat /\ n.pos \in Nat
    BY <1>2, <1>4, <1>7
  <2>2. CASE n.pos = p
    <3>1. Len(n.token) <= l /\ l \in Nat /\ Len(n.token) \in Nat
      <4>1. Len(n.token) \in Lengths
        BY <2>2
      <4>2. l >= Len(n.token)
        BY <1>6, <4>1
      <4>3. l \in Nat /\ Len(n.token) \in Nat
        BY <1>2, <1>7
      <4> QED
        BY <4>2, <4>3
    <3>2. CASE Len(n.token) = l
      <4>1. n.token = m.token
        BY <1>2, <1>7, <2>2, <3>2
      <4>2. m = n
        BY <1>2, <1>7, <2>2, <4>1
      <4> QED
        BY <1>7, <2>1, <4>2
    <3>3. CASE Len(n.token) # l
      <4>1. Len(m.token) > Len(n.token)
        BY <1>7, <3>1, <3>3
      <4> QED
        BY <1>7, <2>1, <2>2, <4>1 DEF Before
    <3> QED
      BY <3>2, <3>3
  <2>3. CASE n.pos # p
    BY <1>7, <2>1, <2>3 DEF Before
  <2> QED
    BY <2>2, <2>3
<1>9. NextSpecial \in Matches /\ \A n \in Matches : NextSpecial = n \/ Before(NextSpecial, n)
  <2>1. \E x \in Matches : \A n \in Matches : x = n \/ Before(x, n)
    BY <1>8
  <2> QED
    BY <2>1 DEF NextSpecial
<1>10. NextSpecial = m \/ (Before(NextSpecial, m) /\ Before(m, NextSpecial))
  BY <1>8, <1>9
<1>11. NextSpecial = m
  <2>1. ~(Before(NextSpecial, m) /\ Before(m, NextSpecial))
    <3>1. /\ NextSpecial.pos \in Nat /\ m.pos \in Nat
          /\ Len(NextSpecial.token) \in Nat /\ Len(m.token) \in Nat
      BY <1>1, <1>2, <1>9
    <3> QED
      BY <3>1 DEF Before
  <2> QED
    BY <1>10, <2>1
<1> QED
  BY <1>8, <1>9, <1>11

LEMMA OccursInPart ==
    ASSUME NEW S, NEW x \in Seq(S), NEW a \in 1 .. Len(x), NEW b \in a .. Len(x),
           NEW s \in Seq(S), s # <<>>, NEW at \in 1 .. Len(SubSeq(x, a, b)),
           OccursAt(SubSeq(x, a, b), s, at)
    PROVE  /\ OccursAt(x, s, a + at - 1)
           /\ a + at - 1 \in a .. b /\ a + at - 1 + Len(s) - 1 <= b
<1> DEFINE part == SubSeq(x, a, b)
           n == Len(s)
           L == Len(x)
           p == a + at - 1
<1>1. L \in Nat /\ n \in Nat \ {0}
  BY LenProperties, EmptySeq
<1>2. a \in Int /\ b \in Int /\ a <= b /\ a \in Nat \ {0} /\ b <= L
  BY <1>1
<1>3. /\ part \in Seq(S) /\ Len(part) = b - a + 1
      /\ \A k \in 1 .. b - a + 1 : part[k] = x[a + k - 1]
  <2>1. \A k \in a .. b : x[k] \in S
    <3>1. \A k \in a .. b : k \in 1 .. L
      BY <1>1, <1>2
    <3> QED
      BY <3>1, ElementOfSeq
  <2>2. /\ part \in Seq(S) /\ Len(part) = IF a <= b THEN b - a + 1 ELSE 0
        /\ \A k \in 1 .. b - a + 1 : part[k] = x[a + k - 1]
    BY <1>2, <2>1, SubSeqProperties
  <2> QED
    BY <1>2, <2>2
<1> HIDE DEF n, L
<1>4. at \in 1 .. b - a + 1 /\ at \in Nat \ {0}
  BY <1>2, <1>3
<1> HIDE DEF part
<1>5. at + n - 1 <= b - a + 1 /\ \A k \in 1 .. n : part[at + k - 1] = s[k]
  <2>1. OccursAt(part, s, at)
    BY DEF part
  <2>2. Fits(part, s, at)
    BY <1>3, <1>4, <2>1, OccursWhere
  <2> QED
    BY <1>3, <2>2 DEF Fits, n
<1>6. p \in a .. b /\ p + n - 1 <= b /\ p \in Nat \ {0} /\ p + n - 1 <= L
  BY <1>1, <1>2, <1>4, <1>5
<1>7. ASSUME NEW k \in 1 .. n
      PROVE  x[p + k - 1] = s[k]
  <2> DEFINE q == at + k - 1
  <2>1. q \in 1 .. b - a + 1 /\ a + q - 1 = p + k - 1
    BY <1>1, <1>2, <1>4, <1>5
  <2>2. part[q] = s[k]
    BY <1>5
  <2> HIDE DEF q, p
  <2>3. part[q] = x[a + q - 1]
    BY <1>3, <2>1
  <2> QED
    BY <2>1, <2>2, <2>3
<1>8. OccursAt(x, s, p)
  <2> HIDE DEF p
  <2>1. Fits(x, s, p)
    BY <1>6, <1>7 DEF Fits, n, L
  <2> QED
    BY <1>6, <2>1, OccursWhere
<1> QED
  BY <1>6, <1>8 DEF n

LEMMA WordFree ==
    ASSUME NEW S, text \in Seq(S), pos \in Nat \ {0}, AreMarks(SpecialTokens, S),
           NEW to \in Int, to <= Len(text), \A m \in Matches : to < m.pos,
           NEW word, IsWordOf(SubSeq(text, pos, to), word)
    PROVE  Free(SpecialTokens, word)
<1> DEFINE L == Len(text)
           segment == SubSeq(text, pos, to)
<1>1. L \in Nat
  BY LenProperties
<1>2. segment \in Seq(S) /\ Len(segment) = IF pos <= to THEN to - pos + 1 ELSE 0
  <2>1. \A k \in pos .. to : text[k] \in S
    <3>1. \A k \in pos .. to : k \in 1 .. L
      BY <1>1
    <3> QED
      BY <3>1, ElementOfSeq
  <2> QED
    BY <2>1, SubSeqProperties
<1>3. PICK i \in 1 .. Len(segment) : \E j \in i .. Len(segment) :
          word = SubSeq(segment, i, j)
  BY DEF IsWordOf
<1>4. PICK j \in i .. Len(segment) : word = SubSeq(segment, i, j)
  BY <1>3
<1>5. pos <= to /\ pos \in 1 .. L /\ to \in pos .. L
  BY <1>1, <1>2, <1>3
<1> SUFFICES ASSUME NEW s \in SpecialTokens, NEW at \in DOMAIN word, OccursAt(word, s, at)
             PROVE  FALSE
  BY DEF Free
<1>6. s \in Seq(S) /\ s # <<>>
  BY DEF AreMarks
<1>7. at \in 1 .. Len(SubSeq(segment, i, j))
  <2>1. word \in Seq(S)
    <3>1. i \in Nat \ {0} /\ j \in Int /\ j <= Len(segment)
      BY <1>1, <1>2, <1>3, <1>4
    <3> HIDE DEF segment
    <3> QED
      BY <1>2, <1>4, <3>1, SubSeqIn
  <2> QED
    BY <1>4, <2>1, LenProperties
<1> DEFINE q == i + at - 1
<1>8. OccursAt(segment, s, q) /\ q \in i .. j
  <2> HIDE DEF segment
  <2> QED
    BY <1>2, <1>3, <1>4, <1>6, <1>7, OccursInPart
<1>9. q \in 1 .. Len(segment)
  <2>1. Len(segment) \in Nat
    BY <1>2, LenProperties
  <2> HIDE DEF segment, q
  <2> QED
    BY <1>3, <1>4, <1>8, <2>1
<1> HIDE DEF q
<1> DEFINE p == pos + q - 1
<1>10. OccursAt(text, s, p) /\ p \in pos .. to
  <2>1. q \in 1 .. Len(SubSeq(text, pos, to)) /\ OccursAt(SubSeq(text, pos, to), s, q)
    BY <1>8, <1>9
  <2> HIDE DEF segment, L
  <2> QED
    BY <1>5, <1>6, <2>1, OccursInPart DEF L
<1> HIDE DEF p
<1>11. p \in pos .. L
  BY <1>1, <1>5, <1>10
<1> DEFINE match == [pos |-> p, token |-> s]
<1>12. match \in Matches /\ match.pos = p
  BY <1>10, <1>11 DEF Matches
<1>13. to < p
  BY <1>12
<1> QED
  BY <1>5, <1>10, <1>13

LEMMA WordLetters ==
    ASSUME NEW segment \in Seq(Letters \cup Whitespace), NEW word, IsWordOf(segment, word)
    PROVE  word \in Seq(Letters)
<1>0. PICK i \in 1 .. Len(segment) : \E j \in i .. Len(segment) :
          word = SubSeq(segment, i, j) /\ \A k \in i .. j : InWord(segment, k)
  BY DEF IsWordOf
<1>1. PICK j \in i .. Len(segment) :
          word = SubSeq(segment, i, j) /\ \A k \in i .. j : InWord(segment, k)
  BY <1>0
<1>2. Len(segment) \in Nat
  BY LenProperties
<1>3. i \in Int /\ j \in Int /\ \A k \in i .. j : k \in 1 .. Len(segment)
  BY <1>0, <1>1, <1>2
<1>4. \A k \in i .. j : segment[k] \in Letters
  <2>1. \A k \in i .. j : segment[k] \in Letters \cup Whitespace
    BY <1>3, ElementOfSeq
  <2> QED
    BY <1>1, <2>1 DEF InWord
<1> QED
  BY <1>1, <1>3, <1>4, SubSeqProperties

LEMMA SegmentWords ==
    ASSUME text \in Seq(Letters \cup Whitespace), pos \in Nat \ {0},
           AreMarks(SpecialTokens, Letters),
           NEW to \in Int, to <= Len(text), \A m \in Matches : to < m.pos
    PROVE  LET words == WordsIn(SubSeq(text, pos, to)) IN
             /\ words \in Seq(Seq(Letters))
             /\ \A n \in 1 .. Len(words) : Free(SpecialTokens, words[n])
<1> DEFINE segment == SubSeq(text, pos, to)
           words == WordsIn(segment)
           S == Letters \cup Whitespace
<1>1. segment \in Seq(S)
  BY SubSeqIn
<1>2. PICK m \in Nat : DOMAIN words = 1 .. m
  BY <1>1, WordsAreParts
<1>3. \A n \in 1 .. m : IsWordOf(segment, words[n])
  <2> HIDE DEF segment
  <2> QED
    BY <1>1, <1>2, WordsAreParts
<1>4. \A n \in 1 .. m : words[n] \in Seq(Letters)
  <2> HIDE DEF segment, words
  <2> QED
    BY <1>1, <1>3, WordLetters
<1>5. words \in Seq(Seq(Letters))
  <2>1. words = [n \in DOMAIN words |-> words[n]]
    BY DEF WordsIn
  <2> HIDE DEF words
  <2>2. words \in [1 .. m -> Seq(Letters)]
    BY <1>2, <1>4, <2>1
  <2> QED
    BY <2>2
<1>6. AreMarks(SpecialTokens, S)
  <2>1. Letters \subseteq S
    OBVIOUS
  <2> HIDE DEF S
  <2> QED
    BY <2>1, SeqMonotonic DEF AreMarks
<1>7. \A n \in 1 .. m : Free(SpecialTokens, words[n])
  <2> HIDE DEF words
  <2>1. text \in Seq(S)
    OBVIOUS
  <2> HIDE DEF S
  <2> QED
    BY <1>3, <1>6, <2>1, WordFree
<1>8. Len(words) = m
  <2> HIDE DEF words
  <2> QED
    BY <1>2, <1>5, LenProperties
<1> QED
  BY <1>5, <1>7, <1>8

-----------------------------------------------------------------------------
(* Read back, tokens without special tokens still have none. *)
Symbols == Letters \cup {MappedBlank}

LEMMA DecodeFree ==
    ASSUME NEW strings \in Seq(Seq(Symbols)), NEW P, AreMarks(P, Letters),
           Free(P, FlattenSeq(strings))
    PROVE  Free(P, Decode(strings))
<1> DEFINE joined == FlattenSeq(strings)
           plain == Decode(strings)
           S == Symbols \cup {Space}
           n == Len(joined)
<1>1. joined \in Seq(Symbols)
  BY FlattenFacts
<1> HIDE DEF S
<1>2. joined \in Seq(S)
  <2>1. Symbols \subseteq S
    BY DEF S
  <2> HIDE DEF joined
  <2> QED
    BY <1>1, <2>1, SeqMonotonic
<1>3. n \in Nat /\ DOMAIN joined = 1 .. n
  <2> HIDE DEF joined
  <2> QED
    BY <1>1, LenProperties
<1>4. plain = [i \in DOMAIN joined |-> IF joined[i] = MappedBlank THEN Space ELSE joined[i]]
  BY DEF Decode
<1> HIDE DEF joined, plain, n
<1>5. \A i \in 1 .. n : joined[i] \in Symbols
  BY <1>1, ElementOfSeq DEF n
<1>6. plain \in Seq(S) /\ Len(plain) = n
  <2>1. plain \in [1 .. n -> S]
    BY <1>3, <1>4, <1>5 DEF S
  <2>2. plain \in Seq(S)
    BY <1>3, <2>1
  <2> QED
    BY <1>3, <2>1, <2>2, LenProperties
<1> SUFFICES ASSUME NEW s \in P, NEW at \in DOMAIN plain, OccursAt(plain, s, at)
             PROVE  FALSE
  BY DEF Free, plain
<1>7. s \in Seq(Letters) /\ s # <<>>
  BY DEF AreMarks
<1>8. s \in Seq(S)
  <2>1. Letters \subseteq S
    BY DEF S, Symbols
  <2> QED
    BY <1>7, <2>1, SeqMonotonic
<1>9. at \in 1 .. n /\ at \in Nat \ {0}
  BY <1>3, <1>4
<1>10. Fits(plain, s, at)
  BY <1>6, <1>7, <1>8, <1>9, OccursWhere
<1>11. Fits(joined, s, at)
  <2>1. at + Len(s) - 1 <= n /\ \A k \in 1 .. Len(s) : plain[at + k - 1] = s[k]
    BY <1>6, <1>10 DEF Fits
  <2>2. ASSUME NEW k \in 1 .. Len(s)
        PROVE  joined[at + k - 1] = s[k]
    <3> DEFINE i == at + k - 1
    <3>1. i \in 1 .. n
      <4>1. Len(s) \in Nat
        BY <1>7, LenProperties
      <4> QED
        BY <1>3, <1>9, <2>1, <4>1
    <3>2. plain[i] = s[k]
      BY <2>1
    <3>3. s[k] \in Letters
      BY <1>7, ElementOfSeq
    <3> HIDE DEF i
    <3>4. plain[i] = IF joined[i] = MappedBlank THEN Space ELSE joined[i]
      BY <1>3, <1>4, <3>1
    <3>5. Space \notin Letters
      BY TokenizerAssumption
    <3>6. joined[i] = s[k]
      BY <3>2, <3>3, <3>4, <3>5
    <3> QED
      BY <3>6 DEF i
  <2> QED
    BY <2>1, <2>2 DEF Fits, n
<1>12. OccursAt(joined, s, at)
  BY <1>2, <1>7, <1>8, <1>9, <1>11, OccursWhere
<1>13. at \in DOMAIN joined
  BY <1>3, <1>9
<1> QED
  BY <1>12, <1>13 DEF Free, joined

LEMMA MarksRegistered == VocabularyInv => AreMarks(SpecialTokens, Letters)
<1> SUFFICES ASSUME VocabularyInv, NEW s \in SpecialTokens
             PROVE  s \in Seq(Letters) /\ s # <<>>
  BY DEF AreMarks
<1>1. PICK j \in Jobs : files = j.files
  BY DEF VocabularyInv
<1>2. /\ files.added \in Seq([id : Int, content : Seq(Letters), special : BOOLEAN])
      /\ IsInjective(files.vocab)
  BY <1>1, TokenizerAssumption, VocabularyAssumption
<1>3. SoundAfter(maps, files, Len(files.added))
  BY <1>2, VocabularySound DEF VocabularyInv
<1>4. PICK k \in AddedTokens(files) : s = files.added[k].content
  BY <1>3 DEF SoundAfter, SpecialTokens
<1>5. k \in DOMAIN files.added /\ s # <<>>
  BY <1>4 DEF AddedTokens
<1>6. files.added[k] \in [id : Int, content : Seq(Letters), special : BOOLEAN]
  BY <1>2, <1>5, LenProperties, ElementOfSeq
<1> QED
  BY <1>4, <1>5, <1>6

-----------------------------------------------------------------------------
(* What bpe_cache remembers of a word is the word. *)
CacheSound(cache) ==
    \A w \in DOMAIN cache :
        w \in Seq(Symbols) => cache[w] \in Seq(Seq(Symbols)) /\ FlattenSeq(cache[w]) = w

WordsSound(words) ==
    /\ words \in Seq(Seq(Letters))
    /\ \A n \in 1 .. Len(words) : Free(SpecialTokens, words[n])

(* Text goes on without a blank only at the start or behind a special token. *)
TokenizerInv ==
    /\ VocabularyInv
    /\ job \in Seq(Seq(Letters \cup Whitespace)) \ {<<>>}
    /\ pos \in Nat \ {0}
    /\ CacheSound(bpe_cache)
    /\ tokens \in Seq(Seq(Symbols)) /\ Clean(SpecialTokens, tokens)
    /\ WordsSound(to_encode)
    /\ \/ pc = "words" /\ local_first
       \/ pc = "scan" /\ pos <= Len(text)
       => AtSpecial(SpecialTokens, tokens)
    /\ pc = "words" => IF special = NoMatch THEN pos > Len(text)
                       ELSE special.token \in SpecialTokens

LEMMA TextTyped ==
    ASSUME job \in Seq(Seq(Letters \cup Whitespace)) \ {<<>>}
    PROVE  text \in Seq(Letters \cup Whitespace) /\ Len(text) \in Nat
<1>1. text \in Seq(Letters \cup Whitespace)
  BY HeadTailProperties DEF text
<1> QED
  BY <1>1, LenProperties

LEMMA NothingClean ==
    ASSUME NEW P, NEW X
    PROVE  <<>> \in Seq(X) /\ Clean(P, <<>>) /\ AtSpecial(P, <<>>)
  BY DEF Clean, AtSpecial

LEMMA ScanKeeps ==
    ASSUME TokenizerInv, VocabularyInv', Scan
    PROVE  TokenizerInv'
<1> USE DEF TokenizerInv
<1>1. text \in Seq(Letters \cup Whitespace) /\ Len(text) \in Nat
  BY TextTyped
<1>2. AreMarks(SpecialTokens, Letters)
  BY MarksRegistered
<1>3. pc = "scan" /\ pos <= Len(text) /\ pc' = "words" /\ maps' = maps /\ job' = job
      /\ tokens' = tokens /\ bpe_cache' = bpe_cache
  BY DEF Scan, BeginSegment, vocabulary
<1>4. SpecialTokens' = SpecialTokens /\ text' = text
  BY <1>3 DEF SpecialTokens, text
<1>5. AtSpecial(SpecialTokens, tokens)
  BY <1>3
<1>6. CASE Matches = {}
  <2>1. /\ to_encode' = WordsIn(SubSeq(text, pos, Len(text)))
        /\ special' = NoMatch /\ pos' = Len(text) + 1
    BY <1>6 DEF Scan, BeginSegment
  <2>2. WordsSound(to_encode')
    <3>1. Len(text) \in Int /\ Len(text) <= Len(text) /\ \A m \in Matches : Len(text) < m.pos
      BY <1>1, <1>6
    <3> QED
      BY <1>1, <1>2, <2>1, <3>1, SegmentWords DEF WordsSound
  <2>3. pos' \in Nat \ {0} /\ pos' > Len(text)
    BY <1>1, <2>1
  <2> QED
    BY <1>3, <1>4, <1>5, <2>1, <2>2, <2>3 DEF WordsSound
<1>7. CASE Matches # {}
  <2> DEFINE m == NextSpecial
             to == m.pos - 1
  <2>1. /\ to_encode' = WordsIn(SubSeq(text, pos, to))
        /\ special' = m /\ pos' = m.pos + Len(m.token)
    BY <1>7 DEF Scan, BeginSegment
  <2>2. m \in Matches /\ \A n \in Matches : m.pos <= n.pos
    <3>1. AreMarks(SpecialTokens, Letters \cup Whitespace)
      <4>1. Letters \subseteq Letters \cup Whitespace
        OBVIOUS
      <4> QED
        BY <1>2, <4>1, SeqMonotonic DEF AreMarks
    <3>2. pos \in Nat \ {0}
      OBVIOUS
    <3> QED
      BY <1>1, <1>7, <3>1, <3>2, FirstMatch
  <2> HIDE DEF m
  <2>3. /\ \A n \in Matches : n.pos \in pos .. Len(text) /\ n.token \in SpecialTokens
        /\ \A n \in Matches : n # NoMatch
    <3>1. \A n \in Matches : n.pos \in pos .. Len(text) /\ n.token \in SpecialTokens
      BY DEF Matches
    <3>2. \A n \in Matches : n.pos # 0
      BY <1>1, <3>1
    <3> QED
      BY <3>1, <3>2 DEF NoMatch
  <2>4. m.pos \in Nat \ {0} /\ m.pos <= Len(text) /\ m.token \in SpecialTokens /\ m # NoMatch
    BY <1>1, <2>2, <2>3
  <2>5. WordsSound(to_encode')
    <3>1. to \in Int /\ to <= Len(text)
      BY <1>1, <2>4
    <3>2. \A n \in Matches : to < n.pos
      <4>1. \A n \in Matches : n.pos \in Int
        BY <1>1, <2>3
      <4> QED
        BY <2>2, <2>4, <4>1
    <3> HIDE DEF to
    <3> DEFINE found == WordsIn(SubSeq(text, pos, to))
    <3>3. found \in Seq(Seq(Letters)) /\ \A n \in 1 .. Len(found) : Free(SpecialTokens, found[n])
      <4>1. pos \in Nat \ {0} /\ pos <= Len(text)
        BY <1>3
      <4> HIDE DEF TokenizerInv
      <4> QED
        BY <1>1, <1>2, <3>1, <3>2, <4>1, SegmentWords
    <3> HIDE DEF found
    <3>4. WordsSound(found)
      BY <3>3 DEF WordsSound
    <3> QED
      BY <2>1, <3>4 DEF found
  <2>6. pos' \in Nat \ {0}
    <3>1. Len(m.token) \in Nat
      BY <1>2, <2>4, LenProperties DEF AreMarks
    <3>2. pos' = m.pos + Len(m.token) /\ m.pos \in Nat \ {0}
      BY <2>1, <2>4
    <3> HIDE DEF TokenizerInv
    <3> QED
      BY <3>1, <3>2
  <2> QED
    BY <1>3, <1>4, <1>5, <2>1, <2>4, <2>5, <2>6 DEF WordsSound
<1> QED
  BY <1>6, <1>7

(* The parts of a word, cached or merged, are its own. *)
LEMMA WordParts ==
    ASSUME CacheSound(bpe_cache), NEW word \in Seq(Symbols)
    PROVE  LET parts == IF word \in DOMAIN bpe_cache THEN bpe_cache[word] ELSE ApplyMerges(word)
           IN /\ parts \in Seq(Seq(Symbols)) /\ FlattenSeq(parts) = word
              /\ CacheSound(With(bpe_cache, word, parts))
<1> DEFINE parts == IF word \in DOMAIN bpe_cache THEN bpe_cache[word] ELSE ApplyMerges(word)
<1>1. parts \in Seq(Seq(Symbols)) /\ FlattenSeq(parts) = word
  BY MergesFlat DEF CacheSound
<1> HIDE DEF parts
<1>2. CacheSound(With(bpe_cache, word, parts))
  BY <1>1 DEF CacheSound, With
<1> QED
  BY <1>1, <1>2 DEF parts

LEMMA EncodeKeeps ==
    ASSUME TokenizerInv, VocabularyInv', EncodeWord
    PROVE  TokenizerInv'
<1> USE DEF TokenizerInv
<1> DEFINE h == Head(to_encode)
           word == Prefixed(h)
           parts == IF word \in DOMAIN bpe_cache THEN bpe_cache[word] ELSE ApplyMerges(word)
           P == SpecialTokens
<1>1. AreMarks(P, Letters)
  BY MarksRegistered
<1>2. /\ pc = "words" /\ to_encode # <<>> /\ pc' = pc /\ maps' = maps /\ job' = job
      /\ pos' = pos /\ special' = special /\ local_first' = FALSE
      /\ tokens' = tokens \o parts /\ bpe_cache' = With(bpe_cache, word, parts)
      /\ to_encode' = Tail(to_encode)
  BY DEF EncodeWord, vocabulary
<1>3. SpecialTokens' = SpecialTokens /\ text' = text
  BY <1>2 DEF SpecialTokens, text
<1>4. to_encode \in Seq(Seq(Letters)) /\ \A n \in 1 .. Len(to_encode) : Free(P, to_encode[n])
  BY DEF WordsSound
<1>5. h \in Seq(Letters) /\ h \in Seq(Symbols) /\ Free(P, h)
  <2>1. h \in Seq(Letters)
    BY <1>2, <1>4, HeadTailProperties
  <2>2. h = to_encode[1]
    BY <1>2, <1>4
  <2>3. 1 \in 1 .. Len(to_encode)
    BY <1>2, <1>4, EmptySeq
  <2>4. Letters \subseteq Symbols
    BY DEF Symbols
  <2>5. h \in Seq(Symbols)
    BY <2>1, <2>4, SeqMonotonic
  <2> QED
    BY <1>4, <2>1, <2>2, <2>3, <2>5
<1>6. WordsSound(to_encode')
  <2>1. /\ Tail(to_encode) \in Seq(Seq(Letters)) /\ Len(Tail(to_encode)) = Len(to_encode) - 1
        /\ \A i \in 1 .. Len(Tail(to_encode)) : Tail(to_encode)[i] = to_encode[i + 1]
    BY <1>2, <1>4, HeadTailProperties
  <2>2. Len(to_encode) \in Nat
    BY <1>4, LenProperties
  <2>3. \A i \in 1 .. Len(to_encode) - 1 : i + 1 \in 1 .. Len(to_encode)
    BY <2>2
  <2>4. \A i \in 1 .. Len(Tail(to_encode)) : Free(P, Tail(to_encode)[i])
    BY <1>4, <2>1, <2>3
  <2> QED
    BY <1>2, <2>1, <2>4 DEF WordsSound
<1>7. MappedBlank \in Symbols /\ MappedBlank \notin Letters /\ Letters \subseteq Symbols
  BY TokenizerAssumption DEF Symbols
<1>8. word = h \/ word = <<MappedBlank>> \o h
  BY DEF Prefixed
<1>9. local_first => word = h
  BY DEF Prefixed
<1> HIDE DEF h, word, P
<1>10. word \in Seq(Symbols) /\ Free(P, word)
  <2>1. CASE word = h
    BY <1>5, <2>1
  <2>2. CASE word = <<MappedBlank>> \o h
    <3> DEFINE b == <<MappedBlank>>
    <3>1. b \in Seq(Symbols)
      BY <1>7
    <3> HIDE DEF b
    <3>2. b \o h \in Seq(Symbols)
      BY <1>5, <3>1, ConcatProperties
    <3>3. <<>> \o (b \o h) = b \o h
      BY <3>2, ConcatEmptySeq
    <3>4. Free(P, <<>>) /\ <<>> \in Seq(Symbols)
      BY EmptySeq DEF Free
    <3>5. Free(P, <<>> \o (<<MappedBlank>> \o h))
      BY <1>1, <1>5, <1>7, <3>4, FreeAcross
    <3>6. Free(P, b \o h)
      BY <3>3, <3>5 DEF b
    <3> QED
      BY <2>2, <3>2, <3>6 DEF b
  <2> QED
    BY <1>8, <2>1, <2>2
<1>11. /\ parts \in Seq(Seq(Symbols)) /\ FlattenSeq(parts) = word
       /\ CacheSound(With(bpe_cache, word, parts))
  BY <1>10, WordParts
<1> HIDE DEF parts
<1>12. \/ AtSpecial(P, tokens)
       \/ \E y \in Seq(Symbols) : Free(P, y) /\ FlattenSeq(parts) = <<MappedBlank>> \o y
  <2>1. CASE local_first
    BY <1>2, <2>1 DEF P
  <2>2. CASE word = <<MappedBlank>> \o h
    BY <1>5, <1>11, <2>2
  <2>3. ~local_first => word = <<MappedBlank>> \o h
    BY DEF word, Prefixed
  <2> QED
    BY <2>1, <2>2, <2>3
<1>13. tokens \o parts \in Seq(Seq(Symbols))
  BY <1>11, ConcatProperties
<1>14. Clean(P, tokens \o parts)
  <2>1. tokens \in Seq(Seq(Symbols)) /\ Clean(P, tokens)
    BY DEF P
  <2>2. Free(P, FlattenSeq(parts))
    BY <1>10, <1>11
  <2> QED
    BY <1>1, <1>7, <1>11, <1>12, <2>1, <2>2, CleanConcat
<1> QED
  BY <1>2, <1>3, <1>6, <1>11, <1>13, <1>14 DEF WordsSound, P

LEMMA PushKeeps ==
    ASSUME TokenizerInv, VocabularyInv', PushSpecial
    PROVE  TokenizerInv'
<1> USE DEF TokenizerInv
<1>1. AreMarks(SpecialTokens, Letters)
  BY MarksRegistered
<1>2. /\ pc = "words" /\ pc' = "scan" /\ maps' = maps /\ job' = job /\ pos' = pos
      /\ special' = special /\ bpe_cache' = bpe_cache /\ to_encode' = to_encode
  BY DEF PushSpecial, vocabulary
<1>3. SpecialTokens' = SpecialTokens /\ text' = text
  BY <1>2 DEF SpecialTokens, text
<1>4. WordsSound(to_encode)'
  BY <1>2, <1>3 DEF WordsSound
<1>5. CASE special = NoMatch
  <2>1. tokens' = tokens /\ pos > Len(text)
    BY <1>2, <1>5 DEF PushSpecial
  <2>2. Len(text) \in Nat
    BY TextTyped
  <2> QED
    BY <1>2, <1>3, <1>4, <2>1, <2>2
<1>6. CASE special # NoMatch
  <2> DEFINE s == special.token
  <2>1. tokens' = Append(tokens, s) /\ s \in SpecialTokens
    BY <1>2, <1>6 DEF PushSpecial
  <2> HIDE DEF s
  <2>2. s \in Seq(Symbols)
    <3>1. s \in Seq(Letters) /\ Letters \subseteq Symbols
      BY <1>1, <2>1 DEF AreMarks, Symbols
    <3> QED
      BY <3>1, SeqMonotonic
  <2>3. tokens' \in Seq(Seq(Symbols))
    BY <2>1, <2>2, AppendProperties
  <2>4. Clean(SpecialTokens, tokens') /\ AtSpecial(SpecialTokens, tokens')
    BY <2>1, <2>2, CleanAppend
  <2> QED
    BY <1>2, <1>3, <1>4, <2>3, <2>4
<1> QED
  BY <1>5, <1>6

LEMMA TokenizerInvariant == TokenizerSpec => []TokenizerInv
<1>1. VocabularyInv /\ TokenizerInit => TokenizerInv
  <2> SUFFICES ASSUME VocabularyInv, TokenizerInit
               PROVE  TokenizerInv
    OBVIOUS
  <2>1. job \in Seq(Seq(Letters \cup Whitespace)) \ {<<>>}
    BY TokenizerAssumption DEF TokenizerInit
  <2>2. /\ pos = 1 /\ to_encode = <<>> /\ tokens = <<>> /\ bpe_cache = <<>> /\ pc # "words"
    BY DEF TokenizerInit
  <2>3. CacheSound(bpe_cache)
    BY <2>2 DEF CacheSound
  <2>4. WordsSound(to_encode)
    BY <2>2 DEF WordsSound
  <2> QED
    BY <2>1, <2>2, <2>3, <2>4, NothingClean DEF TokenizerInv
<1>2. TokenizerInv /\ VocabularyInv' /\ [TokenizerNext]_tokenizer_vars => TokenizerInv'
  <2> SUFFICES ASSUME TokenizerInv, VocabularyInv', [TokenizerNext]_tokenizer_vars
               PROVE  TokenizerInv'
    OBVIOUS
  <2>1. CASE Scan
    BY <2>1, ScanKeeps
  <2>2. CASE EncodeWord
    BY <2>2, EncodeKeeps
  <2>3. CASE PushSpecial
    BY <2>3, PushKeeps
  <2>4. CASE NextText
    <3>1. /\ job' = Tail(job) /\ pos' = 1 /\ to_encode' = <<>> /\ tokens' = <<>>
          /\ maps' = maps /\ bpe_cache' = bpe_cache /\ pc' = "scan" /\ Len(job) > 1
      BY <2>4 DEF NextText, Fresh, AtEnd, vocabulary
    <3>2. job' \in Seq(Seq(Letters \cup Whitespace)) \ {<<>>}
      <4>1. job \in Seq(Seq(Letters \cup Whitespace)) /\ job # <<>>
        BY DEF TokenizerInv
      <4>2. Tail(job) \in Seq(Seq(Letters \cup Whitespace)) /\ Len(Tail(job)) = Len(job) - 1
        BY <4>1, HeadTailProperties
      <4>3. Tail(job) # <<>>
        <5>1. Len(job) \in Nat
          BY <4>1, LenProperties
        <5>2. Len(job) > 1
          BY <3>1
        <5>3. Len(job) - 1 # 0
          BY <5>1, <5>2
        <5>4. Len(Tail(job)) # 0
          BY <4>2, <5>3, Zenon
        <5> QED
          BY <5>4, EmptySeq
      <4> QED
        BY <3>1, <4>2, <4>3
    <3>3. WordsSound(to_encode)'
      BY <3>1 DEF WordsSound
    <3>4. CacheSound(bpe_cache')
      BY <3>1 DEF TokenizerInv
    <3> QED
      BY <3>1, <3>2, <3>3, <3>4, NothingClean DEF TokenizerInv
  <2>5. CASE UNCHANGED tokenizer_vars
    <3>1. SpecialTokens' = SpecialTokens /\ text' = text
      BY <2>5 DEF SpecialTokens, text, tokenizer_vars, vocabulary
    <3> QED
      BY <2>5, <3>1 DEF TokenizerInv, WordsSound, tokenizer_vars, vocabulary, session_vars
  <2> QED
    BY <2>1, <2>2, <2>3, <2>4, <2>5 DEF TokenizerNext, Done
<1> QED
  BY <1>1, <1>2, VocabularyInvariant, PTL DEF TokenizerSpec

(* No segment, no cached word and no missing blank puts a special token
   together out of ordinary tokens, whatever the files declare and whatever
   texts were tokenized before. *)
THEOREM SpecialsAreNeverTakenApart == TokenizerSpec => []SpecialsStayWhole
<1>1. TokenizerInv => SpecialsStayWhole
  <2> SUFFICES ASSUME TokenizerInv, NEW i \in DOMAIN tokens, NEW j \in DOMAIN tokens,
                      (i .. j) \cap Specials(tokens) = {}
               PROVE  Free(SpecialTokens, Decode(SubSeq(tokens, i, j)))
    BY DEF SpecialsStayWhole, Free
  <2>1. /\ tokens \in Seq(Seq(Symbols)) /\ Clean(SpecialTokens, tokens)
        /\ AreMarks(SpecialTokens, Letters)
    BY MarksRegistered DEF TokenizerInv
  <2>2. Len(tokens) \in Nat /\ DOMAIN tokens = 1 .. Len(tokens)
    BY <2>1, LenProperties
  <2>3. SubSeq(tokens, i, j) \in Seq(Seq(Symbols))
    <3>1. i \in Nat \ {0} /\ j \in Int /\ j <= Len(tokens)
      BY <2>2
    <3> QED
      BY <2>1, <3>1, SubSeqIn
  <2>4. Free(SpecialTokens, FlattenSeq(SubSeq(tokens, i, j)))
    <3>1. CASE i <= j
      <4>1. \A k \in i .. j : k \in DOMAIN tokens
        BY <2>2
      <4>2. Unmarked(SpecialTokens, tokens, i, j)
        BY <4>1 DEF Unmarked, Specials
      <4> QED
        BY <2>1, <2>2, <3>1, <4>2 DEF Clean
    <3>2. CASE ~(i <= j)
      <4>1. SubSeq(tokens, i, j) = <<>>
        BY <2>2, <3>2, SubSeqEmpty
      <4> QED
        BY <4>1, FlattenFacts DEF Free
    <3> QED
      BY <3>1, <3>2
  <2> QED
    BY <2>1, <2>3, <2>4, DecodeFree
<1> QED
  BY <1>1, TokenizerInvariant, PTL

=============================================================================
