-------------------------------- MODULE Sampler --------------------------------
(***************************************************************************)
(* TopKTopPSampler (src/src/sampler.cpp): from the probabilities of the    *)
(* tokens to the tokens that may be drawn.  Probabilities are natural      *)
(* weights, the parameters are in hundredths; sums are exact where the code    *)
(* adds floats.                                                            *)
(***************************************************************************)
EXTENDS Integers, Sequences, FiniteSets, SequencesExt

CONSTANTS
  VocabSize,    \* number of tokens
  Power(_, _)   \* Power(w, T) is w ^ (100 / T): monotonic in w, 0 for 0 unless T is Infinite

ASSUME SamplerAssumption == VocabSize \in Nat \ {0}

Unit == 100
Infinite == 1000000
NaN == 1000001

\* Comparisons of floats: false if one is not a number.
Below(x, y) == NaN \notin {x, y} /\ x < y
AtMost(x, y) == NaN \notin {x, y} /\ x <= y

Tokens == 0 .. VocabSize - 1

\* greedy_sample_from_probs: the first of the heaviest.
Greedy(w) == CHOOSE t \in Tokens : \A u \in Tokens : w[u] < w[t] \/ (w[u] = w[t] /\ t <= u)

\* p ^ (1 / temperature); a temperature of 1, or one that is not a number, changes nothing.
Adjusted(w, temperature) ==
  [t \in Tokens |-> IF temperature \in {Unit, NaN} THEN w[t] ELSE Power(w[t], temperature)]

\* std::sort keeps no order of equal weights: any descending order may come out.
Descending(w) ==
  {s \in [1 .. VocabSize -> Tokens] :
     /\ \A i, j \in 1 .. VocabSize : i < j => w[s[i]] >= w[s[j]]
     /\ \A i, j \in 1 .. VocabSize : s[i] = s[j] => i = j}

\* The weights of the first candidates, added up in their order.
Cumulative(w, s) ==
  LET sum[i \in 0 .. Len(s)] == IF i = 0 THEN 0 ELSE sum[i - 1] + w[s[i]] IN sum
Total(w, s) == Cumulative(w, s)[Len(s)]

TopK(s, k) == IF k > 0 /\ k < Len(s) THEN SubSeq(s, 1, k) ELSE s

(* Mutant of TopP: the share has to be exceeded. *)
TopPExceeded(w, s, p) ==
  IF ~ (Below(0, p) /\ Below(p, Unit)) THEN s
  ELSE LET reached == {i \in DOMAIN s : Unit * Cumulative(w, s)[i] > p * Total(w, s)}
       IN SubSeq(s, 1, CHOOSE i \in reached : \A j \in reached : i <= j)

\* The first candidates whose share of the total reaches top_p.
TopP(w, s, p) ==
  IF ~ (Below(0, p) /\ Below(p, Unit)) THEN s
  ELSE LET reached == {i \in DOMAIN s : Unit * Cumulative(w, s)[i] >= p * Total(w, s)}
       IN SubSeq(s, 1, CHOOSE i \in reached : \A j \in reached : i <= j)

\* The candidates in the order s, or none if the sampler takes the greedy token instead.
Candidates(w, s, k, p) ==
  LET kept == TopK(s, k) IN
    IF Total(w, kept) = 0 THEN <<>> ELSE TopP(w, kept, p)

(* Mutant of Pick: the first candidate r stays below. *)
PickBelow(w, c, r) ==
  LET covers == {i \in DOMAIN c : r < Cumulative(w, c)[i]} IN
    IF covers = {} THEN Last(c) ELSE c[CHOOSE i \in covers : \A j \in covers : i <= j]

\* r, drawn between 0 and the total, falls to the first candidate it does not exceed; draws
\* between two integers fall as the larger one.
Pick(w, c, r) ==
  LET covers == {i \in DOMAIN c : r <= Cumulative(w, c)[i]} IN
    IF covers = {} THEN Last(c) ELSE c[CHOOSE i \in covers : \A j \in covers : i <= j]

AlwaysGreedy(params) == params.use_greedy \/ AtMost(params.temperature, 0)
=============================================================================
