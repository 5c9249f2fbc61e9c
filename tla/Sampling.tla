------------------------------ MODULE Sampling ------------------------------
(****************************************************************************)
(* Choosing a token (qwen_tts_sampling.c) and what the generators do to the *)
(* Talker's logits before it (qwen_tts.c).  Logits are integers, doubled so *)
(* that the boost of half a unit a frame is one; probabilities are weights  *)
(* out of their sum, which normalizing leaves as they are.                  *)
(****************************************************************************)
EXTENDS Integers, Sequences, FiniteSets, SequencesExt, Functions

CONSTANTS
  Codes,       \* 2048: tokens below are codes, those from there on special
  Eos          \* QWEN_TTS_CODEC_EOS

-----------------------------------------------------------------------------
(* Logits: a function on 0..(vocabulary - 1).                               *)

Masked == -1000
Clip(x) == IF x > 200 THEN 200 ELSE IF x < -200 THEN -200 ELSE x

\* Half a unit for every frame beyond twice the expected three per token.
Boost(frame, tokens) ==
  IF tokens > 0 /\ frame > tokens * 6 THEN Min({frame - tokens * 6, 20}) ELSE 0

Shaped(logits, frame, tokens) ==
  [t \in DOMAIN logits |->
    IF t >= Codes /\ t # Eos THEN Masked
    ELSE IF t = Eos THEN (IF frame < 2 THEN Masked ELSE Clip(logits[t])) + Boost(frame, tokens)
    ELSE Clip(logits[t])]

\* The penalty halves or doubles here; for every occurrence of a token.
Penalized(logits, prev) ==
  FoldLeft(LAMBDA l, tok : IF tok \notin DOMAIN l THEN l
                           ELSE [l EXCEPT ![tok] = IF @ > 0 THEN @ \div 2 ELSE @ * 2],
           logits, prev)

\* Temperature zero: the first of the largest.
Greedy(logits) ==
  CHOOSE t \in DOMAIN logits :
    \A u \in DOMAIN logits : logits[u] < logits[t] \/ (logits[u] = logits[t] /\ t <= u)

-----------------------------------------------------------------------------
(* Filters: weights in a sequence.                                          *)

Total(w) == FoldFunction(LAMBDA a, b : a + b, 0, w)

Exchange(a, i, j) == [a EXCEPT ![i] = a[j], ![j] = a[i]]

\* Around the pivot, in three parts and descending: the part equal to the
\* pivot ends up at p..j.
RECURSIVE Partition(_, _, _, _, _)
Partition(a, p, i, j, pivot) ==
  IF i > j THEN [a |-> a, p |-> p, j |-> j]
  ELSE IF a[i] > pivot THEN Partition(Exchange(a, p, i), p + 1, i + 1, j, pivot)
  ELSE IF a[i] < pivot THEN Partition(Exchange(a, i, j), p, i, j - 1, pivot)
  ELSE Partition(a, p, i + 1, j, pivot)

RECURSIVE Quickselect(_, _, _, _)
Quickselect(a, lo, hi, k) ==
  LET pivot == a[lo + (hi - lo) \div 2]
      cut == Partition(a, lo, lo, hi, pivot)
  IN IF lo >= hi THEN a[lo]
     ELSE IF k < cut.p THEN Quickselect(cut.a, lo, cut.p - 1, k)
     ELSE IF k > cut.j THEN Quickselect(cut.a, cut.j + 1, hi, k)
     ELSE pivot

TopkFilter(w, k) ==
  LET threshold == Quickselect(w, 1, Len(w), k)
  IN IF k <= 0 \/ k >= Len(w) THEN w
     ELSE [i \in DOMAIN w |-> IF w[i] < threshold THEN 0 ELSE w[i]]

\* The selection sort of positions by falling weight, stopped once the first
\* n exceed p percent of `all': the positions it has taken.
RECURSIVE TakenOut(_, _, _, _, _)
TakenOut(w, idx, n, all, p) ==
  LET rest == (n + 1)..Len(w)
      top == CHOOSE j \in rest : \A h \in rest :
               w[idx[h]] < w[idx[j]] \/ (w[idx[h]] = w[idx[j]] /\ j <= h)
      sorted == Exchange(idx, n + 1, top)
      sum == Total([i \in 1..(n + 1) |-> w[sorted[i]]])
  IN IF n = Len(w) THEN Range(idx)
     ELSE IF sum * 100 > p * all THEN {sorted[i] : i \in 1..(n + 1)}
     ELSE TakenOut(w, sorted, n + 1, all, p)

\* Mutant: as many tokens as the nucleus has, in the order of the vocabulary.
ToppFilterByIndex(w, all, p) ==
  LET kept == TakenOut(w, [i \in DOMAIN w |-> i], 0, all, p)
  IN IF p <= 0 \/ p >= 100 THEN w
     ELSE [i \in DOMAIN w |-> IF i <= Cardinality(kept) THEN w[i] ELSE 0]

ToppFilter(w, all, p) ==
  LET kept == TakenOut(w, [i \in DOMAIN w |-> i], 0, all, p)
  IN IF p <= 0 \/ p >= 100 THEN w
     ELSE [i \in DOMAIN w |-> IF i \in kept THEN w[i] ELSE 0]

Filtered(w, k, p) == ToppFilter(TopkFilter(w, k), Total(w), p)

\* The first position at which the running sum exceeds r parts of `of' of all.
SampleFromProbs(w, r, of) ==
  LET over == {i \in DOMAIN w : Total([j \in 1..i |-> w[j]]) * of > r * Total(w)}
  IN IF over = {} THEN Len(w) ELSE Min(over)

-----------------------------------------------------------------------------
(* What the filters promise.                                                *)

\* Top-k keeps what fewer than k outweigh; top-p keeps a heaviest part of that
\* which exceeds p, and would not without its lightest, or everything; and what
\* has no weight is not drawn, whatever the random number (r parts of `of').
CandidatesRight(w, k, p, r, of) ==
  LET outweigh(i) == {j \in DOMAIN w : w[j] > w[i]}
      top == TopkFilter(w, k)
      f == Filtered(w, k, p)
      kept == {i \in DOMAIN w : f[i] > 0}
      lightest == Min({f[i] : i \in kept})
  IN /\ k \in 1..Len(w) =>
          \A i \in DOMAIN w : top[i] = IF Cardinality(outweigh(i)) < k THEN w[i] ELSE 0
     /\ \A i \in kept : \A j \in DOMAIN w : w[j] > w[i] => j \in kept
     /\ Total(f) * 100 > p * Total(w) \/ f = top
     /\ p \in 1..99 /\ f # top => (Total(f) - lightest) * 100 <= p * Total(w)
     /\ f[SampleFromProbs(f, r, of)] > 0

\* A code of the vocabulary or the end, the end not among the first two
\* frames, and the penalty changes neither.
CodeOrEnd(logits, frame, tokens, prev) ==
  LET t == Greedy(Penalized(Shaped(logits, frame, tokens), prev))
  IN t < Codes \/ (t = Eos /\ frame >= 2)
=============================================================================
