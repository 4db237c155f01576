------------------------------ MODULE Ranking ------------------------------
(***************************************************************************)
(* How a prompt's candidates are chosen and ranked (crates/laya-rank:      *)
(* fusion.rs, retriever.rs): rank fusion of the lexical lists, the cap per *)
(* file, prose behind code, and the Laya gate.  Scores are whole numbers:  *)
(* 1 / (rrf_k + rank) in units of 1 / RrfUnit.                             *)
(***************************************************************************)
EXTENDS Corpus, Loops, Sequences, SequencesExt, FiniteSetsExt

CONSTANTS
  KCandidates,   \* RetrieverConfig
  MaxPerFile,
  RrfK,
  RrfUnit,       \* a common multiple of RrfK, RrfK + 1, ...
  MinKeep,
  PThreshold,
  MaxP,          \* a probability is a number of MaxP parts
  LayaWeight     \* <<>>, or <<w>>: w of 4 parts of the score are the model's
                 \* (retriever cfg.laya_weight)

ASSUME RankingAssumption ==
  /\ {KCandidates, MaxPerFile, RrfUnit, MinKeep, PThreshold, MaxP} \subseteq Nat
  /\ RrfK \in Nat \ {0}
  /\ \A r \in 0..(Cardinality(Chunk) - 1) : RrfUnit % (RrfK + r) = 0
  /\ LayaWeight \in {<<>>} \cup {<<w>> : w \in 0..4}

None == -1   \* no probability

Rank(q, c) == CHOOSE i \in DOMAIN q : q[i] = c
Has(q, c) == \E i \in DOMAIN q : q[i] = c

-----------------------------------------------------------------------------
\* What the element at place i of a list gets for it.
Points(i) == RrfUnit \div (RrfK + i - 1)

Rrf(lists, c) ==
  SumOf([j \in DOMAIN lists |->
           IF Has(lists[j], c) THEN Points(Rank(lists[j], c)) ELSE 0])

\* c is seen before d, scanning the lists from left to right.
SeenBefore(lists, c, d) ==
  LET first(x) == Min({j \in DOMAIN lists : Has(lists[j], x)}) IN
  \/ first(c) < first(d)
  \/ first(c) = first(d) /\ Rank(lists[first(c)], c) < Rank(lists[first(d)], d)

\* fuse_ranked_lists.
Fused(lists) ==
  LET score == [c \in UNION {ToSet(lists[j]) : j \in DOMAIN lists} |-> Rrf(lists, c)] IN
  InOrder(DOMAIN score, LAMBDA c, d :
    score[c] > score[d] \/ (score[c] = score[d] /\ SeenBefore(lists, c, d)))

Prefix(q, k) == SubSeq(q, 1, Min({k, Len(q)}))

\* The chunks that are fetched: with a cap per file all of them, so that the
\* places it frees are filled.
Fetched(fused) == IF MaxPerFile = 0 THEN Prefix(fused, KCandidates) ELSE fused

\* cap_per_file.
Capped(q) ==
  LET nth(i) == Cardinality({j \in 1..i : Info[q[j]].path = Info[q[i]].path})
      kept == {i \in DOMAIN q : MaxPerFile = 0 \/ nth(i) <= MaxPerFile} IN
  Prefix(At(q, kept), KCandidates)

\* demote_non_code, unless the prompt asks for documentation.
Demoted(q, asksForDocs) ==
  IF asksForDocs THEN q
  ELSE At(q, {i \in DOMAIN q : ~Info[q[i]].text}) \o At(q, {i \in DOMAIN q : Info[q[i]].text})

\* The score of a candidate that the model does not see, doubled; that of
\* prose is halved.
LexicalScore(lists, c, asksForDocs) ==
  IF Info[c].text /\ ~asksForDocs THEN Rrf(lists, c) ELSE 2 * Rrf(lists, c)

-----------------------------------------------------------------------------
(* The gate.  p gives each candidate of q its probability, or None.         *)

Reached(q, p) == {c \in ToSet(q) : p[c] # None}

\* The place of c among those reached: in lexical order, and by probability,
\* in lexical order on a tie (lexical_ids, laya_order).
LexicalPlace(q, p, c) == Cardinality({i \in 1..Rank(q, c) : p[q[i]] # None})
LayaPlace(q, p, c) ==
  Cardinality({d \in Reached(q, p) :
                 p[d] > p[c] \/ (p[d] = p[c] /\ Rank(q, d) <= Rank(q, c))})

\* Faulty variant: the lexical part grows with the rank.
WeightedByRank(q, p, c, w) ==
  (4 - w) * LexicalPlace(q, p, c) * MaxP + w * p[c] * Cardinality(Reached(q, p))

\* weighted_scores, where probabilities are of MaxP parts, in units of
\* 1 / (4 * reached * MaxP).
Weighted(q, p, c, w) ==
  LET reached == Cardinality(Reached(q, p)) IN
  (4 - w) * (reached - LexicalPlace(q, p, c) + 1) * MaxP + w * p[c] * reached

FinalScore(q, p, c) ==
  IF LayaWeight = <<>> THEN Points(LexicalPlace(q, p, c)) + Points(LayaPlace(q, p, c))
  ELSE Weighted(q, p, c, LayaWeight[1])

\* The scores of the candidates q: those the model did not reach have none.
GateScores(q, p) ==
  [c \in ToSet(q) |-> IF p[c] = None THEN 0 ELSE FinalScore(q, p, c)]

\* Those reached by score, then the others.
Reranked(q, p, score) ==
  InOrder(Reached(q, p), LAMBDA c, d :
    score[c] > score[d] \/ (score[c] = score[d] /\ Rank(q, c) < Rank(q, d)))
    \o At(q, {i \in DOMAIN q : p[q[i]] = None})

\* The threshold, where an unreached candidate passes as one of probability
\* 0, and its floor.
Kept(q, p) ==
  LET passing == At(q, {i \in DOMAIN q : Max({p[q[i]], 0}) >= PThreshold}) IN
  IF Len(passing) < MinKeep THEN Prefix(q, MinKeep) ELSE passing
=============================================================================
