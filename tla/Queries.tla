------------------------------- MODULE Queries -------------------------------
(***************************************************************************)
(* A query of the store (crates/laya-store: store.rs bm25, ident_matches,  *)
(* rank_matches; query.rs), step by step.  Moon matches every term of a    *)
(* text search and takes time in the square of a term's document           *)
(* frequency, so bm25 asks for one term at a time, the rarest first, as    *)
(* many as the budget allows, and sums the scores.  A lookup by identifier *)
(* reads a set for each and counts.                                        *)
(***************************************************************************)
EXTENDS Loops, Sequences

CONSTANTS
  Words,         \* the sequences of words that are asked for
  Lower,         \* to_ascii_lowercase, of every word
  Legal,         \* the lower-case words of [a-z0-9_] of a length that is searched
  Length,        \* the length of each
  Frequencies,   \* what the document frequencies may be: [Legal -> Int]; -1 is none
  Chunks,        \* what a search or a set may hold, of this index
  Order,         \* the chunks' ids as they sort, from 1
  Foreign,       \* a key that is not a chunk of this index
  ScoreOf,       \* the score of a chunk that a term matches, of every term
  Candidates,    \* MAX_CANDIDATE_TERMS
  MaxTerms,      \* StoreConfig
  Budget,        \* StoreConfig::df_sq_budget
  TopCost,       \* u64::MAX
  Limit

ASSUME QueriesAssumption ==
  /\ {Candidates, MaxTerms, Budget, TopCost, Limit} \subseteq Nat
  /\ Budget < TopCost
  /\ Words \subseteq Seq(DOMAIN Lower) /\ Frequencies \subseteq [Legal -> Int]

VARIABLES
  asked,    \* the words of the query
  df,       \* the document frequencies stored
  terms,    \* the terms that are left
  replies,  \* Moon's reply for each
  found,    \* the result
  qStage

queryVars == <<asked, df, terms, replies, found, qStage>>

QueriesInit ==
  /\ asked \in Words /\ df \in Frequencies
  /\ terms = <<>> /\ replies = <<>> /\ found = <<>>
  /\ qStage \in {"prepare", "idents"}

TopOf(n, q) == SubSeq(q, 1, IF n < Len(q) THEN n ELSE Len(q))

\* prepare_terms: no word twice, and the longest if there are too many.
Prepared(words) ==
  LET low == [i \in DOMAIN words |-> Lower[words[i]]]
      kept == {i \in DOMAIN low : low[i] \in Legal /\ \A j \in 1..(i - 1) : low[j] # low[i]}
      longer(i) == {j \in kept : \/ Length[low[j]] > Length[low[i]]
                                 \/ Length[low[j]] = Length[low[i]] /\ j < i} IN
  At(low, {i \in kept : Cardinality(longer(i)) < Candidates})

Prepare ==
  /\ qStage = "prepare"
  /\ terms' = Prepared(asked)
  /\ qStage' = IF terms' = <<>> \/ Limit = 0 THEN "done" ELSE "plan"
  /\ UNCHANGED <<asked, df, replies, found>>

\* saturating_add and saturating_mul.
Saturated(n) == IF n > TopCost THEN TopCost ELSE n
Cost(t) == Saturated(df[t] * df[t])

\* select_terms.
Rarest(q) ==
  InOrder({i \in DOMAIN q : df[q[i]] > 0},
          LAMBDA i, j : df[q[i]] < df[q[j]] \/ (df[q[i]] = df[q[j]] /\ i < j))
RunningCost(q) ==
  LET order == Rarest(q)
      sum[n \in 0..Len(order)] ==
        IF n = 0 THEN 0 ELSE Saturated(sum[n - 1] + Cost(q[order[n]])) IN
  sum
Affordable(q, n) ==
  \A k \in 1..n : k <= MaxTerms /\ RunningCost(q)[k] <= Budget

\* Faulty variant: the cost of a term may overflow.
SelectedOverflowing(q) ==
  LET order == Rarest(q)
      wrapped[n \in 0..Len(order)] ==
        IF n = 0 THEN 0
        ELSE (wrapped[n - 1] + df[q[order[n]]] * df[q[order[n]]]) % (TopCost + 1)
      most == CHOOSE n \in 0..Len(order) :
                /\ \A k \in 1..n : k <= MaxTerms /\ wrapped[k] <= Budget
                /\ n < Len(order) => n >= MaxTerms \/ wrapped[n + 1] > Budget IN
  [i \in 1..most |-> q[order[i]]]

Selected(q) ==
  LET order == Rarest(q)
      most == CHOOSE n \in 0..Len(order) :
                Affordable(q, n) /\ (n < Len(order) => ~Affordable(q, n + 1)) IN
  [i \in 1..most |-> q[order[i]]]

\* One HMGET, and the plan.
Plan ==
  /\ qStage = "plan"
  /\ terms' = Selected(terms)
  /\ qStage' = IF terms' = <<>> THEN "done" ELSE "search"
  /\ UNCHANGED <<asked, df, replies, found>>

\* Every term is answered with hits, or with an error that means that nothing
\* matches (no such index, an empty query), or with another error, or with what
\* is no reply to a search.
Search ==
  /\ qStage = "search"
  /\ replies' \in [DOMAIN terms ->
       {[kind |-> k, hits |-> {}] : k \in {"benign", "hard", "unreadable"}}
         \cup [kind : {"hits"}, hits : SUBSET (Chunks \cup {Foreign})]]
  /\ qStage' = "fuse"
  /\ UNCHANGED <<asked, df, terms, found>>

\* fuse_scores: the sum of the scores, best first.
HasHits(i) == replies[i].kind = "hits"
Matches(c) == {i \in DOMAIN replies : HasHits(i) /\ c \in replies[i].hits}
Total(c) ==
  LET sum[n \in 0..Len(replies)] ==
        IF n = 0 THEN 0
        ELSE sum[n - 1] + IF n \in Matches(c) THEN ScoreOf[terms[n]] ELSE 0 IN
  sum[Len(replies)]
Fused ==
  TopOf(Limit, InOrder({c \in Chunks : Matches(c) # {}},
                       LAMBDA c, d : \/ Total(c) > Total(d)
                                     \/ Total(c) = Total(d) /\ Order[c] < Order[d]))

\* The query fails if a reply is unreadable, or if no term was answered and one
\* failed.
Fuse ==
  /\ qStage = "fuse"
  /\ LET are(kind) == {i \in DOMAIN replies : replies[i].kind = kind} IN
     IF are("unreadable") # {} \/ (are("hits") = {} /\ are("hard") # {})
       THEN qStage' = "error" /\ UNCHANGED found
       ELSE qStage' = "done" /\ found' = Fused
  /\ UNCHANGED <<asked, df, terms, replies>>

\* The connection fails, for all that the executor tried.
Fail ==
  /\ qStage \in {"plan", "search", "idents"}
  /\ qStage' = "error"
  /\ UNCHANGED <<asked, df, terms, replies, found>>

\* chunks_defining, chunks_referencing: the chunks of each identifier's set, by
\* how many sets they are in, then (definitions) by the first of them.
Idents(words) ==
  At(words, {i \in DOMAIN words : \A j \in 1..(i - 1) : words[j] # words[i]})
Ranked(sets, byFirst) ==
  LET in(c) == {i \in DOMAIN sets : c \in sets[i]}
      first(c) == CHOOSE i \in in(c) : \A j \in in(c) : i <= j IN
  TopOf(Limit,
    InOrder(UNION {sets[i] : i \in DOMAIN sets},
            LAMBDA c, d :
              \/ Cardinality(in(c)) > Cardinality(in(d))
              \/ /\ Cardinality(in(c)) = Cardinality(in(d))
                 /\ \/ byFirst /\ first(c) < first(d)
                    \/ (byFirst => first(c) = first(d)) /\ Order[c] < Order[d]))

Members ==
  /\ qStage = "idents"
  /\ qStage' = "done"
  /\ \E sets \in [DOMAIN Idents(asked) -> SUBSET Chunks], byFirst \in BOOLEAN :
       found' = IF Limit = 0 THEN <<>> ELSE Ranked(sets, byFirst)
  /\ UNCHANGED <<asked, df, terms, replies>>

QueriesNext == Prepare \/ Plan \/ Search \/ Fuse \/ Fail \/ Members
QueriesSpec == QueriesInit /\ [][QueriesNext]_queryVars

-----------------------------------------------------------------------------
\* The terms that are searched are known to the index, are within the budget and
\* within the limit, and no set of known terms of the query that is within both
\* has more of them: taking the rarest first is best, and the saturating
\* arithmetic never makes an unaffordable term look cheap.
PlanBest ==
  qStage = "search" =>
    LET cands == Prepared(asked)
        chosen == {terms[i] : i \in DOMAIN terms}
        known == {t \in {cands[i] : i \in DOMAIN cands} : df[t] > 0}
        cost(T) == SumOf([i \in DOMAIN cands |->
                            IF cands[i] \in T THEN df[cands[i]] * df[cands[i]] ELSE 0])
        fits(T) == Cardinality(T) <= MaxTerms /\ cost(T) <= Budget IN
    /\ chosen \subseteq known /\ fits(chosen)
    /\ Cardinality(chosen) = Len(terms)
    /\ \A T \in SUBSET known : fits(T) => Cardinality(T) <= Len(terms)
=============================================================================
