-------------------------- MODULE RetrievalProofs --------------------------
(***************************************************************************)
(* Proofs about a prompt's way through the retriever and the renderer      *)
(* (Retrieval, with Ranking, Spans, Related and Sizing): what the ranking  *)
(* respects, that the text stays below the cap, and that "all indexed uses *)
(* shown" is true; and about the inputs of the scoring model (Inputs): how *)
(* one is cut to its budget and how they are put into batches.             *)
(***************************************************************************)
EXTENDS Retrieval, Inputs, LoopProofs

(***************************************************************************)
(* Ranking.                                                                *)
(***************************************************************************)
LEMMA PointsFall ==
  ASSUME NEW i \in Nat \ {0}, NEW j \in Nat, i <= j
  PROVE  Points(i) \in Nat /\ Points(j) \in Nat /\ Points(j) <= Points(i)
<1>1. PICK a \in Nat \ {0} : a = RrfK + i - 1
  BY RankingAssumption
<1>2. PICK b \in Nat \ {0} : b = RrfK + j - 1
  BY RankingAssumption
<1>3. PICK x \in Nat : x = RrfUnit \div a
  BY Division, RankingAssumption
<1>4. PICK y \in Nat : y = RrfUnit \div b
  BY Division, RankingAssumption
<1>5. a <= b /\ RrfUnit \in Nat
  BY <1>1, <1>2, RankingAssumption
<1>6. RrfUnit < a * x + a /\ b * y <= RrfUnit
  BY <1>3, <1>4, <1>5, Division
<1>7. ~(x < y)
  <2> SUFFICES ASSUME x + 1 <= y PROVE FALSE
    OBVIOUS
  <2>1. a * (x + 1) <= a * y
    BY Products
  <2>2. y * a <= y * b
    BY <1>5, Products
  <2>3. a * (x + 1) = a * x + a /\ a * y = y * a /\ b * y = y * b
    OBVIOUS
  <2>4. {a * x, a * y, b * y} \subseteq Nat
    OBVIOUS
  <2>5. QED BY <1>5, <1>6, <2>1, <2>2, <2>3, <2>4
<1>8. QED BY <1>1, <1>2, <1>3, <1>4, <1>7 DEF Points

LEMMA RankIs ==
  ASSUME NEW S, NEW q \in Seq(S), IsInjective(q)
  PROVE  /\ \A c \in ToSet(q) : Rank(q, c) \in DOMAIN q /\ q[Rank(q, c)] = c
         /\ \A i \in DOMAIN q : q[i] \in ToSet(q) /\ Rank(q, q[i]) = i
         /\ DOMAIN q \subseteq Nat \ {0} /\ DOMAIN q = 1..Len(q) /\ Len(q) \in Nat
<1>1. ASSUME NEW c \in ToSet(q) PROVE Rank(q, c) \in DOMAIN q /\ q[Rank(q, c)] = c
  <2>1. \E i \in DOMAIN q : q[i] = c
    BY DEF ToSet
  <2>2. QED BY <2>1 DEF Rank
<1>2. ASSUME NEW i \in DOMAIN q PROVE q[i] \in ToSet(q) /\ Rank(q, q[i]) = i
  <2>1. q[i] \in ToSet(q)
    BY DEF ToSet
  <2>2. PICK r : r = Rank(q, q[i])
    OBVIOUS
  <2>3. r \in DOMAIN q /\ q[r] = q[i]
    BY <1>1, <2>1, <2>2
  <2>4. r = i
    BY <2>3 DEF IsInjective
  <2>5. QED BY <2>1, <2>2, <2>4
<1>3. QED BY <1>1, <1>2

\* Two candidates have different ranks.
LEMMA RanksDiffer ==
  ASSUME NEW S, NEW q \in Seq(S), IsInjective(q), NEW c \in ToSet(q), NEW d \in ToSet(q)
  PROVE  /\ Rank(q, c) \in Nat \ {0} /\ Rank(q, d) \in Nat \ {0}
         /\ c # d => Rank(q, c) < Rank(q, d) \/ Rank(q, d) < Rank(q, c)
<1>1. /\ Rank(q, c) \in DOMAIN q /\ q[Rank(q, c)] = c
      /\ Rank(q, d) \in DOMAIN q /\ q[Rank(q, d)] = d
      /\ DOMAIN q \subseteq Nat \ {0}
  BY RankIs
<1>2. QED BY <1>1

LEMMA RrfIsNumber ==
  ASSUME NEW qs \in Seq(Seq(Chunk)), \A j \in DOMAIN qs : IsInjective(qs[j]), NEW c
  PROVE  Rrf(qs, c) \in Int
<1> DEFINE q == [j \in DOMAIN qs |->
                   IF Has(qs[j], c) THEN Points(Rank(qs[j], c)) ELSE 0]
<1>1. PICK n \in Nat : n = Len(qs)
  OBVIOUS
<1>2. DOMAIN qs = 1..n /\ \A j \in 1..n : qs[j] \in Seq(Chunk)
  BY <1>1
<1>3. ASSUME NEW j \in 1..n PROVE q[j] \in Int
  <2>1. CASE Has(qs[j], c)
    <3>1. c \in ToSet(qs[j])
      BY <2>1 DEF Has, ToSet
    <3>2. Rank(qs[j], c) \in Nat \ {0}
      BY <1>2, <3>1, RanksDiffer
    <3>3. Points(Rank(qs[j], c)) \in Nat
      BY <3>2, PointsFall
    <3>4. QED BY <1>2, <2>1, <3>3
  <2>2. CASE ~Has(qs[j], c)
    BY <1>2, <2>2
  <2>3. QED BY <2>1, <2>2
<1>4. q \in Seq(Int)
  BY <1>2, <1>3
<1>5. Rrf(qs, c) = SumOf(q)
  BY DEF Rrf
<1> HIDE DEF q
<1>6. QED BY <1>4, <1>5, Sums

LEMMA FusedIs ==
  ASSUME NEW qs \in Seq(Seq(Chunk)), \A j \in DOMAIN qs : IsInjective(qs[j])
  PROVE  Fused(qs) \in Seq(Chunk) /\ IsInjective(Fused(qs))
<1>1. PICK n \in Nat : n = Len(qs)
  OBVIOUS
<1>2. DOMAIN qs = 1..n /\ \A j \in 1..n : qs[j] \in Seq(Chunk)
  BY <1>1
<1>3. PICK S : S = UNION {ToSet(qs[j]) : j \in DOMAIN qs}
  OBVIOUS
<1>4. S \subseteq Chunk /\ IsFiniteSet(S)
  <2>1. \A j \in 1..n : ToSet(qs[j]) \subseteq Chunk
    BY <1>2, ManyElements
  <2>2. S \in SUBSET Chunk
    BY <1>2, <1>3, <2>1
  <2>3. QED BY <2>2, FS_Subset, CorpusAssumption
<1>5. PICK score : score = [c \in S |-> Rrf(qs, c)]
  OBVIOUS
<1>6. PICK first : first = [c \in S |-> Min({j \in DOMAIN qs : Has(qs[j], c)})]
  OBVIOUS
<1>7. PICK place : place = [c \in S |-> Rank(qs[first[c]], c)]
  OBVIOUS
<1>8. ASSUME NEW c \in S PROVE first[c] \in 1..n /\ c \in ToSet(qs[first[c]])
  <2>1. PICK J : J = {j \in DOMAIN qs : Has(qs[j], c)}
    OBVIOUS
  <2>2. J \subseteq Nat /\ J # {}
    <3>1. \E j \in DOMAIN qs : c \in ToSet(qs[j])
      BY <1>3
    <3>2. QED BY <1>2, <2>1, <3>1 DEF Has, ToSet
  <2>3. \E m \in J : \A j \in J : m <= j
    <3>1. PICK j \in J : TRUE
      BY <2>2
    <3>2. QED BY <1>2, <2>1, <2>2, LeastNumber
  <2>4. PICK m : m = Min(J)
    OBVIOUS
  <2>5. m \in J
    BY <2>3, <2>4 DEF Min
  <2>6. first[c] = m
    BY <1>6, <2>1, <2>4
  <2>7. QED BY <1>2, <2>1, <2>5, <2>6 DEF Has, ToSet
<1>9. ASSUME NEW c \in S PROVE score[c] \in Int /\ first[c] \in Int /\ place[c] \in Int
  <2>1. score[c] \in Int
    BY <1>5, RrfIsNumber
  <2>2. Rank(qs[first[c]], c) \in Nat \ {0}
    BY <1>2, <1>8, RanksDiffer
  <2>3. QED BY <1>7, <1>8, <2>1, <2>2
<1>10. ASSUME NEW c \in S, NEW d \in S, first[c] = first[d], place[c] = place[d] PROVE c = d
  <2>1. PICK q \in Seq(Chunk) : q = qs[first[c]]
    BY <1>2, <1>8
  <2>2. IsInjective(q) /\ c \in ToSet(q) /\ d \in ToSet(q)
    BY <1>2, <1>8, <1>10, <2>1
  <2>3. Rank(q, c) = Rank(q, d)
    BY <1>7, <1>10, <2>1
  <2>4. q[Rank(q, c)] = c /\ q[Rank(q, d)] = d
    BY <2>2, RankIs
  <2>5. QED BY <2>3, <2>4
<1>11. PICK R : R = Sorting(S, score, first, place)
  OBVIOUS
<1>12. InOneOrder(S, R)
  BY <1>4, <1>9, <1>10, <1>11, SortingOrders
<1>13. ListedBy(S, R) \in Seq(S) /\ IsInjective(ListedBy(S, R))
  BY <1>12, ListedIs
<1>14. \A c, d \in S :
         <<c, d>> \in R <=>
           (score[c] > score[d] \/ (score[c] = score[d] /\ SeenBefore(qs, c, d)))
  BY <1>6, <1>7, <1>11 DEF Sorting, SeenBefore
<1>15. Fused(qs) = ListedBy(S, R)
  <2>1. DOMAIN score = S
    BY <1>5
  <2>2. \A c \in S : {d \in S : score[d] > score[c] \/ (score[d] = score[c] /\ SeenBefore(qs, d, c))}
                        = Ahead(S, R, c)
    BY <1>14 DEF Ahead
  <2>3. Fused(qs) = InOrder(S, LAMBDA c, d :
           score[c] > score[d] \/ (score[c] = score[d] /\ SeenBefore(qs, c, d)))
    BY <1>3, <1>5, <2>1 DEF Fused
  <2>4. QED BY <2>2, <2>3 DEF InOrder, ListedBy
<1>16. QED BY <1>4, <1>13, <1>15

-----------------------------------------------------------------------------
\* The candidates are chunks, none of them twice.
LEMMA BeginningKeeps ==
  ASSUME NEW S, NEW q \in Seq(S), IsInjective(q), NEW k \in Nat
  PROVE  /\ Prefix(q, k) \in Seq(S) /\ IsInjective(Prefix(q, k))
         /\ DOMAIN Prefix(q, k) \subseteq DOMAIN q
         /\ \A i \in DOMAIN Prefix(q, k) : Prefix(q, k)[i] = q[i]
<1>1. PICK r : r = Prefix(q, k)
  OBVIOUS
<1>2. PICK m : m = Min({k, Len(q)})
  OBVIOUS
<1>3. /\ m \in 0..Len(q) /\ Len(q) \in Nat /\ r \in Seq(S) /\ Len(r) = m
      /\ \A i \in 1..m : r[i] = q[i]
  BY <1>1, <1>2, BeginningIs DEF Prefix
<1>4. DOMAIN r = 1..m /\ DOMAIN q = 1..Len(q)
  BY <1>3
<1>5. DOMAIN r \subseteq DOMAIN q
  BY <1>3, <1>4
<1>6. IsInjective(r)
  BY <1>3, <1>4, <1>5 DEF IsInjective
<1>7. QED BY <1>1, <1>3, <1>4, <1>5, <1>6

LEMMA AnswersAre ==
  ASSUME NEW found \in Answers
  PROVE  found \in Seq(Seq(Chunk)) /\ \A j \in DOMAIN found : IsInjective(found[j])
<1>1. found \in Seq(Seq(Chunk)) /\ Len(found) = 3 /\ \A j \in 1..3 : IsInjective(found[j])
  BY RetrievalAssumption
<1>2. QED BY <1>1

LEMMA PoolIs ==
  ASSUME NEW found \in Answers, NEW gone, NEW asksForDocs
  PROVE  Pool(found, gone, asksForDocs) \in Seq(Chunk) /\ IsInjective(Pool(found, gone, asksForDocs))
<1>1. found \in Seq(Seq(Chunk)) /\ \A j \in DOMAIN found : IsInjective(found[j])
  BY AnswersAre
<1>2. PICK fetched : fetched = Fetched(Fused(found))
  OBVIOUS
<1>3. fetched \in Seq(Chunk) /\ IsInjective(fetched)
  BY <1>1, <1>2, FusedIs, BeginningKeeps, RankingAssumption DEF Fetched
<1>4. PICK q : q = At(fetched, {i \in DOMAIN fetched : fetched[i] \notin gone})
  OBVIOUS
<1>5. q \in Seq(Chunk) /\ IsInjective(q)
  BY <1>3, <1>4, AtKeepsOrder
<1>6. PICK K \in SUBSET (DOMAIN q) : Capped(q) = Prefix(At(q, K), KCandidates)
  BY DEF Capped
<1>7. At(q, K) \in Seq(Chunk) /\ IsInjective(At(q, K))
  BY <1>5, AtKeepsOrder
<1>8. PICK c : c = Capped(q)
  OBVIOUS
<1>9. c \in Seq(Chunk) /\ IsInjective(c)
  BY <1>6, <1>7, <1>8, BeginningKeeps, RankingAssumption
<1>10. Demoted(c, asksForDocs) \in Seq(Chunk) /\ IsInjective(Demoted(c, asksForDocs))
  <2>1. PICK I \in SUBSET (DOMAIN c) : I = {i \in DOMAIN c : ~Info[c[i]].text}
    OBVIOUS
  <2>2. PICK J \in SUBSET (DOMAIN c) : J = {i \in DOMAIN c : Info[c[i]].text}
    OBVIOUS
  <2>3. /\ At(c, I) \in Seq(Chunk) /\ IsInjective(At(c, I))
        /\ At(c, J) \in Seq(Chunk) /\ IsInjective(At(c, J))
    BY <1>9, AtKeepsOrder
  <2>4. ToSet(At(c, I)) = {c[i] : i \in I} /\ ToSet(At(c, J)) = {c[i] : i \in J}
    <3>1. IsFiniteSet(DOMAIN c) /\ DOMAIN c \subseteq Int
      <4>1. PICK n \in Nat : n = Len(c)
        BY <1>9
      <4>2. DOMAIN c = 1..n /\ IsFiniteSet(1..n)
        BY <1>9, <4>1, FS_Interval
      <4>3. QED BY <4>2
    <3>2. IsFiniteSet(I) /\ IsFiniteSet(J)
      BY <3>1, FS_Subset
    <3>3. QED BY <3>1, <3>2, AtElements
  <2>5. \A x \in ToSet(At(c, I)) : x \notin ToSet(At(c, J))
    BY <2>1, <2>2, <2>4
  <2>6. At(c, I) \o At(c, J) \in Seq(Chunk) /\ IsInjective(At(c, I) \o At(c, J))
    BY <2>3, <2>5, JoinInjective, JoinTwo
  <2>7. QED BY <1>9, <2>1, <2>2, <2>6 DEF Demoted
<1>11. QED BY <1>2, <1>4, <1>8, <1>10 DEF Pool

-----------------------------------------------------------------------------
\* The gate: who is ahead in both orders has at least the score.
Probabilities(q) == [ToSet(q) -> {None} \cup 0..MaxP]

LEMMA ReachedIs ==
  ASSUME NEW q \in Seq(Chunk), IsInjective(q), NEW prob \in Probabilities(q)
  PROVE  /\ Reached(q, prob) \subseteq ToSet(q) /\ ToSet(q) \subseteq Chunk
         /\ IsFiniteSet(Reached(q, prob)) /\ Cardinality(Reached(q, prob)) \in Nat
         /\ \A c \in Reached(q, prob) :
              /\ prob[c] \in 0..MaxP /\ prob[c] \in Int
              /\ LexicalPlace(q, prob, c) \in Nat \ {0} /\ LayaPlace(q, prob, c) \in Nat \ {0}
<1>1. Reached(q, prob) \in SUBSET ToSet(q)
  BY DEF Reached
<1>2. IsFiniteSet(ToSet(q)) /\ ToSet(q) \subseteq Chunk
  BY ManyElements
<1>3. IsFiniteSet(Reached(q, prob))
  BY <1>1, <1>2, FS_Subset
<1>4. Cardinality(Reached(q, prob)) \in Nat
  BY <1>3, FS_CardinalityType
<1>5. ASSUME NEW c \in Reached(q, prob)
      PROVE  /\ prob[c] \in 0..MaxP /\ prob[c] \in Int
             /\ LexicalPlace(q, prob, c) \in Nat \ {0} /\ LayaPlace(q, prob, c) \in Nat \ {0}
  <2>1. c \in ToSet(q) /\ prob[c] # None
    BY DEF Reached
  <2>2. prob[c] \in 0..MaxP /\ MaxP \in Nat
    BY <2>1, RankingAssumption DEF Probabilities
  <2>3. PICK r : r = Rank(q, c)
    OBVIOUS
  <2>4. r \in Nat \ {0} /\ q[r] = c
    BY <2>1, <2>3, RankIs
  <2>5. PICK I : I = {i \in 1..r : prob[q[i]] # None}
    OBVIOUS
  <2>6. r \in I /\ I \in SUBSET (1..r)
    BY <2>1, <2>4, <2>5
  <2>7. IsFiniteSet(1..r)
    BY <2>4, FS_Interval
  <2>8. IsFiniteSet(I)
    BY <2>6, <2>7, FS_Subset
  <2>9. Cardinality(I) \in Nat \ {0}
    BY <2>6, <2>8, FS_CardinalityType, FS_EmptySet
  <2>10. PICK D : D = {d \in Reached(q, prob) :
                         prob[d] > prob[c] \/ (prob[d] = prob[c] /\ Rank(q, d) <= Rank(q, c))}
    OBVIOUS
  <2>11. c \in D /\ D \in SUBSET Reached(q, prob)
    BY <2>3, <2>4, <2>10
  <2>12. IsFiniteSet(D)
    BY <1>3, <2>11, FS_Subset
  <2>13. Cardinality(D) \in Nat \ {0}
    BY <2>11, <2>12, FS_CardinalityType, FS_EmptySet
  <2>14. QED BY <2>2, <2>3, <2>5, <2>9, <2>10, <2>13 DEF LexicalPlace, LayaPlace
<1>6. QED BY <1>1, <1>2, <1>3, <1>4, <1>5

LEMMA AheadInBoth ==
  ASSUME NEW q \in Seq(Chunk), IsInjective(q), NEW prob \in Probabilities(q),
         NEW c \in Reached(q, prob), NEW d \in Reached(q, prob),
         Rank(q, c) < Rank(q, d), prob[c] >= prob[d]
  PROVE  /\ LexicalPlace(q, prob, c) <= LexicalPlace(q, prob, d)
         /\ LayaPlace(q, prob, c) <= LayaPlace(q, prob, d)
<1>1. /\ Reached(q, prob) \subseteq ToSet(q) /\ IsFiniteSet(Reached(q, prob))
      /\ \A e \in Reached(q, prob) : prob[e] \in Int
  BY ReachedIs
<1>2. PICK r : r = Rank(q, c)
  OBVIOUS
<1>3. PICK s : s = Rank(q, d)
  OBVIOUS
<1>4. r \in Nat /\ s \in Nat /\ r < s
  BY <1>1, <1>2, <1>3, RankIs
<1>5. LexicalPlace(q, prob, c) <= LexicalPlace(q, prob, d)
  <2>1. PICK I : I = {i \in 1..r : prob[q[i]] # None}
    OBVIOUS
  <2>2. PICK J : J = {i \in 1..s : prob[q[i]] # None}
    OBVIOUS
  <2>3. I \in SUBSET J /\ J \in SUBSET (1..s)
    BY <1>4, <2>1, <2>2
  <2>4. IsFiniteSet(1..s)
    BY <1>4, FS_Interval
  <2>5. IsFiniteSet(J)
    BY <2>3, <2>4, FS_Subset
  <2>6. Cardinality(I) <= Cardinality(J)
    BY <2>3, <2>5, FS_Subset
  <2>7. QED BY <1>2, <1>3, <2>1, <2>2, <2>6 DEF LexicalPlace
<1>6. LayaPlace(q, prob, c) <= LayaPlace(q, prob, d)
  <2>1. PICK C : C = {e \in Reached(q, prob) :
                        prob[e] > prob[c] \/ (prob[e] = prob[c] /\ Rank(q, e) <= r)}
    OBVIOUS
  <2>2. PICK D : D = {e \in Reached(q, prob) :
                        prob[e] > prob[d] \/ (prob[e] = prob[d] /\ Rank(q, e) <= s)}
    OBVIOUS
  <2>3. \A e \in Reached(q, prob) : Rank(q, e) \in Nat
    BY <1>1, RankIs
  <2>4. \A e \in C : e \in D
    BY <1>1, <1>4, <2>1, <2>2, <2>3
  <2>5. C \in SUBSET D /\ D \in SUBSET Reached(q, prob)
    BY <2>2, <2>4
  <2>6. IsFiniteSet(D)
    BY <1>1, <2>5, FS_Subset
  <2>7. Cardinality(C) <= Cardinality(D)
    BY <2>5, <2>6, FS_Subset
  <2>8. QED BY <1>2, <1>3, <2>1, <2>2, <2>7 DEF LayaPlace
<1>7. QED BY <1>5, <1>6

LEMMA FinalScoreIs ==
  ASSUME NEW q \in Seq(Chunk), IsInjective(q), NEW prob \in Probabilities(q),
         NEW c \in Reached(q, prob)
  PROVE  FinalScore(q, prob, c) \in Int
<1>1. PICK x : x = LexicalPlace(q, prob, c)
  OBVIOUS
<1>2. PICK y : y = LayaPlace(q, prob, c)
  OBVIOUS
<1>3. PICK n : n = Cardinality(Reached(q, prob))
  OBVIOUS
<1>4. x \in Nat \ {0} /\ y \in Nat \ {0} /\ n \in Nat /\ prob[c] \in Int /\ MaxP \in Int
  BY <1>1, <1>2, <1>3, ReachedIs, RankingAssumption
<1>5. CASE LayaWeight = <<>>
  <2>1. Points(x) \in Nat /\ Points(y) \in Nat
    BY <1>4, PointsFall
  <2>2. QED BY <1>1, <1>2, <1>5, <2>1 DEF FinalScore
<1>6. CASE LayaWeight # <<>>
  <2>1. PICK w \in 0..4 : LayaWeight = <<w>>
    BY <1>6, RankingAssumption
  <2>2. FinalScore(q, prob, c) = (4 - w) * (n - x + 1) * MaxP + w * prob[c] * n
    BY <1>1, <1>3, <1>6, <2>1 DEF FinalScore, Weighted
  <2>3. PICK pc \in Int : pc = prob[c]
    BY <1>4
  <2>4. (4 - w) * (n - x + 1) * MaxP \in Int /\ w * pc * n \in Int
    BY <1>4
  <2>5. QED BY <2>2, <2>3, <2>4
<1>7. QED BY <1>5, <1>6

LEMMA ScoreRespects ==
  ASSUME NEW q \in Seq(Chunk), IsInjective(q), NEW prob \in Probabilities(q),
         NEW c \in Reached(q, prob), NEW d \in Reached(q, prob),
         Rank(q, c) < Rank(q, d), prob[c] >= prob[d]
  PROVE  FinalScore(q, prob, d) <= FinalScore(q, prob, c)
<1>1. PICK x : x = LexicalPlace(q, prob, c)
  OBVIOUS
<1>2. PICK y : y = LayaPlace(q, prob, c)
  OBVIOUS
<1>3. PICK u : u = LexicalPlace(q, prob, d)
  OBVIOUS
<1>4. PICK v : v = LayaPlace(q, prob, d)
  OBVIOUS
<1>5. PICK n : n = Cardinality(Reached(q, prob))
  OBVIOUS
<1>6. {x, y, u, v} \subseteq Nat \ {0} /\ n \in Nat
  BY <1>1, <1>2, <1>3, <1>4, <1>5, ReachedIs
<1>7. x <= u /\ y <= v
  BY <1>1, <1>2, <1>3, <1>4, AheadInBoth
<1>8. PICK pc : pc = prob[c]
  OBVIOUS
<1>9. PICK pd : pd = prob[d]
  OBVIOUS
<1>10. pc \in Nat /\ pd \in Nat /\ pd <= pc /\ MaxP \in Nat
  BY <1>8, <1>9, ReachedIs, RankingAssumption, SMTT(30)
<1>11. CASE LayaWeight = <<>>
  <2>1. Points(x) \in Nat /\ Points(u) \in Nat /\ Points(u) <= Points(x)
    BY <1>6, <1>7, PointsFall
  <2>2. Points(y) \in Nat /\ Points(v) \in Nat /\ Points(v) <= Points(y)
    BY <1>6, <1>7, PointsFall
  <2>3. /\ FinalScore(q, prob, c) = Points(x) + Points(y)
        /\ FinalScore(q, prob, d) = Points(u) + Points(v)
    BY <1>1, <1>2, <1>3, <1>4, <1>11 DEF FinalScore
  <2>4. QED BY <2>1, <2>2, <2>3
<1>12. CASE LayaWeight # <<>>
  <2>1. PICK w \in 0..4 : LayaWeight = <<w>>
    BY <1>12, RankingAssumption
  <2>2. /\ FinalScore(q, prob, c) = (4 - w) * (n - x + 1) * MaxP + w * pc * n
        /\ FinalScore(q, prob, d) = (4 - w) * (n - u + 1) * MaxP + w * pd * n
    BY <1>1, <1>3, <1>5, <1>8, <1>9, <1>12, <2>1 DEF FinalScore, Weighted
  <2>3. PICK a \in Int : a = (4 - w) * (n - x + 1)
    BY <1>6
  <2>4. PICK b \in Int : b = (4 - w) * (n - u + 1)
    BY <1>6
  <2>5. b <= a
    <3>1. n - u + 1 <= n - x + 1 /\ 4 - w \in Nat /\ n - u + 1 \in Int /\ n - x + 1 \in Int
      BY <1>6, <1>7
    <3>2. QED BY <2>3, <2>4, <3>1, Products
  <2>6. MaxP * b <= MaxP * a /\ MaxP * b = b * MaxP /\ MaxP * a = a * MaxP
    BY <1>10, <2>5, Products
  <2>7. w * n \in Nat /\ (w * n) * pd <= (w * n) * pc
    BY <1>6, <1>10, Products
  <2>8. w * pc * n = (w * n) * pc /\ w * pd * n = (w * n) * pd
    BY <1>6, <1>10
  <2>9. {b * MaxP, a * MaxP, (w * n) * pd, (w * n) * pc} \subseteq Int
    BY <1>6, <1>10
  <2>10. QED BY <2>2, <2>3, <2>4, <2>6, <2>7, <2>8, <2>9
<1>13. QED BY <1>11, <1>12

\* Wherever c and d are in q, c is ahead.
IsAhead(q, c, d) == \A i, j \in DOMAIN q : q[i] = c /\ q[j] = d => i < j

LEMMA RerankedIs ==
  ASSUME NEW q \in Seq(Chunk), IsInjective(q), NEW prob \in Probabilities(q),
         NEW score, score = GateScores(q, prob)
  PROVE  /\ Reranked(q, prob, score) \in Seq(Chunk) /\ IsInjective(Reranked(q, prob, score))
         /\ ToSet(Reranked(q, prob, score)) \subseteq ToSet(q)
         /\ \A c, d \in Reached(q, prob) :
              Rank(q, c) < Rank(q, d) /\ prob[c] >= prob[d]
              => IsAhead(Reranked(q, prob, score), c, d)
<1>1. PICK S : S = Reached(q, prob)
  OBVIOUS
<1>2. S \subseteq ToSet(q) /\ ToSet(q) \subseteq Chunk /\ IsFiniteSet(S)
  BY <1>1, ReachedIs
<1>3. PICK rank : rank = [c \in S |-> Rank(q, c)]
  OBVIOUS
<1>4. ASSUME NEW c \in S PROVE score[c] \in Int /\ score[c] = FinalScore(q, prob, c)
  <2>1. c \in ToSet(q) /\ prob[c] # None
    BY <1>1 DEF Reached
  <2>2. score[c] = FinalScore(q, prob, c)
    BY <2>1 DEF GateScores
  <2>3. QED BY <1>1, <2>2, FinalScoreIs
<1>5. \A c \in S : rank[c] \in Int /\ rank[c] \in DOMAIN q /\ q[rank[c]] = c
  BY <1>2, <1>3, RankIs
<1>6. \A c, d \in S : rank[c] = rank[d] => c = d
  BY <1>5
<1>7. PICK R : R = Sorting(S, score, rank, rank)
  OBVIOUS
<1>8. InOneOrder(S, R)
  BY <1>2, <1>4, <1>5, <1>6, <1>7, SortingOrders
<1>9. PICK l : l = ListedBy(S, R)
  OBVIOUS
<1>10. /\ l \in Seq(S) /\ ToSet(l) = S /\ IsInjective(l)
       /\ DOMAIN l = 1..Cardinality(S) /\ Cardinality(S) \in Nat /\ Len(l) = Cardinality(S)
       /\ \A i, j \in 1..Cardinality(S) : i < j <=> <<l[i], l[j]>> \in R
  BY <1>8, <1>9, ListedIs
<1>11. \A c, d \in S :
         <<c, d>> \in R <=>
           (score[c] > score[d] \/ (score[c] = score[d] /\ Rank(q, c) < Rank(q, d)))
  BY <1>3, <1>7 DEF Sorting
<1>12. l = InOrder(S, LAMBDA c, d :
             score[c] > score[d] \/ (score[c] = score[d] /\ Rank(q, c) < Rank(q, d)))
  <2>1. \A c \in S : {d \in S : score[d] > score[c] \/ (score[d] = score[c] /\ Rank(q, d) < Rank(q, c))}
                       = Ahead(S, R, c)
    BY <1>11 DEF Ahead
  <2> DEFINE chosen(k) == CHOOSE x \in S : Cardinality({y \in S :
               score[y] > score[x] \/ (score[y] = score[x] /\ Rank(q, y) < Rank(q, x))}) = k - 1
             listed(k) == CHOOSE x \in S : Cardinality(Ahead(S, R, x)) = k - 1
             m == Cardinality(S)
  <2>2. ASSUME NEW k PROVE chosen(k) = listed(k)
    BY <2>1, Zenon
  <2>3. l = [k \in 1..m |-> listed(k)]
    BY <1>9 DEF ListedBy
  <2>4. InOrder(S, LAMBDA c, d :
          score[c] > score[d] \/ (score[c] = score[d] /\ Rank(q, c) < Rank(q, d)))
        = [k \in 1..m |-> chosen(k)]
    BY DEF InOrder
  <2> HIDE DEF chosen, listed, m
  <2>5. [k \in 1..m |-> chosen(k)] = [k \in 1..m |-> listed(k)]
    BY <2>2
  <2>6. QED BY <2>3, <2>4, <2>5
<1>13. PICK J \in SUBSET (DOMAIN q) : J = {i \in DOMAIN q : prob[q[i]] = None}
  OBVIOUS
<1>14. PICK t : t = At(q, J)
  OBVIOUS
<1>15. t \in Seq(Chunk) /\ IsInjective(t) /\ ToSet(t) = {q[i] : i \in J}
  <2>1. t \in Seq(Chunk) /\ IsInjective(t)
    BY <1>14, AtKeepsOrder
  <2>2. IsFiniteSet(J) /\ J \subseteq Int
    <3>1. DOMAIN q = 1..Len(q) /\ Len(q) \in Nat
      OBVIOUS
    <3>2. IsFiniteSet(1..Len(q))
      BY <3>1, FS_Interval
    <3>3. J \in SUBSET (1..Len(q))
      BY <3>1
    <3>4. QED BY <3>1, <3>2, <3>3, FS_Subset
  <2>3. QED BY <1>14, <2>1, <2>2, AtElements
<1>16. Reranked(q, prob, score) = l \o t
  BY <1>1, <1>12, <1>13, <1>14 DEF Reranked
<1>17. l \in Seq(Chunk)
  BY <1>2, <1>10
<1>18. \A c \in ToSet(l) : c \notin ToSet(t)
  BY <1>1, <1>10, <1>13, <1>15 DEF Reached
<1>19. l \o t \in Seq(Chunk) /\ ToSet(l \o t) = ToSet(l) \cup ToSet(t)
  BY <1>15, <1>17, JoinTwo
<1>20. IsInjective(l \o t)
  BY <1>10, <1>15, <1>17, <1>18, JoinInjective
<1>21. ToSet(t) \subseteq ToSet(q)
  BY <1>13, <1>15 DEF ToSet
<1>22. ASSUME NEW c \in S, NEW d \in S, Rank(q, c) < Rank(q, d), prob[c] >= prob[d]
       PROVE  IsAhead(l \o t, c, d)
  <2>1. score[d] <= score[c]
    BY <1>1, <1>4, <1>22, ScoreRespects
  <2>2. <<c, d>> \in R
    BY <1>4, <1>11, <1>22, <2>1
  <2>3. PICK i \in DOMAIN l : l[i] = c
    BY <1>10 DEF ToSet
  <2>4. PICK j \in DOMAIN l : l[j] = d
    BY <1>10 DEF ToSet
  <2>5. i < j
    BY <1>10, <2>2, <2>3, <2>4
  <2>6. PICK r : r = l \o t
    OBVIOUS
  <2>7. i \in DOMAIN r /\ j \in DOMAIN r /\ r[i] = c /\ r[j] = d
    BY <1>10, <1>15, <1>17, <2>3, <2>4, <2>6
  <2>8. \A h, k \in DOMAIN r : r[h] = c /\ r[k] = d => h = i /\ k = j
    BY <1>20, <2>6, <2>7 DEF IsInjective
  <2>9. QED BY <2>5, <2>6, <2>8 DEF IsAhead
<1>23. QED BY <1>1, <1>2, <1>10, <1>16, <1>19, <1>20, <1>21, <1>22

LEMMA KeptIs ==
  ASSUME NEW q \in Seq(Chunk), IsInjective(q), NEW prob
  PROVE  /\ Kept(q, prob) \in Seq(Chunk) /\ IsInjective(Kept(q, prob))
         /\ ToSet(Kept(q, prob)) \subseteq ToSet(q)
         /\ \A c, d : IsAhead(q, c, d) => IsAhead(Kept(q, prob), c, d)
<1>1. PICK I \in SUBSET (DOMAIN q) : I = {i \in DOMAIN q : Max({prob[q[i]], 0}) >= PThreshold}
  OBVIOUS
<1>2. PICK passing : passing = At(q, I)
  OBVIOUS
<1>3. PICK first : first = Prefix(q, MinKeep)
  OBVIOUS
<1>4. Kept(q, prob) = IF Len(passing) < MinKeep THEN first ELSE passing
  BY <1>1, <1>2, <1>3 DEF Kept
<1>5. /\ first \in Seq(Chunk) /\ IsInjective(first) /\ DOMAIN first \subseteq DOMAIN q
      /\ \A i \in DOMAIN first : first[i] = q[i]
  BY <1>3, BeginningKeeps, RankingAssumption
<1>6. ToSet(first) \subseteq ToSet(q) /\ \A c, d : IsAhead(q, c, d) => IsAhead(first, c, d)
  BY <1>5 DEF ToSet, IsAhead
<1>7. /\ passing \in Seq(Chunk) /\ IsInjective(passing)
      /\ \A i, j \in DOMAIN passing : \A k, l \in DOMAIN q :
           i < j /\ passing[i] = q[k] /\ passing[j] = q[l] => k < l
  BY <1>2, AtKeepsOrder
<1>8. ToSet(passing) \subseteq ToSet(q)
  <2>1. IsFiniteSet(I) /\ I \subseteq Int
    <3>1. DOMAIN q = 1..Len(q) /\ Len(q) \in Nat
      OBVIOUS
    <3>2. IsFiniteSet(1..Len(q))
      BY <3>1, FS_Interval
    <3>3. I \in SUBSET (1..Len(q))
      BY <3>1
    <3>4. QED BY <3>1, <3>2, <3>3, FS_Subset
  <2>2. ToSet(passing) = {q[i] : i \in I}
    BY <1>2, <2>1, AtElements
  <2>3. QED BY <2>2 DEF ToSet
<1>9. ASSUME NEW c, NEW d, IsAhead(q, c, d) PROVE IsAhead(passing, c, d)
  <2> SUFFICES ASSUME NEW i \in DOMAIN passing, NEW j \in DOMAIN passing,
                      passing[i] = c, passing[j] = d
               PROVE  i < j
    BY DEF IsAhead
  <2>1. c \in ToSet(q) /\ d \in ToSet(q)
    BY <1>8 DEF ToSet
  <2>2. PICK k \in DOMAIN q : q[k] = c
    BY <2>1 DEF ToSet
  <2>3. PICK l \in DOMAIN q : q[l] = d
    BY <2>1 DEF ToSet
  <2>4. k < l /\ k \in Nat /\ l \in Nat
    BY <1>9, <2>2, <2>3 DEF IsAhead
  <2>5. i \in Nat /\ j \in Nat
    BY <1>7
  <2>6. ~(j < i)
    BY <1>7, <2>2, <2>3, <2>4
  <2>7. c # d
    BY <2>2, <2>3, <2>4, <1>9 DEF IsAhead
  <2>8. QED BY <2>5, <2>6, <2>7
<1>10. QED BY <1>4, <1>5, <1>6, <1>7, <1>8, <1>9

-----------------------------------------------------------------------------
\* The candidates that are left, each once.
Scored == [id : Chunk, score : Int]
Ids == [i \in DOMAIN scored |-> scored[i].id]

RankedInv ==
  /\ pool \in Seq(Chunk) /\ IsInjective(pool)
  /\ stage = "pooled" => answer.lists \in Answers
  /\ scored \in Seq(Scored) /\ Ids \in Seq(Chunk) /\ IsInjective(Ids)
  /\ RespectsBoth

LEMMA ScoredAre ==
  ASSUME NEW q \in Seq(Chunk), NEW score, \A c \in ToSet(q) : score[c] \in Int,
         NEW s, s = [i \in DOMAIN q |-> [id |-> q[i], score |-> score[q[i]]]]
  PROVE  s \in Seq(Scored) /\ [i \in DOMAIN s |-> s[i].id] = q
<1>1. PICK n \in Nat : n = Len(q)
  OBVIOUS
<1>2. DOMAIN q = 1..n /\ \A i \in 1..n : q[i] \in Chunk /\ q[i] \in ToSet(q)
  BY <1>1 DEF ToSet
<1>3. \A i \in 1..n : [id |-> q[i], score |-> score[q[i]]] \in Scored
  BY <1>2 DEF Scored
<1>4. DOMAIN s = 1..n /\ s \in [1..n -> Scored]
  BY <1>2, <1>3
<1>5. s \in Seq(Scored)
  BY <1>4
<1>6. \A i \in 1..n : s[i].id = q[i]
  BY <1>2
<1>7. [i \in DOMAIN s |-> s[i].id] = [i \in 1..n |-> q[i]]
  BY <1>4, <1>6
<1>8. q = [i \in 1..n |-> q[i]]
  BY <1>1
<1>9. QED BY <1>5, <1>7, <1>8

LEMMA GateRanks ==
  ASSUME RankedInv, Gate
  PROVE  RankedInv'
<1>1. pool \in Seq(Chunk) /\ IsInjective(pool) /\ pool' = pool /\ stage' = "ranked"
  BY DEF RankedInv, Gate
<1>2. PICK prob \in Probabilities(pool) :
         /\ p' = prob
         /\ LET score == GateScores(pool, prob)
                kept == Kept(Reranked(pool, prob, score), prob) IN
            scored' = [i \in DOMAIN kept |-> [id |-> kept[i], score |-> score[kept[i]]]]
  BY DEF Gate, Probabilities
<1>3. PICK score : score = GateScores(pool, prob)
  OBVIOUS
<1>4. PICK all : all = Reranked(pool, prob, score)
  OBVIOUS
<1>5. PICK kept : kept = Kept(all, prob)
  OBVIOUS
<1>6. scored' = [i \in DOMAIN kept |-> [id |-> kept[i], score |-> score[kept[i]]]]
  BY <1>2, <1>3, <1>4, <1>5
<1>7. /\ all \in Seq(Chunk) /\ IsInjective(all) /\ ToSet(all) \subseteq ToSet(pool)
      /\ \A c, d \in Reached(pool, prob) :
           Rank(pool, c) < Rank(pool, d) /\ prob[c] >= prob[d] => IsAhead(all, c, d)
  BY <1>1, <1>2, <1>3, <1>4, RerankedIs
<1>8. /\ kept \in Seq(Chunk) /\ IsInjective(kept) /\ ToSet(kept) \subseteq ToSet(pool)
      /\ \A c, d : IsAhead(all, c, d) => IsAhead(kept, c, d)
  BY <1>5, <1>7, KeptIs
<1>9. \A c \in ToSet(pool) : score[c] \in Int
  <2> SUFFICES ASSUME NEW c \in ToSet(pool) PROVE score[c] \in Int
    OBVIOUS
  <2>1. score[c] = IF prob[c] = None THEN 0 ELSE FinalScore(pool, prob, c)
    BY <1>3 DEF GateScores
  <2>2. prob[c] # None => c \in Reached(pool, prob)
    BY DEF Reached
  <2>3. QED BY <1>1, <1>2, <2>1, <2>2, FinalScoreIs
<1>10. scored' \in Seq(Scored) /\ Ids' = kept
  <2>1. \A c \in ToSet(kept) : score[c] \in Int
    BY <1>8, <1>9
  <2>2. PICK s : s = scored'
    OBVIOUS
  <2>3. s = [i \in DOMAIN kept |-> [id |-> kept[i], score |-> score[kept[i]]]]
    BY <1>6, <2>2
  <2>4. s \in Seq(Scored) /\ [i \in DOMAIN s |-> s[i].id] = kept
    BY <1>8, <2>1, <2>3, ScoredAre
  <2>5. QED BY <2>2, <2>4 DEF Ids
<1>11. RespectsBoth'
  <2> SUFFICES ASSUME NEW c \in ToSet(kept), NEW d \in ToSet(kept),
                      prob[c] # None, prob[d] # None,
                      Rank(pool, c) < Rank(pool, d), prob[c] >= prob[d]
               PROVE  Rank(kept, c) < Rank(kept, d)
    BY <1>1, <1>2, <1>10 DEF RespectsBoth, Ids
  <2>1. c \in Reached(pool, prob) /\ d \in Reached(pool, prob)
    BY <1>8 DEF Reached
  <2>2. IsAhead(kept, c, d)
    BY <1>7, <1>8, <2>1
  <2>3. /\ Rank(kept, c) \in DOMAIN kept /\ kept[Rank(kept, c)] = c
        /\ Rank(kept, d) \in DOMAIN kept /\ kept[Rank(kept, d)] = d
    BY <1>8, RankIs
  <2>4. QED BY <2>2, <2>3 DEF IsAhead
<1>12. QED BY <1>1, <1>8, <1>10, <1>11 DEF RankedInv

LEMMA LexicallyRanks ==
  ASSUME RankedInv, GateLexically
  PROVE  RankedInv'
<1>1. /\ pool \in Seq(Chunk) /\ IsInjective(pool) /\ pool' = pool /\ stage' = "ranked"
      /\ answer.lists \in Answers /\ p' = [c \in ToSet(pool) |-> None]
  BY DEF RankedInv, GateLexically
<1>2. PICK score : score = [c \in ToSet(pool) |-> LexicalScore(answer.lists, c, docs)]
  OBVIOUS
<1>3. scored' = [i \in DOMAIN pool |-> [id |-> pool[i], score |-> score[pool[i]]]]
  BY <1>2 DEF GateLexically, ToSet
<1>4. ASSUME NEW c \in ToSet(pool) PROVE score[c] \in Int
  <2>1. /\ answer.lists \in Seq(Seq(Chunk))
        /\ \A j \in DOMAIN answer.lists : IsInjective(answer.lists[j])
    BY <1>1, AnswersAre
  <2>2. Rrf(answer.lists, c) \in Int
    BY <2>1, RrfIsNumber
  <2>3. QED BY <1>2, <2>2 DEF LexicalScore
<1>5. scored' \in Seq(Scored) /\ Ids' = pool
  <2>1. PICK s : s = scored'
    OBVIOUS
  <2>2. s = [i \in DOMAIN pool |-> [id |-> pool[i], score |-> score[pool[i]]]]
    BY <1>3, <2>1
  <2>3. pool \in Seq(Chunk) /\ \A c \in ToSet(pool) : score[c] \in Int
    BY <1>1, <1>4
  <2>4. s \in Seq(Scored) /\ [i \in DOMAIN s |-> s[i].id] = pool
    BY <2>2, <2>3, ScoredAre
  <2>5. QED BY <2>1, <2>4 DEF Ids
<1>6. RespectsBoth'
  BY <1>1, <1>5 DEF RespectsBoth, Ids
<1>7. QED BY <1>1, <1>5, <1>6 DEF RankedInv

-----------------------------------------------------------------------------
(***************************************************************************)
(* Spans.                                                                   *)
(***************************************************************************)
Path == {Info[c].path : c \in Chunk}
Piece == [path : Path, start : Nat, end : Nat, score : Int]
Span == [path : Path, start : Nat, end : Int, score : Int, text : SUBSET Int]

\* In a file, pieces and spans have their first lines to themselves.
Apart(S) == \A a, b \in S : a.path = b.path /\ a.start = b.start => a = b

LEMMA InLineOrderIs ==
  ASSUME NEW S, IsFiniteSet(S), S \subseteq Piece, \A a, b \in S : a.start = b.start => a = b
  PROVE  InLineOrder(S) \in Seq(S) /\ IsInjective(InLineOrder(S))
<1>1. PICK u : u = [a \in S |-> 0]
  OBVIOUS
<1>2. PICK v : v = [a \in S |-> a.start]
  OBVIOUS
<1>3. PICK w : w = [a \in S |-> a.end]
  OBVIOUS
<1>4. \A a \in S : u[a] \in Int /\ v[a] \in Int /\ w[a] \in Int
  BY <1>1, <1>2, <1>3 DEF Piece
<1>5. \A a, b \in S : v[a] = v[b] /\ w[a] = w[b] => a = b
  BY <1>2
<1>6. PICK R : R = Sorting(S, u, v, w)
  OBVIOUS
<1>7. InOneOrder(S, R)
  BY <1>4, <1>5, <1>6, SortingOrders
<1>8. \A a, b \in S : <<a, b>> \in R <=>
                        (a.start < b.start \/ (a.start = b.start /\ a.end < b.end))
  BY <1>1, <1>2, <1>3, <1>6 DEF Sorting
<1>9. \A b \in S : {a \in S : a.start < b.start \/ (a.start = b.start /\ a.end < b.end)}
                     = Ahead(S, R, b)
  BY <1>8 DEF Ahead
<1> DEFINE chosen(k) == CHOOSE b \in S : Cardinality({a \in S :
             a.start < b.start \/ (a.start = b.start /\ a.end < b.end)}) = k - 1
           listed(k) == CHOOSE b \in S : Cardinality(Ahead(S, R, b)) = k - 1
           m == Cardinality(S)
<1>10. ASSUME NEW k PROVE chosen(k) = listed(k)
  BY <1>9, Zenon
<1>11. ListedBy(S, R) = [k \in 1..m |-> listed(k)]
  BY DEF ListedBy
<1>12. InLineOrder(S) = [k \in 1..m |-> chosen(k)]
  BY DEF InLineOrder, InOrder
<1> HIDE DEF chosen, listed, m
<1>13. InLineOrder(S) = ListedBy(S, R)
  BY <1>10, <1>11, <1>12
<1>14. QED BY <1>7, <1>13, ListedIs

\* The largest of what a function gives for a range of places.
LEMMA LargestInRange ==
  ASSUME NEW f, NEW a \in Int, NEW b \in Int, a <= b, \A i \in a..b : f[i] \in Int
  PROVE  /\ Max({f[i] : i \in a..b}) \in {f[i] : i \in a..b}
         /\ \A j \in a..b : f[j] <= Max({f[i] : i \in a..b})
<1>1. PICK g : g = [i \in a..b |-> f[i]]
  OBVIOUS
<1>2. PICK S : S = {g[i] : i \in a..b}
  OBVIOUS
<1>3. IsFiniteSet(a..b)
  BY FS_Interval
<1>4. DOMAIN g = a..b /\ g = [i \in a..b |-> g[i]]
  BY <1>1
<1>5. IsFiniteSet(S)
  BY <1>2, <1>3, <1>4, FiniteImage
<1>6. S \subseteq Int /\ S # {}
  <2>1. a \in a..b
    OBVIOUS
  <2>2. QED BY <1>1, <1>2, <2>1
<1>7. PICK m : m = Max(S)
  OBVIOUS
<1>8. m \in S /\ \A x \in S : x <= m
  BY <1>5, <1>6, <1>7, LargestOf
<1>9. S = {f[i] : i \in a..b}
  BY <1>1, <1>2
<1>10. QED BY <1>7, <1>8, <1>9

LEMMA MergedOfIs ==
  ASSUME NEW file \in Path, NEW q \in Seq(Piece), \A i \in DOMAIN q : q[i].path = file,
         \A i, j \in DOMAIN q : q[i].start = q[j].start => i = j
  PROVE  /\ MergedOf(q) \subseteq Span /\ IsFiniteSet(MergedOf(q))
         /\ \A a \in MergedOf(q) : a.path = file
         /\ Apart(MergedOf(q))
<1>1. PICK n \in Nat : n = Len(q)
  OBVIOUS
<1>2. DOMAIN q = 1..n /\ \A i \in 1..n : q[i] \in Piece
  BY <1>1
<1>3. PICK heads : heads = Heads(q)
  OBVIOUS
<1>4. heads \in SUBSET (1..n) /\ IsFiniteSet(heads)
  <2>1. PICK after : heads = Taken(Len(q), after)
    BY <1>3 DEF Heads
  <2>2. heads \in SUBSET (DOMAIN q) /\ IsFiniteSet(heads)
    BY <2>1, TakenWithin
  <2>3. QED BY <1>2, <2>2
<1>5. PICK last : last = [h \in heads |-> Max({i \in DOMAIN q : ~\E g \in heads : h < g /\ g <= i})]
  OBVIOUS
<1>6. ASSUME NEW h \in heads PROVE h \in 1..n /\ last[h] \in 1..n /\ h <= last[h]
  <2>1. PICK T : T = {i \in DOMAIN q : ~\E g \in heads : h < g /\ g <= i}
    OBVIOUS
  <2>2. h \in T /\ T \in SUBSET (1..n)
    BY <1>2, <1>4, <2>1
  <2>3. IsFiniteSet(1..n) /\ T \subseteq Int
    BY <2>2, FS_Interval
  <2>4. IsFiniteSet(T)
    BY <2>2, <2>3, FS_Subset
  <2>5. PICK m : m = Max(T)
    OBVIOUS
  <2>6. m \in T /\ \A i \in T : i <= m
    BY <2>2, <2>3, <2>4, <2>5, LargestOf
  <2>7. last[h] = m
    BY <1>5, <2>1, <2>5
  <2>8. QED BY <2>2, <2>6, <2>7
<1>7. PICK f : f = [h \in heads |->
         [path |-> q[h].path, start |-> q[h].start,
          end |-> Max({q[i].end : i \in h..last[h]}),
          score |-> Max({q[i].score : i \in h..last[h]}),
          text |-> UNION {q[i].start..q[i].end : i \in h..last[h]}]]
  OBVIOUS
<1>8. MergedOf(q) = {f[h] : h \in heads}
  BY <1>3, <1>5, <1>7 DEF MergedOf
<1>9. ASSUME NEW h \in heads
      PROVE  f[h] \in Span /\ f[h].path = file /\ f[h].start = q[h].start
  <2>1. PICK l : l = last[h]
    OBVIOUS
  <2>2. h \in Int /\ l \in Int /\ h <= l /\ \A i \in h..l : q[i] \in Piece
    BY <1>2, <1>6, <2>1
  <2>3. PICK ends : ends = [i \in h..l |-> q[i].end]
    OBVIOUS
  <2>4. PICK scores : scores = [i \in h..l |-> q[i].score]
    OBVIOUS
  <2>5. /\ \A i \in h..l : ends[i] \in Int
        /\ \A i \in h..l : scores[i] \in Int
    BY <2>2, <2>3, <2>4 DEF Piece
  <2>6. PICK E : E = {ends[i] : i \in h..l}
    OBVIOUS
  <2>7. PICK G : G = {scores[i] : i \in h..l}
    OBVIOUS
  <2>8. Max(E) \in E
    BY <2>2, <2>5, <2>6, LargestInRange
  <2>9. Max(G) \in G
    BY <2>2, <2>5, <2>7, LargestInRange
  <2>10. Max(E) \in Int /\ Max(G) \in Int
    BY <2>5, <2>6, <2>7, <2>8, <2>9
  <2>11. E = {q[i].end : i \in h..l} /\ G = {q[i].score : i \in h..l}
    BY <2>3, <2>4, <2>6, <2>7
  <2>12. q[h].path = file /\ q[h].start \in Nat
    BY <1>2, <1>6 DEF Piece
  <2>13. PICK text \in SUBSET Int : text = UNION {q[i].start..q[i].end : i \in h..l}
    <3>1. (UNION {q[i].start..q[i].end : i \in h..l}) \in SUBSET Int
      OBVIOUS
    <3>2. QED BY <3>1
  <2>14. f[h] = [path |-> file, start |-> q[h].start, end |-> Max(E), score |-> Max(G),
                 text |-> text]
    BY <1>7, <2>1, <2>11, <2>12, <2>13
  <2>15. QED BY <2>10, <2>12, <2>14 DEF Span
<1>10. IsFiniteSet(MergedOf(q))
  <2>1. DOMAIN f = heads /\ f = [h \in heads |-> f[h]]
    BY <1>7
  <2>2. QED BY <1>4, <1>8, <2>1, FiniteImage
<1>11. Apart(MergedOf(q))
  BY <1>2, <1>6, <1>8, <1>9 DEF Apart
<1>12. QED BY <1>8, <1>9, <1>10, <1>11

LEMMA MergedSpansIs ==
  ASSUME NEW chunks, IsFiniteSet(chunks), chunks \subseteq Piece, Apart(chunks)
  PROVE  /\ MergedSpans(chunks) \subseteq Span /\ IsFiniteSet(MergedSpans(chunks))
         /\ \A a \in MergedSpans(chunks) : a.path \in {c.path : c \in chunks}
         /\ Apart(MergedSpans(chunks))
<1>1. PICK files : files = {c.path : c \in chunks}
  OBVIOUS
<1>2. IsFiniteSet(files) /\ files \subseteq Path
  <2>1. PICK f : f = [c \in chunks |-> c.path]
    OBVIOUS
  <2>2. DOMAIN f = chunks /\ f = [c \in chunks |-> f[c]] /\ files = {f[c] : c \in chunks}
    BY <1>1, <2>1
  <2>3. IsFiniteSet(files)
    BY <2>2, FiniteImage
  <2>4. QED BY <1>1, <2>3 DEF Piece
<1>3. PICK merged : merged = [file \in files |->
                                MergedOf(InLineOrder({c \in chunks : c.path = file}))]
  OBVIOUS
<1>4. PICK F : F = {merged[file] : file \in files}
  OBVIOUS
<1>5. MergedSpans(chunks) = UNION F
  BY <1>1, <1>3, <1>4 DEF MergedSpans
<1>6. ASSUME NEW file \in files
      PROVE  /\ merged[file] \subseteq Span /\ IsFiniteSet(merged[file])
             /\ \A a \in merged[file] : a.path = file
             /\ Apart(merged[file])
  <2>1. PICK S : S = {c \in chunks : c.path = file}
    OBVIOUS
  <2>2. S \in SUBSET chunks /\ S \subseteq Piece
    BY <2>1
  <2>3. IsFiniteSet(S)
    BY <2>2, FS_Subset
  <2>4. \A a, b \in S : a.start = b.start => a = b
    BY <2>1 DEF Apart
  <2>5. PICK q : q = InLineOrder(S)
    OBVIOUS
  <2>6. q \in Seq(S) /\ IsInjective(q)
    BY <2>2, <2>3, <2>4, <2>5, InLineOrderIs
  <2>7. \A i \in DOMAIN q : q[i] \in S
    BY <2>6
  <2>8. \A i \in DOMAIN q : q[i].path = file
    BY <2>1, <2>7
  <2>9. \A i, j \in DOMAIN q : q[i].start = q[j].start => i = j
    BY <2>4, <2>6, <2>7 DEF IsInjective
  <2>10. q \in Seq(Piece) /\ file \in Path
    BY <1>2, <2>2, <2>6
  <2>11. merged[file] = MergedOf(q)
    BY <1>3, <2>1, <2>5
  <2>12. QED BY <2>8, <2>9, <2>10, <2>11, MergedOfIs
<1>7. IsFiniteSet(F)
  <2>1. DOMAIN merged = files /\ merged = [file \in files |-> merged[file]]
    BY <1>3
  <2>2. QED BY <1>2, <1>4, <2>1, FiniteImage
<1>8. \A M \in F : IsFiniteSet(M)
  BY <1>4, <1>6
<1>9. IsFiniteSet(UNION F)
  BY <1>7, <1>8, FS_UNION
<1>10. \A a \in UNION F : \E file \in files : a \in merged[file]
  BY <1>4
<1>11. \A a \in UNION F : a \in Span /\ a.path \in files
  BY <1>6, <1>10
<1>12. Apart(UNION F)
  <2> SUFFICES ASSUME NEW a \in UNION F, NEW b \in UNION F, a.path = b.path, a.start = b.start
               PROVE  a = b
    BY DEF Apart
  <2>1. PICK file \in files : a \in merged[file]
    BY <1>10
  <2>2. PICK other \in files : b \in merged[other]
    BY <1>10
  <2>3. file = other
    BY <1>6, <2>1, <2>2
  <2>4. QED BY <1>6, <2>1, <2>2, <2>3 DEF Apart
<1>13. QED BY <1>1, <1>5, <1>9, <1>11, <1>12

LEMMA WithinLinesIs ==
  ASSUME NEW q \in Seq(Span), NEW most \in Nat
  PROVE  WithinLines(q, most) \in Seq(Span)
<1>1. PICK n \in Nat : n = Len(q)
  OBVIOUS
<1>2. DOMAIN q = 1..n /\ \A i \in 1..n : q[i] \in Span
  BY <1>1
<1>3. PICK sizes : sizes = [i \in DOMAIN q |-> Lines(q[i])]
  OBVIOUS
<1>4. PICK used : used = PartSums(sizes)
  OBVIOUS
<1>5. used \in [0..n -> Int]
  <2>1. \A i \in 1..n : sizes[i] \in Int
    BY <1>2, <1>3 DEF Lines, Span
  <2>2. sizes \in Seq(Int) /\ Len(sizes) = n
    BY <1>2, <1>3, <2>1
  <2>3. QED BY <1>4, <2>2, Sums
<1>6. PICK kept : kept = {i \in DOMAIN q : used[i - 1] < most}
  OBVIOUS
<1>7. PICK m : m = Cardinality(kept)
  OBVIOUS
<1>8. m \in Nat /\ m <= n
  <2>1. kept \in SUBSET (1..n)
    BY <1>2, <1>6
  <2>2. IsFiniteSet(1..n) /\ Cardinality(1..n) = n
    BY FS_Interval
  <2>3. IsFiniteSet(kept) /\ Cardinality(kept) <= n
    BY <2>1, <2>2, FS_Subset
  <2>4. QED BY <1>7, <2>3, FS_CardinalityType
<1>9. ASSUME NEW i \in 1..m
      PROVE  (IF used[i] <= most THEN q[i] ELSE Truncated(q[i], most - used[i - 1])) \in Span
  <2>1. i \in 1..n /\ i - 1 \in 0..n
    BY <1>8
  <2>2. q[i] \in Span
    BY <1>2, <2>1
  <2>3. PICK keep \in Int : keep = most - used[i - 1]
    BY <1>5, <2>1
  <2>4. Truncated(q[i], keep) \in Span
    <3>1. PICK s \in Span : s = q[i]
      BY <2>2
    <3>2. PICK cut \in SUBSET Int : cut = {l \in s.text : Cardinality({m1 \in s.text : m1 <= l}) <= keep}
      <4>1. {l \in s.text : Cardinality({m1 \in s.text : m1 <= l}) <= keep} \in SUBSET Int
        BY DEF Span
      <4>2. QED BY <4>1
    <3>3. PICK e \in Int : e = s.start + keep - 1
      BY DEF Span
    <3>4. PICK short : short = [s EXCEPT !.end = e]
      OBVIOUS
    <3>5. short \in Span /\ short.text = s.text
      BY <3>4 DEF Span
    <3>6. [short EXCEPT !.text = cut] \in Span
      BY <3>5 DEF Span
    <3>7. Truncated(s, keep) = [short EXCEPT !.text = cut]
      BY <3>2, <3>3, <3>4, <3>5 DEF Truncated
    <3>8. QED BY <3>1, <3>6, <3>7
  <2>5. QED BY <2>2, <2>3, <2>4
<1>10. WithinLines(q, most) = [i \in 1..m |->
          IF used[i] <= most THEN q[i] ELSE Truncated(q[i], most - used[i - 1])]
  BY <1>3, <1>4, <1>6, <1>7 DEF WithinLines
<1>11. QED BY <1>8, <1>9, <1>10

LEMMA ShapedIs ==
  ASSUME NEW chunks, IsFiniteSet(chunks), chunks \subseteq Piece, Apart(chunks),
         NEW fileOrder \in SetToSeqs({c.path : c \in chunks}),
         NEW most \in Nat, NEW lines \in Nat
  PROVE  Shaped(chunks, most, lines, fileOrder) \in Seq(Span)
<1>1. PICK files : files = {c.path : c \in chunks}
  OBVIOUS
<1>2. \A file \in files : \E k \in DOMAIN fileOrder : fileOrder[k] = file
  <2>1. IsFiniteSet(files)
    <3>1. PICK f : f = [c \in chunks |-> c.path]
      OBVIOUS
    <3>2. DOMAIN f = chunks /\ f = [c \in chunks |-> f[c]] /\ files = {f[c] : c \in chunks}
      BY <1>1, <3>1
    <3>3. QED BY <3>2, FiniteImage
  <2>2. PICK n \in Nat : n = Cardinality(files)
    BY <2>1, FS_CardinalityType
  <2>3. fileOrder \in [1..n -> files] /\ \A i, j \in 1..n : i # j => fileOrder[i] # fileOrder[j]
    BY <1>1, <2>2 DEF SetToSeqs
  <2>4. fileOrder \in Injection(1..n, files)
    BY <2>3 DEF Injection, IsInjective
  <2>5. Cardinality(1..n) = n
    <3>1. PICK a \in Int, b \in Int : a = 1 /\ b = n
      OBVIOUS
    <3>2. Cardinality(a..b) = IF a > b THEN 0 ELSE b - a + 1
      BY FS_Interval, Zenon
    <3>3. QED BY <3>1, <3>2
  <2>6. fileOrder \in Surjection(1..n, files)
    BY <2>1, <2>2, <2>4, <2>5, FS_Injection
  <2>7. QED BY <2>3, <2>6 DEF Surjection
<1>3. DOMAIN fileOrder \subseteq Int
  BY DEF SetToSeqs
<1>4. PICK S : S = MergedSpans(chunks)
  OBVIOUS
<1>5. /\ S \subseteq Span /\ IsFiniteSet(S) /\ Apart(S)
      /\ \A a \in S : a.path \in files
  BY <1>1, <1>4, MergedSpansIs
<1>6. PICK u : u = [a \in S |-> a.score]
  OBVIOUS
<1>7. PICK v : v = [a \in S |-> CHOOSE k \in DOMAIN fileOrder : fileOrder[k] = a.path]
  OBVIOUS
<1>8. PICK w : w = [a \in S |-> a.start]
  OBVIOUS
<1>9. \A a \in S : v[a] \in DOMAIN fileOrder /\ fileOrder[v[a]] = a.path
  BY <1>2, <1>5, <1>7
<1>10. \A a, b \in S : v[a] = v[b] <=> a.path = b.path
  BY <1>7, <1>9
<1>11. \A a \in S : u[a] \in Int /\ v[a] \in Int /\ w[a] \in Int
  BY <1>3, <1>5, <1>6, <1>8, <1>9 DEF Span
<1>12. \A a, b \in S : v[a] = v[b] /\ w[a] = w[b] => a = b
  BY <1>5, <1>8, <1>10 DEF Apart
<1>13. PICK R : R = Sorting(S, u, v, w)
  OBVIOUS
<1>14. InOneOrder(S, R)
  BY <1>5, <1>11, <1>12, <1>13, SortingOrders
<1> DEFINE place(a) == CHOOSE k \in DOMAIN fileOrder : fileOrder[k] = a.path
           before(a, b) == \/ a.score > b.score
                           \/ a.score = b.score /\ place(a) < place(b)
                           \/ a.score = b.score /\ a.path = b.path /\ a.start < b.start
           chosen(k) == CHOOSE b \in S : Cardinality({a \in S : before(a, b)}) = k - 1
           listed(k) == CHOOSE b \in S : Cardinality(Ahead(S, R, b)) = k - 1
           m == Cardinality(S)
           all == InOrder(S, LAMBDA a, b : before(a, b))
<1>15. \A a, b \in S : <<a, b>> \in R <=> before(a, b)
  <2>1. \A a \in S : place(a) = v[a] /\ u[a] = a.score /\ w[a] = a.start
    BY <1>6, <1>7, <1>8
  <2> HIDE DEF place
  <2>2. QED BY <1>10, <1>13, <2>1 DEF Sorting
<1>16. Shaped(chunks, most, lines, fileOrder) = WithinLines(First(all, most), lines)
  BY <1>4 DEF Shaped, First
<1>17. all = [k \in 1..m |-> chosen(k)]
  BY DEF InOrder
<1>18. ListedBy(S, R) = [k \in 1..m |-> listed(k)]
  BY DEF ListedBy
<1> HIDE DEF before
<1>19. \A b \in S : {a \in S : before(a, b)} = Ahead(S, R, b)
  BY <1>15 DEF Ahead
<1>20. ASSUME NEW k PROVE chosen(k) = listed(k)
  BY <1>19, Zenon
<1> HIDE DEF chosen, listed, m, all
<1>21. all = ListedBy(S, R)
  BY <1>17, <1>18, <1>20
<1>22. all \in Seq(Span)
  BY <1>5, <1>14, <1>21, ListedIs
<1>23. First(all, most) \in Seq(Span)
  BY <1>22, BeginningIs DEF First
<1>24. QED BY <1>16, <1>23, WithinLinesIs

LEMMA ShapeMakesSpans ==
  ASSUME RankedInv, Shape
  PROVE  spans' \in Seq(Span)
<1>1. PICK S : S = ToSet(scored)
  OBVIOUS
<1>2. IsFiniteSet(S) /\ S \subseteq Scored
  BY <1>1, ManyElements DEF RankedInv
<1>3. \A a, b \in S : a.id = b.id => a = b
  <2> SUFFICES ASSUME NEW a \in S, NEW b \in S, a.id = b.id PROVE a = b
    OBVIOUS
  <2>1. PICK i \in DOMAIN scored : scored[i] = a
    BY <1>1 DEF ToSet
  <2>2. PICK j \in DOMAIN scored : scored[j] = b
    BY <1>1 DEF ToSet
  <2>3. /\ i \in DOMAIN Ids /\ j \in DOMAIN Ids /\ Ids[i] = a.id /\ Ids[j] = b.id
        /\ IsInjective(Ids)
    BY <2>1, <2>2 DEF Ids, RankedInv
  <2>4. i = j
    BY <2>3 DEF IsInjective
  <2>5. QED BY <2>1, <2>2, <2>4
<1>4. PICK f : f = [s \in S |-> [path |-> Info[s.id].path, start |-> Info[s.id].start,
                                 end |-> Info[s.id].end, score |-> s.score]]
  OBVIOUS
<1>5. PICK chunks : chunks = {f[s] : s \in S}
  OBVIOUS
<1>6. PICK fileOrder \in SetToSeqs({c.path : c \in chunks}) :
         spans' = Shaped(chunks, TopN, MaxLines, fileOrder)
  <2>1. chunks = {[path |-> Info[s.id].path, start |-> Info[s.id].start,
                   end |-> Info[s.id].end, score |-> s.score] : s \in ToSet(scored)}
    BY <1>1, <1>4, <1>5
  <2>2. QED BY <2>1 DEF Shape
<1>7. \A s \in S : f[s] \in Piece /\ f[s].path = Info[s.id].path /\ f[s].start = Info[s.id].start
  BY <1>2, <1>4, CorpusAssumption DEF Scored, Piece, Path
<1>8. IsFiniteSet(chunks)
  <2>1. DOMAIN f = S /\ f = [s \in S |-> f[s]]
    BY <1>4
  <2>2. QED BY <1>2, <1>5, <2>1, FiniteImage
<1>9. Apart(chunks)
  <2> SUFFICES ASSUME NEW s \in S, NEW t \in S,
                      f[s].path = f[t].path, f[s].start = f[t].start
               PROVE  s = t
    BY <1>5 DEF Apart
  <2>1. s.id \in Chunk /\ t.id \in Chunk
    BY <1>2 DEF Scored
  <2>2. s.id = t.id
    BY <1>7, <2>1, CorpusAssumption, SMTT(30)
  <2>3. QED BY <1>3, <2>2
<1>10. chunks \subseteq Piece
  BY <1>5, <1>7
<1>11. TopN \in Nat /\ MaxLines \in Nat
  BY RetrievalAssumption
<1>12. QED BY <1>6, <1>8, <1>9, <1>10, <1>11, ShapedIs

-----------------------------------------------------------------------------
(***************************************************************************)
(* The lists beside the spans.                                              *)
(***************************************************************************)
LEMMA FirstIs ==
  ASSUME NEW S, NEW q \in Seq(S), NEW k \in Nat
  PROVE  /\ First(q, k) \in Seq(S) /\ Len(First(q, k)) \in Nat /\ Len(First(q, k)) <= k
         /\ Len(First(q, k)) <= Len(q)
         /\ Len(First(q, k)) < k => First(q, k) = q
<1>1. PICK m : m = Min({k, Len(q)})
  OBVIOUS
<1>2. PICK r : r = First(q, k)
  OBVIOUS
<1>3. /\ m \in 0..Len(q) /\ m <= k /\ Len(q) \in Nat
      /\ r \in Seq(S) /\ Len(r) = m /\ \A i \in 1..m : r[i] = q[i]
  BY <1>1, <1>2, BeginningIs DEF First
<1>4. m = IF k <= Len(q) THEN k ELSE Len(q)
  BY <1>1, <1>3, PairExtremes
<1>5. ASSUME m < k PROVE r = q
  <2>1. m = Len(q)
    BY <1>3, <1>4, <1>5
  <2>2. QED BY <1>3, <2>1
<1>6. QED BY <1>2, <1>3, <1>5

LEMMA ChunksWithIs ==
  ASSUME NEW S \in SUBSET Chunk
  PROVE  ChunksWith(S) \in Seq(Chunk) /\ ToSet(ChunksWith(S)) = S
<1>1. ChunkOrder \in Seq(Chunk) /\ ToSet(ChunkOrder) = Chunk
  BY CorpusAssumption
<1>2. PICK T \in SUBSET (DOMAIN ChunkOrder) : T = {i \in DOMAIN ChunkOrder : ChunkOrder[i] \in S}
  OBVIOUS
<1>3. /\ At(ChunkOrder, T) \in Seq(Chunk)
      /\ ToSet(At(ChunkOrder, T)) = {ChunkOrder[i] : i \in T}
  BY <1>1, AtPart
<1>4. S = {ChunkOrder[i] : i \in T}
  BY <1>1, <1>2 DEF ToSet
<1>5. ChunksWith(S) = At(ChunkOrder, T)
  BY <1>2 DEF ChunksWith
<1>6. QED BY <1>3, <1>4, <1>5

LEMMA NamedChunksAre ==
  ASSUME NEW x
  PROVE  /\ Defining(x) \in Seq(Chunk) /\ Referencing(x) \in Seq(Chunk)
         /\ ToSet(Defining(x)) = {c \in Chunk : x \in ToSet(Info[c].defines)}
         /\ ToSet(Referencing(x)) = {c \in Chunk : x \in ToSet(Info[c].refs)}
<1>1. PICK D \in SUBSET Chunk : D = {c \in Chunk : x \in ToSet(Info[c].defines)}
  OBVIOUS
<1>2. PICK R \in SUBSET Chunk : R = {c \in Chunk : x \in ToSet(Info[c].refs)}
  OBVIOUS
<1>3. Defining(x) = ChunksWith(D) /\ Referencing(x) = ChunksWith(R)
  BY <1>1, <1>2 DEF Defining, Referencing
<1>4. QED BY <1>1, <1>2, <1>3, ChunksWithIs

\* One step of a loop that collects what a function gives for each element.
LEMMA Collected ==
  ASSUME NEW S, NEW T, NEW q \in Seq(S), NEW f, \A e \in S : f[e] \in Seq(T)
  PROVE  Flat([i \in DOMAIN q |-> f[q[i]]]) \in Seq(T)
<1>1. PICK n \in Nat : n = Len(q)
  OBVIOUS
<1>2. DOMAIN q = 1..n /\ \A i \in 1..n : q[i] \in S
  BY <1>1
<1>3. PICK qs : qs = [i \in DOMAIN q |-> f[q[i]]]
  OBVIOUS
<1>4. qs = [i \in 1..n |-> f[q[i]]] /\ \A i \in 1..n : f[q[i]] \in Seq(T)
  BY <1>2, <1>3
<1>5. qs \in Seq(Seq(T))
  BY <1>4
<1>6. QED BY <1>3, <1>5, FlatIs

LEMMA CalleesAre ==
  ASSUME NEW q \in Seq(Chunk)
  PROVE  Callees(q) \in Seq(Chunk)
<1> DEFINE own == UNION {ToSet(Info[q[i]].defines) : i \in DOMAIN q}
<1>2. PICK idents : idents = [s \in Chunk |->
         First(At(Info[s].refs, {i \in DOMAIN Info[s].refs : Info[s].refs[i] \notin own}),
               PerSeedIdents)]
  OBVIOUS
<1>3. PICK resolved : resolved = [x \in Name |->
         IF Len(Defining(x)) > AmbiguousAbove THEN <<>> ELSE Defining(x)]
  OBVIOUS
<1>4. ASSUME NEW s \in Chunk PROVE idents[s] \in Seq(Name)
  <2>1. PICK refs \in Seq(Name) : refs = Info[s].refs
    BY CorpusAssumption
  <2>2. PICK T \in SUBSET (DOMAIN refs) : T = {i \in DOMAIN refs : refs[i] \notin own}
    OBVIOUS
  <2>3. At(refs, T) \in Seq(Name)
    BY AtPart
  <2>4. First(At(refs, T), PerSeedIdents) \in Seq(Name)
    BY <2>3, FirstIs, RelatedAssumption
  <2>5. QED BY <1>2, <2>1, <2>2, <2>4
<1>5. \A x \in Name : resolved[x] \in Seq(Chunk)
  BY <1>3, NamedChunksAre
<1>6. PICK names : names = Flat([i \in DOMAIN q |-> idents[q[i]]])
  OBVIOUS
<1>7. names \in Seq(Name)
  BY <1>4, <1>6, Collected
<1>8. Flat([i \in DOMAIN names |-> resolved[names[i]]]) \in Seq(Chunk)
  BY <1>5, <1>7, Collected
<1> DEFINE refs(s) == Info[s].refs
           identsOf(s) == First(At(refs(s), {i \in DOMAIN refs(s) : refs(s)[i] \notin own}),
                                PerSeedIdents)
           resolvedOf(x) == IF Len(Defining(x)) > AmbiguousAbove THEN <<>> ELSE Defining(x)
           found == Flat([i \in DOMAIN q |-> identsOf(q[i])])
<1>9. Callees(q) = Flat([i \in DOMAIN found |-> resolvedOf(found[i])])
  BY DEF Callees, FlatMap, Each
<1>10. \A s \in Chunk : identsOf(s) = idents[s]
  BY <1>2
<1>11. \A x \in Name : resolvedOf(x) = resolved[x]
  BY <1>3
<1> HIDE DEF identsOf, resolvedOf
<1>12. found = names
  <2>1. \A i \in DOMAIN q : q[i] \in Chunk
    OBVIOUS
  <2>2. [i \in DOMAIN q |-> identsOf(q[i])] = [i \in DOMAIN q |-> idents[q[i]]]
    BY <1>10, <2>1
  <2>3. QED BY <1>6, <2>2
<1>13. [i \in DOMAIN names |-> resolvedOf(names[i])] = [i \in DOMAIN names |-> resolved[names[i]]]
  <2>1. \A i \in DOMAIN names : names[i] \in Name
    BY <1>7
  <2>2. QED BY <1>11, <2>1
<1> HIDE DEF found
<1>14. QED BY <1>8, <1>9, <1>12, <1>13

LEMMA CallersAre ==
  ASSUME NEW q \in Seq(Chunk)
  PROVE  Callers(q) \in Seq(Chunk)
<1>1. PICK idents : idents = [s \in Chunk |-> First(Info[s].defines, PerSeedDefines)]
  OBVIOUS
<1>2. PICK users : users = [x \in Name |-> First(Referencing(x), CallerLimit)]
  OBVIOUS
<1>3. ASSUME NEW s \in Chunk PROVE idents[s] \in Seq(Name)
  <2>1. Info[s].defines \in Seq(Name)
    BY CorpusAssumption
  <2>2. QED BY <1>1, <2>1, FirstIs, RelatedAssumption
<1>4. ASSUME NEW x \in Name PROVE users[x] \in Seq(Chunk)
  <2>1. Referencing(x) \in Seq(Chunk)
    BY NamedChunksAre
  <2>2. QED BY <1>2, <2>1, FirstIs, RelatedAssumption
<1>5. PICK names : names = Flat([i \in DOMAIN q |-> idents[q[i]]])
  OBVIOUS
<1>6. names \in Seq(Name)
  BY <1>3, <1>5, Collected
<1>7. Flat([i \in DOMAIN names |-> users[names[i]]]) \in Seq(Chunk)
  BY <1>4, <1>6, Collected
<1> DEFINE identsOf(s) == First(Info[s].defines, PerSeedDefines)
           usersOf(x) == First(Referencing(x), CallerLimit)
           found == Flat([i \in DOMAIN q |-> identsOf(q[i])])
<1>8. Callers(q) = Flat([i \in DOMAIN found |-> usersOf(found[i])])
  BY DEF Callers, FlatMap, Each
<1>9. \A s \in Chunk : identsOf(s) = idents[s]
  BY <1>1
<1>10. \A x \in Name : usersOf(x) = users[x]
  BY <1>2
<1> HIDE DEF identsOf, usersOf
<1>11. found = names
  <2>1. \A i \in DOMAIN q : q[i] \in Chunk
    OBVIOUS
  <2>2. [i \in DOMAIN q |-> identsOf(q[i])] = [i \in DOMAIN q |-> idents[q[i]]]
    BY <1>9, <2>1
  <2>3. QED BY <1>5, <2>2
<1>12. [i \in DOMAIN names |-> usersOf(names[i])] = [i \in DOMAIN names |-> users[names[i]]]
  <2>1. \A i \in DOMAIN names : names[i] \in Name
    BY <1>6
  <2>2. QED BY <1>10, <2>1
<1> HIDE DEF found
<1>13. QED BY <1>7, <1>8, <1>11, <1>12

LEMMA InterleavedIs ==
  ASSUME NEW S, NEW q \in Seq(S), NEW r \in Seq(S)
  PROVE  Interleaved(q, r) \in Seq(S)
<1>1. PICK m \in Nat : m = Len(q)
  OBVIOUS
<1>2. PICK n \in Nat : n = Len(r)
  OBVIOUS
<1>3. PICK k : k = Max({m, n})
  OBVIOUS
<1>4. k \in Nat
  <2>1. m \in Int /\ n \in Int
    OBVIOUS
  <2>2. k = IF m <= n THEN n ELSE m
    BY <1>3, <2>1, PairExtremes
  <2>3. QED BY <2>2
<1>5. ASSUME NEW i \in 1..k
      PROVE  SubSeq(q, i, Min({i, Len(q)})) \o SubSeq(r, i, Min({i, Len(r)})) \in Seq(S)
  <2>1. PICK a : a = Min({i, Len(q)})
    OBVIOUS
  <2>2. PICK b : b = Min({i, Len(r)})
    OBVIOUS
  <2>3. a \in Nat /\ a <= m
    BY <1>1, <2>1, PairExtremes
  <2>4. b \in Nat /\ b <= n
    BY <1>2, <2>2, PairExtremes
  <2>5. SubSeq(q, i, a) \in Seq(S)
    BY <1>1, <2>3
  <2>6. SubSeq(r, i, b) \in Seq(S)
    BY <1>2, <2>4
  <2>7. SubSeq(q, i, a) \o SubSeq(r, i, b) \in Seq(S)
    BY <2>5, <2>6, JoinTwo
  <2>8. QED BY <2>1, <2>2, <2>7
<1>6. PICK qs : qs = [i \in 1..k |->
         SubSeq(q, i, Min({i, Len(q)})) \o SubSeq(r, i, Min({i, Len(r)}))]
  OBVIOUS
<1>7. qs \in Seq(Seq(S))
  <2>1. PICK V : V = Seq(S)
    OBVIOUS
  <2>2. \A i \in 1..k : qs[i] \in V
    BY <1>5, <1>6, <2>1
  <2>3. DOMAIN qs = 1..k /\ qs = [i \in 1..k |-> qs[i]]
    BY <1>6
  <2>4. qs \in Seq(V)
    BY <1>4, <2>2, <2>3
  <2>5. QED BY <2>1, <2>4
<1>8. Interleaved(q, r) = Flat(qs)
  BY <1>1, <1>2, <1>3, <1>6 DEF Interleaved
<1>9. QED BY <1>7, <1>8, FlatIs

Near == [path : Path, start : Nat, end : Nat, relation : {"defines", "calls", "tests"}]

\* Pointers to chunks.
LEMMA PointersAre ==
  ASSUME NEW q \in Seq(Chunk), NEW relation \in {"defines", "calls", "tests"}
  PROVE  [i \in DOMAIN q |-> Pointer(q[i], relation)] \in Seq(Near)
<1>1. PICK n \in Nat : n = Len(q)
  OBVIOUS
<1>2. DOMAIN q = 1..n /\ \A i \in 1..n : q[i] \in Chunk
  BY <1>1
<1>3. \A c \in Chunk : Pointer(c, relation) \in Near
  BY CorpusAssumption DEF Pointer, Near, Path
<1>4. \A i \in 1..n : Pointer(q[i], relation) \in Near
  BY <1>2, <1>3
<1>5. QED BY <1>2, <1>4

LEMMA NeighboursAre ==
  ASSUME NEW q \in Seq(Chunk), NEW shown, NEW most
  PROVE  Neighbours(q, shown, most) \in Seq(Near)
<1>1. PICK callees : callees = Callees(q)
  OBVIOUS
<1>2. PICK callers : callers = Callers(q)
  OBVIOUS
<1>3. callees \in Seq(Chunk) /\ callers \in Seq(Chunk)
  BY <1>1, <1>2, CalleesAre, CallersAre
<1>4. PICK I \in SUBSET (DOMAIN callees) : I = {i \in DOMAIN callees : callees[i] \notin ToSet(q)}
  OBVIOUS
<1>5. PICK J \in SUBSET (DOMAIN callers) : J = {i \in DOMAIN callers : callers[i] \notin ToSet(q)}
  OBVIOUS
<1>6. PICK a : a = At(callees, I)
  OBVIOUS
<1>7. PICK b : b = At(callers, J)
  OBVIOUS
<1>8. a \in Seq(Chunk) /\ b \in Seq(Chunk)
  BY <1>3, <1>6, <1>7, AtPart
<1>9. PICK c : c = [i \in DOMAIN a |-> Pointer(a[i], "defines")]
  OBVIOUS
<1>10. PICK d : d = [i \in DOMAIN b |-> Pointer(b[i], "calls")]
  OBVIOUS
<1>11. c \in Seq(Near) /\ d \in Seq(Near)
  BY <1>8, <1>9, <1>10, PointersAre
<1>12. PICK both : both = Interleaved(c, d)
  OBVIOUS
<1>13. both \in Seq(Near)
  BY <1>11, <1>12, InterleavedIs
<1>14. Neighbours(q, shown, most) = Merged(both, shown, most)
  BY <1>1, <1>2, <1>4, <1>5, <1>6, <1>7, <1>9, <1>10, <1>12 DEF Neighbours, Each
<1>15. PICK after : Merged(both, shown, most) = At(both, Taken(Len(both), after))
  BY DEF Merged
<1>16. QED BY <1>13, <1>14, <1>15, TakenWithin

LEMMA ReferencingMostIs ==
  ASSUME NEW names, IsFiniteSet(names)
  PROVE  ReferencingMost(names) \in Seq(Chunk)
<1>1. PICK n \in Nat : n = Cardinality(names)
  BY FS_CardinalityType
<1> DEFINE users(k) == {c \in Chunk : Cardinality(ToSet(Info[c].refs) \cap names) = k}
<1>2. PICK qs : qs = [i \in 1..n |-> ChunksWith(users(n + 1 - i))]
  OBVIOUS
<1>3. PICK V : V = Seq(Chunk)
  OBVIOUS
<1>4. ASSUME NEW k PROVE ChunksWith(users(k)) \in V
  <2>1. PICK S \in SUBSET Chunk : S = users(k)
    OBVIOUS
  <2>2. QED BY <1>3, <2>1, ChunksWithIs
<1>5. ReferencingMost(names) = Flat(qs)
  BY <1>1, <1>2 DEF ReferencingMost
<1> HIDE DEF users
<1>6. qs \in Seq(V)
  BY <1>2, <1>4
<1>7. QED BY <1>3, <1>5, <1>6, FlatIs

LEMMA TestsAre ==
  ASSUME NEW idents \in Seq(Name), NEW most
  PROVE  Tests(idents, most) \in Seq(Near)
<1> DEFINE names == ToSet(First(idents, UsageIdents))
           all == First(ReferencingMost(names), TestRefLimit)
           q == At(all, {i \in DOMAIN all : Info[all[i]].test})
           after == [i \in DOMAIN q |-> {T \in SomeBefore(i) :
                       /\ Cardinality(T) < most
                       /\ Cardinality({j \in T : Info[q[j]].path = Info[q[i]].path})
                            < RelatedPerFile}]
           r == At(q, Taken(Len(q), after))
<1>1. Tests(idents, most) = [i \in DOMAIN r |-> Pointer(r[i], "tests")]
  BY DEF Tests, Each
<1>2. q \in Seq(Chunk)
  <2>1. names \in SUBSET Name /\ IsFiniteSet(names)
    <3>1. First(idents, UsageIdents) \in Seq(Name)
      BY FirstIs, RelatedAssumption
    <3>2. QED BY <3>1, ManyElements
  <2> HIDE DEF names
  <2>2. ReferencingMost(names) \in Seq(Chunk)
    BY <2>1, ReferencingMostIs
  <2>3. all \in Seq(Chunk)
    BY <2>2, FirstIs, RelatedAssumption
  <2>4. PICK I \in SUBSET (DOMAIN all) : I = {i \in DOMAIN all : Info[all[i]].test}
    OBVIOUS
  <2> HIDE DEF all
  <2>5. At(all, I) \in Seq(Chunk)
    BY <2>3, AtPart
  <2>6. QED BY <2>4, <2>5
<1> HIDE DEF q, after
<1>3. r \in Seq(Chunk)
  BY <1>2, TakenWithin
<1> HIDE DEF r
<1>4. QED BY <1>1, <1>3, PointersAre

-----------------------------------------------------------------------------
(***************************************************************************)
(* The list of usages.  A line marked as all of a name comes with lines for *)
(* every use of the name: its own, or those listed before it for another.   *)
(***************************************************************************)
UsageLine == [path : Path, line : Nat, name : Name, def : BOOLEAN, all : BOOLEAN]
Found == [chunk : Chunk, def : BOOLEAN]

UsageSound(q) ==
  \A i \in DOMAIN q : q[i].all =>
    \A u \in Uses(q[i].name) : \E j \in DOMAIN q :
      SameLine(q[j], u) /\ (q[j].name = q[i].name \/ j < i)

LEMMA PlacesFound ==
  ASSUME NEW x
  PROVE  /\ Places(x) \in Seq(Found)
         /\ Places(x) # <<>> /\ Len(First(Referencing(x), UsageRefLimit)) < UsageRefLimit
            => \A c \in Chunk : x \in ToSet(Info[c].defines) \cup ToSet(Info[c].refs)
                 => \E i \in DOMAIN Places(x) : Places(x)[i].chunk = c
<1>1. PICK D \in Seq(Chunk) : D = Defining(x)
  BY NamedChunksAre
<1>2. PICK R \in Seq(Chunk) : R = Referencing(x)
  BY NamedChunksAre
<1>3. PICK F : F = First(R, UsageRefLimit)
  OBVIOUS
<1>4. F \in Seq(Chunk) /\ (Len(F) < UsageRefLimit => F = R)
  BY <1>3, FirstIs, RelatedAssumption
<1>5. PICK a : a = [i \in DOMAIN D |-> [chunk |-> D[i], def |-> TRUE]]
  OBVIOUS
<1>6. PICK b : b = [i \in DOMAIN F |-> [chunk |-> F[i], def |-> FALSE]]
  OBVIOUS
<1>7. a \in Seq(Found) /\ DOMAIN a = DOMAIN D /\ \A i \in DOMAIN D : a[i].chunk = D[i]
  <2>1. PICK m \in Nat : m = Len(D)
    OBVIOUS
  <2>2. DOMAIN D = 1..m /\ \A i \in 1..m : [chunk |-> D[i], def |-> TRUE] \in Found
    BY <2>1 DEF Found
  <2>3. QED BY <1>5, <2>2
<1>8. b \in Seq(Found) /\ DOMAIN b = DOMAIN F /\ \A i \in DOMAIN F : b[i].chunk = F[i]
  <2>1. PICK m \in Nat : m = Len(F)
    BY <1>4
  <2>2. DOMAIN F = 1..m /\ \A i \in 1..m : [chunk |-> F[i], def |-> FALSE] \in Found
    BY <1>4, <2>1 DEF Found
  <2>3. QED BY <1>6, <2>2
<1>9. Places(x) = IF Len(D) > AmbiguousAbove THEN <<>> ELSE a \o b
  BY <1>1, <1>2, <1>3, <1>5, <1>6 DEF Places, Each
<1>10. a \o b \in Seq(Found) /\ ToSet(a \o b) = ToSet(a) \cup ToSet(b)
  BY <1>7, <1>8, JoinTwo
<1>11. ASSUME Places(x) # <<>>, Len(F) < UsageRefLimit,
              NEW c \in Chunk, x \in ToSet(Info[c].defines) \cup ToSet(Info[c].refs)
       PROVE  \E i \in DOMAIN Places(x) : Places(x)[i].chunk = c
  <2>1. PICK all : all = a \o b
    OBVIOUS
  <2>2. Places(x) = all
    BY <1>9, <1>11, <2>1
  <2>3. c \in ToSet(D) \/ c \in ToSet(F)
    BY <1>1, <1>2, <1>4, <1>11, NamedChunksAre
  <2>4. \E e \in ToSet(a) \cup ToSet(b) : e.chunk = c
    BY <1>7, <1>8, <2>3 DEF ToSet
  <2>5. \E e \in ToSet(all) : e.chunk = c
    BY <1>10, <2>1, <2>4
  <2>6. QED BY <2>2, <2>5 DEF ToSet
<1>12. Places(x) \in Seq(Found)
  BY <1>9, <1>10
<1>13. QED BY <1>2, <1>3, <1>11, <1>12

LEMMA MoreUsages ==
  ASSUME NEW x \in Name, NEW before \in Seq(UsageLine), UsageSound(before), NEW limit
  PROVE  /\ WithUsagesOf(x, before, limit) \in Seq(UsageLine)
         /\ UsageSound(WithUsagesOf(x, before, limit))
<1>1. PICK ps \in Seq(Found) : ps = Places(x)
  BY PlacesFound
<1>2. PICK n \in Nat : n = Len(ps)
  OBVIOUS
<1>3. DOMAIN ps = 1..n /\ \A i \in 1..n : ps[i] \in Found
  BY <1>2
<1> DEFINE line(i) == LineOf(x, ps[i])
           new(i) == /\ line(i).line # 0
                     /\ ~\E j \in DOMAIN before : SameLine(before[j], line(i))
                     /\ ~\E j \in 1..(i - 1) : line(j).line # 0 /\ SameLine(line(j), line(i))
           room(i) == LET news == Cardinality({j \in 1..(i - 1) : new(j)}) IN
                      news < limit.each /\ Len(before) + news < limit.lines
<1>4. PICK shown \in SUBSET (1..n) : shown = {i \in DOMAIN ps : room(i) /\ line(i).line # 0}
  BY <1>3
<1>5. PICK news \in SUBSET (1..n) : news = {i \in DOMAIN ps : room(i) /\ new(i)}
  BY <1>3
<1> DEFINE looked == Looked(x, before, limit)
<1>6. looked = [places |-> ps, shown |-> shown, new |-> news]
  BY <1>1, <1>4, <1>5 DEF Looked
<1>7. looked.places = ps /\ looked.shown = shown /\ looked.new = news
  BY <1>6
<1>8. \A i \in shown : room(i) /\ line(i).line # 0
  BY <1>4
<1>9. \A i \in 1..n : room(i) /\ new(i) => i \in news
  BY <1>3, <1>5
<1>10. PICK every : every = AllShown(x, looked)
  OBVIOUS
<1>11. PICK marked : marked = [i \in DOMAIN ps |-> [line(i) EXCEPT !.all = line(i).def /\ every]]
  OBVIOUS
<1>12. \A i \in 1..n : /\ line(i) \in UsageLine /\ line(i).name = x
                       /\ line(i).path = Info[ps[i].chunk].path
                       /\ line(i).line = Info[ps[i].chunk].line[x]
  <2>1. \A c \in Chunk : Info[c].path \in Path /\ Info[c].line[x] \in Nat
    BY CorpusAssumption DEF Path
  <2>2. QED BY <1>3, <2>1 DEF LineOf, UsageLine, Found
<1>13. ASSUME NEW i \in 1..n
       PROVE  /\ marked[i] \in UsageLine /\ marked[i].name = x
              /\ marked[i].path = line(i).path /\ marked[i].line = line(i).line
              /\ marked[i].all => every
  <2>1. PICK l \in UsageLine : l = line(i)
    BY <1>12
  <2>2. marked[i] = [l EXCEPT !.all = l.def /\ every]
    BY <1>3, <1>11, <2>1
  <2>3. PICK b \in BOOLEAN : b = (l.def /\ every)
    OBVIOUS
  <2>4. marked[i] = [l EXCEPT !.all = b] /\ (b => every)
    BY <2>2, <2>3
  <2> HIDE DEF line
  <2>5. marked[i] \in UsageLine
    BY <2>4 DEF UsageLine
  <2>6. marked[i].name = l.name /\ marked[i].path = l.path /\ marked[i].line = l.line
    BY <2>4 DEF UsageLine
  <2>7. marked[i].all = b
    BY <2>4 DEF UsageLine
  <2>8. QED BY <1>12, <2>1, <2>4, <2>5, <2>6, <2>7
<1>14. ASSUME NEW i \in 1..n, line(i).line # 0,
              \A j \in DOMAIN before : ~SameLine(before[j], line(i)),
              \A j \in 1..(i - 1) : ~SameLine(line(j), line(i))
       PROVE  new(i)
  BY <1>14
<1> HIDE DEF room, new
<1>15. PICK more : more = At(marked, news)
  OBVIOUS
<1> DEFINE marks == [i \in DOMAIN looked.places |->
             [LineOf(x, looked.places[i]) EXCEPT
                !.all = LineOf(x, looked.places[i]).def /\ AllShown(x, looked)]]
<1>16. WithUsagesOf(x, before, limit) = before \o more
  <2>1. WithUsagesOf(x, before, limit) = before \o At(marks, looked.new)
    BY DEF WithUsagesOf
  <2>2. marks = marked
    <3> HIDE DEF looked
    <3>1. marks = [i \in DOMAIN ps |->
             [LineOf(x, ps[i]) EXCEPT !.all = LineOf(x, ps[i]).def /\ every]]
      BY <1>7, <1>10
    <3>2. QED BY <1>11, <3>1
  <2> HIDE DEF marks, looked
  <2>3. QED BY <1>7, <1>15, <2>1, <2>2
<1> HIDE DEF marks, looked
<1> HIDE DEF line
<1>17. marked \in Seq(UsageLine) /\ DOMAIN marked = 1..n
  <2>1. DOMAIN marked = 1..n /\ marked = [i \in 1..n |-> marked[i]]
    BY <1>3, <1>11
  <2>2. QED BY <1>13, <2>1
<1>18. more \in Seq(UsageLine) /\ ToSet(more) = {marked[i] : i \in news}
  <2>1. PICK q \in Seq(UsageLine) : q = marked
    BY <1>17
  <2>2. PICK T \in SUBSET (DOMAIN q) : T = news
    BY <1>17, <2>1
  <2>3. At(q, T) \in Seq(UsageLine) /\ ToSet(At(q, T)) = {q[i] : i \in T}
    BY AtPart
  <2>4. QED BY <1>15, <2>1, <2>2, <2>3
<1>19. PICK m \in Nat : m = Len(before)
  OBVIOUS
<1>20. PICK all : all = before \o more
  OBVIOUS
<1>21. PICK k \in Nat : k = Len(more)
  BY <1>18
<1>22. /\ all \in Seq(UsageLine) /\ DOMAIN all = 1..(m + k)
       /\ DOMAIN before = 1..m /\ \A i \in 1..m : all[i] = before[i]
       /\ DOMAIN more = 1..k /\ \A i \in 1..k : m + i \in 1..(m + k) /\ all[m + i] = more[i]
  BY <1>18, <1>19, <1>20, <1>21
<1>23. \A i \in 1..n : i \in news => \E j \in DOMAIN all : all[j] = marked[i]
  <2> SUFFICES ASSUME NEW i \in news PROVE \E j \in DOMAIN all : all[j] = marked[i]
    OBVIOUS
  <2>1. marked[i] \in ToSet(more)
    BY <1>18
  <2>2. PICK j \in DOMAIN more : more[j] = marked[i]
    BY <2>1 DEF ToSet
  <2>3. QED BY <1>22, <2>2
<1>24. ASSUME every, news # {}, NEW u \in Uses(x)
       PROVE  \E j \in DOMAIN all : SameLine(all[j], u) /\ (all[j].name = x \/ j <= m)
  <2>1. PICK c \in Chunk : /\ x \in ToSet(Info[c].defines) \cup ToSet(Info[c].refs)
                           /\ u = [path |-> Info[c].path, line |-> Info[c].line[x]]
    BY DEF Uses
  <2>2. /\ Len(First(Referencing(x), UsageRefLimit)) < UsageRefLimit
        /\ Cardinality(shown) = Len(ps)
    BY <1>7, <1>10, <1>24 DEF AllShown
  <2>3. shown = 1..n
    <3>1. IsFiniteSet(1..n) /\ Cardinality(1..n) = n
      BY FS_Interval
    <3>2. QED BY <1>2, <2>2, <3>1, FS_Subset
  <2>4. ps # <<>>
    <3>1. n # 0
      <4>1. n = 0 => 1..n = {}
        OBVIOUS
      <4>2. QED BY <1>5, <1>24, <4>1
    <3>2. QED BY <1>2, <3>1
  <2>5. PICK e \in 1..n : ps[e].chunk = c
    BY <1>1, <1>3, <2>1, <2>2, <2>4, PlacesFound
  <2>6. SameLine(line(e), u)
    BY <1>12, <2>1, <2>5 DEF SameLine
  <2>7. PICK T : T = {i \in 1..n : SameLine(line(i), u)}
    OBVIOUS
  <2>8. PICK f \in T : \A i \in T : f <= i
    <3>1. T \subseteq Nat /\ T # {}
      BY <2>6, <2>7
    <3>2. QED BY <3>1, LeastNumber
  <2>9. f \in 1..n /\ SameLine(line(f), u) /\ line(f).line # 0 /\ room(f)
    BY <1>8, <2>3, <2>7, <2>8
  <2>10. CASE \E j \in DOMAIN before : SameLine(before[j], line(f))
    <3>1. PICK j \in 1..m : SameLine(before[j], line(f))
      BY <1>22, <2>10
    <3>2. SameLine(before[j], u)
      BY <2>9, <3>1 DEF SameLine
    <3>3. all[j] = before[j] /\ j \in DOMAIN all /\ j <= m
      BY <1>22, <3>1
    <3>4. QED BY <3>2, <3>3
  <2>11. CASE ~\E j \in DOMAIN before : SameLine(before[j], line(f))
    <3>1. ASSUME NEW j \in 1..(f - 1), SameLine(line(j), line(f)) PROVE FALSE
      <4>1. j \in 1..n /\ j < f
        BY <2>9
      <4>2. SameLine(line(j), u)
        BY <2>9, <3>1 DEF SameLine
      <4>3. QED BY <2>7, <2>8, <4>1, <4>2
    <3>2. new(f)
      BY <1>14, <2>9, <2>11, <3>1
    <3>3. f \in news
      BY <1>9, <2>9, <3>2
    <3>4. PICK j \in DOMAIN all : all[j] = marked[f]
      BY <1>23, <2>9, <3>3
    <3>5. all[j].name = x /\ SameLine(all[j], u)
      BY <1>13, <2>9, <3>4 DEF SameLine
    <3>6. QED BY <3>4, <3>5
  <2>12. QED BY <2>10, <2>11
<1>25. ASSUME NEW i \in DOMAIN all, all[i].all, NEW u \in Uses(all[i].name)
       PROVE  \E j \in DOMAIN all : SameLine(all[j], u) /\ (all[j].name = all[i].name \/ j < i)
  <2>1. CASE i \in 1..m
    <3>1. i \in DOMAIN before /\ all[i] = before[i]
      BY <1>22, <2>1
    <3>2. PICK j \in DOMAIN before : SameLine(before[j], u) /\ (before[j].name = before[i].name \/ j < i)
      BY <1>25, <3>1 DEF UsageSound
    <3>3. j \in DOMAIN all /\ all[j] = before[j]
      BY <1>22, <3>2
    <3>4. QED BY <3>1, <3>2, <3>3
  <2>2. CASE i \notin 1..m
    <3>1. i > m /\ i \in 1..(m + k)
      BY <1>22, <2>2
    <3>2. PICK h \in 1..k : i = m + h
      <4>1. i - m \in 1..k /\ i = m + (i - m)
        BY <3>1
      <4>2. QED BY <4>1
    <3>3. all[i] \in ToSet(more)
      BY <1>22, <3>2 DEF ToSet
    <3>4. PICK e \in news : all[i] = marked[e]
      BY <1>18, <3>3
    <3>5. all[i].name = x /\ every
      BY <1>13, <1>25, <3>4
    <3>6. PICK j \in DOMAIN all : SameLine(all[j], u) /\ (all[j].name = x \/ j <= m)
      BY <1>24, <1>25, <3>4, <3>5
    <3>7. j <= m => j < i
      BY <1>22, <3>1
    <3>8. QED BY <3>5, <3>6, <3>7
  <2>3. QED BY <2>1, <2>2
<1>26. UsageSound(all)
  BY <1>25 DEF UsageSound
<1>27. QED BY <1>16, <1>20, <1>22, <1>26

LEMMA UsagesAre ==
  ASSUME NEW idents \in Seq(Name), NEW limit
  PROVE  Usages(idents, limit) \in Seq(UsageLine) /\ UsageSound(Usages(idents, limit))
<1>1. PICK xs \in Seq(Name) : xs = First(idents, UsageIdents)
  BY FirstIs, RelatedAssumption
<1>2. PICK n \in Nat : n = Len(xs)
  OBVIOUS
<1>3. \A k \in 1..n : xs[k] \in Name
  BY <1>2
<1>4. PICK V : V = {q \in Seq(UsageLine) : UsageSound(q)}
  OBVIOUS
<1>5. <<>> \in V
  BY <1>4 DEF UsageSound
<1>6. \A v \in V, k \in 1..n : WithUsagesOf(xs[k], v, limit) \in V
  BY <1>3, <1>4, MoreUsages
<1>7. PICK next : next = [pr \in V \X (1..n) |-> WithUsagesOf(xs[pr[2]], pr[1], limit)]
  OBVIOUS
<1>8. /\ next \in [V \X (1..n) -> V]
      /\ \A v \in V, k \in 1..n : next[<<v, k>>] = WithUsagesOf(xs[k], v, limit)
  <2>1. \A pr \in V \X (1..n) : WithUsagesOf(xs[pr[2]], pr[1], limit) \in V
    BY <1>6
  <2>2. QED BY <1>7, <2>1
<1>9. PICK f \in [0..n -> V] : RunOf(f, n, <<>>, next)
  BY <1>5, <1>8, LoopRuns
<1>10. f[0] = <<>> /\ \A k \in 1..n : f[k] = WithUsagesOf(xs[k], f[k - 1], limit)
  <2>1. \A k \in 1..n : k - 1 \in 0..n /\ f[k - 1] \in V
    OBVIOUS
  <2>2. QED BY <1>8, <1>9, <2>1 DEF RunOf
<1>11. f = [k \in 0..n |-> IF k = 0 THEN <<>> ELSE WithUsagesOf(xs[k], f[k - 1], limit)]
  <2>1. ASSUME NEW k \in 0..n
        PROVE  f[k] = IF k = 0 THEN <<>> ELSE WithUsagesOf(xs[k], f[k - 1], limit)
    <3>1. k = 0 \/ (k \in 1..n /\ k # 0)
      OBVIOUS
    <3>2. QED BY <1>10, <3>1
  <2>2. f = [k \in 0..n |-> f[k]]
    OBVIOUS
  <2>3. QED BY <2>1, <2>2, Zenon
<1>12. PICK g : g = CHOOSE h : h = [k \in 0..n |->
                      IF k = 0 THEN <<>> ELSE WithUsagesOf(xs[k], h[k - 1], limit)]
  OBVIOUS
<1>13. g = [k \in 0..n |-> IF k = 0 THEN <<>> ELSE WithUsagesOf(xs[k], g[k - 1], limit)]
  BY <1>11, <1>12
<1>14. g[0] = <<>> /\ \A k \in 1..n : g[k] = WithUsagesOf(xs[k], g[k - 1], limit)
  <2>1. 0 \in 0..n /\ \A k \in 1..n : k \in 0..n /\ k # 0
    OBVIOUS
  <2>2. \A k \in 0..n : g[k] = IF k = 0 THEN <<>> ELSE WithUsagesOf(xs[k], g[k - 1], limit)
    BY <1>13, Zenon
  <2>3. QED BY <2>1, <2>2
<1>15. g[n] \in V
  <2> DEFINE P == {j \in 0..n : g[j] \in V}
  <2>1. 0 \in P
    BY <1>5, <1>14
  <2>2. ASSUME NEW k \in 0..(n - 1), k \in P PROVE k + 1 \in P
    <3>1. k + 1 \in 1..n /\ k + 1 - 1 = k /\ k + 1 \in 0..n
      OBVIOUS
    <3>2. g[k + 1] = WithUsagesOf(xs[k + 1], g[k], limit)
      BY <1>14, <3>1
    <3>3. g[k + 1] \in V
      BY <1>6, <2>2, <3>1, <3>2
    <3>4. QED BY <3>1, <3>3
  <2>3. n \in P
    <3> HIDE DEF P
    <3>1. \A k \in 0..n : k \in P
      BY <2>1, <2>2, LoopInduction
    <3>2. QED BY <3>1
  <2>4. QED BY <2>3
<1>16. Usages(idents, limit) = g[n]
  BY <1>1, <1>2, <1>12 DEF Usages
<1>17. QED BY <1>4, <1>15, <1>16

-----------------------------------------------------------------------------
\* What is listed for the names of a prompt.
ListsOk == lists.related \in Seq(Near) /\ lists.usages \in Seq(UsageLine) /\ UsageSound(lists.usages)

LEMMA IdentsAre ==
  ASSUME RankedInv, NEW names \in Named
  PROVE  Seeds \in Seq(Chunk) /\ Idents(names) \in Seq(Name)
<1>1. Ids \in Seq(Chunk)
  BY DEF RankedInv
<1>2. Seeds = First(Ids, 3)
  BY DEF Seeds, Ids
<1>3. Seeds \in Seq(Chunk)
  BY <1>1, <1>2, FirstIs
<1>4. PICK seeds \in Seq(Chunk) : seeds = Seeds
  BY <1>3
<1>5. PICK defines : defines = [c \in Chunk |-> Info[c].defines]
  OBVIOUS
<1>6. \A c \in Chunk : defines[c] \in Seq(Name)
  BY <1>5, CorpusAssumption
<1>7. PICK q : q = Flat([i \in DOMAIN seeds |-> defines[seeds[i]]])
  OBVIOUS
<1>8. q \in Seq(Name)
  BY <1>6, <1>7, Collected
<1>9. q = FlatMap(Seeds, LAMBDA c : Info[c].defines)
  <2>1. \A i \in DOMAIN seeds : seeds[i] \in Chunk
    OBVIOUS
  <2>2. [i \in DOMAIN seeds |-> defines[seeds[i]]] = [i \in DOMAIN seeds |-> Info[seeds[i]].defines]
    BY <1>5, <2>1
  <2>3. FlatMap(seeds, LAMBDA c : Info[c].defines) = Flat([i \in DOMAIN seeds |-> Info[seeds[i]].defines])
    BY DEF FlatMap, Each
  <2>4. QED BY <1>4, <1>7, <2>2, <2>3
<1>10. PICK all : all = names \o q
  OBVIOUS
<1>11. names \in Seq(Name)
  BY RetrievalAssumption
<1>12. all \in Seq(Name)
  BY <1>8, <1>10, <1>11, JoinTwo
<1>13. PICK T \in SUBSET (DOMAIN all) : T = {i \in DOMAIN all : \A j \in 1..(i - 1) : all[j] # all[i]}
  OBVIOUS
<1>14. At(all, T) \in Seq(Name)
  BY <1>12, AtPart
<1>15. Idents(names) = At(all, T)
  BY <1>9, <1>10, <1>13 DEF Idents
<1>16. QED BY <1>3, <1>14, <1>15

LEMMA ListMakesLists ==
  ASSUME RankedInv, List
  PROVE  ListsOk'
<1>1. PICK intent \in Intents, names \in Named, fails \in SUBSET {"near", "uses", "tests"} :
         LET idents == Idents(names)
             none(list) == list \in fails \/ scored = <<>> \/ (MaxRelated = 0 /\ list # "near")
             near == IF none("near") THEN <<>> ELSE Neighbours(Seeds, ToSet(spans), MaxRelated)
             tests == IF none("tests") \/ ~intent.tests THEN <<>> ELSE Tests(idents, TestRefs)
             limit == IF intent.callers THEN CallersLimit ELSE PromptLimit IN
         lists' = [related |-> tests \o near, intent |-> intent,
                   usages |-> IF none("uses") THEN <<>> ELSE Usages(idents, limit)]
  BY DEF List
<1>2. PICK idents \in Seq(Name) : idents = Idents(names)
  BY <1>1, IdentsAre
<1>3. PICK limit : limit = IF intent.callers THEN CallersLimit ELSE PromptLimit
  OBVIOUS
<1>4. Neighbours(Seeds, ToSet(spans), MaxRelated) \in Seq(Near)
  BY <1>1, IdentsAre, NeighboursAre
<1>5. Tests(idents, TestRefs) \in Seq(Near)
  BY <1>2, TestsAre
<1>6. Usages(idents, limit) \in Seq(UsageLine) /\ UsageSound(Usages(idents, limit))
  BY UsagesAre
<1>7. PICK near \in {<<>>, Neighbours(Seeds, ToSet(spans), MaxRelated)},
           tests \in {<<>>, Tests(idents, TestRefs)} :
         lists'.related = tests \o near
  BY <1>1, <1>2
<1>8. lists'.usages \in {<<>>, Usages(idents, limit)}
  BY <1>1, <1>2, <1>3
<1>9. lists'.related \in Seq(Near)
  <2>1. PICK N : N = Seq(Near)
    OBVIOUS
  <2>2. <<>> \in N
    BY <2>1
  <2>3. near \in N /\ tests \in N
    BY <1>4, <1>5, <2>1, <2>2
  <2>4. near \in Seq(Near) /\ tests \in Seq(Near)
    BY <2>1, <2>3
  <2>5. QED BY <1>7, <2>4, JoinTwo
<1>10. <<>> \in Seq(UsageLine) /\ UsageSound(<<>>)
  BY DEF UsageSound
<1>11. lists'.usages \in Seq(UsageLine) /\ UsageSound(lists'.usages)
  BY <1>6, <1>8, <1>10
<1>12. QED BY <1>9, <1>11 DEF ListsOk, UsageSound

-----------------------------------------------------------------------------
(***************************************************************************)
(* Rendering.                                                               *)
(***************************************************************************)
LEMMA FitIs ==
  ASSUME NEW out \in Int, NEW n \in Nat
  PROVE  /\ FitAfter(out, n) \in Nat /\ FitAfter(out, n) <= n
         /\ out < MaxChars \/ FitAfter(out, n) # 0 => out + 1 + FitAfter(out, n) <= MaxChars
<1>1. PICK m : m = MaxChars - out - 1
  OBVIOUS
<1>2. m \in Int /\ MaxChars \in Int
  BY <1>1, SizingAssumption
<1>3. PICK a : a = Min({n, m})
  OBVIOUS
<1>4. a = IF n <= m THEN n ELSE m
  BY <1>2, <1>3, PairExtremes
<1>5. PICK b : b = Max({0, a})
  OBVIOUS
<1>6. b = IF 0 <= a THEN a ELSE 0
  <2>1. a \in Int /\ 0 \in Int
    BY <1>2, <1>4
  <2>2. QED BY <1>5, <2>1, PairExtremes
<1>7. FitAfter(out, n) = b
  BY <1>1, <1>3, <1>5 DEF FitAfter
<1>8. QED BY <1>1, <1>2, <1>4, <1>6, <1>7

\* What is claimed of a name is true, wherever the list is cut.
LEMMA ClaimsHold ==
  ASSUME NEW q \in Seq(UsageLine), UsageSound(q), NEW shown,
         NEW T \in SUBSET (DOMAIN q), T = {i \in DOMAIN q : ~Visible(q[i], shown)},
         NEW r, r = At(q, T), NEW fit \in Nat, fit <= Len(r),
         NEW k \in 1..fit, Claimed(r, fit, r[k]), NEW u \in Uses(r[k].name)
  PROVE  (\E v \in {r[i] : i \in 1..fit} : SameLine(u, v)) \/ Visible(u, shown)
<1>1. /\ IsFiniteSet(T) /\ T \subseteq Int /\ Len(r) = Cardinality(T) /\ Cardinality(T) \in Nat
  BY AtPart
<1>2. PICK n \in Nat : n = Cardinality(T)
  BY <1>1
<1>3. /\ \A i \in T : Place(T, i) \in 1..n /\ r[Place(T, i)] = q[i]
      /\ \A j \in 1..n : Chosen(T, j) \in T /\ Place(T, Chosen(T, j)) = j /\ r[j] = q[Chosen(T, j)]
      /\ \A i, j \in T : i <= j <=> Place(T, i) <= Place(T, j)
  <2>1. /\ \A i \in T : Place(T, i) \in 1..n
        /\ \A j \in 1..n : Chosen(T, j) \in T /\ Place(T, Chosen(T, j)) = j
        /\ \A i, j \in T : i <= j <=> Place(T, i) <= Place(T, j)
    BY <1>1, <1>2, PlacesAre
  <2>2. IsFiniteSet(T) /\ T \subseteq Int
    BY <1>1
  <2>3. \A i \in T : At(q, T)[Place(T, i)] = q[i]
    BY <2>2, AtIs
  <2>4. \A j \in 1..Cardinality(T) : At(q, T)[j] = q[Chosen(T, j)]
    BY <2>2, AtIs
  <2>5. (\A i \in T : r[Place(T, i)] = q[i]) /\ \A j \in 1..n : r[j] = q[Chosen(T, j)]
    BY <1>2, <2>3, <2>4
  <2>6. QED BY <2>1, <2>5
<1>4. k \in 1..n
  BY <1>1, <1>2
<1>5. PICK i \in T : i = Chosen(T, k) /\ r[k] = q[i] /\ Place(T, i) = k
  BY <1>3, <1>4
<1>6. /\ q[i].all
      /\ \A j \in (fit + 1)..n : r[j].name # q[i].name
  BY <1>1, <1>2, <1>5 DEF Claimed
<1>7. PICK j \in DOMAIN q : SameLine(q[j], u) /\ (q[j].name = q[i].name \/ j < i)
  BY <1>5, <1>6 DEF UsageSound
<1>8. CASE Visible(q[j], shown)
  <2>1. Visible(u, shown)
    BY <1>7, <1>8 DEF Visible, SameLine
  <2>2. QED BY <2>1
<1>9. CASE ~Visible(q[j], shown)
  <2>1. j \in T
    BY <1>9
  <2>2. PICK h \in 1..n : h = Place(T, j) /\ r[h] = q[j]
    BY <1>3, <2>1
  <2>3. h <= fit
    <3>1. CASE q[j].name = q[i].name
      <4>1. h \notin (fit + 1)..n
        BY <1>6, <2>2, <3>1
      <4>2. QED BY <4>1
    <3>2. CASE j < i
      <4>1. j <= i
        BY <1>1, <2>1, <3>2
      <4>2. h <= k
        BY <1>3, <1>5, <2>1, <2>2, <4>1
      <4>3. QED BY <4>2
    <3>3. QED BY <1>7, <3>1, <3>2
  <2>4. h \in 1..fit /\ SameLine(u, r[h])
    BY <1>7, <2>2, <2>3 DEF SameLine
  <2>5. QED BY <2>4
<1>10. QED BY <1>8, <1>9

LEMMA SizesAre ==
  ASSUME NEW q \in Seq(Span)
  PROVE  /\ Sizes(q) \in Int
         /\ \A e \in Span : Sizes(Append(q, e)) = Sizes(q) + Block(e)
<1>1. PICK n \in Nat : n = Len(q)
  OBVIOUS
<1>2. DOMAIN q = 1..n /\ \A i \in 1..n : q[i] \in Span
  BY <1>1
<1>3. PICK b : b = [i \in DOMAIN q |-> Block(q[i])]
  OBVIOUS
<1>4. \A e \in Span : Block(e) \in Int
  BY DEF Block, Span
<1>5. b \in Seq(Int) /\ Len(b) = n
  BY <1>2, <1>3, <1>4
<1>6. Sizes(q) = SumOf(b)
  BY <1>3 DEF Sizes
<1>7. ASSUME NEW e \in Span PROVE Sizes(Append(q, e)) = Sizes(q) + Block(e)
  <2>1. PICK r : r = Append(q, e)
    OBVIOUS
  <2>2. /\ DOMAIN r = 1..(n + 1) /\ \A i \in 1..n : r[i] = q[i]
        /\ r[n + 1] = e
    BY <1>1, <2>1, AppendIs
  <2>3. PICK c : c = [i \in DOMAIN r |-> Block(r[i])]
    OBVIOUS
  <2>4. PICK d : d = Append(b, Block(e))
    OBVIOUS
  <2>5. PICK x \in Int : x = Block(e)
    BY <1>4
  <2>6. /\ d \in Seq(Int) /\ Len(d) = n + 1 /\ d[n + 1] = x
        /\ \A i \in 1..n : d[i] = b[i]
    BY <1>5, <2>4, <2>5, AppendIs
  <2>7. /\ DOMAIN d = 1..(n + 1) /\ \A i \in 1..n : d[i] = b[i]
        /\ d[n + 1] = Block(e) /\ d = [i \in 1..(n + 1) |-> d[i]]
    BY <2>5, <2>6
  <2>8. ASSUME NEW i \in 1..(n + 1) PROVE d[i] = Block(r[i])
    <3>1. i \in 1..n \/ i = n + 1
      OBVIOUS
    <3>2. QED BY <1>2, <1>3, <2>2, <2>7, <3>1
  <2>9. c = d
    BY <2>2, <2>3, <2>7, <2>8
  <2>10. SumOf(d) = SumOf(b) + Block(e)
    BY <1>4, <1>5, <2>4, SumsAppend
  <2>11. Sizes(r) = SumOf(c)
    BY <2>3 DEF Sizes
  <2>12. QED BY <1>6, <2>1, <2>9, <2>10, <2>11
<1>8. Sizes(q) \in Int
  BY <1>5, <1>6, Sums
<1>9. QED BY <1>7, <1>8

LEMMA DistinctIs ==
  ASSUME NEW q \in Seq(Span), NEW most \in Nat
  PROVE  /\ DistinctFiles(q, most) \in Seq(Span)
         /\ Len(DistinctFiles(q, most)) \in Nat /\ Len(DistinctFiles(q, most)) <= most
<1>1. PICK n \in Nat : n = Len(q)
  OBVIOUS
<1>2. PICK after : after = [i \in DOMAIN q |->
          {T \in SomeBefore(i) : Cardinality(T) < most /\ ~\E j \in T : q[j].path = q[i].path}]
  OBVIOUS
<1>3. PICK S : S = {T \in SUBSET (1..n) : Cardinality(T) <= most}
  OBVIOUS
<1>4. {} \in S
  BY <1>3, FS_EmptySet
<1>5. ASSUME NEW i \in 1..n, NEW T \in S, T \in SUBSET (1..(i - 1)), T \in after[i]
      PROVE  T \cup {i} \in S
  <2>1. PICK c : c = Cardinality(T)
    OBVIOUS
  <2>2. IsFiniteSet(1..n)
    BY FS_Interval
  <2>3. T \in SUBSET (1..n) /\ IsFiniteSet(T)
    BY <1>3, <2>2, FS_Subset
  <2>4. c \in Nat
    BY <2>1, <2>3, FS_CardinalityType
  <2>5. PICK d : d = Cardinality(T \cup {i})
    OBVIOUS
  <2>6. d = c \/ d = c + 1
    BY <2>1, <2>3, <2>5, FS_AddElement
  <2>7. c < most
    BY <1>1, <1>2, <1>5, <2>1
  <2>8. d <= most
    BY <2>4, <2>6, <2>7
  <2>9. QED BY <1>3, <2>3, <2>5, <2>8
<1>6. PICK T : T = Taken(n, after)
  OBVIOUS
<1>7. T \in S
  BY <1>4, <1>5, <1>6, TakenKeeps
<1>8. DistinctFiles(q, most) = At(q, T)
  BY <1>1, <1>2, <1>6 DEF DistinctFiles
<1>9. T \in SUBSET (DOMAIN q) /\ Cardinality(T) <= most
  BY <1>1, <1>3, <1>7
<1>10. PICK U \in SUBSET (DOMAIN q) : U = T
  BY <1>9
<1>11. At(q, U) \in Seq(Span) /\ Len(At(q, U)) = Cardinality(U) /\ Cardinality(U) \in Nat
  BY AtPart
<1>12. QED BY <1>8, <1>9, <1>10, <1>11

\* The blocks of code that are inlined leave the room kept.
LEMMA InlinedIs ==
  ASSUME NEW q \in Seq(Span), NEW out \in Nat, NEW ctx, ctx.full = q
  PROVE  /\ Inlined(ctx, out) \in Seq(Span)
         /\ Inlined(ctx, out) = <<>>
            \/ out + Sizes(Inlined(ctx, out)) + Trust + Footer + Spare <= MaxChars
<1>1. PICK n \in Nat : n = Len(q)
  OBVIOUS
<1>2. DOMAIN q = 1..n /\ \A i \in 1..n : q[i] \in Span
  BY <1>1
<1>3. PICK after : after = [i \in DOMAIN q |->
       {T \in SomeBefore(i) : BlockFits(out, Sizes(At(q, T)), Block(q[i]))}]
  OBVIOUS
<1>4. PICK S : S = {T \in SUBSET (1..n) :
                      T = {} \/ out + Sizes(At(q, T)) + Trust + Footer + Spare <= MaxChars}
  OBVIOUS
<1>5. {} \in S
  BY <1>4
<1>6. ASSUME NEW i \in 1..n, NEW T \in S, T \in SUBSET (1..(i - 1)), T \in after[i]
      PROVE  T \cup {i} \in S
  <2>1. BlockFits(out, Sizes(At(q, T)), Block(q[i]))
    BY <1>2, <1>3, <1>6
  <2>2. IsFiniteSet(1..n)
    BY FS_Interval
  <2>3. T \in SUBSET (1..n) /\ IsFiniteSet(T)
    BY <1>4, <2>2, FS_Subset
  <2>4. T \subseteq Int /\ i \in Int /\ \A j \in T : j < i
    BY <1>6
  <2>5. \A j \in T \cup {i} : q[j] \in Span
    BY <1>2, <2>3
  <2>6. At(q, T) \in Seq(Span) /\ At(q, T \cup {i}) = Append(At(q, T), q[i])
    <3>1. At(q, T) \in Seq(Span)
      BY <2>3, <2>4, <2>5, AtWithin
    <3>2. At(q, T \cup {i}) = Append(At(q, T), q[i])
      BY <2>3, <2>4, AtOneMore
    <3>3. QED BY <3>1, <3>2
  <2>7. PICK s \in Seq(Span) : s = At(q, T)
    BY <2>6
  <2>8. PICK e \in Span : e = q[i]
    BY <1>2
  <2>9. Sizes(s) \in Int /\ Sizes(Append(s, e)) = Sizes(s) + Block(e)
    BY SizesAre
  <2>10. PICK a \in Int : a = Sizes(s)
    BY <2>9
  <2>11. PICK b \in Int : b = Block(e)
    BY DEF Block, Span
  <2>12. out + b + a + Trust + Footer + Spare <= MaxChars
    BY <2>1, <2>7, <2>8, <2>10, <2>11 DEF BlockFits
  <2>13. Sizes(At(q, T \cup {i})) = a + b
    BY <2>6, <2>7, <2>8, <2>9, <2>10, <2>11
  <2>14. PICK m : m = Sizes(At(q, T \cup {i}))
    OBVIOUS
  <2>15. out + m + Trust + Footer + Spare <= MaxChars
    BY <2>12, <2>13, <2>14, SizingAssumption
  <2>16. T \cup {i} \in SUBSET (1..n)
    BY <2>3
  <2>17. QED BY <1>4, <2>14, <2>15, <2>16
<1>7. PICK T : T = Taken(n, after)
  OBVIOUS
<1>8. T \in S
  BY <1>5, <1>6, <1>7, TakenKeeps
<1>9. Inlined(ctx, out) = At(q, T)
  BY <1>1, <1>3, <1>7 DEF Inlined
<1>10. PICK U \in SUBSET (DOMAIN q) : U = T
  BY <1>2, <1>4, <1>8
<1>11. At(q, U) \in Seq(Span) /\ Len(At(q, U)) = Cardinality(U)
  BY AtPart
<1>12. U = {} => At(q, U) = <<>>
  <2>1. U = {} => Len(At(q, U)) = 0
    BY <1>11, FS_EmptySet
  <2>2. QED BY <1>11, <2>1
<1>13. QED BY <1>4, <1>8, <1>9, <1>10, <1>11, <1>12

-----------------------------------------------------------------------------
(***************************************************************************)
(* What is rendered.                                                        *)
(***************************************************************************)
Ctx == [full : Seq(Span), map : Seq(Span), already : Seq(Span),
        usages : Seq(UsageLine), related : Seq(Near)]
CapsOf == [map : Nat, full : Nat, related : Nat]

LEMMA SizedIs ==
  ASSUME NEW q \in Seq(Span), NEW near \in Seq(Near), NEW uses \in Seq(UsageLine),
         NEW caps \in CapsOf, NEW prose, NEW keys,
         NEW ctx, ctx = Sized(q, near, uses, caps, prose, keys)
  PROVE  /\ ctx \in Ctx /\ ctx.usages = uses
         /\ Len(ctx.full) <= caps.full
         /\ Len(ctx.map) <= Max({caps.map - Len(ctx.full), 0})
<1> DEFINE fresh == At(q, {i \in DOMAIN q : ~SentBefore(q[i], keys)})
           coded == At(fresh, {i \in DOMAIN fresh : prose \/ fresh[i].path \notin Prose})
           full == DistinctFiles(coded, caps.full)
           listed == At(fresh, {i \in DOMAIN fresh : fresh[i] \notin ToSet(full)})
           room == Max({caps.map - Len(full), 0})
           map == First(listed, room)
           already == At(q, {i \in DOMAIN q : SentBefore(q[i], keys)})
           shown == ToSet(full) \cup ToSet(map) \cup ToSet(already)
           others == At(near, {i \in DOMAIN near : ~\E s \in shown : Meet(near[i], s)})
           after == [i \in DOMAIN others |->
                       {T \in SomeBefore(i) : ~\E j \in T : SpanKey(others[j]) = SpanKey(others[i])}]
           some == At(others, Taken(Len(others), after))
           related == First(some, caps.related)
<1>1. ctx = [full |-> full, map |-> map, already |-> already, usages |-> uses,
             related |-> related]
  BY DEF Sized
<1>2. caps.full \in Nat /\ caps.map \in Nat /\ caps.related \in Nat
  BY DEF CapsOf
<1>3. fresh \in Seq(Span)
  <2>1. PICK T \in SUBSET (DOMAIN q) : T = {i \in DOMAIN q : ~SentBefore(q[i], keys)}
    OBVIOUS
  <2>2. At(q, T) \in Seq(Span)
    BY AtPart
  <2>3. QED BY <2>1, <2>2
<1>4. already \in Seq(Span)
  <2>1. PICK T \in SUBSET (DOMAIN q) : T = {i \in DOMAIN q : SentBefore(q[i], keys)}
    OBVIOUS
  <2>2. At(q, T) \in Seq(Span)
    BY AtPart
  <2>3. QED BY <2>1, <2>2
<1> HIDE DEF fresh, already
<1>5. coded \in Seq(Span)
  <2>1. PICK T \in SUBSET (DOMAIN fresh) :
          T = {i \in DOMAIN fresh : prose \/ fresh[i].path \notin Prose}
    OBVIOUS
  <2>2. At(fresh, T) \in Seq(Span)
    BY <1>3, AtPart
  <2>3. QED BY <2>1, <2>2
<1> HIDE DEF coded
<1>6. full \in Seq(Span) /\ Len(full) \in Nat /\ Len(full) <= caps.full
  BY <1>2, <1>5, DistinctIs
<1> HIDE DEF full
<1>7. listed \in Seq(Span)
  <2>1. PICK T \in SUBSET (DOMAIN fresh) : T = {i \in DOMAIN fresh : fresh[i] \notin ToSet(full)}
    OBVIOUS
  <2>2. At(fresh, T) \in Seq(Span)
    BY <1>3, AtPart
  <2>3. QED BY <2>1, <2>2
<1>8. room \in Nat
  <2>1. PICK a \in Int : a = caps.map - Len(full)
    BY <1>2, <1>6
  <2>2. room = Max({a, 0})
    BY <2>1
  <2>3. PICK z \in Int : z = 0
    OBVIOUS
  <2>4. Max({a, z}) = IF a <= z THEN z ELSE a
    BY PairExtremes
  <2>5. QED BY <2>2, <2>3, <2>4
<1>9. room = Max({caps.map - Len(full), 0})
  OBVIOUS
<1> HIDE DEF listed, room
<1>10. map \in Seq(Span) /\ Len(map) <= room
  BY <1>7, <1>8, FirstIs
<1> HIDE DEF map, shown
<1>11. others \in Seq(Near)
  <2>1. PICK T \in SUBSET (DOMAIN near) :
          T = {i \in DOMAIN near : ~\E s \in shown : Meet(near[i], s)}
    OBVIOUS
  <2>2. At(near, T) \in Seq(Near)
    BY AtPart
  <2>3. QED BY <2>1, <2>2
<1> HIDE DEF others, after
<1>12. some \in Seq(Near)
  BY <1>11, TakenWithin
<1> HIDE DEF some
<1>13. related \in Seq(Near)
  BY <1>2, <1>12, FirstIs
<1> HIDE DEF related
<1>14. ctx \in Ctx
  BY <1>1, <1>4, <1>6, <1>10, <1>13 DEF Ctx
<1>15. ctx.usages = uses /\ ctx.full = full /\ ctx.map = map
  BY <1>1
<1>16. QED BY <1>6, <1>9, <1>10, <1>14, <1>15, Zenon

\* A span of a changed file goes from the blocks to the locations.
LEMMA OnlyCurrentIs ==
  ASSUME NEW ctx \in Ctx, NEW stale, NEW now, now = OnlyCurrent(ctx, stale)
  PROVE  /\ now \in Ctx /\ now.usages = ctx.usages
         /\ Len(now.full) + Len(now.map) = Len(ctx.full) + Len(ctx.map)
<1>1. PICK q \in Seq(Span) : q = ctx.full
  BY DEF Ctx
<1>2. PICK r \in Seq(Span) : r = ctx.map
  BY DEF Ctx
<1>3. PICK A \in SUBSET (DOMAIN q) : A = {i \in DOMAIN q : q[i].path \notin stale}
  OBVIOUS
<1>4. PICK B \in SUBSET (DOMAIN q) : B = {i \in DOMAIN q : q[i].path \in stale}
  OBVIOUS
<1>5. /\ At(q, A) \in Seq(Span) /\ Len(At(q, A)) = Cardinality(A) /\ Cardinality(A) \in Nat
      /\ IsFiniteSet(A)
  BY AtPart
<1>6. /\ At(q, B) \in Seq(Span) /\ Len(At(q, B)) = Cardinality(B) /\ Cardinality(B) \in Nat
      /\ IsFiniteSet(B)
  BY AtPart
<1>7. PICK full \in Seq(Span) : full = At(q, A)
  BY <1>5
<1>8. PICK moved \in Seq(Span) : moved = At(q, B)
  BY <1>6
<1>9. PICK map \in Seq(Span) : map = moved \o r
  BY JoinTwo
<1>10. Len(map) = Len(moved) + Len(r)
  BY <1>9
<1>11. Len(full) + Len(moved) = Len(q)
  <2>1. PICK n \in Nat : n = Len(q)
    OBVIOUS
  <2>2. A \cap B = {} /\ A \cup B = 1..n
    BY <1>3, <1>4, <2>1
  <2>3. Cardinality(A \cup B) = Cardinality(A) + Cardinality(B)
    <3>1. Cardinality(A \cup B) = Cardinality(A) + Cardinality(B) - Cardinality(A \cap B)
      BY <1>5, <1>6, FS_Union
    <3>2. Cardinality(A \cap B) = 0
      BY <2>2, FS_EmptySet
    <3>3. QED BY <1>5, <1>6, <3>1, <3>2
  <2>4. Cardinality(1..n) = n
    <3>1. Cardinality(1..n) = IF 1 > n THEN 0 ELSE n - 1 + 1
      BY FS_Interval
    <3>2. n \in Nat
      OBVIOUS
    <3>3. QED BY <3>1, <3>2
  <2>5. QED BY <1>5, <1>6, <1>7, <1>8, <2>1, <2>2, <2>3, <2>4
<1>12. now = [ctx EXCEPT !.full = full, !.map = map]
  BY <1>1, <1>2, <1>3, <1>4, <1>7, <1>8, <1>9 DEF OnlyCurrent, Ctx
<1>13. now \in Ctx /\ now.usages = ctx.usages /\ now.full = full /\ now.map = map
  BY <1>7, <1>9, <1>12 DEF Ctx
<1>14. Len(now.full) = Len(full) /\ Len(now.map) = Len(moved) + Len(r)
  BY <1>10, <1>13
<1>15. /\ Len(full) \in Nat /\ Len(moved) \in Nat /\ Len(r) \in Nat
       /\ Len(ctx.full) = Len(q) /\ Len(ctx.map) = Len(r)
  BY <1>1, <1>2
<1>16. PICK a \in Nat, b \in Nat, c \in Nat : a = Len(full) /\ b = Len(moved) /\ c = Len(r)
  BY <1>15
<1>17. a + (b + c) = (a + b) + c
  OBVIOUS
<1>18. Len(now.full) + Len(now.map) = a + (b + c)
  BY <1>14, <1>16
<1>19. Len(ctx.full) + Len(ctx.map) = (a + b) + c
  BY <1>11, <1>15, <1>16
<1>20. QED BY <1>13, <1>17, <1>18, <1>19

\* The cap leaves room for the locations of each of the caps.
LEMMA CapsLeaveRoom ==
  ASSUME NEW intent, NEW caps, caps = Caps(intent)
  PROVE  /\ caps \in CapsOf
         /\ \A f, m \in Nat : f <= caps.full /\ m <= Max({caps.map - f, 0})
              => Header + f + m + Footer < MaxChars
<1>1. /\ DefaultCaps \in CapsOf /\ FollowUpCaps \in CapsOf
      /\ \A base \in {DefaultCaps, FollowUpCaps} :
           Header + base.map + Footer < MaxChars /\ Header + base.full + Footer < MaxChars
  BY RetrievalAssumption DEF CapsOf
<1>2. Header \in Nat /\ Footer \in Nat /\ MaxChars \in Nat
  BY SizingAssumption
<1>3. PICK base \in {DefaultCaps, FollowUpCaps} :
        caps.map = base.map /\ caps.full \in {0, base.full} /\ caps \in CapsOf
  <2>1. CASE ~intent.followUp
    BY <1>1, <2>1 DEF Caps, CapsOf
  <2>2. CASE intent.followUp
    <3>1. caps = [FollowUpCaps EXCEPT !.full = IF intent.callers \/ intent.tests THEN 0 ELSE @]
      BY <2>2 DEF Caps
    <3>2. QED BY <1>1, <3>1 DEF CapsOf
  <2>3. QED BY <2>1, <2>2
<1>4. PICK most \in Nat, wide \in Nat : most = base.map /\ wide = base.full
  BY <1>1 DEF CapsOf
<1>5. Header + most + Footer < MaxChars /\ Header + wide + Footer < MaxChars
  BY <1>1, <1>4
<1>6. ASSUME NEW f \in Nat, NEW m \in Nat, f <= caps.full, m <= Max({caps.map - f, 0})
      PROVE  Header + f + m + Footer < MaxChars
  <2>1. f <= wide
    BY <1>3, <1>4, <1>6
  <2>2. PICK a \in Int, z \in Int : a = most - f /\ z = 0
    OBVIOUS
  <2>3. m <= Max({a, z})
    BY <1>3, <1>4, <1>6, <2>2
  <2>4. Max({a, z}) = IF a <= z THEN z ELSE a
    BY PairExtremes
  <2>5. f + m <= most \/ m = 0
    BY <2>2, <2>3, <2>4
  <2>6. QED BY <1>2, <1>5, <2>1, <2>5
<1>7. QED BY <1>3, <1>6

\* What is rendered is within the cap, and claims only what holds.
LEMMA RenderedIs ==
  ASSUME NEW ctx \in Ctx, UsageSound(ctx.usages),
         Header + Len(ctx.full) + Len(ctx.map) + Footer < MaxChars
  PROVE  /\ Rendered(ctx).size <= MaxChars
         /\ \A x \in Rendered(ctx).claims : \A u \in Uses(x) :
              \/ \E v \in Rendered(ctx).usages : SameLine(u, v)
              \/ Visible(u, Rendered(ctx).provided)
<1> DEFINE out == Header + Len(ctx.full) + Len(ctx.map)
           inlined == Inlined(ctx, out)
           code == Sizes(inlined)
           body == out + (IF inlined = <<>> THEN 0 ELSE code + Trust) + Footer
           already == First(ctx.already, FitAfter(body, Len(ctx.already)))
           head == body + (IF ctx.already = <<>> THEN 0 ELSE 1 + Len(already))
           provided == ToSet(inlined) \cup ToSet(ctx.already)
           usages == At(ctx.usages, {i \in DOMAIN ctx.usages : ~Visible(ctx.usages[i], provided)})
           fit == FitAfter(head, Len(usages))
           whole == head + (IF fit = 0 THEN 0 ELSE 1 + fit)
           m == FitAfter(whole, Len(ctx.related))
<1>1. /\ Rendered(ctx).size = whole + (IF m = 0 THEN 0 ELSE 1 + m)
      /\ Rendered(ctx).provided = provided
      /\ Rendered(ctx).usages = {usages[i] : i \in 1..fit}
      /\ Rendered(ctx).claims =
           {usages[i].name : i \in {j \in 1..fit : Claimed(usages, fit, usages[j])}}
  BY DEF Rendered
<1>2. /\ ctx.full \in Seq(Span) /\ ctx.map \in Seq(Span) /\ ctx.already \in Seq(Span)
      /\ ctx.usages \in Seq(UsageLine) /\ ctx.related \in Seq(Near)
  BY DEF Ctx
<1>3. /\ Header \in Nat /\ Footer \in Nat /\ MaxChars \in Nat /\ Trust \in Nat
      /\ Spare \in Nat /\ Spare >= 1
  BY SizingAssumption
<1>4. out \in Nat /\ out + Footer < MaxChars
  <2>1. PICK a \in Nat, b \in Nat : a = Len(ctx.full) /\ b = Len(ctx.map)
    BY <1>2
  <2>2. Header + a + b + Footer < MaxChars
    BY <2>1
  <2>3. out = Header + a + b
    BY <2>1
  <2> HIDE DEF out
  <2>4. QED BY <1>3, <2>2, <2>3
<1> HIDE DEF out
<1>5. /\ inlined \in Seq(Span)
      /\ inlined = <<>> \/ out + code + Trust + Footer + Spare <= MaxChars
  BY <1>2, <1>4, InlinedIs
<1> HIDE DEF inlined
<1>6. code \in Int
  BY <1>5, SizesAre
<1> HIDE DEF code
<1>7. body \in Int /\ body < MaxChars
  BY <1>3, <1>4, <1>5, <1>6
<1> HIDE DEF body
<1>8. head \in Int /\ head <= MaxChars
  <2>1. PICK n \in Nat : n = Len(ctx.already)
    BY <1>2
  <2>2. PICK k : k = FitAfter(body, n)
    OBVIOUS
  <2>3. k \in Nat /\ body + 1 + k <= MaxChars
    BY <1>7, <2>2, FitIs
  <2>4. already = First(ctx.already, k)
    BY <2>1, <2>2
  <2> HIDE DEF already
  <2>5. Len(already) \in Nat /\ Len(already) <= k
    BY <1>2, <2>3, <2>4, FirstIs
  <2>6. PICK l \in Nat : l = Len(already)
    BY <2>5
  <2>7. head = body + (IF ctx.already = <<>> THEN 0 ELSE 1 + l)
    BY <2>6
  <2>8. l <= k
    BY <2>5, <2>6
  <2> HIDE DEF head
  <2>9. QED BY <1>3, <1>7, <2>3, <2>7, <2>8
<1> HIDE DEF already, head, provided
<1>9. PICK T \in SUBSET (DOMAIN ctx.usages) :
        T = {i \in DOMAIN ctx.usages : ~Visible(ctx.usages[i], provided)}
  OBVIOUS
<1>10. usages = At(ctx.usages, T)
  BY <1>9
<1>11. usages \in Seq(UsageLine) /\ Len(usages) \in Nat
  BY <1>2, <1>10, AtPart
<1> HIDE DEF usages
<1>12. /\ fit \in Nat /\ fit <= Len(usages)
       /\ fit # 0 => head + 1 + fit <= MaxChars
  BY <1>8, <1>11, FitIs
<1> HIDE DEF fit
<1>13. whole \in Int /\ whole <= MaxChars
  BY <1>3, <1>8, <1>12
<1> HIDE DEF whole
<1>14. m \in Nat /\ (m # 0 => whole + 1 + m <= MaxChars)
  <2>1. PICK n \in Nat : n = Len(ctx.related)
    BY <1>2
  <2>2. m = FitAfter(whole, n)
    BY <2>1
  <2> HIDE DEF m
  <2>3. QED BY <1>13, <2>2, FitIs
<1> HIDE DEF m
<1>15. Rendered(ctx).size <= MaxChars
  BY <1>1, <1>3, <1>13, <1>14
<1>16. ASSUME NEW x \in Rendered(ctx).claims, NEW u \in Uses(x)
       PROVE  \/ \E v \in Rendered(ctx).usages : SameLine(u, v)
              \/ Visible(u, Rendered(ctx).provided)
  <2>1. PICK k \in 1..fit : Claimed(usages, fit, usages[k]) /\ x = usages[k].name
    BY <1>1, <1>16
  <2>2. u \in Uses(usages[k].name)
    BY <1>16, <2>1
  <2>3. PICK q \in Seq(UsageLine) : q = ctx.usages
    BY <1>2
  <2>4. UsageSound(q) /\ T \in SUBSET (DOMAIN q)
        /\ T = {i \in DOMAIN q : ~Visible(q[i], provided)} /\ usages = At(q, T)
    BY <1>9, <1>10, <2>3
  <2>5. (\E v \in {usages[i] : i \in 1..fit} : SameLine(u, v)) \/ Visible(u, provided)
    BY <1>12, <2>1, <2>2, <2>4, ClaimsHold
  <2>6. QED BY <1>1, <2>5
<1>17. QED BY <1>15, <1>16, Zenon

-----------------------------------------------------------------------------
(***************************************************************************)
(* The invariant.                                                           *)
(***************************************************************************)
ReplyOk == UsesClaimTrue /\ WithinCap
RetrievalInv == RankedInv /\ spans \in Seq(Span) /\ ListsOk /\ ReplyOk

LEMMA NothingIsOk ==
  /\ <<>> \in Seq(Scored) /\ <<>> \in Seq(Chunk) /\ <<>> \in Seq(Span)
  /\ IsInjective(<<>>)
  /\ NoLists.related \in Seq(Near) /\ NoLists.usages \in Seq(UsageLine)
  /\ UsageSound(NoLists.usages)
  /\ NothingRendered.claims = {} /\ NothingRendered.size <= MaxChars
BY SizingAssumption DEF IsInjective, NoLists, UsageSound, NothingRendered

\* Until the next prompt is ranked, nothing is said of the ranking.
LEMMA RankingStays ==
  ASSUME RankedInv, stage' \notin {"pooled", "ranked"}, pool' = pool, scored' = scored
  PROVE  RankedInv'
BY DEF RankedInv, RespectsBoth, Ids

LEMMA RankingEnds ==
  ASSUME stage' \notin {"pooled", "ranked"}, pool' = <<>>, scored' = <<>>
  PROVE  RankedInv'
<1>1. PICK e : e = <<>>
  OBVIOUS
<1>2. pool' = e /\ scored' = e
  BY <1>1
<1>3. e \in Seq(Scored) /\ e \in Seq(Chunk) /\ IsInjective(e)
  BY <1>1, NothingIsOk
<1>4. Ids' = e
  BY <1>1, <1>2 DEF Ids
<1>5. QED BY <1>2, <1>3, <1>4 DEF RankedInv, RespectsBoth

LEMMA RetrievalInitOk == Init => RetrievalInv
<1> SUFFICES ASSUME Init PROVE RetrievalInv
  OBVIOUS
<1>1. RankedInv
  <2>1. pool = <<>> /\ scored = <<>> /\ Ids = <<>> /\ stage = "idle"
    BY DEF Init, Ids
  <2>2. QED BY <2>1, NothingIsOk DEF RankedInv, RespectsBoth
<1>2. spans \in Seq(Span) /\ ListsOk
  BY NothingIsOk DEF Init, ListsOk
<1>3. ReplyOk
  BY NothingIsOk DEF Init, ReplyOk, UsesClaimTrue, WithinCap
<1>4. QED BY <1>1, <1>2, <1>3 DEF RetrievalInv

\* What leaves the lists or the reply alone keeps what holds of them.
LEMMA ListsStay ==
  ASSUME ListsOk, lists' = lists
  PROVE  ListsOk'
BY DEF ListsOk, UsageSound

LEMMA ReplyStays ==
  ASSUME ReplyOk, reply' = reply
  PROVE  ReplyOk'
BY DEF ReplyOk, UsesClaimTrue, WithinCap, Uses, Visible, SameLine

LEMMA NoReply ==
  ASSUME reply' = NothingRendered
  PROVE  ReplyOk'
<1>1. reply'.claims = {} /\ reply'.size <= MaxChars
  BY NothingIsOk
<1>2. QED BY <1>1 DEF ReplyOk, UsesClaimTrue, WithinCap

LEMMA AskKeeps ==
  ASSUME RetrievalInv, Ask
  PROVE  RetrievalInv'
<1>1. PICK found \in Answers, gone \in Gone :
        /\ answer' = [lists |-> found, gone |-> gone]
        /\ pool' = Pool(found, gone, docs')
  BY DEF Ask
<1>2. stage' = "pooled" /\ scored' = scored /\ spans' = spans /\ lists' = lists /\ reply' = reply
  BY DEF Ask
<1>3. PICK asked : asked = docs'
  OBVIOUS
<1>4. Pool(found, gone, asked) \in Seq(Chunk) /\ IsInjective(Pool(found, gone, asked))
  BY PoolIs
<1>5. PICK q : q = Pool(found, gone, asked)
  OBVIOUS
<1>6. pool' = q /\ q \in Seq(Chunk) /\ IsInjective(q)
  BY <1>1, <1>3, <1>4, <1>5
<1>7. answer'.lists \in Answers
  BY <1>1
<1>8. RankedInv'
  BY <1>2, <1>6, <1>7 DEF RetrievalInv, RankedInv, RespectsBoth, Ids
<1>9. QED BY <1>2, <1>8, ListsStay, ReplyStays DEF RetrievalInv

LEMMA RenderKeeps ==
  ASSUME RetrievalInv, Render
  PROVE  RetrievalInv'
<1>1. PICK stale \in Stale :
       LET ctx == OnlyCurrent(Sized(spans, lists.related, lists.usages,
                                    Caps(lists.intent), docs, sent), stale) IN
       reply' = IF ctx.full \o ctx.map = <<>> /\ ctx.related = <<>> /\ ctx.usages = <<>>
                  THEN NothingRendered ELSE Rendered(ctx)
  BY DEF Render
<1>2. PICK caps : caps = Caps(lists.intent)
  OBVIOUS
<1>3. /\ caps \in CapsOf
      /\ \A f, m \in Nat : f <= caps.full /\ m <= Max({caps.map - f, 0})
           => Header + f + m + Footer < MaxChars
  BY <1>2, CapsLeaveRoom
<1>4. PICK first : first = Sized(spans, lists.related, lists.usages, caps, docs, sent)
  OBVIOUS
<1>5. /\ first \in Ctx /\ first.usages = lists.usages
      /\ Len(first.full) <= caps.full
      /\ Len(first.map) <= Max({caps.map - Len(first.full), 0})
  <2>1. PICK q \in Seq(Span), near \in Seq(Near), uses \in Seq(UsageLine) :
          q = spans /\ near = lists.related /\ uses = lists.usages
    BY DEF RetrievalInv, ListsOk
  <2>2. PICK prose, keys : prose = docs /\ keys = sent
    OBVIOUS
  <2>3. first = Sized(q, near, uses, caps, prose, keys) /\ caps \in CapsOf
    BY <1>3, <1>4, <2>1, <2>2
  <2>4. first \in Ctx
    BY <2>3, SizedIs, Zenon
  <2>5. first.usages = uses
    BY <2>3 DEF Sized
  <2>6. Len(first.full) <= caps.full
    BY <2>3, SizedIs
  <2>7. Len(first.map) <= Max({caps.map - Len(first.full), 0})
    BY <2>3, SizedIs, Zenon
  <2>8. QED BY <2>1, <2>4, <2>5, <2>6, <2>7
<1>6. PICK ctx : ctx = OnlyCurrent(first, stale)
  OBVIOUS
<1>7. /\ ctx \in Ctx /\ ctx.usages = first.usages
      /\ Len(ctx.full) + Len(ctx.map) = Len(first.full) + Len(first.map)
  BY <1>5, <1>6, OnlyCurrentIs
<1>8. Header + Len(ctx.full) + Len(ctx.map) + Footer < MaxChars
  <2>1. PICK f \in Nat, m \in Nat : f = Len(first.full) /\ m = Len(first.map)
    BY <1>5 DEF Ctx
  <2>2. Header + f + m + Footer < MaxChars
    BY <1>3, <1>5, <2>1
  <2>3. PICK a \in Nat, b \in Nat : a = Len(ctx.full) /\ b = Len(ctx.map)
    BY <1>7 DEF Ctx
  <2>4. a + b = f + m
    BY <1>7, <2>1, <2>3
  <2>5. Header + a + b + Footer < MaxChars
    BY <2>2, <2>4, SizingAssumption
  <2>6. QED BY <2>3, <2>5
<1>9. UsageSound(ctx.usages)
  BY <1>5, <1>7 DEF RetrievalInv, ListsOk
<1>10. /\ Rendered(ctx).size <= MaxChars
       /\ \A x \in Rendered(ctx).claims : \A u \in Uses(x) :
            \/ \E v \in Rendered(ctx).usages : SameLine(u, v)
            \/ Visible(u, Rendered(ctx).provided)
  BY <1>7, <1>8, <1>9, RenderedIs
<1>11. reply' = NothingRendered \/ reply' = Rendered(ctx)
  BY <1>1, <1>2, <1>4, <1>6
<1>12. ReplyOk'
  <2>1. CASE reply' = NothingRendered
    BY <2>1, NoReply
  <2>2. CASE reply' = Rendered(ctx)
    <3>1. PICK r : r = Rendered(ctx)
      OBVIOUS
    <3>2. /\ reply' = r /\ r.size <= MaxChars
          /\ \A x \in r.claims : \A u \in Uses(x) :
               \/ \E v \in r.usages : SameLine(u, v)
               \/ Visible(u, r.provided)
      BY <1>10, <2>2, <3>1
    <3>3. QED BY <3>2 DEF ReplyOk, UsesClaimTrue, WithinCap, Uses, Visible, SameLine
  <2>3. QED BY <1>11, <2>1, <2>2
<1>13. stage' = "replied" /\ spans' = <<>> /\ lists' = NoLists /\ pool' = pool /\ scored' = scored
  BY DEF Render
<1>14. RankedInv'
  BY <1>13, RankingStays DEF RetrievalInv
<1>15. ListsOk'
  BY <1>13, NothingIsOk DEF ListsOk, UsageSound
<1>16. QED BY <1>12, <1>13, <1>14, <1>15, NothingIsOk DEF RetrievalInv

LEMMA RetrievalNextOk == RetrievalInv /\ [Next]_vars => RetrievalInv'
<1> SUFFICES ASSUME RetrievalInv, [Next]_vars PROVE RetrievalInv'
  OBVIOUS
<1>1. CASE Ask
  BY <1>1, AskKeeps
<1>2. CASE Gate
  <2>1. RankedInv'
    BY <1>2, GateRanks DEF RetrievalInv
  <2>2. spans' = spans /\ lists' = lists /\ reply' = reply
    BY <1>2 DEF Gate
  <2>3. QED BY <2>1, <2>2, ListsStay, ReplyStays DEF RetrievalInv
<1>3. CASE GateLexically
  <2>1. RankedInv'
    BY <1>3, LexicallyRanks DEF RetrievalInv
  <2>2. spans' = spans /\ lists' = lists /\ reply' = reply
    BY <1>3 DEF GateLexically
  <2>3. QED BY <2>1, <2>2, ListsStay, ReplyStays DEF RetrievalInv
<1>4. CASE Shape
  <2>1. spans' \in Seq(Span)
    BY <1>4, ShapeMakesSpans DEF RetrievalInv
  <2>2. stage' = "shaped" /\ pool' = pool /\ scored' = scored /\ lists' = lists /\ reply' = reply
    BY <1>4 DEF Shape
  <2>3. RankedInv'
    BY <2>2, RankingStays DEF RetrievalInv
  <2>4. QED BY <2>1, <2>2, <2>3, ListsStay, ReplyStays DEF RetrievalInv
<1>5. CASE List
  <2>1. ListsOk'
    BY <1>5, ListMakesLists DEF RetrievalInv
  <2>2. stage' = "listed" /\ pool' = <<>> /\ scored' = <<>> /\ spans' = spans /\ reply' = reply
    BY <1>5 DEF List
  <2>3. RankedInv'
    BY <2>2, RankingEnds
  <2>4. QED BY <2>1, <2>2, <2>3, ReplyStays DEF RetrievalInv
<1>6. CASE Render
  BY <1>6, RenderKeeps
<1>7. CASE Done
  <2>1. /\ stage' = "idle" /\ pool' = pool /\ scored' = scored /\ spans' = spans
        /\ lists' = lists /\ reply' = NothingRendered
    BY <1>7 DEF Done
  <2>2. RankedInv'
    BY <2>1, RankingStays DEF RetrievalInv
  <2>3. QED BY <2>1, <2>2, ListsStay, NoReply DEF RetrievalInv
<1>8. CASE UNCHANGED vars
  <2>1. /\ stage' = stage /\ answer' = answer /\ pool' = pool /\ p' = p /\ scored' = scored
        /\ spans' = spans /\ lists' = lists /\ reply' = reply
    BY <1>8 DEF vars
  <2>2. RankedInv'
    BY <2>1 DEF RetrievalInv, RankedInv, RespectsBoth, Ids
  <2>3. QED BY <2>1, <2>2, ListsStay, ReplyStays DEF RetrievalInv
<1>9. QED BY <1>1, <1>2, <1>3, <1>4, <1>5, <1>6, <1>7, <1>8 DEF Next

\* Whatever the model answers and for whichever chunks, two chunks that it
\* scored keep their order if the lexical order and its probability agree on it
\* (laya_gate, both fusions, and the cut of what is unlikely; fusion.rs).
THEOREM ModelOverrulesNobody == Spec => []RespectsBoth
<1>1. RetrievalInv => RespectsBoth
  BY DEF RetrievalInv, RankedInv
<1>2. QED BY <1>1, RetrievalInitOk, RetrievalNextOk, PTL DEF Spec

\* "all indexed uses shown" is true whenever it is said, for any corpus, any
\* names and limits, and wherever the cap cuts the list off (usage_list in
\* related.rs, append_related in render.rs).
THEOREM AllShownIsTrue == Spec => []UsesClaimTrue
<1>1. RetrievalInv => UsesClaimTrue
  BY DEF RetrievalInv, ReplyOk
<1>2. QED BY <1>1, RetrievalInitOk, RetrievalNextOk, PTL DEF Spec

\* What is injected is never above the cap, although blocks, what was sent
\* before, usages and pointers are added one after the other, each with its own
\* comparison (render_sized_with_keys in render.rs).
THEOREM InjectionWithinCap == Spec => []WithinCap
<1>1. RetrievalInv => WithinCap
  BY DEF RetrievalInv, ReplyOk
<1>2. QED BY <1>1, RetrievalInitOk, RetrievalNextOk, PTL DEF Spec

(***************************************************************************)
(* The model's inputs.                                                     *)
(***************************************************************************)
LEMMA BothBounds ==
  ASSUME NEW a \in Int, NEW b \in Int
  PROVE  /\ Smaller(a, b) \in {a, b} /\ Smaller(a, b) <= a /\ Smaller(a, b) <= b
         /\ Larger(a, b) \in {a, b} /\ Larger(a, b) >= a /\ Larger(a, b) >= b
  BY DEF Smaller, Larger

\* The options as they are cut: there are as many, and where they fit at their
\* smallest they leave the instructions their minimum.
LEMMA OptionsFit ==
  ASSUME cfg \in Budgets, NEW opts \in Seq(Nat)
  PROVE  /\ Shrunk(opts) \in Seq(Nat) /\ Len(Shrunk(opts)) = Len(opts)
         /\ Fitting(Len(opts)) => SumOf(Shrunk(opts)) + MinHeadTokens <= cfg.head
<1>1. PICK n \in Nat : n = Len(opts) /\ DOMAIN opts = 1..n
  OBVIOUS
<1>2. PICK h \in Nat : h = cfg.head
  BY InputsAssumption
<1>a. PICK small \in Nat : small = MinOptTokens
  BY InputsAssumption
<1>b. PICK least \in Nat : least = MinHeadTokens
  BY InputsAssumption
<1>c. PICK room \in Nat : room = MinOptBudget /\ least <= room
  BY <1>b, InputsAssumption
<1>3. PICK q \in Seq(Nat) : q = Marked(opts) /\ Len(q) = n
  <2>1. \A i \in 1..n : Smaller(opts[i], OptionTokens) + 1 \in Nat
    <3>1. \A i \in 1..n : opts[i] \in Nat
      BY <1>1
    <3>2. OptionTokens \in Nat
      BY InputsAssumption
    <3>3. QED BY <3>1, <3>2 DEF Smaller
  <2>2. Marked(opts) = [i \in 1..n |-> Smaller(opts[i], OptionTokens) + 1]
    BY <1>1 DEF Marked
  <2>3. Marked(opts) \in [1..n -> Nat]
    BY <2>1, <2>2
  <2>4. QED BY <2>3
<1>4. SumOf(q) \in Int
  BY <1>3, Sums
<1>5. CASE h - SumOf(q) >= room
  <2>1. Shrunk(opts) = q
    BY <1>2, <1>3, <1>5, <1>c DEF Shrunk
  <2>2. SumOf(q) + least <= h
    BY <1>4, <1>5, <1>c
  <2>3. QED BY <1>1, <1>2, <1>3, <1>b, <2>1, <2>2
<1>6. CASE ~(h - SumOf(q) >= room)
  <2>1. PICK l \in Nat \ {0} : l = Larger(n, 1) /\ n <= l
    BY BothBounds
  <2> DEFINE part == IF h >= room THEN (h - room) \div l ELSE 0
  <2>2. \E d \in Nat : d = part /\ (h >= room => l * d <= h - room) /\ (h < room => d = 0)
    <3>1. CASE h >= room
      <4>1. PICK c \in Nat : c = h - room
        BY <3>1
      <4>2. PICK d \in Nat : d = c \div l /\ l * d <= c
        BY Division
      <4>3. d = part
        BY <3>1, <4>1, <4>2
      <4> HIDE DEF part
      <4>4. l * d <= h - room /\ ~(h < room)
        BY <3>1, <4>1, <4>2
      <4>5. QED BY <4>3, <4>4, Zenon
    <3>2. CASE ~(h >= room)
      BY <3>2
    <3>3. QED BY <3>1, <3>2
  <2>3. PICK d \in Nat : d = part /\ (h >= room => l * d <= h - room) /\ (h < room => d = 0)
    BY <2>2
  <2>4. PICK per \in Nat : per = Larger(small, d) /\ per \in {small, d}
    BY BothBounds
  <2>5. PICK r : r = [i \in 1..n |-> Smaller(q[i], per)]
    OBVIOUS
  <2>6. Shrunk(opts) = r
    <3>1. DOMAIN q = 1..n
      BY <1>3
    <3>2. d = IF h >= room THEN (h - room) \div Larger(n, 1) ELSE 0
      BY <2>1, <2>3
    <3>3. ~(cfg.head - SumOf(Marked(opts)) >= MinOptBudget)
      BY <1>2, <1>3, <1>6, <1>c
    <3>4. per = Larger(MinOptTokens,
                       IF cfg.head >= MinOptBudget
                         THEN (cfg.head - MinOptBudget) \div Larger(Len(opts), 1)
                         ELSE 0)
      BY <1>1, <1>2, <1>a, <1>c, <2>4, <3>2
    <3> HIDE DEF part
    <3>5. QED BY <1>3, <2>5, <3>1, <3>3, <3>4 DEF Shrunk
  <2>7. r \in Seq(Nat) /\ Len(r) = n /\ \A i \in 1..Len(r) : r[i] <= per
    <3>1. \A i \in 1..n : q[i] \in Nat
      BY <1>3
    <3>2. \A i \in 1..n : Smaller(q[i], per) \in Nat /\ Smaller(q[i], per) <= per
      BY <3>1 DEF Smaller
    <3>3. r \in [1..n -> Nat] /\ \A i \in 1..n : r[i] <= per
      BY <2>5, <3>2
    <3>4. QED BY <3>3
  <2>8. SumOf(r) \in Nat /\ SumOf(r) <= n * per
    BY <2>7, SumsRise, SumsBounded
  <2>9. ASSUME Fitting(n) PROVE n * per + least <= h
    <3>1. n * small + least <= h /\ n * small \in Nat
      BY <1>2, <1>a, <1>b, <2>9 DEF Fitting
    <3>2. least <= h
      BY <3>1
    <3>3. n * d + least <= h
      <4>1. CASE h >= room
        <5>1. d * n <= d * l
          <6>1. n \in Int /\ l \in Int /\ n <= l
            BY <2>1
          <6>2. QED BY <6>1, Products
        <5>2. d * n = n * d /\ d * l = l * d /\ n * d \in Nat /\ l * d \in Nat
          OBVIOUS
        <5>3. l * d <= h - room
          BY <2>3, <4>1
        <5>4. QED BY <1>c, <5>1, <5>2, <5>3
      <4>2. CASE h < room
        <5>1. n * d = 0
          BY <2>3, <4>2
        <5>2. QED BY <3>2, <5>1
      <4>3. QED BY <4>1, <4>2
    <3>4. QED BY <2>4, <3>1, <3>3
  <2>10. Fitting(n) => SumOf(r) + least <= h
    <3>1. n * per \in Nat
      OBVIOUS
    <3>2. QED BY <2>8, <2>9, <3>1
  <2>11. QED BY <1>1, <1>2, <1>b, <2>6, <2>7, <2>10
<1>7. QED BY <1>5, <1>6

BuiltInput ==
  [len : Nat, markers : Nat, closed : BOOLEAN, kept : Nat, state : Nat, options : Nat]

\* What InputsWhole says of one sequence.
Whole(input) ==
  /\ input.len <= cfg.max
  /\ Fitting(input.options) =>
       input.closed /\ input.kept >= Smaller(input.state, cfg.max - cfg.head - 4)

\* What is cut is cut in the state, and only what the budgets do not promise.
LEMMA BuiltIs ==
  ASSUME cfg \in Budgets, NEW ins \in Nat, NEW opts \in Seq(Nat), NEW state \in Nat
  PROVE  /\ Built(ins, opts, state) \in BuiltInput /\ Whole(Built(ins, opts, state))
         /\ Fitting(Len(opts)) => Built(ins, opts, state).markers = Len(opts)
<1>1. PICK n \in Nat : n = Len(opts) /\ DOMAIN opts = 1..n
  OBVIOUS
<1>2. PICK h \in Nat, max \in Nat : h = cfg.head /\ max = cfg.max
  BY InputsAssumption
<1>3. PICK least \in Nat : least = MinHeadTokens
  BY InputsAssumption
<1>4. PICK q \in Seq(Nat) : q = Shrunk(opts) /\ Len(q) = n
  BY <1>1, OptionsFit
<1>5. PICK s \in Nat : s = SumOf(q) /\ \A k \in 0..n : PartSums(q)[k] \in Nat /\ PartSums(q)[k] <= s
  BY <1>4, SumsRise
<1>6. Fitting(n) => s + least <= h /\ h + 4 <= max
  BY <1>1, <1>2, <1>3, <1>4, <1>5, OptionsFit DEF Fitting
<1>7. PICK room \in Nat : /\ room = HeadRoom(opts)
                          /\ Fitting(n) => room + s <= h
  <2>1. HeadRoom(opts) = Larger(least, h - s)
    BY <1>2, <1>3, <1>4, <1>5 DEF HeadRoom
  <2>2. PICK r \in Nat : r = Larger(least, h - s) /\ (s + least <= h => r + s = h)
    <3>1. PICK d \in Int : d = h - s
      OBVIOUS
    <3>2. Larger(least, d) \in Nat /\ (least <= d => Larger(least, d) = d)
      BY DEF Larger
    <3>3. s + least <= h => least <= d
      BY <3>1
    <3>4. \A r \in Nat : r = d => r + s = h
      BY <3>1
    <3>5. QED BY <3>1, <3>2, <3>3, <3>4
  <2>3. QED BY <1>6, <2>1, <2>2
<1>8. PICK head \in Nat : head = Smaller(ins, room) /\ head <= room
  BY DEF Smaller
<1>9. PICK before \in Nat : before = head + s + 3
  OBVIOUS
<1>10. PICK left \in Nat : left = Room(before) /\ (before < max => left = max - before - 1)
  <2>1. Room(before) = Larger(max - before - 1, 0)
    BY <1>2 DEF Room
  <2>2. PICK d \in Int : d = max - before - 1
    OBVIOUS
  <2>3. Larger(d, 0) \in Nat /\ (d >= 0 => Larger(d, 0) = d)
    BY DEF Larger
  <2>4. QED BY <2>1, <2>2, <2>3
<1>11. PICK kept \in Nat : kept = Smaller(state, left)
  BY DEF Smaller
<1>12. PICK all \in Nat : all = before + kept + 1
  OBVIOUS
<1>13. PICK len \in Nat : len = Smaller(all, max) /\ len <= max
  BY DEF Smaller
<1>14. PICK M : M = {i \in 1..n : head + 2 + PartSums(q)[i - 1] < max}
  OBVIOUS
<1>15. Cardinality(M) \in Nat /\ (M = 1..n => Cardinality(M) = n)
  <2>1. IsFiniteSet(1..n) /\ Cardinality(1..n) = n
    BY FS_Interval
  <2>2. M \in SUBSET (1..n)
    BY <1>14
  <2>3. QED BY <2>1, <2>2, FS_Subset, FS_CardinalityType
<1>16. PICK closed \in BOOLEAN : closed <=> all <= max
  OBVIOUS
<1>17. Built(ins, opts, state) =
         [len |-> len, markers |-> Cardinality(M), closed |-> closed, kept |-> kept,
          state |-> state, options |-> n]
  <2>1. closed = (all <= max)
    BY <1>16
  <2>2. M = {i \in DOMAIN opts : head + 2 + PartSums(Shrunk(opts))[i - 1] < cfg.max}
    BY <1>1, <1>2, <1>4, <1>14
  <2>3. QED
    BY <1>1, <1>2, <1>4, <1>5, <1>7, <1>8, <1>9, <1>10, <1>11, <1>12, <1>13, <2>1, <2>2, ZenonT(60)
    DEF Built
<1>18. ASSUME Fitting(n)
       PROVE  closed /\ kept >= Smaller(state, max - h - 4) /\ Cardinality(M) = n
  <2>1. before <= h + 3 /\ h + 4 <= max
    BY <1>6, <1>7, <1>8, <1>9, <1>18
  <2>2. left = max - before - 1
    BY <1>10, <2>1
  <2>3. closed
    BY <1>11, <1>12, <1>16, <2>2 DEF Smaller
  <2>4. kept >= Smaller(state, max - h - 4)
    BY <1>11, <2>1, <2>2 DEF Smaller
  <2>5. ASSUME NEW i \in 1..n PROVE i \in M
    <3>1. i - 1 \in 0..n
      OBVIOUS
    <3>2. PICK y \in Nat : y = PartSums(q)[i - 1] /\ y <= s
      BY <1>5, <3>1
    <3>3. head + 2 + y < max
      BY <1>9, <2>1, <3>2
    <3>4. QED BY <1>14, <3>2, <3>3
  <2>6. M = 1..n
    BY <1>14, <2>5
  <2>7. QED BY <1>15, <2>3, <2>4, <2>6
<1>19. PICK b : b = Built(ins, opts, state)
  OBVIOUS
<1>20. /\ b \in BuiltInput /\ b.len = len /\ b.markers = Cardinality(M) /\ b.closed = closed
       /\ b.kept = kept /\ b.state = state /\ b.options = n
  BY <1>15, <1>17, <1>19 DEF BuiltInput
<1>21. QED BY <1>1, <1>2, <1>13, <1>18, <1>19, <1>20 DEF Whole

-----------------------------------------------------------------------------
\* Batches: their rows, and what BatchesSound says of each and of each two.
RowsIn(plan) == UNION {ToSet(plan[k]) : k \in DOMAIN plan}

WellPlanned(plan) ==
  \A k \in DOMAIN plan :
    /\ plan[k] # <<>> /\ IsInjective(plan[k]) /\ Len(plan[k]) <= Larger(MaxRows, 1)
    /\ Len(plan[k]) > 1 => Padded(plan[k]) <= MaxTokens
    /\ k < Len(plan) => ~JoinsBatch(plan[k], plan[k + 1][1])
    /\ \A l \in DOMAIN plan : k # l => ToSet(plan[k]) \cap ToSet(plan[l]) = {}

LEMMA RowJoins ==
  ASSUME NEW S, NEW plan \in Seq(Seq(S)), NEW row \in S, WellPlanned(plan),
         row \notin RowsIn(plan), plan # <<>>, JoinsBatch(plan[Len(plan)], row)
  PROVE  /\ WithRow(plan, row) \in Seq(Seq(S)) /\ WellPlanned(WithRow(plan, row))
         /\ RowsIn(WithRow(plan, row)) = RowsIn(plan) \cup {row}
<1>1. PICK n \in Nat : n = Len(plan) /\ DOMAIN plan = 1..n /\ n \in 1..n
  OBVIOUS
<1>2. PICK last \in Seq(S) : last = plan[n] /\ ToSet(last) \subseteq RowsIn(plan)
  BY <1>1 DEF RowsIn
<1>3. PICK more \in Seq(S) :
        /\ more = Append(last, row) /\ Len(more) = Len(last) + 1 /\ Len(last) \in Nat
        /\ more[Len(last) + 1] = row /\ \A i \in 1..Len(last) : more[i] = last[i]
  <2>1. /\ Append(last, row) \in Seq(S) /\ Len(Append(last, row)) = Len(last) + 1
        /\ Len(last) \in Nat /\ Append(last, row)[Len(last) + 1] = row
        /\ \A i \in 1..Len(last) : Append(last, row)[i] = last[i]
    BY AppendIs
  <2>2. QED BY <2>1, Zenon
<1>4. ToSet(more) = ToSet(last) \cup {row}
  BY <1>3, AddLast
<1>5. PICK new \in Seq(Seq(S)) : new = [plan EXCEPT ![n] = more]
  <2>1. [plan EXCEPT ![n] = more] \in Seq(Seq(S))
    BY <1>1
  <2>2. QED BY <2>1
<1>6. /\ DOMAIN new = 1..n /\ Len(new) = n /\ new[n] = more
      /\ \A k \in 1..n : k # n => new[k] = plan[k]
  BY <1>1, <1>5
<1>7. WithRow(plan, row) = new
  BY <1>1, <1>2, <1>3, <1>5 DEF WithRow
<1>8. last # <<>> /\ more[1] = last[1] /\ more # <<>>
  <2>1. last # <<>>
    BY <1>1, <1>2 DEF WellPlanned
  <2>2. 1 \in 1..Len(last)
    BY <2>1
  <2>3. QED BY <1>3, <2>1, <2>2
<1>9. row \notin ToSet(last) /\ IsInjective(last)
  BY <1>1, <1>2 DEF WellPlanned
<1>10. IsInjective(more)
  <2>1. DOMAIN more = 1..(Len(last) + 1) /\ DOMAIN last = 1..Len(last)
    BY <1>3
  <2>2. \A i \in 1..Len(last) : more[i] = last[i] /\ last[i] # row
    BY <1>3, <1>9, <2>1 DEF ToSet
  <2>3. ASSUME NEW i \in DOMAIN more, NEW j \in DOMAIN more, more[i] = more[j] PROVE i = j
    <3>1. CASE i \in 1..Len(last) /\ j \in 1..Len(last)
      BY <1>9, <2>1, <2>2, <2>3, <3>1 DEF IsInjective
    <3>2. CASE i = Len(last) + 1 \/ j = Len(last) + 1
      BY <1>3, <2>1, <2>2, <2>3, <3>2
    <3>3. QED BY <1>3, <2>1, <3>1, <3>2
  <2>4. QED BY <2>3 DEF IsInjective
<1>11. Len(more) <= Larger(MaxRows, 1) /\ Padded(more) <= MaxTokens
  <2>1. Len(last) < Larger(MaxRows, 1) /\ Padded(more) <= MaxTokens
    BY <1>1, <1>2, <1>3 DEF JoinsBatch
  <2>2. Larger(MaxRows, 1) \in Int
    BY InputsAssumption DEF Larger
  <2>3. QED BY <1>3, <2>1, <2>2
<1>12. WellPlanned(new)
  <2> SUFFICES ASSUME NEW k \in 1..n
               PROVE  /\ new[k] # <<>> /\ IsInjective(new[k]) /\ Len(new[k]) <= Larger(MaxRows, 1)
                      /\ Len(new[k]) > 1 => Padded(new[k]) <= MaxTokens
                      /\ k < n => ~JoinsBatch(new[k], new[k + 1][1])
                      /\ \A l \in 1..n : k # l => ToSet(new[k]) \cap ToSet(new[l]) = {}
    BY <1>6 DEF WellPlanned
  <2>1. /\ new[k] # <<>> /\ IsInjective(new[k]) /\ Len(new[k]) <= Larger(MaxRows, 1)
        /\ Len(new[k]) > 1 => Padded(new[k]) <= MaxTokens
    BY <1>1, <1>6, <1>8, <1>10, <1>11 DEF WellPlanned
  <2>2. ASSUME k < n PROVE ~JoinsBatch(new[k], new[k + 1][1])
    <3>1. k + 1 \in 1..n /\ new[k] = plan[k]
      BY <1>6, <2>2
    <3>2. new[k + 1][1] = plan[k + 1][1]
      BY <1>2, <1>6, <1>8, <3>1
    <3>3. ~JoinsBatch(plan[k], plan[k + 1][1])
      BY <1>1, <2>2 DEF WellPlanned
    <3>4. QED BY <3>1, <3>2, <3>3
  <2>3. ASSUME NEW l \in 1..n, k # l PROVE ToSet(new[k]) \cap ToSet(new[l]) = {}
    <3>1. ToSet(plan[k]) \cap ToSet(plan[l]) = {}
      BY <1>1, <2>3 DEF WellPlanned
    <3>2. row \notin ToSet(plan[k]) /\ row \notin ToSet(plan[l])
      BY <1>1 DEF RowsIn
    <3>3. ToSet(new[k]) \subseteq ToSet(plan[k]) \cup {row} /\ (k # n => new[k] = plan[k])
      BY <1>2, <1>4, <1>6
    <3>4. ToSet(new[l]) \subseteq ToSet(plan[l]) \cup {row} /\ (l # n => new[l] = plan[l])
      BY <1>2, <1>4, <1>6
    <3>5. QED BY <2>3, <3>1, <3>2, <3>3, <3>4
  <2>4. QED BY <2>1, <2>2, <2>3
<1>13. RowsIn(new) = RowsIn(plan) \cup {row}
  <2>1. ASSUME NEW k \in 1..n, k # n PROVE ToSet(new[k]) = ToSet(plan[k])
    BY <1>6, <2>1
  <2>2. ToSet(new[n]) = ToSet(plan[n]) \cup {row}
    BY <1>2, <1>4, <1>6
  <2>3. QED BY <1>1, <1>6, <2>1, <2>2 DEF RowsIn
<1>14. QED BY <1>7, <1>12, <1>13

LEMMA RowBegins ==
  ASSUME NEW S, NEW plan \in Seq(Seq(S)), NEW row \in S, WellPlanned(plan),
         row \notin RowsIn(plan), plan # <<>> => ~JoinsBatch(plan[Len(plan)], row)
  PROVE  /\ WithRow(plan, row) \in Seq(Seq(S)) /\ WellPlanned(WithRow(plan, row))
         /\ RowsIn(WithRow(plan, row)) = RowsIn(plan) \cup {row}
<1>1. PICK n \in Nat : n = Len(plan) /\ DOMAIN plan = 1..n
  OBVIOUS
<1>2. PICK one \in Seq(S) : /\ one = <<row>> /\ Len(one) = 1 /\ one[1] = row /\ one # <<>>
                            /\ ToSet(one) = {row} /\ IsInjective(one)
  <2>1. PICK one : one = <<row>>
    OBVIOUS
  <2>2. one \in Seq(S) /\ DOMAIN one = {1} /\ one[1] = row /\ Len(one) = 1 /\ one # <<>>
    BY <2>1
  <2>3. ToSet(one) = {row} /\ IsInjective(one)
    BY <2>2 DEF ToSet, IsInjective
  <2>4. QED BY <2>1, <2>2, <2>3, Zenon
<1>3. PICK new \in Seq(Seq(S)) :
        /\ new = Append(plan, one) /\ Len(new) = n + 1 /\ new[n + 1] = one
        /\ \A k \in 1..n : new[k] = plan[k]
  <2>1. /\ Append(plan, one) \in Seq(Seq(S)) /\ Len(Append(plan, one)) = Len(plan) + 1
        /\ Append(plan, one)[Len(plan) + 1] = one
        /\ \A k \in 1..Len(plan) : Append(plan, one)[k] = plan[k]
    BY AppendIs
  <2>2. QED BY <1>1, <2>1, Zenon
<1>4. WithRow(plan, row) = new
  BY <1>2, <1>3 DEF WithRow
<1>5. DOMAIN new = 1..(n + 1)
  BY <1>3
<1>6. Larger(MaxRows, 1) \in Int /\ Larger(MaxRows, 1) >= 1
  BY InputsAssumption DEF Larger
<1>7. WellPlanned(new)
  <2> SUFFICES ASSUME NEW k \in 1..(n + 1)
               PROVE  /\ new[k] # <<>> /\ IsInjective(new[k]) /\ Len(new[k]) <= Larger(MaxRows, 1)
                      /\ Len(new[k]) > 1 => Padded(new[k]) <= MaxTokens
                      /\ k < n + 1 => ~JoinsBatch(new[k], new[k + 1][1])
                      /\ \A l \in 1..(n + 1) : k # l => ToSet(new[k]) \cap ToSet(new[l]) = {}
    BY <1>3, <1>5 DEF WellPlanned
  <2>1. CASE k = n + 1
    <3>1. ASSUME NEW l \in 1..(n + 1), k # l PROVE ToSet(new[k]) \cap ToSet(new[l]) = {}
      <4>1. l \in 1..n
        BY <2>1, <3>1
      <4>2. row \notin ToSet(plan[l])
        BY <1>1, <4>1 DEF RowsIn
      <4>3. QED BY <1>2, <1>3, <2>1, <4>1, <4>2
    <3>2. new[k] = one /\ 1 <= Larger(MaxRows, 1) /\ ~(k < n + 1) /\ ~(1 > 1)
      BY <1>3, <1>6, <2>1
    <3>3. QED BY <1>2, <3>1, <3>2
  <2>2. CASE k \in 1..n
    <3>1. /\ new[k] # <<>> /\ IsInjective(new[k]) /\ Len(new[k]) <= Larger(MaxRows, 1)
          /\ Len(new[k]) > 1 => Padded(new[k]) <= MaxTokens
      BY <1>1, <1>3, <2>2 DEF WellPlanned
    <3>2. ~JoinsBatch(new[k], new[k + 1][1])
      <4>1. CASE k = n
        <5>1. plan # <<>> /\ new[k] = plan[n] /\ new[k + 1][1] = row
          BY <1>1, <1>2, <1>3, <2>2, <4>1
        <5>2. QED BY <1>1, <5>1
      <4>2. CASE k # n
        <5>1. k + 1 \in 1..n /\ k < n
          BY <2>2, <4>2
        <5>2. ~JoinsBatch(plan[k], plan[k + 1][1])
          BY <1>1, <2>2, <5>1 DEF WellPlanned
        <5>3. QED BY <1>3, <2>2, <5>1, <5>2
      <4>3. QED BY <4>1, <4>2
    <3>3. ASSUME NEW l \in 1..(n + 1), k # l PROVE ToSet(new[k]) \cap ToSet(new[l]) = {}
      <4>1. CASE l \in 1..n
        BY <1>1, <1>3, <2>2, <3>3, <4>1 DEF WellPlanned
      <4>2. CASE l = n + 1
        <5>1. row \notin ToSet(plan[k])
          BY <1>1, <2>2 DEF RowsIn
        <5>2. QED BY <1>2, <1>3, <2>2, <4>2, <5>1
      <4>3. QED BY <4>1, <4>2
    <3>4. QED BY <3>1, <3>2, <3>3
  <2>3. QED BY <2>1, <2>2
<1>8. RowsIn(new) = RowsIn(plan) \cup {row}
  <2>1. \A k \in 1..n : ToSet(new[k]) = ToSet(plan[k])
    BY <1>3
  <2>2. ToSet(new[n + 1]) = {row}
    BY <1>2, <1>3
  <2>3. 1..(n + 1) = (1..n) \cup {n + 1}
    OBVIOUS
  <2>4. DOMAIN new = DOMAIN plan \cup {n + 1} /\ \A k \in DOMAIN plan : ToSet(new[k]) = ToSet(plan[k])
    BY <1>1, <1>5, <2>1, <2>3
  <2>5. QED BY <2>2, <2>4 DEF RowsIn
<1>9. QED BY <1>4, <1>7, <1>8

LEMMA RowPlanned ==
  ASSUME NEW S, NEW plan \in Seq(Seq(S)), NEW row \in S, WellPlanned(plan),
         row \notin RowsIn(plan)
  PROVE  /\ WithRow(plan, row) \in Seq(Seq(S)) /\ WellPlanned(WithRow(plan, row))
         /\ RowsIn(WithRow(plan, row)) = RowsIn(plan) \cup {row}
<1>1. CASE plan # <<>> /\ JoinsBatch(plan[Len(plan)], row)
  BY <1>1, RowJoins
<1>2. CASE ~(plan # <<>> /\ JoinsBatch(plan[Len(plan)], row))
  BY <1>2, RowBegins
<1>3. QED BY <1>1, <1>2

\* WithRow makes a plan of any plan: the loop has a result.
LEMMA AnyRow ==
  ASSUME NEW S, NEW plan \in Seq(Seq(S)), NEW row \in S
  PROVE  WithRow(plan, row) \in Seq(Seq(S))
<1>1. CASE plan # <<>> /\ JoinsBatch(plan[Len(plan)], row)
  <2>1. PICK n \in Nat : n = Len(plan) /\ DOMAIN plan = 1..n /\ n \in 1..n
    BY <1>1
  <2>2. Append(plan[n], row) \in Seq(S)
    BY <2>1, AppendIs
  <2>3. WithRow(plan, row) = [plan EXCEPT ![n] = Append(plan[n], row)]
    BY <1>1, <2>1 DEF WithRow
  <2>4. QED BY <2>1, <2>2, <2>3
<1>2. CASE ~(plan # <<>> /\ JoinsBatch(plan[Len(plan)], row))
  <2>1. WithRow(plan, row) = Append(plan, <<row>>)
    BY <1>2 DEF WithRow
  <2>2. <<row>> \in Seq(S)
    OBVIOUS
  <2>3. QED BY <2>1, <2>2, AppendIs
<1>3. QED BY <1>1, <1>2

\* However many rows there are, each is planned once.
LEMMA BatchedIs ==
  ASSUME NEW S, NEW order \in Seq(S), IsInjective(order)
  PROVE  /\ Batched(order) \in Seq(Seq(S)) /\ WellPlanned(Batched(order))
         /\ RowsIn(Batched(order)) = ToSet(order)
<1>1. PICK n \in Nat : n = Len(order) /\ DOMAIN order = 1..n
  OBVIOUS
<1>2. PICK V : V = Seq(Seq(S))
  OBVIOUS
<1>3. <<>> \in V /\ \A v \in V, k \in 1..n : WithRow(v, order[k]) \in V
  BY <1>1, <1>2, AnyRow
<1>4. PICK next : next = [pr \in V \X (1..n) |-> WithRow(pr[1], order[pr[2]])]
  OBVIOUS
<1>5. /\ next \in [V \X (1..n) -> V]
      /\ \A v \in V, k \in 1..n : next[<<v, k>>] = WithRow(v, order[k])
  <2>1. \A pr \in V \X (1..n) : WithRow(pr[1], order[pr[2]]) \in V
    BY <1>3
  <2>2. QED BY <1>4, <2>1
<1>6. PICK f \in [0..n -> V] : RunOf(f, n, <<>>, next)
  BY <1>3, <1>5, LoopRuns
<1>7. f[0] = <<>> /\ \A k \in 1..n : f[k] = WithRow(f[k - 1], order[k])
  <2>1. \A k \in 1..n : k - 1 \in 0..n /\ f[k - 1] \in V
    OBVIOUS
  <2>2. QED BY <1>5, <1>6, <2>1 DEF RunOf
<1>8. f = [k \in 0..n |-> IF k = 0 THEN <<>> ELSE WithRow(f[k - 1], order[k])]
  <2>1. ASSUME NEW k \in 0..n
        PROVE  f[k] = IF k = 0 THEN <<>> ELSE WithRow(f[k - 1], order[k])
    <3>1. k = 0 \/ (k \in 1..n /\ k # 0)
      OBVIOUS
    <3>2. QED BY <1>7, <3>1, Zenon
  <2>2. f = [k \in 0..n |-> f[k]]
    OBVIOUS
  <2>3. QED BY <2>1, <2>2, Zenon
<1>9. PICK g : g = CHOOSE h : h = [k \in 0..n |-> IF k = 0 THEN <<>> ELSE WithRow(h[k - 1], order[k])]
  BY Zenon
<1>10. g = [k \in 0..n |-> IF k = 0 THEN <<>> ELSE WithRow(g[k - 1], order[k])]
  BY <1>8, <1>9, Zenon
<1>11. g[0] = <<>> /\ \A k \in 1..n : g[k] = WithRow(g[k - 1], order[k])
  <2>1. 0 \in 0..n /\ \A k \in 1..n : k \in 0..n /\ k # 0
    OBVIOUS
  <2>2. \A k \in 0..n : g[k] = IF k = 0 THEN <<>> ELSE WithRow(g[k - 1], order[k])
    BY <1>10, Zenon
  <2>3. QED BY <2>1, <2>2, Zenon
<1> DEFINE P == {k \in 0..n : /\ g[k] \in V /\ WellPlanned(g[k])
                              /\ RowsIn(g[k]) = {order[j] : j \in 1..k}}
<1>12. 0 \in P
  <2>1. DOMAIN <<>> = {} /\ 0 \in 0..n /\ 1..0 = {}
    OBVIOUS
  <2>2. WellPlanned(<<>>) /\ RowsIn(<<>>) = {}
    BY <2>1 DEF WellPlanned, RowsIn
  <2>3. QED BY <1>3, <1>11, <2>1, <2>2
<1>13. ASSUME NEW k \in 0..(n - 1), k \in P PROVE k + 1 \in P
  <2>1. k + 1 \in 1..n /\ k + 1 - 1 = k /\ k + 1 \in 0..n /\ 1..(k + 1) = (1..k) \cup {k + 1}
    OBVIOUS
  <2>2. g[k + 1] = WithRow(g[k], order[k + 1])
    BY <1>11, <2>1
  <2>3. PICK plan \in Seq(Seq(S)) :
          plan = g[k] /\ WellPlanned(plan) /\ RowsIn(plan) = {order[j] : j \in 1..k}
    BY <1>2, <1>13
  <2>4. PICK row \in S : row = order[k + 1]
    BY <1>1, <2>1
  <2>5. \A j \in 1..k : order[j] # row
    <3>1. \A j \in 1..k : j \in DOMAIN order /\ k + 1 \in DOMAIN order /\ j # k + 1
      BY <1>1, <2>1
    <3>2. QED BY <2>4, <3>1 DEF IsInjective
  <2>6. row \notin RowsIn(plan)
    BY <2>3, <2>5
  <2>7. /\ WithRow(plan, row) \in V /\ WellPlanned(WithRow(plan, row))
        /\ RowsIn(WithRow(plan, row)) = RowsIn(plan) \cup {row}
    BY <1>2, <2>3, <2>6, RowPlanned
  <2>8. RowsIn(WithRow(plan, row)) = {order[j] : j \in 1..(k + 1)}
    BY <2>1, <2>3, <2>4, <2>7
  <2>9. QED BY <2>1, <2>2, <2>3, <2>4, <2>7, <2>8
<1>14. n \in P
  <2> HIDE DEF P
  <2>1. n \in 0..n
    OBVIOUS
  <2>2. QED BY <1>12, <1>13, <2>1, LoopInduction
<1>15. Batched(order) = g[n]
  BY <1>1, <1>9, Zenon DEF Batched
<1>16. ToSet(order) = {order[j] : j \in 1..n}
  BY <1>1 DEF ToSet
<1>17. QED BY <1>2, <1>14, <1>15, <1>16

\* The two orders have every sequence once.
LEMMA AsGivenIs ==
  ASSUME inputs \in Seq(BuiltInput)
  PROVE  /\ AsGiven \in Seq(DOMAIN inputs) /\ IsInjective(AsGiven)
         /\ ToSet(AsGiven) = DOMAIN inputs
<1>1. PICK n \in Nat : n = Len(inputs) /\ DOMAIN inputs = 1..n
  OBVIOUS
<1>2. PICK q : q = AsGiven /\ q = [i \in 1..n |-> i]
  BY <1>1 DEF AsGiven
<1>3. q \in Seq(1..n) /\ DOMAIN q = 1..n /\ \A i \in 1..n : q[i] = i
  BY <1>2
<1>4. IsInjective(q) /\ ToSet(q) = 1..n
  BY <1>3 DEF IsInjective, ToSet
<1>5. QED BY <1>1, <1>2, <1>3, <1>4

LEMMA ByLengthIs ==
  ASSUME inputs \in Seq(BuiltInput)
  PROVE  /\ ByLength \in Seq(DOMAIN inputs) /\ IsInjective(ByLength)
         /\ ToSet(ByLength) = DOMAIN inputs
<1>1. PICK S : S = DOMAIN inputs
  OBVIOUS
<1>2. /\ IsFiniteSet(S) /\ S \subseteq Int
      /\ \A i \in S : inputs[i].len \in Int
  <2>1. S = 1..Len(inputs) /\ Len(inputs) \in Nat
    BY <1>1
  <2>2. \A i \in S : inputs[i] \in BuiltInput
    BY <1>1
  <2>3. \A i \in S : inputs[i].len \in Int
    BY <2>2 DEF BuiltInput
  <2>4. PICK n \in Nat : S = 1..n
    BY <2>1
  <2>5. IsFiniteSet(S)
    BY <2>4, FS_Interval
  <2>6. QED BY <2>3, <2>4, <2>5
<1>3. PICK u : u = [i \in S |-> 0]
  OBVIOUS
<1>4. PICK v : v = [i \in S |-> inputs[i].len]
  OBVIOUS
<1>5. PICK w : w = [i \in S |-> i]
  OBVIOUS
<1>6. PICK R : R = Sorting(S, u, v, w)
  OBVIOUS
<1>7. InOneOrder(S, R)
  <2>1. \A i \in S : u[i] \in Int /\ v[i] \in Int /\ w[i] \in Int
    BY <1>2, <1>3, <1>4, <1>5
  <2>2. \A i, j \in S : v[i] = v[j] /\ w[i] = w[j] => i = j
    BY <1>5
  <2>3. QED BY <1>2, <1>6, <2>1, <2>2, SortingOrders
<1>8. \A i, j \in S : <<i, j>> \in R <=> (\/ inputs[i].len < inputs[j].len
                                          \/ inputs[i].len = inputs[j].len /\ i < j)
  BY <1>3, <1>4, <1>5, <1>6 DEF Sorting
<1>9. \A j \in S : {i \in S : \/ inputs[i].len < inputs[j].len
                              \/ inputs[i].len = inputs[j].len /\ i < j} = Ahead(S, R, j)
  BY <1>8 DEF Ahead
<1> DEFINE chosen(k) == CHOOSE j \in S : Cardinality({i \in S :
             \/ inputs[i].len < inputs[j].len
             \/ inputs[i].len = inputs[j].len /\ i < j}) = k - 1
           listed(k) == CHOOSE j \in S : Cardinality(Ahead(S, R, j)) = k - 1
           m == Cardinality(S)
<1>10. ASSUME NEW k PROVE chosen(k) = listed(k)
  BY <1>9, Zenon
<1>11. ListedBy(S, R) = [k \in 1..m |-> listed(k)]
  BY DEF ListedBy
<1>12. ByLength = [k \in 1..m |-> chosen(k)]
  BY <1>1 DEF ByLength, InOrder
<1> HIDE DEF chosen, listed, m
<1>13. ByLength = ListedBy(S, R)
  BY <1>10, <1>11, <1>12
<1>14. QED BY <1>1, <1>7, <1>13, ListedIs

\* The tokens of a batch are a number.
LEMMA PaddedIs ==
  ASSUME inputs \in Seq(BuiltInput), NEW batch \in Seq(DOMAIN inputs), batch # <<>>
  PROVE  Padded(batch) \in Nat
<1>1. PICK q : q = [k \in DOMAIN batch |-> inputs[batch[k]].len]
  OBVIOUS
<1>2. q \in Seq(Nat) /\ DOMAIN q = DOMAIN batch /\ 1 \in DOMAIN batch /\ Len(batch) \in Nat
  <2>1. DOMAIN batch = 1..Len(batch) /\ Len(batch) \in Nat /\ Len(batch) # 0
    OBVIOUS
  <2>2. \A k \in 1..Len(batch) : batch[k] \in DOMAIN inputs
    OBVIOUS
  <2>3. \A k \in 1..Len(batch) : inputs[batch[k]] \in BuiltInput
    BY <2>2
  <2>4. \A k \in 1..Len(batch) : inputs[batch[k]].len \in Nat
    BY <2>3 DEF BuiltInput
  <2>5. QED BY <1>1, <2>1, <2>4
<1>3. PICK T : T = ToSet(q)
  OBVIOUS
<1>4. T = {inputs[batch[k]].len : k \in DOMAIN batch}
  BY <1>1, <1>2, <1>3 DEF ToSet
<1>5. IsFiniteSet(T) /\ T \subseteq Nat /\ T \subseteq Int /\ T # {}
  <2>1. IsFiniteSet(T) /\ T \subseteq Nat
    BY <1>2, <1>3, ManyElements
  <2>2. inputs[batch[1]].len \in T
    BY <1>2, <1>4
  <2>3. QED BY <2>1, <2>2
<1>6. \E m \in T : \A i \in T : i <= m
  BY <1>5, LastOf
<1>7. Longest(batch) \in T
  BY <1>4, <1>6 DEF Longest
<1>8. PICK a \in Nat, b \in Nat : a = Longest(batch) /\ b = Len(batch)
  BY <1>2, <1>5, <1>7
<1>9. a * b \in Nat
  OBVIOUS
<1>10. QED BY <1>8, <1>9 DEF Padded

-----------------------------------------------------------------------------
\* The planned batches have every sequence, and are planned well.
PlannedOk ==
  batches # <<>> =>
    /\ batches \in Seq(Seq(DOMAIN inputs)) /\ WellPlanned(batches)
    /\ RowsIn(batches) = DOMAIN inputs

InputsInv ==
  /\ cfg \in Budgets /\ inputs \in Seq(BuiltInput)
  /\ failed = <<>> \/ \E opts \in Options : failed = <<opts>> /\ ~Fitting(Len(opts))
  /\ \A i \in DOMAIN inputs : Whole(inputs[i])
  /\ PlannedOk

LEMMA PlannedAreSound ==
  ASSUME InputsInv
  PROVE  BatchesSound
<1> SUFFICES ASSUME batches # <<>> PROVE BatchesSound
  BY DEF BatchesSound
<1>1. PICK S : S = DOMAIN inputs
  OBVIOUS
<1>2. PICK made \in Seq(Seq(S)) : made = batches /\ WellPlanned(made) /\ RowsIn(made) = S
  BY <1>1 DEF InputsInv, PlannedOk
<1>3. PICK n \in Nat : n = Len(made) /\ DOMAIN made = 1..n
  OBVIOUS
<1> DEFINE rows(b) == {b[k] : k \in DOMAIN b}
<1>4. \A b : rows(b) = ToSet(b)
  BY DEF ToSet
<1>5. ASSUME NEW i \in S PROVE Cardinality({k \in DOMAIN made : i \in rows(made[k])}) = 1
  <2>1. PICK k \in DOMAIN made : i \in ToSet(made[k])
    BY <1>2 DEF RowsIn
  <2>2. \A l \in DOMAIN made : l # k => i \notin ToSet(made[l])
    BY <1>2, <2>1 DEF WellPlanned
  <2> HIDE DEF rows
  <2>3. {l \in DOMAIN made : i \in rows(made[l])} = {k}
    BY <1>4, <2>1, <2>2
  <2>4. QED BY <2>3, FS_Singleton
<1>6. ASSUME NEW k \in DOMAIN made
      PROVE  /\ Cardinality(rows(made[k])) = Len(made[k])
             /\ Len(made[k]) <= Larger(MaxRows, 1)
             /\ Len(made[k]) > 1 => Padded(made[k]) <= MaxTokens
             /\ k < Len(made) =>
                  LET more == Append(made[k], made[k + 1][1]) IN
                  Len(more) > Larger(MaxRows, 1) \/ Padded(more) > MaxTokens
  <2>1. PICK b \in Seq(S) : b = made[k] /\ b # <<>> /\ IsInjective(b)
    BY <1>2 DEF WellPlanned
  <2>2. Len(b) \in Nat /\ DOMAIN b = 1..Len(b) /\ IsFiniteSet(1..Len(b)) /\ Cardinality(1..Len(b)) = Len(b)
    <3>1. PICK m \in Nat : m = Len(b) /\ DOMAIN b = 1..m
      OBVIOUS
    <3>2. IsFiniteSet(1..m) /\ Cardinality(1..m) = m
      BY FS_Interval
    <3>3. QED BY <3>1, <3>2
  <2>3. b \in Bijection(1..Len(b), ToSet(b))
    BY <2>1, <2>2 DEF Bijection, Injection, Surjection, IsInjective, ToSet
  <2>4. Cardinality(ToSet(b)) = Len(b)
    BY <2>2, <2>3, FS_Bijection DEF ExistsBijection
  <2>5. Cardinality(rows(made[k])) = Len(made[k])
    <3> HIDE DEF rows
    <3>1. QED BY <1>4, <2>1, <2>4
  <2>6. ASSUME k < Len(made), NEW more, more = Append(made[k], made[k + 1][1])
        PROVE  Len(more) > Larger(MaxRows, 1) \/ Padded(more) > MaxTokens
    <3>1. k + 1 \in DOMAIN made
      BY <1>3, <2>6
    <3>2. made[k + 1] \in Seq(S) /\ made[k + 1] # <<>>
      BY <1>2, <3>1 DEF WellPlanned
    <3>3. PICK row \in S : row = made[k + 1][1]
      BY <3>2
    <3>4. more \in Seq(S) /\ Len(more) = Len(b) + 1 /\ more # <<>>
      <4>1. more = Append(b, row)
        BY <2>1, <2>6, <3>3
      <4>2. more \in Seq(S) /\ Len(more) = Len(b) + 1 /\ Len(b) \in Nat
        BY <4>1, AppendIs
      <4>3. QED BY <4>2
    <3>5. Padded(more) \in Nat
      BY <1>1, <3>4, PaddedIs DEF InputsInv
    <3>6. ~JoinsBatch(b, row)
      BY <1>2, <2>1, <2>6, <3>3 DEF WellPlanned
    <3>7. ~(Len(b) < Larger(MaxRows, 1) /\ Padded(more) <= MaxTokens)
      BY <2>1, <2>6, <3>3, <3>6 DEF JoinsBatch
    <3>8. Larger(MaxRows, 1) \in Int /\ MaxTokens \in Int
      BY InputsAssumption DEF Larger
    <3>9. QED BY <2>2, <3>4, <3>5, <3>7, <3>8
  <2> HIDE DEF rows
  <2>7. QED BY <1>2, <2>5, <2>6 DEF WellPlanned
<1>7. BatchesSound <=>
        /\ \A i \in DOMAIN inputs : Cardinality({k \in DOMAIN batches : i \in rows(batches[k])}) = 1
        /\ \A k \in DOMAIN batches :
             /\ Cardinality(rows(batches[k])) = Len(batches[k])
             /\ Len(batches[k]) <= Larger(MaxRows, 1)
             /\ Len(batches[k]) > 1 => Padded(batches[k]) <= MaxTokens
             /\ k < Len(batches) =>
                  LET more == Append(batches[k], batches[k + 1][1]) IN
                  Len(more) > Larger(MaxRows, 1) \/ Padded(more) > MaxTokens
  BY Zenon DEF BatchesSound
<1> HIDE DEF rows
<1>8. QED BY <1>1, <1>2, <1>5, <1>6, <1>7

LEMMA InputsInitOk == InputsInit => InputsInv
<1> SUFFICES ASSUME InputsInit PROVE InputsInv
  OBVIOUS
<1>1. cfg \in Budgets /\ inputs = <<>> /\ failed = <<>> /\ batches = <<>>
  BY DEF InputsInit
<1>2. inputs \in Seq(BuiltInput) /\ DOMAIN inputs = {}
  <2>1. <<>> \in Seq(BuiltInput) /\ DOMAIN <<>> = {}
    OBVIOUS
  <2>2. QED BY <1>1, <2>1
<1>3. QED BY <1>1, <1>2 DEF InputsInv, PlannedOk

\* The plan stays well made while the sequences are as they were.
LEMMA PlanStays ==
  ASSUME inputs' = inputs, WellPlanned(batches')
  PROVE  WellPlanned(batches)'
<1>1. PICK made : made = batches'
  OBVIOUS
<1>2. ASSUME NEW b PROVE Padded(b)' = Padded(b)
  BY Zenon DEF Padded, Longest
<1>3. ASSUME NEW b, NEW row PROVE JoinsBatch(b, row)' <=> JoinsBatch(b, row)
  BY <1>2, Zenon DEF JoinsBatch
<1>4. QED BY <1>1, <1>2, <1>3, Zenon DEF WellPlanned

LEMMA BuildKeeps ==
  ASSUME InputsInv, NEW ins \in Instructions, NEW opts \in Options, NEW state \in States,
         Build(ins, opts, state)
  PROVE  InputsInv'
<1>1. /\ cfg' = cfg /\ batches = <<>> /\ batches' = <<>>
      /\ ins \in Nat /\ opts \in Seq(Nat) /\ state \in Nat
  BY InputsAssumption DEF Build
<1>2. PICK s \in BuiltInput : /\ s = Built(ins, opts, state) /\ Whole(s)
                              /\ Fitting(Len(opts)) => s.markers = Len(opts)
  BY <1>1, BuiltIs DEF InputsInv
<1>3. \/ /\ s.markers = Len(opts) /\ inputs' = Append(inputs, s) /\ failed' = <<>>
      \/ s.markers # Len(opts) /\ failed' = <<opts>> /\ inputs' = inputs
  BY <1>2 DEF Build
<1>4. /\ inputs \in Seq(BuiltInput) /\ cfg \in Budgets
      /\ \A i \in DOMAIN inputs : Whole(inputs[i])
  BY DEF InputsInv
<1>5. /\ inputs' \in Seq(BuiltInput)
      /\ \A i \in DOMAIN inputs' : Whole(inputs'[i])
  <2>1. CASE inputs' = Append(inputs, s)
    <3>1. /\ inputs' \in Seq(BuiltInput) /\ Len(inputs') = Len(inputs) + 1 /\ Len(inputs) \in Nat
          /\ inputs'[Len(inputs) + 1] = s
          /\ \A i \in 1..Len(inputs) : inputs'[i] = inputs[i]
      BY <1>4, <2>1, AppendIs
    <3>2. /\ DOMAIN inputs = 1..Len(inputs) /\ DOMAIN inputs' = 1..(Len(inputs) + 1)
      BY <1>4, <3>1
    <3>3. \A i \in DOMAIN inputs' : i \in 1..Len(inputs) \/ i = Len(inputs) + 1
      BY <3>1, <3>2
    <3>4. QED BY <1>2, <1>4, <3>1, <3>2, <3>3, Zenon
  <2>2. CASE inputs' = inputs
    BY <1>4, <2>2
  <2>3. QED BY <1>3, <2>1, <2>2
<1>6. failed' = <<>> \/ \E o \in Options : failed' = <<o>> /\ ~Fitting(Len(o))
  BY <1>2, <1>3
<1>8. PlannedOk'
  BY <1>1 DEF PlannedOk
<1>9. /\ \A i \in DOMAIN inputs' : Whole(inputs[i])'
      /\ failed' = <<>> \/ \E o \in Options : failed' = <<o>> /\ ~(Fitting(Len(o))')
  <2>1. \A i \in DOMAIN inputs' : Whole(inputs'[i]) <=> Whole(inputs[i])'
    BY <1>1, Zenon DEF Whole, Fitting
  <2>2. \A o \in Options : Fitting(Len(o)) <=> Fitting(Len(o))'
    BY <1>1, Zenon DEF Fitting
  <2>3. QED BY <1>5, <1>6, <2>1, <2>2, Zenon
<1>10. QED BY <1>1, <1>4, <1>5, <1>8, <1>9 DEF InputsInv

LEMMA PlanStepKeeps ==
  ASSUME InputsInv, NEW order \in Seq(DOMAIN inputs), IsInjective(order),
         ToSet(order) = DOMAIN inputs,
         batches' = Batched(order), UNCHANGED <<cfg, inputs, failed>>
  PROVE  InputsInv'
<1>1. /\ Batched(order) \in Seq(Seq(DOMAIN inputs)) /\ WellPlanned(Batched(order))
      /\ RowsIn(Batched(order)) = DOMAIN inputs
  BY BatchedIs
<1>2. PICK plan : plan = Batched(order)
  OBVIOUS
<1>3. batches' = plan /\ inputs' = inputs /\ cfg' = cfg /\ failed' = failed
  BY <1>2
<1>4. WellPlanned(batches)'
  <2>1. WellPlanned(plan)
    BY <1>1, <1>2
  <2>2. WellPlanned(batches')
    BY <1>3, <2>1
  <2>3. QED BY <1>3, <2>2, PlanStays
<1>5. PlannedOk'
  BY <1>1, <1>2, <1>3, <1>4 DEF PlannedOk, RowsIn
<1>6. QED BY <1>3, <1>5 DEF InputsInv, Whole, Fitting

LEMMA InputsNextOk == InputsInv /\ [InputsNext]_inputVars => InputsInv'
<1> SUFFICES ASSUME InputsInv, [InputsNext]_inputVars PROVE InputsInv'
  OBVIOUS
<1>1. ASSUME NEW ins \in Instructions, NEW opts \in Options, NEW state \in States,
             Build(ins, opts, state)
      PROVE  InputsInv'
  BY <1>1, BuildKeeps
<1>2. CASE PlanInOrder
  BY <1>2, AsGivenIs, PlanStepKeeps DEF PlanInOrder, InputsInv
<1>3. CASE PlanByLength
  BY <1>3, ByLengthIs, PlanStepKeeps DEF PlanByLength, InputsInv
<1>4. CASE UNCHANGED inputVars
  <2>1. cfg' = cfg /\ inputs' = inputs /\ failed' = failed /\ batches' = batches
    BY <1>4 DEF inputVars
  <2>2. PlannedOk'
    <3>1. CASE batches = <<>>
      BY <2>1, <3>1 DEF PlannedOk
    <3>2. CASE batches # <<>>
      <4>1. /\ batches \in Seq(Seq(DOMAIN inputs)) /\ RowsIn(batches) = DOMAIN inputs
            /\ WellPlanned(batches)
        BY <3>2 DEF InputsInv, PlannedOk
      <4>2. WellPlanned(batches')
        BY <2>1, <4>1
      <4>3. WellPlanned(batches)'
        BY <2>1, <4>2, PlanStays
      <4>4. QED BY <2>1, <4>1, <4>3 DEF PlannedOk, RowsIn
    <3>3. QED BY <3>1, <3>2
  <2>3. QED BY <2>1, <2>2 DEF InputsInv, Whole, Fitting
<1>5. QED BY <1>1, <1>2, <1>3, <1>4 DEF InputsNext

\* Whatever a question's instructions, options and state are: a sequence that is
\* built has its options' marks and, where the budgets allow it, its end and what
\* they promise of the state; and whichever rows there are and in whichever order
\* they come, each is in one batch, and no batch is above its limits or ends
\* before it must (build_from_state_ids, build_checked, plan_batches).
THEOREM InputsAreSound == InputsSpec => []InputsSound
<1>1. InputsInv => InputsSound
  BY PlannedAreSound DEF InputsSound, InputsWhole, InputsInv, Whole
<1>2. QED BY <1>1, InputsInitOk, InputsNextOk, PTL DEF InputsSpec
=============================================================================
