----------------------------- MODULE LoopProofs -----------------------------
(***************************************************************************)
(* Facts about the loops (Loops) and the sequences that the other proofs   *)
(* are about: induction along a loop, sums, a set in order, a sequence     *)
(* taken at some of its indices.                                           *)
(***************************************************************************)
EXTENDS Loops, SequencesExt, FiniteSetTheorems, TLAPS

(***************************************************************************)
(* Members of a set in order, and a sequence taken at some of its indices. *)
(***************************************************************************)
\* The members of S that are ahead of x in the order R, a set of pairs.
Ahead(S, R, x) == {y \in S : <<y, x>> \in R}

InOneOrder(S, R) ==
  /\ IsFiniteSet(S)
  /\ \A x \in S : <<x, x>> \notin R
  /\ \A x, y, z \in S : <<x, y>> \in R /\ <<y, z>> \in R => <<x, z>> \in R
  /\ \A x, y \in S : x # y => <<x, y>> \in R \/ <<y, x>> \in R

LEMMA AheadCount ==
  ASSUME NEW S, NEW R, InOneOrder(S, R), NEW x \in S
  PROVE  /\ IsFiniteSet(Ahead(S, R, x))
         /\ Cardinality(Ahead(S, R, x)) \in Nat
         /\ Cardinality(Ahead(S, R, x)) + 1 \in 1..Cardinality(S)
<1>1. IsFiniteSet(S) /\ Cardinality(S) \in Nat
  BY FS_CardinalityType DEF InOneOrder
<1>2. Ahead(S, R, x) \in SUBSET (S \ {x})
  BY DEF Ahead, InOneOrder
<1>3. IsFiniteSet(S \ {x}) /\ Cardinality(S \ {x}) = Cardinality(S) - 1
  BY <1>1, FS_RemoveElement
<1>4. IsFiniteSet(Ahead(S, R, x)) /\ Cardinality(Ahead(S, R, x)) <= Cardinality(S \ {x})
  BY <1>2, <1>3, FS_Subset
<1>5. Cardinality(Ahead(S, R, x)) \in Nat
  BY <1>4, FS_CardinalityType
<1>6. QED BY <1>1, <1>3, <1>4, <1>5

\* No two members have equally many ahead of them.
LEMMA AheadFewer ==
  ASSUME NEW S, NEW R, InOneOrder(S, R), NEW x \in S, NEW z \in S, <<z, x>> \in R
  PROVE  Cardinality(Ahead(S, R, z)) # Cardinality(Ahead(S, R, x))
<1>1. Ahead(S, R, z) \in SUBSET Ahead(S, R, x)
  BY DEF Ahead, InOneOrder
<1>2. z \in Ahead(S, R, x) /\ z \notin Ahead(S, R, z)
  BY DEF Ahead, InOneOrder
<1>3. IsFiniteSet(Ahead(S, R, x))
  BY AheadCount
<1>4. Cardinality(Ahead(S, R, x)) = Cardinality(Ahead(S, R, z))
        => Ahead(S, R, x) = Ahead(S, R, z)
  BY <1>1, <1>3, FS_Subset
<1>5. QED BY <1>2, <1>4

LEMMA AheadOnce ==
  ASSUME NEW S, NEW R, InOneOrder(S, R), NEW x \in S, NEW z \in S,
         Cardinality(Ahead(S, R, z)) = Cardinality(Ahead(S, R, x))
  PROVE  z = x
<1>1. z # x => <<z, x>> \in R \/ <<x, z>> \in R
  BY DEF InOneOrder
<1>2. <<z, x>> \notin R /\ <<x, z>> \notin R
  BY AheadFewer
<1>3. QED BY <1>1, <1>2

\* Every place from 1 to the number of members is that of one of them.
LEMMA PlacesTaken ==
  ASSUME NEW S, NEW R, InOneOrder(S, R), NEW k \in 1..Cardinality(S)
  PROVE  \E x \in S : Cardinality(Ahead(S, R, x)) + 1 = k
<1> DEFINE n == Cardinality(S)
           f == [x \in S |-> Cardinality(Ahead(S, R, x)) + 1]
<1>1. IsFiniteSet(S) /\ n \in Nat
  BY FS_CardinalityType DEF InOneOrder
<1>2. f \in [S -> 1..n]
  BY AheadCount
<1>3. ASSUME NEW x \in S, NEW z \in S, f[x] = f[z] PROVE x = z
  <2>1. Cardinality(Ahead(S, R, x)) + 1 = Cardinality(Ahead(S, R, z)) + 1
    BY <1>3
  <2>2. Cardinality(Ahead(S, R, x)) \in Nat /\ Cardinality(Ahead(S, R, z)) \in Nat
    BY AheadCount
  <2>3. Cardinality(Ahead(S, R, x)) = Cardinality(Ahead(S, R, z))
    BY <2>1, <2>2
  <2>4. QED BY <2>3, AheadOnce
<1>4. IsFiniteSet(1..n) /\ Cardinality(1..n) = n
  BY <1>1, FS_Interval
<1> HIDE DEF f
<1>5. f \in Injection(S, 1..n)
  BY <1>2, <1>3 DEF Injection, IsInjective
<1>6. f \in Surjection(S, 1..n)
  BY <1>1, <1>4, <1>5, FS_Injection
<1>7. PICK x \in S : f[x] = k
  BY <1>6 DEF Surjection
<1>8. QED BY <1>7 DEF f

\* A sequence made of the elements of q at the indices in T, in order.
IndexOrder(T) == {pair \in T \X T : pair[1] < pair[2]}

LEMMA IndicesOrdered ==
  ASSUME NEW T, IsFiniteSet(T), T \subseteq Int
  PROVE  /\ InOneOrder(T, IndexOrder(T))
         /\ \A i \in T : Cardinality({j \in T : j <= i}) =
                           Cardinality(Ahead(T, IndexOrder(T), i)) + 1
<1>1. InOneOrder(T, IndexOrder(T))
  BY DEF InOneOrder, IndexOrder
<1>2. ASSUME NEW i \in T
      PROVE  Cardinality({j \in T : j <= i}) =
               Cardinality(Ahead(T, IndexOrder(T), i)) + 1
  <2>1. {j \in T : j <= i} = Ahead(T, IndexOrder(T), i) \cup {i}
    <3>1. \A j \in T : <<j, i>> \in IndexOrder(T) <=> j < i
      BY DEF IndexOrder
    <3>2. \A j \in T : j <= i <=> j < i \/ j = i
      OBVIOUS
    <3>3. QED BY <3>1, <3>2 DEF Ahead
  <2>2. i \notin Ahead(T, IndexOrder(T), i)
    BY DEF Ahead, IndexOrder
  <2>3. IsFiniteSet(Ahead(T, IndexOrder(T), i))
    BY <1>1, AheadCount
  <2>4. QED BY <2>1, <2>2, <2>3, FS_AddElement
<1>3. QED BY <1>1, <1>2

Place(T, i) == Cardinality({j \in T : j <= i})
Chosen(T, k) == CHOOSE i \in T : Place(T, i) = k

LEMMA PlacesAre ==
  ASSUME NEW T, IsFiniteSet(T), T \subseteq Int
  PROVE  /\ Cardinality(T) \in Nat
         /\ \A i \in T : /\ Place(T, i) \in 1..Cardinality(T)
                         /\ Chosen(T, Place(T, i)) = i
         /\ \A k \in 1..Cardinality(T) : Chosen(T, k) \in T /\ Place(T, Chosen(T, k)) = k
         /\ \A i, j \in T : i <= j <=> Place(T, i) <= Place(T, j)
<1> PICK R : R = IndexOrder(T)
  OBVIOUS
<1> DEFINE n == Cardinality(T)
<1>1. InOneOrder(T, R) /\ n \in Nat
  BY IndicesOrdered, FS_CardinalityType
<1>2. ASSUME NEW i \in T
      PROVE  /\ Place(T, i) = Cardinality(Ahead(T, R, i)) + 1
             /\ Cardinality(Ahead(T, R, i)) \in Nat /\ Place(T, i) \in 1..n
  <2>1. Place(T, i) = Cardinality(Ahead(T, R, i)) + 1
    BY IndicesOrdered DEF Place
  <2>2. QED BY <1>1, <2>1, AheadCount
<1>3. ASSUME NEW k \in 1..n PROVE Chosen(T, k) \in T /\ Place(T, Chosen(T, k)) = k
  <2>1. PICK i \in T : Cardinality(Ahead(T, R, i)) + 1 = k
    BY <1>1, <1>3, PlacesTaken
  <2>2. Place(T, i) = k
    BY <1>2, <2>1
  <2>3. QED BY <2>2 DEF Chosen
<1>4. ASSUME NEW i \in T, NEW j \in T, Place(T, i) = Place(T, j) PROVE i = j
  <2>1. Cardinality(Ahead(T, R, i)) = Cardinality(Ahead(T, R, j))
    BY <1>2, <1>4
  <2>2. QED BY <1>1, <2>1, AheadOnce
<1>5. ASSUME NEW i \in T PROVE Chosen(T, Place(T, i)) = i
  BY <1>2, <1>3, <1>4
<1>6. ASSUME NEW i \in T, NEW j \in T, i <= j PROVE Place(T, i) <= Place(T, j)
  <2>1. {h \in T : h <= i} \in SUBSET {h \in T : h <= j}
    <3>1. \A h \in T : h \in Int
      OBVIOUS
    <3>2. \A h \in T : h <= i => h <= j
      BY <1>6, <3>1
    <3>3. QED BY <3>2
  <2>2. {h \in T : h <= j} \in SUBSET T
    OBVIOUS
  <2>3. QED BY <2>1, <2>2, FS_Subset DEF Place
<1>7. ASSUME NEW i \in T, NEW j \in T PROVE i <= j <=> Place(T, i) <= Place(T, j)
  <2>1. Place(T, i) \in Int /\ Place(T, j) \in Int
    BY <1>2
  <2>2. QED BY <1>4, <1>6, <2>1
<1>8. QED BY <1>1, <1>2, <1>3, <1>5, <1>7

LEMMA AtIs ==
  ASSUME NEW q, NEW T, IsFiniteSet(T), T \subseteq Int
  PROVE  /\ \A i \in T : At(q, T)[Place(T, i)] = q[i]
         /\ \A k \in 1..Cardinality(T) : At(q, T)[k] = q[Chosen(T, k)]
<1>1. At(q, T) = [k \in 1..Cardinality(T) |-> q[Chosen(T, k)]]
  BY DEF At, Chosen, Place
<1>2. ASSUME NEW i \in T PROVE At(q, T)[Place(T, i)] = q[i]
  <2>1. Place(T, i) \in 1..Cardinality(T) /\ Chosen(T, Place(T, i)) = i
    BY PlacesAre
  <2>2. QED BY <1>1, <2>1
<1>3. QED BY <1>1, <1>2

LEMMA AtElements ==
  ASSUME NEW q, NEW T, IsFiniteSet(T), T \subseteq Int
  PROVE  /\ ToSet(At(q, T)) = {q[i] : i \in T}
         /\ At(q, T) \in Seq({q[i] : i \in T})
<1>1. PICK s : s = At(q, T)
  OBVIOUS
<1>2. s = [k \in 1..Cardinality(T) |-> q[Chosen(T, k)]]
  BY <1>1 DEF At, Chosen, Place
<1>3. Cardinality(T) \in Nat /\ \A k \in 1..Cardinality(T) : s[k] \in {q[i] : i \in T}
  BY <1>2, PlacesAre
<1>4. ASSUME NEW i \in T PROVE q[i] \in ToSet(s)
  <2>1. s[Place(T, i)] = q[i] /\ Place(T, i) \in DOMAIN s
    <3>1. Place(T, i) \in 1..Cardinality(T) /\ Chosen(T, Place(T, i)) = i
      BY PlacesAre
    <3>2. QED BY <1>2, <3>1
  <2>2. QED BY <2>1 DEF ToSet
<1>5. ToSet(s) \subseteq {q[i] : i \in T}
  BY <1>2, <1>3 DEF ToSet
<1>6. s \in Seq({q[i] : i \in T})
  BY <1>2, <1>3
<1>7. QED BY <1>1, <1>4, <1>5, <1>6

LEMMA AtWithin ==
  ASSUME NEW q, NEW T, IsFiniteSet(T), T \subseteq Int, NEW S, \A i \in T : q[i] \in S
  PROVE  /\ At(q, T) \in Seq(S) /\ Len(At(q, T)) = Cardinality(T)
         /\ DOMAIN At(q, T) = 1..Cardinality(T)
<1>1. At(q, T) = [k \in 1..Cardinality(T) |-> q[Chosen(T, k)]]
  BY DEF At, Chosen, Place
<1>2. Cardinality(T) \in Nat /\ \A k \in 1..Cardinality(T) : Chosen(T, k) \in T
  BY PlacesAre
<1>3. Cardinality(T) \in Nat /\ \A k \in 1..Cardinality(T) : q[Chosen(T, k)] \in S
  BY <1>2
<1>4. PICK c \in Nat : c = Cardinality(T)
  BY <1>3
<1>8. PICK s : s = [k \in 1..c |-> q[Chosen(T, k)]]
  OBVIOUS
<1>5. s \in [1..c -> S]
  BY <1>3, <1>4, <1>8
<1>6. s \in Seq(S) /\ Len(s) = c /\ DOMAIN s = 1..c
  BY <1>5
<1>7. QED BY <1>1, <1>4, <1>6, <1>8

LEMMA AtSame ==
  ASSUME NEW q, NEW r, NEW T, IsFiniteSet(T), T \subseteq Int, \A i \in T : q[i] = r[i]
  PROVE  At(q, T) = At(r, T)
<1>1. \A k \in 1..Cardinality(T) : q[Chosen(T, k)] = r[Chosen(T, k)]
  BY PlacesAre
<1>2. At(q, T) = [k \in 1..Cardinality(T) |-> q[Chosen(T, k)]]
  BY DEF At, Chosen, Place
<1>3. At(r, T) = [k \in 1..Cardinality(T) |-> r[Chosen(T, k)]]
  BY DEF At, Chosen, Place
<1>4. QED BY <1>1, <1>2, <1>3

\* Taking some of the elements in two steps.
PlacesOf(K, T) == {Place(K, i) : i \in T}

LEMMA AtOfAt ==
  ASSUME NEW q, NEW K, IsFiniteSet(K), K \subseteq Int, NEW T \in SUBSET K
  PROVE  At(At(q, K), PlacesOf(K, T)) = At(q, T)
<1>a. PICK U : U = PlacesOf(K, T)
  OBVIOUS
<1>1. IsFiniteSet(T) /\ T \subseteq Int
  BY FS_Subset
<1>0. Cardinality(K) \in Nat /\ \A i \in K : Place(K, i) \in 1..Cardinality(K)
  BY PlacesAre
<1>2. U \in SUBSET (1..Cardinality(K)) /\ U \subseteq Int
  <2>1. \A u \in U : \E i \in T : u = Place(K, i)
    BY <1>a DEF PlacesOf
  <2>2. \A u \in U : u \in 1..Cardinality(K)
    BY <1>0, <2>1
  <2>3. 1..Cardinality(K) \subseteq Int
    BY <1>0
  <2>4. QED BY <2>2, <2>3
<1>3. IsFiniteSet(U)
  <2>1. IsFiniteSet(1..Cardinality(K))
    BY <1>0, FS_Interval
  <2>2. QED BY <1>2, <2>1, FS_Subset
<1>4. ASSUME NEW A \in SUBSET T
      PROVE  Cardinality({Place(K, i) : i \in A}) = Cardinality(A)
  <2> DEFINE B == {Place(K, i) : i \in A}
             f == [i \in A |-> Place(K, i)]
  <2>1. f \in [A -> B] /\ \A u \in B : \E i \in A : f[i] = u
    OBVIOUS
  <2>2. \A i, j \in A : f[i] = f[j] => i = j
    <3>1. \A i \in A : f[i] = Place(K, i) /\ Chosen(K, Place(K, i)) = i
      BY PlacesAre
    <3>2. QED BY <3>1
  <2>3. IsFiniteSet(A)
    BY <1>1, <1>4, FS_Subset
  <2> HIDE DEF f, B
  <2>4. f \in Surjection(A, B) /\ f \in Injection(A, B)
    BY <2>1, <2>2 DEF Surjection, Injection, IsInjective
  <2>5. QED BY <2>3, <2>4, FS_Surjection DEF B
<1>5. Cardinality(U) = Cardinality(T)
  BY <1>4, <1>a DEF PlacesOf
<1>6. ASSUME NEW i \in T PROVE Place(U, Place(K, i)) = Place(T, i)
  <2>1. {u \in U : u <= Place(K, i)} = {Place(K, j) : j \in {h \in T : h <= i}}
    <3>1. \A j \in T : Place(K, j) <= Place(K, i) <=> j <= i
      BY <1>6, PlacesAre
    <3>2. QED BY <1>a, <3>1 DEF PlacesOf
  <2>2. Cardinality({Place(K, j) : j \in {h \in T : h <= i}}) = Cardinality({h \in T : h <= i})
    BY <1>4
  <2>3. QED BY <2>1, <2>2 DEF Place
<1>7. ASSUME NEW k \in 1..Cardinality(T)
      PROVE  At(At(q, K), U)[k] = q[Chosen(T, k)]
  <2>1. PICK i \in T : i = Chosen(T, k) /\ Place(T, i) = k
    BY <1>1, PlacesAre
  <2>2. Place(K, i) \in U /\ Place(U, Place(K, i)) = k
    BY <1>6, <1>a, <2>1 DEF PlacesOf
  <2>3. At(At(q, K), U)[k] = At(q, K)[Place(K, i)]
    BY <1>2, <1>3, <2>2, AtIs
  <2>4. At(q, K)[Place(K, i)] = q[i]
    BY AtIs
  <2>5. QED BY <2>1, <2>3, <2>4
<1>8. At(At(q, K), U) = [k \in 1..Cardinality(T) |-> At(At(q, K), U)[k]]
  <2>1. At(At(q, K), U) = [k \in 1..Cardinality(U) |-> At(q, K)[Chosen(U, k)]]
    <3>1. PICK r : r = At(q, K)
      OBVIOUS
    <3>2. At(r, U) = [k \in 1..Cardinality(U) |-> r[Chosen(U, k)]]
      BY DEF At, Chosen, Place
    <3>3. QED BY <3>1, <3>2
  <2>2. QED BY <1>5, <2>1
<1>9. At(q, T) = [k \in 1..Cardinality(T) |-> q[Chosen(T, k)]]
  BY DEF At, Chosen, Place
<1>10. QED BY <1>7, <1>8, <1>9, <1>a

-----------------------------------------------------------------------------
(***************************************************************************)
(* Induction along a loop.  What holds before the loop and is kept by each *)
(* of its iterations is given as a set, the numbers of iterations after    *)
(* which it holds, so that the lemmas have no operator for a parameter.    *)
(***************************************************************************)
LEMMA Induction ==
  ASSUME NEW S, 0 \in S, \A k \in Nat : k \in S => k + 1 \in S
  PROVE  \A n \in Nat : n \in S
<1> SUFFICES ASSUME NEW n \in Nat, n \notin S PROVE FALSE
  OBVIOUS
<1> DEFINE C == {k \in 0..n : k \notin S}
<1>1. IsFiniteSet(C) /\ C \subseteq Int /\ n \in C
  <2>1. IsFiniteSet(0..n) /\ C \in SUBSET (0..n)
    BY FS_Interval
  <2>2. QED BY <2>1, FS_Subset
<1>2. /\ \A i \in C : Place(C, i) \in 1..Cardinality(C)
      /\ \A k \in 1..Cardinality(C) : Chosen(C, k) \in C /\ Place(C, Chosen(C, k)) = k
      /\ \A i, j \in C : i <= j <=> Place(C, i) <= Place(C, j)
      /\ Cardinality(C) \in Nat
  <2> HIDE DEF C
  <2>1. QED BY <1>1, PlacesAre
<1>3. 1 \in 1..Cardinality(C)
  <2> HIDE DEF C
  <2>1. QED BY <1>1, <1>2
<1>4. PICK m \in C : Place(C, m) = 1
  BY <1>2, <1>3
<1>5. m \in 0..n /\ m \notin S /\ m # 0
  BY <1>4
<1>6. m - 1 \in 0..n /\ m - 1 \in Nat
  BY <1>5
<1>7. m - 1 \notin S
  BY <1>5, <1>6
<1>8. m - 1 \in C
  BY <1>6, <1>7
<1>9. 1 <= Place(C, m - 1)
  BY <1>2, <1>8
<1>10. m <= m - 1
  BY <1>2, <1>4, <1>8, <1>9
<1>11. QED BY <1>5, <1>10

LEMMA LoopInduction ==
  ASSUME NEW n \in Nat, NEW S, 0 \in S, \A k \in 0..(n - 1) : k \in S => k + 1 \in S
  PROVE  \A k \in 0..n : k \in S
<1> PICK T : T = S \cup {k \in Nat : k > n}
  OBVIOUS
<1>1. 0 \in T
  OBVIOUS
<1>2. ASSUME NEW k \in Nat, k \in T PROVE k + 1 \in T
  <2>1. CASE k < n
    <3>1. k \in S
      BY <1>2, <2>1
    <3>2. QED BY <2>1, <3>1
  <2>2. CASE k >= n
    BY <2>2
  <2>3. QED BY <2>1, <2>2
<1>3. \A k \in Nat : k \in T
  BY <1>1, <1>2, Induction
<1>4. QED BY <1>3

\* A loop of n iterations has a result after each of them.
RunOf(f, n, b, next) ==
  f[0] = b /\ \A k \in 1..n : f[k] = next[<<f[k - 1], k>>]

LEMMA LoopRuns ==
  ASSUME NEW V, NEW b \in V, NEW n \in Nat, NEW next \in [V \X (1..n) -> V]
  PROVE  \E f \in [0..n -> V] : RunOf(f, n, b, next)
<1> DEFINE S == {k \in 0..n : \E f \in [0..k -> V] : RunOf(f, k, b, next)}
<1>1. 0 \in S
  <2> DEFINE g == [j \in 0..0 |-> b]
  <2>1. g \in [0..0 -> V] /\ RunOf(g, 0, b, next)
    BY DEF RunOf
  <2>2. QED BY <2>1
<1>2. ASSUME NEW k \in 0..(n - 1), k \in S PROVE k + 1 \in S
  <2>1. PICK f \in [0..k -> V] : RunOf(f, k, b, next)
    BY <1>2
  <2> DEFINE last == next[<<f[k], k + 1>>]
             g == [j \in 0..(k + 1) |-> IF j <= k THEN f[j] ELSE last]
  <2>2. last \in V
    <3>1. f[k] \in V /\ k + 1 \in 1..n
      OBVIOUS
    <3>2. QED BY <3>1
  <2> HIDE DEF last
  <2>3. g \in [0..(k + 1) -> V] /\ g[0] = f[0] /\ g[k + 1] = last /\ g[k] = f[k]
    BY <2>2
  <2>4. \A j \in 1..k : g[j] = f[j] /\ g[j - 1] = f[j - 1]
    OBVIOUS
  <2> HIDE DEF g
  <2>5. ASSUME NEW j \in 1..(k + 1) PROVE g[j] = next[<<g[j - 1], j>>]
    <3>1. CASE j \in 1..k
      BY <2>1, <2>4, <3>1 DEF RunOf
    <3>2. CASE j = k + 1
      <4>1. j - 1 = k
        BY <3>2
      <4>2. QED BY <2>3, <3>2, <4>1 DEF last
    <3>3. QED BY <3>1, <3>2
  <2>6. RunOf(g, k + 1, b, next)
    BY <2>1, <2>3, <2>5 DEF RunOf
  <2>7. k + 1 \in 0..n
    OBVIOUS
  <2>8. QED BY <2>3, <2>6, <2>7
<1>3. n \in S
  <2> HIDE DEF S
  <2>1. QED BY <1>1, <1>2, LoopInduction
<1>4. QED BY <1>3

-----------------------------------------------------------------------------
(***************************************************************************)
(* Sums.                                                                   *)
(***************************************************************************)
LEMMA Sums ==
  ASSUME NEW q \in Seq(Int)
  PROVE  /\ PartSums(q) \in [0..Len(q) -> Int] /\ PartSums(q)[0] = 0
         /\ \A n \in 1..Len(q) : PartSums(q)[n] = PartSums(q)[n - 1] + q[n]
         /\ SumOf(q) \in Int
<1> DEFINE n == Len(q)
<1>1. n \in Nat /\ \A k \in 1..n : q[k] \in Int
  OBVIOUS
<1>2. PICK next : next = [p \in Int \X (1..n) |-> p[1] + q[p[2]]]
  OBVIOUS
<1>3. /\ next \in [Int \X (1..n) -> Int]
      /\ \A v \in Int, k \in 1..n : next[<<v, k>>] = v + q[k]
  <2>1. \A p \in Int \X (1..n) : p[1] + q[p[2]] \in Int
    BY <1>1
  <2>2. QED BY <1>2, <2>1
<1>4. PICK f \in [0..n -> Int] : RunOf(f, n, 0, next)
  <2> HIDE DEF n
  <2>1. QED BY <1>1, <1>3, LoopRuns, 0 \in Int
<1>5. f = [k \in 0..n |-> IF k = 0 THEN 0 ELSE f[k - 1] + q[k]]
  <2>1. f[0] = 0
    BY <1>4 DEF RunOf
  <2>2. ASSUME NEW k \in 1..n PROVE f[k] = f[k - 1] + q[k]
    <3>1. f[k - 1] \in Int
      BY <1>1
    <3>2. f[k] = next[<<f[k - 1], k>>]
      BY <1>4 DEF RunOf
    <3>3. QED BY <1>3, <3>1, <3>2
  <2> HIDE DEF n
  <2>3. QED BY <1>1, <2>1, <2>2
<1>6. PICK g : g = PartSums(q)
  OBVIOUS
<1>7. g = [k \in 0..n |-> IF k = 0 THEN 0 ELSE g[k - 1] + q[k]]
  BY <1>5, <1>6 DEF PartSums
<1> HIDE DEF n
<1>8. g[0] = 0 /\ \A k \in 1..n : g[k] = g[k - 1] + q[k]
  <2>1. 0 \in 0..n /\ \A k \in 1..n : k \in 0..n /\ k # 0
    BY <1>1
  <2>2. \A k \in 0..n : g[k] = IF k = 0 THEN 0 ELSE g[k - 1] + q[k]
    BY <1>7
  <2>3. QED BY <2>1, <2>2
<1> DEFINE S == {k \in 0..n : g[k] \in Int}
<1>9. 0 \in S
  BY <1>1, <1>8
<1>10. ASSUME NEW k \in 0..(n - 1), k \in S PROVE k + 1 \in S
  <2>1. k + 1 \in 1..n /\ k + 1 - 1 = k
    BY <1>1
  <2>2. g[k + 1] = g[k] + q[k + 1]
    BY <1>8, <2>1
  <2>3. QED BY <1>1, <1>10, <2>1, <2>2
<1>11. \A k \in 0..n : k \in S
  <2> HIDE DEF S
  <2>1. QED BY <1>1, <1>9, <1>10, LoopInduction
<1>12. g \in [0..n -> Int]
  <2>1. \A k \in 0..n : g[k] \in Int
    BY <1>11
  <2>2. QED BY <1>7, <2>1, Zenon
<1>13. SumOf(q) = g[n] /\ n \in 0..n
  BY <1>1, <1>6 DEF SumOf, n
<1>14. QED BY <1>6, <1>8, <1>12, <1>13 DEF n

\* The sums of two sequences that begin alike.
LEMMA SumsAlike ==
  ASSUME NEW q \in Seq(Int), NEW r \in Seq(Int),
         NEW n \in Nat, n <= Len(q), n <= Len(r), \A k \in 1..n : q[k] = r[k]
  PROVE  \A k \in 0..n : PartSums(q)[k] = PartSums(r)[k]
<1>1. PICK g : g = PartSums(q)
  OBVIOUS
<1>2. PICK h : h = PartSums(r)
  OBVIOUS
<1>3. /\ g[0] = 0 /\ \A k \in 1..n : g[k] = g[k - 1] + q[k]
      /\ h[0] = 0 /\ \A k \in 1..n : h[k] = h[k - 1] + r[k]
  <2>1. \A k \in 1..n : k \in 1..Len(q) /\ k \in 1..Len(r)
    OBVIOUS
  <2>2. g[0] = 0 /\ \A k \in 1..Len(q) : g[k] = g[k - 1] + q[k]
    BY <1>1, Sums
  <2>3. h[0] = 0 /\ \A k \in 1..Len(r) : h[k] = h[k - 1] + r[k]
    BY <1>2, Sums
  <2>4. QED BY <2>1, <2>2, <2>3
<1> DEFINE S == {k \in 0..n : g[k] = h[k]}
<1>4. 0 \in S
  BY <1>3
<1>5. ASSUME NEW k \in 0..(n - 1), k \in S PROVE k + 1 \in S
  <2>1. k + 1 \in 1..n /\ k + 1 - 1 = k
    OBVIOUS
  <2>2. g[k + 1] = g[k] + q[k + 1] /\ h[k + 1] = h[k] + r[k + 1]
    BY <1>3, <2>1
  <2>3. QED BY <1>5, <2>1, <2>2
<1>6. \A k \in 0..n : k \in S
  <2> HIDE DEF S
  <2>1. QED BY <1>4, <1>5, LoopInduction
<1>7. QED BY <1>1, <1>2, <1>6

-----------------------------------------------------------------------------
(***************************************************************************)
(* Sequences and the sets of their elements.                               *)
(***************************************************************************)
LEMMA AppendIs ==
  ASSUME NEW S, NEW s \in Seq(S), NEW e \in S
  PROVE  /\ Append(s, e) \in Seq(S) /\ Len(Append(s, e)) = Len(s) + 1
         /\ Len(s) \in Nat /\ Append(s, e)[Len(s) + 1] = e
         /\ \A i \in 1..Len(s) : Append(s, e)[i] = s[i]
  OBVIOUS

LEMMA TakeOff ==
  ASSUME NEW S, NEW q \in Seq(S), q # <<>>
  PROVE  /\ Head(q) \in S /\ Tail(q) \in Seq(S)
         /\ ToSet(q) = {Head(q)} \cup ToSet(Tail(q))
<1>1. /\ Len(q) \in Nat \ {0} /\ DOMAIN q = 1..Len(q) /\ Head(q) = q[1]
      /\ \A i \in 1..Len(q) : q[i] \in S
  OBVIOUS
<1>2. /\ Tail(q) \in Seq(S) /\ DOMAIN Tail(q) = 1..(Len(q) - 1)
      /\ \A i \in 1..(Len(q) - 1) : Tail(q)[i] = q[i + 1]
  OBVIOUS
<1>3. ToSet(q) \subseteq {Head(q)} \cup ToSet(Tail(q))
  <2> SUFFICES ASSUME NEW i \in 1..Len(q), i # 1
               PROVE  q[i] \in ToSet(Tail(q))
    BY <1>1 DEF ToSet
  <2>1. i - 1 \in 1..(Len(q) - 1) /\ Tail(q)[i - 1] = q[i]
    BY <1>1, <1>2
  <2>2. QED BY <1>2, <2>1 DEF ToSet
<1>4. ToSet(Tail(q)) \subseteq ToSet(q)
  <2> SUFFICES ASSUME NEW i \in 1..(Len(q) - 1)
               PROVE  Tail(q)[i] \in ToSet(q)
    BY <1>2 DEF ToSet
  <2>1. i + 1 \in 1..Len(q) /\ Tail(q)[i] = q[i + 1]
    BY <1>1, <1>2
  <2>2. QED BY <1>1, <2>1 DEF ToSet
<1>5. Head(q) \in ToSet(q)
  BY <1>1 DEF ToSet
<1>6. QED BY <1>1, <1>2, <1>3, <1>4, <1>5

LEMMA AddLast ==
  ASSUME NEW S, NEW q \in Seq(S), NEW e \in S
  PROVE  Append(q, e) \in Seq(S) /\ ToSet(Append(q, e)) = ToSet(q) \cup {e}
<1>1. /\ DOMAIN q = 1..Len(q) /\ Len(q) \in Nat
      /\ DOMAIN Append(q, e) = 1..(Len(q) + 1)
      /\ \A i \in 1..Len(q) : Append(q, e)[i] = q[i]
      /\ Append(q, e)[Len(q) + 1] = e
  OBVIOUS
<1>2. 1..(Len(q) + 1) = 1..Len(q) \cup {Len(q) + 1}
  BY <1>1
<1>3. ToSet(Append(q, e)) = ToSet(q) \cup {e}
  BY <1>1, <1>2, Zenon DEF ToSet
<1>4. QED BY <1>3

LEMMA JoinTwo ==
  ASSUME NEW S, NEW q \in Seq(S), NEW r \in Seq(S)
  PROVE  q \o r \in Seq(S) /\ ToSet(q \o r) = ToSet(q) \cup ToSet(r)
<1>1. /\ DOMAIN q = 1..Len(q) /\ Len(q) \in Nat /\ DOMAIN r = 1..Len(r) /\ Len(r) \in Nat
      /\ DOMAIN (q \o r) = 1..(Len(q) + Len(r))
      /\ \A i \in 1..Len(q) : (q \o r)[i] = q[i]
      /\ \A i \in 1..Len(r) : (q \o r)[Len(q) + i] = r[i]
  OBVIOUS
<1>2. ToSet(q) \subseteq ToSet(q \o r)
  BY <1>1 DEF ToSet
<1>3. ToSet(r) \subseteq ToSet(q \o r)
  <2> SUFFICES ASSUME NEW i \in 1..Len(r) PROVE r[i] \in ToSet(q \o r)
    BY <1>1 DEF ToSet
  <2>1. Len(q) + i \in DOMAIN (q \o r) /\ (q \o r)[Len(q) + i] = r[i]
    BY <1>1
  <2>2. QED BY <2>1 DEF ToSet
<1>4. ToSet(q \o r) \subseteq ToSet(q) \cup ToSet(r)
  <2> SUFFICES ASSUME NEW i \in 1..(Len(q) + Len(r))
               PROVE  (q \o r)[i] \in ToSet(q) \cup ToSet(r)
    BY <1>1 DEF ToSet
  <2>1. CASE i <= Len(q)
    BY <1>1, <2>1 DEF ToSet
  <2>2. CASE i > Len(q)
    <3>1. i - Len(q) \in 1..Len(r) /\ (q \o r)[i] = r[i - Len(q)]
      BY <1>1, <2>2
    <3>2. QED BY <1>1, <3>1 DEF ToSet
  <2>3. QED BY <1>1, <2>1, <2>2
<1>5. QED BY <1>2, <1>3, <1>4

LEMMA ManyElements ==
  ASSUME NEW S, NEW q \in Seq(S)
  PROVE  IsFiniteSet(ToSet(q)) /\ ToSet(q) \subseteq S
<1>1. DOMAIN q = 1..Len(q) /\ Len(q) \in Nat
  OBVIOUS
<1>2. IsFiniteSet(1..Len(q))
  BY <1>1, FS_Interval
<1>3. q \in Surjection(1..Len(q), ToSet(q))
  BY <1>1 DEF Surjection, ToSet
<1>4. IsFiniteSet(ToSet(q))
  BY <1>2, <1>3, FS_Surjection
<1>5. ToSet(q) \subseteq S
  BY <1>1 DEF ToSet
<1>6. QED BY <1>4, <1>5

\* Sequences in which nothing is twice.
LEMMA AtInjective ==
  ASSUME NEW q, NEW T, IsFiniteSet(T), T \subseteq Int,
         \A i, j \in T : q[i] = q[j] => i = j
  PROVE  IsInjective(At(q, T))
<1>1. PICK r : r = At(q, T)
  OBVIOUS
<1>2. DOMAIN r = 1..Cardinality(T) /\ \A k \in 1..Cardinality(T) : r[k] = q[Chosen(T, k)]
  BY <1>1 DEF At, Chosen, Place
<1>3. \A k \in 1..Cardinality(T) : Chosen(T, k) \in T /\ Place(T, Chosen(T, k)) = k
  BY PlacesAre
<1>4. ASSUME NEW k \in DOMAIN r, NEW l \in DOMAIN r, r[k] = r[l] PROVE k = l
  <2>1. Chosen(T, k) = Chosen(T, l)
    BY <1>2, <1>3, <1>4
  <2>2. Place(T, Chosen(T, k)) = k /\ Place(T, Chosen(T, l)) = l
    BY <1>2, <1>3
  <2>3. QED BY <2>1, <2>2
<1>5. QED BY <1>1, <1>4 DEF IsInjective

LEMMA JoinInjective ==
  ASSUME NEW S, NEW q \in Seq(S), NEW r \in Seq(S), IsInjective(q), IsInjective(r),
         \A x \in ToSet(q) : x \notin ToSet(r)
  PROVE  IsInjective(q \o r)
<1>1. PICK s : s = q \o r
  OBVIOUS
<1>2. PICK m \in Nat : m = Len(q)
  OBVIOUS
<1>3. PICK n \in Nat : n = Len(r)
  OBVIOUS
<1>4. /\ DOMAIN q = 1..m /\ DOMAIN r = 1..n /\ DOMAIN s = 1..(m + n)
      /\ \A i \in 1..m : s[i] = q[i]
      /\ \A i \in 1..(m + n) : i > m => i - m \in 1..n /\ s[i] = r[i - m]
  BY <1>1, <1>2, <1>3
<1>5. \A i \in 1..m, j \in 1..n : q[i] # r[j]
  BY <1>4 DEF ToSet
<1>6. \A i, j \in 1..m : q[i] = q[j] => i = j
  BY <1>4 DEF IsInjective
<1>7. \A i, j \in 1..n : r[i] = r[j] => i = j
  BY <1>4 DEF IsInjective
<1>8. ASSUME NEW i \in 1..(m + n), NEW j \in 1..(m + n), s[i] = s[j] PROVE i = j
  <2>1. CASE i <= m /\ j <= m
    BY <1>4, <1>6, <1>8, <2>1
  <2>2. CASE i <= m /\ j > m
    <3>1. i \in 1..m /\ s[i] = q[i] /\ j - m \in 1..n /\ s[j] = r[j - m]
      BY <1>4, <2>2
    <3>2. QED BY <1>5, <1>8, <3>1
  <2>3. CASE i > m /\ j <= m
    <3>1. j \in 1..m /\ s[j] = q[j] /\ i - m \in 1..n /\ s[i] = r[i - m]
      BY <1>4, <2>3
    <3>2. QED BY <1>5, <1>8, <3>1
  <2>4. CASE i > m /\ j > m
    <3>1. i - m \in 1..n /\ s[i] = r[i - m] /\ j - m \in 1..n /\ s[j] = r[j - m]
      BY <1>4, <2>4
    <3>2. i - m = j - m
      BY <1>7, <1>8, <3>1
    <3>3. QED BY <3>2
  <2>5. QED BY <2>1, <2>2, <2>3, <2>4
<1>9. QED BY <1>1, <1>4, <1>8 DEF IsInjective

\* A finite set of numbers has a last one, up to which all of it is.
LEMMA LastOf ==
  ASSUME NEW T, IsFiniteSet(T), T \subseteq Int, T # {}
  PROVE  /\ \E m \in T : \A i \in T : i <= m
         /\ \E m \in T : Place(T, m) = 1
<1>1. /\ Cardinality(T) \in Nat
      /\ \A i \in T : Place(T, i) \in 1..Cardinality(T)
      /\ \A k \in 1..Cardinality(T) : Chosen(T, k) \in T /\ Place(T, Chosen(T, k)) = k
      /\ \A i, j \in T : i <= j <=> Place(T, i) <= Place(T, j)
  BY PlacesAre
<1>2. Cardinality(T) \in 1..Cardinality(T) /\ 1 \in 1..Cardinality(T)
  <2>1. PICK i \in T : TRUE
    OBVIOUS
  <2>2. Place(T, i) \in 1..Cardinality(T)
    BY <1>1
  <2>3. QED BY <1>1, <2>2
<1>3. PICK m \in T : Place(T, m) = Cardinality(T)
  BY <1>1, <1>2
<1>4. \A i \in T : i <= m
  BY <1>1, <1>3
<1>5. QED BY <1>1, <1>2, <1>4

-----------------------------------------------------------------------------
\* A loop that goes on with one more element.
LEMMA SumsAppend ==
  ASSUME NEW q \in Seq(Int), NEW x \in Int
  PROVE  /\ Append(q, x) \in Seq(Int) /\ Len(Append(q, x)) = Len(q) + 1
         /\ \A k \in 0..Len(q) : PartSums(Append(q, x))[k] = PartSums(q)[k]
         /\ SumOf(Append(q, x)) = SumOf(q) + x
<1>1. PICK r : r = Append(q, x)
  OBVIOUS
<1>2. /\ r \in Seq(Int) /\ Len(r) = Len(q) + 1 /\ Len(q) \in Nat
      /\ r[Len(q) + 1] = x /\ \A k \in 1..Len(q) : q[k] = r[k]
  BY <1>1, AppendIs
<1>3. PICK n \in Nat : n = Len(q)
  BY <1>2
<1>4. n <= Len(q) /\ n <= Len(r) /\ \A k \in 1..n : q[k] = r[k]
  BY <1>2, <1>3
<1>5. \A k \in 0..n : PartSums(q)[k] = PartSums(r)[k]
  BY <1>2, <1>4, SumsAlike
<1>6. PICK g : g = PartSums(r)
  OBVIOUS
<1>7. g[n + 1] = g[n + 1 - 1] + r[n + 1]
  <2>1. n + 1 \in 1..Len(r)
    BY <1>2, <1>3
  <2>2. \A k \in 1..Len(r) : g[k] = g[k - 1] + r[k]
    BY <1>2, <1>6, Sums
  <2>3. QED BY <2>1, <2>2
<1>8. g[n + 1] = g[n] + x
  BY <1>2, <1>3, <1>7
<1>9. SumOf(r) = g[n + 1] /\ SumOf(q) = PartSums(q)[n]
  BY <1>2, <1>3, <1>6 DEF SumOf
<1>10. n \in 0..n
  OBVIOUS
<1>11. QED BY <1>1, <1>2, <1>3, <1>5, <1>6, <1>8, <1>9, <1>10

\* A sum that reaches a number above 0 reaches it at one of the elements.
LEMMA Crossing ==
  ASSUME NEW q \in Seq(Nat), NEW n \in 0..Len(q), NEW m \in Nat \ {0}, PartSums(q)[n] >= m
  PROVE  \E i \in 1..n : PartSums(q)[i] >= m /\ PartSums(q)[i - 1] < m
<1>0. q \in Seq(Int) /\ Len(q) \in Nat /\ n \in Nat
  OBVIOUS
<1>1. PICK g : g = PartSums(q)
  OBVIOUS
<1>2. g[0] = 0 /\ \A k \in 0..n : g[k] \in Int
  <2>1. g[0] = 0 /\ g \in [0..Len(q) -> Int]
    BY <1>0, <1>1, Sums
  <2>2. \A k \in 0..n : k \in 0..Len(q)
    BY <1>0
  <2>3. QED BY <2>1, <2>2
<1> SUFFICES ASSUME ~\E i \in 1..n : g[i] >= m /\ g[i - 1] < m
             PROVE  FALSE
  BY <1>1
<1> DEFINE S == {k \in 0..n : g[k] < m}
<1>3. 0 \in S
  BY <1>2
<1>4. ASSUME NEW k \in 0..(n - 1), k \in S PROVE k + 1 \in S
  <2>1. k + 1 \in 1..n /\ k + 1 - 1 = k /\ k + 1 \in 0..n
    OBVIOUS
  <2>2. ~(g[k + 1] >= m /\ g[k + 1 - 1] < m)
    BY <2>1
  <2>3. g[k] < m
    BY <1>4
  <2>4. g[k + 1] \in Int
    BY <1>2, <2>1
  <2>5. QED BY <2>1, <2>2, <2>3, <2>4
<1>5. \A k \in 0..n : k \in S
  <2> HIDE DEF S
  <2>1. QED BY <1>0, <1>3, <1>4, LoopInduction
<1>6. g[n] < m /\ g[n] \in Int
  BY <1>2, <1>5
<1>7. QED BY <1>1, <1>6

-----------------------------------------------------------------------------
(***************************************************************************)
(* Extremes, images, beginnings of sequences.                               *)
(***************************************************************************)
LEMMA LargestOf ==
  ASSUME NEW T, IsFiniteSet(T), T \subseteq Int, T # {}
  PROVE  Max(T) \in T /\ \A i \in T : i <= Max(T)
<1>1. PICK m \in T : \A i \in T : i <= m
  BY LastOf
<1>2. m \in T /\ \A i \in T : m >= i
  BY <1>1
<1>3. PICK x : x = Max(T)
  OBVIOUS
<1>4. x \in T /\ \A i \in T : x >= i
  BY <1>2, <1>3 DEF Max
<1>5. QED BY <1>3, <1>4

LEMMA PairExtremes ==
  ASSUME NEW a \in Int, NEW b \in Int
  PROVE  /\ Min({a, b}) = IF a <= b THEN a ELSE b
         /\ Max({a, b}) = IF a <= b THEN b ELSE a
<1>1. PICK x : x = Min({a, b})
  OBVIOUS
<1>2. PICK y : y = Max({a, b})
  OBVIOUS
<1>3. \E z \in {a, b} : \A i \in {a, b} : z <= i
  OBVIOUS
<1>4. \E z \in {a, b} : \A i \in {a, b} : z >= i
  OBVIOUS
<1>5. x \in {a, b} /\ \A i \in {a, b} : x <= i
  BY <1>1, <1>3 DEF Min
<1>6. y \in {a, b} /\ \A i \in {a, b} : y >= i
  BY <1>2, <1>4 DEF Max
<1>7. QED BY <1>1, <1>2, <1>5, <1>6

\* What a function makes of a finite set is finite.
LEMMA FiniteImage ==
  ASSUME NEW T, IsFiniteSet(T), NEW f, DOMAIN f = T, f = [i \in T |-> f[i]], NEW S, S = {f[i] : i \in T}
  PROVE  IsFiniteSet(S)
<1>1. f \in [T -> S]
  OBVIOUS
<1>2. f \in Surjection(T, S)
  BY <1>1 DEF Surjection
<1>3. QED BY <1>2, FS_Surjection

LEMMA BeginningIs ==
  ASSUME NEW S, NEW q \in Seq(S), NEW k \in Nat
  PROVE  /\ Min({k, Len(q)}) \in 0..Len(q) /\ Min({k, Len(q)}) <= k
         /\ Len(q) \in Nat
         /\ SubSeq(q, 1, Min({k, Len(q)})) \in Seq(S)
         /\ Len(SubSeq(q, 1, Min({k, Len(q)}))) = Min({k, Len(q)})
         /\ \A i \in 1..Min({k, Len(q)}) : SubSeq(q, 1, Min({k, Len(q)}))[i] = q[i]
<1>1. PICK n \in Nat : n = Len(q)
  OBVIOUS
<1>2. PICK m : m = Min({k, Len(q)})
  OBVIOUS
<1>3. m = IF k <= n THEN k ELSE n
  BY <1>1, <1>2, PairExtremes
<1>4. m \in 0..n /\ m \in Nat /\ m <= k
  BY <1>3
<1>5. PICK r : r = SubSeq(q, 1, m)
  OBVIOUS
<1>6. r \in Seq(S) /\ Len(r) = m /\ \A i \in 1..m : r[i] = q[i]
  BY <1>1, <1>4, <1>5
<1>7. QED BY <1>1, <1>2, <1>4, <1>5, <1>6

-----------------------------------------------------------------------------
(***************************************************************************)
(* The members of a set in order.                                           *)
(***************************************************************************)
ListedBy(S, R) ==
  [k \in 1..Cardinality(S) |-> CHOOSE x \in S : Cardinality(Ahead(S, R, x)) = k - 1]

LEMMA AheadMore ==
  ASSUME NEW S, NEW R, InOneOrder(S, R), NEW x \in S, NEW z \in S
  PROVE  <<x, z>> \in R <=> Cardinality(Ahead(S, R, x)) < Cardinality(Ahead(S, R, z))
<1>1. ASSUME NEW a \in S, NEW b \in S, <<a, b>> \in R
      PROVE  Cardinality(Ahead(S, R, a)) < Cardinality(Ahead(S, R, b))
  <2>1. Ahead(S, R, a) \in SUBSET Ahead(S, R, b)
    BY <1>1 DEF Ahead, InOneOrder
  <2>2. IsFiniteSet(Ahead(S, R, b))
    BY AheadCount
  <2>3. Cardinality(Ahead(S, R, a)) <= Cardinality(Ahead(S, R, b))
    BY <2>1, <2>2, FS_Subset
  <2>4. Cardinality(Ahead(S, R, a)) # Cardinality(Ahead(S, R, b))
    BY <1>1, AheadFewer
  <2>5. Cardinality(Ahead(S, R, a)) \in Nat /\ Cardinality(Ahead(S, R, b)) \in Nat
    BY AheadCount
  <2>6. QED BY <2>3, <2>4, <2>5
<1>2. Cardinality(Ahead(S, R, x)) \in Nat /\ Cardinality(Ahead(S, R, z)) \in Nat
  BY AheadCount
<1>3. x = z \/ <<x, z>> \in R \/ <<z, x>> \in R
  BY DEF InOneOrder
<1>4. x = z => <<x, z>> \notin R
  BY DEF InOneOrder
<1>5. QED BY <1>1, <1>2, <1>3, <1>4

LEMMA ListedIs ==
  ASSUME NEW S, NEW R, InOneOrder(S, R)
  PROVE  /\ Cardinality(S) \in Nat /\ DOMAIN ListedBy(S, R) = 1..Cardinality(S)
         /\ ListedBy(S, R) \in Seq(S) /\ Len(ListedBy(S, R)) = Cardinality(S)
         /\ ToSet(ListedBy(S, R)) = S /\ IsInjective(ListedBy(S, R))
         /\ \A i, j \in 1..Cardinality(S) :
              i < j <=> <<ListedBy(S, R)[i], ListedBy(S, R)[j]>> \in R
<1>1. PICK s : s = ListedBy(S, R)
  OBVIOUS
<1>2. PICK n \in Nat : n = Cardinality(S)
  BY FS_CardinalityType DEF InOneOrder
<1>3. DOMAIN s = 1..n
  BY <1>1, <1>2 DEF ListedBy
<1>4. ASSUME NEW k \in 1..n PROVE s[k] \in S /\ Cardinality(Ahead(S, R, s[k])) = k - 1
  <2>1. PICK x \in S : Cardinality(Ahead(S, R, x)) + 1 = k
    BY <1>2, PlacesTaken
  <2>2. Cardinality(Ahead(S, R, x)) \in Nat
    BY AheadCount
  <2>3. Cardinality(Ahead(S, R, x)) = k - 1
    BY <2>1, <2>2
  <2>4. s[k] = CHOOSE z \in S : Cardinality(Ahead(S, R, z)) = k - 1
    BY <1>1, <1>2 DEF ListedBy
  <2>5. QED BY <2>3, <2>4
<1>5. s = [k \in 1..n |-> s[k]]
  BY <1>1, <1>2 DEF ListedBy
<1>6. s \in [1..n -> S]
  BY <1>4, <1>5
<1>7. s \in Seq(S) /\ Len(s) = n
  BY <1>6
<1>8. ASSUME NEW i \in 1..n, NEW j \in 1..n PROVE i < j <=> <<s[i], s[j]>> \in R
  <2>1. /\ s[i] \in S /\ Cardinality(Ahead(S, R, s[i])) = i - 1
        /\ s[j] \in S /\ Cardinality(Ahead(S, R, s[j])) = j - 1
    BY <1>4
  <2>2. <<s[i], s[j]>> \in R <=> Cardinality(Ahead(S, R, s[i])) < Cardinality(Ahead(S, R, s[j]))
    BY <2>1, AheadMore
  <2>3. QED BY <2>1, <2>2
<1>9. IsInjective(s)
  <2> SUFFICES ASSUME NEW i \in 1..n, NEW j \in 1..n, s[i] = s[j] PROVE i = j
    BY <1>3 DEF IsInjective
  <2>1. i - 1 = j - 1
    BY <1>4
  <2>2. QED BY <2>1
<1>10. ASSUME NEW x \in S PROVE x \in ToSet(s)
  <2>1. PICK k : k = Cardinality(Ahead(S, R, x)) + 1
    OBVIOUS
  <2>2. Cardinality(Ahead(S, R, x)) \in Nat /\ k \in 1..n
    BY <1>2, <2>1, AheadCount
  <2>3. s[k] \in S /\ Cardinality(Ahead(S, R, s[k])) = Cardinality(Ahead(S, R, x))
    BY <1>4, <2>1, <2>2
  <2>4. s[k] = x
    BY <2>3, AheadOnce
  <2>5. QED BY <1>3, <2>2, <2>4 DEF ToSet
<1>11. ToSet(s) = S
  BY <1>3, <1>4, <1>10 DEF ToSet
<1>12. QED BY <1>1, <1>2, <1>3, <1>7, <1>8, <1>9, <1>11

-----------------------------------------------------------------------------
(***************************************************************************)
(* Loops that take or leave each index, and a sequence at what they took.  *)
(***************************************************************************)
\* The elements at the indices in T keep their order.
LEMMA AtKeepsOrder ==
  ASSUME NEW S, NEW q \in Seq(S), IsInjective(q), NEW T \in SUBSET (DOMAIN q)
  PROVE  /\ At(q, T) \in Seq(S) /\ IsInjective(At(q, T))
         /\ \A i, j \in DOMAIN At(q, T) : \A k, l \in DOMAIN q :
              i < j /\ At(q, T)[i] = q[k] /\ At(q, T)[j] = q[l] => k < l
<1>1. IsFiniteSet(T) /\ T \subseteq Int /\ \A i \in T : q[i] \in S
  <2>1. PICK n \in Nat : n = Len(q)
    OBVIOUS
  <2>2. DOMAIN q = 1..n /\ IsFiniteSet(1..n)
    BY <2>1, FS_Interval
  <2>3. T \in SUBSET (1..n)
    BY <2>2
  <2>4. QED BY <2>2, <2>3, FS_Subset
<1>2. At(q, T) \in Seq(S) /\ DOMAIN At(q, T) = 1..Cardinality(T)
  BY <1>1, AtWithin
<1>3. \A i, j \in T : q[i] = q[j] => i = j
  BY DEF IsInjective
<1>4. IsInjective(At(q, T))
  BY <1>1, <1>3, AtInjective
<1>5. /\ Cardinality(T) \in Nat
      /\ \A k \in 1..Cardinality(T) : Chosen(T, k) \in T /\ Place(T, Chosen(T, k)) = k
      /\ \A i, j \in T : i <= j <=> Place(T, i) <= Place(T, j)
  BY <1>1, PlacesAre
<1>6. \A k \in 1..Cardinality(T) : At(q, T)[k] = q[Chosen(T, k)]
  BY <1>1, AtIs
<1>7. ASSUME NEW i \in 1..Cardinality(T), NEW j \in 1..Cardinality(T), i < j,
             NEW k \in DOMAIN q, NEW l \in DOMAIN q, At(q, T)[i] = q[k], At(q, T)[j] = q[l]
      PROVE  k < l
  <2>1. Chosen(T, i) \in T /\ Chosen(T, j) \in T
    BY <1>5
  <2>2. Chosen(T, i) = k /\ Chosen(T, j) = l
    BY <1>6, <1>7, <2>1 DEF IsInjective
  <2>3. k \in T /\ l \in T /\ Place(T, k) = i /\ Place(T, l) = j
    BY <1>5, <2>1, <2>2
  <2>4. ~(l <= k)
    BY <1>5, <1>7, <2>3
  <2>5. k \in Int /\ l \in Int
    BY <1>1, <2>3
  <2>6. QED BY <2>4, <2>5
<1>8. QED BY <1>2, <1>4, <1>7

\* One more index, behind all the others.
LEMMA AtOneMore ==
  ASSUME NEW q, NEW T, IsFiniteSet(T), T \subseteq Int, NEW m \in Int, \A i \in T : i < m
  PROVE  At(q, T \cup {m}) = Append(At(q, T), q[m])
<1>0. PICK S : S = {q[i] : i \in T \cup {m}}
  OBVIOUS
<1>a. \A i \in T \cup {m} : q[i] \in S
  BY <1>0
<1>1. PICK U : U = T \cup {m}
  OBVIOUS
<1>2. m \notin T
  OBVIOUS
<1>3. IsFiniteSet(U) /\ U \subseteq Int /\ Cardinality(U) = Cardinality(T) + 1
  BY <1>1, <1>2, FS_AddElement
<1>4. PICK n \in Nat : n = Cardinality(T)
  BY FS_CardinalityType
<1>5. PICK s : s = At(q, T)
  OBVIOUS
<1>6. PICK r : r = At(q, U)
  OBVIOUS
<1>7. s \in Seq(S) /\ Len(s) = n
  BY <1>4, <1>5, <1>a, AtWithin
<1>8. r \in Seq(S) /\ Len(r) = n + 1
  BY <1>1, <1>3, <1>4, <1>6, <1>a, AtWithin
<1>9. ASSUME NEW i \in T PROVE Place(U, i) = Place(T, i)
  <2>1. {j \in U : j <= i} = {j \in T : j <= i}
    BY <1>1
  <2>2. QED BY <2>1 DEF Place
<1>10. Place(U, m) = n + 1
  <2>1. {j \in U : j <= m} = U
    <3>1. \A j \in U : j <= m
      BY <1>1, <1>3
    <3>2. QED BY <3>1
  <2>2. QED BY <1>3, <1>4, <2>1 DEF Place
<1>11. \A i \in U : r[Place(U, i)] = q[i]
  BY <1>3, <1>6, AtIs
<1>12. r[n + 1] = q[m]
  BY <1>1, <1>10, <1>11
<1>13. ASSUME NEW k \in 1..n PROVE r[k] = s[k]
  <2>1. Chosen(T, k) \in T /\ Place(T, Chosen(T, k)) = k
    BY <1>4, PlacesAre
  <2>2. r[k] = q[Chosen(T, k)]
    <3>1. Chosen(T, k) \in U /\ Place(U, Chosen(T, k)) = k
      BY <1>1, <1>9, <2>1
    <3>2. QED BY <1>11, <3>1
  <2>3. s[k] = q[Chosen(T, k)]
    BY <1>4, <1>5, AtIs
  <2>4. QED BY <2>2, <2>3
<1>14. q[m] \in S
  BY <1>a
<1>15. PICK a : a = Append(s, q[m])
  OBVIOUS
<1>16. /\ a \in Seq(S) /\ Len(a) = n + 1 /\ a[n + 1] = q[m]
       /\ \A k \in 1..n : a[k] = s[k]
  BY <1>7, <1>14, <1>15, AppendIs
<1>17. ASSUME NEW k \in 1..(n + 1) PROVE r[k] = a[k]
  <2>1. k \in 1..n \/ k = n + 1
    OBVIOUS
  <2>2. QED BY <1>12, <1>13, <1>16, <2>1
<1>18. r = a
  BY <1>8, <1>16, <1>17
<1>19. QED BY <1>1, <1>5, <1>6, <1>7, <1>15, <1>18

\* The sequences in qs, one after the other, are a sequence.
LEMMA FlatIs ==
  ASSUME NEW S, NEW qs \in Seq(Seq(S))
  PROVE  Flat(qs) \in Seq(S)
<1>1. PICK n \in Nat : n = Len(qs)
  OBVIOUS
<1>2. \A k \in 1..n : qs[k] \in Seq(S)
  BY <1>1
<1>3. PICK V : V = Seq(S)
  OBVIOUS
<1>4. <<>> \in V /\ \A v, w \in V : v \o w \in V
  BY <1>3
<1>5. PICK next : next = [pr \in V \X (1..n) |-> pr[1] \o qs[pr[2]]]
  OBVIOUS
<1>6. /\ next \in [V \X (1..n) -> V]
      /\ \A v \in V, k \in 1..n : next[<<v, k>>] = v \o qs[k]
  <2>1. \A pr \in V \X (1..n) : pr[1] \o qs[pr[2]] \in V
    BY <1>2, <1>3, <1>4
  <2>2. QED BY <1>5, <2>1
<1>7. PICK f \in [0..n -> V] : RunOf(f, n, <<>>, next)
  BY <1>4, <1>6, LoopRuns
<1>8. f[0] = <<>> /\ \A k \in 1..n : f[k] = f[k - 1] \o qs[k]
  <2>1. \A k \in 1..n : k - 1 \in 0..n /\ f[k - 1] \in V
    OBVIOUS
  <2>2. QED BY <1>6, <1>7, <2>1 DEF RunOf
<1>9. f = [k \in 0..n |-> IF k = 0 THEN <<>> ELSE f[k - 1] \o qs[k]]
  <2>1. ASSUME NEW k \in 0..n PROVE f[k] = IF k = 0 THEN <<>> ELSE f[k - 1] \o qs[k]
    <3>1. k = 0 \/ (k \in 1..n /\ k # 0)
      OBVIOUS
    <3>2. QED BY <1>8, <3>1, Zenon
  <2>2. f = [k \in 0..n |-> f[k]]
    OBVIOUS
  <2>3. QED BY <2>1, <2>2, Zenon
<1>10. PICK g : g = CHOOSE h : h = [k \in 0..n |-> IF k = 0 THEN <<>> ELSE h[k - 1] \o qs[k]]
  BY Zenon
<1>11. g = [k \in 0..n |-> IF k = 0 THEN <<>> ELSE g[k - 1] \o qs[k]]
  BY <1>9, <1>10
<1>12. g[0] = <<>> /\ \A k \in 1..n : g[k] = g[k - 1] \o qs[k]
  <2>1. 0 \in 0..n /\ \A k \in 1..n : k \in 0..n /\ k # 0
    OBVIOUS
  <2>2. \A k \in 0..n : g[k] = IF k = 0 THEN <<>> ELSE g[k - 1] \o qs[k]
    BY <1>11, Zenon
  <2>3. QED BY <2>1, <2>2
<1>13. \A k \in 0..n : k \in {j \in 0..n : g[j] \in V}
  <2> DEFINE P == {j \in 0..n : g[j] \in V}
  <2>1. 0 \in P
    BY <1>4, <1>12
  <2>2. ASSUME NEW k \in 0..(n - 1), k \in P PROVE k + 1 \in P
    <3>1. k + 1 \in 1..n /\ k + 1 - 1 = k /\ k + 1 \in 0..n
      OBVIOUS
    <3>2. g[k + 1] = g[k] \o qs[k + 1]
      BY <1>12, <3>1
    <3>3. g[k] \in V /\ qs[k + 1] \in V
      BY <1>2, <1>3, <2>2, <3>1
    <3>4. g[k + 1] \in V
      BY <1>4, <3>2, <3>3
    <3>5. QED BY <3>1, <3>4
  <2>3. QED
    <3> HIDE DEF P
    <3>1. \A k \in 0..n : k \in P
      BY <2>1, <2>2, LoopInduction
    <3>2. QED BY <3>1 DEF P
<1>14. Flat(qs) = g[n]
  BY <1>1, <1>10 DEF Flat
<1>15. n \in 0..n
  OBVIOUS
<1>16. QED BY <1>3, <1>13, <1>14, <1>15

LEMMA TakenSoFar ==
  ASSUME NEW n \in Nat, NEW g, g[0] = {},
         \A i \in 1..n : g[i] = g[i - 1] \cup {i} \/ g[i] = g[i - 1]
  PROVE  \A k \in 0..n : g[k] \in SUBSET (1..k) /\ IsFiniteSet(g[k]) /\ g[k] \subseteq Int
<1> DEFINE P == {k \in 0..n : g[k] \in SUBSET (1..k)}
<1>1. 0 \in P
  OBVIOUS
<1>2. ASSUME NEW k \in 0..(n - 1), k \in P PROVE k + 1 \in P
  <2>1. k + 1 \in 1..n /\ k + 1 - 1 = k /\ k + 1 \in 0..n
    OBVIOUS
  <2>2. g[k + 1] = g[k] \cup {k + 1} \/ g[k + 1] = g[k]
    BY <2>1
  <2>3. g[k] \in SUBSET (1..k)
    BY <1>2
  <2>4. g[k + 1] \in SUBSET (1..(k + 1))
    BY <2>2, <2>3
  <2>5. QED BY <2>1, <2>4
<1>3. \A k \in 0..n : k \in P
  <2> HIDE DEF P
  <2>1. QED BY <1>1, <1>2, LoopInduction
<1>4. ASSUME NEW k \in 0..n PROVE IsFiniteSet(g[k])
  <2>1. g[k] \in SUBSET (1..k)
    BY <1>3
  <2>2. IsFiniteSet(1..k)
    BY FS_Interval
  <2>3. QED BY <2>1, <2>2, FS_Subset
<1>5. \A k \in 0..n : g[k] \in SUBSET (1..k)
  BY <1>3
<1>6. \A k \in 0..n : g[k] \subseteq Int
  BY <1>5
<1>7. QED BY <1>4, <1>5, <1>6

\* What the loop has taken after each index.
TakenRun(g, n, after) ==
  /\ g[0] = {}
  /\ \A i \in 1..n : g[i] = IF g[i - 1] \in after[i] THEN g[i - 1] \cup {i} ELSE g[i - 1]

LEMMA TakenIs ==
  ASSUME NEW n \in Nat, NEW after
  PROVE  \E g : /\ TakenRun(g, n, after) /\ Taken(n, after) = g[n]
                /\ \A k \in 0..n : g[k] \in SUBSET (1..k) /\ IsFiniteSet(g[k]) /\ g[k] \subseteq Int
<1>1. PICK V : V = SUBSET (1..n)
  OBVIOUS
<1>2. {} \in V
  BY <1>1
<1>3. PICK next : next = [pr \in V \X (1..n) |->
                            IF pr[1] \in after[pr[2]] THEN pr[1] \cup {pr[2]} ELSE pr[1]]
  OBVIOUS
<1>4. /\ next \in [V \X (1..n) -> V]
      /\ \A v \in V, k \in 1..n : next[<<v, k>>] = IF v \in after[k] THEN v \cup {k} ELSE v
  <2>1. \A pr \in V \X (1..n) : pr[1] \in V /\ pr[1] \cup {pr[2]} \in V
    BY <1>1
  <2>2. \A pr \in V \X (1..n) :
          (IF pr[1] \in after[pr[2]] THEN pr[1] \cup {pr[2]} ELSE pr[1]) \in V
    BY <2>1
  <2>3. QED BY <1>3, <2>2
<1>5. PICK f \in [0..n -> V] : RunOf(f, n, {}, next)
  BY <1>2, <1>4, LoopRuns
<1>6. ASSUME NEW i \in 1..n
      PROVE  f[i] = IF f[i - 1] \in after[i] THEN f[i - 1] \cup {i} ELSE f[i - 1]
  <2>1. i - 1 \in 0..n /\ f[i - 1] \in V
    OBVIOUS
  <2>2. QED BY <1>4, <1>5, <2>1 DEF RunOf
<1>7. f = [i \in 0..n |-> IF i = 0 THEN {}
             ELSE IF f[i - 1] \in after[i] THEN f[i - 1] \cup {i} ELSE f[i - 1]]
  <2>1. ASSUME NEW i \in 0..n
        PROVE  f[i] = IF i = 0 THEN {}
                      ELSE IF f[i - 1] \in after[i] THEN f[i - 1] \cup {i} ELSE f[i - 1]
    <3>1. i = 0 \/ (i \in 1..n /\ i # 0)
      OBVIOUS
    <3>2. f[0] = {}
      BY <1>5 DEF RunOf
    <3>3. QED BY <1>6, <3>1, <3>2
  <2>2. f = [i \in 0..n |-> f[i]]
    OBVIOUS
  <2>3. QED BY <2>1, <2>2, Zenon
<1>8. PICK g : g = CHOOSE h : h = [i \in 0..n |-> IF i = 0 THEN {}
                     ELSE IF h[i - 1] \in after[i] THEN h[i - 1] \cup {i} ELSE h[i - 1]]
  BY Zenon
<1>9. g = [i \in 0..n |-> IF i = 0 THEN {}
             ELSE IF g[i - 1] \in after[i] THEN g[i - 1] \cup {i} ELSE g[i - 1]]
  BY <1>7, <1>8
<1>10. TakenRun(g, n, after)
  <2>1. 0 \in 0..n /\ \A i \in 1..n : i \in 0..n /\ i # 0
    OBVIOUS
  <2>2. \A i \in 0..n : g[i] = IF i = 0 THEN {}
             ELSE IF g[i - 1] \in after[i] THEN g[i - 1] \cup {i} ELSE g[i - 1]
    BY <1>9, Zenon
  <2>3. QED BY <2>1, <2>2 DEF TakenRun
<1>11. Taken(n, after) = g[n]
  BY <1>8 DEF Taken
<1>12. \A k \in 0..n : g[k] \in SUBSET (1..k) /\ IsFiniteSet(g[k]) /\ g[k] \subseteq Int
  <2>1. g[0] = {} /\ \A i \in 1..n : g[i] = g[i - 1] \cup {i} \/ g[i] = g[i - 1]
    BY <1>10 DEF TakenRun
  <2>2. QED BY <2>1, TakenSoFar
<1>13. QED BY <1>10, <1>11, <1>12

\* The elements at some of a sequence's places.
LEMMA AtPart ==
  ASSUME NEW S, NEW q \in Seq(S), NEW T \in SUBSET (DOMAIN q)
  PROVE  /\ IsFiniteSet(T) /\ T \subseteq Int /\ \A i \in T : q[i] \in S
         /\ At(q, T) \in Seq(S) /\ ToSet(At(q, T)) = {q[i] : i \in T}
         /\ Len(At(q, T)) = Cardinality(T) /\ Cardinality(T) \in Nat
<1>1. PICK n \in Nat : n = Len(q)
  OBVIOUS
<1>2. DOMAIN q = 1..n /\ IsFiniteSet(1..n) /\ \A i \in 1..n : q[i] \in S
  BY <1>1, FS_Interval
<1>3. T \in SUBSET (1..n)
  BY <1>2
<1>4. IsFiniteSet(T) /\ T \subseteq Int /\ \A i \in T : q[i] \in S
  BY <1>2, <1>3, FS_Subset
<1>5. At(q, T) \in Seq(S) /\ Len(At(q, T)) = Cardinality(T)
  BY <1>4, AtWithin
<1>6. ToSet(At(q, T)) = {q[i] : i \in T}
  BY <1>4, AtElements
<1>7. Cardinality(T) \in Nat
  BY <1>4, FS_CardinalityType
<1>8. QED BY <1>4, <1>5, <1>6, <1>7

\* What is taken are places of the sequence.
LEMMA TakenWithin ==
  ASSUME NEW S, NEW q \in Seq(S), NEW after
  PROVE  /\ Taken(Len(q), after) \in SUBSET (DOMAIN q)
         /\ IsFiniteSet(Taken(Len(q), after)) /\ Taken(Len(q), after) \subseteq Int
         /\ At(q, Taken(Len(q), after)) \in Seq(S)
<1>1. PICK n \in Nat : n = Len(q)
  OBVIOUS
<1>2. PICK T : T = Taken(n, after)
  OBVIOUS
<1>3. T \in SUBSET (1..n) /\ IsFiniteSet(T) /\ T \subseteq Int
  <2>1. n \in 0..n
    OBVIOUS
  <2>2. QED BY <1>2, <2>1, TakenIs
<1>4. \A i \in T : q[i] \in S
  BY <1>1, <1>3
<1>5. At(q, T) \in Seq(S)
  BY <1>3, <1>4, AtWithin
<1>6. DOMAIN q = 1..n
  BY <1>1
<1>7. QED BY <1>1, <1>2, <1>3, <1>5, <1>6

LEMMA LeastNumber ==
  ASSUME NEW T, T \subseteq Nat, T # {}
  PROVE  \E m \in T : \A i \in T : m <= i
<1>1. PICK n \in T : TRUE
  OBVIOUS
<1>2. PICK U : U = {i \in T : i <= n}
  OBVIOUS
<1>3. U \in SUBSET (0..n) /\ IsFiniteSet(0..n) /\ n \in Nat
  <2>1. n \in Nat /\ \A i \in U : i \in Nat /\ i <= n
    BY <1>2
  <2>2. U \in SUBSET (0..n)
    BY <2>1
  <2>3. IsFiniteSet(0..n)
    BY <2>1, FS_Interval
  <2>4. QED BY <2>1, <2>2, <2>3
<1>4. IsFiniteSet(U)
  BY <1>3, FS_Subset
<1>5. U \subseteq Int /\ U # {}
  BY <1>1, <1>2, <1>3
<1>6. PICK m \in U : Place(U, m) = 1
  BY <1>4, <1>5, LastOf
<1>7. \A i \in U : Place(U, i) \in 1..Cardinality(U)
  BY <1>4, <1>5, PlacesAre
<1>8. \A i \in U : m <= i <=> Place(U, m) <= Place(U, i)
  BY <1>4, <1>5, PlacesAre
<1>9. Cardinality(U) \in Nat
  BY <1>4, FS_CardinalityType
<1>10. \A i \in U : m <= i
  BY <1>6, <1>7, <1>8, <1>9
<1>11. QED BY <1>2, <1>3, <1>10

\* What holds of the empty set, and of each set that takes one more, holds of
\* what is taken.
LEMMA TakenKeeps ==
  ASSUME NEW n \in Nat, NEW after, NEW S, {} \in S,
         \A i \in 1..n : \A T \in S :
           T \in SUBSET (1..(i - 1)) /\ T \in after[i] => T \cup {i} \in S
  PROVE  Taken(n, after) \in S /\ Taken(n, after) \in SUBSET (1..n)
<1>1. PICK g : /\ TakenRun(g, n, after) /\ Taken(n, after) = g[n]
               /\ \A k \in 0..n : g[k] \in SUBSET (1..k) /\ IsFiniteSet(g[k]) /\ g[k] \subseteq Int
  BY TakenIs
<1>2. /\ g[0] = {}
      /\ \A i \in 1..n : g[i] = IF g[i - 1] \in after[i] THEN g[i - 1] \cup {i} ELSE g[i - 1]
  BY <1>1 DEF TakenRun
<1>3. PICK P : P = {k \in 0..n : g[k] \in S}
  OBVIOUS
<1>4. 0 \in P
  <2>1. 0 \in 0..n
    OBVIOUS
  <2>2. QED BY <1>2, <1>3, <2>1
<1>5. ASSUME NEW k \in 0..(n - 1), k \in P PROVE k + 1 \in P
  <2>1. PICK i \in 1..n : i = k + 1
    OBVIOUS
  <2>2. i - 1 = k /\ k \in 0..n /\ i \in 0..n
    BY <2>1
  <2>3. g[k] \in S /\ g[k] \in SUBSET (1..k)
    BY <1>1, <1>3, <1>5, <2>2
  <2>4. g[i] = IF g[k] \in after[i] THEN g[k] \cup {i} ELSE g[k]
    BY <1>2, <2>2
  <2>5. g[k] \in after[i] => g[k] \cup {i} \in S
    BY <2>2, <2>3
  <2>6. g[i] \in S
    BY <2>3, <2>4, <2>5
  <2>7. QED BY <1>3, <2>1, <2>2, <2>6
<1>6. \A k \in 0..n : k \in P
  BY <1>4, <1>5, LoopInduction
<1>7. n \in 0..n
  OBVIOUS
<1>8. QED BY <1>1, <1>3, <1>6, <1>7

-----------------------------------------------------------------------------
(***************************************************************************)
(* Arithmetic, and an order by three numbers.                               *)
(***************************************************************************)
LEMMA Division ==
  ASSUME NEW a \in Nat, NEW b \in Nat \ {0}
  PROVE  a \div b \in Nat /\ b * (a \div b) <= a /\ a < b * (a \div b) + b
  OBVIOUS

LEMMA Products ==
  ASSUME NEW a \in Nat, NEW b \in Int, NEW c \in Int, b <= c
  PROVE  a * b <= a * c
<1>1. PICK k \in Nat : k = c - b
  OBVIOUS
<1>2. c = b + k
  BY <1>1
<1>3. a * (b + k) = a * b + a * k
  OBVIOUS
<1>4. a * k \in Nat /\ a * b \in Int
  OBVIOUS
<1>5. QED BY <1>2, <1>3, <1>4

\* Best u first; on a tie least v, then least w.
Sorting(S, u, v, w) ==
  {pr \in S \X S :
     \/ u[pr[1]] > u[pr[2]]
     \/ u[pr[1]] = u[pr[2]] /\ v[pr[1]] < v[pr[2]]
     \/ u[pr[1]] = u[pr[2]] /\ v[pr[1]] = v[pr[2]] /\ w[pr[1]] < w[pr[2]]}

LEMMA SortingOrders ==
  ASSUME NEW S, IsFiniteSet(S), NEW u, NEW v, NEW w,
         \A x \in S : u[x] \in Int /\ v[x] \in Int /\ w[x] \in Int,
         \A x, y \in S : v[x] = v[y] /\ w[x] = w[y] => x = y
  PROVE  InOneOrder(S, Sorting(S, u, v, w))
<1> PICK R : R = Sorting(S, u, v, w)
  OBVIOUS
<1> DEFINE before(x, y) == \/ u[x] > u[y]
                           \/ u[x] = u[y] /\ v[x] < v[y]
                           \/ u[x] = u[y] /\ v[x] = v[y] /\ w[x] < w[y]
<1>1. \A x, y \in S : <<x, y>> \in R <=> before(x, y)
  BY DEF Sorting
<1>2. \A x \in S : ~before(x, x)
  OBVIOUS
<1>3. \A x, y, z \in S : before(x, y) /\ before(y, z) => before(x, z)
  OBVIOUS
<1>4. \A x, y \in S : x # y => before(x, y) \/ before(y, x)
  OBVIOUS
<1> HIDE DEF before
<1>5. InOneOrder(S, R)
  BY <1>1, <1>2, <1>3, <1>4 DEF InOneOrder
<1>6. QED BY <1>5

\* Numbers add up to more and more, and numbers up to m to at most m times as many.
LEMMA SumsRise ==
  ASSUME NEW q \in Seq(Nat)
  PROVE  /\ SumOf(q) \in Nat
         /\ \A k \in 0..Len(q) : PartSums(q)[k] \in Nat /\ PartSums(q)[k] <= SumOf(q)
<1>1. PICK n \in Nat : n = Len(q)
  OBVIOUS
<1>2. PICK g : g = PartSums(q)
  OBVIOUS
<1>3. q \in Seq(Int) /\ \A i \in 1..n : q[i] \in Nat
  BY <1>1
<1>4. g[0] = 0 /\ SumOf(q) = g[n] /\ \A k \in 1..n : g[k] = g[k - 1] + q[k]
  BY <1>1, <1>2, <1>3, Sums DEF SumOf
<1>5. \A k \in 0..n : k \in {j \in 0..n : g[j] \in Nat}
  <2> DEFINE S == {j \in 0..n : g[j] \in Nat}
  <2>1. 0 \in S
    BY <1>4
  <2>2. ASSUME NEW k \in 0..(n - 1), k \in S PROVE k + 1 \in S
    <3>1. k + 1 \in 0..n /\ k + 1 \in 1..n /\ k + 1 - 1 = k
      OBVIOUS
    <3>2. g[k + 1] = g[k] + q[k + 1] /\ q[k + 1] \in Nat
      BY <1>3, <1>4, <3>1
    <3>3. g[k] \in Nat
      BY <2>2
    <3>4. QED BY <3>1, <3>2, <3>3
  <2>3. QED
    <3> HIDE DEF S
    <3>1. \A k \in 0..n : k \in S
      BY <2>1, <2>2, LoopInduction
    <3>2. QED BY <3>1 DEF S
<1>6. \A k \in 0..n : k \in {j \in 0..n : g[n - j] <= g[n]}
  <2> DEFINE S == {j \in 0..n : g[n - j] <= g[n]}
  <2>1. 0 \in S
    BY <1>5
  <2>2. ASSUME NEW k \in 0..(n - 1), k \in S PROVE k + 1 \in S
    <3>1. PICK j \in 1..n : j = n - k
      OBVIOUS
    <3>2. j - 1 = n - (k + 1) /\ j \in 0..n /\ j - 1 \in 0..n /\ n \in 0..n
      BY <3>1
    <3>3. g[j] = g[j - 1] + q[j] /\ q[j] \in Nat
      BY <1>3, <1>4
    <3>4. g[j] <= g[n] /\ g[j] \in Nat /\ g[j - 1] \in Nat /\ g[n] \in Nat
      BY <1>5, <2>2, <3>1, <3>2
    <3>5. QED BY <3>2, <3>3, <3>4
  <2>3. QED
    <3> HIDE DEF S
    <3>1. \A k \in 0..n : k \in S
      BY <2>1, <2>2, LoopInduction
    <3>2. QED BY <3>1 DEF S
<1>7. ASSUME NEW k \in 0..n PROVE g[k] \in Nat /\ g[k] <= g[n]
  <2>1. n - k \in 0..n /\ n - (n - k) = k
    OBVIOUS
  <2>2. QED BY <1>5, <1>6, <2>1
<1>8. n \in 0..n
  OBVIOUS
<1>9. QED BY <1>1, <1>2, <1>4, <1>5, <1>7, <1>8

LEMMA SumsBounded ==
  ASSUME NEW q \in Seq(Nat), NEW m \in Nat, \A i \in 1..Len(q) : q[i] <= m
  PROVE  SumOf(q) <= Len(q) * m
<1>1. PICK n \in Nat : n = Len(q) /\ n \in 0..n
  OBVIOUS
<1>2. PICK g : g = PartSums(q)
  OBVIOUS
<1>3. /\ g[0] = 0 /\ SumOf(q) = g[n] /\ \A k \in 1..n : g[k] = g[k - 1] + q[k]
      /\ \A k \in 0..n : g[k] \in Nat
  <2>1. q \in Seq(Int)
    OBVIOUS
  <2>2. QED BY <1>1, <1>2, <2>1, Sums, SumsRise DEF SumOf
<1> DEFINE S == {j \in 0..n : g[j] <= j * m}
<1>4. 0 \in S
  BY <1>3
<1>5. ASSUME NEW k \in 0..(n - 1), k \in S PROVE k + 1 \in S
  <2>1. k + 1 \in 0..n /\ k + 1 \in 1..n /\ k + 1 - 1 = k /\ k \in 0..n
    OBVIOUS
  <2>2. PICK a \in Nat, b \in Nat, c \in Nat :
          /\ a = g[k] /\ b = g[k + 1] /\ c = q[k + 1] /\ c <= m /\ b = a + c
    <3>1. g[k] \in Nat /\ g[k + 1] \in Nat /\ g[k + 1] = g[k] + q[k + 1]
      BY <1>3, <2>1
    <3>2. q[k + 1] \in Nat /\ q[k + 1] <= m
      BY <1>1, <2>1
    <3>3. QED BY <3>1, <3>2
  <2>3. a <= k * m
    <3>1. g[k] <= k * m
      BY <1>5, Zenon
    <3>2. QED BY <2>2, <3>1, Zenon
  <2>4. b <= (k + 1) * m
    <3>1. (k + 1) * m = k * m + m /\ k * m \in Nat
      OBVIOUS
    <3>2. QED BY <2>2, <2>3, <3>1
  <2>5. QED BY <2>1, <2>2, <2>4
<1>6. \A k \in 0..n : k \in S
  <2> HIDE DEF S
  <2>1. QED BY <1>4, <1>5, LoopInduction
<1>7. QED BY <1>1, <1>3, <1>6
=============================================================================
