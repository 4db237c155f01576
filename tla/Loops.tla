------------------------------- MODULE Loops -------------------------------
(* Shapes of loop that the ranking and rendering code is full of, as       *)
(* definitions of their result.                                             *)
EXTENDS Integers, FiniteSets, Sequences

\* What a loop that adds up the elements of q has after each of them, and at
\* its end.
PartSums(q) ==
  LET sum[n \in 0..Len(q)] == IF n = 0 THEN 0 ELSE sum[n - 1] + q[n] IN sum
SumOf(q) == PartSums(q)[Len(q)]

\* A loop over 1..n that takes or leaves each index, by what it took before:
\* it takes i after the sets in after[i].
SomeBefore(i) == SUBSET (1..(i - 1))
Taken(n, after) ==
  LET upTo[i \in 0..n] ==
        IF i = 0 THEN {}
        ELSE IF upTo[i - 1] \in after[i] THEN upTo[i - 1] \cup {i} ELSE upTo[i - 1] IN
  upTo[n]

\* The elements of q at the indices in T.
At(q, T) ==
  [k \in 1..Cardinality(T) |->
     q[CHOOSE i \in T : Cardinality({j \in T : j <= i}) = k]]

\* The sequences in qs, one after the other.
Flat(qs) ==
  LET upTo[i \in 0..Len(qs)] == IF i = 0 THEN <<>> ELSE upTo[i - 1] \o qs[i] IN
  upTo[Len(qs)]

\* The members of a finite set in the order of a strict total order.
InOrder(S, Before(_, _)) ==
  [k \in 1..Cardinality(S) |->
     CHOOSE x \in S : Cardinality({y \in S : Before(y, x)}) = k - 1]
=============================================================================
