------------------------------- MODULE Spans -------------------------------
(***************************************************************************)
(* Span shaping (crates/laya-rank/src/span.rs): scored chunks of one file  *)
(* that are close together merge into a span, the best spans are kept, and *)
(* the last one is cut to the line budget.  A scored chunk, and a span, is *)
(* a record with path, start, end and score; a span also has the lines of  *)
(* its text, which lacks those of a gap.                                   *)
(***************************************************************************)
EXTENDS Loops, Sequences, SequencesExt, FiniteSetsExt

CONSTANTS
  MaxMergeGap,     \* MAX_MERGE_GAP
  MaxMergedLines   \* MAX_MERGED_LINES

ASSUME SpansAssumption == {MaxMergeGap, MaxMergedLines} \subseteq Nat

Lines(s) == s.end - s.start + 1

\* Chunk i joins the span that chunk head of the same file started.
Mergeable(q, head, i) ==
  LET end == Max({q[j].end : j \in head..(i - 1)}) IN
  /\ q[i].start - end - 1 <= MaxMergeGap
  /\ Max({end, q[i].end}) - q[head].start + 1 <= MaxMergedLines

\* The chunks of a file, in line order, that start a span.
Heads(q) ==
  Taken(Len(q), [i \in DOMAIN q |->
    {T \in SomeBefore(i) : T = {} \/ ~Mergeable(q, Max(T), i)}])

\* merge_same_file for one file, whose chunks are in line order.
MergedOf(q) ==
  LET heads == Heads(q)
      last(h) == Max({i \in DOMAIN q : ~\E g \in heads : h < g /\ g <= i}) IN
  {[path |-> q[h].path, start |-> q[h].start,
    end |-> Max({q[i].end : i \in h..last(h)}),
    score |-> Max({q[i].score : i \in h..last(h)}),
    text |-> UNION {q[i].start..q[i].end : i \in h..last(h)}] : h \in heads}

InLineOrder(S) ==
  InOrder(S, LAMBDA a, b : a.start < b.start \/ (a.start = b.start /\ a.end < b.end))

MergedSpans(chunks) ==
  UNION {MergedOf(InLineOrder({c \in chunks : c.path = p})) :
           p \in {c.path : c \in chunks}}

\* truncate_span: the first lines of the text, under a range of that length.
Truncated(s, keep) ==
  [s EXCEPT !.end = s.start + keep - 1,
            !.text = {l \in @ : Cardinality({m \in @ : m <= l}) <= keep}]

\* enforce_line_budget on spans in score order.
WithinLines(q, max) ==
  LET used == PartSums([i \in DOMAIN q |-> Lines(q[i])])
      kept == {i \in DOMAIN q : used[i - 1] < max} IN
  [i \in 1..Cardinality(kept) |->
     IF used[i] <= max THEN q[i] ELSE Truncated(q[i], max - used[i - 1])]

\* shape_spans: best score first; on a tie, the file that comes first in a
\* hash map, and in the file the line that comes first.
Shaped(chunks, topN, maxLines, fileOrder) ==
  LET place(s) == CHOOSE k \in DOMAIN fileOrder : fileOrder[k] = s.path
      all == InOrder(MergedSpans(chunks), LAMBDA a, b :
               \/ a.score > b.score
               \/ a.score = b.score /\ place(a) < place(b)
               \/ a.score = b.score /\ a.path = b.path /\ a.start < b.start) IN
  WithinLines(SubSeq(all, 1, Min({topN, Len(all)})), maxLines)
=============================================================================
