------------------------------ MODULE Chunker ------------------------------
(***************************************************************************)
(* How a file becomes chunks (crates/laya-parse: cast.rs chunk_tree,       *)
(* text.rs chunk_text, lib.rs chunk_source_with), pass by pass: a walk     *)
(* over the syntax tree, or line windows when there is no tree, gives      *)
(* segments; they are trimmed and completed; undersized ones merge into a  *)
(* neighbour; and each is given the names on its rows.                     *)
(*                                                                         *)
(* A node of the tree is the record of its rows, whether it is named, a    *)
(* comment or attribute (trivia), and its children in document order,      *)
(* which may share rows.  The definitions, in document order, are what     *)
(* collect_symbols finds in the tree.  What a segment's kind and a chunk's *)
(* text are is left out; both follow from the rows.                        *)
(***************************************************************************)
EXTENDS Integers, Sequences, SequencesExt, FiniteSetsExt, Loops

CONSTANTS
  TreeNode,  \* nodes: [start, end, named, trivia, kids]
  File,      \* the files: [rows, blank, tree, defs], tree = <<>> if it does not
             \* parse; a definition: [start, end, parent], its name on row start
  MaxLines,  \* ChunkConfig
  MinLines,
  Window,    \* text_window_lines
  MaxDepth   \* MAX_DEPTH

\* A node ends no earlier than its children.
ASSUME ChunkerAssumption ==
  /\ {MaxLines, MinLines, Window, MaxDepth} \subseteq Nat \ {0}
  /\ \A n \in TreeNode :
       /\ {n.start, n.end} \subseteq Nat /\ n.kids \in Seq(TreeNode)
       /\ \A i \in DOMAIN n.kids : n.kids[i].end <= n.end
  /\ \A f \in File : f.rows \in Nat /\ f.tree \in {<<>>} \cup {<<n>> : n \in TreeNode}

VARIABLES
  file,   \* the file
  calls,  \* the calls of Segmenter::children, the last one first
  segs,   \* its segments, then its chunks
  at,     \* merge_small's index
  stage

chunkerVars == <<file, calls, segs, at, stage>>

Lesser(a, b) == IF a <= b THEN a ELSE b
Greater(a, b) == IF a >= b THEN a ELSE b

EndRow(f) == f.rows - 1
Blank(f, r) == r \in f.blank
NonBlank(f, from, to) == {r \in from..to : ~Blank(f, r)}

Seg(start, end, affinity) == [start |-> start, end |-> end, affinity |-> affinity]
Rows(seg) == seg.end - seg.start + 1
Absorb(a, b) ==
  [a EXCEPT !.start = Lesser(@, b.start), !.end = Greater(@, b.end)]
WithAffinity(seg, affinity) == [seg EXCEPT !.affinity = affinity]

\* A giant leaf is cut every MaxLines rows.
Cut(start, end) ==
  [i \in 1..((end - start + MaxLines) \div MaxLines) |->
     Seg(start + (i - 1) * MaxLines,
         Lesser(start + i * MaxLines - 1, end), "either")]

-----------------------------------------------------------------------------
(* The units of a node: its children, each with the comments before it, on *)
(* the rows that no earlier sibling has.                                   *)

\* The rows of each child that has any left.
Owned(node, floor, last) ==
  LET kids == node.kids
      own == [i \in DOMAIN kids |->
        [node |-> kids[i], end |-> Lesser(kids[i].end, last),
         start |-> Max({kids[i].start, floor} \cup {kids[j].end + 1 : j \in 1..(i - 1)})]] IN
  At(own, {i \in DOMAIN own : own[i].start <= own[i].end})

\* A run of comments belongs to the named node after it, or stands alone.
Units(node, floor, last) ==
  LET ks == Owned(node, floor, last)
      comment(i) == ks[i].node.trivia
      first(i) == Min({j \in 1..i : \A k \in j..(i - 1) : comment(k)})
      end(i) == Max({j \in i..Len(ks) : \A k \in i..j : comment(k)})
      carried(i) == ~comment(i) /\ ks[i].node.named
      unit(i) ==
        IF comment(i)
          THEN [start |-> ks[i].start, own |-> ks[i].start, end |-> ks[end(i)].end,
                node |-> ks[i].node]
          ELSE [start |-> IF carried(i) THEN ks[first(i)].start ELSE ks[i].start,
                own |-> ks[i].start, end |-> ks[i].end, node |-> ks[i].node]
      heads == {i \in DOMAIN ks :
                  comment(i) => /\ first(i) = i
                                /\ end(i) = Len(ks) \/ ~carried(end(i) + 1)} IN
  At([i \in DOMAIN ks |-> unit(i)], heads)

HasTrivia(u) == u.start < u.own
HeaderMax == Greater(MaxLines \div 4, 1)

\* trivia_carry: a header and the comments of a unit that is split go into its
\* first piece if they are few rows; else they are segments of their own.
Carried(prefix, u) ==
  LET trivia == IF HasTrivia(u) THEN <<Seg(u.start, u.own - 1, "fwd")>> ELSE <<>> IN
  IF prefix # <<>> /\ trivia # <<>> THEN <<Absorb(prefix[1], trivia[1])>>
  ELSE prefix \o trivia
TooLong(carry) == carry # <<>> /\ Rows(carry[1]) > MaxLines \div 2
OnTheirOwn(prefix, u) ==
  LET from == Greater(IF prefix = <<>> THEN u.start ELSE prefix[1].end + 1, u.start) IN
  (IF prefix = <<>> THEN <<>> ELSE <<WithAffinity(prefix[1], "fwd")>>)
    \o (IF HasTrivia(u) THEN Cut(from, u.own - 1) ELSE <<>>)

-----------------------------------------------------------------------------
(* The walk over the tree.  A frame is a call of Segmenter::children: the  *)
(* units it has still to take, the segment it fills (acc) and the first    *)
(* row of it that is the node's own, and whether it gave a segment out.    *)

Frame(node, floor, carry, depth) ==
  [units |-> Units(node, floor, EndRow(file)), acc |-> carry, own |-> <<>>,
   flushed |-> FALSE, depth |-> depth]

ChunkerInit ==
  /\ file \in File
  /\ segs = <<>> /\ at = 1
  /\ stage = IF file.tree = <<>> THEN "text" ELSE "split"
  /\ calls = IF file.tree = <<>> THEN <<>> ELSE <<Frame(file.tree[1], 0, <<>>, 0)>>

Top == calls[1]
Unit == Top.units[1]
Taking == stage = "split" /\ calls # <<>> /\ Top.units # <<>>
Replace(frame) ==
  calls' = <<[frame EXCEPT !.units = Tail(@)]>> \o Tail(calls)

Whole(u) == Seg(u.start, u.end, "either")
Fits == Unit.end - Unit.start < MaxLines
Joins == Top.acc # <<>> /\ Unit.end - Top.acc[1].start < MaxLines

\* acc is the header of the node: nothing was given out yet and it is short.
IsHeader ==
  /\ Top.depth > 0 /\ ~Top.flushed /\ Top.acc # <<>> /\ ~Unit.node.trivia
  /\ (IF Top.own = <<>> THEN 0 ELSE Top.acc[1].end + 1 - Top.own[1]) <= HeaderMax
  /\ Rows(Top.acc[1]) <= MaxLines \div 2

Flushed ==
  IF Top.acc = <<>> THEN <<>>
  ELSE <<WithAffinity(Top.acc[1], IF Fits THEN "either" ELSE "fwd")>>

\* The unit joins the segment being filled.
Join ==
  /\ Taking /\ Joins
  /\ Replace([Top EXCEPT !.acc = <<Absorb(@[1], Whole(Unit))>>,
                         !.own = IF @ = <<>> THEN <<Unit.start>> ELSE @])
  /\ UNCHANGED <<file, segs, at, stage>>

\* It starts a segment of its own.
StartSegment ==
  /\ Taking /\ ~Joins /\ ~IsHeader /\ Fits
  /\ segs' = segs \o Flushed
  /\ Replace([Top EXCEPT !.acc = <<Whole(Unit)>>, !.own = <<Unit.start>>,
                         !.flushed = @ \/ Top.acc # <<>>])
  /\ UNCHANGED <<file, at, stage>>

\* A block of comments is cut, never descended into.
CutComments ==
  /\ Taking /\ ~Joins /\ ~IsHeader /\ ~Fits /\ Unit.node.trivia
  /\ segs' = segs \o Flushed \o Cut(Unit.start, Unit.end)
  /\ Replace([Top EXCEPT !.acc = <<>>, !.flushed = TRUE])
  /\ UNCHANGED <<file, at, stage>>

\* Segmenter::node: the unit's node is one segment with what is carried into
\* it, or is cut, or its children are walked.
Descend ==
  /\ Taking /\ ~Joins
  /\ IsHeader \/ (~Fits /\ ~Unit.node.trivia)
  /\ LET u == Unit
         prefix == IF IsHeader THEN Top.acc ELSE <<>>
         long == TooLong(Carried(prefix, u))
         carry == IF long THEN <<>> ELSE Carried(prefix, u)
         before == segs \o (IF IsHeader THEN <<>> ELSE Flushed)
                       \o (IF long THEN OnTheirOwn(prefix, u) ELSE <<>>)
         start == IF carry = <<>> THEN u.own ELSE carry[1].start
         own == Seg(u.own, u.end, "either")
         depth == Top.depth + 1
         rest == [Top EXCEPT !.units = Tail(@), !.acc = <<>>, !.flushed = TRUE] IN
     IF u.end - start < MaxLines \/ u.node.kids = <<>> \/ depth >= MaxDepth
       THEN /\ segs' = before \o
                 IF u.end - start >= MaxLines THEN Cut(start, u.end)
                 ELSE <<IF carry = <<>> THEN own ELSE Absorb(own, carry[1])>>
            /\ calls' = <<rest>> \o Tail(calls)
       ELSE /\ segs' = before
            /\ calls' = <<Frame(u.node, u.own, carry, depth), rest>> \o Tail(calls)
  /\ UNCHANGED <<file, at, stage>>

\* The loop is over: what is left is a trailing piece.
Return ==
  /\ stage = "split" /\ calls # <<>> /\ Top.units = <<>>
  /\ segs' = segs \o (IF Top.acc # <<>> /\ Top.flushed
                        THEN <<WithAffinity(Top.acc[1], "back")>> ELSE Top.acc)
  /\ calls' = Tail(calls)
  /\ UNCHANGED <<file, at, stage>>

-----------------------------------------------------------------------------
(* finish: trimmed segments, and segments for the rows none of them has.   *)

Trim(f, s) ==
  LET rows(i) == NonBlank(f, s[i].start, Lesser(s[i].end, EndRow(f)))
      kept == {i \in DOMAIN s : rows(i) # {}} IN
  At([i \in kept |-> Seg(Min(rows(i)), Max(rows(i)), s[i].affinity)], kept)

Covered == UNION {segs[i].start..segs[i].end : i \in DOMAIN segs}
Stray == NonBlank(file, 0, EndRow(file)) \ Covered

TrimAll ==
  /\ stage = "split" /\ calls = <<>>
  /\ segs' = Trim(file, segs)
  /\ stage' = "cover"
  /\ UNCHANGED <<file, calls, at>>

\* Faulty variant: the syntax tree has every row.
CoverNothing ==
  /\ stage = "cover"
  /\ stage' = "merge"
  /\ UNCHANGED <<file, calls, segs, at>>

\* Every run of rows that no segment has becomes one, cut at MaxLines.
Cover ==
  /\ stage = "cover"
  /\ IF Stray = {}
       THEN /\ stage' = "merge"
            /\ segs' = InOrder(ToSet(segs), LAMBDA x, y : x.start < y.start)
       ELSE LET r == Min(Stray)
                run == {e \in r..Lesser(r + MaxLines - 1, EndRow(file)) :
                          r..e \cap Covered = {}} IN
            /\ segs' = Append(segs, Seg(r, Max(run \cap Stray), "either"))
            /\ UNCHANGED stage
  /\ UNCHANGED <<file, calls, at>>

-----------------------------------------------------------------------------
\* chunk_text, if there is no tree: the next window, of Window rows at most,
\* ended before the last blank row that leaves it MinLines rows.
WindowSize == Greater(Lesser(Window, MaxLines), 1)
WindowEnd(f, s) ==
  LET hard == s + WindowSize - 1
      blanks == {b \in (s + MinLines)..(hard + 1) : Blank(f, b)}
      end == IF hard >= EndRow(f) THEN EndRow(f)
             ELSE IF blanks = {} THEN hard ELSE Max(blanks) - 1 IN
  Max(NonBlank(f, s, end) \cup {s})

Unread ==
  NonBlank(file, IF segs = <<>> THEN 0 ELSE segs[Len(segs)].end + 1, EndRow(file))

TakeWindow ==
  /\ stage = "text"
  /\ IF Unread = {}
       THEN stage' = "merge" /\ UNCHANGED segs
       ELSE /\ segs' = Append(segs, Seg(Min(Unread), WindowEnd(file, Min(Unread)), "back"))
            /\ UNCHANGED stage
  /\ UNCHANGED <<file, calls, at>>

-----------------------------------------------------------------------------
\* The rows that segment i would have together with a neighbour.
BackRows(i) == IF i = 1 THEN <<>> ELSE <<segs[i].end - segs[i - 1].start + 1>>
FwdRows(i) ==
  IF i = Len(segs) THEN <<>> ELSE <<segs[i + 1].end - segs[i].start + 1>>
Fit(rows) == rows # <<>> /\ rows[1] <= MaxLines
Undersized(i) == Rows(segs[i]) < MinLines

\* merge_small, and the same loop of chunk_text, which prefers the predecessor.
GoBack(i) ==
  /\ Fit(BackRows(i))
  /\ \/ ~Fit(FwdRows(i))
     \/ segs[i].affinity = "back"
     \/ /\ Fit(FwdRows(i)) /\ segs[i].affinity = "either"
        /\ BackRows(i)[1] <= FwdRows(i)[1]

Skip ==
  /\ stage = "merge" /\ at <= Len(segs)
  /\ ~Undersized(at) \/ ~(Fit(BackRows(at)) \/ Fit(FwdRows(at)))
  /\ at' = at + 1
  /\ UNCHANGED <<file, calls, segs, stage>>

MergeBack ==
  /\ stage = "merge" /\ at <= Len(segs) /\ Undersized(at) /\ GoBack(at)
  /\ segs' = [RemoveAt(segs, at) EXCEPT ![at - 1] = Absorb(@, segs[at])]
  /\ at' = at - 1
  /\ UNCHANGED <<file, calls, stage>>

MergeFwd ==
  /\ stage = "merge" /\ at <= Len(segs) /\ Undersized(at)
  /\ Fit(FwdRows(at)) /\ ~GoBack(at)
  /\ segs' = [RemoveAt(segs, at) EXCEPT ![at] = Absorb(@, segs[at])]
  /\ UNCHANGED <<file, calls, at, stage>>

-----------------------------------------------------------------------------
(* The names of a chunk.  The index of a definition stands for its name.    *)

\* chunk_symbol: the deepest definition around the chunk, or the one directly
\* in it that has more than half of the chunk's rows.
Overlap(f, d, seg) ==
  Cardinality(NonBlank(f, Greater(d.start, seg.start), Lesser(d.end, seg.end)))
Enclosing(f, seg) ==
  LET around == {i \in DOMAIN f.defs :
                   f.defs[i].start <= seg.start /\ f.defs[i].end >= seg.end} IN
  IF around = {} THEN 0 ELSE Max(around)
Symbol(f, seg) ==
  LET ds == f.defs
      out == Enclosing(f, seg)
      inner == {i \in DOMAIN ds : i > out /\ ds[i].parent = out /\ ds[i].start <= seg.end
                                  /\ ds[i].end >= seg.start} IN
  IF inner = {} THEN out
  ELSE LET most == Max({Overlap(f, ds[i], seg) : i \in inner}) IN
       IF 2 * most > Cardinality(NonBlank(f, seg.start, seg.end))
         THEN Min({i \in inner : Overlap(f, ds[i], seg) = most}) ELSE out

\* chunk_defines: the definitions whose name is on the chunk's rows.
Defines(f, seg) ==
  {i \in DOMAIN f.defs : f.defs[i].start \in seg.start..seg.end}

Describe ==
  /\ stage = "merge" /\ at > Len(segs)
  /\ segs' = [i \in DOMAIN segs |->
       [start |-> segs[i].start, end |-> segs[i].end,
        symbol |-> Symbol(file, segs[i]), defines |-> Defines(file, segs[i])]]
  /\ stage' = "done"
  /\ UNCHANGED <<file, calls, at>>

ChunkerNext ==
  \/ Join \/ StartSegment \/ CutComments \/ Descend \/ Return \/ TrimAll
  \/ Cover
  \/ TakeWindow
  \/ Skip \/ MergeBack \/ MergeFwd \/ Describe

ChunkerSpec == ChunkerInit /\ [][ChunkerNext]_chunkerVars

-----------------------------------------------------------------------------
Done == stage = "done"

\* chunk_source_with guarantees that chunks are sorted, never overlap, cover
\* every non-blank line, start and end on non-blank lines and span at most
\* max_lines, whatever the tree looks like: tokens that share a row, comments
\* between them, nodes without children, rows that no node has.  And although
\* merge_small passes over the segments once and never comes back to one it
\* rejected, no undersized chunk is left that fits with a neighbour.
ChunksSound ==
  Done =>
    /\ \A i \in DOMAIN segs :
         /\ segs[i].start <= segs[i].end /\ Rows(segs[i]) <= MaxLines
         /\ {segs[i].start, segs[i].end} \subseteq NonBlank(file, 0, EndRow(file))
         /\ i > 1 => segs[i - 1].end < segs[i].start
         /\ Undersized(i) => ~Fit(BackRows(i)) /\ ~Fit(FwdRows(i))
    /\ NonBlank(file, 0, EndRow(file)) \subseteq Covered
=============================================================================
