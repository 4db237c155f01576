------------------------------ MODULE Related ------------------------------
(***************************************************************************)
(* What is pointed at besides the ranked spans (crates/laya-rank:          *)
(* related.rs): the callees and callers of the best chunks one hop away,   *)
(* tests that use the task's names, and the lines that define and use a    *)
(* name, with the claim that these are all of them.                        *)
(***************************************************************************)
EXTENDS Corpus, Loops, Sequences, SequencesExt, FiniteSetsExt

CONSTANTS
  AmbiguousAbove,  \* AMBIGUOUS_ABOVE
  CallerLimit,     \* CALLER_LIMIT
  PerSeedIdents,   \* PER_SEED_IDENTS
  PerSeedDefines,  \* PER_SEED_DEFINES
  RelatedPerFile,  \* MAX_PER_FILE, TESTS_PER_FILE
  TestRefLimit,    \* TEST_REF_LIMIT
  UsageIdents,     \* USAGE_IDENTS
  UsageRefLimit    \* USAGE_REF_LIMIT

ASSUME RelatedAssumption ==
  {AmbiguousAbove, CallerLimit, PerSeedIdents, PerSeedDefines, RelatedPerFile,
   TestRefLimit, UsageIdents, UsageRefLimit} \subseteq Nat

First(q, k) == SubSeq(q, 1, Min({k, Len(q)}))
Each(q, Op(_)) == [i \in DOMAIN q |-> Op(q[i])]
FlatMap(q, Op(_)) == Flat(Each(q, Op))

ChunksWith(S) == At(ChunkOrder, {i \in DOMAIN ChunkOrder : ChunkOrder[i] \in S})

\* Store::chunks_defining and chunks_referencing of one name.
Defining(x) == ChunksWith({c \in Chunk : x \in ToSet(Info[c].defines)})
Referencing(x) == ChunksWith({c \in Chunk : x \in ToSet(Info[c].refs)})

Pointer(c, relation) ==
  [path |-> Info[c].path, start |-> Info[c].start, end |-> Info[c].end,
   relation |-> relation]
Meet(a, b) == a.path = b.path /\ a.start <= b.end /\ b.start <= a.end

-----------------------------------------------------------------------------
\* The chunks that define what the seeds refer to, unless it is ambiguous.
Callees(seeds) ==
  LET own == UNION {ToSet(Info[seeds[i]].defines) : i \in DOMAIN seeds}
      refs(s) == Info[s].refs
      idents(s) == First(At(refs(s), {i \in DOMAIN refs(s) : refs(s)[i] \notin own}),
                         PerSeedIdents)
      resolved(x) == IF Len(Defining(x)) > AmbiguousAbove THEN <<>> ELSE Defining(x) IN
  FlatMap(FlatMap(seeds, idents), resolved)

Callers(seeds) ==
  LET idents(s) == First(Info[s].defines, PerSeedDefines) IN
  FlatMap(FlatMap(seeds, idents), LAMBDA x : First(Referencing(x), CallerLimit))

Interleaved(a, b) ==
  Flat([i \in 1..Max({Len(a), Len(b)}) |->
          SubSeq(a, i, Min({i, Len(a)})) \o SubSeq(b, i, Min({i, Len(b)}))])

\* merge: none that meets a span or one already taken, few per file.
Merged(q, spans, max) ==
  At(q, Taken(Len(q), [i \in DOMAIN q |-> {T \in SomeBefore(i) :
          /\ Cardinality(T) < max
          /\ ~\E s \in spans : Meet(q[i], s)
          /\ ~\E j \in T : Meet(q[i], q[j])
          /\ Cardinality({j \in T : q[j].path = q[i].path}) < RelatedPerFile}]))

\* expand_related; a seed is never a neighbour of itself.
Neighbours(seeds, spans, max) ==
  LET others(q) == At(q, {i \in DOMAIN q : q[i] \notin ToSet(seeds)}) IN
  Merged(Interleaved(Each(others(Callees(seeds)), LAMBDA c : Pointer(c, "defines")),
                     Each(others(Callers(seeds)), LAMBDA c : Pointer(c, "calls"))),
         spans, max)

\* Store::chunks_referencing of several names: who uses most of them first.
ReferencingMost(names) ==
  LET most == Cardinality(names)
      users(k) == {c \in Chunk : Cardinality(ToSet(Info[c].refs) \cap names) = k} IN
  Flat([i \in 1..most |-> ChunksWith(users(most + 1 - i))])

\* test_pointers.
Tests(idents, n) ==
  LET all == First(ReferencingMost(ToSet(First(idents, UsageIdents))), TestRefLimit)
      q == At(all, {i \in DOMAIN all : Info[all[i]].test}) IN
  Each(At(q, Taken(Len(q), [i \in DOMAIN q |-> {T \in SomeBefore(i) :
               /\ Cardinality(T) < n
               /\ Cardinality({j \in T : Info[q[j]].path = Info[q[i]].path})
                    < RelatedPerFile}])),
       LAMBDA c : Pointer(c, "tests"))

-----------------------------------------------------------------------------
(* usage_list, within the limits [lines, each] (usage_lines,               *)
(* usage_per_ident).  A line is listed once, for the first name it has.    *)

\* Where x is found, definitions first; the store returns so many uses.
Places(x) ==
  IF Len(Defining(x)) > AmbiguousAbove THEN <<>>
  ELSE Each(Defining(x), LAMBDA c : [chunk |-> c, def |-> TRUE])
    \o Each(First(Referencing(x), UsageRefLimit), LAMBDA c : [chunk |-> c, def |-> FALSE])

LineOf(x, place) ==
  [path |-> Info[place.chunk].path, line |-> Info[place.chunk].line[x], name |-> x,
   def |-> place.def, all |-> FALSE]

SameLine(a, b) == a.path = b.path /\ a.line = b.line

\* The lines of x that come after the lines of the names before it: those
\* looked at until a cap is reached, and those of them that are new.
Looked(x, before, limit) ==
  LET ps == Places(x)
      line(i) == LineOf(x, ps[i])
      new(i) == /\ line(i).line # 0
                /\ ~\E j \in DOMAIN before : SameLine(before[j], line(i))
                /\ ~\E j \in 1..(i - 1) : line(j).line # 0 /\ SameLine(line(j), line(i))
      room(i) ==
        LET news == Cardinality({j \in 1..(i - 1) : new(j)}) IN
        news < limit.each /\ Len(before) + news < limit.lines IN
  [places |-> ps,
   shown |-> {i \in DOMAIN ps : room(i) /\ line(i).line # 0},
   new |-> {i \in DOMAIN ps : room(i) /\ new(i)}]

\* Faulty variant: every line found so far is taken for all of them.
AllShownUpToTheLimit(x, looked) ==
  Cardinality(looked.shown) = Len(looked.places)

\* The list is complete: the store returned every use, each got a line.
AllShown(x, looked) ==
  /\ Len(First(Referencing(x), UsageRefLimit)) < UsageRefLimit
  /\ Cardinality(looked.shown) = Len(looked.places)

WithUsagesOf(x, before, limit) ==
  LET looked == Looked(x, before, limit)
      mark(l) == [l EXCEPT !.all = l.def /\ AllShown(x, looked)] IN
  before \o At([i \in DOMAIN looked.places |-> mark(LineOf(x, looked.places[i]))], looked.new)

Usages(idents, limit) ==
  LET xs == First(idents, UsageIdents)
      upTo[k \in 0..Len(xs)] ==
        IF k = 0 THEN <<>> ELSE WithUsagesOf(xs[k], upTo[k - 1], limit) IN
  upTo[Len(xs)]
=============================================================================
