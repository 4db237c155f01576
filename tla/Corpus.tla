------------------------------- MODULE Corpus -------------------------------
(* The indexed chunks of a repository, as Store::get_chunks returns them.   *)
EXTENDS Integers, FiniteSets, Sequences, SequencesExt

CONSTANTS
  Name,       \* identifiers
  Chunk,      \* chunk ids
  Info,       \* [Chunk -> [path, start, end, text, test, defines, refs, line]]:
              \* text: Lang::Text; test: is_test_path; line[x]: the first line
              \* of the chunk that has the name x, or 0
  ChunkOrder  \* the chunks in the order the symbol lookups return them in

\* Each file has the chunks of one version of it, and no two chunks of a
\* version start on the same line (Chunker).
ASSUME CorpusAssumption ==
  /\ IsFiniteSet(Chunk)
  /\ \A c \in Chunk :
       /\ Info[c].start \in Nat /\ Info[c].end \in Nat
       /\ Info[c].defines \in Seq(Name) /\ Info[c].refs \in Seq(Name)
       /\ Info[c].line \in [Name -> Nat]
  /\ \A c, d \in Chunk : Info[c].path = Info[d].path /\ Info[c].start = Info[d].start => c = d
  /\ ChunkOrder \in Seq(Chunk) /\ ToSet(ChunkOrder) = Chunk
=============================================================================
